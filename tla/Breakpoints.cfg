SPECIFICATION FairSpec
CONSTANTS
  NAddrs = 2
  Program <- PlainProgram
  Handlers = {1}
  NR_BP = 3
  Commands = {"b", "w", "d", "c", "si", "q"}
  MaxBreakpoints = 2
  MaxWatchpoints = 2
  MaxSteps = 1
  MaxN = 2
INVARIANT TypeOK
INVARIANT PoolIntact
 
INVARIANT OnlyBreakpointsPatched
PROPERTY ContinueAdvances
