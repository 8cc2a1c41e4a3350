SPECIFICATION Spec
CONSTANTS
  NAddrs = 2
  Program <- PlainProgram
  Handlers = {1}
  NR_BP = 3
  Commands = {"b", "c", "si"}
  MaxBreakpoints = 2
  MaxWatchpoints = 0
  MaxSteps = 1
  MaxN = 2
INVARIANT RestoresOriginal
