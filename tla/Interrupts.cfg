SPECIFICATION FairSpec
CONSTANT MaxFrames = 3
INVARIANT TypeOK
INVARIANT HandlersNotNested
PROPERTY LatchSpec
PROPERTY InterruptsKeepComing
PROPERTY StopsUnlessHalted
