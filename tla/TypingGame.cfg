SPECIFICATION GameFairSpec
CONSTANTS
  SIZE = 3
  Letters = {1, 2}
  Bottom = 4
  Rise = 3
  Period = 2
  MaxLag = 2
INVARIANT GameTypeOK
INVARIANT ListIntact
INVARIANT LettersFit
INVARIANT PositionsFollowClock
INVARIANT InterruptsOnOutsideKeys
PROPERTY CatchesUp
