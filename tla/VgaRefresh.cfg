SPECIFICATION ScreenFairSpec
CONSTANTS
  CTR_ROW = 3
  Pixels = {0, 1}
INVARIANT ScreenTypeOK
INVARIANT StaleOnlyIfRaced
INVARIANT DirtyLinesNoticed
PROPERTY UnracedLinesShown
