SPECIFICATION Spec
CONSTANTS
  HALF = 2
  MaxLen = 3
CHECK_DEADLOCK FALSE
INVARIANT FlagsRight
INVARIANT LongRight
