SPECIFICATION Spec
CONSTANTS
  NPrograms = 3
  MaxMaps = 2
  MaxKeys = 3
CHECK_DEADLOCK FALSE
INVARIANT KeyNotOlder
INVARIANT OneScreen
PROPERTY NoThreadAfterUp
