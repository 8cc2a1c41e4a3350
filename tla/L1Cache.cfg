SPECIFICATION Spec
CONSTANTS
  Tags = 2
  Groups = 2
  LineSize = 4
  Lens = {1, 2, 4}
  Values <- Bits
  Images <- ZeroImage
  NWays = 2
  PastEnd <- OnesPastEnd
  Reads <- BoundaryReads
  Writes <- BoundaryWrites
INVARIANT TypeOK
INVARIANT StaleOnlyIfCrossed
PROPERTY FlatUntilCrossed
