SPECIFICATION Spec
CONSTANTS
  w1 = w1
  w2 = w2
  w3 = w3
  s1 = s1
  s2 = s2
  s3 = s3
  Writers = {w1, w2, w3}
  Sealers = {s1, s2}
  NoWriter = NoWriter
  MaxRows = 2
  MaxNow = 2
  SealsOverlap = FALSE
SYMMETRY Sym
INVARIANTS
  TypeOK
  ChainIsLinear
  SealedOnce
  ArchiveMatchesObject
PROPERTIES
  ChainGrowsAtTheEnd
CHECK_DEADLOCK FALSE
