SPECIFICATION MCSpec
CONSTANTS
  Stores = {"tagdb", "atomset", "digestdb", "hash", "filenamedb"}
  RiscOS = TRUE
  i1 = i1
  i2 = i2
  n1 = n1
  n2 = n2
  Ids = {i1, i2}
  Names = {n1, n2}
  None = None
  BinOf <- MCBinOf
  MinAlloc = 1
  TokenMax = 1
  LineMax = 1
  CountMin = 0
  CountMax = 2
  MayFail = TRUE
SYMMETRY NameSymmetry
INVARIANTS TypeOK LiveBitsOnly NamesUnique MissesNone HashKeepsKeys
PROPERTIES IsRelation CountsDriftOnly AtomNamesKept DigestIndexesHold FilenamesKept
CHECK_DEADLOCK FALSE
