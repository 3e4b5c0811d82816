SPECIFICATION MCSpec
CONSTANTS
  Stores = {"tagdb"}
  RiscOS = TRUE
  i1 = i1
  i2 = i2
  n1 = n1
  n2 = n2
  Ids = {i1, i2}
  Names = {n1, n2}
  None = None
  BinOf <- MCBinOf
  MinAlloc = 1
  TokenMax = 1
  LineMax = 1
  CountMin = 0
  CountMax = 2
  MayFail = FALSE
SYMMETRY NameSymmetry
INVARIANT CountsExact
CHECK_DEADLOCK TRUE
