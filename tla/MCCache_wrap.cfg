SPECIFICATION Spec
CONSTANTS
  k1 = k1
  k2 = k2
  k3 = k3
  v1 = v1
  v2 = v2
  Keys = {k1, k3}
  Values = {v1}
  NBins = 2
  NEntries = 2
  BinOf <- MCBinOf
  Quantum = 16
  StoreLen = 2
  Lengths = {16, 32}
  TimeMax = 2
  ClockBound = 3
  StatMax = 0
  Header = Header
  NoPut = NoPut
INVARIANT NeverAborts
