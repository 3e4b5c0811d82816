SPECIFICATION AgeFairSpec
CONSTANTS
  k1 = k1
  k2 = k2
  k3 = k3
  Keys = {k1, k2, k3}
  Values = {"data"}
  NBins = 2
  NEntries = 3
  BinOf <- MCBinOf
  Quantum = 16
  StoreLen = 4
  Lengths = {16, 32, 49}
  TimeMax = 100
  ClockBound = 5
  StatMax = 1
  Header = "free"
  NoPut = NoPut
PROPERTIES EvictsOldestOfChain LastUsedSurvives PutReturns
