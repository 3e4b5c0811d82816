SPECIFICATION Spec
CONSTANTS
  k1 = k1
  k2 = k2
  k3 = k3
  v1 = v1
  v2 = v2
  Keys = {k1, k2, k3}
  Values = {v1, v2}
  NBins = 2
  NEntries = 3
  BinOf <- MCBinOf
  Quantum = 16
  StoreLen = 4
  Lengths = {16, 17, 48, 65}
  TimeMax = 100
  ClockBound = 5
  StatMax = 0
  Header = Header
  NoPut = NoPut
PROPERTIES KeepsPromise
INVARIANTS TypeOK EntriesOnOneChain FreeListCoalesced BlocksApart NothingLeaks DataIntact NeverAborts
