SPECIFICATION MCSpec
CONSTANTS
  Machines = {"packbits"}
  Capacity = 6
  Width = 4
  UIntModulus = 64
  SizeModulus = 64
  Offsets = {0}
  WriteLengths = {0, 1, 2, 4, 5}
  Reads = {0, 1}
  TabSize = 2
  MaxRun = 4
  EarlyFill = FALSE
CHECK_DEADLOCK FALSE
INVARIANT CompressorLosesNone
