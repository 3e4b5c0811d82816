SPECIFICATION MCSpec
CONSTANTS
  Machines = {"bitfifo", "packbits", "movetofront", "bytestream", "unpickle"}
  Capacity = 5
  Width = 4
  UIntModulus = 64
  SizeModulus = 256
  Offsets = {0, 3}
  WriteLengths = {0, 1, 2, 4}
  Reads = {0, 1, 3}
  TabSize = 2
  MaxRun = 4
  EarlyFill = FALSE
INVARIANTS PackBitsGivesInput PackBitsEndsWhenRead MtfKeepsInput PickleReadWhole
PROPERTIES IsQueue StreamsReadInOrder ReadersEnd
CHECK_DEADLOCK FALSE
