SPECIFICATION Spec
CONSTANTS
  Capacity = 4
  Width = 4
  UIntModulus = 64
  SizeModulus = 64
  Offsets = {0}
  WriteLengths = {1, 3}
  Reads = {1, 2}
PROPERTY IsQueue
