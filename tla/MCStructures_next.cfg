SPECIFICATION MCSpec
CHECK_DEADLOCK FALSE
CONSTANTS
  Machines = {"bitvec"}
  MayFail = TRUE
  Page <- MCPage
  MarginSets <- MCMargins
  Areas <- MCAreas
  Locs = {"TOP_LEFT", "BOTTOM_RIGHT"}
  LayoutLocs = {"TOP_LEFT"}
  Sizes = {0, 2}
  Lengths = {0, 1, 2, 3, 4}
  ClearDirs = {"LEFT", "BOTH"}
  InitialAreas = 4
  Extreme = 99
  MaxTaken = 3
  ElementLists <- MCElements
  Spacings = {0, 1}
  BoxRoom = {2}
  MaxObstacles = 1
  ChosenRoom = 4
PROPERTY BitVecNextIsNext
