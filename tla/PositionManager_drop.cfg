SPECIFICATION Spec
CONSTANTS
  Sides = {"BUY"}
  Prices = {1, 2, 3}
  Targets = {3}
  SlPoints = 1
  TrailOffset = 0
  WidenPips = 1
  Faults = {}
  MaxPositions = 1
  MaxBars = 4
PROPERTY DropMeansClosed
