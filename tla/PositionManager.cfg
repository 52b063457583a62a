SPECIFICATION Spec
CONSTANTS
  Sides = {"BUY", "SELL"}
  Prices = {1, 2, 3}
  Targets = {0, 1, 3, 4}
  SlPoints = 1
  TrailOffset = 0
  WidenPips = 1
  Faults = {"ambiguous", "rejected", "skipped"}
  MaxPositions = 1
  MaxBars = 5
INVARIANT MapMatchesBroker
PROPERTIES LooseningOnlyInWindow ProfitLockKept DropJustified
