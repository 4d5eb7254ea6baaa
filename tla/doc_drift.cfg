SPECIFICATION Spec
CONSTANTS
  Unit = 2
  Sizes = {1, 2}
  Anonymous = {}
  CalmAdoption = TRUE
  MaxTrades = 3
  MaxRoster = 1
  MaxDials = 1
  MaxStarts = 1
  MaxFaults = 0
INVARIANT DriftBounded
CHECK_DEADLOCK FALSE
