SPECIFICATION FairSpec
CONSTANTS
  Unit = 2
  Sizes = {1}
  Anonymous = {2}
  CalmAdoption = FALSE
  MaxTrades = 3
  MaxRoster = 2
  MaxDials = 2
  MaxStarts = 2
  MaxFaults = 1
INVARIANTS AppliedOnce FillsConserved
PROPERTIES RosterSubscribed PositionConverges
CHECK_DEADLOCK FALSE
