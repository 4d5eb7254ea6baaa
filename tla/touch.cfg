SPECIFICATION FairSpec
CONSTANTS
  Dollar = 4
  Levels = {1, 2}
  Cap = 2
  MaxLoss = 2
  Tilt = 4
  MaxLag = 1
INVARIANTS
  BestExact
  CaughtUp
PROPERTIES
  NeverLeads
  AloneIsBrief
  JoinsTouch
CHECK_DEADLOCK FALSE
