SPECIFICATION Spec
CONSTANTS
  Mids = {0, 1, 2, 3}
  Spreads = {1, 3}
  Threshold = 1
  Window = 1
  Cooloff = 2
  Confirm = 2
  EvictTrips = 2
  MaxUpdates = 3
  None = None
INVARIANTS SpreadMinExact GapBlocks
PROPERTIES ActsAsBreaker
