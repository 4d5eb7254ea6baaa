SPECIFICATION Spec
CONSTANTS
  Last = 0
  Period = 4
  Forming = 1
  PullBefore = 2
  AverageBefore = 1
  Grace = 2
  Ttl = 3
  Cooloff = 1
  ReconcileEvery = 1
  Cap = 1
  PayoutWaits = TRUE
  MaxFills = 0
  MaxLost = 0
  MaxUpsets = 0
INVARIANT ValuedOnce
CHECK_DEADLOCK FALSE
