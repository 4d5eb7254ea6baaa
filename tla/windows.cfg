SPECIFICATION FairSpec
CONSTANTS
  Last = 0
  Period = 4
  Forming = 1
  PullBefore = 2
  AverageBefore = 1
  Grace = 2
  Ttl = 2
  Cooloff = 1
  ReconcileEvery = 1
  Cap = 1
  PayoutWaits = TRUE
  MaxFills = 1
  MaxLost = 1
  MaxUpsets = 1
INVARIANTS QuietAverage SentBeforePull FrozenIsFlat BookedOnce RealisedOnce
PROPERTIES PullsTakeEffect NeverRejoined WindowsEnd
CHECK_DEADLOCK FALSE
