SPECIFICATION FairSpec
CONSTANTS
  Sides = {"bid"}
  MaxOrders = 2
  MaxSize = 1
  MaxFaults = 1
  Cap = 2
  ConfirmLost = 2
  ListDelay = 1
  ListLag = TRUE
  WsFirst = FALSE
  MayEvict = FALSE
PROPERTIES StrayOrderCancelled GhostRefCleared PositionConverges
