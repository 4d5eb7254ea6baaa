SPECIFICATION Spec
CONSTANTS
  Sides = {"bid"}
  MaxOrders = 2
  MaxSize = 2
  MaxFaults = 0
  Cap = 2
  ConfirmLost = 2
  ListDelay = 1
  ListLag = FALSE
  WsFirst = FALSE
  MayEvict = TRUE
PROPERTY NeverDoublePlaces
