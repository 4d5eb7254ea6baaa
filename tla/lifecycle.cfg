SPECIFICATION Spec
CONSTANTS
  Sides = {"bid"}
  MaxOrders = 2
  MaxSize = 2
  MaxFaults = 1
  Cap = 2
  ConfirmLost = 2
  ListDelay = 1
  ListLag = FALSE
  WsFirst = TRUE
  MayEvict = TRUE
INVARIANTS RegistryMatchesRefs NoStrayOrder
PROPERTIES VanishIsSound NeverDoublePlaces
