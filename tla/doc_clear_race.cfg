SPECIFICATION Spec
CONSTANTS
  Dollar = 4
  Prices = {1, 3}
  Threshold = 2
  None = None
  MidsLogged = TRUE
  EarlyPayouts = {}
  ClearWhileRunning = TRUE
  MaxHeld = 1
  MaxFills = 2
  MaxMoves = 2
  MaxStarts = 2
  MaxCrashes = 0
  MaxClears = 1
PROPERTY HaltIsJustified
CHECK_DEADLOCK FALSE
