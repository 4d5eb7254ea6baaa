SPECIFICATION Spec
CONSTANTS
  Dollar = 4
  Prices = {1, 3}
  Threshold = 2
  None = None
  MidsLogged = FALSE
  EarlyPayouts = {"down", "running"}
  ClearWhileRunning = FALSE
  MaxHeld = 1
  MaxFills = 1
  MaxMoves = 1
  MaxStarts = 3
  MaxCrashes = 1
  MaxClears = 1
INVARIANTS PeakFlagged
PROPERTIES HaltIsJustified PeakPersists
CHECK_DEADLOCK FALSE
