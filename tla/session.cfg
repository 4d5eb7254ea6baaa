SPECIFICATION Spec
CONSTANTS
  Tickers = {a, b}
  a = a
  b = b
  Modes = {"run", "fifteen"}
  MaxStarts = 1
  MaxEvents = 1
INVARIANT NeverAbandoned
PROPERTIES ShutdownClean
CHECK_DEADLOCK FALSE
