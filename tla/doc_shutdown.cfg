SPECIFICATION Spec
CONSTANTS
  Tickers = {a, b}
  a = a
  b = b
  Modes = {"run"}
  MaxStarts = 1
  MaxEvents = 0
INVARIANT ShutdownCompletes
CHECK_DEADLOCK FALSE
