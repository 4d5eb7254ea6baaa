SPECIFICATION FairSpec
CONSTANTS
  Tickers = {a}
  a = a
  Modes = {"run", "fifteen"}
  MaxStarts = 2
  MaxEvents = 1
INVARIANTS EvictedStaysOut
PROPERTIES HaltHolds AlarmsStop LeftoversGo
CHECK_DEADLOCK FALSE
