SPECIFICATION FairSpec
CONSTANTS
  QuoteSize = 2
  Cap = 2
  Alert = 1
  MaxUnheard = 1
INVARIANTS
  CapHeld
PROPERTIES
  UnwantedGoes
  DistressRaised
CHECK_DEADLOCK FALSE
