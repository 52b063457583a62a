SPECIFICATION FairSpec
CONSTANTS
  Keys = {"k1", "k2"}
  SymbolOf <- MCSymbolOf
  MaxRetries = 3
  DedupWindow = 1
  MaxRemembered = 1
  Faults = {"ambiguous", "unpriced", "invisible"}
  MaxNow = 1
  MaxCalls = 3
  MaxBlurred = 1
CHECK_DEADLOCK FALSE
INVARIANTS OneOrderPerWindow OutcomeIsTrue
PROPERTIES EntryIsReal CallEnds
