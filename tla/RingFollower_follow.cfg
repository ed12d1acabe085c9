\* Every mode, against a writer that publishes late and twice and may lap.
SPECIFICATION FairSpec
CONSTANTS
  Setups <- AllSetups
  TableSlots = 6
  PayloadSlots = 6
  Delay = 2
  Lateness = 2
  MaxAttempts = 2
  MaxRepeats = 1
  MaxRounds = 2
INVARIANTS
  WholeUnits
  KeyFirst
  TimesRise
PROPERTIES
  NoneSkipped
  CatchesUp
\* A client that is gone is not served any more.
CHECK_DEADLOCK FALSE
