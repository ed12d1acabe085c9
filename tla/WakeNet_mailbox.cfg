\* A speech server that may never answer, except where a property says so.
SPECIFICATION FairSpec
CONSTANTS
  MaxWakes = 4
  MaxSpurious = 1
INVARIANTS
  ExitDrains
  OnceIsOnce
PROPERTIES
  AudioGoesOn
  KeepsPromise
  Exits
