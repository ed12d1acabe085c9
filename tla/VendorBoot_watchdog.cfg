\* Every card, every way an rtsp_kick can fail, restarts, drops, clock steps.
SPECIFICATION FairSpec
CONSTANTS
  Retry = 3
  MaxPids = 2
  MaxDrops = 1
  MaxSteps = 1
  MaxFails = 2
  SdCards <- AllCards
  Worlds <- CalmAndWild
INVARIANTS
  KickFitsFirmware
PROPERTIES
  BackoffHeld
  Settles
