\* Do the retries bring the ports up?
SPECIFICATION FairSpec
CONSTANTS
  Retry = 3
  MaxPids = 1
  MaxDrops = 0
  MaxSteps = 0
  MaxFails = 1
  SdCards <- GoodCards
  Worlds <- BreaksOnly
PROPERTIES
  PortsComeUp
