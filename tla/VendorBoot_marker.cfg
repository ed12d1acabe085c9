\* Does the done marker mean the chain is installed?
SPECIFICATION Spec
CONSTANTS
  Retry = 3
  MaxPids = 1
  MaxDrops = 0
  MaxSteps = 0
  MaxFails = 0
  SdCards <- GoodCards
  Worlds <- LateOnly
INVARIANTS
  DoneMeansChained
