\* Costs fit into the integers: the verdict is that of the cheapest path.
SPECIFICATION Spec
CONSTANTS
  UintRange = 1024
  INF_COST = 255
  MAX_FEATURE_FRAMES = 8
  FEATURE_SCALE = 4
  Utterances <- AllUtterances
  Templates <- OneOrTwo
  Bands = {1, 2}
  Thresholds = {1, 4}
INVARIANTS
  VerdictIsSharp
  RightVerdict
