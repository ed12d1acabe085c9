\* Both stubs of the chain and the one of a new thread, frame by frame.
SPECIFICATION Spec
CONSTANTS
  Jobs = {"chain", "thread"}
  MaxFrames = 2
INVARIANTS
  BothGetTheFrame
  NoHarm
CHECK_DEADLOCK FALSE
