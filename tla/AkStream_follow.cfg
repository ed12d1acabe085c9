\* The index is read in one piece or byte by byte; pauses are shorter than a
\* round of the ring.  As in the code the payload area holds MAX_BACKLOG
\* entries, and not one more.
SPECIFICATION FairSpec
CONSTANTS
  DESC_COUNT = 6
  MAX_BACKLOG = 3
  PAYLOAD_SIZE = 5
  Frame = 2
  Header = 1
  Byte = 4
  Tears = TRUE
  FrameLimit = 11
  PollSlack = 3
  BatchSlack = 1
INVARIANTS
  InOrder
  FedWhole
PROPERTIES
  CatchesUp
\* The reader ends after a signal, and the writer at FrameLimit.
CHECK_DEADLOCK FALSE
