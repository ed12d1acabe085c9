\* Two clients, one of whom does not wait for answers; the stream goes on.
SPECIFICATION FairSpec
CONSTANTS
  Clients = {c1, c2}
  NoClient = NoClient
  Hasty = {c2}
  Requests <- AskedFor
  MaxRequests = 3
  ListenBacklog = 0
  BufferSize = 2
  SeqStarts <- Wrapping
  RTP_MAX_PAYLOAD = 1200
  AUDIO_PREFIX_SCAN_LIMIT = 80
  SeqSpace = 2
  AccessUnits <- EdgeUnits
  AudioEntries <- EdgeAudio
INVARIANTS
  OneAnswerEach
  PacketsAsAgreed
  WellFormed
PROPERTIES
  DeliversUnits
  Answered
  Served
CHECK_DEADLOCK FALSE
