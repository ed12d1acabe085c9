\* Two rtsp_kick processes contend for the thread: the boot script's commands
\* and the speaker script's, one stray signal, timeouts, a lost alarm.
SPECIFICATION Spec
CONSTANTS
  Kicks = {k1, k2}
  NoKick = NoKick
  Configs <- PairLines
  MaxSignals = 1
  MaxKills = 0
  AlarmRace = TRUE
  TargetMayDie = FALSE
SYMMETRY KickSymmetry
INVARIANTS
  ChainSound
  NoAbandonedCall
  StartOnce
PROPERTIES
  PatchReplacesWhatWasRead
CHECK_DEADLOCK FALSE
