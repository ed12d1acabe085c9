\* One rtsp_kick, every command line, two stray signals, one kill.
SPECIFICATION FairSpec
CONSTANTS
  Kicks = {k1}
  NoKick = NoKick
  Configs <- AllLines
  MaxSignals = 2
  MaxKills = 1
  AlarmRace = FALSE
  TargetMayDie = TRUE
INVARIANTS
  TypeOK
  TargetSurvives
  FrozenOnlyBySignal
PROPERTIES
  CleanSuccess
  SuccessDelivers
  DryRunTouchesNothing
  Terminates
CHECK_DEADLOCK FALSE
