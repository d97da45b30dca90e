CONSTANTS
  Configs <- MCConfigs
  TimerOf <- MCTimerOf
  MaxInstances = 2
  MaxBatch = 2
  PipeLines = 1
SPECIFICATION FairSpec
INVARIANTS
  TypeOK
  LoggerOutlivesItsUsers
  CreateAllOrNothing
  SoundConfigsSurvive
PROPERTY CallReturns
CHECK_DEADLOCK FALSE
