CONSTANTS
  CanIds <- MCCanIds
  Frequencies <- MCFrequencies
  Timer = 1
  Start = 2
  Horizon = 4
  MaxLag = 2
  MaxLead = 1
  IntRange = 3
  ULongRange = 18
SPECIFICATION Spec
INVARIANTS
  TypeOK
  ScanMissesNothing
  FrequencyMeasured
PROPERTIES
  AlertJustified
  BlindForEver
  ImplementsWatch
CHECK_DEADLOCK FALSE
