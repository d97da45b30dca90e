CONSTANTS
  CanIds <- WatchedIds
  Frequencies <- MCFrequencies
  Timer = 1
  Start = 1
  Horizon = 3
  MaxLag = 1
  MaxLead = 0
  IntRange = 3
  ULongRange = 18
SPECIFICATION FairSpec
PROPERTIES
  CallsReturn
  SilenceNoticed
CHECK_DEADLOCK FALSE
