CONSTANTS
  CanIds <- MCCanIds
  Frequencies <- MCFrequencies
  Timer = 1
  Start = 2
  Horizon = 5
  MaxLag = 1
  MaxLead = 0
  IntRange = 3
  ULongRange = 18
SPECIFICATION Spec
PROPERTY AlertedWereSilent
CHECK_DEADLOCK FALSE
