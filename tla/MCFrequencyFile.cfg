CONSTANTS
  Words <- MCWords
  IntOf <- MCIntOf
  Unread = "<unread>"
SPECIFICATION MCSpec
INVARIANTS
  ThresholdsUsable
  LoadedIsTheFile
CHECK_DEADLOCK FALSE
