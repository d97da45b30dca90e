CONSTANTS
  Absent = Absent
  Empty = Empty
  MaxLines = 3
  MaxStarts = 2
SPECIFICATION Spec
INVARIANT LinesPublishedWhole
CHECK_DEADLOCK FALSE
