CONSTANTS
  Absent = Absent
  Empty = Empty
  MaxLines = 3
  MaxStarts = 2
SPECIFICATION FairSpec
INVARIANTS
  TypeOK
  PositionAtLineStart
  NothingSkipped
  CleanStopResumes
PROPERTIES
  TermEndsSession
  Progress
CHECK_DEADLOCK FALSE
