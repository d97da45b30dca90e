CONSTANTS
  NULL = NULL
  Elements <- MCElements
  MaxElements = 7
  Numbers <- MCNumbers
  Halves <- MCHalves
  Stray <- MCStray
SPECIFICATION MCSpec
INVARIANTS
  TypeOK
  TreesOwnedOnce
  LoadedConfigSound
  RegularFileSurvives
  TreeIsWhatTheRuleSays
  MatchesAsWritten
PROPERTY StoredIsFinal
CHECK_DEADLOCK FALSE
