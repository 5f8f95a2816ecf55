SPECIFICATION ReloadSpec
CONSTANTS
  MaxOpen = 2
  MaxSaid = 1
  MaxTitles = 0
INVARIANTS
  TranscriptSurvives
CHECK_DEADLOCK FALSE
