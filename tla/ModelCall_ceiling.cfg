SPECIFICATION CallSpec
CONSTANTS
  MaxPieces = 3
  MaxAttempts = 2
INVARIANTS
  TransientIsRetried
CHECK_DEADLOCK FALSE
