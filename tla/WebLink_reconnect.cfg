SPECIFICATION LinkSpec
CONSTANTS
  MaxTries = 2
  MaxGen = 6
INVARIANTS
  NeverStranded
CHECK_DEADLOCK FALSE
