SPECIFICATION TurnsSpec
CONSTANTS
  MaxPrompts = 1
  MaxNotices = 2
  MaxReplies = 1
  MaxKeep = 2
  MaxCompactions = 1
INVARIANTS
  DroppedOnlyIfCarried
CHECK_DEADLOCK FALSE
