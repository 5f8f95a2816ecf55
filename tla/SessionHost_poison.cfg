SPECIFICATION Spec
CONSTANTS
  Sid = {s1, s2}
  MaxRequests = 3
  Idle = Idle
  Unknown = Unknown
  OnDisk = {s1}
  MaxSessions = 1
  MaxStarting = 2
  StartFails = TRUE
INVARIANTS
  AbortHitsItsOwnTurn
CHECK_DEADLOCK FALSE
