SPECIFICATION LiveSpec
CONSTANTS
  Sid = {s1, s2}
  MaxRequests = 4
  Idle = Idle
  Unknown = Unknown
  OnDisk = {s1}
  MaxSessions = 1
  MaxStarting = 2
  StartFails = TRUE
INVARIANTS
  BusyIsTrue
  CancelIsReported
  RetiredIsDisarmed
  LeaseOwnedUnlessThrown
  OverCapOnlyByStarts
PROPERTIES
  NothingStaysOpen
  ModelFixedDuringTurn
CHECK_DEADLOCK FALSE
