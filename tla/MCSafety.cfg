SPECIFICATION MCSpec
CONSTANTS
  p1 = p1  p2 = p2  p3 = p3
  a1 = a1  a2 = a2  b1 = b1  c1 = c1
  NoLease = NoLease
  Proc   <- MCProc
  Lease  <- MCLease
  ProcOf <- MCProcOf
  Overlap = FALSE
  f1 = f1  fc = fc
  Flush   <- MCFlush
  Closers <- MCClosers
  MaxLine = 3
  MaxRewrite = 1
  MaxFault = 2
  MaxBatch = 2
  MaxPrompts = 1
  MaxNotices = 2
  MaxReplies = 1
  MaxKeep = 1
  MaxCompactions = 1
  Peer = {"p1", "p2"}
  Listed <- MCListed
  Browser = {"m1", "m2"}
  MaxAnnounce = 3
  Agent = {"a1", "a2"}
  Run = {"r1", "r2"}
  MaxRetries = 1
  CallId <- MCCallId
  MaxInReply = 2
  MaxRounds = 3
  MaxTries = 2
  MaxGen = 6
  Terminal = {"p1", "p2"}
  Name = {"n"}
  Evolver = {"e1", "e2"}
  Ruleset = {0, 1, 2, 3}
  Default = 1
  Missing = 100
  TornFile = 101
  Solo = TRUE
  MaxCycles = 1
  MaxAsk = 3
  MaxTyped = 3
  Text = {1}
  MaxActs = 4
  MaxWords = 2
  MaxTools = 1
  LanPeer = {"p1"}
  Ttl = 2
  MaxStarts = 3
  MaxCopies = 1
  MaxOpen = 2
  MaxSaid = 3
  MaxTitles = 1
  Draft = {"d1", "d2"}
  Host = "repl"
INVARIANTS
  Exclusive
  LiveLockIsHeld
  NothingBufferedIsLost
  PromisesKept
  PlanModeHolds
  NothingSaidIsLost
  PeersAsAnnounced
  BoardTells
  WireIsSound
  LossIsRetried
  NoOrphanShell
  NeverWorse
  TypedInOrder
  ScreenIsTrue
PROPERTIES
  ImplementsMutex
CHECK_DEADLOCK FALSE
