SPECIFICATION MCSpec
CONSTANTS
  j1 = j1  j2 = j2  s1 = s1  open = open  w1 = w1  w2 = w2
  Job    <- MCTwoJob
  Owner  <- MCOwner
  Anyone = open
  Waiter <- MCOneWaiter
  MaxPerOwner = 1
  CancelThrows = TRUE
  Await <- MCWaiter
  MaxMessages = 4
  BornAborted = TRUE
  SendCall = {"s1"}
  WaitCall = {"w1"}
  ControlCall = {"interrupt", "close"}
  MaxCalls = 6
  MaxParallel = 3
  MaxSubagents = 5
  Budgets <- MCBudgets
  GraceMs = 4
  MaxTime = 6
  MaxPieces = 3
  MaxAttempts = 2
  RpcCall = {"c1", "c2"}
  DiagCall = {"d1"}
  Closer = {"x1", "x2"}
  MaxServer = 2
  TurnAsk = {"t1"}
  ChildAsk = {"c1"}
  TurnQuiz = {"q1"}
  MaxTurn = 2
  LanPeer = {"p1"}
  Ttl = 1
  MaxStarts = 2
  MaxCopies = 1
INVARIANTS
  EndedForAll
  BodyIsTold
  LimitsHold
  NoLostWakeup
  CompletedIsReal
  ModelOrder
  ReturnsComplete
  ReplyIsShown
  AnswersAreTheirOwn
PROPERTIES
  DelegatedWorkEnds
  ImplementsBoard
  RequestsEnd
  LanIsFollowed
CHECK_DEADLOCK FALSE
