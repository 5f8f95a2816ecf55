SPECIFICATION Spec
CONSTANTS
  a = a  b = b
  CallId <- MCTwoIds
  Registered = TRUE
  McpRouted = FALSE
  MaxIterations = 1
  MaxPhases = 1
  MaxCalls = 2
  MaxPrompts = 2
  MaxReplies = 2
  MaxMishaps = 2
INVARIANTS
  EffectsOnRecord
  RequestsOnRecord
  AnswersAdjacent
  RequestsAnswered
  HonestAnswers
CHECK_DEADLOCK FALSE
SYMMETRY MCSymmetry
