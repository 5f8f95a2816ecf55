SPECIFICATION Spec
CONSTANTS
  a = a  b = b
  CallId <- MCOneId
  Registered = FALSE
  McpRouted = TRUE
  MaxIterations = 1
  MaxPhases = 0
  MaxCalls = 1
  MaxPrompts = 1
  MaxReplies = 1
  MaxMishaps = 1
INVARIANTS
  EffectsOnRecord
CHECK_DEADLOCK FALSE
SYMMETRY MCSymmetry
