SPECIFICATION Spec
CONSTANTS
  Browsers = {b1, b2}
  Requests = {q1, q2}
  MaxUsers = 3
  MaxTokens = 2
  MaxAsks = 3
  MaxCrashes = 1
SYMMETRY Symmetries
INVARIANTS SomeoneRemains EachTearSetsOneMore
CHECK_DEADLOCK FALSE
