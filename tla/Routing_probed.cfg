SPECIFICATION Spec
CONSTANTS
  Requests = {"r1"}
  MaxMoves = 2
INVARIANT ProbedBefore
CHECK_DEADLOCK FALSE
