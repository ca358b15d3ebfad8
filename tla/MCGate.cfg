SPECIFICATION AllSpec
CONSTANTS
  p1 = p1
  p2 = p2
  RequestIds = {"r1", "r2"}
  Texts = {"t1"}
  Callers <- OneCaller
  Requests <- Everything
  MaxItems = 2
  Keep = 0
  AgentLimit = 1
  MaxTimes = 1
  AnswersInTime = TRUE
  Happens = {"restart", "kill switch", "expiry"}
INVARIANT TypeOK
INVARIANT ResultMeansRun
INVARIANT AnswerMeansPrompt
PROPERTY KeepsGate
CHECK_DEADLOCK FALSE
