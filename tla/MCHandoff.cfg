SPECIFICATION BothSpec
CONSTANTS
  p1 = p1
  p2 = p2
  s1 = s1
  RequestIds = {"r1", "r2"}
  Texts = {"t1"}
  Callers <- TwoCallers
  Requests <- Handoff
  MaxItems = 2
  Keep = 2
  AgentLimit = 2
  MaxTimes = 1
  AnswersInTime = TRUE
  Happens = {"restart", "expiry"}
INVARIANT OneHandoffAgent
INVARIANT OneQuestion
PROPERTY ActionsEnd
PROPERTY RunsEnd
CHECK_DEADLOCK FALSE
