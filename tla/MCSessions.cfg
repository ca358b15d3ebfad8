SPECIFICATION SumSpec
CONSTANTS
  Sids = {"s1", "s2"}
  Requests = {"r1"}
  Calls = {"c1", "c2"}
  Kinds = {"start", "prompt", "stop"}
  LetsCode = {"s2"}
  MaxConvs = 3
  MaxInputs = 2
  MaxRestarts = 1
INVARIANT SumTypeOK
 
INVARIANT AgentsConfined
 
INVARIANT ModelReverted
PROPERTY AssistantKept
PROPERTY GivenIsProper
 
 
CHECK_DEADLOCK FALSE
