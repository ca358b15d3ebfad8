SPECIFICATION Spec
CONSTANTS
  Switches = {"s1", "s2"}
  Inputs = {"q1", "q2"}
  Default = "qwen"
  ModelOf <- Models
  Happens = {}
PROPERTY OthersOnOwn
CHECK_DEADLOCK FALSE
