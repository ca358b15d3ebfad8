SPECIFICATION SumSpec
CONSTANTS
  Requests = {"r1", "r2"}
  MaxMoves = 2
INVARIANT SumTypeOK
INVARIANT TranscriptsRelayed
INVARIANT OneChild
 
 
INVARIANT ToItsOwner
PROPERTY InfoServed
CHECK_DEADLOCK FALSE
