SPECIFICATION Spec
CONSTANTS
  c1 = c1
  RingSize = 3
  MaxFrames = 3
PROPERTY TurnReplayed
PROPERTY PhoneCatchesUp
PROPERTY WorkEnds
PROPERTY AnswersArrive
CHECK_DEADLOCK FALSE
