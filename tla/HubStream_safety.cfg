SPECIFICATION Spec
CONSTANTS
  c1 = c1
  c2 = c2
  Conns <- MCConns
  RingSize = 2
  TurnReplayCap = 1
  GraceEnabled = TRUE
  Kinds = {"text_delta"}
  Writers <- AllWriters
  Failures = {"buffered", "refused"}
  MaxFrames = 3
SYMMETRY Symmetry
INVARIANTS
  TypeOK
  InOrderOnce
  NoFrameSkipped
  SeededNeverLive
