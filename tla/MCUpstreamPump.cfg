SPECIFICATION PumpSpec
CONSTANTS
  RingSize = 1
  MaxFrames = 4
  MaxRestarts = 2
  MaxDrops = 1
  Happens <- New
INVARIANT TypeOK
 
PROPERTY HistoryNotSent
CHECK_DEADLOCK FALSE
