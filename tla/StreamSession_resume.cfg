SPECIFICATION FairSpec
CONSTANTS
  Conns = {c1, c2}
  NoConn = NoConn
  MaxChunks = 3
  ReplayMaxFrames = 2
  MaxDrops = 2
INVARIANTS TypeOK ReplayCoversSession OneTimer
PROPERTIES StreamIsPipe EveryStreamEnds
CHECK_DEADLOCK FALSE
