SPECIFICATION Spec
CONSTANTS
  Conns = {c1, c2}
  NoConn = NoConn
  MaxChunks = 3
  ReplayMaxFrames = 2
  MaxDrops = 2
INVARIANT RegisteredIsConnected
CHECK_DEADLOCK FALSE
