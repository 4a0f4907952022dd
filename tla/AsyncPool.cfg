SPECIFICATION Spec
CONSTANTS
  NoClient = NoClient
  NoConn = NoConn
  Client = {c1, c2}
  Worker = {w1, w2}
  MaxConnections = 2
  Requests = 2
  Leaving = {c1, c2}
  Lengths = {"len"}
  Outcomes = {"reply"}
  MayStop = TRUE
  ReplyChunks = 1
  SocketRoom = 1
  CounterRange = 6
SYMMETRY ServerSymmetry
CHECK_DEADLOCK FALSE
INVARIANTS
  OneOwner
  CountsRequests
  PoolIsConsistent
  RepliesAreOwn
