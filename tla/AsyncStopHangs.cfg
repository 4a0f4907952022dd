SPECIFICATION FairSpec
CONSTANTS
  NoClient = NoClient
  NoConn = NoConn
  Client = {c1}
  Worker = {w1, w2}
  MaxConnections = 1
  Requests = 1
  Leaving = {}
  Lengths = {"len"}
  Outcomes = {"reply"}
  MayStop = TRUE
  ReplyChunks = 1
  SocketRoom = 1
  CounterRange = 6
CHECK_DEADLOCK FALSE
PROPERTY StopCompletes
