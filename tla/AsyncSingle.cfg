SPECIFICATION FairSpec
CONSTANTS
  NoClient = NoClient
  NoConn = NoConn
  Client = {c1, c2}
  Worker = {}
  MaxConnections = 2
  Requests = 1
  Leaving = {}
  Lengths = {"len", "big"}
  Outcomes = {"reply", "error", "empty"}
  MayStop = TRUE
  ReplyChunks = 2
  SocketRoom = 1
  CounterRange = 6
CHECK_DEADLOCK FALSE
PROPERTIES
  StopCompletes
  ReceiveTimesOut
