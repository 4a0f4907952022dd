SPECIFICATION FairSpec
CONSTANTS
  NoClient = NoClient
  NoConn = NoConn
  Client = {c1}
  Worker = {}
  MaxConnections = 1
  Requests = 1
  Leaving = {c1}
  Lengths = {"len"}
  Outcomes = {"reply"}
  MayStop = FALSE
  ReplyChunks = 1
  SocketRoom = 1
  CounterRange = 6
CHECK_DEADLOCK FALSE
PROPERTY ReceiveTimesOut
