SPECIFICATION FairSpec
CONSTANTS
  NoClient = NoClient
  NoConn = NoConn
  Client = {c1, c2}
  Worker = {w1, w2}
  MaxConnections = 2
  Requests = 1
  Leaving = {}
  Lengths = {"len"}
  Outcomes = {"reply"}
  MayStop = FALSE
  ReplyChunks = 1
  SocketRoom = 1
  CounterRange = 6
PROPERTIES Answered
