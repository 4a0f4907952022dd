SPECIFICATION FairSpec
CONSTANTS
  NoClient = NoClient
  Client = {c1,c2,c3}
  Early = {c1, c3}
  Leaver = {c2}
  Asker = {c2}
  Idler = {c1}
  MaxThreads = 2
  MaxConnections = 2
  BackLog = 2
  Requests = 1
  ReplyChunks = 2
  SocketRoom = 1
  CounterRange = 4
CHECK_DEADLOCK FALSE
INVARIANTS
  CountsConnections
  OneHolder
  NoPushThrows
  NobodyServesAfterEnd
PROPERTIES
  StopCompletes
  Answered
