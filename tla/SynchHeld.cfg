SPECIFICATION FairSpec
CONSTANTS
  NoClient = NoClient
  Client = {c1, c2, c3}
  Early = {c1, c2, c3}
  Asker = {c1, c2}
  Leaver = {}
  Splitter = {}
  Barred = {}
  MaxThreads = 1
  Unread = 1
  Lengths = {"len"}
  Outcomes = {"reply"}
  ShowInfo = FALSE
  ReplyChunks = 1
  SocketRoom = 1
CHECK_DEADLOCK FALSE
INVARIANTS
  NumbersConserved
PROPERTIES
  StopAlwaysCompletes
