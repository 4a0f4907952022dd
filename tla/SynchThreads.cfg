SPECIFICATION FairSpec
CONSTANTS
  NoClient = NoClient
  Client = {c1, c2, c3}
  Early = {c1, c3}
  Asker = {c2}
  Leaver = {c2}
  Splitter = {c2}
  Barred = {c3}
  MaxThreads = 2
  Unread = 1
  Lengths = {"len", "big"}
  Outcomes = {"reply", "error", "empty"}
  ShowInfo = FALSE
  ReplyChunks = 2
  SocketRoom = 1
CHECK_DEADLOCK FALSE
INVARIANTS
  NumbersConserved
  InStep
  RepliesInOrder
PROPERTIES
  Answered
  StopCompletes
  Accepted
