SPECIFICATION FairSpec
CONSTANTS
  NoThread = NoThread
  Thread = {t1, t2}
  Db = {d1}
  Key = {k1}
  Ops = {"select", "insert", "update", "replace", "delete"}
  Requests = 3
  Openings = {TRUE, FALSE}
CHECK_DEADLOCK FALSE
INVARIANTS
  WritersExclude
  LocksMatchHolders
PROPERTIES
  QueriesAreAtomic
  QueriesEnd
