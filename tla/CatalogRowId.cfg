SPECIFICATION Spec
CONSTANTS
  Process = {admin, server}
  Admin = admin
  Table = {t1, t2}
  User = {u1}
  Definition <- MCUnusual
  Opens = 3
  Records = 2
CHECK_DEADLOCK FALSE
INVARIANT
  RowIdWhenNeeded
