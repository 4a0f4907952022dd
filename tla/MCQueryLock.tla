---------------------------- MODULE MCQueryLock ----------------------------
(* Model-checking instances of QueryLock.                                  *)
EXTENDS QueryLock, TLC
=============================================================================
