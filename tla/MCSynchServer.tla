--------------------------- MODULE MCSynchServer ---------------------------
(* Model-checking instances of SynchServer.                                *)
EXTENDS SynchServer
=============================================================================
