--------------------------- MODULE MCGroupServer ---------------------------
(* Model-checking instances of GroupServer.                                *)
EXTENDS GroupServer, TLC
ClientSymmetry == Permutations(Client)
=============================================================================
