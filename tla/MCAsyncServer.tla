--------------------------- MODULE MCAsyncServer ---------------------------
(* Model-checking instances of AsyncServer.                                *)
EXTENDS AsyncServer, TLC
ServerSymmetry == Permutations(Client) \cup Permutations(Worker)
=============================================================================
