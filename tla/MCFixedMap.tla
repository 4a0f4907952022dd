----------------------------- MODULE MCFixedMap -----------------------------
(* Model-checking instance of FixedMap: the row ids are interchangeable.   *)
EXTENDS FixedMap, TLC
KeySymmetry == Permutations(Key)
=============================================================================
