----------------------------- MODULE MCCatalog -----------------------------
(* Model-checking instances of Catalog.                                    *)
EXTENDS Catalog

Field(n, ty) == [name |-> n, type |-> ty]
Table1(primary, fields) == [engine |-> TRUE, primary |-> primary, fields |-> fields]

(* The table of main.cpp with its integer key; one without a key, one with *)
(* a key of two fields, and one whose engine does not exist.               *)
MCUsual ==
  {Table1(<<"id">>, <<Field("id", "SERIAL32"), Field("title", "CHAR")>>),
   Table1(<<>>, <<Field("hits", "UINT32")>>),
   [Table1(<<"title">>, <<Field("title", "CHAR")>>) EXCEPT !.engine = FALSE]}

(* A key that is no integer, in a table that has one. *)
MCUnusual == {Table1(<<"title">>, <<Field("title", "CHAR"), Field("hits", "UINT32")>>)}
=============================================================================
