--------------------------- MODULE MCFixedStorage ---------------------------
(* Model-checking instances of FixedStorage: small tables of each layout.  *)
EXTENDS FixedStorage

Number == [kind |-> "fixed", len |-> 1, put |-> 1, get |-> 1]
Char == [kind |-> "padded", len |-> 1, put |-> 0, get |-> 0]
Varchar == [kind |-> "packed", len |-> 1, put |-> 0, get |-> 0]

(* A table with a CHAR, a number and, behind them, a VARCHAR. *)
MixedFields == <<Char, Number, Varchar>>
MixedGiven == {<<<<1>>, <<1>>, <<1, 1>>>>, <<Missing, Missing, <<>>>>,
               <<<<1>>, <<1>>, Bad>>}
MixedInsertFill == <<<<>>, <<2>>, Bad>>
MixedUpdateFill == <<Keep, <<2>>, Keep>>
MixedRaw == {[c \in 1..RowLength |-> IF c \in {2, 4} THEN 2 ELSE 0]}

(* A table with a number behind a VARCHAR. *)
FirstFields == <<Varchar, Number>>
FirstGiven == {<<<<1>>, <<1>>>>, <<<<>>, <<1>>>>}
FirstFill == <<<<>>, <<2>>>>
FirstRaw == {<<0, 0, 0>>}

(* A table with one DATE: the table computes 3 bytes, a CDate has 4. *)
Date == [kind |-> "fixed", len |-> 3, put |-> 4, get |-> 4]
DateFields == <<Date>>
DateGiven == {<<<<1, 1, 1, 1>>>>}
DateFill == <<Bad>>
DateUpdateFill == <<Keep>>
DateRaw == {<<0, 0, 0>>}

(* A table with one DECIMAL64: the table computes 8 bytes, Store writes    *)
(* the 16 of an __int128_t, and GetResult reads 8.                         *)
Decimal == [kind |-> "fixed", len |-> 1, put |-> 2, get |-> 1]
DecimalFields == <<Decimal>>
DecimalGiven == {<<<<1, 1>>>>, <<Missing>>}
DecimalRaw == {<<0>>}

(* With IdRange = 2, the request that names id 2 means id 0. *)
Requests == {1, 2, NoId, BadId}

(* With IdRange = 4, the request that names id 5 means id 1. *)
WideRequests == {2, 5, NoId, BadId}
=============================================================================
