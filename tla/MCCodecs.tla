------------------------------ MODULE MCCodecs ------------------------------
(* Model-checking instance of SqlLexer and of Decimal64, which do not      *)
(* interact: a behaviour parses a text or computes with decimals.          *)
EXTENDS SqlLexer, Decimal64

(* Every text of at most n pieces of each of four alphabets: numbers,      *)
(* strings, operators, and statements with words.                          *)
Alphabets == {{"1", ".", "e", "-", "=", " "}, {"'", "\\", "n", "\"", "\n", "-"},
              {"<", ">", "=", "!", "&", "|", "1"}, {"set", "where", "=", "'", "\n", "n"},
              {"0", "x", "b", "'", "1", "("}, {"count", "n", " ", ",", ";", "+", "."}}
MCTexts == UNION {BoundedSeq(a, 5) : a \in Alphabets}

(* With 97 for 2^63 - 1 a number has two digits; like 2^63 - 1 it begins   *)
(* with 9 and ends with 7.  The operands are at the boundaries of rounding *)
(* and of the range.                                                       *)
MCData ==
  LET some == {1, 2, 4, 5, 9, 10, 13, 44, 45, 46, 50, 54, 55, 89, 90, 94, 95, 96, 97}
  IN  some \cup {-n : n \in some}
MCDecimals == {Dec(n, s) : n \in MCData, s \in -6..3}
MCOperands == {Dec(n, s) : n \in {0, 1, 3, 5, 9, 45, 55, 97, -1, -7, -44, -55, -97}, s \in {-6, -4, -3, -1, 0, 2, 3}}
MCScales == {-4, -2, -1, 0, 1, 2, 3}
MCText == {[neg |-> s, int |-> i, frac |-> f, exp |-> e] :
             s \in BOOLEAN, i \in BoundedSeq({0, 4, 5, 9}, 2), f \in BoundedSeq({0, 4, 5, 9}, 3),
             e \in {-1, 0, 2}}
MCSigned == -98..97
MCUnsigned == 0..195
MCMinScale == -6
MCNotScale == -20
MCNarrowest == -12

allVars == <<lexVars, vars>>

MCInit ==
  \/ LexInit /\ x = Dec(0, NotScale) /\ last = NoOp
  \/ Init /\ text = <<>> /\ at = 1 /\ line = 1 /\ setSeen = FALSE /\ tokens = <<>> /\ status = "done"
MCNext ==
  \/ LexNext /\ UNCHANGED vars
  \/ text = <<>> /\ Next /\ UNCHANGED lexVars
MCSpec == MCInit /\ [][MCNext]_allVars
=============================================================================
