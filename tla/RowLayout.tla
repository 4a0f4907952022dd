----------------------------- MODULE RowLayout -----------------------------
(***************************************************************************)
(* How CTable and CFixedMemoryStorage lay the fields of a row out in its   *)
(* RowLength cells, as operators.  Three pieces of code must agree on it:  *)
(*   - ComputeFixedRowLength gives each field a Position and a length;     *)
(*   - an insert or a replace stores the fields one behind the other, and  *)
(*     an update seeks to the Position of each field it stores;            *)
(*   - GetResult reads the fields one behind the other.                    *)
(* A cell stands for the bytes of the smallest field, or for one length    *)
(* prefix, or for one byte of a string.                                    *)
(***************************************************************************)
EXTENDS Integers, Sequences

(***************************************************************************)
(* The fields behind the row id.  kind is                                  *)
(*   "fixed"   a number, date, time or enum: len is the length the table   *)
(*             computes for it, put what Store writes, get what GetResult  *)
(*             reads.  DECIMAL64 has 8, 16 and 8 bytes; a date has 3, 4    *)
(*             and 4; they differ for bits, too.                           *)
(*   "padded"  CHAR, BINARY: a length, a string and padding up to len;     *)
(*   "packed"  VARCHAR, VARBINARY: a length and a string, at most len.     *)
(***************************************************************************)
CONSTANTS Fields,
          Missing,  \* the request gives no value for the field
          Bad,      \* the request gives a value Store refuses
          Keep      \* the field is left as it is

ASSUME FieldsAssumption ==
  Fields \in Seq([kind : {"fixed", "padded", "packed"}, len : Nat, put : Nat, get : Nat])
ASSUME MarkersDiffer == Keep # Bad /\ Keep \notin Seq(Nat)

(* Faulty variant: the length prefix of strings is forgotten. *)
FieldLengthBare(f) == f.len

(* GetFieldLength: a length prefix is one cell. *)
FieldLength(f) == IF f.kind = "fixed" THEN f.len ELSE 1 + f.len

(* ComputeFixedRowLength: the Position of each field, and behind the last  *)
(* one, at index Len(Fields) + 1, the length of the row.                   *)
Position[i \in 1..(Len(Fields) + 1)] ==
  IF i = 1 THEN 0 ELSE Position[i - 1] + FieldLength(Fields[i - 1])
RowLength == Position[Len(Fields) + 1]
-----------------------------------------------------------------------------
(* Writing.  A pack is a row of cells, the place of the next write, and    *)
(* how it went so far: "ok"; "error", a value was missing or refused; or   *)
(* "noroom", a write would have gone beyond the row.                       *)

(* The value Store keeps: a string that is too long is truncated. *)
Truncated(f, v) ==
  IF f.kind = "fixed" \/ Len(v) <= f.len THEN v ELSE SubSeq(v, 1, f.len)

Overwrite(row, at, chunk) ==
  [c \in DOMAIN row |-> IF c - at \in DOMAIN chunk THEN chunk[c - at] ELSE row[c]]

(* CPack::Write into the cells of a row: a write beyond them throws. *)
Write(pack, chunk) ==
  IF pack.out # "ok" THEN pack
  ELSE IF pack.at + Len(chunk) > RowLength THEN [pack EXCEPT !.out = "noroom"]
  ELSE [row |-> Overwrite(pack.row, pack.at, chunk), at |-> pack.at + Len(chunk), out |-> "ok"]

(* Store: the writes for the value of a field, each of which fits or       *)
(* throws.                                                                 *)
Store(pack, f, v) ==
  CASE f.kind = "fixed"  -> Write(pack, v)
    [] f.kind = "padded" ->
         Write(Write(Write(pack, <<Len(v)>>), v), [c \in 1..(f.len - Len(v)) |-> 0])
    [] f.kind = "packed" -> Write(Write(pack, <<Len(v)>>), v)

(* What a request may give for a field, but for nothing or a bad value.    *)
Storable(f, v) == v \in Seq(Nat) /\ (f.kind = "fixed" => Len(v) = f.put)

(* What GetInputValue stores: the value given, or the one that fills in    *)
(* for a missing one.  There may be none, and the field is kept or the     *)
(* request refused, or Store may refuse the value.  (A string that is too  *)
(* long and no UTF-8, which ends the process, is not among the values.)    *)
Source(given, fill) ==
  [i \in DOMAIN Fields |->
     LET v == IF given[i] = Missing THEN fill[i] ELSE given[i]
     IN  IF v \in {Bad, Keep} THEN v ELSE Truncated(Fields[i], v)]

GetInputValue(pack, i, v) ==
  IF pack.out # "ok" THEN pack
  ELSE IF v = Bad THEN [pack EXCEPT !.out = "error"]
  ELSE Store(pack, Fields[i], v)

Opened(row) == [row |-> row, at |-> 0, out |-> "ok"]

(* The fields in order, without a seek: InsertData, ReplaceData. *)
PutInOrder(row, src) ==
  LET pack[i \in 0..Len(Fields)] ==
        IF i = 0 THEN Opened(row) ELSE GetInputValue(pack[i - 1], i, src[i])
  IN  pack[Len(Fields)]

(* Faulty variant: an update does not seek. *)
PutWithoutSeek(row, src) ==
  LET pack[i \in 0..Len(Fields)] ==
        IF i = 0 THEN Opened(row)
        ELSE IF src[i] = Keep THEN pack[i - 1]
        ELSE GetInputValue(pack[i - 1], i, src[i])
  IN  pack[Len(Fields)]

(* The fields that are not kept, each at its Position: UpdateData. *)
PutAtPositions(row, src) ==
  LET pack[i \in 0..Len(Fields)] ==
        IF i = 0 THEN Opened(row)
        ELSE IF src[i] = Keep THEN pack[i - 1]
        ELSE GetInputValue([pack[i - 1] EXCEPT !.at = Position[i]], i, src[i])
  IN  pack[Len(Fields)]
-----------------------------------------------------------------------------
(* Reading: the values read so far, the place of the next read, and        *)
(* whether no read went beyond the row, where CPack::Read throws.          *)

(* Faulty variant: the padding of a string is not skipped. *)
ReadFieldPadding(row, acc, f) ==
  LET n == IF f.kind = "fixed" THEN f.get ELSE 1 + row[acc.at + 1] IN
  [vals |-> Append(acc.vals, SubSeq(row, acc.at + 1, acc.at + n)), at |-> acc.at + n, ok |-> TRUE]

ReadField(row, acc, f) ==
  LET fits(n) == acc.at + n <= RowLength
      cells(at, n) == [c \in 1..n |-> row[at + c]]
  IN  IF ~acc.ok THEN acc
      ELSE IF f.kind = "fixed"
      THEN IF ~fits(f.get) THEN [acc EXCEPT !.ok = FALSE]
           ELSE [vals |-> Append(acc.vals, cells(acc.at, f.get)), at |-> acc.at + f.get, ok |-> TRUE]
      ELSE IF ~fits(1) \/ ~fits(1 + row[acc.at + 1]) THEN [acc EXCEPT !.ok = FALSE]
      ELSE LET n == row[acc.at + 1]
           IN  [vals |-> Append(acc.vals, cells(acc.at + 1, n)),
                at   |-> acc.at + 1 + (IF f.kind = "padded" /\ n < f.len THEN f.len ELSE n),
                ok   |-> TRUE]

(* GetResult: the first n fields in order, without a seek. *)
ReadFields(row, n) ==
  LET acc[i \in 0..n] ==
        IF i = 0 THEN [vals |-> <<>>, at |-> 0, ok |-> TRUE]
        ELSE ReadField(row, acc[i - 1], Fields[i])
  IN  acc[n]
ReadRow(row) == ReadFields(row, Len(Fields))
=============================================================================
