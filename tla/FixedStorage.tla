---------------------------- MODULE FixedStorage ----------------------------
(***************************************************************************)
(* CFixedMemoryStorage (cfixedmemorystorage.hpp): the table engine that    *)
(* keeps its rows in a CFixedMap (module FixedMap), cell by cell (module   *)
(* RowLayout).  Each request runs under the lock of its database, so each  *)
(* is one step, but a value that Store refuses stops it half-way.          *)
(***************************************************************************)
EXTENDS FixedMap, RowLayout

CONSTANTS
  IdRange,     \* 2^(bits of the id type)
  Serial,      \* the id type is a SERIAL type
  RequestId,   \* the row ids requests name, before GetRowId converts them
  NoId,        \* the request names no row id
  BadId,       \* the request names one of a type GetRowId refuses
  Given,       \* what requests give for the fields
  InsertFill,  \* what replaces a missing value: the default, or Bad
  UpdateFill,  \* the value on update, or Keep
  RawRow,      \* what malloc may leave in a row
  Torn, NoRow

ASSUME IdAssumption ==
  /\ IdRange \in Nat \ {0} /\ Key = 0..(IdRange - 1)
  /\ RequestId \subseteq Int \cup {NoId, BadId}
ASSUME ValuesAssumption ==
  \A i \in DOMAIN Fields :
    /\ \A given \in Given : given[i] \in {Missing, Bad} \/ Storable(Fields[i], given[i])
    /\ InsertFill[i] = Bad \/ Storable(Fields[i], InsertFill[i])
    /\ UpdateFill[i] = Keep \/ Storable(Fields[i], UpdateFill[i])
ASSUME RowAssumption ==
  /\ \A given \in Given : DOMAIN given = DOMAIN Fields
  /\ RawRow \subseteq [1..RowLength -> Nat]
  /\ Torn \notin [DOMAIN Fields -> Seq(Nat)]

VARIABLES
  rows,     \* Contents, as far as it was handed out: position -> cells
  autoInc,  \* AutoInc
  torn,     \* history: the keys whose row was never stored to its end
  reply     \* the last request: operation, row id, outcome, row read

storageVars == <<rows, autoInc, torn, reply>>
svars == <<vars, storageVars>>

Reply == [op : {"none", "insert", "update", "replace", "delete", "get"},
          id : Key \cup {NoRow},
          out : {"ok", "error", "duplicate", "noroom", "full", "zero", "row"},
          val : {NoRow} \cup [DOMAIN Fields -> Seq(Nat)]]

StorageTypeOK ==
  /\ TypeOK
  /\ DOMAIN rows = 0..(size - 1)
  /\ \A p \in DOMAIN rows : rows[p] \in [1..RowLength -> Nat]
  /\ autoInc \in Key
  /\ torn \subseteq DOMAIN keys
  /\ reply \in Reply
-----------------------------------------------------------------------------
(* GetRowId: the value given is cut to the width of the id type. *)
GetRowId(v) == v % IdRange
IncreaseAutoInc == (autoInc + 1) % IdRange

Answers(op, id, out) == reply' = [op |-> op, id |-> id, out |-> out, val |-> NoRow]

(* The cells at the position of a key: what an earlier row left there, or, *)
(* in memory never handed out, whatever malloc or realloc left.            *)
Cells(p) == IF p \in DOMAIN rows THEN {rows[p]} ELSE RawRow

(* Store the values src in the row the map found for k; an update seeks. *)
StoreRow(op, k, src, isnew) ==
  LET p == keys'[k].pos IN
  \E old \in Cells(p) :
    LET pack  == IF op = "update" THEN PutAtPositions(old, src) ELSE PutInOrder(old, src)
        whole == pack.out = "ok" /\ \A i \in DOMAIN src : src[i] # Keep
    IN  /\ rows' = With(rows, p, pack.row)
        /\ torn' = (IF whole THEN torn \ {k} ELSE IF isnew THEN torn \cup {k} ELSE torn)
                     \cap DOMAIN keys'
        /\ Answers(op, k, pack.out)

(* No row was found for the request; those collected are not torn any more.*)
NoStore == UNCHANGED rows /\ torn' = torn \cap DOMAIN keys'

InsertRow(k, given) ==
  /\ Insert(k)
  /\ \/ /\ ret'.out = "row"
        /\ StoreRow("insert", k, Source(given, InsertFill), TRUE)
     \/ ret'.out = "null" /\ NoStore /\ Answers("insert", k, "duplicate")
     \/ ret'.out = "full" /\ NoStore /\ Answers("insert", k, "full")

InsertData(v, given) ==
  \/ /\ v = NoId /\ Serial
     /\ autoInc' = IncreaseAutoInc
     /\ InsertRow(IncreaseAutoInc, given)
  \/ /\ v \notin {NoId, BadId}
     /\ UNCHANGED autoInc
     /\ InsertRow(GetRowId(v), given)

UpdateData(v, given) ==
  /\ v \notin {NoId, BadId}
  /\ UNCHANGED autoInc
  /\ LET k == GetRowId(v) IN
     /\ Update(k)
     /\ \/ /\ ret'.out = "row"
           /\ StoreRow("update", k, Source(given, UpdateFill), FALSE)
        \/ ret'.out = "null" /\ NoStore /\ Answers("update", k, "zero")

ReplaceData(v, given) ==
  /\ v \notin {NoId, BadId}
  /\ UNCHANGED autoInc
  /\ LET k == GetRowId(v) IN
     /\ Replace(k)
     /\ \/ /\ ret'.out = "row"
           /\ StoreRow("replace", k, Source(given, InsertFill), k \notin DOMAIN keys)
        \/ ret'.out = "full" /\ NoStore /\ Answers("replace", k, "full")

DeleteData(v) ==
  /\ v \notin {NoId, BadId}
  /\ UNCHANGED autoInc
  /\ LET k == GetRowId(v) IN
     /\ Erase(k)
     /\ NoStore
     /\ Answers("delete", k, IF ret'.out = "true" THEN "ok" ELSE "zero")

(* GetData: GetResult takes row id 0 for the absence of a row.  A row that *)
(* cannot be read to its end is an error.                                  *)
GetData(v) ==
  /\ v \notin {NoId, BadId}
  /\ UNCHANGED autoInc
  /\ LET k == GetRowId(v) IN
     /\ At(k)
     /\ NoStore
     /\ IF ret'.out = "null" \/ k = 0 THEN Answers("get", k, "zero")
        ELSE LET read == ReadRow(rows[keys[k].pos]) IN
             IF read.ok THEN reply' = [op |-> "get", id |-> k, out |-> "row", val |-> read.vals]
             ELSE Answers("get", k, "error")

(* GetRowId throws: the row id is of a wrong type; or there is none, and   *)
(* the operation is not an insert or the id type does not number rows.     *)
RefuseRowId(v) ==
  /\ v \in {NoId, BadId}
  /\ Answers("none", NoRow, "error")
  /\ UNCHANGED <<vars, rows, autoInc, torn>>

StorageInit ==
  /\ Init
  /\ rows = <<>> /\ autoInc = 0 /\ torn = {}
  /\ reply = [op |-> "none", id |-> 0, out |-> "ok", val |-> NoRow]

StorageNext ==
  \/ Tick /\ UNCHANGED storageVars
  \/ \E v \in RequestId :
       \/ \E given \in Given : InsertData(v, given) \/ UpdateData(v, given) \/ ReplaceData(v, given)
       \/ DeleteData(v) \/ GetData(v) \/ RefuseRowId(v)

StorageSpec == StorageInit /\ [][StorageNext]_svars
-----------------------------------------------------------------------------
(* What the clients see is a table: refinement of module AbstractTable.    *)
Table ==
  [k \in DOMAIN keys |->
     [val |-> IF k \in torn THEN Torn ELSE ReadRow(rows[keys[k].pos]).vals, exp |-> keys[k].exp]]

Cut(i, v) == Truncated(Fields[i], v)

Promise == INSTANCE AbstractTable WITH
  MaxSize <- MaxSize, table <- Table, counter <- autoInc, Truncate <- Cut

(* The storage, with its positions, its recycling, its lazy expiry and its *)
(* rows of cells, keeps the promise of the abstract table.                 *)
ImplementsTable == Promise!ASpec

(* A row is never too short for values Store accepts: "RowLength is the    *)
(* maximal length of a row" of a memory table (ctable.h:563).  It is not,  *)
(* for fields of which Store writes more than GetFieldLength counts: a     *)
(* DECIMAL64 or a date.                                                    *)
RowLengthIsMaximal == reply.out # "noroom"

(* A field of fixed length of a row that was stored to its end is read     *)
(* where the table computed its "position" (ctable.h:64), which is where   *)
(* an update stores it.                                                    *)
FixedFieldsAtPosition ==
  \A k \in DOMAIN keys \ torn : \A i \in DOMAIN Fields :
    Fields[i].kind = "fixed" => ReadFields(rows[keys[k].pos], i - 1).at = Position[i]
=============================================================================
