--------------------------- MODULE AbstractTable ---------------------------
(***************************************************************************)
(* What an in-memory table (TT_FIXMEMORY) promises its clients: a map from *)
(* row ids to rows with a time of expiry, of at most MaxSize rows.  There  *)
(* are no positions, no queue of freed positions and no cells here.        *)
(*                                                                         *)
(* Two things a client can see keep the promise from being simpler.  An    *)
(* expired row is gone for every reader, but it lingers, until it is read  *)
(* or collected, for the operations that write: it makes an insert a       *)
(* duplicate, and an update revives it.  And a request that is refused     *)
(* half-way leaves the fields it had stored: the row is torn if it is new. *)
(***************************************************************************)
EXTENDS Integers, FiniteSets, Sequences

CONSTANTS
  Key, LifeTime, MaxSize,
  IdRange,                  \* 2^(bits of the id type)
  Serial,                   \* the table numbers the rows that come without id
  Given,                    \* what a request may give for the fields
  InsertFill, UpdateFill,   \* what replaces a missing value
  Missing, Bad, Keep,
  Truncate(_, _),           \* the value kept of the one given for a field
  Torn,                     \* the content of a row whose insert was refused
  NoRow                     \* the content of a reply without one

VARIABLES
  table,    \* row id -> [val: its fields, exp: when it expires or 0]
  counter,  \* the last id the table gave out
  now,
  reply     \* the last operation: [op, id, out, val]

tvars == <<table, counter, now, reply>>

Expired(e) == e.exp > 0 /\ e.exp <= now
Live == {k \in DOMAIN table : ~Expired(table[k])}
Expiry == IF LifeTime > 0 THEN now + LifeTime ELSE 0

(* Expired rows go away at any time: the map may be any of these. *)
Swept == {[k \in Live \cup L |-> table[k]] : L \in SUBSET (DOMAIN table \ Live)}
Put(t, k, e) == [j \in DOMAIN t \cup {k} |-> IF j = k THEN e ELSE t[j]]

Values(given, fill) ==
  [i \in DOMAIN given |->
     LET v == IF given[i] = Missing THEN fill[i] ELSE given[i]
     IN  IF v \in {Bad, Keep} THEN v ELSE Truncate(i, v)]

(* The row new is what is left of old when src was stored in it, with      *)
(* everything stored (ok) or with a refusal at some field.                 *)
Stored(old, src, new, ok) ==
  /\ ok = \A i \in DOMAIN src : src[i] # Bad
  /\ IF old = Torn
     THEN new = IF ok /\ \A i \in DOMAIN src : src[i] # Keep THEN src ELSE Torn
     ELSE LET stop == {i \in DOMAIN src : src[i] = Bad}
          IN  new = [i \in DOMAIN src |->
                       IF src[i] = Keep \/ \E j \in stop : j <= i THEN old[i] ELSE src[i]]

Replies(op, id, out) == reply' = [op |-> op, id |-> id, out |-> out, val |-> NoRow]

AInit ==
  /\ table = <<>> /\ counter = 0 /\ now = 1
  /\ reply = [op |-> "none", id |-> 0, out |-> "ok", val |-> NoRow]

ATick == now' = now + 1 /\ UNCHANGED <<table, counter, reply>>

(* A new row, or a refusal because MaxSize rows that live are held. *)
Create(op, k, given) ==
  LET src == Values(given, InsertFill) IN
  \E t \in Swept :
    /\ k \notin DOMAIN t
    /\ \/ /\ Cardinality(DOMAIN t) < MaxSize
          /\ \E ok \in BOOLEAN, new \in {src, Torn} :
               /\ Stored(Torn, src, new, ok)
               /\ table' = Put(t, k, [val |-> new, exp |-> Expiry])
               /\ Replies(op, k, IF ok THEN "ok" ELSE "error")
       \/ /\ Cardinality(Live) = MaxSize
          /\ table' = t
          /\ Replies(op, k, "full")

(* A write to a row that is held, live or lingering; it renews the expiry. *)
Overwrite(op, k, given, fill) ==
  LET src == Values(given, fill) IN
  /\ k \in DOMAIN table
  /\ \E new \in {table'[k].val}, ok \in BOOLEAN :
       /\ Stored(table[k].val, src, new, ok)
       /\ table' = Put(table, k, [val |-> new, exp |-> Expiry])
       /\ Replies(op, k, IF ok THEN "ok" ELSE "error")

AInsert ==
  /\ reply'.op = "insert"
  /\ UNCHANGED now
  /\ \E given \in Given :
       \/ \E k \in {reply'.id} \cap Key :
            /\ UNCHANGED counter
            /\ \/ Create("insert", k, given)
               \/ k \in DOMAIN table /\ UNCHANGED table /\ Replies("insert", k, "duplicate")
       \/ /\ Serial
          /\ counter' = (counter + 1) % IdRange
          /\ \/ Create("insert", counter', given)
             \/ counter' \in DOMAIN table /\ UNCHANGED table /\ Replies("insert", counter', "duplicate")

AUpdate ==
  /\ reply'.op = "update"
  /\ UNCHANGED <<now, counter>>
  /\ \E k \in {reply'.id} \cap Key :
       \/ \E given \in Given : Overwrite("update", k, given, UpdateFill)
       \/ k \notin Live /\ table' \in Swept /\ k \notin DOMAIN table' /\ Replies("update", k, "zero")

AReplace ==
  /\ reply'.op = "replace"
  /\ UNCHANGED <<now, counter>>
  /\ \E k \in {reply'.id} \cap Key, given \in Given :
       Create("replace", k, given) \/ Overwrite("replace", k, given, InsertFill)

ADelete ==
  /\ reply'.op = "delete"
  /\ UNCHANGED <<now, counter>>
  /\ \E k \in {reply'.id} \cap Key :
       \/ /\ k \in DOMAIN table
          /\ \E t \in Swept : table' = [j \in DOMAIN t \ {k} |-> t[j]]
          /\ Replies("delete", k, "ok")
       \/ k \notin DOMAIN table /\ UNCHANGED table /\ Replies("delete", k, "zero")

(* Row id 0 cannot be read: GetResult takes it for the absence of a row.   *)
AGet ==
  /\ reply'.op = "get"
  /\ UNCHANGED <<now, counter>>
  /\ table' \in Swept
  /\ \E k \in {reply'.id} \cap Key :
       IF k \in Live /\ k # 0
       THEN IF table[k].val = Torn
            THEN reply'.out \in {"row", "error"}
            ELSE reply' = [op |-> "get", id |-> k, out |-> "row", val |-> table[k].val]
       ELSE Replies("get", k, "zero")

(* A request without a usable row id changes nothing. *)
ARefuse ==
  /\ reply'.id = NoRow /\ reply'.out = "error"
  /\ UNCHANGED <<table, counter, now>>

ANext == ATick \/ AInsert \/ AUpdate \/ AReplace \/ ADelete \/ AGet \/ ARefuse

ASpec == AInit /\ [][ANext]_tvars
=============================================================================
