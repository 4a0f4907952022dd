---------------------------- MODULE AtomicStore ----------------------------
(***************************************************************************)
(* What the threads of the server together promise of the databases: each *)
(* query takes effect at one instant between its call and its reply.  A    *)
(* row has two fields.  A query may be refused without an effect; a write  *)
(* with a value that is refused has stored the field before it.  An        *)
(* expired row reads as absent, is still there for what writes, and goes   *)
(* when it is read.                                                        *)
(***************************************************************************)
EXTENDS Integers, Sequences

CONSTANTS Thread, Db, Key, NoThread

VARIABLES
  state,   \* state[d][k]: "none", "live" or "dead"
  cells,   \* cells[d][k]: who wrote each field
  query    \* query[t]: its phase, and what was asked and answered

vars == <<state, cells, query>>

Op == {"select", "insert", "update", "replace", "delete"}
Request == [op : Op, db : Db, key : Key, kind : {"good", "refused", "badid"}]

Init ==
  /\ state = [d \in Db |-> [k \in Key |-> "none"]]
  /\ cells = [d \in Db |-> [k \in Key |-> <<NoThread, NoThread>>]]
  /\ query = [t \in Thread |-> [phase |-> "idle"]]

Call(t) ==
  /\ query[t].phase = "idle"
  /\ \E r \in Request : query' = [query EXCEPT ![t] = [phase |-> "called", req |-> r]]
  /\ UNCHANGED <<state, cells>>

Answered(t, a) == query' = [query EXCEPT ![t] = [phase |-> "answered", req |-> @.req, answer |-> a]]

Refuse(t) ==
  /\ query[t].phase = "called"
  /\ Answered(t, "error")
  /\ UNCHANGED <<state, cells>>

Select(t) ==
  LET r == query[t].req IN
  /\ query[t].phase = "called" /\ r.op = "select"
  /\ IF state[r.db][r.key] = "live"
     THEN Answered(t, cells[r.db][r.key]) /\ UNCHANGED state
     ELSE Answered(t, "none") /\ state' = [state EXCEPT ![r.db][r.key] = "none"]
  /\ UNCHANGED cells

Write(t) ==
  LET r == query[t].req IN
  /\ query[t].phase = "called" /\ r.op \in {"insert", "update", "replace"}
  /\ r.op = "insert" => state[r.db][r.key] = "none"
  /\ r.op = "update" => state[r.db][r.key] # "none"
  /\ state' = [state EXCEPT ![r.db][r.key] = "live"]
  /\ IF r.kind = "refused"
     THEN Answered(t, "error") /\ cells' = [cells EXCEPT ![r.db][r.key][1] = t]
     ELSE Answered(t, "done") /\ cells' = [cells EXCEPT ![r.db][r.key] = <<t, t>>]

UpdateNothing(t) ==
  LET r == query[t].req IN
  /\ query[t].phase = "called" /\ r.op = "update" /\ state[r.db][r.key] = "none"
  /\ Answered(t, "none")
  /\ UNCHANGED <<state, cells>>

Delete(t) ==
  LET r == query[t].req IN
  /\ query[t].phase = "called" /\ r.op = "delete"
  /\ Answered(t, IF state[r.db][r.key] = "none" THEN "none" ELSE "done")
  /\ state' = [state EXCEPT ![r.db][r.key] = "none"]
  /\ UNCHANGED cells

Return(t) ==
  /\ query[t].phase = "answered"
  /\ query' = [query EXCEPT ![t] = [phase |-> "idle"]]
  /\ UNCHANGED <<state, cells>>

Expire(d, k) ==
  /\ state[d][k] = "live"
  /\ state' = [state EXCEPT ![d][k] = "dead"]
  /\ UNCHANGED <<cells, query>>

Next ==
  \/ \E t \in Thread :
       Call(t) \/ Refuse(t) \/ Select(t) \/ Write(t) \/ UpdateNothing(t) \/ Delete(t) \/ Return(t)
  \/ \E d \in Db, k \in Key : Expire(d, k)

Spec == Init /\ [][Next]_vars
=============================================================================
