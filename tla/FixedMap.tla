------------------------------ MODULE FixedMap ------------------------------
(***************************************************************************)
(* CFixedMap (cfixedmap.hpp): the fixed-row-length store behind a table.   *)
(* A hash map gives, for each row id, the position of its row in one block *)
(* of memory and the time at which the row expires.  Positions of removed  *)
(* rows wait in a FIFO queue and are handed out again before the store     *)
(* grows.  An expired row is removed lazily: when it is read, or when a    *)
(* garbage collection (drawn at random, or forced when the store is full)  *)
(* walks the whole map.                                                    *)
(*                                                                         *)
(* Every operation runs under the database's lock, so each is one step.    *)
(* A row's bytes are left to module FixedStorage; here a row is its        *)
(* position.                                                               *)
(***************************************************************************)
EXTENDS Integers, Sequences, FiniteSets, Functions

CONSTANTS
  Key,             \* the row ids (values of the table's integer id type)
  LifeTime,        \* LifeTime of the table, in ticks; 0: rows never expire
  MaxRows,         \* maximal number of rows in the schema; 0: unspecified
  MinRows,         \* rows allocated when the table opens; 0: unspecified
  DefaultMaxRows,  \* what 0 stands for in MaxRows (2^32 - 1 in the code)
  DefaultMinRows,  \* what 0 stands for in MinRows (100 in the code)
  NoKey,           \* the key of no operation, before the first one
  MaxNow           \* bound of the model: the last tick of the clock

ASSUME KeyAssumption == IsFiniteSet(Key)
ASSUME SizeAssumption ==
  /\ MaxRows \in Nat /\ MinRows \in Nat
  /\ DefaultMaxRows \in Nat \ {0} /\ DefaultMinRows \in Nat \ {0}
ASSUME TimeAssumption == LifeTime \in Nat /\ MaxNow \in Nat \ {0}

VARIABLES
  keys,      \* Keys: row id -> position and expiry of its row
  deleted,   \* Deleted: the freed positions, oldest first
  size,      \* Size: how many positions were ever handed out
  capacity,  \* Capacity: how many rows the memory block holds
  garbage,   \* IfCollectGarbage: some row was given a lifetime
  now,       \* CTime::Now(), in ticks
  ret        \* the operation last performed, its key and what it returned

mapVars == <<keys, deleted, size, capacity, garbage>>
vars == <<mapVars, now, ret>>

MaxSize == IF MaxRows > 0 THEN MaxRows ELSE DefaultMaxRows
InitialCapacity == IF MinRows > 0 THEN MinRows ELSE DefaultMinRows

Entry == [pos : Nat, exp : Nat]
Op == {"none", "at", "insert", "update", "replace", "erase"}
Out == {"none", "row", "null", "full", "true", "false"}

TypeOK ==
  /\ DOMAIN keys \subseteq Key
  /\ keys \in [DOMAIN keys -> Entry]
  /\ deleted \in Seq(Nat)
  /\ size \in Nat
  /\ capacity \in Nat
  /\ garbage \in BOOLEAN
  /\ now \in 1..MaxNow
  /\ ret \in [op : Op, key : Key \cup {NoKey}, out : Out]
-----------------------------------------------------------------------------
(* Helpers over a map of entries and a queue of freed positions. *)

Dead(e) == e.exp > 0 /\ e.exp <= now
NewExpiry == IF LifeTime > 0 THEN now + LifeTime ELSE 0

Without(ks, k) == Restrict(ks, DOMAIN ks \ {k})
With(ks, k, e) == [j \in DOMAIN ks \cup {k} |-> IF j = k THEN e ELSE ks[j]]

DeadKeys(ks) == {k \in DOMAIN ks : Dead(ks[k])}
DeadPositions(ks) == {ks[k].pos : k \in DeadKeys(ks)}

(* Faulty variant: the positions of the rows collected are not queued. *)
CollectedUnqueued(ks, del) ==
  {[keys |-> Restrict(ks, DOMAIN ks \ DeadKeys(ks)), deleted |-> del]}

(* collect_garbage walks the hash map in an order of its own, and queues   *)
(* the position of every expired row in that order.                        *)
Collected(ks, del) ==
  {[keys |-> Restrict(ks, DOMAIN ks \ DeadKeys(ks)), deleted |-> del \o order] :
     order \in Bijection(1..Cardinality(DeadPositions(ks)), DeadPositions(ks))}

(* Faulty variant: a full store does not force the collection. *)
MaybeCollectedUnforced(ks, del, armed, forced) ==
  (IF armed THEN Collected(ks, del) ELSE {}) \cup {[keys |-> ks, deleted |-> del]}

(* The guard in front of collect_garbage: nothing was ever given a         *)
(* lifetime; or a draw with chance 1/1001, which the caller may force.     *)
MaybeCollected(ks, del, armed, forced) ==
  (IF armed THEN Collected(ks, del) ELSE {}) \cup
  (IF armed /\ forced THEN {} ELSE {[keys |-> ks, deleted |-> del]})

(* Faulty variant: reserve does not clamp. *)
RequestedUnclamped == (3 * (size + 1)) \div 2

(* reserve(ceil(Size + 1) * 1.5): the capacity asked for, never more than  *)
(* MaxSize, and the test that refuses to grow a store that is full.        *)
Requested ==
  LET want == (3 * (size + 1)) \div 2 IN IF want < MaxSize THEN want ELSE MaxSize
ReserveThrows == Requested = MaxSize /\ capacity = MaxSize
Reserved == IF Requested > capacity THEN Requested ELSE capacity

Returns(op, k, out) == ret' = [op |-> op, key |-> k, out |-> out]
-----------------------------------------------------------------------------
Init ==
  /\ keys = <<>>
  /\ deleted = <<>>
  /\ size = 0
  /\ capacity = InitialCapacity
  /\ garbage = FALSE
  /\ now = 1
  /\ ret = [op |-> "none", key |-> NoKey, out |-> "none"]

(* Time passes between operations. *)
Tick ==
  /\ now < MaxNow
  /\ now' = now + 1
  /\ UNCHANGED <<mapVars, ret>>

(* Delete: queue the position, drop the key, perhaps collect garbage. *)
Delete(k) ==
  /\ \E m \in MaybeCollected(Without(keys, k), Append(deleted, keys[k].pos), garbage, FALSE) :
       keys' = m.keys /\ deleted' = m.deleted
  /\ UNCHANGED <<size, capacity, garbage>>

(* The part insert and replace share: find a position for a new key.  It   *)
(* throws ERR_MEMORY_ALLOCATE when the store cannot grow, and what the     *)
(* garbage collection did before stays done.                               *)
NewRow(op, k) ==
  /\ garbage' = (garbage \/ LifeTime > 0)
  /\ \E m \in MaybeCollected(keys, deleted, garbage', deleted = <<>> /\ size = MaxSize) :
       \/ /\ m.deleted # <<>>
          /\ keys' = With(m.keys, k, [pos |-> Head(m.deleted), exp |-> NewExpiry])
          /\ deleted' = Tail(m.deleted)
          /\ Returns(op, k, "row")
          /\ UNCHANGED <<size, capacity>>
       \/ /\ m.deleted = <<>>
          /\ ~(capacity = size /\ ReserveThrows)
          /\ keys' = With(m.keys, k, [pos |-> size, exp |-> NewExpiry])
          /\ deleted' = m.deleted
          /\ size' = size + 1
          /\ capacity' = IF capacity = size THEN Reserved ELSE capacity
          /\ Returns(op, k, "row")
       \/ /\ m.deleted = <<>>
          /\ capacity = size /\ ReserveThrows
          /\ keys' = m.keys
          /\ deleted' = m.deleted
          /\ Returns(op, k, "full")
          /\ UNCHANGED <<size, capacity>>

(* Faulty variant: reading a row renews its expiry. *)
AtRenews(k) ==
  /\ k \in DOMAIN keys
  /\ keys' = [keys EXCEPT ![k].exp = NewExpiry]
  /\ Returns("at", k, "row")
  /\ UNCHANGED <<now, deleted, size, capacity, garbage>>

(* at: an expired row that is looked up is removed on the spot. *)
At(k) ==
  /\ UNCHANGED now
  /\ \/ /\ k \notin DOMAIN keys
        /\ Returns("at", k, "null")
        /\ UNCHANGED mapVars
     \/ /\ k \in DOMAIN keys /\ ~Dead(keys[k])
        /\ Returns("at", k, "row")
        /\ UNCHANGED mapVars
     \/ /\ k \in DOMAIN keys /\ Dead(keys[k])
        /\ Returns("at", k, "null")
        /\ Delete(k)

(* insert: refuses a key that is in the map, expired or not. *)
Insert(k) ==
  /\ UNCHANGED now
  /\ \/ /\ k \in DOMAIN keys
        /\ garbage' = (garbage \/ LifeTime > 0)
        /\ Returns("insert", k, "null")
        /\ UNCHANGED <<keys, deleted, size, capacity>>
     \/ /\ k \notin DOMAIN keys
        /\ NewRow("insert", k)

(* update: renews the expiry of whatever the map holds, expired or not. *)
Update(k) ==
  /\ UNCHANGED <<now, deleted, size, capacity, garbage>>
  /\ \/ /\ k \in DOMAIN keys
        /\ keys' = [keys EXCEPT ![k].exp = NewExpiry]
        /\ Returns("update", k, "row")
     \/ /\ k \notin DOMAIN keys
        /\ Returns("update", k, "null")
        /\ UNCHANGED keys

(* replace: as update when the key is there, as insert when it is not. *)
Replace(k) ==
  /\ UNCHANGED now
  /\ \/ /\ k \in DOMAIN keys
        /\ keys' = [keys EXCEPT ![k].exp = NewExpiry]
        /\ garbage' = (garbage \/ LifeTime > 0)
        /\ Returns("replace", k, "row")
        /\ UNCHANGED <<deleted, size, capacity>>
     \/ /\ k \notin DOMAIN keys
        /\ NewRow("replace", k)

Erase(k) ==
  /\ UNCHANGED now
  /\ \/ /\ k \in DOMAIN keys
        /\ Returns("erase", k, "true")
        /\ Delete(k)
     \/ /\ k \notin DOMAIN keys
        /\ Returns("erase", k, "false")
        /\ UNCHANGED mapVars

Next ==
  \/ Tick
  \/ \E k \in Key : At(k) \/ Insert(k) \/ Update(k) \/ Replace(k) \/ Erase(k)

Spec == Init /\ [][Next]_vars
-----------------------------------------------------------------------------
(* No two keys share a row: what is written under one key is never what    *)
(* another key reads.                                                      *)
UniqueLive(ks) == \A j, k \in DOMAIN ks : ks[j].pos = ks[k].pos => j = k

(* A position waits at most once in the queue of freed positions, and      *)
(* never while a key still uses it: recycling hands each row to one key.   *)
FreeIsUnused(ks, del) ==
  /\ IsInjective(del)
  /\ \A k \in DOMAIN ks : \A i \in DOMAIN del : ks[k].pos # del[i]

(* Every position handed out is in use or waiting: no row is ever lost.    *)
NothingLost(ks, del, n) ==
  \A p \in 0..(n - 1) :
    (\E k \in DOMAIN ks : ks[k].pos = p) \/ (\E i \in DOMAIN del : del[i] = p)
BelowSize(ks, del, n) ==
  /\ \A k \in DOMAIN ks : ks[k].pos < n
  /\ \A i \in DOMAIN del : del[i] < n
Partition(ks, del, n) ==
  /\ UniqueLive(ks) /\ FreeIsUnused(ks, del)
  /\ NothingLost(ks, del, n) /\ BelowSize(ks, del, n)

(* The positions 0..size-1 are split between the keys and the queue of     *)
(* freed positions (insert, replace, Delete and collect_garbage together). *)
SlotsPartitioned == Partition(keys, deleted, size)

(* Every row lies inside the memory block, which never outgrows the        *)
(* maximal number of rows (GetRowPointer's precondition).                  *)
RowsFit == size <= capacity /\ capacity <= MaxSize

(* The table never holds more rows than its maximal number of rows, as the *)
(* message of reserve says ("Reach maximal rows").                         *)
AtMostMaxRows == Cardinality(DOMAIN keys) <= MaxSize

(* reserve's error is the truth: it is only thrown when MaxSize rows that  *)
(* have not expired are held, whatever was freed or expired before.        *)
FullMeansFull ==
  [][(ret'.out = "full" /\ now' = now)
       => Cardinality({k \in DOMAIN keys' : ~Dead(keys'[k])}) = MaxSize]_vars

(* A row that has not expired stays under its key and in its place until   *)
(* that key is erased, and only a write to that key renews its expiry      *)
(* ("read does not modify it", cfixedmap.hpp:14): no read, no insert of    *)
(* another key and no collection disturbs it.                              *)
Acts(ops, k) == now' = now /\ ret'.op \in ops /\ ret'.key = k
LiveRowsStay ==
  [][\A k \in DOMAIN keys :
       (~Dead(keys[k]) /\ ~Acts({"erase"}, k))
         => /\ k \in DOMAIN keys'
            /\ keys'[k].pos = keys[k].pos
            /\ Acts({"update", "replace"}, k) \/ keys'[k].exp = keys[k].exp]_vars
=============================================================================
