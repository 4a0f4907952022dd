------------------------- MODULE FixedStorageProofs -------------------------
(***************************************************************************)
(* Proofs about FixedMap, for every set of row ids, lifetime, maximal and  *)
(* minimal number of rows; and about RowLayout and FixedStorage, for every *)
(* table of fields, set of values and of requests.                         *)
(***************************************************************************)
EXTENDS FixedStorage, QueueFacts

(* Part 1: FixedMap.                                                       *)

(* The shape of a map of entries and a queue of positions. *)
MapType(ks) ==
  /\ DOMAIN ks \subseteq Key
  /\ ks \in [DOMAIN ks -> Entry]

(* Restricting a map keeps its shape and the entries that are left. *)
LEMMA RestrictType ==
  ASSUME NEW ks, MapType(ks), NEW S, S \subseteq DOMAIN ks
  PROVE  /\ MapType(Restrict(ks, S))
         /\ DOMAIN Restrict(ks, S) = S
         /\ \A k \in S : Restrict(ks, S)[k] = ks[k]
  BY DEF MapType, Restrict

(* The map wi has the entries of ks and an entry of its own for k. *)
Extended(wi, ks, k, e) ==
  /\ MapType(wi)
  /\ DOMAIN wi = DOMAIN ks \cup {k}
  /\ wi[k] = e
  /\ \A j \in DOMAIN ks : j # k => wi[j] = ks[j]

(* Adding an entry keeps the shape of the map and the other entries. *)
LEMMA WithType ==
  ASSUME NEW ks, MapType(ks), NEW k \in Key, NEW e \in Entry
  PROVE  Extended(With(ks, k, e), ks, k, e)
  BY DEF MapType, With, Extended

(* A sequence of the positions of the keys in D, each of them once. *)
Lists(order, ks, D) ==
  /\ order \in Seq(Nat)
  /\ IsInjective(order)
  /\ \A i \in DOMAIN order : \E k \in D : order[i] = ks[k].pos
  /\ \A k \in D : \E i \in DOMAIN order : order[i] = ks[k].pos

(* The order in which a collection meets the expired rows lists them. *)
LEMMA CollectedOrder ==
  ASSUME NEW ks, MapType(ks),
         NEW order \in Bijection(1..Cardinality(DeadPositions(ks)), DeadPositions(ks))
  PROVE  Lists(order, ks, DeadKeys(ks))
<1> DEFINE S == DeadPositions(ks)
<1>1. IsFiniteSet(S)
  <2>1. IsFiniteSet(DeadKeys(ks))
    BY KeyAssumption, FS_Subset DEF MapType, DeadKeys
  <2>2. [k \in DeadKeys(ks) |-> ks[k].pos] \in Surjection(DeadKeys(ks), S)
    BY DEF DeadPositions, Surjection
  <2>3. QED
    BY <2>1, <2>2, FS_Surjection
<1>2. Cardinality(S) \in Nat
  BY <1>1, FS_CardinalityType
<1>3. S \subseteq Nat
  BY DEF DeadPositions, DeadKeys, MapType, Entry
<1>4. /\ order \in [1..Cardinality(S) -> S] /\ IsInjective(order)
      /\ \A p \in S : \E i \in 1..Cardinality(S) : order[i] = p
  BY DEF Bijection, Injection, Surjection
<1>5. order \in Seq(Nat)
  BY <1>2, <1>3, <1>4
<1>6. QED
  BY <1>4, <1>5 DEF DeadPositions, Lists
-----------------------------------------------------------------------------
(* What the ways of changing the map and the queue keep: Partition.        *)

(* The elements of the queue q are those of s and, behind them, those of t. *)
Concatenated(q, s, t) ==
  /\ q \in Seq(Nat) /\ Len(s) \in Nat
  /\ \A i \in DOMAIN s : i \in DOMAIN q /\ q[i] = s[i]
  /\ \A j \in DOMAIN t : Len(s) + j \in DOMAIN q /\ q[Len(s) + j] = t[j]
  /\ \A i \in DOMAIN q :
       \/ i \in DOMAIN s /\ q[i] = s[i]
       \/ \E j \in DOMAIN t : i = Len(s) + j /\ q[i] = t[j]

(* Where the elements of a concatenated queue come from. *)
LEMMA ConcatQueue ==
  ASSUME NEW s \in Seq(Nat), NEW t \in Seq(Nat), NEW q, q = s \o t
  PROVE  Concatenated(q, s, t)
<1>1. /\ q \in Seq(Nat) /\ Len(q) = Len(s) + Len(t)
      /\ \A i \in 1..(Len(s) + Len(t)) : q[i] = IF i <= Len(s) THEN s[i] ELSE t[i - Len(s)]
  BY ConcatProperties
<1>2. /\ Len(s) \in Nat /\ DOMAIN s = 1..Len(s) /\ Len(t) \in Nat /\ DOMAIN t = 1..Len(t)
      /\ DOMAIN q = 1..(Len(s) + Len(t))
  BY <1>1, LenProperties
<1>3. \A i \in DOMAIN s : i \in DOMAIN q /\ q[i] = s[i]
  BY <1>1, <1>2
<1>4. ASSUME NEW j \in DOMAIN t
      PROVE  Len(s) + j \in DOMAIN q /\ q[Len(s) + j] = t[j]
  <2>1. Len(s) + j \in 1..(Len(s) + Len(t)) /\ ~(Len(s) + j <= Len(s)) /\ (Len(s) + j) - Len(s) = j
    BY <1>2
  <2>2. q[Len(s) + j] = t[(Len(s) + j) - Len(s)]
    BY <2>1, <1>1
  <2>3. QED
    BY <2>1, <2>2, <1>2
<1>5. ASSUME NEW i \in DOMAIN q, i \notin DOMAIN s
      PROVE  \E j \in DOMAIN t : i = Len(s) + j /\ q[i] = t[j]
  <2>1. i - Len(s) \in DOMAIN t /\ i = Len(s) + (i - Len(s))
    BY <1>2, <1>5
  <2>2. QED
    BY <2>1, <1>4
<1>6. QED
  BY <1>1, <1>2, <1>3, <1>4, <1>5 DEF Concatenated

(* The map left and the queue are what remains when the keys in D went. *)
Dropped(ks, D, left, queue) ==
  /\ MapType(left) /\ queue \in Seq(Nat)
  /\ DOMAIN left = DOMAIN ks \ D
  /\ \A k \in DOMAIN left : left[k] = ks[k]

(* Removing a set of keys and queueing exactly their positions, each once: *)
(* what Delete does for one key and a collection for all expired ones.     *)
LEMMA QueuedKeeps ==
  ASSUME NEW ks, MapType(ks), NEW del \in Seq(Nat), NEW n \in Nat,
         Partition(ks, del, n),
         NEW D, D \subseteq DOMAIN ks,
         NEW order, Lists(order, ks, D),
         NEW left, left = Restrict(ks, DOMAIN ks \ D),
         NEW queue, queue = del \o order
  PROVE  Dropped(ks, D, left, queue) /\ Partition(left, queue, n)
<1>0. /\ order \in Seq(Nat)
      /\ \A i, j \in DOMAIN order : order[i] = order[j] => i = j
      /\ \A i \in DOMAIN order : \E k \in D : order[i] = ks[k].pos
      /\ \A k \in D : \E i \in DOMAIN order : order[i] = ks[k].pos
  BY DEF Lists, IsInjective
<1>1. /\ MapType(left) /\ DOMAIN left = DOMAIN ks \ D
      /\ \A k \in DOMAIN left : left[k] = ks[k]
  BY RestrictType
<1>2. /\ queue \in Seq(Nat) /\ Len(del) \in Nat
      /\ \A i \in DOMAIN del : i \in DOMAIN queue /\ queue[i] = del[i]
      /\ \A j \in DOMAIN order : Len(del) + j \in DOMAIN queue /\ queue[Len(del) + j] = order[j]
      /\ \A i \in DOMAIN queue :
           \/ i \in DOMAIN del /\ queue[i] = del[i]
           \/ \E j \in DOMAIN order : i = Len(del) + j /\ queue[i] = order[j]
  <2>1. Concatenated(queue, del, order)
    BY <1>0, ConcatQueue
  <2>2. QED
    BY <2>1 DEF Concatenated
<1>3. /\ UniqueLive(ks) /\ IsInjective(del)
      /\ \A k \in DOMAIN ks : \A i \in DOMAIN del : ks[k].pos # del[i]
      /\ NothingLost(ks, del, n)
      /\ \A k \in DOMAIN ks : ks[k].pos < n
      /\ \A i \in DOMAIN del : del[i] < n
  BY DEF Partition, FreeIsUnused, BelowSize
<1>4. UniqueLive(left)
  BY <1>1, <1>3 DEF UniqueLive
<1>5. FreeIsUnused(left, queue)
  <2>1. \A i, j \in DOMAIN queue : queue[i] = queue[j] => i = j
    <3> SUFFICES ASSUME NEW i \in DOMAIN queue, NEW j \in DOMAIN queue, queue[i] = queue[j]
                 PROVE  i = j
      OBVIOUS
    <3>1. ASSUME NEW x \in DOMAIN del, NEW y \in DOMAIN order
          PROVE  del[x] # order[y]
      <4>1. PICK k \in D : order[y] = ks[k].pos
        BY <1>0
      <4>2. QED
        BY <4>1, <1>3
    <3>2. CASE i \in DOMAIN del /\ queue[i] = del[i] /\ j \in DOMAIN del /\ queue[j] = del[j]
      BY <3>2, <1>3 DEF IsInjective
    <3>3. CASE /\ \E x \in DOMAIN order : i = Len(del) + x /\ queue[i] = order[x]
               /\ \E y \in DOMAIN order : j = Len(del) + y /\ queue[j] = order[y]
      <4>1. PICK x \in DOMAIN order : i = Len(del) + x /\ queue[i] = order[x]
        BY <3>3
      <4>2. PICK y \in DOMAIN order : j = Len(del) + y /\ queue[j] = order[y]
        BY <3>3
      <4>3. x = y
        BY <4>1, <4>2, <1>0
      <4>4. QED
        BY <4>1, <4>2, <4>3
    <3>4. CASE /\ i \in DOMAIN del /\ queue[i] = del[i]
               /\ \E y \in DOMAIN order : j = Len(del) + y /\ queue[j] = order[y]
      BY <3>1, <3>4
    <3>5. CASE /\ j \in DOMAIN del /\ queue[j] = del[j]
               /\ \E x \in DOMAIN order : i = Len(del) + x /\ queue[i] = order[x]
      BY <3>1, <3>5
    <3>6. QED
      BY <3>2, <3>3, <3>4, <3>5, <1>2
  <2>2. \A k \in DOMAIN left : \A i \in DOMAIN queue : left[k].pos # queue[i]
    <3> SUFFICES ASSUME NEW k \in DOMAIN left, NEW i \in DOMAIN queue
                 PROVE  left[k].pos # queue[i]
      OBVIOUS
    <3>1. ASSUME NEW y \in DOMAIN order PROVE ks[k].pos # order[y]
      <4>1. PICK d \in D : order[y] = ks[d].pos
        BY <1>0
      <4>2. k \in DOMAIN ks /\ d \in DOMAIN ks /\ k # d
        BY <1>1
      <4>3. QED
        BY <1>3, <4>1, <4>2 DEF UniqueLive
    <3>2. left[k] = ks[k] /\ \A x \in DOMAIN del : ks[k].pos # del[x]
      BY <1>1, <1>3
    <3>3. \/ i \in DOMAIN del /\ queue[i] = del[i]
          \/ \E y \in DOMAIN order : i = Len(del) + y /\ queue[i] = order[y]
      BY <1>2
    <3>4. QED
      BY <3>1, <3>2, <3>3
  <2>3. QED
    BY <2>1, <2>2 DEF FreeIsUnused, IsInjective
<1>6. NothingLost(left, queue, n)
  <2> SUFFICES ASSUME NEW p \in 0..(n - 1)
               PROVE  \/ \E k \in DOMAIN left : left[k].pos = p
                      \/ \E i \in DOMAIN queue : queue[i] = p
    BY DEF NothingLost
  <2>1. CASE \E i \in DOMAIN del : del[i] = p
    BY <2>1, <1>2
  <2>2. CASE \E k \in D : ks[k].pos = p
    <3>1. PICK j \in DOMAIN order : order[j] = p
      BY <2>2, <1>0
    <3>2. QED
      BY <3>1, <1>2
  <2>3. CASE \E k \in DOMAIN ks \ D : ks[k].pos = p
    BY <2>3, <1>1
  <2>4. QED
    BY <2>1, <2>2, <2>3, <1>3 DEF NothingLost
<1>7. BelowSize(left, queue, n)
  <2>1. \A j \in DOMAIN order : order[j] < n
    BY <1>0, <1>3
  <2>2. QED
    BY <2>1, <1>1, <1>2, <1>3 DEF BelowSize
<1>8. QED
  BY <1>1, <1>2, <1>4, <1>5, <1>6, <1>7 DEF Partition, Dropped

(* Nothing but expired rows of ks is missing from what m left in the map. *)
Survives(ks, m) ==
  /\ MapType(m.keys) /\ m.deleted \in Seq(Nat)
  /\ DOMAIN m.keys \subseteq DOMAIN ks
  /\ \A k \in DOMAIN m.keys : m.keys[k] = ks[k]
  /\ \A k \in DOMAIN ks : Dead(ks[k]) \/ k \in DOMAIN m.keys

(* What a collection, or its omission, may return: nothing but expired     *)
(* rows leaves the map, and every row that leaves it is queued.            *)
LEMMA MaybeCollectedKeeps ==
  ASSUME NEW ks, MapType(ks), NEW del \in Seq(Nat), NEW n \in Nat,
         Partition(ks, del, n),
         NEW armed \in BOOLEAN, NEW forced \in BOOLEAN,
         NEW m \in MaybeCollected(ks, del, armed, forced)
  PROVE  Survives(ks, m) /\ Partition(m.keys, m.deleted, n)
<1>1. CASE m = [keys |-> ks, deleted |-> del]
  BY <1>1 DEF Survives
<1>2. CASE m \in Collected(ks, del)
  <2>1. PICK order \in Bijection(1..Cardinality(DeadPositions(ks)), DeadPositions(ks)) :
          m = [keys |-> Restrict(ks, DOMAIN ks \ DeadKeys(ks)), deleted |-> del \o order]
    BY <1>2 DEF Collected
  <2>2. Lists(order, ks, DeadKeys(ks))
    BY CollectedOrder
  <2>3. DeadKeys(ks) \subseteq DOMAIN ks
    BY DEF DeadKeys
  <2>4. m.keys = Restrict(ks, DOMAIN ks \ DeadKeys(ks)) /\ m.deleted = del \o order
    BY <2>1
  <2>5. Dropped(ks, DeadKeys(ks), m.keys, m.deleted) /\ Partition(m.keys, m.deleted, n)
    BY <2>2, <2>3, <2>4, QueuedKeeps
  <2>6. QED
    BY <2>5 DEF DeadKeys, Dropped, Survives
<1>3. QED
  BY <1>1, <1>2 DEF MaybeCollected

(* Delete: the row of the removed key waits at the end of the queue. *)
LEMMA FreedKeeps ==
  ASSUME NEW ks, MapType(ks), NEW del \in Seq(Nat), NEW n \in Nat,
         Partition(ks, del, n), NEW k \in DOMAIN ks,
         NEW left, left = Without(ks, k),
         NEW queue, queue = Append(del, ks[k].pos)
  PROVE  Dropped(ks, {k}, left, queue) /\ Partition(left, queue, n)
<1>1. ks[k].pos \in Nat
  BY DEF MapType, Entry
<1>2. PICK order : order = <<ks[k].pos>>
  OBVIOUS
<1>3. /\ order \in Seq(Nat) /\ DOMAIN order = {1} /\ order[1] = ks[k].pos
      /\ queue = del \o order
  BY <1>1, <1>2
<1>4. Lists(order, ks, {k})
  BY <1>3 DEF Lists, IsInjective
<1>5. left = Restrict(ks, DOMAIN ks \ {k})
  BY DEF Without
<1>6. QED
  BY <1>3, <1>4, <1>5, QueuedKeeps

(* The map wi has the entries of ks and one more, for k. *)
Added(ks, k, wi) ==
  /\ MapType(wi)
  /\ DOMAIN wi = DOMAIN ks \cup {k}
  /\ \A j \in DOMAIN ks : wi[j] = ks[j]

(* insert and replace, when a position waits: the oldest one is reused. *)
LEMMA ReusedKeeps ==
  ASSUME NEW ks, MapType(ks), NEW del \in Seq(Nat), del # <<>>, NEW n \in Nat,
         Partition(ks, del, n), NEW k \in Key, k \notin DOMAIN ks, NEW t \in Nat,
         NEW e, e = [pos |-> Head(del), exp |-> t],
         NEW wi, wi = With(ks, k, e),
         NEW tl, tl = Tail(del)
  PROVE  Added(ks, k, wi) /\ tl \in Seq(Nat) /\ Partition(wi, tl, n)
<1>1. /\ Head(del) \in Nat /\ tl \in Seq(Nat) /\ Len(del) \in Nat /\ DOMAIN del = 1..Len(del)
      /\ DOMAIN tl = 1..(Len(del) - 1) /\ Head(del) = del[1] /\ 1 \in DOMAIN del
      /\ \A i \in DOMAIN tl : tl[i] = del[i + 1]
  BY HeadTailProperties, LenProperties
<1>2. \A i \in DOMAIN tl : i \in Nat /\ i + 1 \in DOMAIN del /\ i + 1 # 1
  BY <1>1
<1>3. e \in Entry /\ e.pos = del[1]
  BY <1>1 DEF Entry
<1>4. /\ MapType(wi) /\ DOMAIN wi = DOMAIN ks \cup {k} /\ wi[k] = e
      /\ \A j \in DOMAIN ks : j # k => wi[j] = ks[j]
  <2>1. Extended(wi, ks, k, e)
    BY <1>3, WithType
  <2>2. QED
    BY <2>1 DEF Extended
<1>5. wi[k].pos = del[1] /\ \A j \in DOMAIN ks : wi[j] = ks[j]
  BY <1>3, <1>4
<1>6. UniqueLive(wi)
  <2>1. \A j \in DOMAIN ks : ks[j].pos # del[1]
    BY <1>1 DEF Partition, FreeIsUnused
  <2>2. \A i, j \in DOMAIN ks : wi[i].pos = wi[j].pos => i = j
    BY <1>5 DEF Partition, UniqueLive
  <2>3. \A j \in DOMAIN ks : wi[j].pos # wi[k].pos
    BY <1>5, <2>1
  <2>4. QED
    BY <2>2, <2>3, <1>4 DEF UniqueLive
<1>7. FreeIsUnused(wi, tl)
  <2>1. \A i, j \in DOMAIN tl : tl[i] = tl[j] => i = j
    BY <1>1, <1>2 DEF Partition, FreeIsUnused, IsInjective
  <2>2. \A j \in DOMAIN wi : \A i \in DOMAIN tl : wi[j].pos # tl[i]
    <3>1. \A i \in DOMAIN tl : del[1] # tl[i]
      BY <1>1, <1>2 DEF Partition, FreeIsUnused, IsInjective
    <3>2. \A j \in DOMAIN ks : \A i \in DOMAIN tl : ks[j].pos # tl[i]
      BY <1>1, <1>2 DEF Partition, FreeIsUnused
    <3>3. QED
      BY <3>1, <3>2, <1>4, <1>5
  <2>3. QED
    BY <2>1, <2>2 DEF FreeIsUnused, IsInjective
<1>8. NothingLost(wi, tl, n)
  <2> SUFFICES ASSUME NEW p \in 0..(n - 1)
               PROVE  \/ \E j \in DOMAIN wi : wi[j].pos = p
                      \/ \E i \in DOMAIN tl : tl[i] = p
    BY DEF NothingLost
  <2>1. CASE \E j \in DOMAIN ks : ks[j].pos = p
    BY <2>1, <1>4, <1>5
  <2>2. CASE \E i \in DOMAIN del : del[i] = p
    <3>1. PICK i \in DOMAIN del : del[i] = p
      BY <2>2
    <3>2. CASE i = 1
      BY <3>1, <3>2, <1>4, <1>5
    <3>3. CASE i # 1
      <4>1. i - 1 \in DOMAIN tl /\ (i - 1) + 1 = i
        BY <3>3, <1>1
      <4>2. tl[i - 1] = p
        BY <4>1, <3>1, <1>1
      <4>3. QED
        BY <4>1, <4>2
    <3>4. QED
      BY <3>2, <3>3
  <2>3. QED
    BY <2>1, <2>2 DEF Partition, NothingLost
<1>9. BelowSize(wi, tl, n)
  BY <1>1, <1>2, <1>4, <1>5 DEF Partition, BelowSize
<1>10. QED
  BY <1>1, <1>4, <1>5, <1>6, <1>7, <1>8, <1>9 DEF Partition, Added

(* insert and replace, when no position waits: the next fresh one is used. *)
LEMMA GrownKeeps ==
  ASSUME NEW ks, MapType(ks), NEW del \in Seq(Nat), NEW n \in Nat,
         Partition(ks, del, n), NEW k \in Key, k \notin DOMAIN ks, NEW t \in Nat,
         NEW e, e = [pos |-> n, exp |-> t],
         NEW wi, wi = With(ks, k, e)
  PROVE  Added(ks, k, wi) /\ Partition(wi, del, n + 1)
<1>0. e \in Entry /\ e.pos = n
  BY DEF Entry
<1>1. /\ MapType(wi) /\ DOMAIN wi = DOMAIN ks \cup {k} /\ wi[k].pos = n
      /\ \A j \in DOMAIN ks : wi[j] = ks[j] /\ ks[j].pos \in Nat
  <2>1. /\ MapType(wi) /\ DOMAIN wi = DOMAIN ks \cup {k} /\ wi[k] = e
        /\ \A j \in DOMAIN ks : j # k => wi[j] = ks[j]
    <3>1. Extended(wi, ks, k, e)
      BY <1>0, WithType
    <3>2. QED
      BY <3>1 DEF Extended
  <2>2. \A j \in DOMAIN ks : ks[j].pos \in Nat
    BY DEF MapType, Entry
  <2>3. QED
    BY <1>0, <2>1, <2>2
<1>2. \A i \in DOMAIN del : del[i] \in Nat
  OBVIOUS
<1>3. UniqueLive(wi)
  BY <1>1 DEF Partition, UniqueLive, BelowSize
<1>4. FreeIsUnused(wi, del)
  BY <1>1, <1>2 DEF Partition, FreeIsUnused, BelowSize
<1>5. NothingLost(wi, del, n + 1)
  <2> SUFFICES ASSUME NEW p \in 0..((n + 1) - 1)
               PROVE  \/ \E j \in DOMAIN wi : wi[j].pos = p
                      \/ \E i \in DOMAIN del : del[i] = p
    BY DEF NothingLost
  <2>1. CASE p = n
    BY <2>1, <1>1
  <2>2. CASE p # n
    BY <2>2, <1>1 DEF Partition, NothingLost
  <2>3. QED
    BY <2>1, <2>2
<1>6. BelowSize(wi, del, n + 1)
  BY <1>1, <1>2 DEF Partition, BelowSize
<1>7. QED
  BY <1>1, <1>3, <1>4, <1>5, <1>6 DEF Partition, Added
-----------------------------------------------------------------------------
(* The store as a whole: the part of TypeOK that is about it, and the      *)
(* partition of its positions.                                             *)
StoreOK ==
  /\ MapType(keys) /\ deleted \in Seq(Nat)
  /\ size \in Nat /\ capacity \in Nat /\ garbage \in BOOLEAN
  /\ Partition(keys, deleted, size)

(* A step that leaves alone the rows that have not expired, but for those  *)
(* of the keys in S.                                                       *)
Spares(S) ==
  \A j \in DOMAIN keys :
    (~Dead(keys[j]) /\ j \notin S) => j \in DOMAIN keys' /\ keys'[j] = keys[j]

(* Lifetimes give times of expiry. *)
LEMMA ExpiryType == ASSUME now \in 1..MaxNow PROVE NewExpiry \in Nat
  BY TimeAssumption DEF NewExpiry

(* Delete frees one row, and disturbs no other that has not expired. *)
LEMMA DeleteStep ==
  ASSUME StoreOK, NEW k \in DOMAIN keys, Delete(k)
  PROVE  StoreOK' /\ Spares({k})
<1>1. PICK m \in MaybeCollected(Without(keys, k), Append(deleted, keys[k].pos), garbage, FALSE) :
        keys' = m.keys /\ deleted' = m.deleted
  BY DEF Delete
<1>2. PICK left : left = Without(keys, k)
  OBVIOUS
<1>3. PICK queue : queue = Append(deleted, keys[k].pos)
  OBVIOUS
<1>4. Dropped(keys, {k}, left, queue) /\ Partition(left, queue, size)
  BY <1>2, <1>3, FreedKeeps DEF StoreOK
<1>5. MapType(left) /\ queue \in Seq(Nat)
  BY <1>4 DEF Dropped
<1>6. m \in MaybeCollected(left, queue, garbage, FALSE) /\ garbage \in BOOLEAN /\ size \in Nat
  BY <1>1, <1>2, <1>3 DEF StoreOK
<1>7. Survives(left, m) /\ Partition(m.keys, m.deleted, size)
  BY <1>4, <1>5, <1>6, MaybeCollectedKeeps
<1>8. StoreOK'
  BY <1>1, <1>7 DEF StoreOK, Survives, Delete
<1>9. Spares({k})
  BY <1>1, <1>4, <1>7 DEF Spares, Survives, Dropped
<1>10. QED
  BY <1>8, <1>9

(* insert or replace of a new key takes a waiting or a fresh position, or  *)
(* none, and disturbs no row that has not expired.                         *)
LEMMA NewRowStep ==
  ASSUME StoreOK, now \in 1..MaxNow, NEW op, NEW k \in Key, k \notin DOMAIN keys, NewRow(op, k)
  PROVE  /\ StoreOK' /\ Spares({})
         /\ \E out \in {"row", "full"} : Returns(op, k, out)
<1>1. garbage' \in BOOLEAN
  BY DEF NewRow, StoreOK
<1>2. PICK forced \in BOOLEAN : forced = (deleted = <<>> /\ size = MaxSize)
  OBVIOUS
<1>3. PICK m \in MaybeCollected(keys, deleted, garbage', forced) :
       \/ /\ m.deleted # <<>>
          /\ keys' = With(m.keys, k, [pos |-> Head(m.deleted), exp |-> NewExpiry])
          /\ deleted' = Tail(m.deleted)
          /\ Returns(op, k, "row")
          /\ UNCHANGED <<size, capacity>>
       \/ /\ m.deleted = <<>>
          /\ keys' = With(m.keys, k, [pos |-> size, exp |-> NewExpiry])
          /\ deleted' = m.deleted
          /\ size' = size + 1
          /\ capacity' = IF capacity = size THEN Reserved ELSE capacity
          /\ Returns(op, k, "row")
       \/ /\ m.deleted = <<>>
          /\ keys' = m.keys
          /\ deleted' = m.deleted
          /\ Returns(op, k, "full")
          /\ UNCHANGED <<size, capacity>>
  BY <1>2 DEF NewRow
<1>4. Survives(keys, m) /\ Partition(m.keys, m.deleted, size)
  BY <1>1, MaybeCollectedKeeps DEF StoreOK
<1>5. /\ MapType(m.keys) /\ m.deleted \in Seq(Nat) /\ k \notin DOMAIN m.keys
      /\ size \in Nat /\ capacity \in Nat /\ NewExpiry \in Nat
  BY <1>4, ExpiryType DEF Survives, StoreOK
<1>6. CASE /\ m.deleted # <<>>
           /\ keys' = With(m.keys, k, [pos |-> Head(m.deleted), exp |-> NewExpiry])
           /\ deleted' = Tail(m.deleted)
           /\ Returns(op, k, "row")
           /\ UNCHANGED <<size, capacity>>
  <2>1. Added(m.keys, k, keys') /\ deleted' \in Seq(Nat) /\ Partition(keys', deleted', size)
    BY <1>4, <1>5, <1>6, ReusedKeeps
  <2>2. StoreOK'
    BY <1>1, <1>5, <1>6, <2>1 DEF StoreOK, Added
  <2>3. Spares({})
    BY <1>4, <2>1 DEF Spares, Survives, Added
  <2>4. QED
    BY <1>6, <2>2, <2>3
<1>7. CASE /\ m.deleted = <<>>
           /\ keys' = With(m.keys, k, [pos |-> size, exp |-> NewExpiry])
           /\ deleted' = m.deleted
           /\ size' = size + 1
           /\ capacity' = IF capacity = size THEN Reserved ELSE capacity
           /\ Returns(op, k, "row")
  <2>1. Added(m.keys, k, keys') /\ Partition(keys', m.deleted, size + 1)
    BY <1>4, <1>5, <1>7, GrownKeeps
  <2>2. capacity' \in Nat
    BY <1>5, <1>7, SizeAssumption, SMTT(30) DEF Reserved, Requested, MaxSize
  <2>3. StoreOK'
    BY <1>1, <1>5, <1>7, <2>1, <2>2 DEF StoreOK, Added
  <2>4. Spares({})
    BY <1>4, <2>1 DEF Spares, Survives, Added
  <2>5. QED
    BY <1>7, <2>3, <2>4
<1>8. CASE /\ m.deleted = <<>>
           /\ keys' = m.keys
           /\ deleted' = m.deleted
           /\ Returns(op, k, "full")
           /\ UNCHANGED <<size, capacity>>
  <2>1. StoreOK'
    BY <1>1, <1>4, <1>5, <1>8 DEF StoreOK
  <2>2. Spares({})
    BY <1>4, <1>8 DEF Spares, Survives
  <2>3. QED
    BY <1>8, <2>1, <2>2
<1>9. QED
  BY <1>3, <1>6, <1>7, <1>8
-----------------------------------------------------------------------------
(* The inductive invariant: SlotsPartitioned needs to know that keys is a  *)
(* map of entries over a finite set of keys, and deleted a sequence.       *)
IInv == TypeOK /\ SlotsPartitioned

(* The invariant, as the lemmas about maps and queues use it ... *)
LEMMA IInvIsStoreOK == ASSUME IInv PROVE StoreOK /\ now \in 1..MaxNow
  BY DEF IInv, TypeOK, SlotsPartitioned, StoreOK, MapType

(* ... and back, in the state after a step. *)
LEMMA StoreOKIsIInv ==
  ASSUME StoreOK', now' \in 1..MaxNow,
         NEW op \in Op, NEW k \in Key, NEW out \in Out, Returns(op, k, out)
  PROVE  IInv'
  BY DEF IInv, TypeOK, SlotsPartitioned, StoreOK, MapType, Returns

(* A store that was just opened satisfies the invariant. *)
LEMMA InitIInv == ASSUME Init PROVE IInv
<1>1. keys = <<>> /\ deleted = <<>> /\ size = 0 /\ DOMAIN keys = {} /\ DOMAIN deleted = {}
  BY DEF Init
<1>2. TypeOK
  <2>1. DOMAIN keys \subseteq Key /\ deleted \in Seq(Nat)
    BY <1>1
  <2>2. keys \in [DOMAIN keys -> Entry]
    BY <1>1
  <2>3. size \in Nat /\ capacity \in Nat /\ now \in 1..MaxNow
    <3>1. size = 0 /\ capacity = InitialCapacity /\ now = 1
      BY DEF Init
    <3>2. QED
      BY <3>1, SizeAssumption, TimeAssumption DEF InitialCapacity
  <2>4. ret \in [op : Op, key : Key \cup {NoKey}, out : Out]
    BY DEF Init, Op, Out
  <2>5. QED
    BY <2>1, <2>2, <2>3, <2>4 DEF TypeOK, Init
<1>3. Partition(keys, deleted, size)
  BY <1>1 DEF Partition, UniqueLive, FreeIsUnused, NothingLost, BelowSize, IsInjective
<1>4. QED
  BY <1>2, <1>3 DEF IInv, SlotsPartitioned

(* A renewed expiry leaves the positions of the rows as they are. *)
LEMMA RenewStep ==
  ASSUME StoreOK, NEW k \in DOMAIN keys, now \in 1..MaxNow,
         keys' = [keys EXCEPT ![k].exp = NewExpiry],
         UNCHANGED <<deleted, size, capacity>>, garbage' \in BOOLEAN
  PROVE  /\ StoreOK' /\ Spares({k})
         /\ k \in DOMAIN keys' /\ keys'[k].pos = keys[k].pos
<1>1. NewExpiry \in Nat /\ keys \in [DOMAIN keys -> Entry] /\ DOMAIN keys \subseteq Key
  BY ExpiryType DEF StoreOK, MapType
<1>2. /\ DOMAIN keys' = DOMAIN keys
      /\ \A j \in DOMAIN keys : j # k => keys'[j] = keys[j]
      /\ keys'[k].pos = keys[k].pos /\ keys'[k] \in Entry
  <2>1. keys[k] \in Entry
    BY <1>1
  <2>2. keys'[k] = [keys[k] EXCEPT !.exp = NewExpiry]
    BY <1>1
  <2>3. keys'[k] \in Entry /\ keys'[k].pos = keys[k].pos
    BY <2>1, <2>2, <1>1 DEF Entry
  <2>4. QED
    BY <2>3
<1>3. MapType(keys') /\ \A j \in DOMAIN keys' : keys'[j].pos = keys[j].pos
  <2>1. keys' = [j \in DOMAIN keys |-> keys'[j]]
    OBVIOUS
  <2>2. QED
    BY <1>1, <1>2, <2>1 DEF MapType
<1>4. UniqueLive(keys') /\ FreeIsUnused(keys', deleted)
  BY <1>2, <1>3 DEF StoreOK, Partition, UniqueLive, FreeIsUnused
<1>5. NothingLost(keys', deleted, size) /\ BelowSize(keys', deleted, size)
  BY <1>2, <1>3 DEF StoreOK, Partition, NothingLost, BelowSize
<1>6. QED
  BY <1>2, <1>3, <1>4, <1>5 DEF StoreOK, Spares, Partition

(* What every operation on a key does: it keeps the invariant, it touches  *)
(* no other row that has not expired, it removes the row of its own key    *)
(* only if it is erase, and renews its expiry only if it is a write.       *)
OpStep(k) ==
  /\ IInv'
  /\ now' = now /\ ret'.key = k
  /\ Spares({k})
  /\ (k \in DOMAIN keys /\ ~Dead(keys[k]) /\ ret'.op # "erase") =>
       /\ k \in DOMAIN keys' /\ keys'[k].pos = keys[k].pos
       /\ ret'.op \in {"update", "replace"} \/ keys'[k].exp = keys[k].exp

(* at keeps the invariant and the rows that live. *)
LEMMA AtStep == ASSUME IInv, NEW k \in Key, At(k) PROVE OpStep(k)
<1>1. StoreOK /\ now \in 1..MaxNow /\ now' = now
  BY IInvIsStoreOK DEF At
<1>2. CASE UNCHANGED mapVars /\ \E out \in {"null", "row"} : Returns("at", k, out)
  <2>1. PICK out \in {"null", "row"} : Returns("at", k, out)
    BY <1>2
  <2>2. StoreOK'
    BY <1>1, <1>2 DEF StoreOK, mapVars, MapType
  <2>3. IInv'
    BY <1>1, <2>1, <2>2, StoreOKIsIInv DEF Op, Out
  <2>4. QED
    BY <1>1, <1>2, <2>1, <2>3 DEF OpStep, Spares, mapVars, Returns
<1>3. CASE k \in DOMAIN keys /\ Dead(keys[k]) /\ Returns("at", k, "null") /\ Delete(k)
  <2>1. StoreOK' /\ Spares({k})
    BY <1>1, <1>3, DeleteStep
  <2>2. IInv'
    BY <1>1, <1>3, <2>1, StoreOKIsIInv DEF Op, Out
  <2>3. QED
    BY <1>1, <1>3, <2>1, <2>2 DEF OpStep, Returns
<1>4. QED
  BY <1>2, <1>3 DEF At

(* insert keeps the invariant and the rows that live. *)
LEMMA InsertStep == ASSUME IInv, NEW k \in Key, Insert(k) PROVE OpStep(k)
<1>1. StoreOK /\ now \in 1..MaxNow /\ now' = now
  BY IInvIsStoreOK DEF Insert
<1>2. CASE /\ k \in DOMAIN keys
           /\ garbage' = (garbage \/ LifeTime > 0)
           /\ Returns("insert", k, "null")
           /\ UNCHANGED <<keys, deleted, size, capacity>>
  <2>1. StoreOK'
    BY <1>1, <1>2 DEF StoreOK, MapType
  <2>2. IInv'
    BY <1>1, <1>2, <2>1, StoreOKIsIInv DEF Op, Out
  <2>3. QED
    BY <1>1, <1>2, <2>2 DEF OpStep, Spares, Returns
<1>3. CASE k \notin DOMAIN keys /\ NewRow("insert", k)
  <2>1. StoreOK' /\ Spares({}) /\ \E out \in {"row", "full"} : Returns("insert", k, out)
    BY <1>1, <1>3, NewRowStep
  <2>2. PICK out \in {"row", "full"} : Returns("insert", k, out)
    BY <2>1
  <2>3. IInv'
    BY <1>1, <2>1, <2>2, StoreOKIsIInv DEF Op, Out
  <2>4. QED
    BY <1>1, <1>3, <2>1, <2>2, <2>3 DEF OpStep, Spares, Returns
<1>4. QED
  BY <1>2, <1>3 DEF Insert

(* update keeps the invariant and the rows that live. *)
LEMMA UpdateStep == ASSUME IInv, NEW k \in Key, Update(k) PROVE OpStep(k)
<1>1. /\ StoreOK /\ now \in 1..MaxNow /\ now' = now
      /\ UNCHANGED <<deleted, size, capacity, garbage>>
  BY IInvIsStoreOK DEF Update
<1>2. CASE /\ k \in DOMAIN keys
           /\ keys' = [keys EXCEPT ![k].exp = NewExpiry]
           /\ Returns("update", k, "row")
  <2>1. StoreOK' /\ Spares({k}) /\ k \in DOMAIN keys' /\ keys'[k].pos = keys[k].pos
    <3>1. garbage' \in BOOLEAN
      BY <1>1 DEF StoreOK
    <3>2. QED
      BY <1>1, <1>2, <3>1, RenewStep
  <2>2. IInv'
    BY <1>1, <1>2, <2>1, StoreOKIsIInv DEF Op, Out
  <2>3. QED
    BY <1>1, <1>2, <2>1, <2>2 DEF OpStep, Returns
<1>3. CASE k \notin DOMAIN keys /\ Returns("update", k, "null") /\ UNCHANGED keys
  <2>1. StoreOK'
    BY <1>1, <1>3 DEF StoreOK, MapType
  <2>2. IInv'
    BY <1>1, <1>3, <2>1, StoreOKIsIInv DEF Op, Out
  <2>3. QED
    BY <1>1, <1>3, <2>2 DEF OpStep, Spares, Returns
<1>4. QED
  BY <1>2, <1>3 DEF Update

(* replace keeps the invariant and the rows that live. *)
LEMMA ReplaceStep == ASSUME IInv, NEW k \in Key, Replace(k) PROVE OpStep(k)
<1>1. StoreOK /\ now \in 1..MaxNow /\ now' = now
  BY IInvIsStoreOK DEF Replace
<1>2. CASE /\ k \in DOMAIN keys
           /\ keys' = [keys EXCEPT ![k].exp = NewExpiry]
           /\ garbage' = (garbage \/ LifeTime > 0)
           /\ Returns("replace", k, "row")
           /\ UNCHANGED <<deleted, size, capacity>>
  <2>1. StoreOK' /\ Spares({k}) /\ k \in DOMAIN keys' /\ keys'[k].pos = keys[k].pos
    <3>1. garbage' \in BOOLEAN
      BY <1>1, <1>2 DEF StoreOK
    <3>2. QED
      BY <1>1, <1>2, <3>1, RenewStep
  <2>2. IInv'
    BY <1>1, <1>2, <2>1, StoreOKIsIInv DEF Op, Out
  <2>3. QED
    BY <1>1, <1>2, <2>1, <2>2 DEF OpStep, Returns
<1>3. CASE k \notin DOMAIN keys /\ NewRow("replace", k)
  <2>1. StoreOK' /\ Spares({}) /\ \E out \in {"row", "full"} : Returns("replace", k, out)
    BY <1>1, <1>3, NewRowStep
  <2>2. PICK out \in {"row", "full"} : Returns("replace", k, out)
    BY <2>1
  <2>3. IInv'
    BY <1>1, <2>1, <2>2, StoreOKIsIInv DEF Op, Out
  <2>4. QED
    BY <1>1, <1>3, <2>1, <2>2, <2>3 DEF OpStep, Spares, Returns
<1>4. QED
  BY <1>2, <1>3 DEF Replace

(* erase keeps the invariant and the rows that live, but for its key's. *)
LEMMA EraseStep == ASSUME IInv, NEW k \in Key, Erase(k) PROVE OpStep(k)
<1>1. StoreOK /\ now \in 1..MaxNow /\ now' = now
  BY IInvIsStoreOK DEF Erase
<1>2. CASE k \in DOMAIN keys /\ Returns("erase", k, "true") /\ Delete(k)
  <2>1. StoreOK' /\ Spares({k})
    BY <1>1, <1>2, DeleteStep
  <2>2. IInv'
    BY <1>1, <1>2, <2>1, StoreOKIsIInv DEF Op, Out
  <2>3. QED
    BY <1>1, <1>2, <2>1, <2>2 DEF OpStep, Returns
<1>3. CASE k \notin DOMAIN keys /\ Returns("erase", k, "false") /\ UNCHANGED mapVars
  <2>1. StoreOK'
    BY <1>1, <1>3 DEF StoreOK, MapType, mapVars
  <2>2. IInv'
    BY <1>1, <1>3, <2>1, StoreOKIsIInv DEF Op, Out
  <2>3. QED
    BY <1>1, <1>3, <2>2 DEF OpStep, Spares, Returns, mapVars
<1>4. QED
  BY <1>2, <1>3 DEF Erase

(* Time passing, and no step at all, change neither the map nor the queue. *)
LEMMA IdleStep ==
  ASSUME IInv, Tick \/ UNCHANGED vars
  PROVE  IInv' /\ UNCHANGED <<keys, deleted, size, capacity>>
<1>1. UNCHANGED <<mapVars, ret>> /\ now' \in 1..MaxNow
  BY TimeAssumption DEF Tick, vars, IInv, TypeOK
<1>2. UNCHANGED <<keys, deleted, size, capacity, garbage, ret>>
  BY <1>1 DEF mapVars
<1>3. TypeOK'
  BY <1>1, <1>2 DEF IInv, TypeOK
<1>4. SlotsPartitioned'
  BY <1>2 DEF IInv, SlotsPartitioned
<1>5. QED
  BY <1>2, <1>3, <1>4 DEF IInv

(* The cases of a step. *)
LEMMA NextCases ==
  ASSUME IInv, Next
  PROVE  Tick \/ \E k \in Key : OpStep(k)
  BY AtStep, InsertStep, UpdateStep, ReplaceStep, EraseStep DEF Next

(* Every step keeps the invariant. *)
LEMMA NextIInv == ASSUME IInv, [Next]_vars PROVE IInv'
<1>1. CASE Tick \/ UNCHANGED vars
  BY <1>1, IdleStep
<1>2. CASE \E k \in Key : OpStep(k)
  BY <1>2 DEF OpStep
<1>3. QED
  BY <1>1, <1>2, NextCases

(* Reading, writing, expiring, collecting and recycling rows in any order  *)
(* keeps the inductive invariant.                                          *)
THEOREM IInvHolds == Spec => []IInv
<1>1. Init => IInv
  BY InitIInv
<1>2. IInv /\ [Next]_vars => IInv'
  BY NextIInv
<1>3. QED
  BY <1>1, <1>2, PTL DEF Spec

(* The state of a CFixedMap keeps its types. *)
THEOREM TypeCorrect == Spec => []TypeOK
<1>1. IInv => TypeOK
  BY DEF IInv
<1>2. QED
  BY <1>1, IInvHolds, PTL

(* Every position is used by one key, or waits once to be reused: no two   *)
(* rows ever share memory and no row's memory is lost.                     *)
THEOREM SlotsArePartitioned == Spec => []SlotsPartitioned
<1>1. IInv => SlotsPartitioned
  BY DEF IInv
<1>2. QED
  BY <1>1, IInvHolds, PTL

(* A row that has not expired stays in its place until its key is erased,  *)
(* and only a write to its key changes the time at which it expires.       *)
THEOREM LiveRowsAreSafe == Spec => LiveRowsStay
<1> DEFINE Stays(k) ==
      (~Dead(keys[k]) /\ ~Acts({"erase"}, k))
         => /\ k \in DOMAIN keys'
            /\ keys'[k].pos = keys[k].pos
            /\ Acts({"update", "replace"}, k) \/ keys'[k].exp = keys[k].exp
<1>1. ASSUME IInv, [Next]_vars
      PROVE  [\A k \in DOMAIN keys : Stays(k)]_vars
  <2>1. CASE Tick \/ UNCHANGED vars
    <3>1. UNCHANGED keys
      BY <1>1, <2>1, IdleStep
    <3>2. QED
      BY <3>1
  <2>2. CASE \E j \in Key : OpStep(j)
    <3>1. PICK j \in Key : OpStep(j)
      BY <2>2
    <3>2. ASSUME NEW k \in DOMAIN keys PROVE Stays(k)
      <4>1. CASE k = j
        BY <3>1, <4>1 DEF OpStep, Acts
      <4>2. CASE k # j
        BY <3>1, <4>2 DEF OpStep, Spares
      <4>3. QED
        BY <4>1, <4>2
    <3>3. QED
      BY <3>2
  <2>3. QED
    BY <1>1, <2>1, <2>2, NextCases
<1>2. QED
  BY <1>1, IInvHolds, PTL DEF Spec, LiveRowsStay
-----------------------------------------------------------------------------
(* The block of memory holds every position, and respects the maximal      *)
(* number of rows, provided the table does not open with more rows than    *)
(* it may have: Open (cfixedmemorystorage.hpp) does not see to that.       *)
FitInv == IInv /\ RowsFit

(* What reserve makes room for when it does not refuse. *)
LEMMA ReserveMakesRoom ==
  ASSUME size \in Nat, capacity \in Nat, capacity = size, capacity <= MaxSize, ~ReserveThrows
  PROVE  size + 1 <= Reserved /\ Reserved <= MaxSize
<1>1. MaxSize \in Nat
  BY SizeAssumption DEF MaxSize
<1>2. PICK want : want = (3 * (size + 1)) \div 2
  OBVIOUS
<1>3. want \in Nat /\ want >= size + 1
  BY <1>2
<1>4. Requested = IF want < MaxSize THEN want ELSE MaxSize
  BY <1>2 DEF Requested
<1>5. QED
  BY <1>1, <1>3, <1>4 DEF ReserveThrows, Reserved

(* insert and replace of a new key grow the block before it is full, or throw. *)
LEMMA NewRowFits ==
  ASSUME FitInv, NEW op, NEW k \in Key, NewRow(op, k)
  PROVE  RowsFit'
<1>1. \/ UNCHANGED <<size, capacity>>
      \/ /\ ~(capacity = size /\ ReserveThrows)
         /\ size' = size + 1
         /\ capacity' = IF capacity = size THEN Reserved ELSE capacity
  BY DEF NewRow
<1>2. /\ size \in Nat /\ capacity \in Nat /\ MaxSize \in Nat
      /\ size <= capacity /\ capacity <= MaxSize
  BY SizeAssumption DEF FitInv, IInv, TypeOK, RowsFit, MaxSize
<1>3. CASE UNCHANGED <<size, capacity>>
  BY <1>2, <1>3 DEF RowsFit, MaxSize
<1>4. CASE /\ capacity # size
           /\ size' = size + 1 /\ capacity' = capacity
  BY <1>2, <1>4 DEF RowsFit, MaxSize
<1>5. CASE /\ capacity = size /\ ~ReserveThrows
           /\ size' = size + 1 /\ capacity' = Reserved
  <2>1. size + 1 <= Reserved /\ Reserved <= MaxSize
    BY <1>2, <1>5, ReserveMakesRoom
  <2>2. QED
    BY <1>5, <2>1 DEF RowsFit, MaxSize
<1>6. QED
  BY <1>1, <1>3, <1>4, <1>5

(* Every step keeps the rows inside a block of at most MaxSize rows. *)
LEMMA NextFits == ASSUME FitInv, [Next]_vars PROVE RowsFit'
<1>1. CASE UNCHANGED <<size, capacity>>
  BY <1>1 DEF FitInv, RowsFit, MaxSize
<1>2. CASE \E k \in Key, op \in Op : NewRow(op, k)
  BY <1>2, NewRowFits
<1>3. Tick \/ UNCHANGED vars => UNCHANGED <<size, capacity>>
  BY DEF Tick, vars, mapVars
<1>4. ASSUME NEW k \in Key, At(k) \/ Insert(k) \/ Update(k) \/ Replace(k) \/ Erase(k)
      PROVE  UNCHANGED <<size, capacity>> \/ \E op \in Op : NewRow(op, k)
  BY <1>4 DEF At, Insert, Update, Replace, Erase, Delete, mapVars, Op
<1>5. QED
  BY <1>1, <1>2, <1>3, <1>4 DEF Next

(* Every row is inside the memory block, and the block within the maximal  *)
(* number of rows, for a table that opens within it.                       *)
THEOREM RowsAlwaysFit == ASSUME InitialCapacity <= MaxSize PROVE Spec => []RowsFit
<1>1. Init => FitInv
  <2>1. ASSUME Init PROVE RowsFit
    BY <2>1, SizeAssumption DEF Init, RowsFit, InitialCapacity
  <2>2. QED
    BY <2>1, InitIInv DEF FitInv
<1>2. FitInv /\ [Next]_vars => FitInv'
  BY NextFits, NextIInv DEF FitInv
<1>3. FitInv => RowsFit
  BY DEF FitInv
<1>4. QED
  BY <1>1, <1>2, <1>3, PTL DEF Spec

(* A key holds a position of its own, so there are no more keys than       *)
(* positions.                                                              *)
LEMMA HeldFits ==
  ASSUME NEW ks, MapType(ks), NEW del \in Seq(Nat), NEW n \in Nat, Partition(ks, del, n)
  PROVE  Cardinality(DOMAIN ks) <= n
<1>1. [j \in DOMAIN ks |-> ks[j].pos] \in Injection(DOMAIN ks, 0..(n - 1))
  BY DEF MapType, Entry, Partition, BelowSize, UniqueLive, Injection, IsInjective
<1>2. IsFiniteSet(0..(n - 1)) /\ Cardinality(0..(n - 1)) = n
  <2>1. 0 \in Int /\ n - 1 \in Int
    OBVIOUS
  <2>2. IsFiniteSet(0..(n - 1)) /\ Cardinality(0..(n - 1)) = IF 0 > n - 1 THEN 0 ELSE (n - 1) - 0 + 1
    BY <2>1, FS_Interval
  <2>3. QED
    BY <2>2
<1>3. QED
  BY <1>1, <1>2, FS_Injection

(* When the first block is not too large, a table never holds more rows    *)
(* than its maximum, whatever is inserted, expires and is collected.       *)
THEOREM NeverMoreThanMaxRows == ASSUME InitialCapacity <= MaxSize PROVE Spec => []AtMostMaxRows
<1>1. ASSUME IInv, RowsFit PROVE AtMostMaxRows
  <2>1. MapType(keys) /\ deleted \in Seq(Nat) /\ size \in Nat /\ capacity \in Nat
        /\ Partition(keys, deleted, size)
    BY <1>1, IInvIsStoreOK DEF StoreOK
  <2>2. IsFiniteSet(DOMAIN keys) /\ Cardinality(DOMAIN keys) \in Nat
    BY <2>1, KeyAssumption, FS_Subset, FS_CardinalityType DEF MapType
  <2>3. Cardinality(DOMAIN keys) <= size
    BY <2>1, HeldFits
  <2>4. size <= capacity /\ capacity <= MaxSize /\ MaxSize \in Nat
    BY <1>1, SizeAssumption DEF RowsFit, MaxSize
  <2>5. QED
    BY <2>1, <2>2, <2>3, <2>4 DEF AtMostMaxRows
<1>2. QED
  BY <1>1, IInvHolds, RowsAlwaysFit, PTL
-----------------------------------------------------------------------------
(* A table without a lifetime holds no row that can expire: a collection   *)
(* that was never armed (IfCollectGarbage) would have found nothing.       *)
ExpireByLifeTime == LifeTime = 0 => \A k \in DOMAIN keys : keys[k].exp = 0
FullInv == IInv /\ ExpireByLifeTime

(* What a collection leaves of the map, and when there may be none. *)
LEMMA CollectedMap ==
  ASSUME NEW ks, NEW del, NEW armed, NEW forced, NEW m \in MaybeCollected(ks, del, armed, forced)
  PROVE  \/ m.keys = ks /\ m.deleted = del /\ ~(armed /\ forced)
         \/ m.keys = Restrict(ks, DOMAIN ks \ DeadKeys(ks))
<1>1. CASE m \in Collected(ks, del)
  <2>1. PICK order : m = [keys |-> Restrict(ks, DOMAIN ks \ DeadKeys(ks)), deleted |-> del \o order]
    BY <1>1 DEF Collected
  <2>2. QED
    BY <2>1
<1>2. CASE m = [keys |-> ks, deleted |-> del] /\ ~(armed /\ forced)
  BY <1>2
<1>3. QED
  BY <1>1, <1>2 DEF MaybeCollected

(* Every step keeps that: what is written is NewExpiry, or was there. *)
LEMMA NextExpireByLifeTime == ASSUME FullInv, [Next]_vars PROVE ExpireByLifeTime'
<1> SUFFICES ASSUME LifeTime = 0 PROVE \A j \in DOMAIN keys' : keys'[j].exp = 0
  BY DEF ExpireByLifeTime
<1>1. /\ NewExpiry = 0 /\ StoreOK /\ \A j \in DOMAIN keys : keys[j].exp = 0
  BY IInvIsStoreOK DEF FullInv, ExpireByLifeTime, NewExpiry
<1>2. CASE UNCHANGED keys
  BY <1>1, <1>2
<1>3. ASSUME NEW k \in DOMAIN keys, Delete(k) PROVE \A j \in DOMAIN keys' : keys'[j].exp = 0
  <2>1. PICK m \in MaybeCollected(Without(keys, k), Append(deleted, keys[k].pos), garbage, FALSE) :
          keys' = m.keys
    BY <1>3 DEF Delete
  <2>2. PICK left : left = Without(keys, k)
    OBVIOUS
  <2>3. DOMAIN left \subseteq DOMAIN keys /\ \A j \in DOMAIN left : left[j] = keys[j]
    BY <2>2 DEF Without, Restrict
  <2>4. keys' = left \/ keys' = Restrict(left, DOMAIN left \ DeadKeys(left))
    BY <2>1, <2>2, CollectedMap
  <2>5. DOMAIN keys' \subseteq DOMAIN left /\ \A j \in DOMAIN keys' : keys'[j] = left[j]
    BY <2>4 DEF Restrict
  <2>6. QED
    BY <2>3, <2>5, <1>1
<1>4. ASSUME NEW k \in DOMAIN keys, keys' = [keys EXCEPT ![k].exp = NewExpiry]
      PROVE  \A j \in DOMAIN keys' : keys'[j].exp = 0
  <2>1. keys[k] \in Entry
    BY <1>1 DEF StoreOK, MapType
  <2>2. keys'[k].exp = NewExpiry
    BY <2>1, <1>4 DEF Entry
  <2>3. QED
    BY <2>2, <1>1, <1>4
<1>5. ASSUME NEW k \in Key, NEW op, NewRow(op, k) PROVE \A j \in DOMAIN keys' : keys'[j].exp = 0
  <2>0. PICK armed, forced : armed = garbage' /\ forced = (deleted = <<>> /\ size = MaxSize)
    OBVIOUS
  <2>1. PICK m \in MaybeCollected(keys, deleted, armed, forced) :
          \/ keys' = m.keys
          \/ \E p : keys' = With(m.keys, k, [pos |-> p, exp |-> NewExpiry])
    BY <1>5, <2>0 DEF NewRow
  <2>2. m.keys = keys \/ m.keys = Restrict(keys, DOMAIN keys \ DeadKeys(keys))
    BY CollectedMap
  <2>3. DOMAIN m.keys \subseteq DOMAIN keys /\ \A j \in DOMAIN m.keys : m.keys[j] = keys[j]
    BY <2>2 DEF Restrict
  <2>4. QED
    BY <2>1, <2>3, <1>1 DEF With
<1>6. CASE Tick
  BY <1>6, <1>2 DEF Tick, mapVars
<1>7. CASE UNCHANGED vars
  BY <1>7, <1>2 DEF vars, mapVars
<1>8. ASSUME NEW k \in Key, At(k) \/ Insert(k) \/ Update(k) \/ Replace(k) \/ Erase(k)
      PROVE  \/ UNCHANGED keys
             \/ k \in DOMAIN keys /\ Delete(k)
             \/ k \in DOMAIN keys /\ keys' = [keys EXCEPT ![k].exp = NewExpiry]
             \/ \E op \in Op : NewRow(op, k)
  BY <1>8 DEF At, Insert, Update, Replace, Erase, mapVars, Op
<1>9. QED
  BY <1>2, <1>3, <1>4, <1>5, <1>6, <1>7, <1>8 DEF Next

(* A map without dead rows whose positions fill 0..n-1 has n rows. *)
LEMMA FilledHas ==
  ASSUME NEW ks, MapType(ks), NEW n \in Nat, Partition(ks, <<>>, n)
  PROVE  Cardinality(DOMAIN ks) = n
<1> DEFINE f == [k \in DOMAIN ks |-> ks[k].pos + 1]
<1>1. \A k \in DOMAIN ks : ks[k].pos \in 0..(n - 1)
  BY DEF MapType, Entry, Partition, BelowSize
<1>2. f \in [DOMAIN ks -> 1..n]
  BY <1>1
<1>3. \A j, k \in DOMAIN ks : f[j] = f[k] => j = k
  BY <1>1 DEF Partition, UniqueLive
<1>4. ASSUME NEW i \in 1..n PROVE \E k \in DOMAIN ks : f[k] = i
  <2>1. i - 1 \in 0..(n - 1)
    OBVIOUS
  <2>2. PICK k \in DOMAIN ks : ks[k].pos = i - 1
    BY <2>1 DEF Partition, NothingLost
  <2>3. QED
    BY <2>2
<1> HIDE DEF f
<1>5. f \in Bijection(DOMAIN ks, 1..n)
  BY <1>2, <1>3, <1>4 DEF Bijection, Injection, Surjection, IsInjective
<1>6. ExistsBijection(DOMAIN ks, 1..n) /\ Cardinality(1..n) = n
  BY <1>5, FS_Interval DEF ExistsBijection
<1>7. IsFiniteSet(DOMAIN ks)
  BY KeyAssumption, FS_Subset DEF MapType
<1>8. QED
  BY <1>6, <1>7, FS_Bijection

(* insert and replace only report a full table when it is: whatever had    *)
(* expired was collected before.                                           *)
LEMMA FullIsFull ==
  ASSUME FullInv, NEW op, NEW k \in Key, NewRow(op, k), ret'.out = "full"
  PROVE  Cardinality({j \in DOMAIN keys' : ~Dead(keys'[j])}) = MaxSize
<1>0. PICK forced \in BOOLEAN : forced = (deleted = <<>> /\ size = MaxSize)
  OBVIOUS
<1>1. PICK m \in MaybeCollected(keys, deleted, garbage', forced) :
        m.deleted = <<>> /\ capacity = size /\ ReserveThrows /\ keys' = m.keys
  BY <1>0 DEF NewRow, Returns
<1>2. size = MaxSize /\ size \in Nat /\ StoreOK
  BY <1>1, IInvIsStoreOK DEF ReserveThrows, FullInv, StoreOK
<1>3. garbage' \in BOOLEAN /\ (LifeTime > 0 => garbage')
  BY <1>2 DEF NewRow, StoreOK
<1>4. \A j \in DOMAIN m.keys : ~Dead(m.keys[j])
  <2>1. CASE m.keys = Restrict(keys, DOMAIN keys \ DeadKeys(keys))
    BY <2>1 DEF DeadKeys, Restrict
  <2>2. CASE m.keys = keys /\ ~garbage'
    BY <2>2, <1>3, TimeAssumption DEF FullInv, ExpireByLifeTime, Dead
  <2>3. \/ m.keys = keys /\ m.deleted = deleted /\ ~(garbage' /\ forced)
        \/ m.keys = Restrict(keys, DOMAIN keys \ DeadKeys(keys))
    BY <1>1, CollectedMap
  <2>4. QED
    BY <1>0, <1>1, <1>2, <2>1, <2>2, <2>3
<1>5. MapType(m.keys) /\ Partition(m.keys, <<>>, size)
  <2>1. Survives(keys, m) /\ Partition(m.keys, m.deleted, size)
    BY <1>1, <1>2, <1>3, MaybeCollectedKeeps DEF StoreOK
  <2>2. QED
    BY <1>1, <2>1 DEF Survives
<1>6. Cardinality(DOMAIN m.keys) = size
  BY <1>2, <1>5, FilledHas
<1>7. {j \in DOMAIN keys' : ~Dead(keys'[j])} = DOMAIN m.keys
  BY <1>1, <1>4
<1>8. QED
  BY <1>2, <1>6, <1>7

(* "Reach maximal rows" is only reported when MaxSize rows that have not   *)
(* expired are held: no lifetime, collection or removal makes it a lie.    *)
THEOREM FullIsTheTruth == Spec => FullMeansFull
<1>1. Init => FullInv
  <2>1. Init => DOMAIN keys = {}
    BY DEF Init
  <2>2. QED
    BY <2>1, InitIInv DEF FullInv, ExpireByLifeTime
<1>2. FullInv /\ [Next]_vars => FullInv'
  BY NextExpireByLifeTime, NextIInv DEF FullInv
<1>3. ASSUME FullInv, [Next]_vars
      PROVE  [(ret'.out = "full" /\ now' = now)
                => Cardinality({k \in DOMAIN keys' : ~Dead(keys'[k])}) = MaxSize]_vars
  <2> SUFFICES ASSUME Next, ret'.out = "full", now' = now
               PROVE  Cardinality({k \in DOMAIN keys' : ~Dead(keys'[k])}) = MaxSize
    BY <1>3
  <2>1. now \in Nat
    BY <1>3 DEF FullInv, IInv, TypeOK
  <2>2. ~Tick
    BY <2>1 DEF Tick
  <2>3. PICK k \in Key : At(k) \/ Insert(k) \/ Update(k) \/ Replace(k) \/ Erase(k)
    BY <2>2 DEF Next
  <2>4. PICK op \in Op : NewRow(op, k)
    BY <2>3 DEF At, Insert, Update, Replace, Erase, Returns, Op
  <2>5. QED
    BY <1>3, <2>4, FullIsFull
<1>4. QED
  BY <1>1, <1>2, <1>3, PTL DEF Spec, FullMeansFull
-----------------------------------------------------------------------------
(* Part 2: RowLayout and FixedStorage.                                     *)

NumFields == Len(Fields)

(* What the table of fields is made of. *)
LEMMA FieldShape ==
  /\ NumFields \in Nat /\ DOMAIN Fields = 1..NumFields
  /\ \A i \in 1..NumFields :
       /\ Fields[i].kind \in {"fixed", "padded", "packed"}
       /\ Fields[i].len \in Nat /\ Fields[i].put \in Nat /\ Fields[i].get \in Nat
       /\ FieldLength(Fields[i]) \in Nat
<1> DEFINE Field == [kind : {"fixed", "padded", "packed"}, len : Nat, put : Nat, get : Nat]
<1>1. Fields \in Seq(Field)
  BY FieldsAssumption
<1> HIDE DEF Field
<1>2. /\ NumFields \in Nat /\ DOMAIN Fields = 1..NumFields
      /\ \A i \in 1..NumFields : Fields[i] \in Field
  BY <1>1 DEF NumFields
<1>3. \A f \in Field : /\ f.kind \in {"fixed", "padded", "packed"}
                      /\ f.len \in Nat /\ f.put \in Nat /\ f.get \in Nat
  BY DEF Field
<1>4. QED
  BY <1>2, <1>3 DEF FieldLength

(* Each field begins where the one before it ends. *)
LEMMA PositionIs ==
  /\ Position \in [1..(NumFields + 1) -> Nat] /\ Position[1] = 0
  /\ \A i \in 1..NumFields : Position[i + 1] = Position[i] + FieldLength(Fields[i])
<1> DEFINE n == NumFields
           F == [k \in 1..n |-> [x \in Nat |-> x + FieldLength(Fields[k])]]
           Is(g) == g = [i \in 1..(n + 1) |->
                           IF i = 1 THEN 0 ELSE g[i - 1] + FieldLength(Fields[i - 1])]
<1>1. n \in Nat /\ \A k \in 1..n : FieldLength(Fields[k]) \in Nat
  BY FieldShape
<1> HIDE DEF n
<1>2. F \in [1..n -> [Nat -> Nat]]
  BY <1>1
<1>3. \A k \in 1..n : \A x \in Nat : F[k][x] = x + FieldLength(Fields[k])
  OBVIOUS
<1> HIDE DEF F
<1>4. PICK f \in [0..n -> Nat] : Recurs(f, n, 0, F)
  BY <1>1, <1>2, Recursion
<1> DEFINE g == [i \in 1..(n + 1) |-> f[i - 1]]
<1>5. g \in [1..(n + 1) -> Nat] /\ g[1] = 0
  BY <1>1, <1>4 DEF Recurs
<1>6. ASSUME NEW i \in 1..(n + 1), i # 1
      PROVE  g[i] = g[i - 1] + FieldLength(Fields[i - 1])
  <2>1. i - 1 \in 1..n /\ i - 1 \in 1..(n + 1) /\ (i - 1) - 1 \in 0..n
    BY <1>1, <1>6
  <2>2. f[i - 1] = f[(i - 1) - 1] + FieldLength(Fields[i - 1])
    BY <2>1, <1>3, <1>4 DEF Recurs
  <2>3. QED
    BY <2>1, <2>2
<1>7. Is(g)
  BY <1>5, <1>6
<1> HIDE DEF g
<1>8. Is(Position)
  BY <1>7 DEF Position, n, NumFields
<1>9. \A i \in 1..(n + 1) :
        Position[i] = IF i = 1 THEN 0 ELSE Position[i - 1] + FieldLength(Fields[i - 1])
  BY <1>8
<1>10. Position[1] = 0
  BY <1>1, <1>9
<1>11. ASSUME NEW i \in 1..n PROVE Position[i + 1] = Position[i] + FieldLength(Fields[i])
  <2>1. i + 1 \in 1..(n + 1) /\ i + 1 # 1 /\ (i + 1) - 1 = i
    BY <1>1
  <2>2. QED
    BY <2>1, <1>9
<1>12. \A i \in 1..(n + 1) : Position[i] \in Nat
  <2> DEFINE S == {i \in Nat : i < n + 1 => Position[i + 1] \in Nat}
  <2>1. 0 \in S
    BY <1>10
  <2>2. ASSUME NEW i \in Nat, i \in S PROVE i + 1 \in S
    <3> SUFFICES ASSUME i + 1 < n + 1 PROVE Position[(i + 1) + 1] \in Nat
      OBVIOUS
    <3>1. i + 1 \in 1..n /\ Position[i + 1] \in Nat
      BY <1>1, <2>2
    <3>2. QED
      BY <3>1, <1>1, <1>11
  <2> HIDE DEF S
  <2>3. \A i \in Nat : i \in S
    BY <2>1, <2>2, Induction
  <2>4. ASSUME NEW i \in 1..(n + 1) PROVE Position[i] \in Nat
    <3>1. i - 1 \in Nat /\ i - 1 < n + 1 /\ (i - 1) + 1 = i
      BY <1>1
    <3>2. QED
      BY <3>1, <2>3 DEF S
  <2>5. QED
    BY <2>4
<1>13. Position \in [1..(n + 1) -> Nat]
  BY <1>8, <1>12
<1>14. QED
  BY <1>10, <1>11, <1>13 DEF n

(* No field begins before an earlier one ends. *)
LEMMA PositionsGrow ==
  ASSUME NEW i \in 1..(NumFields + 1), NEW j \in 1..(NumFields + 1), i <= j
  PROVE  /\ Position[i] \in Nat /\ Position[j] \in Nat /\ Position[i] <= Position[j]
         /\ i < j => Position[i] + FieldLength(Fields[i]) <= Position[j]
<1>1. NumFields \in Nat /\ \A k \in 1..NumFields : FieldLength(Fields[k]) \in Nat
  BY FieldShape
<1>2. /\ \A k \in 1..(NumFields + 1) : Position[k] \in Nat
      /\ \A k \in 1..NumFields : Position[k + 1] = Position[k] + FieldLength(Fields[k])
  BY PositionIs
<1> DEFINE S == {n \in Nat : \A k \in 1..(NumFields + 1) :
                               k + n <= NumFields + 1 => Position[k] <= Position[k + n]}
<1>3. 0 \in S
  BY <1>1, <1>2
<1>4. ASSUME NEW n \in Nat, n \in S PROVE n + 1 \in S
  <2> SUFFICES ASSUME NEW k \in 1..(NumFields + 1), k + (n + 1) <= NumFields + 1
               PROVE  Position[k] <= Position[k + (n + 1)]
    OBVIOUS
  <2>1. k + n <= NumFields + 1 /\ Position[k] <= Position[k + n]
    BY <1>1, <1>4
  <2>2. k + n \in 1..NumFields /\ k + (n + 1) = (k + n) + 1
    BY <1>1
  <2>3. Position[(k + n) + 1] = Position[k + n] + FieldLength(Fields[k + n])
    BY <2>2, <1>2
  <2>4. FieldLength(Fields[k + n]) \in Nat /\ Position[k + n] \in Nat /\ Position[k] \in Nat
    BY <2>2, <1>1, <1>2
  <2> HIDE DEF S
  <2>5. QED
    BY <2>1, <2>2, <2>3, <2>4
<1> HIDE DEF S
<1>5. \A n \in Nat : n \in S
  BY <1>3, <1>4, Induction
<1>6. \A k \in 1..(NumFields + 1) : k <= j => Position[k] <= Position[j]
  <2> SUFFICES ASSUME NEW k \in 1..(NumFields + 1), k <= j PROVE Position[k] <= Position[j]
    OBVIOUS
  <2>1. j - k \in Nat /\ k + (j - k) = j /\ j <= NumFields + 1
    BY <1>1
  <2>2. j - k \in S
    BY <2>1, <1>5
  <2>3. QED
    BY <2>1, <2>2 DEF S
<1>7. i < j => i \in 1..NumFields /\ i + 1 \in 1..(NumFields + 1) /\ i + 1 <= j
  BY <1>1
<1>8. QED
  BY <1>2, <1>6, <1>7

LEMMA RowLengthIs == RowLength \in Nat /\ \A i \in 1..(NumFields + 1) : Position[i] <= RowLength
<1>1. NumFields \in Nat /\ NumFields + 1 \in 1..(NumFields + 1)
  BY FieldShape
<1>2. QED
  BY <1>1, PositionsGrow DEF RowLength, NumFields
-----------------------------------------------------------------------------
(* Writing into the cells of a row. *)
Rows == [1..RowLength -> Nat]
Packs == [row : Rows, at : Nat, out : {"ok", "error", "noroom"}]

(* What a write that fits makes of a pack. *)
Written(new, pack, chunk) ==
  /\ new \in Packs /\ new.out = "ok" /\ new.at = pack.at + Len(chunk)
  /\ \A c \in 1..RowLength : ~(pack.at < c /\ c <= new.at) => new.row[c] = pack.row[c]
  /\ \A c \in 1..Len(chunk) : new.row[pack.at + c] = chunk[c]

LEMMA WriteFits ==
  ASSUME NEW pack \in Packs, pack.out = "ok", NEW chunk \in Seq(Nat),
         pack.at + Len(chunk) <= RowLength
  PROVE  Written(Write(pack, chunk), pack, chunk)
<1>1. /\ pack.row \in Rows /\ pack.at \in Nat /\ RowLength \in Nat
      /\ Len(chunk) \in Nat /\ DOMAIN chunk = 1..Len(chunk)
      /\ \A c \in 1..Len(chunk) : chunk[c] \in Nat
  BY RowLengthIs DEF Packs
<1> DEFINE row == Overwrite(pack.row, pack.at, chunk)
<1>2. /\ row \in Rows
      /\ \A c \in 1..RowLength :
           row[c] = IF c - pack.at \in 1..Len(chunk) THEN chunk[c - pack.at] ELSE pack.row[c]
  BY <1>1 DEF Overwrite, Rows
<1> HIDE DEF row
<1>3. Write(pack, chunk) = [row |-> row, at |-> pack.at + Len(chunk), out |-> "ok"]
  BY <1>1 DEF Write, row
<1>4. Write(pack, chunk) \in Packs
  BY <1>1, <1>2, <1>3 DEF Packs
<1>5. ASSUME NEW c \in 1..RowLength, ~(pack.at < c /\ c <= pack.at + Len(chunk))
      PROVE  row[c] = pack.row[c]
  BY <1>1, <1>2, <1>5
<1>6. ASSUME NEW c \in 1..Len(chunk) PROVE row[pack.at + c] = chunk[c]
  <2>1. pack.at + c \in 1..RowLength /\ (pack.at + c) - pack.at = c
    BY <1>1
  <2>2. QED
    BY <2>1, <1>2
<1>7. QED
  BY <1>3, <1>4, <1>5, <1>6 DEF Written

(* A write that does not fit changes no cell. *)
LEMMA WriteType == ASSUME NEW pack \in Packs, NEW chunk \in Seq(Nat) PROVE Write(pack, chunk) \in Packs
<1>1. CASE pack.out # "ok"
  BY <1>1 DEF Write
<1>2. CASE pack.out = "ok" /\ pack.at + Len(chunk) > RowLength
  BY <1>2 DEF Write, Packs
<1>3. CASE pack.out = "ok" /\ pack.at + Len(chunk) <= RowLength
  BY <1>3, WriteFits DEF Written
<1>4. QED
  <2>1. pack.at + Len(chunk) \in Nat /\ RowLength \in Nat
    BY RowLengthIs DEF Packs
  <2>2. QED
    BY <2>1, <1>1, <1>2, <1>3
-----------------------------------------------------------------------------
(* Storing a value: what Store keeps fits in the length of the field. *)
Value(f, v) == Storable(f, v) /\ (f.kind # "fixed" => Len(v) <= f.len)

(* The cells a value takes, and how it lies in them. *)
Used(f, v) ==
  IF f.kind = "fixed" THEN Len(v) ELSE IF f.kind = "padded" THEN 1 + f.len ELSE 1 + Len(v)
Holds(row, at, f, v) ==
  IF f.kind = "fixed" THEN \A c \in 1..Len(v) : row[at + c] = v[c]
  ELSE row[at + 1] = Len(v) /\ \A c \in 1..Len(v) : row[(at + 1) + c] = v[c]

(* What storing a value that fits makes of a pack. *)
StoredIn(new, pack, f, v) ==
  /\ new \in Packs /\ new.out = "ok" /\ new.at = pack.at + Used(f, v)
  /\ \A c \in 1..RowLength : ~(pack.at < c /\ c <= new.at) => new.row[c] = pack.row[c]
  /\ Holds(new.row, pack.at, f, v)

LEMMA StoreFits ==
  ASSUME NEW i \in 1..NumFields, NEW pack \in Packs, pack.out = "ok",
         NEW v, Value(Fields[i], v), pack.at + Used(Fields[i], v) <= RowLength
  PROVE  StoredIn(Store(pack, Fields[i], v), pack, Fields[i], v)
<1> DEFINE f == Fields[i]
<1>1. f.kind \in {"fixed", "padded", "packed"} /\ f.len \in Nat
  BY FieldShape
<1>2. /\ v \in Seq(Nat) /\ Len(v) \in Nat /\ (f.kind # "fixed" => Len(v) <= f.len)
      /\ pack.at \in Nat /\ RowLength \in Nat
  BY RowLengthIs DEF Value, Storable, Packs
<1> HIDE DEF f
<1>3. CASE f.kind = "fixed"
  <2>1. Store(pack, f, v) = Write(pack, v)
    BY <1>3 DEF Store
  <2>2. Used(f, v) = Len(v)
    BY <1>3 DEF Used
  <2>3. Written(Write(pack, v), pack, v)
    BY <1>2, <2>2, WriteFits DEF f
  <2>4. StoredIn(Write(pack, v), pack, f, v)
    BY <1>3, <2>2, <2>3 DEF Written, StoredIn, Holds
  <2>5. QED
    BY <2>1, <2>4 DEF f
<1>4. CASE f.kind # "fixed"
  <2> DEFINE one == <<Len(v)>>
             w1 == Write(pack, one)
             w2 == Write(w1, v)
  <2>1. one \in Seq(Nat) /\ Len(one) = 1 /\ one[1] = Len(v)
    BY <1>2
  <2>2. Used(f, v) \in Nat /\ 1 + Len(v) <= Used(f, v) /\ pack.at + Used(f, v) <= RowLength
    BY <1>1, <1>2, <1>4 DEF Used, f
  <2> HIDE DEF one, w1, w2
  <2>3. pack.at + Len(one) <= RowLength
    BY <1>2, <2>1, <2>2
  <2>4. Written(w1, pack, one)
    BY <2>1, <2>3, WriteFits DEF w1
  <2>5. /\ w1 \in Packs /\ w1.out = "ok" /\ w1.at = pack.at + 1
        /\ \A c \in 1..RowLength : c # pack.at + 1 => w1.row[c] = pack.row[c]
        /\ w1.row[pack.at + 1] = Len(v)
    BY <1>2, <2>1, <2>4 DEF Written
  <2>6. Written(w2, w1, v)
    <3>1. w1.at + Len(v) <= RowLength
      BY <1>2, <2>2, <2>5
    <3>2. QED
      BY <1>2, <2>5, <3>1, WriteFits DEF w2
  <2>7. /\ w2 \in Packs /\ w2.out = "ok" /\ w2.at = (pack.at + 1) + Len(v)
        /\ \A c \in 1..RowLength : ~(pack.at < c /\ c <= w2.at) => w2.row[c] = pack.row[c]
        /\ w2.row[pack.at + 1] = Len(v)
        /\ \A c \in 1..Len(v) : w2.row[(pack.at + 1) + c] = v[c]
    <3>1. /\ w2 \in Packs /\ w2.out = "ok" /\ w2.at = (pack.at + 1) + Len(v)
          /\ \A c \in 1..RowLength : ~(pack.at + 1 < c /\ c <= w2.at) => w2.row[c] = w1.row[c]
          /\ \A c \in 1..Len(v) : w2.row[(pack.at + 1) + c] = v[c]
      BY <2>5, <2>6 DEF Written
    <3>2. pack.at + 1 \in 1..RowLength
      BY <1>2, <2>1, <2>3
    <3>3. w2.row[pack.at + 1] = Len(v)
      <4>1. ~(pack.at + 1 < pack.at + 1)
        BY <1>2
      <4>2. w2.row[pack.at + 1] = w1.row[pack.at + 1]
        BY <3>1, <3>2, <4>1
      <4>3. QED
        BY <2>5, <4>2
    <3>4. QED
      BY <1>2, <2>5, <3>1, <3>3
  <2>8. CASE f.kind = "packed"
    <3>1. Store(pack, f, v) = w2 /\ Used(f, v) = 1 + Len(v)
      BY <2>8 DEF Store, Used, w1, w2, one
    <3>2. w2.at = pack.at + Used(f, v)
      <4>1. w2.at = (pack.at + 1) + Len(v) /\ pack.at \in Nat /\ Len(v) \in Nat
        BY <1>2, <2>7
      <4>2. QED
        BY <3>1, <4>1
    <3>3. QED
      BY <1>4, <2>7, <3>1, <3>2 DEF StoredIn, Holds, f
  <2>9. CASE f.kind = "padded"
    <3> DEFINE pad == [c \in 1..(f.len - Len(v)) |-> 0]
               w3 == Write(w2, pad)
    <3>1. pad \in Seq(Nat) /\ Len(pad) = f.len - Len(v)
      <4>1. f.len - Len(v) \in Nat
        BY <1>1, <1>2, <1>4
      <4>2. QED
        BY <4>1
    <3>2. Store(pack, f, v) = w3 /\ Used(f, v) = 1 + f.len
      BY <2>9 DEF Store, Used, w1, w2, one
    <3> HIDE DEF pad, w3
    <3>3. w2.at + Len(pad) = pack.at + Used(f, v)
      <4>1. w2.at = (pack.at + 1) + Len(v) /\ pack.at \in Nat /\ Len(v) \in Nat
        BY <1>2, <2>7
      <4>2. QED
        BY <1>1, <3>1, <3>2, <4>1
    <3>4. Written(w3, w2, pad)
      BY <2>2, <2>7, <3>1, <3>3, WriteFits DEF w3
    <3>5. /\ w3 \in Packs /\ w3.out = "ok" /\ w3.at = pack.at + Used(f, v)
          /\ \A c \in 1..RowLength : c <= w2.at \/ w3.at < c => w3.row[c] = w2.row[c]
      <4>1. w2.at \in Nat /\ w3.at \in Nat
        BY <2>7, <3>4 DEF Packs, Written
      <4>2. QED
        BY <3>3, <3>4, <4>1 DEF Written
    <3>6. \A c \in 1..Len(v) : (pack.at + 1) + c \in 1..RowLength /\ (pack.at + 1) + c <= w2.at
      <4>1. w2.at = (pack.at + 1) + Len(v) /\ (pack.at + 1) + Len(v) <= RowLength
        <5>1. w2.at = (pack.at + 1) + Len(v)
          BY <2>7
        <5>2. pack.at \in Nat /\ Len(v) \in Nat /\ RowLength \in Nat
          BY <1>2
        <5>3. Used(f, v) \in Nat /\ 1 + Len(v) <= Used(f, v) /\ pack.at + Used(f, v) <= RowLength
          BY <2>2
        <5>4. QED
          BY <5>1, <5>2, <5>3
      <4>2. pack.at \in Nat /\ Len(v) \in Nat /\ RowLength \in Nat
        BY <1>2
      <4>3. QED
        BY <4>1, <4>2
    <3>7. pack.at + 1 \in 1..RowLength /\ pack.at + 1 <= w2.at
      BY <1>2, <2>1, <2>3, <2>7
    <3>8. Holds(w3.row, pack.at, f, v)
      BY <1>4, <2>7, <3>5, <3>6, <3>7 DEF Holds
    <3>9. \A c \in 1..RowLength : ~(pack.at < c /\ c <= w3.at) => w3.row[c] = pack.row[c]
      <4>1. pack.at \in Nat /\ w2.at \in Nat /\ w3.at \in Nat /\ pack.at <= w2.at /\ w2.at <= w3.at
        BY <1>2, <2>2, <2>7, <3>5
      <4>2. QED
        BY <2>7, <3>5, <4>1, <1>2
    <3>10. QED
      BY <3>2, <3>5, <3>8, <3>9 DEF StoredIn, f
  <2>10. QED
    BY <1>1, <1>4, <2>8, <2>9
<1>5. QED
  BY <1>3, <1>4

(* Storing a value never makes anything but a pack. *)
LEMMA StoreType ==
  ASSUME NEW i \in 1..NumFields, NEW pack \in Packs, NEW v, Value(Fields[i], v)
  PROVE  Store(pack, Fields[i], v) \in Packs
<1> DEFINE pad == [c \in 1..(Fields[i].len - Len(v)) |-> 0]
<1>1. /\ Fields[i].kind \in {"fixed", "padded", "packed"} /\ Fields[i].len \in Nat
      /\ v \in Seq(Nat) /\ Len(v) \in Nat /\ <<Len(v)>> \in Seq(Nat)
  BY FieldShape DEF Value, Storable
<1>2. Fields[i].kind # "fixed" => pad \in Seq(Nat)
  <2>1. Fields[i].kind # "fixed" => Fields[i].len - Len(v) \in Nat
    BY <1>1 DEF Value
  <2>2. QED
    BY <2>1
<1> HIDE DEF pad
<1>3. Write(pack, v) \in Packs /\ Write(Write(pack, <<Len(v)>>), v) \in Packs
  BY <1>1, WriteType
<1>4. Fields[i].kind # "fixed" => Write(Write(Write(pack, <<Len(v)>>), v), pad) \in Packs
  BY <1>2, <1>3, WriteType
<1>5. QED
  BY <1>1, <1>3, <1>4 DEF Store, pad
-----------------------------------------------------------------------------
(* Storing the fields of a row, one after the other.                       *)

(* What Source makes of a request: values, and fields that are refused or  *)
(* kept as they are.                                                       *)
Sources(src) ==
  /\ DOMAIN src = 1..NumFields
  /\ \A i \in 1..NumFields : src[i] \in {Bad, Keep} \/ Value(Fields[i], src[i])

(* A value that is cut to the length of its field is a value of the field. *)
LEMMA TruncatedIs ==
  ASSUME NEW i \in 1..NumFields, NEW v, Storable(Fields[i], v)
  PROVE  Value(Fields[i], Truncated(Fields[i], v))
<1>1. Fields[i].len \in Nat /\ v \in Seq(Nat) /\ Len(v) \in Nat
  BY FieldShape DEF Storable
<1>2. CASE Fields[i].kind = "fixed" \/ Len(v) <= Fields[i].len
  BY <1>2 DEF Truncated, Value
<1>3. CASE Fields[i].kind # "fixed" /\ ~(Len(v) <= Fields[i].len)
  <2>1. Truncated(Fields[i], v) = SubSeq(v, 1, Fields[i].len)
    BY <1>3 DEF Truncated
  <2>2. SubSeq(v, 1, Fields[i].len) \in Seq(Nat) /\ Len(SubSeq(v, 1, Fields[i].len)) = Fields[i].len
    <3>1. Fields[i].len \in 0..Len(v)
      BY <1>1, <1>3
    <3>2. QED
      BY <1>1, <3>1, SubSeqProperties
  <2>3. QED
    BY <1>1, <1>3, <2>1, <2>2 DEF Value, Storable
<1>4. QED
  BY <1>2, <1>3

LEMMA SourceIs ==
  ASSUME NEW given \in Given
  PROVE  /\ Sources(Source(given, InsertFill)) /\ Sources(Source(given, UpdateFill))
         /\ \A i \in 1..NumFields : Source(given, InsertFill)[i] # Keep
<1>1. DOMAIN Fields = 1..NumFields
  BY FieldShape
<1> SUFFICES ASSUME NEW i \in 1..NumFields
             PROVE  /\ \A fill \in {InsertFill, UpdateFill} :
                         Source(given, fill)[i] \in {Bad, Keep} \/ Value(Fields[i], Source(given, fill)[i])
                    /\ Source(given, InsertFill)[i] # Keep
  BY <1>1 DEF Sources, Source
<1>2. \A fill : Source(given, fill)[i] =
          LET v == IF given[i] = Missing THEN fill[i] ELSE given[i]
          IN  IF v \in {Bad, Keep} THEN v ELSE Truncated(Fields[i], v)
  BY <1>1 DEF Source
<1>3. /\ given[i] \in {Missing, Bad} \/ Storable(Fields[i], given[i])
      /\ InsertFill[i] = Bad \/ Storable(Fields[i], InsertFill[i])
      /\ UpdateFill[i] = Keep \/ Storable(Fields[i], UpdateFill[i])
  BY <1>1, ValuesAssumption
<1>4. Keep # Bad /\ \A v : Storable(Fields[i], v) => v # Keep
  BY MarkersDiffer DEF Storable
<1>5. \A v : Value(Fields[i], v) => v # Keep
  BY <1>4 DEF Value
<1>6. ASSUME NEW fill \in {InsertFill, UpdateFill}
      PROVE  Source(given, fill)[i] \in {Bad, Keep} \/ Value(Fields[i], Source(given, fill)[i])
  <2> DEFINE v == IF given[i] = Missing THEN fill[i] ELSE given[i]
  <2>1. v \in {Bad, Keep} \/ Storable(Fields[i], v)
    BY <1>3
  <2> HIDE DEF v
  <2>2. Source(given, fill)[i] = IF v \in {Bad, Keep} THEN v ELSE Truncated(Fields[i], v)
    BY <1>2 DEF v
  <2>3. QED
    BY <2>1, <2>2, TruncatedIs
<1>7. Source(given, InsertFill)[i] # Keep
  <2> DEFINE v == IF given[i] = Missing THEN InsertFill[i] ELSE given[i]
  <2>1. v = Bad \/ Storable(Fields[i], v)
    BY <1>3
  <2> HIDE DEF v
  <2>2. Source(given, InsertFill)[i] = IF v \in {Bad, Keep} THEN v ELSE Truncated(Fields[i], v)
    BY <1>2 DEF v
  <2>3. CASE v = Bad
    BY <1>4, <2>2, <2>3
  <2>4. CASE v # Bad
    <3>1. Value(Fields[i], Truncated(Fields[i], v)) /\ v # Keep
      BY <1>4, <2>1, <2>4, TruncatedIs
    <3>2. QED
      BY <1>5, <2>2, <2>4, <3>1
  <2>5. QED
    BY <2>3, <2>4
<1>8. QED
  BY <1>6, <1>7

(* The packs an insert or a replace goes through. *)
LEMMA InOrder ==
  ASSUME NEW row \in Rows, NEW src, Sources(src), \A i \in 1..NumFields : src[i] # Keep
  PROVE  \E p \in [0..NumFields -> Packs] :
           /\ p[0] = Opened(row) /\ PutInOrder(row, src) = p[NumFields]
           /\ \A i \in 1..NumFields : p[i] = GetInputValue(p[i - 1], i, src[i])
<1> DEFINE n == NumFields
           Step(i, x) == GetInputValue(x, i, src[i])
           F == [i \in 1..n |-> [x \in Packs |-> Step(i, x)]]
           Is(g) == g = [i \in 0..n |-> IF i = 0 THEN Opened(row) ELSE Step(i, g[i - 1])]
<1>1. n \in Nat /\ Opened(row) \in Packs
  BY FieldShape DEF Opened, Packs
<1>2. ASSUME NEW i \in 1..n, NEW x \in Packs PROVE Step(i, x) \in Packs
  <2>1. src[i] = Bad \/ Value(Fields[i], src[i])
    BY DEF Sources
  <2>2. [x EXCEPT !.out = "error"] \in Packs
    BY DEF Packs
  <2>3. QED
    BY <2>1, <2>2, StoreType DEF GetInputValue
<1> HIDE DEF n, Step
<1>3. F \in [1..n -> [Packs -> Packs]] /\ \A i \in 1..n : \A x \in Packs : F[i][x] = Step(i, x)
  BY <1>2
<1> HIDE DEF F
<1>4. PICK p \in [0..n -> Packs] : Recurs(p, n, Opened(row), F)
  BY <1>1, <1>3, Recursion
<1>5. p[0] = Opened(row) /\ \A i \in 1..n : p[i] = Step(i, p[i - 1])
  <2>1. \A i \in 1..n : i - 1 \in 0..n
    BY <1>1
  <2>2. QED
    BY <2>1, <1>3, <1>4 DEF Recurs
<1>6. Is(p)
  <2>1. \A i \in 0..n : i # 0 => i \in 1..n
    BY <1>1
  <2>2. QED
    BY <2>1, <1>4, <1>5
<1> DEFINE pack == CHOOSE g : Is(g)
<1>7. Is(pack)
  BY <1>6
<1>8. PutInOrder(row, src) = pack[n]
  BY DEF PutInOrder, n, NumFields, Step
<1>9. pack[0] = Opened(row) /\ \A i \in 1..n : pack[i] = Step(i, pack[i - 1])
  <2>1. 0 \in 0..n /\ \A i \in 1..n : i \in 0..n /\ i # 0
    BY <1>1
  <2>2. \A i \in 0..n : pack[i] = IF i = 0 THEN Opened(row) ELSE Step(i, pack[i - 1])
    BY <1>7
  <2>3. QED
    BY <2>1, <2>2
<1>10. \A i \in 0..n : pack[i] = p[i]
  <2> HIDE DEF pack
  <2> DEFINE S == {i \in Nat : i <= n => pack[i] = p[i]}
  <2>1. 0 \in S
    BY <1>5, <1>9
  <2>2. ASSUME NEW i \in Nat, i \in S PROVE i + 1 \in S
    <3>1. i + 1 <= n => i + 1 \in 1..n /\ (i + 1) - 1 = i /\ pack[i] = p[i]
      BY <1>1, <2>2
    <3>2. QED
      BY <3>1, <1>5, <1>9
  <2> HIDE DEF S
  <2>3. \A i \in Nat : i \in S
    BY <2>1, <2>2, Induction
  <2>4. QED
    BY <2>3, <1>1 DEF S
<1>11. PutInOrder(row, src) = p[n]
  BY <1>1, <1>8, <1>10
<1>12. QED
  BY <1>5, <1>11 DEF Step, n

(* The packs an update goes through. *)
Updated(pack, i, v) ==
  IF v = Keep THEN pack ELSE GetInputValue([pack EXCEPT !.at = Position[i]], i, v)
LEMMA InPlaces ==
  ASSUME NEW row \in Rows, NEW src, Sources(src)
  PROVE  \E p \in [0..NumFields -> Packs] :
           /\ p[0] = Opened(row) /\ PutAtPositions(row, src) = p[NumFields]
           /\ \A i \in 1..NumFields : p[i] = Updated(p[i - 1], i, src[i])
<1> DEFINE n == NumFields
           Step(i, x) == Updated(x, i, src[i])
           F == [i \in 1..n |-> [x \in Packs |-> Step(i, x)]]
           Is(g) == g = [i \in 0..n |-> IF i = 0 THEN Opened(row) ELSE Step(i, g[i - 1])]
<1>1. n \in Nat /\ Opened(row) \in Packs
  BY FieldShape DEF Opened, Packs
<1>2. ASSUME NEW i \in 1..n, NEW x \in Packs PROVE Step(i, x) \in Packs
  <2>1. src[i] \in {Bad, Keep} \/ Value(Fields[i], src[i])
    BY DEF Sources
  <2> DEFINE at == [x EXCEPT !.at = Position[i]]
  <2>2. at \in Packs
    <3>1. Position[i] \in Nat
      BY <1>1, PositionIs
    <3>2. QED
      BY <3>1 DEF Packs
  <2> HIDE DEF at
  <2>3. [at EXCEPT !.out = "error"] \in Packs
    BY <2>2 DEF Packs
  <2>4. GetInputValue(at, i, src[i]) \in Packs \/ src[i] = Keep
    BY <2>1, <2>2, <2>3, StoreType DEF GetInputValue
  <2>5. QED
    BY <2>4 DEF Updated, at
<1> HIDE DEF n, Step
<1>3. F \in [1..n -> [Packs -> Packs]] /\ \A i \in 1..n : \A x \in Packs : F[i][x] = Step(i, x)
  BY <1>2
<1> HIDE DEF F
<1>4. PICK p \in [0..n -> Packs] : Recurs(p, n, Opened(row), F)
  BY <1>1, <1>3, Recursion
<1>5. p[0] = Opened(row) /\ \A i \in 1..n : p[i] = Step(i, p[i - 1])
  <2>1. \A i \in 1..n : i - 1 \in 0..n
    BY <1>1
  <2>2. QED
    BY <2>1, <1>3, <1>4 DEF Recurs
<1>6. Is(p)
  <2>1. \A i \in 0..n : i # 0 => i \in 1..n
    BY <1>1
  <2>2. QED
    BY <2>1, <1>4, <1>5
<1> DEFINE pack == CHOOSE g : Is(g)
<1>7. Is(pack)
  BY <1>6
<1>8. PutAtPositions(row, src) = pack[n]
  BY DEF PutAtPositions, n, NumFields, Step, Updated
<1>9. pack[0] = Opened(row) /\ \A i \in 1..n : pack[i] = Step(i, pack[i - 1])
  <2>1. 0 \in 0..n /\ \A i \in 1..n : i \in 0..n /\ i # 0
    BY <1>1
  <2>2. \A i \in 0..n : pack[i] = IF i = 0 THEN Opened(row) ELSE Step(i, pack[i - 1])
    BY <1>7
  <2>3. QED
    BY <2>1, <2>2
<1>10. \A i \in 0..n : pack[i] = p[i]
  <2> HIDE DEF pack
  <2> DEFINE S == {i \in Nat : i <= n => pack[i] = p[i]}
  <2>1. 0 \in S
    BY <1>5, <1>9
  <2>2. ASSUME NEW i \in Nat, i \in S PROVE i + 1 \in S
    <3>1. i + 1 <= n => i + 1 \in 1..n /\ (i + 1) - 1 = i /\ pack[i] = p[i]
      BY <1>1, <2>2
    <3>2. QED
      BY <3>1, <1>5, <1>9
  <2> HIDE DEF S
  <2>3. \A i \in Nat : i \in S
    BY <2>1, <2>2, Induction
  <2>4. QED
    BY <2>3, <1>1 DEF S
<1>11. PutAtPositions(row, src) = p[n]
  BY <1>1, <1>8, <1>10
<1>12. QED
  BY <1>5, <1>11 DEF Step, n
-----------------------------------------------------------------------------
(* What storing fields leaves in a row.                                    *)

(* No field has more cells written than the table computed for it. *)
FieldsFit == \A i \in 1..NumFields : Fields[i].kind = "fixed" => Fields[i].put <= Fields[i].len

(* Every field before the field i takes as many cells as computed, whether *)
(* it is written or read: i is at its Position wherever it is looked for.  *)
InPlace(i) ==
  \A j \in 1..(i - 1) :
    /\ Fields[j].kind # "packed"
    /\ Fields[j].kind = "fixed" => Fields[j].put = Fields[j].len /\ Fields[j].get = Fields[j].len

LEMMA UsedIs ==
  ASSUME FieldsFit, NEW i \in 1..NumFields, NEW v, Value(Fields[i], v)
  PROVE  /\ Used(Fields[i], v) \in Nat /\ Used(Fields[i], v) <= FieldLength(Fields[i])
         /\ InPlace(i + 1) => Used(Fields[i], v) = FieldLength(Fields[i])
         /\ Position[i] \in Nat /\ Position[i + 1] \in Nat
         /\ Position[i + 1] = Position[i] + FieldLength(Fields[i]) /\ Position[i + 1] <= RowLength
<1>1. /\ NumFields \in Nat /\ Fields[i].kind \in {"fixed", "padded", "packed"}
      /\ Fields[i].len \in Nat /\ Fields[i].put \in Nat
  BY FieldShape
<1>2. Len(v) \in Nat /\ (Fields[i].kind = "fixed" => Len(v) = Fields[i].put)
      /\ (Fields[i].kind # "fixed" => Len(v) <= Fields[i].len)
  BY DEF Value, Storable
<1>3. i \in 1..((i + 1) - 1) /\ i \in 1..(NumFields + 1) /\ i + 1 \in 1..(NumFields + 1)
  BY <1>1
<1>4. Fields[i].kind = "fixed" => Fields[i].put <= Fields[i].len
  BY DEF FieldsFit
<1>5. InPlace(i + 1) => /\ Fields[i].kind # "packed"
                        /\ Fields[i].kind = "fixed" => Fields[i].put = Fields[i].len
  BY <1>3 DEF InPlace
<1>6. Used(Fields[i], v) \in Nat /\ Used(Fields[i], v) <= FieldLength(Fields[i])
  BY <1>1, <1>2, <1>4 DEF Used, FieldLength
<1>7. InPlace(i + 1) => Used(Fields[i], v) = FieldLength(Fields[i])
  BY <1>1, <1>2, <1>5 DEF Used, FieldLength
<1>8. QED
  BY <1>3, <1>6, <1>7, PositionIs, RowLengthIs

LEMMA InPlaceBefore ==
  ASSUME NEW i \in Nat, NEW j \in Nat, j <= i, InPlace(i) PROVE InPlace(j)
  BY DEF InPlace

(* A value lies where it lay when its cells are what they were. *)
LEMMA HoldsKept ==
  ASSUME NEW i \in 1..NumFields, NEW v, Value(Fields[i], v), NEW at \in Nat,
         at + Used(Fields[i], v) <= RowLength, NEW row, NEW new,
         \A c \in 1..RowLength : (at < c /\ c <= at + Used(Fields[i], v)) => new[c] = row[c],
         Holds(row, at, Fields[i], v)
  PROVE  Holds(new, at, Fields[i], v)
<1>1. /\ Fields[i].kind \in {"fixed", "padded", "packed"} /\ Fields[i].len \in Nat
      /\ Len(v) \in Nat /\ (Fields[i].kind # "fixed" => Len(v) <= Fields[i].len)
      /\ RowLength \in Nat
  BY FieldShape, RowLengthIs DEF Value, Storable
<1>2. CASE Fields[i].kind = "fixed"
  <2>1. Used(Fields[i], v) = Len(v)
    BY <1>2 DEF Used
  <2>2. \A c \in 1..Len(v) : at + c \in 1..RowLength /\ at < at + c /\ at + c <= at + Used(Fields[i], v)
    BY <1>1, <2>1
  <2>3. QED
    BY <1>2, <2>2 DEF Holds
<1>3. CASE Fields[i].kind # "fixed"
  <2>1. Used(Fields[i], v) \in Nat /\ 1 + Len(v) <= Used(Fields[i], v)
    BY <1>1, <1>3 DEF Used
  <2>2. /\ at + 1 \in 1..RowLength /\ at < at + 1 /\ at + 1 <= at + Used(Fields[i], v)
        /\ \A c \in 1..Len(v) : /\ (at + 1) + c \in 1..RowLength /\ at < (at + 1) + c
                                /\ (at + 1) + c <= at + Used(Fields[i], v)
    BY <1>1, <2>1
  <2>3. QED
    BY <1>3, <2>2 DEF Holds
<1>4. QED
  BY <1>2, <1>3

(* The slot of the field j has the same cells in both rows. *)
SlotKept(old, new, j) ==
  \A c \in 1..RowLength : (Position[j] < c /\ c <= Position[j + 1]) => new[c] = old[c]

(* The first n fields of src were stored, and no other: the next one was   *)
(* refused, or there is none.                                              *)
Stops(src, n) ==
  /\ n \in 0..NumFields /\ \A j \in 1..n : src[j] # Bad
  /\ n < NumFields => src[n + 1] = Bad

(* Each field that is in place holds its value of src, or what it held.    *)
Outcome(pack, old, src, n) ==
  /\ Stops(src, n) /\ pack \in Packs /\ pack.out = IF n = NumFields THEN "ok" ELSE "error"
  /\ \A j \in 1..NumFields : InPlace(j) =>
       IF j <= n /\ src[j] # Keep THEN Holds(pack.row, Position[j], Fields[j], src[j])
       ELSE SlotKept(old, pack.row, j)

(* How far an insert or a replace is behind the field i. *)
Prefix(pack, old, src, i, n) ==
  /\ n \in 0..i /\ (\A j \in 1..n : src[j] # Bad) /\ (n < i => src[n + 1] = Bad)
  /\ pack.out = IF n = i THEN "ok" ELSE "error"
  /\ pack.at <= Position[n + 1] /\ (InPlace(n + 1) => pack.at = Position[n + 1])
  /\ \A c \in 1..RowLength : pack.at < c => pack.row[c] = old[c]
  /\ \A j \in 1..n : InPlace(j) =>
       /\ Holds(pack.row, Position[j], Fields[j], src[j])
       /\ Position[j] + Used(Fields[j], src[j]) <= pack.at

LEMMA PrefixStep ==
  ASSUME FieldsFit, NEW old \in Rows, NEW src, Sources(src), \A j \in 1..NumFields : src[j] # Keep,
         NEW pack \in Packs, NEW i \in 0..(NumFields - 1), NEW n, Prefix(pack, old, src, i, n)
  PROVE  \E m : Prefix(GetInputValue(pack, i + 1, src[i + 1]), old, src, i + 1, m)
<1> DEFINE k == i + 1
           v == src[k]
           new == GetInputValue(pack, k, v)
<1>1. /\ NumFields \in Nat /\ k \in 1..NumFields /\ k \in Nat /\ n \in Nat /\ k - 1 = i
      /\ pack.at \in Nat /\ RowLength \in Nat
  BY FieldShape, RowLengthIs DEF Prefix, Packs
<1> HIDE DEF k, new
<1>2. CASE n # i
  <2>1. new = pack
    BY <1>2 DEF Prefix, GetInputValue, new
  <2>2. n < i /\ n \in 0..k /\ n # k /\ n < k
    BY <1>1, <1>2 DEF Prefix
  <2>3. Prefix(new, old, src, k, n)
    BY <2>1, <2>2 DEF Prefix
  <2>4. QED
    BY <2>3 DEF new, k
<1>3. CASE n = i /\ v = Bad
  <2>1. new = [pack EXCEPT !.out = "error"]
    BY <1>3 DEF Prefix, GetInputValue, new
  <2>2. new.row = pack.row /\ new.at = pack.at /\ new.out = "error"
    BY <2>1 DEF Packs
  <2>3. n + 1 = k /\ n \in 0..k /\ n # k /\ n < k
    BY <1>1, <1>3
  <2>4. Prefix(new, old, src, k, n)
    BY <1>3, <2>2, <2>3 DEF Prefix
  <2>5. QED
    BY <2>4 DEF new, k
<1>4. CASE n = i /\ v # Bad
  <2>1. Value(Fields[k], v)
    BY <1>1, <1>4 DEF Sources
  <2>2. new = Store(pack, Fields[k], v) /\ pack.out = "ok"
    BY <1>4 DEF Prefix, GetInputValue, new
  <2> DEFINE u == Used(Fields[k], v)
  <2>3. /\ u \in Nat /\ u <= FieldLength(Fields[k])
        /\ InPlace(k + 1) => u = FieldLength(Fields[k])
        /\ Position[k] \in Nat /\ Position[k + 1] \in Nat
        /\ Position[k + 1] = Position[k] + FieldLength(Fields[k]) /\ Position[k + 1] <= RowLength
    BY <1>1, <2>1, UsedIs
  <2>4. n + 1 = k /\ pack.at <= Position[k] /\ (InPlace(k) => pack.at = Position[k])
    BY <1>1, <1>4 DEF Prefix
  <2> HIDE DEF v, u
  <2>5. FieldLength(Fields[k]) \in Nat
    BY <1>1, FieldShape
  <2>6. pack.at + u <= RowLength
    BY <1>1, <2>3, <2>4, <2>5
  <2>7. StoredIn(new, pack, Fields[k], v)
    BY <1>1, <2>1, <2>2, <2>6, StoreFits DEF u
  <2>8. /\ new \in Packs /\ new.out = "ok" /\ new.at = pack.at + u
        /\ \A c \in 1..RowLength : ~(pack.at < c /\ c <= new.at) => new.row[c] = pack.row[c]
        /\ Holds(new.row, pack.at, Fields[k], v)
    BY <2>7 DEF StoredIn, u
  <2>9. new.at <= Position[k + 1] /\ (InPlace(k + 1) => new.at = Position[k + 1])
    <3>1. new.at <= Position[k + 1]
      BY <1>1, <2>3, <2>4, <2>5, <2>8
    <3>2. InPlace(k + 1) => InPlace(k)
      BY <1>1, InPlaceBefore
    <3>3. QED
      BY <1>1, <2>3, <2>4, <2>8, <3>1, <3>2
  <2>10. \A c \in 1..RowLength : new.at < c => new.row[c] = old[c]
    <3> SUFFICES ASSUME NEW c \in 1..RowLength, new.at < c PROVE new.row[c] = old[c]
      OBVIOUS
    <3>1. pack.at < c /\ ~(c <= new.at)
      BY <1>1, <2>3, <2>8
    <3>2. QED
      BY <2>8, <3>1 DEF Prefix
  <2>11. ASSUME NEW j \in 1..k, InPlace(j)
         PROVE  /\ Holds(new.row, Position[j], Fields[j], src[j])
                /\ Position[j] + Used(Fields[j], src[j]) <= new.at
    <3>1. CASE j = k
      <4>1. pack.at = Position[k]
        BY <2>4, <2>11, <3>1
      <4>2. QED
        BY <2>8, <3>1, <4>1, <2>3 DEF u, v
    <3>2. CASE j # k
      <4>1. j \in 1..n /\ j \in 1..NumFields
        BY <1>1, <1>4, <3>2
      <4>2. /\ Holds(pack.row, Position[j], Fields[j], src[j])
            /\ Position[j] + Used(Fields[j], src[j]) <= pack.at
        BY <2>11, <4>1 DEF Prefix
      <4>3. Value(Fields[j], src[j])
        BY <4>1 DEF Prefix, Sources
      <4>4. Position[j] \in Nat /\ Used(Fields[j], src[j]) \in Nat
        BY <4>1, <4>3, UsedIs
      <4>5. Position[j] + Used(Fields[j], src[j]) <= RowLength
        BY <1>1, <2>3, <2>6, <4>2, <4>4
      <4>6. \A c \in 1..RowLength : (Position[j] < c /\ c <= Position[j] + Used(Fields[j], src[j]))
              => new.row[c] = pack.row[c]
        BY <1>1, <2>8, <4>2, <4>4
      <4>7. Holds(new.row, Position[j], Fields[j], src[j])
        BY <4>1, <4>2, <4>3, <4>4, <4>5, <4>6, HoldsKept
      <4>8. Position[j] + Used(Fields[j], src[j]) <= new.at
        BY <1>1, <2>3, <2>8, <4>2, <4>4
      <4>9. QED
        BY <4>7, <4>8
    <3>3. QED
      BY <3>1, <3>2
  <2>12. k \in 0..k /\ (\A j \in 1..k : src[j] # Bad) /\ ~(k < k)
    <3>1. \A j \in 1..k : j = k \/ j \in 1..n
      BY <1>1, <1>4
    <3>2. QED
      BY <1>1, <1>4, <3>1 DEF Prefix, v
  <2>13. Prefix(new, old, src, k, k)
    BY <2>8, <2>9, <2>10, <2>11, <2>12 DEF Prefix
  <2>14. QED
    BY <2>13 DEF new, k, v
<1>5. QED
  BY <1>2, <1>3, <1>4

(* An insert or a replace stores every field in place up to the first one  *)
(* that is refused, and never runs out of the row.                         *)
LEMMA PutInOrderIs ==
  ASSUME FieldsFit, NEW old \in Rows, NEW src, Sources(src), \A j \in 1..NumFields : src[j] # Keep
  PROVE  \E n : Outcome(PutInOrder(old, src), old, src, n)
<1>1. PICK p \in [0..NumFields -> Packs] :
        /\ p[0] = Opened(old) /\ PutInOrder(old, src) = p[NumFields]
        /\ \A i \in 1..NumFields : p[i] = GetInputValue(p[i - 1], i, src[i])
  BY InOrder
<1>2. NumFields \in Nat /\ RowLength \in Nat
  BY FieldShape, RowLengthIs
<1> DEFINE S == {i \in Nat : i <= NumFields => \E n : Prefix(p[i], old, src, i, n)}
<1>3. 0 \in S
  <2>1. p[0].row = old /\ p[0].at = 0 /\ p[0].out = "ok" /\ Position[1] = 0
    BY <1>1, PositionIs DEF Opened
  <2>2. Prefix(p[0], old, src, 0, 0)
    BY <2>1 DEF Prefix
  <2>3. QED
    BY <2>2
<1>4. ASSUME NEW i \in Nat, i \in S PROVE i + 1 \in S
  <2> SUFFICES ASSUME i + 1 <= NumFields PROVE \E n : Prefix(p[i + 1], old, src, i + 1, n)
    OBVIOUS
  <2>1. i + 1 \in 1..NumFields /\ (i + 1) - 1 = i /\ i \in 0..(NumFields - 1) /\ i \in 0..NumFields
    BY <1>2
  <2>2. PICK n : Prefix(p[i], old, src, i, n)
    BY <1>4, <2>1
  <2>3. p[i] \in Packs /\ p[i + 1] = GetInputValue(p[i], i + 1, src[i + 1])
    BY <1>1, <2>1
  <2>4. QED
    BY <2>1, <2>2, <2>3, PrefixStep
<1> HIDE DEF S
<1>5. NumFields \in S
  BY <1>2, <1>3, <1>4, Induction
<1>6. PICK n : Prefix(p[NumFields], old, src, NumFields, n)
  BY <1>2, <1>5 DEF S
<1> DEFINE pack == p[NumFields]
<1>7. pack \in Packs /\ n \in 0..NumFields
  BY <1>1, <1>2, <1>6 DEF Prefix
<1>8. Stops(src, n) /\ pack.out = IF n = NumFields THEN "ok" ELSE "error"
  BY <1>6 DEF Prefix, Stops
<1>9. ASSUME NEW j \in 1..NumFields, InPlace(j)
      PROVE  IF j <= n /\ src[j] # Keep THEN Holds(pack.row, Position[j], Fields[j], src[j])
             ELSE SlotKept(old, pack.row, j)
  <2>1. CASE j <= n
    <3>1. j \in 1..n /\ src[j] # Keep
      BY <1>7, <2>1
    <3>2. QED
      BY <1>6, <1>9, <2>1, <3>1 DEF Prefix
  <2>2. CASE ~(j <= n)
    <3>1. n + 1 \in 1..(NumFields + 1) /\ j \in 1..(NumFields + 1) /\ n + 1 <= j
      BY <1>2, <1>7, <2>2
    <3>2. Position[n + 1] \in Nat /\ Position[j] \in Nat /\ Position[n + 1] <= Position[j]
      BY <3>1, PositionsGrow
    <3>3. pack.at \in Nat /\ pack.at <= Position[n + 1]
      BY <1>6, <1>7 DEF Prefix, Packs
    <3>4. \A c \in 1..RowLength : Position[j] < c => pack.at < c
      BY <1>2, <3>2, <3>3
    <3>5. SlotKept(old, pack.row, j)
      BY <1>6, <3>4 DEF Prefix, SlotKept
    <3>6. QED
      BY <2>2, <3>5
  <2>3. QED
    BY <2>1, <2>2
<1>10. Outcome(pack, old, src, n)
  BY <1>7, <1>8, <1>9 DEF Outcome
<1>11. QED
  BY <1>1, <1>10

(* How far an update is behind the field i: it writes within the slots of  *)
(* its fields.                                                             *)
Slots(pack, old, src, i, n) ==
  /\ n \in 0..i /\ (\A j \in 1..n : src[j] # Bad) /\ (n < i => src[n + 1] = Bad)
  /\ pack.out = IF n = i THEN "ok" ELSE "error"
  /\ \A j \in 1..NumFields :
       IF j <= n /\ src[j] # Keep THEN Holds(pack.row, Position[j], Fields[j], src[j])
       ELSE SlotKept(old, pack.row, j)

LEMMA SlotsStep ==
  ASSUME FieldsFit, NEW old \in Rows, NEW src, Sources(src),
         NEW pack \in Packs, NEW i \in 0..(NumFields - 1), NEW n, Slots(pack, old, src, i, n)
  PROVE  \E m : Slots(Updated(pack, i + 1, src[i + 1]), old, src, i + 1, m)
<1> DEFINE k == i + 1
           v == src[k]
           to == [pack EXCEPT !.at = Position[k]]
           new == Updated(pack, k, v)
<1>1. /\ NumFields \in Nat /\ k \in 1..NumFields /\ k \in Nat /\ n \in Nat /\ k - 1 = i
      /\ RowLength \in Nat /\ Position[k] \in Nat
  BY FieldShape, RowLengthIs, PositionIs DEF Slots
<1>2. to \in Packs /\ to.row = pack.row /\ to.out = pack.out /\ to.at = Position[k]
  BY <1>1 DEF Packs
<1> HIDE DEF k, to, new
<1>3. CASE n # i
  <2>1. new.row = pack.row /\ new.out = pack.out
    BY <1>2, <1>3 DEF Slots, Updated, GetInputValue, new, to
  <2>2. n < i /\ n \in 0..k /\ n # k /\ n < k
    BY <1>1, <1>3 DEF Slots
  <2>3. Slots(new, old, src, k, n)
    BY <1>3, <2>1, <2>2 DEF Slots
  <2>4. QED
    BY <2>3 DEF new, k
<1>4. CASE n = i /\ v = Bad
  <2>1. new = [to EXCEPT !.out = "error"]
    BY <1>2, <1>4, MarkersDiffer DEF Slots, Updated, GetInputValue, new, to
  <2>2. new.row = pack.row /\ new.out = "error"
    BY <1>2, <2>1 DEF Packs
  <2>3. n + 1 = k /\ n \in 0..k /\ n # k /\ n < k
    BY <1>1, <1>4
  <2>4. Slots(new, old, src, k, n)
    BY <1>4, <2>2, <2>3 DEF Slots
  <2>5. QED
    BY <2>4 DEF new, k
<1>5. CASE n = i /\ v = Keep
  <2>1. new = pack
    BY <1>5 DEF Updated, new
  <2>2. /\ k \in 0..k /\ (\A j \in 1..k : src[j] # Bad) /\ ~(k < k)
        /\ \A j \in 1..NumFields : (j <= k /\ src[j] # Keep) <=> (j <= n /\ src[j] # Keep)
    <3>1. \A j \in 1..k : j = k \/ j \in 1..n
      BY <1>1, <1>5
    <3>2. \A j \in 1..NumFields : j <= k <=> (j <= n \/ j = k)
      BY <1>1, <1>5
    <3>3. QED
      BY <1>1, <1>5, <3>1, <3>2, MarkersDiffer DEF Slots, v
  <2>3. Slots(new, old, src, k, k)
    BY <1>5, <2>1, <2>2 DEF Slots
  <2>4. QED
    BY <2>3 DEF new, k, v
<1>6. CASE n = i /\ v # Bad /\ v # Keep
  <2>1. Value(Fields[k], v)
    BY <1>1, <1>6 DEF Sources
  <2>2. new = Store(to, Fields[k], v) /\ to.out = "ok"
    BY <1>2, <1>6 DEF Slots, Updated, GetInputValue, new, to
  <2> DEFINE u == Used(Fields[k], v)
  <2>3. /\ u \in Nat /\ u <= FieldLength(Fields[k]) /\ Position[k + 1] \in Nat
        /\ Position[k + 1] = Position[k] + FieldLength(Fields[k]) /\ Position[k + 1] <= RowLength
    BY <1>1, <2>1, UsedIs
  <2> HIDE DEF v, u
  <2>4. FieldLength(Fields[k]) \in Nat
    BY <1>1, FieldShape
  <2>5. to.at + u <= RowLength
    BY <1>1, <1>2, <2>3, <2>4
  <2>6. StoredIn(new, to, Fields[k], v)
    BY <1>1, <1>2, <2>1, <2>2, <2>5, StoreFits DEF u
  <2>7. /\ new \in Packs /\ new.out = "ok" /\ new.at = Position[k] + u
        /\ \A c \in 1..RowLength : ~(Position[k] < c /\ c <= new.at) => new.row[c] = pack.row[c]
        /\ Holds(new.row, Position[k], Fields[k], v)
    BY <1>2, <2>6 DEF StoredIn, u
  <2>8. \A c \in 1..RowLength : ~(Position[k] < c /\ c <= Position[k + 1]) => new.row[c] = pack.row[c]
    BY <1>1, <2>3, <2>4, <2>7
  <2>9. ASSUME NEW j \in 1..NumFields, j # k, NEW c \in 1..RowLength,
               Position[j] < c, c <= Position[j + 1]
        PROVE  new.row[c] = pack.row[c]
    <3>1. /\ Position[j] \in Nat /\ Position[j + 1] = Position[j] + FieldLength(Fields[j])
          /\ j \in 1..(NumFields + 1) /\ k \in 1..(NumFields + 1) /\ FieldLength(Fields[j]) \in Nat
      BY <1>1, PositionIs, FieldShape
    <3>2. j < k => Position[j + 1] <= Position[k]
      BY <3>1, PositionsGrow
    <3>3. k < j => Position[k + 1] <= Position[j]
      BY <2>3, <3>1, PositionsGrow
    <3>4. j < k \/ k < j
      BY <1>1, <2>9
    <3>5. QED
      BY <1>1, <2>3, <2>8, <2>9, <3>1, <3>2, <3>3, <3>4
  <2>10. ASSUME NEW j \in 1..NumFields
         PROVE  IF j <= k /\ src[j] # Keep THEN Holds(new.row, Position[j], Fields[j], src[j])
                ELSE SlotKept(old, new.row, j)
    <3>1. CASE j = k
      BY <1>1, <1>6, <2>7, <3>1 DEF v
    <3>2. CASE j # k /\ j <= n /\ src[j] # Keep
      <4>1. Holds(pack.row, Position[j], Fields[j], src[j])
        BY <3>2 DEF Slots
      <4>2. Value(Fields[j], src[j])
        <5>1. j \in 1..n
          BY <1>1, <3>2
        <5>2. QED
          BY <3>2, <5>1 DEF Sources, Slots
      <4>3. /\ Position[j] \in Nat /\ Used(Fields[j], src[j]) \in Nat
            /\ Position[j] + Used(Fields[j], src[j]) <= Position[j + 1]
            /\ Position[j + 1] \in Nat /\ Position[j + 1] <= RowLength
        <5>1. /\ Used(Fields[j], src[j]) \in Nat /\ Used(Fields[j], src[j]) <= FieldLength(Fields[j])
              /\ Position[j] \in Nat /\ Position[j + 1] \in Nat
              /\ Position[j + 1] = Position[j] + FieldLength(Fields[j]) /\ Position[j + 1] <= RowLength
          BY <4>2, UsedIs
        <5>2. FieldLength(Fields[j]) \in Nat
          BY FieldShape
        <5>3. QED
          BY <5>1, <5>2
      <4>4. Position[j] + Used(Fields[j], src[j]) <= RowLength
        BY <1>1, <4>3
      <4>5. \A c \in 1..RowLength : (Position[j] < c /\ c <= Position[j] + Used(Fields[j], src[j]))
              => new.row[c] = pack.row[c]
        BY <1>1, <2>9, <3>2, <4>3
      <4>6. Holds(new.row, Position[j], Fields[j], src[j])
        BY <4>1, <4>2, <4>3, <4>4, <4>5, HoldsKept
      <4>7. j <= k
        BY <1>1, <1>6, <3>2
      <4>8. QED
        BY <3>2, <4>6, <4>7
    <3>3. CASE j # k /\ ~(j <= n /\ src[j] # Keep)
      <4>1. SlotKept(old, pack.row, j)
        BY <3>3 DEF Slots
      <4>2. SlotKept(old, new.row, j)
        BY <2>9, <3>3, <4>1 DEF SlotKept
      <4>3. ~(j <= k /\ src[j] # Keep)
        BY <1>1, <1>6, <3>3
      <4>4. QED
        BY <4>2, <4>3
    <3>4. QED
      BY <3>1, <3>2, <3>3
  <2>11. k \in 0..k /\ (\A j \in 1..k : src[j] # Bad) /\ ~(k < k)
    <3>1. \A j \in 1..k : j = k \/ j \in 1..n
      BY <1>1, <1>6
    <3>2. QED
      BY <1>1, <1>6, <3>1 DEF Slots, v
  <2>12. Slots(new, old, src, k, k)
    BY <2>7, <2>10, <2>11 DEF Slots
  <2>13. QED
    BY <2>12 DEF new, k, v
<1>7. QED
  BY <1>3, <1>4, <1>5, <1>6

(* An update stores every field it does not keep, up to the first one that *)
(* is refused, and leaves the others as they are.                          *)
LEMMA PutAtPositionsIs ==
  ASSUME FieldsFit, NEW old \in Rows, NEW src, Sources(src)
  PROVE  \E n : Outcome(PutAtPositions(old, src), old, src, n)
<1>1. PICK p \in [0..NumFields -> Packs] :
        /\ p[0] = Opened(old) /\ PutAtPositions(old, src) = p[NumFields]
        /\ \A i \in 1..NumFields : p[i] = Updated(p[i - 1], i, src[i])
  BY InPlaces
<1>2. NumFields \in Nat
  BY FieldShape
<1> DEFINE S == {i \in Nat : i <= NumFields => \E n : Slots(p[i], old, src, i, n)}
<1>3. 0 \in S
  <2>1. p[0].row = old /\ p[0].out = "ok"
    BY <1>1 DEF Opened
  <2>2. \A j \in 1..NumFields : ~(j <= 0)
    BY <1>2
  <2>3. Slots(p[0], old, src, 0, 0)
    BY <2>1, <2>2 DEF Slots, SlotKept
  <2>4. QED
    BY <2>3
<1>4. ASSUME NEW i \in Nat, i \in S PROVE i + 1 \in S
  <2> SUFFICES ASSUME i + 1 <= NumFields PROVE \E n : Slots(p[i + 1], old, src, i + 1, n)
    OBVIOUS
  <2>1. i + 1 \in 1..NumFields /\ (i + 1) - 1 = i /\ i \in 0..(NumFields - 1) /\ i \in 0..NumFields
    BY <1>2
  <2>2. PICK n : Slots(p[i], old, src, i, n)
    BY <1>4, <2>1
  <2>3. p[i] \in Packs /\ p[i + 1] = Updated(p[i], i + 1, src[i + 1])
    BY <1>1, <2>1
  <2>4. QED
    BY <2>1, <2>2, <2>3, SlotsStep
<1> HIDE DEF S
<1>5. NumFields \in S
  BY <1>2, <1>3, <1>4, Induction
<1>6. PICK n : Slots(p[NumFields], old, src, NumFields, n)
  BY <1>2, <1>5 DEF S
<1>7. p[NumFields] \in Packs
  BY <1>1, <1>2
<1>8. Stops(src, n)
  BY <1>6 DEF Slots, Stops
<1>9. Outcome(p[NumFields], old, src, n)
  BY <1>6, <1>7, <1>8 DEF Slots, Outcome
<1>10. QED
  BY <1>1, <1>9
-----------------------------------------------------------------------------
(* Reading the fields of a row, one after the other.                       *)
Reads == [vals : Seq(Seq(Nat)), at : Nat, ok : BOOLEAN]

(* Whatever a row holds, a read stays inside it, or fails. *)
LEMMA ReadFieldType ==
  ASSUME NEW row \in Rows, NEW i \in 1..NumFields, NEW acc \in Reads
  PROVE  /\ ReadField(row, acc, Fields[i]) \in Reads
         /\ ReadField(row, acc, Fields[i]).ok =>
              acc.ok /\ Len(ReadField(row, acc, Fields[i]).vals) = Len(acc.vals) + 1
<1> DEFINE f == Fields[i]
           cells(at, n) == [c \in 1..n |-> row[at + c]]
           new == ReadField(row, acc, f)
<1>1. /\ f.kind \in {"fixed", "padded", "packed"} /\ f.len \in Nat /\ f.get \in Nat
      /\ RowLength \in Nat
  BY FieldShape, RowLengthIs
<1>2. acc.vals \in Seq(Seq(Nat)) /\ acc.at \in Nat /\ acc.ok \in BOOLEAN
  BY DEF Reads
<1>3. ASSUME NEW at \in Nat, NEW n \in Nat, at + n <= RowLength PROVE cells(at, n) \in Seq(Nat)
  <2>1. \A c \in 1..n : at + c \in 1..RowLength
    BY <1>1, <1>3
  <2>2. \A c \in 1..n : row[at + c] \in Nat
    BY <2>1 DEF Rows
  <2>3. QED
    BY <2>2
<1>4. ASSUME NEW v \in Seq(Nat)
      PROVE  Append(acc.vals, v) \in Seq(Seq(Nat)) /\ Len(Append(acc.vals, v)) = Len(acc.vals) + 1
  BY <1>2
<1>5. ASSUME NEW v \in Seq(Nat), NEW to \in Nat, acc.ok,
             new = [vals |-> Append(acc.vals, v), at |-> to, ok |-> TRUE]
      PROVE  new \in Reads /\ (new.ok => acc.ok /\ Len(new.vals) = Len(acc.vals) + 1)
  BY <1>4, <1>5 DEF Reads
<1>6. CASE ~acc.ok
  <2>1. new = acc
    BY <1>6 DEF ReadField
  <2>2. QED
    BY <1>6, <2>1
<1>7. ASSUME new = [acc EXCEPT !.ok = FALSE]
      PROVE  new \in Reads /\ (new.ok => acc.ok /\ Len(new.vals) = Len(acc.vals) + 1)
  BY <1>7, <1>2 DEF Reads
<1>8. CASE acc.ok /\ f.kind = "fixed"
  <2>1. CASE acc.at + f.get <= RowLength
    <3>1. new = [vals |-> Append(acc.vals, cells(acc.at, f.get)), at |-> acc.at + f.get, ok |-> TRUE]
      BY <1>8, <2>1 DEF ReadField
    <3>2. acc.at + f.get \in Nat /\ f.get \in Nat /\ acc.at \in Nat
      BY <1>1, <1>2
    <3> HIDE DEF cells, new, f
    <3>3. cells(acc.at, f.get) \in Seq(Nat)
      BY <1>3, <2>1, <3>2
    <3>4. new \in Reads /\ (new.ok => acc.ok /\ Len(new.vals) = Len(acc.vals) + 1)
      BY <1>5, <1>8, <3>1, <3>2, <3>3
    <3>5. QED
      BY <3>4 DEF new, f
  <2>2. CASE ~(acc.at + f.get <= RowLength)
    BY <1>7, <1>8, <2>2 DEF ReadField
  <2>3. QED
    BY <2>1, <2>2
<1>9. CASE acc.ok /\ f.kind # "fixed"
  <2> DEFINE n == row[acc.at + 1]
             to == acc.at + 1 + (IF f.kind = "padded" /\ n < f.len THEN f.len ELSE n)
  <2>1. CASE acc.at + 1 <= RowLength /\ acc.at + (1 + n) <= RowLength
    <3>1. acc.at + 1 \in 1..RowLength
      BY <1>1, <1>2, <2>1
    <3>2. n \in Nat
      BY <3>1 DEF Rows
    <3>3. new = [vals |-> Append(acc.vals, cells(acc.at + 1, n)), at |-> to, ok |-> TRUE]
      BY <1>9, <2>1 DEF ReadField
    <3> HIDE DEF n
    <3>4. acc.at + 1 \in Nat /\ (acc.at + 1) + n <= RowLength /\ to \in Nat
      <4> DEFINE skip == IF f.kind = "padded" /\ n < f.len THEN f.len ELSE n
      <4>1. skip \in Nat
        BY <1>1, <3>2
      <4> HIDE DEF skip, f
      <4>2. to = acc.at + 1 + skip
        BY DEF skip
      <4> HIDE DEF to, cells, new
      <4>3. acc.at \in Nat /\ n \in Nat /\ RowLength \in Nat /\ acc.at + (1 + n) <= RowLength
        BY <1>1, <1>2, <2>1, <3>2
      <4>4. QED
        BY <4>1, <4>2, <4>3
    <3> HIDE DEF cells, new, to, f
    <3>5. cells(acc.at + 1, n) \in Seq(Nat)
      BY <1>3, <3>2, <3>4
    <3>6. new \in Reads /\ (new.ok => acc.ok /\ Len(new.vals) = Len(acc.vals) + 1)
      BY <1>5, <1>9, <3>3, <3>4, <3>5
    <3>7. QED
      BY <3>6 DEF new, f
  <2>2. CASE ~(acc.at + 1 <= RowLength /\ acc.at + (1 + n) <= RowLength)
    BY <1>7, <1>9, <2>2 DEF ReadField
  <2>3. QED
    BY <2>1, <2>2
<1>10. QED
  BY <1>6, <1>8, <1>9

(* What GetResult goes through. *)
LEMMA Reading ==
  ASSUME NEW row \in Rows, NEW m \in 0..NumFields
  PROVE  \E p \in [0..m -> Reads] :
           /\ p[0] = [vals |-> <<>>, at |-> 0, ok |-> TRUE] /\ ReadFields(row, m) = p[m]
           /\ \A i \in 1..m : p[i] = ReadField(row, p[i - 1], Fields[i])
<1> DEFINE start == [vals |-> <<>>, at |-> 0, ok |-> TRUE]
           Step(i, x) == ReadField(row, x, Fields[i])
           F == [i \in 1..m |-> [x \in Reads |-> Step(i, x)]]
           Is(g) == g = [i \in 0..m |-> IF i = 0 THEN start ELSE Step(i, g[i - 1])]
<1>1. m \in Nat /\ m <= NumFields /\ NumFields \in Nat /\ start \in Reads
  BY FieldShape DEF Reads
<1>2. ASSUME NEW i \in 1..m, NEW x \in Reads PROVE Step(i, x) \in Reads
  <2>1. i \in 1..NumFields
    BY <1>1
  <2>2. QED
    BY <2>1, ReadFieldType
<1> HIDE DEF Step, start
<1>3. F \in [1..m -> [Reads -> Reads]] /\ \A i \in 1..m : \A x \in Reads : F[i][x] = Step(i, x)
  BY <1>2
<1> HIDE DEF F
<1>4. PICK p \in [0..m -> Reads] : Recurs(p, m, start, F)
  BY <1>1, <1>3, Recursion
<1>5. p[0] = start /\ \A i \in 1..m : p[i] = Step(i, p[i - 1])
  <2>1. \A i \in 1..m : i - 1 \in 0..m
    BY <1>1
  <2>2. QED
    BY <2>1, <1>3, <1>4 DEF Recurs
<1>6. Is(p)
  <2>1. \A i \in 0..m : i # 0 => i \in 1..m
    BY <1>1
  <2>2. QED
    BY <2>1, <1>4, <1>5
<1> DEFINE acc == CHOOSE g : Is(g)
<1>7. Is(acc)
  BY <1>6
<1>8. ReadFields(row, m) = acc[m]
  BY DEF ReadFields, Step, start
<1>9. acc[0] = start /\ \A i \in 1..m : acc[i] = Step(i, acc[i - 1])
  <2>1. 0 \in 0..m /\ \A i \in 1..m : i \in 0..m /\ i # 0
    BY <1>1
  <2>2. \A i \in 0..m : acc[i] = IF i = 0 THEN start ELSE Step(i, acc[i - 1])
    BY <1>7
  <2>3. QED
    BY <2>1, <2>2
<1>10. \A i \in 0..m : acc[i] = p[i]
  <2> HIDE DEF acc
  <2> DEFINE S == {i \in Nat : i <= m => acc[i] = p[i]}
  <2>1. 0 \in S
    BY <1>5, <1>9
  <2>2. ASSUME NEW i \in Nat, i \in S PROVE i + 1 \in S
    <3>1. i + 1 <= m => i + 1 \in 1..m /\ (i + 1) - 1 = i /\ acc[i] = p[i]
      BY <1>1, <2>2
    <3>2. QED
      BY <3>1, <1>5, <1>9
  <2> HIDE DEF S
  <2>3. \A i \in Nat : i \in S
    BY <2>1, <2>2, Induction
  <2>4. QED
    BY <2>3, <1>1 DEF S
<1>11. ReadFields(row, m) = p[m]
  BY <1>1, <1>8, <1>10
<1>12. QED
  BY <1>5, <1>11 DEF Step, start

(* A row that can be read to its end gives one value for each field. *)
LEMMA ReadType ==
  ASSUME NEW row \in Rows
  PROVE  ReadRow(row).ok => ReadRow(row).vals \in [DOMAIN Fields -> Seq(Nat)]
<1>1. NumFields \in Nat /\ NumFields \in 0..NumFields /\ DOMAIN Fields = 1..NumFields
  BY FieldShape
<1>2. PICK p \in [0..NumFields -> Reads] :
        /\ p[0] = [vals |-> <<>>, at |-> 0, ok |-> TRUE] /\ ReadFields(row, NumFields) = p[NumFields]
        /\ \A i \in 1..NumFields : p[i] = ReadField(row, p[i - 1], Fields[i])
  BY <1>1, Reading
<1> DEFINE S == {i \in Nat : i <= NumFields => (p[i].ok => Len(p[i].vals) = i)}
<1>3. 0 \in S
  BY <1>2
<1>4. ASSUME NEW i \in Nat, i \in S PROVE i + 1 \in S
  <2> SUFFICES ASSUME i + 1 <= NumFields, p[i + 1].ok PROVE Len(p[i + 1].vals) = i + 1
    OBVIOUS
  <2>1. i + 1 \in 1..NumFields /\ (i + 1) - 1 = i /\ i \in 0..NumFields /\ i <= NumFields
    BY <1>1
  <2>2. p[i] \in Reads /\ p[i + 1] = ReadField(row, p[i], Fields[i + 1])
    BY <1>2, <2>1
  <2>3. p[i].ok /\ Len(p[i + 1].vals) = Len(p[i].vals) + 1
    BY <2>1, <2>2, ReadFieldType
  <2>4. QED
    BY <1>4, <2>1, <2>3
<1> HIDE DEF S
<1>5. NumFields \in S
  BY <1>1, <1>3, <1>4, Induction
<1>6. p[NumFields].ok => Len(p[NumFields].vals) = NumFields
  BY <1>1, <1>5 DEF S
<1>7. p[NumFields].vals \in Seq(Seq(Nat))
  BY <1>1 DEF Reads
<1>8. ReadRow(row) = p[NumFields]
  BY <1>2 DEF ReadRow, NumFields
<1>9. QED
  BY <1>1, <1>6, <1>7, <1>8

(* Every string that is in place is no longer than its field. *)
Shaped(row) ==
  \A i \in 1..NumFields :
    (InPlace(i) /\ Fields[i].kind # "fixed") => row[Position[i] + 1] <= Fields[i].len

(* The value the row holds for the field i, at its Position. *)
KeptValue(row, i) ==
  IF Fields[i].kind = "fixed" THEN [c \in 1..Fields[i].get |-> row[Position[i] + c]]
  ELSE [c \in 1..row[Position[i] + 1] |-> row[(Position[i] + 1) + c]]

(* A field in place is read at its Position. *)
LEMMA ReadStep ==
  ASSUME NEW row \in Rows, Shaped(row), NEW i \in 1..NumFields, InPlace(i),
         Fields[i].kind = "fixed" => Fields[i].get <= Fields[i].len,
         NEW acc \in Reads, acc.ok, acc.at = Position[i],
         NEW new, new = ReadField(row, acc, Fields[i])
  PROVE  /\ new.ok /\ new.vals = Append(acc.vals, KeptValue(row, i))
         /\ InPlace(i + 1) => new.at = Position[i + 1]
<1>1. /\ NumFields \in Nat /\ RowLength \in Nat
      /\ Fields[i].kind \in {"fixed", "padded", "packed"} /\ Fields[i].len \in Nat
      /\ Fields[i].get \in Nat
  BY FieldShape, RowLengthIs
<1>2. i \in 1..((i + 1) - 1) /\ i + 1 \in 1..(NumFields + 1) /\ i \in 1..(NumFields + 1)
  BY <1>1
<1>3. /\ Position[i] \in Nat /\ Position[i + 1] = Position[i] + FieldLength(Fields[i])
      /\ Position[i + 1] <= RowLength
  BY <1>2, PositionIs, RowLengthIs
<1>4. InPlace(i + 1) => Fields[i].kind # "packed" /\ (Fields[i].kind = "fixed" => Fields[i].get = Fields[i].len)
  BY <1>2 DEF InPlace
<1>5. CASE Fields[i].kind = "fixed"
  <2>1. acc.at + Fields[i].get <= RowLength
    BY <1>1, <1>3, <1>5 DEF FieldLength
  <2>2. new = [vals |-> Append(acc.vals, KeptValue(row, i)), at |-> acc.at + Fields[i].get, ok |-> TRUE]
    BY <1>5, <2>1 DEF ReadField, KeptValue
  <2>3. InPlace(i + 1) => acc.at + Fields[i].get = Position[i + 1]
    BY <1>3, <1>4, <1>5 DEF FieldLength
  <2>4. QED
    BY <2>2, <2>3
<1>6. CASE Fields[i].kind # "fixed"
  <2> DEFINE n == row[Position[i] + 1]
  <2>1. Position[i] + 1 \in 1..RowLength /\ Position[i] + (1 + Fields[i].len) <= RowLength
    BY <1>1, <1>3, <1>6 DEF FieldLength
  <2>2. n \in Nat /\ n <= Fields[i].len
    BY <1>6, <2>1 DEF Rows, Shaped
  <2> DEFINE to == acc.at + 1 + (IF Fields[i].kind = "padded" /\ n < Fields[i].len THEN Fields[i].len ELSE n)
  <2>3. acc.at + 1 <= RowLength /\ acc.at + (1 + n) <= RowLength
    BY <1>1, <1>3, <2>1, <2>2
  <2>4. new = [vals |-> Append(acc.vals, KeptValue(row, i)), at |-> to, ok |-> TRUE]
    BY <1>6, <2>3 DEF ReadField, KeptValue
  <2>5. InPlace(i + 1) => to = Position[i + 1]
    <3>1. InPlace(i + 1) => Fields[i].kind = "padded"
      BY <1>1, <1>4, <1>6
    <3> HIDE DEF n
    <3>2. QED
      BY <1>1, <1>3, <1>6, <2>2, <3>1 DEF FieldLength
  <2> HIDE DEF to
  <2>6. QED
    BY <2>4, <2>5
<1>7. QED
  BY <1>5, <1>6

(* When each of the first m fields is in place, they are all read, and the *)
(* next one is looked for where it is.                                     *)
LEMMA ReadInPlace ==
  ASSUME NEW row \in Rows, Shaped(row), NEW m \in 0..NumFields,
         \A i \in 1..m : InPlace(i) /\ (Fields[i].kind = "fixed" => Fields[i].get <= Fields[i].len)
  PROVE  /\ ReadFields(row, m).ok /\ ReadFields(row, m).vals \in Seq(Seq(Nat))
         /\ Len(ReadFields(row, m).vals) = m
         /\ \A i \in 1..m : ReadFields(row, m).vals[i] = KeptValue(row, i)
         /\ InPlace(m + 1) => ReadFields(row, m).at = Position[m + 1]
<1>1. m \in Nat /\ m <= NumFields /\ NumFields \in Nat
  BY FieldShape
<1>2. PICK p \in [0..m -> Reads] :
        /\ p[0] = [vals |-> <<>>, at |-> 0, ok |-> TRUE] /\ ReadFields(row, m) = p[m]
        /\ \A i \in 1..m : p[i] = ReadField(row, p[i - 1], Fields[i])
  BY Reading
<1> DEFINE Good(i) == /\ p[i].ok /\ Len(p[i].vals) = i
                      /\ \A j \in 1..i : p[i].vals[j] = KeptValue(row, j)
                      /\ InPlace(i + 1) => p[i].at = Position[i + 1]
           S == {i \in Nat : i <= m => Good(i)}
<1>3. 0 \in S
  BY <1>2, PositionIs
<1>4. ASSUME NEW i \in Nat, i \in S PROVE i + 1 \in S
  <2> SUFFICES ASSUME i + 1 <= m PROVE Good(i + 1)
    OBVIOUS
  <2> DEFINE k == i + 1
             v == KeptValue(row, k)
  <2>1. k \in 1..m /\ k \in 1..NumFields /\ k - 1 = i /\ i \in 0..m /\ i <= m
    BY <1>1
  <2>2. p[i] \in Reads /\ p[k] = ReadField(row, p[i], Fields[k])
    BY <1>2, <2>1
  <2>3. Good(i)
    BY <1>4, <2>1
  <2> HIDE DEF k
  <2>4. p[i].ok /\ p[i].at = Position[k] /\ Len(p[i].vals) = i /\ p[i].vals \in Seq(Seq(Nat))
    BY <2>1, <2>2, <2>3 DEF Reads, k
  <2>5. /\ p[k].ok /\ p[k].vals = Append(p[i].vals, v)
        /\ InPlace(k + 1) => p[k].at = Position[k + 1]
    BY <2>1, <2>2, <2>4, ReadStep
  <2> HIDE DEF v
  <2>6. /\ Len(p[k].vals) = i + 1 /\ p[k].vals[i + 1] = v
        /\ \A j \in 1..i : p[k].vals[j] = p[i].vals[j]
    <3>1. v \in Seq(Nat)
      <4>1. p[k] \in Reads
        BY <1>2, <2>1
      <4>2. Append(p[i].vals, v) \in Seq(Seq(Nat))
        BY <2>5, <4>1 DEF Reads
      <4>3. Append(p[i].vals, v)[Len(p[i].vals) + 1] = v
        BY <2>4
      <4>4. Len(Append(p[i].vals, v)) = Len(p[i].vals) + 1
        BY <2>4
      <4>5. QED
        BY <2>4, <4>2, <4>3, <4>4
    <3>2. QED
      BY <2>4, <2>5, <3>1
  <2>7. \A j \in 1..k : j \in 1..i \/ j = i + 1
    BY <2>1 DEF k
  <2>8. QED
    BY <2>3, <2>5, <2>6, <2>7 DEF k, v
<1> HIDE DEF S
<1>5. m \in S
  BY <1>1, <1>3, <1>4, Induction
<1>6. Good(m) /\ p[m].vals \in Seq(Seq(Nat))
  BY <1>1, <1>5 DEF S, Reads
<1>7. QED
  BY <1>2, <1>6

(* Each field but the last takes as many cells as computed, and a field of *)
(* fixed length is read as long as it was written.                         *)
ReadsBack ==
  /\ FieldsFit
  /\ \A i \in 1..NumFields : InPlace(i) /\ (Fields[i].kind = "fixed" => Fields[i].get = Fields[i].put)

(* Then GetResult finds in a row what the row holds for its fields ...     *)
LEMMA ReadWhole ==
  ASSUME ReadsBack, NEW row \in Rows, Shaped(row)
  PROVE  ReadRow(row).ok /\ ReadRow(row).vals = [i \in DOMAIN Fields |-> KeptValue(row, i)]
<1>1. NumFields \in 0..NumFields /\ DOMAIN Fields = 1..NumFields
  BY FieldShape
<1>2. \A i \in 1..NumFields :
        InPlace(i) /\ (Fields[i].kind = "fixed" => Fields[i].get <= Fields[i].len)
  BY DEF ReadsBack, FieldsFit
<1>3. /\ ReadFields(row, NumFields).ok /\ ReadFields(row, NumFields).vals \in Seq(Seq(Nat))
      /\ Len(ReadFields(row, NumFields).vals) = NumFields
      /\ \A i \in 1..NumFields : ReadFields(row, NumFields).vals[i] = KeptValue(row, i)
  BY <1>1, <1>2, ReadInPlace
<1>4. ReadRow(row) = ReadFields(row, NumFields)
  BY DEF ReadRow, NumFields
<1> DEFINE vals == ReadFields(row, NumFields).vals
<1> HIDE DEF vals
<1>5. vals = [i \in 1..NumFields |-> vals[i]]
  BY <1>3 DEF vals
<1>6. QED
  BY <1>1, <1>3, <1>4, <1>5 DEF vals

(* ... and a value that was stored is what its field holds. *)
LEMMA HeldIsKept ==
  ASSUME NEW row, NEW i \in 1..NumFields, NEW v, Value(Fields[i], v),
         Fields[i].kind = "fixed" => Fields[i].get = Fields[i].put,
         Holds(row, Position[i], Fields[i], v)
  PROVE  KeptValue(row, i) = v
<1>1. v = [c \in 1..Len(v) |-> v[c]]
  BY DEF Value, Storable
<1>2. CASE Fields[i].kind = "fixed"
  <2>1. Len(v) = Fields[i].get
    BY <1>2 DEF Value, Storable
  <2>2. \A c \in 1..Len(v) : row[Position[i] + c] = v[c]
    BY <1>2 DEF Holds
  <2>3. QED
    BY <1>1, <1>2, <2>1, <2>2 DEF KeptValue
<1>3. CASE Fields[i].kind # "fixed"
  <2>1. row[Position[i] + 1] = Len(v) /\ \A c \in 1..Len(v) : row[(Position[i] + 1) + c] = v[c]
    BY <1>3 DEF Holds
  <2>2. KeptValue(row, i) = [c \in 1..Len(v) |-> row[(Position[i] + 1) + c]]
    BY <1>3, <2>1 DEF KeptValue
  <2>3. QED
    BY <1>1, <2>1, <2>2
<1>4. QED
  BY <1>2, <1>3

(* A field whose cells were left alone keeps its value and its shape.      *)
LEMMA KeptStays ==
  ASSUME NEW old \in Rows, NEW new, NEW i \in 1..NumFields, SlotKept(old, new, i)
  PROVE  /\ Fields[i].kind # "fixed" => new[Position[i] + 1] = old[Position[i] + 1]
         /\ (IF Fields[i].kind = "fixed" THEN Fields[i].get <= Fields[i].len
             ELSE old[Position[i] + 1] <= Fields[i].len)
              => KeptValue(new, i) = KeptValue(old, i)
<1>1. /\ Fields[i].kind \in {"fixed", "padded", "packed"} /\ Fields[i].len \in Nat
      /\ Fields[i].get \in Nat /\ NumFields \in Nat /\ RowLength \in Nat
      /\ Position[i] \in Nat /\ Position[i + 1] = Position[i] + FieldLength(Fields[i])
      /\ Position[i + 1] <= RowLength
  <2>1. NumFields \in Nat
    BY FieldShape
  <2>2. i \in 1..(NumFields + 1) /\ i + 1 \in 1..(NumFields + 1)
    BY <2>1
  <2>3. QED
    BY <2>1, <2>2, FieldShape, PositionIs, RowLengthIs
<1>2. \A c \in Nat \ {0} : c <= FieldLength(Fields[i]) =>
        Position[i] + c \in 1..RowLength /\ new[Position[i] + c] = old[Position[i] + c]
  <2>1. FieldLength(Fields[i]) \in Nat
    BY FieldShape
  <2>2. QED
    BY <1>1, <2>1 DEF SlotKept
<1>3. CASE Fields[i].kind = "fixed"
  <2>1. FieldLength(Fields[i]) = Fields[i].len
    BY <1>3 DEF FieldLength
  <2>2. Fields[i].get <= Fields[i].len =>
          \A c \in 1..Fields[i].get : new[Position[i] + c] = old[Position[i] + c]
    BY <1>1, <1>2, <2>1
  <2>3. QED
    BY <1>3, <2>2 DEF KeptValue
<1>4. CASE Fields[i].kind # "fixed"
  <2>1. FieldLength(Fields[i]) = 1 + Fields[i].len
    BY <1>4 DEF FieldLength
  <2>2. new[Position[i] + 1] = old[Position[i] + 1] /\ Position[i] + 1 \in 1..RowLength
    BY <1>1, <1>2, <2>1
  <2> DEFINE n == old[Position[i] + 1]
  <2>3. n \in Nat
    BY <2>2 DEF Rows
  <2> HIDE DEF n
  <2>4. n <= Fields[i].len => \A c \in 1..n : new[(Position[i] + 1) + c] = old[(Position[i] + 1) + c]
    <3>1. \A c \in 1..n : n <= Fields[i].len =>
            /\ 1 + c \in Nat \ {0} /\ 1 + c <= FieldLength(Fields[i])
            /\ (Position[i] + 1) + c = Position[i] + (1 + c)
      BY <1>1, <2>1, <2>3
    <3>2. QED
      BY <1>2, <3>1
  <2>5. QED
    BY <1>4, <2>2, <2>4 DEF KeptValue, n
<1>5. QED
  BY <1>3, <1>4

(* A row whose fields were all stored is shaped, whatever was there before *)
(* it; one that was written in part is shaped if it was shaped before.     *)
Whole(pack, src) == pack.out = "ok" /\ \A i \in DOMAIN src : src[i] # Keep

LEMMA OutcomeShaped ==
  ASSUME NEW old \in Rows, NEW src, Sources(src), NEW pack, NEW n, Outcome(pack, old, src, n),
         Shaped(old) \/ Whole(pack, src)
  PROVE  Shaped(pack.row)
<1> SUFFICES ASSUME NEW i \in 1..NumFields, InPlace(i), Fields[i].kind # "fixed"
             PROVE  pack.row[Position[i] + 1] <= Fields[i].len
  BY DEF Shaped
<1>1. CASE i <= n /\ src[i] # Keep
  <2>1. src[i] # Bad
    <3>1. NumFields \in Nat
      BY FieldShape
    <3>2. i \in 1..n
      BY <1>1, <3>1 DEF Outcome, Stops
    <3>3. QED
      BY <3>2 DEF Outcome, Stops
  <2>2. Value(Fields[i], src[i])
    BY <1>1, <2>1 DEF Sources
  <2>3. Holds(pack.row, Position[i], Fields[i], src[i])
    BY <1>1 DEF Outcome
  <2>4. QED
    BY <2>2, <2>3 DEF Value, Holds
<1>2. CASE ~(i <= n /\ src[i] # Keep)
  <2>1. SlotKept(old, pack.row, i)
    BY <1>2 DEF Outcome
  <2>2. pack.row[Position[i] + 1] = old[Position[i] + 1]
    BY <2>1, KeptStays
  <2>3. ~Whole(pack, src)
    <3>1. NumFields \in Nat
      BY FieldShape
    <3>2. pack.out = "ok" => n = NumFields
      BY DEF Outcome
    <3>3. QED
      BY <1>2, <3>1, <3>2 DEF Whole, Sources
  <2>4. QED
    BY <2>2, <2>3 DEF Shaped
<1>3. QED
  BY <1>1, <1>2

(* What is then read: the values of src up to the field that was refused,  *)
(* but for those to be kept, and what was read before for the others.      *)
ReadMixed(old, src, n) ==
  [i \in 1..NumFields |-> IF i <= n /\ src[i] # Keep THEN src[i] ELSE ReadRow(old).vals[i]]

LEMMA OutcomeRead ==
  ASSUME ReadsBack, NEW old \in Rows, NEW src, Sources(src), NEW pack, NEW n,
         Outcome(pack, old, src, n), Shaped(old) \/ Whole(pack, src)
  PROVE  /\ ReadRow(pack.row).ok
         /\ ReadRow(pack.row).vals = ReadMixed(old, src, n)
<1>1. pack.row \in Rows /\ Shaped(pack.row) /\ DOMAIN Fields = 1..NumFields /\ NumFields \in Nat
  BY OutcomeShaped, FieldShape DEF Outcome, Packs
<1>2. ReadRow(pack.row).ok /\ ReadRow(pack.row).vals = [i \in 1..NumFields |-> KeptValue(pack.row, i)]
  BY <1>1, ReadWhole
<1>3. ASSUME NEW i \in 1..NumFields, i <= n, src[i] # Keep PROVE KeptValue(pack.row, i) = src[i]
  <2>1. i \in 1..n
    BY <1>1, <1>3 DEF Outcome, Stops
  <2>2. Value(Fields[i], src[i])
    BY <1>3, <2>1 DEF Sources, Outcome, Stops
  <2>3. Holds(pack.row, Position[i], Fields[i], src[i])
    BY <1>3 DEF Outcome, ReadsBack
  <2>4. QED
    BY <2>2, <2>3, HeldIsKept DEF ReadsBack
<1>4. ASSUME NEW i \in 1..NumFields, ~(i <= n /\ src[i] # Keep)
      PROVE  KeptValue(pack.row, i) = ReadRow(old).vals[i]
  <2>1. Shaped(old)
    <3>1. ~Whole(pack, src)
      BY <1>1, <1>4 DEF Whole, Outcome, Sources
    <3>2. QED
      BY <3>1
  <2>2. ReadRow(old).vals[i] = KeptValue(old, i)
    BY <1>1, <2>1, ReadWhole
  <2>3. SlotKept(old, pack.row, i)
    BY <1>4 DEF Outcome, ReadsBack
  <2>4. IF Fields[i].kind = "fixed" THEN Fields[i].get <= Fields[i].len
        ELSE old[Position[i] + 1] <= Fields[i].len
    BY <2>1 DEF ReadsBack, FieldsFit, Shaped
  <2>5. QED
    BY <2>2, <2>3, <2>4, KeptStays
<1>5. QED
  BY <1>2, <1>3, <1>4 DEF ReadMixed
-----------------------------------------------------------------------------
(* What the operations of the map do to it, in full.                       *)
Elsewhere(k) == \A j \in DOMAIN keys' \ {k} : j \in DOMAIN keys /\ keys'[j] = keys[j]

LEMMA DeleteLeaves ==
  ASSUME StoreOK, NEW k \in DOMAIN keys, Delete(k)
  PROVE  Elsewhere(k) /\ k \notin DOMAIN keys' /\ size' = size
<1>1. PICK m \in MaybeCollected(Without(keys, k), Append(deleted, keys[k].pos), garbage, FALSE) :
        keys' = m.keys
  BY DEF Delete
<1>2. PICK left : left = Without(keys, k)
  OBVIOUS
<1>3. DOMAIN left = DOMAIN keys \ {k} /\ \A j \in DOMAIN left : left[j] = keys[j]
  BY <1>2 DEF Without, Restrict
<1>4. m.keys = left \/ m.keys = Restrict(left, DOMAIN left \ DeadKeys(left))
  BY <1>1, <1>2, CollectedMap
<1>5. /\ DOMAIN Restrict(left, DOMAIN left \ DeadKeys(left)) = DOMAIN left \ DeadKeys(left)
      /\ \A j \in DOMAIN left \ DeadKeys(left) :
           Restrict(left, DOMAIN left \ DeadKeys(left))[j] = left[j]
  BY DEF Restrict
<1>6. DOMAIN m.keys \subseteq DOMAIN left /\ \A j \in DOMAIN m.keys : m.keys[j] = left[j]
  BY <1>4, <1>5
<1>7. QED
  BY <1>1, <1>3, <1>6 DEF Elsewhere, Delete

(* A row for a new key is one that was freed, or the next one.             *)
GrownFor(k) == size' = size \/ (size' = size + 1 /\ keys'[k].pos = size)

LEMMA NewRowLeaves ==
  ASSUME StoreOK, now \in 1..MaxNow, NEW op, NEW k \in Key, k \notin DOMAIN keys, NewRow(op, k)
  PROVE  /\ Elsewhere(k) /\ Spares({})
         /\ \/ /\ Returns(op, k, "row")
               /\ k \in DOMAIN keys' /\ keys'[k].exp = NewExpiry /\ GrownFor(k)
            \/ Returns(op, k, "full") /\ k \notin DOMAIN keys' /\ size' = size
<1>1. Spares({})
  BY NewRowStep
<1>2. PICK m \in MaybeCollected(keys, deleted, garbage', deleted = <<>> /\ size = MaxSize) :
        \/ /\ keys' = With(m.keys, k, [pos |-> Head(m.deleted), exp |-> NewExpiry])
           /\ Returns(op, k, "row") /\ UNCHANGED <<size, capacity>>
        \/ /\ keys' = With(m.keys, k, [pos |-> size, exp |-> NewExpiry])
           /\ Returns(op, k, "row") /\ size' = size + 1
        \/ /\ keys' = m.keys
           /\ Returns(op, k, "full") /\ UNCHANGED <<size, capacity>>
  BY DEF NewRow
<1>3. DOMAIN m.keys \subseteq DOMAIN keys /\ \A j \in DOMAIN m.keys : m.keys[j] = keys[j]
  <2>1. m.keys = keys \/ m.keys = Restrict(keys, DOMAIN keys \ DeadKeys(keys))
    BY <1>2, CollectedMap
  <2>2. QED
    BY <2>1 DEF Restrict
<1>4. k \notin DOMAIN m.keys
  BY <1>3
<1>5. ASSUME NEW e, keys' = With(m.keys, k, e)
      PROVE  k \in DOMAIN keys' /\ keys'[k] = e /\ Elsewhere(k)
  BY <1>3, <1>5 DEF With, Elsewhere
<1>6. CASE keys' = With(m.keys, k, [pos |-> Head(m.deleted), exp |-> NewExpiry])
           /\ Returns(op, k, "row") /\ UNCHANGED <<size, capacity>>
  BY <1>1, <1>5, <1>6 DEF GrownFor
<1>7. CASE keys' = With(m.keys, k, [pos |-> size, exp |-> NewExpiry])
           /\ Returns(op, k, "row") /\ size' = size + 1
  BY <1>1, <1>5, <1>7 DEF GrownFor
<1>8. CASE keys' = m.keys /\ Returns(op, k, "full") /\ UNCHANGED <<size, capacity>>
  BY <1>1, <1>3, <1>4, <1>8 DEF Elsewhere
<1>9. QED
  BY <1>2, <1>6, <1>7, <1>8

(* A write to a key that is held renews its expiry and nothing else.       *)
Renewed(k) ==
  /\ k \in DOMAIN keys /\ DOMAIN keys' = DOMAIN keys /\ Elsewhere(k)
  /\ keys'[k].pos = keys[k].pos /\ keys'[k].exp = NewExpiry /\ size' = size

LEMMA RenewLeaves ==
  ASSUME StoreOK, NEW k \in DOMAIN keys, keys' = [keys EXCEPT ![k].exp = NewExpiry], size' = size
  PROVE  Renewed(k)
<1>1. keys[k] \in Entry
  BY DEF StoreOK, MapType
<1>2. /\ DOMAIN keys' = DOMAIN keys /\ keys'[k] = [keys[k] EXCEPT !.exp = NewExpiry]
      /\ \A j \in DOMAIN keys : j # k => keys'[j] = keys[j]
  OBVIOUS
<1>3. QED
  BY <1>1, <1>2 DEF Renewed, Elsewhere, Entry
-----------------------------------------------------------------------------
(* What each request does to the map, and whether it stores a row.         *)

(* The requests that store nothing leave rows out, if anything.            *)
Pruned == size' = size /\ \A j \in DOMAIN keys' : j \in DOMAIN keys /\ keys'[j] = keys[j]

StoredRow(op, k, src, isnew) ==
  /\ k \in DOMAIN keys' /\ keys'[k].exp = NewExpiry /\ Elsewhere(k) /\ GrownFor(k)
  /\ isnew = (k \notin DOMAIN keys)
  /\ isnew => Spares({})
  /\ ~isnew => DOMAIN keys' = DOMAIN keys /\ keys'[k].pos = keys[k].pos
  /\ StoreRow(op, k, src, isnew)

(* There are MaxSize rows that have not expired, and none is made for k.   *)
NoRoom(op, k) ==
  /\ Pruned /\ Spares({}) /\ k \notin DOMAIN keys /\ k \notin DOMAIN keys'
  /\ Cardinality({j \in DOMAIN keys' : ~Dead(keys'[j])}) = MaxSize
  /\ NoStore /\ Answers(op, k, "full")

LEMMA NewRowIs ==
  ASSUME FullInv, NEW op \in {"insert", "replace"}, NEW k \in Key, k \notin DOMAIN keys, NewRow(op, k),
         NEW src,
         \/ ret'.out = "row" /\ StoreRow(op, k, src, TRUE)
         \/ ret'.out = "null" /\ NoStore /\ Answers(op, k, "duplicate")
         \/ ret'.out = "full" /\ NoStore /\ Answers(op, k, "full")
  PROVE  StoredRow(op, k, src, TRUE) \/ NoRoom(op, k)
<1>1. StoreOK /\ now \in 1..MaxNow
  BY IInvIsStoreOK DEF FullInv
<1>2. /\ Elsewhere(k) /\ Spares({})
      /\ \/ /\ Returns(op, k, "row")
            /\ k \in DOMAIN keys' /\ keys'[k].exp = NewExpiry /\ GrownFor(k)
         \/ Returns(op, k, "full") /\ k \notin DOMAIN keys' /\ size' = size
  BY <1>1, NewRowLeaves
<1>3. CASE Returns(op, k, "row") /\ k \in DOMAIN keys' /\ keys'[k].exp = NewExpiry /\ GrownFor(k)
  <2>1. StoreRow(op, k, src, TRUE)
    BY <1>3 DEF Returns
  <2>2. QED
    BY <1>2, <1>3, <2>1 DEF StoredRow
<1>4. CASE Returns(op, k, "full") /\ k \notin DOMAIN keys' /\ size' = size
  <2>1. ret'.out = "full"
    BY <1>4 DEF Returns
  <2>2. NoStore /\ Answers(op, k, "full")
    BY <2>1
  <2>3. Cardinality({j \in DOMAIN keys' : ~Dead(keys'[j])}) = MaxSize
    BY <2>1, FullIsFull
  <2>4. Pruned
    BY <1>2, <1>4 DEF Pruned, Elsewhere
  <2>5. QED
    BY <1>2, <1>4, <2>2, <2>3, <2>4 DEF NoRoom
<1>5. QED
  BY <1>2, <1>3, <1>4

(* An insert stores a new row, or finds the key held, or no room.          *)
LEMMA InsertRowIs ==
  ASSUME FullInv, NEW k \in Key, NEW given, InsertRow(k, given)
  PROVE  /\ IInv' /\ now' = now
         /\ \/ StoredRow("insert", k, Source(given, InsertFill), TRUE)
            \/ k \in DOMAIN keys /\ UNCHANGED <<keys, size>> /\ NoStore /\ Answers("insert", k, "duplicate")
            \/ NoRoom("insert", k)
<1> DEFINE src == Source(given, InsertFill)
<1>1. /\ Insert(k)
      /\ \/ ret'.out = "row" /\ StoreRow("insert", k, src, TRUE)
         \/ ret'.out = "null" /\ NoStore /\ Answers("insert", k, "duplicate")
         \/ ret'.out = "full" /\ NoStore /\ Answers("insert", k, "full")
  BY DEF InsertRow
<1> HIDE DEF src
<1>2. OpStep(k)
  BY <1>1, InsertStep DEF FullInv
<1>3. CASE k \in DOMAIN keys /\ Returns("insert", k, "null") /\ UNCHANGED <<keys, deleted, size, capacity>>
  <2>1. ret'.out = "null" /\ UNCHANGED <<keys, size>>
    BY <1>3 DEF Returns
  <2>2. NoStore /\ Answers("insert", k, "duplicate")
    BY <1>1, <2>1
  <2>3. QED
    BY <1>2, <1>3, <2>1, <2>2 DEF OpStep
<1>4. CASE k \notin DOMAIN keys /\ NewRow("insert", k)
  BY <1>1, <1>2, <1>4, NewRowIs DEF OpStep, src
<1>5. QED
  BY <1>1, <1>3, <1>4 DEF Insert

(* An update stores in the row that is held.                               *)
LEMMA UpdateIs ==
  ASSUME FullInv, NEW k \in Key, Update(k), NEW src,
         \/ ret'.out = "row" /\ StoreRow("update", k, src, FALSE)
         \/ ret'.out = "null" /\ NoStore /\ Answers("update", k, "zero")
  PROVE  /\ IInv' /\ now' = now
         /\ \/ StoredRow("update", k, src, FALSE)
            \/ k \notin DOMAIN keys /\ UNCHANGED <<keys, size>> /\ NoStore /\ Answers("update", k, "zero")
<1>1. OpStep(k) /\ StoreOK
  BY UpdateStep, IInvIsStoreOK DEF FullInv
<1>2. CASE k \in DOMAIN keys /\ keys' = [keys EXCEPT ![k].exp = NewExpiry] /\ Returns("update", k, "row")
  <2>1. Renewed(k)
    BY <1>1, <1>2, RenewLeaves DEF Update
  <2>2. StoreRow("update", k, src, FALSE)
    BY <1>2 DEF Returns
  <2>3. QED
    BY <1>1, <2>1, <2>2 DEF OpStep, StoredRow, Renewed, GrownFor
<1>3. CASE k \notin DOMAIN keys /\ Returns("update", k, "null") /\ UNCHANGED keys
  <2>1. ret'.out = "null" /\ UNCHANGED <<keys, size>>
    BY <1>3 DEF Returns, Update
  <2>2. NoStore /\ Answers("update", k, "zero")
    BY <2>1
  <2>3. QED
    BY <1>1, <1>3, <2>1, <2>2 DEF OpStep
<1>4. QED
  BY <1>2, <1>3 DEF Update

(* A replace stores in the row that is held, or in a new one.              *)
LEMMA ReplaceIs ==
  ASSUME FullInv, NEW k \in Key, Replace(k), NEW src,
         \/ ret'.out = "row" /\ StoreRow("replace", k, src, k \notin DOMAIN keys)
         \/ ret'.out = "full" /\ NoStore /\ Answers("replace", k, "full")
  PROVE  /\ IInv' /\ now' = now
         /\ StoredRow("replace", k, src, k \notin DOMAIN keys) \/ NoRoom("replace", k)
<1>1. OpStep(k) /\ StoreOK
  BY ReplaceStep, IInvIsStoreOK DEF FullInv
<1>2. CASE k \in DOMAIN keys /\ keys' = [keys EXCEPT ![k].exp = NewExpiry] /\ Returns("replace", k, "row")
           /\ UNCHANGED <<deleted, size, capacity>>
  <2>1. Renewed(k)
    BY <1>1, <1>2, RenewLeaves
  <2>2. StoreRow("replace", k, src, k \notin DOMAIN keys)
    BY <1>2 DEF Returns
  <2>3. QED
    BY <1>1, <2>1, <2>2 DEF OpStep, StoredRow, Renewed, GrownFor
<1>3. CASE k \notin DOMAIN keys /\ NewRow("replace", k)
  <2>1. (k \notin DOMAIN keys) = TRUE
    BY <1>3
  <2>2. StoredRow("replace", k, src, TRUE) \/ NoRoom("replace", k)
    BY <1>3, <2>1, NewRowIs
  <2>3. QED
    BY <1>1, <2>1, <2>2 DEF OpStep
<1>4. QED
  BY <1>2, <1>3 DEF Replace

(* A row is gone for good, and nothing else that lives.                    *)
Gone(k) == k \in DOMAIN keys /\ Pruned /\ Spares({k}) /\ k \notin DOMAIN keys'

LEMMA DeleteIs ==
  ASSUME FullInv, NEW k \in DOMAIN keys, Delete(k) PROVE Gone(k)
<1>1. StoreOK
  BY IInvIsStoreOK DEF FullInv
<1>2. QED
  BY <1>1, DeleteStep, DeleteLeaves DEF Gone, Pruned, Elsewhere

LEMMA EraseIs ==
  ASSUME FullInv, NEW k \in Key, Erase(k)
  PROVE  /\ IInv' /\ now' = now
         /\ \/ Gone(k) /\ ret'.out = "true"
            \/ k \notin DOMAIN keys /\ UNCHANGED <<keys, size>> /\ ret'.out = "false"
<1>1. OpStep(k)
  BY EraseStep DEF FullInv
<1>2. QED
  BY <1>1, DeleteIs DEF OpStep, Erase, Returns, mapVars

LEMMA AtIs ==
  ASSUME FullInv, NEW k \in Key, At(k)
  PROVE  /\ IInv' /\ now' = now
         /\ \/ k \in DOMAIN keys /\ ~Dead(keys[k]) /\ UNCHANGED <<keys, size>> /\ ret'.out = "row"
            \/ k \notin DOMAIN keys /\ UNCHANGED <<keys, size>> /\ ret'.out = "null"
            \/ Dead(keys[k]) /\ Gone(k) /\ ret'.out = "null"
<1>1. OpStep(k)
  BY AtStep DEF FullInv
<1>2. QED
  BY <1>1, DeleteIs DEF OpStep, At, Returns, mapVars
-----------------------------------------------------------------------------
(* The rows of the storage.  Those handed out are as many as the map says, *)
(* and each holds RowLength cells.                                         *)
RowsOK == DOMAIN rows = 0..(size - 1) /\ \A p \in DOMAIN rows : rows[p] \in Rows
StorageShape == RowsOK /\ autoInc \in Key /\ torn \subseteq DOMAIN keys /\ reply \in Reply
StorageInv == FullInv /\ StorageShape

(* The row of a key that is held. *)
LEMMA RowOfKey ==
  ASSUME IInv, RowsOK, NEW k \in DOMAIN keys
  PROVE  keys[k].pos \in 0..(size - 1) /\ rows[keys[k].pos] \in Rows
<1>1. MapType(keys) /\ size \in Nat /\ Partition(keys, deleted, size)
  BY IInvIsStoreOK DEF StoreOK
<1>2. keys[k].pos \in Nat /\ keys[k].pos < size
  BY <1>1 DEF MapType, Entry, Partition, BelowSize
<1>3. QED
  BY <1>1, <1>2 DEF RowsOK

(* A request that stores nothing leaves the rows as they are.              *)
LEMMA PrunedKeeps ==
  ASSUME RowsOK, torn \subseteq DOMAIN keys, Pruned, NoStore
  PROVE  /\ RowsOK' /\ torn' \subseteq DOMAIN keys'
         /\ \A j \in DOMAIN keys' : rows'[keys'[j].pos] = rows[keys[j].pos]
         /\ \A j \in DOMAIN keys' : j \in torn' <=> j \in torn
  BY DEF RowsOK, Pruned, NoStore

(* One that stores a row makes it of what was in its place, with the       *)
(* values of src, and leaves the rows of the other keys as they are.       *)
Packed(op, k, src, isnew, old, pack) ==
  /\ old \in Rows /\ (~isnew => old = rows[keys[k].pos])
  /\ pack \in Packs
  /\ pack = IF op = "update" THEN PutAtPositions(old, src) ELSE PutInOrder(old, src)
  /\ rows'[keys'[k].pos] = pack.row
  /\ \A j \in DOMAIN keys' \ {k} : rows'[keys'[j].pos] = rows[keys[j].pos]
  /\ k \in torn' <=> (~Whole(pack, src) /\ (isnew \/ k \in torn))
  /\ \A j \in DOMAIN keys' \ {k} : j \in torn' <=> j \in torn
  /\ Answers(op, k, pack.out)

LEMMA StoredRowKeeps ==
  ASSUME IInv, RowsOK, torn \subseteq DOMAIN keys, IInv',
         NEW op \in {"insert", "update", "replace"}, NEW k \in Key, NEW isnew \in BOOLEAN,
         NEW src, Sources(src), op # "update" => \A i \in 1..NumFields : src[i] # Keep,
         StoredRow(op, k, src, isnew)
  PROVE  /\ RowsOK' /\ torn' \subseteq DOMAIN keys'
         /\ \E old, pack : Packed(op, k, src, isnew, old, pack)
<1> DEFINE p == keys'[k].pos
<1>1. PICK old \in Cells(p) :
        LET pack  == IF op = "update" THEN PutAtPositions(old, src) ELSE PutInOrder(old, src)
            whole == pack.out = "ok" /\ \A i \in DOMAIN src : src[i] # Keep
        IN  /\ rows' = With(rows, p, pack.row)
            /\ torn' = (IF whole THEN torn \ {k} ELSE IF isnew THEN torn \cup {k} ELSE torn)
                         \cap DOMAIN keys'
            /\ Answers(op, k, pack.out)
  BY DEF StoredRow, StoreRow
<1> DEFINE pack == IF op = "update" THEN PutAtPositions(old, src) ELSE PutInOrder(old, src)
<1>2. /\ rows' = With(rows, p, pack.row)
      /\ torn' = (IF Whole(pack, src) THEN torn \ {k} ELSE IF isnew THEN torn \cup {k} ELSE torn)
                   \cap DOMAIN keys'
      /\ Answers(op, k, pack.out)
  BY <1>1 DEF Whole
<1>3. /\ size \in Nat /\ k \in DOMAIN keys' /\ Elsewhere(k) /\ GrownFor(k)
      /\ (~isnew => k \in DOMAIN keys /\ p = keys[k].pos)
      /\ (isnew => k \notin DOMAIN keys)
  BY IInvIsStoreOK DEF StoredRow, StoreOK
<1>4. /\ \A j \in DOMAIN keys' : keys'[j].pos \in Nat /\ keys'[j].pos < size'
      /\ \A j \in DOMAIN keys' : keys'[j].pos = p => j = k
  BY <1>3 DEF IInv, TypeOK, Entry, SlotsPartitioned, Partition, BelowSize, UniqueLive
<1>5. \A j \in DOMAIN keys : keys[j].pos \in 0..(size - 1)
  BY RowOfKey
<1>6. old \in Rows /\ (~isnew => old = rows[keys[k].pos])
  <2>1. CASE p \in DOMAIN rows
    <3>1. old = rows[p]
      BY <1>1, <2>1 DEF Cells
    <3>2. QED
      BY <1>3, <2>1, <3>1 DEF RowsOK
  <2>2. CASE p \notin DOMAIN rows
    <3>1. old \in RawRow
      BY <1>1, <2>2 DEF Cells
    <3>2. isnew
      BY <1>3, <1>5, <2>2 DEF RowsOK
    <3>3. QED
      BY <3>1, <3>2, RowAssumption DEF Rows
  <2>3. QED
    BY <2>1, <2>2
<1>7. pack \in Packs
  <2>1. NumFields \in 0..NumFields
    BY FieldShape
  <2>2. CASE op = "update"
    BY <1>6, <2>1, <2>2, InPlaces
  <2>3. CASE op # "update"
    BY <1>6, <2>1, <2>3, InOrder
  <2>4. QED
    BY <2>2, <2>3
<1> HIDE DEF pack, p
<1>8. DOMAIN rows' = DOMAIN rows \cup {p} /\ rows'[p] = pack.row
      /\ \A q \in DOMAIN rows : q # p => rows'[q] = rows[q]
  BY <1>2 DEF With
<1>9. RowsOK'
  <2>1. p \in Nat /\ p < size' /\ (size' = size \/ (size' = size + 1 /\ p = size))
    BY <1>3, <1>4 DEF GrownFor, p
  <2>2. DOMAIN rows' = 0..(size' - 1)
    BY <1>3, <1>8, <2>1 DEF RowsOK
  <2>3. pack.row \in Rows
    BY <1>7 DEF Packs
  <2>4. \A q \in DOMAIN rows' : rows'[q] \in Rows
    BY <1>8, <2>3 DEF RowsOK
  <2>5. QED
    BY <2>2, <2>4 DEF RowsOK
<1>10. ASSUME NEW j \in DOMAIN keys' \ {k} PROVE rows'[keys'[j].pos] = rows[keys[j].pos]
  <2>1. j \in DOMAIN keys /\ keys'[j] = keys[j]
    BY <1>3 DEF Elsewhere
  <2>2. keys[j].pos \in DOMAIN rows /\ keys[j].pos # p
    BY <1>4, <1>5, <2>1 DEF RowsOK
  <2>3. QED
    BY <1>8, <2>1, <2>2
<1>11. k \in torn' <=> (~Whole(pack, src) /\ (isnew \/ k \in torn))
  BY <1>2, <1>3
<1>12. \A j \in DOMAIN keys' \ {k} : j \in torn' <=> j \in torn
  BY <1>2
<1>13. rows'[keys'[k].pos] = pack.row
  BY <1>8 DEF p
<1>14. Packed(op, k, src, isnew, old, pack)
  BY <1>2, <1>6, <1>7, <1>10, <1>11, <1>12, <1>13 DEF Packed, pack
<1>15. torn' \subseteq DOMAIN keys'
  BY <1>2
<1>16. QED
  BY <1>9, <1>14, <1>15

(* The row ids of requests, and those the table gives out.                 *)
LEMMA RowIds ==
  /\ \A v \in RequestId : v \notin {NoId, BadId} => GetRowId(v) \in Key
  /\ autoInc \in Key => IncreaseAutoInc \in Key
<1>1. \A v \in Int : v % IdRange \in 0..(IdRange - 1)
  BY IdAssumption
<1>2. \A v \in RequestId : v \notin {NoId, BadId} => v \in Int
  BY IdAssumption
<1>3. autoInc \in Key => autoInc + 1 \in Int
  BY IdAssumption
<1>4. QED
  BY <1>1, <1>2, <1>3, IdAssumption DEF GetRowId, IncreaseAutoInc

LEMMA AnswersType ==
  ASSUME NEW op \in {"none", "insert", "update", "replace", "delete", "get"}, NEW id \in Key \cup {NoRow},
         NEW out \in {"ok", "error", "duplicate", "noroom", "full", "zero", "row"}, Answers(op, id, out)
  PROVE  reply' \in Reply /\ reply'.out = out
  BY DEF Answers, Reply
-----------------------------------------------------------------------------
(* Every step of the storage either stores a row or leaves the rows alone. *)
Quiet == Pruned /\ NoStore /\ (UNCHANGED reply \/ (reply' \in Reply /\ reply'.out # "noroom"))
StoresRow ==
  \E op \in {"insert", "update", "replace"}, k \in Key, isnew \in BOOLEAN : \E src :
    /\ Sources(src) /\ (op # "update" => \A i \in 1..NumFields : src[i] # Keep)
    /\ StoredRow(op, k, src, isnew)

LEMMA UnchangedIsPruned == ASSUME UNCHANGED <<keys, size>> PROVE Pruned
  BY DEF Pruned

LEMMA InsertCases ==
  ASSUME StorageInv, NEW v \in RequestId, NEW given \in Given, InsertData(v, given)
  PROVE  Next /\ autoInc' \in Key /\ (Quiet \/ StoresRow)
<1>1. PICK k \in Key : InsertRow(k, given) /\ autoInc' \in Key
  BY RowIds DEF InsertData, StorageInv, StorageShape
<1>2. Next
  BY <1>1 DEF InsertRow, Next
<1>3. \/ StoredRow("insert", k, Source(given, InsertFill), TRUE)
      \/ k \in DOMAIN keys /\ UNCHANGED <<keys, size>> /\ NoStore /\ Answers("insert", k, "duplicate")
      \/ NoRoom("insert", k)
  BY <1>1, InsertRowIs DEF StorageInv
<1>4. CASE StoredRow("insert", k, Source(given, InsertFill), TRUE)
  BY <1>1, <1>2, <1>4, SourceIs DEF StoresRow
<1>5. CASE UNCHANGED <<keys, size>> /\ NoStore /\ Answers("insert", k, "duplicate")
  BY <1>1, <1>2, <1>5, UnchangedIsPruned, AnswersType DEF Quiet
<1>6. CASE NoRoom("insert", k)
  BY <1>1, <1>2, <1>6, AnswersType DEF Quiet, NoRoom
<1>7. QED
  BY <1>3, <1>4, <1>5, <1>6

LEMMA UpdateCases ==
  ASSUME StorageInv, NEW v \in RequestId, NEW given \in Given, UpdateData(v, given)
  PROVE  Next /\ autoInc' \in Key /\ (Quiet \/ StoresRow)
<1> DEFINE k == GetRowId(v)
           src == Source(given, UpdateFill)
<1>1. /\ k \in Key /\ autoInc' \in Key /\ Update(k)
      /\ \/ ret'.out = "row" /\ StoreRow("update", k, src, FALSE)
         \/ ret'.out = "null" /\ NoStore /\ Answers("update", k, "zero")
  BY RowIds DEF UpdateData, StorageInv, StorageShape
<1>2. Next
  BY <1>1 DEF Next
<1>3. Sources(src)
  BY SourceIs
<1> HIDE DEF k, src
<1>4. \/ StoredRow("update", k, src, FALSE)
      \/ UNCHANGED <<keys, size>> /\ NoStore /\ Answers("update", k, "zero")
  BY <1>1, UpdateIs DEF StorageInv
<1>5. CASE StoredRow("update", k, src, FALSE)
  BY <1>1, <1>2, <1>3, <1>5 DEF StoresRow
<1>6. CASE UNCHANGED <<keys, size>> /\ NoStore /\ Answers("update", k, "zero")
  BY <1>1, <1>2, <1>6, UnchangedIsPruned, AnswersType DEF Quiet
<1>7. QED
  BY <1>4, <1>5, <1>6

LEMMA ReplaceCases ==
  ASSUME StorageInv, NEW v \in RequestId, NEW given \in Given, ReplaceData(v, given)
  PROVE  Next /\ autoInc' \in Key /\ (Quiet \/ StoresRow)
<1> DEFINE k == GetRowId(v)
           src == Source(given, InsertFill)
<1>1. /\ k \in Key /\ autoInc' \in Key /\ Replace(k)
      /\ \/ ret'.out = "row" /\ StoreRow("replace", k, src, k \notin DOMAIN keys)
         \/ ret'.out = "full" /\ NoStore /\ Answers("replace", k, "full")
  BY RowIds DEF ReplaceData, StorageInv, StorageShape
<1>2. Next
  BY <1>1 DEF Next
<1>3. Sources(src) /\ \A i \in 1..NumFields : src[i] # Keep
  BY SourceIs
<1> HIDE DEF k, src
<1>4. StoredRow("replace", k, src, k \notin DOMAIN keys) \/ NoRoom("replace", k)
  BY <1>1, ReplaceIs DEF StorageInv
<1>5. CASE StoredRow("replace", k, src, k \notin DOMAIN keys)
  <2>1. (k \notin DOMAIN keys) \in BOOLEAN
    OBVIOUS
  <2>2. QED
    BY <1>1, <1>2, <1>3, <1>5, <2>1 DEF StoresRow
<1>6. CASE NoRoom("replace", k)
  BY <1>1, <1>2, <1>6, AnswersType DEF Quiet, NoRoom
<1>7. QED
  BY <1>4, <1>5, <1>6

LEMMA DeleteCases ==
  ASSUME StorageInv, NEW v \in RequestId, DeleteData(v)
  PROVE  Next /\ autoInc' \in Key /\ Quiet
<1> DEFINE k == GetRowId(v)
           out == IF ret'.out = "true" THEN "ok" ELSE "zero"
<1>1. k \in Key /\ autoInc' \in Key /\ Erase(k) /\ NoStore /\ Answers("delete", k, out)
  BY RowIds DEF DeleteData, StorageInv, StorageShape
<1>2. Next
  BY <1>1 DEF Next
<1>3. out \in {"ok", "zero"}
  OBVIOUS
<1> HIDE DEF k, out
<1>4. Pruned
  BY <1>1, EraseIs, UnchangedIsPruned DEF StorageInv, Gone
<1>5. reply' \in Reply /\ reply'.out # "noroom"
  BY <1>1, <1>3, AnswersType
<1>6. QED
  BY <1>1, <1>2, <1>4, <1>5 DEF Quiet

LEMMA GetCases ==
  ASSUME StorageInv, NEW v \in RequestId, GetData(v)
  PROVE  Next /\ autoInc' \in Key /\ Quiet
<1> DEFINE k == GetRowId(v)
           read == ReadRow(rows[keys[k].pos])
<1>1. /\ k \in Key /\ autoInc' \in Key /\ At(k) /\ NoStore
      /\ IF ret'.out = "null" \/ k = 0 THEN Answers("get", k, "zero")
         ELSE IF read.ok THEN reply' = [op |-> "get", id |-> k, out |-> "row", val |-> read.vals]
         ELSE Answers("get", k, "error")
  BY RowIds DEF GetData, StorageInv, StorageShape
<1>2. Next
  BY <1>1 DEF Next
<1> HIDE DEF k
<1>3. \/ k \in DOMAIN keys /\ UNCHANGED <<keys, size>> /\ ret'.out = "row"
      \/ UNCHANGED <<keys, size>> /\ ret'.out = "null"
      \/ Gone(k) /\ ret'.out = "null"
  BY <1>1, AtIs DEF StorageInv
<1>4. Pruned
  BY <1>3, UnchangedIsPruned DEF Gone
<1>5. CASE Answers("get", k, "zero") \/ Answers("get", k, "error")
  BY <1>1, <1>2, <1>4, <1>5, AnswersType DEF Quiet
<1>6. CASE ret'.out # "null" /\ read.ok /\ reply' = [op |-> "get", id |-> k, out |-> "row", val |-> read.vals]
  <2>1. rows[keys[k].pos] \in Rows
    BY <1>3, <1>6, RowOfKey DEF StorageInv, FullInv, StorageShape
  <2>2. read.vals \in [DOMAIN Fields -> Seq(Nat)]
    BY <1>6, <2>1, ReadType
  <2> HIDE DEF read
  <2>3. reply' \in Reply /\ reply'.out # "noroom"
    BY <1>1, <1>6, <2>2 DEF Reply
  <2>4. QED
    BY <1>1, <1>2, <1>4, <2>3 DEF Quiet
<1>7. QED
  BY <1>1, <1>5, <1>6

LEMMA StorageCases ==
  ASSUME StorageInv, [StorageNext]_svars
  PROVE  FullInv' /\ autoInc' \in Key /\ (Quiet \/ StoresRow)
<1>1. FullInv /\ torn \subseteq DOMAIN keys /\ autoInc \in Key
  BY DEF StorageInv, StorageShape
<1>2. /\ [Next]_vars => FullInv'
  BY <1>1, NextIInv, NextExpireByLifeTime DEF FullInv
<1>3. CASE (Tick /\ UNCHANGED storageVars) \/ UNCHANGED svars
  <2>1. [Next]_vars /\ UNCHANGED storageVars
    BY <1>3 DEF Next, svars
  <2>2. UNCHANGED <<keys, size>>
    BY <1>1, <1>3, IdleStep DEF svars, FullInv
  <2>3. UNCHANGED <<rows, autoInc, torn, reply>> /\ NoStore
    BY <1>1, <2>1, <2>2 DEF NoStore, storageVars
  <2>4. QED
    BY <1>1, <1>2, <2>1, <2>2, <2>3, UnchangedIsPruned DEF Quiet
<1>4. ASSUME NEW v \in RequestId, RefuseRowId(v)
      PROVE  [Next]_vars /\ autoInc' \in Key /\ Quiet
  <2>1. UNCHANGED <<vars, rows, autoInc, torn>> /\ Answers("none", NoRow, "error")
    BY <1>4 DEF RefuseRowId
  <2>2. UNCHANGED <<keys, size>>
    BY <2>1 DEF vars, mapVars
  <2>3. NoStore
    BY <1>1, <2>1, <2>2 DEF NoStore
  <2>4. reply' \in Reply /\ reply'.out # "noroom"
    BY <2>1, AnswersType
  <2>5. QED
    BY <1>1, <2>1, <2>2, <2>3, <2>4, UnchangedIsPruned DEF Quiet
<1>5. ASSUME NEW v \in RequestId,
             \/ \E given \in Given : InsertData(v, given) \/ UpdateData(v, given) \/ ReplaceData(v, given)
             \/ DeleteData(v) \/ GetData(v) \/ RefuseRowId(v)
      PROVE  [Next]_vars /\ autoInc' \in Key /\ (Quiet \/ StoresRow)
  BY <1>4, <1>5, InsertCases, UpdateCases, ReplaceCases, DeleteCases, GetCases
<1>6. QED
  BY <1>2, <1>3, <1>5 DEF StorageNext

(* Opening an empty table establishes the invariant, and it is kept. *)
LEMMA InitStorageInv == ASSUME StorageInit PROVE StorageInv
<1>1. Init /\ rows = <<>> /\ autoInc = 0 /\ torn = {}
      /\ reply = [op |-> "none", id |-> 0, out |-> "ok", val |-> NoRow]
  BY DEF StorageInit
<1>2. FullInv
  <2>1. Init => DOMAIN keys = {}
    BY DEF Init
  <2>2. QED
    BY <1>1, <2>1, InitIInv DEF FullInv, ExpireByLifeTime
<1>3. RowsOK
  BY <1>1 DEF RowsOK, Init
<1>4. 0 \in Key
  BY IdAssumption
<1>5. QED
  BY <1>1, <1>2, <1>3, <1>4 DEF StorageInv, StorageShape, Reply

LEMMA NextStorageInv == ASSUME StorageInv, [StorageNext]_svars PROVE StorageInv'
<1>1. IInv /\ RowsOK /\ torn \subseteq DOMAIN keys /\ reply \in Reply
  BY DEF StorageInv, StorageShape, FullInv
<1>2. FullInv' /\ autoInc' \in Key /\ (Quiet \/ StoresRow)
  BY StorageCases
<1>3. CASE Quiet
  <2>1. RowsOK' /\ torn' \subseteq DOMAIN keys'
    BY <1>1, <1>3, PrunedKeeps DEF Quiet
  <2>2. reply' \in Reply
    BY <1>1, <1>3 DEF Quiet
  <2>3. QED
    BY <1>2, <2>1, <2>2 DEF StorageInv, StorageShape
<1>4. CASE StoresRow
  <2>0. PICK op \in {"insert", "update", "replace"}, k \in Key, isnew \in BOOLEAN : \E src :
          /\ Sources(src) /\ (op # "update" => \A i \in 1..NumFields : src[i] # Keep)
          /\ StoredRow(op, k, src, isnew)
    BY <1>4 DEF StoresRow
  <2>1. PICK src : /\ Sources(src) /\ (op # "update" => \A i \in 1..NumFields : src[i] # Keep)
                   /\ StoredRow(op, k, src, isnew)
    BY <2>0
  <2>2. /\ RowsOK' /\ torn' \subseteq DOMAIN keys'
        /\ \E old, pack : Packed(op, k, src, isnew, old, pack)
    BY <1>1, <1>2, <2>1, StoredRowKeeps DEF FullInv
  <2>3. PICK old, pack : Packed(op, k, src, isnew, old, pack)
    BY <2>2
  <2>4. pack.out \in {"ok", "error", "noroom"} /\ Answers(op, k, pack.out)
    BY <2>3 DEF Packed, Packs
  <2>5. reply' \in Reply
    BY <2>4, AnswersType
  <2>6. QED
    BY <1>2, <2>2, <2>5 DEF StorageInv, StorageShape
<1>5. QED
  BY <1>2, <1>3, <1>4

(* The rows, the numbering and the replies of a memory table keep their    *)
(* types: a row never has more or fewer cells than RowLength, and every    *)
(* position that was handed out has one.                                   *)
THEOREM StorageTypeCorrect == StorageSpec => []StorageTypeOK
<1>1. StorageInv => StorageTypeOK
  BY DEF StorageInv, StorageShape, StorageTypeOK, FullInv, IInv, RowsOK, Rows
<1>2. StorageInit => StorageInv
  BY InitStorageInv
<1>3. StorageInv /\ [StorageNext]_svars => StorageInv'
  BY NextStorageInv
<1>4. QED
  BY <1>1, <1>2, <1>3, PTL DEF StorageSpec
-----------------------------------------------------------------------------
(* What the rows hold: every row that was stored to its end is shaped, so  *)
(* that a string is found no longer than its field allows.                 *)
RowsShaped == \A k \in DOMAIN keys \ torn : Shaped(rows[keys[k].pos])
ShapeInv == StorageInv /\ RowsShaped /\ reply.out # "noroom"

(* How a request that stores a row ends, when every field fits its place.  *)
LEMMA PackedIs ==
  ASSUME FieldsFit, NEW op, NEW k, NEW src, NEW isnew, NEW old, NEW pack, Sources(src),
         op # "update" => \A i \in 1..NumFields : src[i] # Keep, Packed(op, k, src, isnew, old, pack)
  PROVE  \E n : Outcome(pack, old, src, n)
<1>1. old \in Rows /\ pack = IF op = "update" THEN PutAtPositions(old, src) ELSE PutInOrder(old, src)
  BY DEF Packed
<1>2. CASE op = "update"
  BY <1>1, <1>2, PutAtPositionsIs
<1>3. CASE op # "update"
  BY <1>1, <1>3, PutInOrderIs
<1>4. QED
  BY <1>2, <1>3

LEMMA NextShapeInv == ASSUME FieldsFit, ShapeInv, [StorageNext]_svars PROVE ShapeInv'
<1>1. StorageInv /\ IInv /\ RowsOK /\ torn \subseteq DOMAIN keys
  BY DEF ShapeInv, StorageInv, StorageShape, FullInv
<1>2. FullInv' /\ (Quiet \/ StoresRow)
  BY <1>1, StorageCases
<1>3. StorageInv'
  BY <1>1, NextStorageInv
<1>4. CASE Quiet
  <2>1. reply'.out # "noroom"
    BY <1>4 DEF Quiet, ShapeInv
  <2>2. ASSUME NEW k \in DOMAIN keys' \ torn' PROVE Shaped(rows'[keys'[k].pos])
    <3>1. k \in DOMAIN keys \ torn /\ rows'[keys'[k].pos] = rows[keys[k].pos]
      BY <1>1, <1>4, PrunedKeeps DEF Quiet, Pruned
    <3>2. QED
      BY <3>1 DEF ShapeInv, RowsShaped
  <2>3. RowsShaped'
    BY <2>2 DEF RowsShaped, Shaped, InPlace
  <2>4. QED
    BY <1>3, <2>1, <2>3 DEF ShapeInv
<1>5. CASE StoresRow
  <2>0. PICK op \in {"insert", "update", "replace"}, k \in Key, isnew \in BOOLEAN : \E src :
          /\ Sources(src) /\ (op # "update" => \A i \in 1..NumFields : src[i] # Keep)
          /\ StoredRow(op, k, src, isnew)
    BY <1>5 DEF StoresRow
  <2>1. PICK src : /\ Sources(src) /\ (op # "update" => \A i \in 1..NumFields : src[i] # Keep)
                   /\ StoredRow(op, k, src, isnew)
    BY <2>0
  <2>2. PICK old, pack : Packed(op, k, src, isnew, old, pack)
    BY <1>1, <1>2, <2>1, StoredRowKeeps DEF FullInv
  <2>3. PICK n : Outcome(pack, old, src, n)
    BY <2>1, <2>2, PackedIs
  <2>4. reply'.out # "noroom"
    BY <2>2, <2>3 DEF Packed, Answers, Outcome
  <2>5. ASSUME NEW j \in DOMAIN keys' \ torn', j # k PROVE Shaped(rows'[keys'[j].pos])
    <3>1. j \in DOMAIN keys \ torn /\ rows'[keys'[j].pos] = rows[keys[j].pos]
      BY <2>1, <2>2, <2>5 DEF Packed, StoredRow, Elsewhere
    <3>2. QED
      BY <3>1 DEF ShapeInv, RowsShaped
  <2>6. ASSUME k \notin torn' PROVE Shaped(rows'[keys'[k].pos])
    <3>1. Whole(pack, src) \/ (~isnew /\ k \notin torn)
      BY <2>2, <2>6 DEF Packed
    <3>2. ~isnew => k \in DOMAIN keys /\ old = rows[keys[k].pos]
      BY <2>1, <2>2 DEF StoredRow, Packed
    <3>3. Shaped(old) \/ Whole(pack, src)
      BY <3>1, <3>2 DEF ShapeInv, RowsShaped
    <3>4. old \in Rows /\ rows'[keys'[k].pos] = pack.row
      BY <2>2 DEF Packed
    <3>5. QED
      BY <2>1, <2>3, <3>3, <3>4, OutcomeShaped
  <2>7. \A j \in DOMAIN keys' \ torn' : Shaped(rows'[keys'[j].pos])
    BY <2>5, <2>6
  <2>8. RowsShaped'
    BY <2>7 DEF RowsShaped, Shaped, InPlace
  <2>9. QED
    BY <1>3, <2>4, <2>8 DEF ShapeInv
<1>6. QED
  BY <1>2, <1>4, <1>5

LEMMA InitShapeInv == ASSUME StorageInit PROVE ShapeInv
<1>1. StorageInv /\ DOMAIN keys = {} /\ reply.out = "ok"
  <2>1. Init => DOMAIN keys = {}
    BY DEF Init
  <2>2. Init /\ reply = [op |-> "none", id |-> 0, out |-> "ok", val |-> NoRow]
    BY DEF StorageInit
  <2>3. reply.out = "ok"
    BY <2>2
  <2>4. QED
    BY <2>1, <2>2, <2>3, InitStorageInv
<1>2. QED
  BY <1>1 DEF ShapeInv, RowsShaped

(* No request ever writes beyond the row, whatever it gives: when no field *)
(* of fixed length is written longer than it was computed, RowLength is    *)
(* the maximal length of a row.                                            *)
THEOREM RowLengthSuffices == ASSUME FieldsFit PROVE StorageSpec => []RowLengthIsMaximal
<1>1. ShapeInv => RowLengthIsMaximal
  BY DEF ShapeInv, RowLengthIsMaximal
<1>2. StorageInit => ShapeInv
  BY InitShapeInv
<1>3. ShapeInv /\ [StorageNext]_svars => ShapeInv'
  BY NextShapeInv
<1>4. QED
  BY <1>1, <1>2, <1>3, PTL DEF StorageSpec

(* A field of fixed length is read at its Position, whatever history its   *)
(* row has, when the fields before it take the cells they were computed.   *)
THEOREM FixedFieldsStayInPlace ==
  ASSUME FieldsFit, \A i \in 1..NumFields : Fields[i].kind = "fixed" => InPlace(i)
  PROVE  StorageSpec => []FixedFieldsAtPosition
<1>1. ASSUME ShapeInv PROVE FixedFieldsAtPosition
  <2> SUFFICES ASSUME NEW k \in DOMAIN keys \ torn, NEW i \in 1..NumFields, Fields[i].kind = "fixed"
               PROVE  ReadFields(rows[keys[k].pos], i - 1).at = Position[i]
    BY FieldShape DEF FixedFieldsAtPosition
  <2>1. Shaped(rows[keys[k].pos]) /\ rows[keys[k].pos] \in Rows
    BY <1>1, RowOfKey DEF ShapeInv, RowsShaped, StorageInv, StorageShape, FullInv
  <2>2. NumFields \in Nat /\ i - 1 \in 0..NumFields /\ (i - 1) + 1 = i
    BY FieldShape
  <2>3. InPlace(i)
    OBVIOUS
  <2>4. ASSUME NEW j \in 1..(i - 1)
        PROVE  InPlace(j) /\ (Fields[j].kind = "fixed" => Fields[j].get <= Fields[j].len)
    <3>1. InPlace(j)
      BY <2>2, <2>3, InPlaceBefore
    <3>2. Fields[j].kind = "fixed" => Fields[j].get = Fields[j].len
      BY <2>3 DEF InPlace
    <3>3. j \in 1..NumFields /\ Fields[j].len \in Nat
      BY <2>2, FieldShape
    <3>4. QED
      BY <3>1, <3>2, <3>3
  <2>5. QED
    BY <2>1, <2>2, <2>3, <2>4, ReadInPlace
<1>2. StorageInit => ShapeInv
  BY InitShapeInv
<1>3. ShapeInv /\ [StorageNext]_svars => ShapeInv'
  BY NextShapeInv
<1>4. QED
  BY <1>1, <1>2, <1>3, PTL DEF StorageSpec
-----------------------------------------------------------------------------
(* The storage keeps the promise of the abstract table.  Below, Table is   *)
(* what the clients see of the rows.                                       *)

(* Less is held than there is room for, beside a key that is held.         *)
LEMMA RoomForOne ==
  ASSUME NEW ks, MapType(ks), NEW del \in Seq(Nat), NEW n \in Nat, Partition(ks, del, n),
         n <= MaxSize, NEW k \in DOMAIN ks
  PROVE  Cardinality(DOMAIN ks \ {k}) < MaxSize
<1>1. IsFiniteSet(DOMAIN ks) /\ IsFiniteSet(DOMAIN ks \ {k})
  BY KeyAssumption, FS_Subset DEF MapType
<1>2. Cardinality(DOMAIN ks \ {k}) = Cardinality(DOMAIN ks) - 1 /\ Cardinality(DOMAIN ks) \in Nat
  BY <1>1, FS_RemoveElement, FS_CardinalityType
<1>3. Cardinality(DOMAIN ks) <= n /\ MaxSize \in Nat
  BY HeldFits, SizeAssumption DEF MaxSize
<1>4. QED
  BY <1>2, <1>3

(* What a request stores, as the abstract table says it. *)
LEMMA ValuesAreSource ==
  ASSUME NEW given \in Given
  PROVE  /\ Promise!Values(given, InsertFill) = Source(given, InsertFill)
         /\ Promise!Values(given, UpdateFill) = Source(given, UpdateFill)
  BY RowAssumption DEF Promise!Values, Source, Cut

LEMMA CardinalityIs == ASSUME NEW S PROVE Promise!Cardinality(S) = Cardinality(S)
  BY DEF Promise!Cardinality, Cardinality

(* The rows that live are the same. *)
LEMMA LiveIs == Promise!Live = {k \in DOMAIN keys : ~Dead(keys[k])} /\ Promise!Expiry = NewExpiry
  BY DEF Promise!Live, Promise!Expired, Table, Dead, Promise!Expiry, NewExpiry

(* Leaving out rows that have expired is a sweep. *)
LEMMA SweptIs ==
  ASSUME NEW D, D \subseteq DOMAIN keys, \A k \in DOMAIN keys : ~Dead(keys[k]) => k \in D
  PROVE  [k \in D |-> Table[k]] \in Promise!Swept
<1>1. Promise!Live \subseteq D /\ DOMAIN Table = DOMAIN keys
  BY LiveIs DEF Table
<1>2. D \ Promise!Live \in SUBSET (DOMAIN Table \ Promise!Live) /\ Promise!Live \cup (D \ Promise!Live) = D
  BY <1>1
<1>3. [k \in Promise!Live \cup (D \ Promise!Live) |-> Table[k]] \in Promise!Swept
  BY <1>2 DEF Promise!Swept
<1>4. QED
  BY <1>2, <1>3

(* The entry of a key whose row was left alone. *)
LEMMA EntryKept ==
  ASSUME NEW j \in DOMAIN keys', keys'[j] = keys[j], j \in DOMAIN keys,
         rows'[keys'[j].pos] = rows[keys[j].pos], j \in torn' <=> j \in torn
  PROVE  Table'[j] = Table[j]
  BY DEF Table

(* A request that stores nothing sweeps. *)
LEMMA PrunedTable ==
  ASSUME StorageInv, Pruned, NoStore
  PROVE  DOMAIN Table' = DOMAIN keys' /\ Table' = [k \in DOMAIN keys' |-> Table[k]]
<1>1. \A j \in DOMAIN keys' : Table'[j] = Table[j]
  BY PrunedKeeps, EntryKept DEF StorageInv, StorageShape, Pruned
<1>2. DOMAIN Table' = DOMAIN keys' /\ Table' = [k \in DOMAIN keys' |-> Table'[k]]
  BY DEF Table
<1>3. QED
  BY <1>1, <1>2

(* A function that gives a value for each field. *)
IsTable(src) == src = [i \in 1..NumFields |-> src[i]]

(* A row that was stored is what the abstract table makes of it: was is    *)
(* its content before, and ok says whether all of src was stored.          *)
EntryIs(op, k, src, was, ok) ==
  /\ ok \in BOOLEAN /\ Promise!Stored(was, src, Table'[k].val, ok)
  /\ Promise!Replies(op, k, IF ok THEN "ok" ELSE "error")
  /\ Table' = [j \in DOMAIN keys' |->
                 IF j = k THEN [val |-> Table'[k].val, exp |-> Promise!Expiry] ELSE Table[j]]

LEMMA StoredEntry ==
  ASSUME ReadsBack, ShapeInv, IInv',
         NEW op \in {"insert", "update", "replace"}, NEW k \in Key, NEW isnew \in BOOLEAN,
         NEW src, Sources(src), IsTable(src),
         op # "update" => \A i \in 1..NumFields : src[i] # Keep,
         StoredRow(op, k, src, isnew), NEW was, was = IF isnew THEN Torn ELSE Table[k].val
  PROVE  (isnew => Table'[k].val \in {src, Torn}) /\ \E ok : EntryIs(op, k, src, was, ok)
<1>1. /\ StorageInv /\ IInv /\ RowsOK /\ torn \subseteq DOMAIN keys /\ RowsShaped
      /\ FieldsFit /\ NumFields \in Nat /\ DOMAIN Fields = 1..NumFields /\ DOMAIN src = 1..NumFields
  BY FieldShape DEF ShapeInv, StorageInv, StorageShape, FullInv, ReadsBack, Sources
<1>2. PICK old, pack : Packed(op, k, src, isnew, old, pack)
  BY <1>1, StoredRowKeeps
<1>3. PICK n : Outcome(pack, old, src, n)
  BY <1>1, <1>2, PackedIs
<1>4. /\ k \in DOMAIN keys' /\ keys'[k].exp = NewExpiry /\ Elsewhere(k)
      /\ isnew = (k \notin DOMAIN keys) /\ old \in Rows
      /\ ~isnew => old = rows[keys[k].pos]
      /\ rows'[keys'[k].pos] = pack.row /\ Answers(op, k, pack.out)
      /\ k \in torn' <=> (~Whole(pack, src) /\ (isnew \/ k \in torn))
  BY <1>2 DEF StoredRow, Packed
<1> DEFINE ok == n = NumFields
           new == Table'[k].val
<1>5. /\ n \in 0..NumFields /\ (\A i \in 1..n : src[i] # Bad) /\ (n < NumFields => src[n + 1] = Bad)
      /\ pack.out = IF ok THEN "ok" ELSE "error"
  BY <1>3 DEF Outcome, Stops
<1>6. ok = \A i \in DOMAIN src : src[i] # Bad
  <2>1. CASE ok
    BY <1>1, <1>5, <2>1
  <2>2. CASE ~ok
    <3>1. n + 1 \in 1..NumFields /\ src[n + 1] = Bad
      BY <1>1, <1>5, <2>2
    <3>2. QED
      BY <1>1, <2>2, <3>1
  <2>3. QED
    BY <2>1, <2>2
<1>7. Whole(pack, src) <=> (ok /\ \A i \in DOMAIN src : src[i] # Keep)
  BY <1>5 DEF Whole
<1>8. Table'[k] = [val |-> IF k \in torn' THEN Torn ELSE ReadRow(pack.row).vals, exp |-> NewExpiry]
  BY <1>4 DEF Table
<1>9. /\ new = (IF k \in torn' THEN Torn ELSE ReadRow(pack.row).vals)
      /\ Table'[k] = [val |-> new, exp |-> NewExpiry]
  BY <1>8
<1>10. ~isnew => was = IF k \in torn THEN Torn ELSE ReadRow(old).vals
  BY <1>4 DEF Table
<1>11. (~isnew /\ k \notin torn) => Shaped(old) /\ was = ReadRow(old).vals /\ was # Torn
  <2> SUFFICES ASSUME ~isnew, k \notin torn PROVE Shaped(old) /\ was = ReadRow(old).vals /\ was # Torn
    OBVIOUS
  <2>1. Shaped(old)
    BY <1>1, <1>4 DEF RowsShaped
  <2>2. was = ReadRow(old).vals
    BY <1>10
  <2>3. ReadRow(old).vals \in [DOMAIN Fields -> Seq(Nat)]
    BY <1>1, <1>4, <2>1, ReadWhole, ReadType
  <2>4. QED
    BY <2>1, <2>2, <2>3, RowAssumption
<1>12. (isnew \/ k \in torn) => was = Torn
  BY <1>4, <1>10
<1> HIDE DEF new
<1>13. k \notin torn' =>
         new = ReadMixed(old, src, n)
  <2> SUFFICES ASSUME k \notin torn' PROVE new = ReadMixed(old, src, n)
    OBVIOUS
  <2>1. Shaped(old) \/ Whole(pack, src)
    BY <1>4, <1>11
  <2>2. ReadRow(pack.row).vals = ReadMixed(old, src, n)
    BY <1>3, <1>4, <2>1, OutcomeRead
  <2>3. QED
    BY <1>9, <2>2
<1>14. Whole(pack, src) => new = src
  <2> SUFFICES ASSUME Whole(pack, src) PROVE new = src
    OBVIOUS
  <2>1. \A i \in 1..NumFields : i <= n /\ src[i] # Keep
    BY <1>1, <1>7
  <2>2. k \notin torn'
    BY <1>4
  <2>3. new = [i \in 1..NumFields |-> src[i]]
    BY <1>13, <2>1, <2>2 DEF ReadMixed
  <2>4. QED
    BY <2>3 DEF IsTable
<1>15. ASSUME was = Torn
       PROVE  new = IF ok /\ \A i \in DOMAIN src : src[i] # Keep THEN src ELSE Torn
  <2>1. isnew \/ k \in torn
    BY <1>11, <1>15
  <2>2. ~Whole(pack, src) => new = Torn
    BY <1>4, <1>9, <2>1
  <2>3. QED
    BY <1>7, <1>14, <2>2
<1>16. ASSUME was # Torn
       PROVE  new = [i \in DOMAIN src |->
                       IF src[i] = Keep \/ \E j \in {l \in DOMAIN src : src[l] = Bad} : j <= i
                       THEN was[i] ELSE src[i]]
  <2>1. ~isnew /\ k \notin torn /\ k \notin torn' /\ was = ReadRow(old).vals
    BY <1>4, <1>11, <1>12, <1>16
  <2>2. ASSUME NEW i \in 1..NumFields
        PROVE  i <= n <=> ~\E j \in {l \in DOMAIN src : src[l] = Bad} : j <= i
    <3>1. CASE i <= n
      <4>1. \A j \in 1..NumFields : j <= i => j \in 1..n
        BY <1>1, <1>5, <3>1
      <4>2. QED
        BY <1>1, <1>5, <3>1, <4>1
    <3>2. CASE ~(i <= n)
      <4>1. n + 1 \in 1..NumFields /\ n + 1 <= i /\ src[n + 1] = Bad
        BY <1>1, <1>5, <3>2
      <4>2. QED
        BY <1>1, <3>2, <4>1
    <3>3. QED
      BY <3>1, <3>2
  <2>3. QED
    BY <1>1, <1>13, <2>1, <2>2 DEF ReadMixed
<1>17. Promise!Stored(was, src, new, ok)
  BY <1>6, <1>15, <1>16 DEF Promise!Stored
<1>18. isnew => new \in {src, Torn}
  BY <1>12, <1>15
<1>19. Promise!Replies(op, k, IF ok THEN "ok" ELSE "error")
  BY <1>4, <1>5 DEF Answers, Promise!Replies
<1>20. ASSUME NEW j \in DOMAIN keys', j # k PROVE Table'[j] = Table[j]
  BY <1>2, <1>4, <1>20, EntryKept DEF Elsewhere, Packed
<1>21. DOMAIN Table' = DOMAIN keys' /\ Table' = [j \in DOMAIN keys' |-> Table'[j]]
  BY DEF Table
<1>22. Table' = [j \in DOMAIN keys' |-> IF j = k THEN [val |-> new, exp |-> Promise!Expiry] ELSE Table[j]]
  BY <1>9, <1>20, <1>21, LiveIs
<1>23. ok \in BOOLEAN
  OBVIOUS
<1>24. QED
  BY <1>17, <1>18, <1>19, <1>22, <1>23 DEF new, EntryIs

(* So is what a request stores. *)
LEMMA SourceTable == ASSUME NEW given, NEW fill PROVE IsTable(Source(given, fill))
  BY FieldShape DEF Source, IsTable

(* A new row is created, beside fewer rows than there is room for ... *)
LEMMA CreateIs ==
  ASSUME ReadsBack, ShapeInv, IInv', RowsFit', NEW op \in {"insert", "replace"}, NEW k \in Key,
         NEW given \in Given, StoredRow(op, k, Source(given, InsertFill), TRUE)
  PROVE  Promise!Create(op, k, given)
<1> DEFINE src == Source(given, InsertFill)
           D == DOMAIN keys' \ {k}
           t == [j \in D |-> Table[j]]
           new == Table'[k].val
<1>1. Sources(src) /\ IsTable(src) /\ \A i \in 1..NumFields : src[i] # Keep
  BY SourceIs, SourceTable
<1>2. Promise!Values(given, InsertFill) = src
  BY ValuesAreSource
<1> HIDE DEF src
<1>3. /\ k \in DOMAIN keys' /\ Elsewhere(k) /\ k \notin DOMAIN keys /\ Spares({})
  BY DEF StoredRow
<1>4. PICK ok : EntryIs(op, k, src, Torn, ok) /\ new \in {src, Torn}
  <2> DEFINE isnew == TRUE
  <2>1. isnew \in BOOLEAN /\ StoredRow(op, k, src, isnew) /\ isnew
    BY DEF src
  <2>2. Torn = IF isnew THEN Torn ELSE Table[k].val
    OBVIOUS
  <2> HIDE DEF isnew, t, D
  <2>3. (isnew => Table'[k].val \in {src, Torn}) /\ \E ok : EntryIs(op, k, src, Torn, ok)
    BY <1>1, <2>1, <2>2, StoredEntry
  <2>4. QED
    BY <2>1, <2>3
<1>5. t \in Promise!Swept
  <2>1. D \subseteq DOMAIN keys /\ \A j \in DOMAIN keys : ~Dead(keys[j]) => j \in D
    BY <1>3 DEF Elsewhere, Spares
  <2> HIDE DEF D
  <2>2. QED
    BY <2>1, SweptIs
<1>6. Cardinality(D) < MaxSize
  <2>1. /\ MapType(keys') /\ deleted' \in Seq(Nat) /\ size' \in Nat /\ Partition(keys', deleted', size')
        /\ capacity' \in Nat
    BY DEF IInv, TypeOK, SlotsPartitioned, MapType
  <2>2. size' <= MaxSize
    <3>1. size' <= capacity' /\ capacity' <= MaxSize /\ MaxSize \in Nat
      BY SizeAssumption DEF RowsFit, MaxSize
    <3>2. QED
      BY <2>1, <3>1
  <2>3. QED
    BY <1>3, <2>1, <2>2, RoomForOne
<1>7. k \notin DOMAIN t /\ DOMAIN t = D
  OBVIOUS
<1>8. Table' = Promise!Put(t, k, [val |-> new, exp |-> Promise!Expiry])
  BY <1>3, <1>4 DEF Promise!Put, EntryIs
<1> HIDE DEF t, D, new
<1>9. /\ ok \in BOOLEAN /\ Promise!Stored(Torn, src, new, ok)
      /\ Promise!Replies(op, k, IF ok THEN "ok" ELSE "error")
  BY <1>4 DEF EntryIs, new
<1>10. Promise!Cardinality(DOMAIN t) < MaxSize
  BY <1>6, <1>7, CardinalityIs
<1>11. QED
  BY <1>2, <1>4, <1>5, <1>7, <1>8, <1>9, <1>10 DEF Promise!Create

(* ... or refused, because MaxSize rows that live are held. *)
LEMMA RefusedIs ==
  ASSUME ShapeInv, NEW op, NEW k \in Key, NEW given, NoRoom(op, k)
  PROVE  Promise!Create(op, k, given)
<1>1. /\ Pruned /\ Spares({}) /\ k \notin DOMAIN keys' /\ NoStore /\ Answers(op, k, "full")
      /\ Cardinality({j \in DOMAIN keys' : ~Dead(keys'[j])}) = MaxSize
  BY DEF NoRoom
<1>2. {j \in DOMAIN keys' : ~Dead(keys'[j])} = {j \in DOMAIN keys : ~Dead(keys[j])}
  BY <1>1 DEF Pruned, Spares
<1>3. Promise!Cardinality(Promise!Live) = MaxSize
  BY <1>1, <1>2, LiveIs, CardinalityIs
<1>4. DOMAIN Table' = DOMAIN keys' /\ Table' = [j \in DOMAIN keys' |-> Table[j]]
  BY <1>1, PrunedTable DEF ShapeInv
<1>5. Table' \in Promise!Swept
  <2>1. DOMAIN keys' \subseteq DOMAIN keys /\ \A j \in DOMAIN keys : ~Dead(keys[j]) => j \in DOMAIN keys'
    BY <1>1 DEF Pruned, Spares
  <2>2. QED
    BY <1>4, <2>1, SweptIs
<1>6. Promise!Replies(op, k, "full")
  BY <1>1 DEF Answers, Promise!Replies
<1>7. QED
  BY <1>1, <1>3, <1>4, <1>5, <1>6 DEF Promise!Create

(* A row that is held, expired or not, is overwritten. *)
LEMMA OverwriteIs ==
  ASSUME ReadsBack, ShapeInv, IInv', NEW op \in {"update", "replace"}, NEW k \in Key,
         NEW given \in Given, NEW fill, fill = InsertFill \/ (fill = UpdateFill /\ op = "update"),
         StoredRow(op, k, Source(given, fill), FALSE)
  PROVE  Promise!Overwrite(op, k, given, fill)
<1> DEFINE src == Source(given, fill)
           new == Table'[k].val
<1>1. /\ Sources(src) /\ IsTable(src)
      /\ op # "update" => \A i \in 1..NumFields : src[i] # Keep
  BY SourceIs, SourceTable
<1>2. Promise!Values(given, fill) = src
  BY ValuesAreSource
<1> HIDE DEF src
<1>3. k \in DOMAIN keys /\ DOMAIN keys' = DOMAIN keys
  BY DEF StoredRow
<1>4. PICK ok : EntryIs(op, k, src, Table[k].val, ok)
  <2> DEFINE isnew == FALSE
  <2>1. isnew \in BOOLEAN /\ StoredRow(op, k, src, isnew)
    BY DEF src
  <2>2. Table[k].val = IF isnew THEN Torn ELSE Table[k].val
    OBVIOUS
  <2> HIDE DEF isnew
  <2>3. \E ok : EntryIs(op, k, src, Table[k].val, ok)
    BY <1>1, <2>1, <2>2, StoredEntry
  <2>4. QED
    BY <2>3
<1>5. new \in {Table'[k].val}
  OBVIOUS
<1>6. DOMAIN Table = DOMAIN keys
  BY DEF Table
<1>7. Table' = Promise!Put(Table, k, [val |-> new, exp |-> Promise!Expiry])
  BY <1>3, <1>4, <1>6 DEF Promise!Put, EntryIs
<1>8. /\ ok \in BOOLEAN /\ Promise!Stored(Table[k].val, src, new, ok)
      /\ Promise!Replies(op, k, IF ok THEN "ok" ELSE "error")
  BY <1>4 DEF EntryIs
<1> HIDE DEF new
<1>9. QED
  BY <1>2, <1>3, <1>5, <1>6, <1>7, <1>8 DEF Promise!Overwrite

(* Each request, as a step of the abstract table. *)
RefInv == ShapeInv /\ RowsFit

(* A request that finds nothing to do leaves the table as it is. *)
LEMMA IdleTable ==
  ASSUME StorageInv, UNCHANGED <<keys, size>>, NoStore
  PROVE  Table' = Table
<1>1. Table' = [k \in DOMAIN keys' |-> Table[k]]
  BY UnchangedIsPruned, PrunedTable
<1>2. DOMAIN Table = DOMAIN keys /\ Table = [k \in DOMAIN keys |-> Table[k]]
  BY DEF Table
<1>3. QED
  BY <1>1, <1>2

(* A row that is gone is swept away, or taken out. *)
LEMMA GoneTable ==
  ASSUME StorageInv, NEW k \in Key, Gone(k), NoStore
  PROVE  /\ Table' = [j \in DOMAIN keys' |-> Table[j]]
         /\ DOMAIN Table = DOMAIN keys /\ k \in DOMAIN keys /\ k \notin DOMAIN keys'
         /\ DOMAIN keys' \subseteq DOMAIN keys
         /\ \A j \in DOMAIN keys : (~Dead(keys[j]) /\ j # k) => j \in DOMAIN keys'
  BY PrunedTable DEF Gone, Pruned, Spares, Table

LEMMA InsertRowImplements ==
  ASSUME ReadsBack, RefInv, RowsFit', NEW k \in Key, NEW given \in Given, InsertRow(k, given)
  PROVE  /\ reply'.op = "insert" /\ reply'.id = k /\ now' = now
         /\ \/ Promise!Create("insert", k, given)
            \/ k \in DOMAIN Table /\ Table' = Table /\ Promise!Replies("insert", k, "duplicate")
<1>1. ShapeInv /\ StorageInv /\ FullInv
  BY DEF RefInv, ShapeInv, StorageInv
<1>2. /\ IInv' /\ now' = now
      /\ \/ StoredRow("insert", k, Source(given, InsertFill), TRUE)
         \/ k \in DOMAIN keys /\ UNCHANGED <<keys, size>> /\ NoStore /\ Answers("insert", k, "duplicate")
         \/ NoRoom("insert", k)
  BY <1>1, InsertRowIs
<1>3. \E out : Answers("insert", k, out)
  BY DEF InsertRow, StoreRow
<1>4. reply'.op = "insert" /\ reply'.id = k
  BY <1>3 DEF Answers
<1>5. CASE StoredRow("insert", k, Source(given, InsertFill), TRUE)
  BY <1>1, <1>2, <1>4, <1>5, CreateIs
<1>6. CASE k \in DOMAIN keys /\ UNCHANGED <<keys, size>> /\ NoStore /\ Answers("insert", k, "duplicate")
  <2>1. Table' = Table
    BY <1>1, <1>6, IdleTable
  <2>2. k \in DOMAIN Table
    BY <1>6 DEF Table
  <2>3. Promise!Replies("insert", k, "duplicate")
    BY <1>6 DEF Answers, Promise!Replies
  <2>4. QED
    BY <1>2, <1>4, <2>1, <2>2, <2>3
<1>7. CASE NoRoom("insert", k)
  BY <1>1, <1>2, <1>4, <1>7, RefusedIs
<1>8. QED
  BY <1>2, <1>5, <1>6, <1>7

LEMMA InsertImplements ==
  ASSUME ReadsBack, RefInv, RowsFit', NEW v \in RequestId, NEW given \in Given, InsertData(v, given)
  PROVE  Promise!AInsert
<1>1. autoInc \in Key
  BY DEF RefInv, ShapeInv, StorageInv, StorageShape
<1>2. CASE v \notin {NoId, BadId} /\ UNCHANGED autoInc /\ InsertRow(GetRowId(v), given)
  <2> DEFINE k == GetRowId(v)
  <2>1. k \in Key
    BY <1>2, RowIds
  <2> HIDE DEF k
  <2>2. /\ reply'.op = "insert" /\ reply'.id = k /\ now' = now
        /\ \/ Promise!Create("insert", k, given)
           \/ k \in DOMAIN Table /\ Table' = Table /\ Promise!Replies("insert", k, "duplicate")
    BY <1>2, <2>1, InsertRowImplements DEF k
  <2>3. k \in {reply'.id} \cap Key
    BY <2>1, <2>2
  <2>4. QED
    BY <1>2, <2>2, <2>3 DEF Promise!AInsert
<1>3. CASE Serial /\ autoInc' = IncreaseAutoInc /\ InsertRow(IncreaseAutoInc, given)
  <2>1. autoInc' = (autoInc + 1) % IdRange /\ autoInc' \in Key /\ InsertRow(autoInc', given)
    BY <1>1, <1>3, RowIds DEF IncreaseAutoInc
  <2> PICK k : k = autoInc'
    OBVIOUS
  <2>2. k \in Key /\ InsertRow(k, given)
    BY <2>1
  <2>3. /\ reply'.op = "insert" /\ now' = now
        /\ \/ Promise!Create("insert", k, given)
           \/ k \in DOMAIN Table /\ Table' = Table /\ Promise!Replies("insert", k, "duplicate")
    BY <2>2, InsertRowImplements
  <2>4. QED
    BY <1>3, <2>1, <2>3 DEF Promise!AInsert
<1>4. QED
  BY <1>2, <1>3 DEF InsertData

LEMMA UpdateImplements ==
  ASSUME ReadsBack, RefInv, NEW v \in RequestId, NEW given \in Given, UpdateData(v, given)
  PROVE  Promise!AUpdate
<1> DEFINE k == GetRowId(v)
           src == Source(given, UpdateFill)
<1>1. ShapeInv /\ StorageInv /\ FullInv
  BY DEF RefInv, ShapeInv, StorageInv
<1>2. /\ k \in Key /\ UNCHANGED autoInc /\ Update(k)
      /\ \/ ret'.out = "row" /\ StoreRow("update", k, src, FALSE)
         \/ ret'.out = "null" /\ NoStore /\ Answers("update", k, "zero")
  BY RowIds DEF UpdateData
<1> HIDE DEF k, src
<1>3. /\ IInv' /\ now' = now
      /\ \/ StoredRow("update", k, src, FALSE)
         \/ k \notin DOMAIN keys /\ UNCHANGED <<keys, size>> /\ NoStore /\ Answers("update", k, "zero")
  BY <1>1, <1>2, UpdateIs
<1>4. \E out : Answers("update", k, out)
  BY <1>2 DEF StoreRow
<1>5. reply'.op = "update" /\ k \in {reply'.id} \cap Key
  BY <1>2, <1>4 DEF Answers
<1>6. CASE StoredRow("update", k, src, FALSE)
  <2>1. Promise!Overwrite("update", k, given, UpdateFill)
    BY <1>1, <1>2, <1>3, <1>6, OverwriteIs DEF src
  <2>2. QED
    BY <1>2, <1>3, <1>5, <2>1 DEF Promise!AUpdate
<1>7. CASE k \notin DOMAIN keys /\ UNCHANGED <<keys, size>> /\ NoStore /\ Answers("update", k, "zero")
  <2>1. Table' = Table /\ DOMAIN Table = DOMAIN keys /\ Table = [j \in DOMAIN keys |-> Table[j]]
    BY <1>1, <1>7, IdleTable DEF Table
  <2>2. Table' \in Promise!Swept /\ k \notin DOMAIN Table'
    BY <1>7, <2>1, SweptIs
  <2>3. k \notin Promise!Live
    BY <1>7, LiveIs
  <2>4. Promise!Replies("update", k, "zero")
    BY <1>7 DEF Answers, Promise!Replies
  <2>5. QED
    BY <1>2, <1>3, <1>5, <2>2, <2>3, <2>4 DEF Promise!AUpdate
<1>8. QED
  BY <1>3, <1>6, <1>7

LEMMA ReplaceImplements ==
  ASSUME ReadsBack, RefInv, RowsFit', NEW v \in RequestId, NEW given \in Given, ReplaceData(v, given)
  PROVE  Promise!AReplace
<1> DEFINE k == GetRowId(v)
           src == Source(given, InsertFill)
<1>1. ShapeInv /\ StorageInv /\ FullInv
  BY DEF RefInv, ShapeInv, StorageInv
<1>2. /\ k \in Key /\ UNCHANGED autoInc /\ Replace(k)
      /\ \/ ret'.out = "row" /\ StoreRow("replace", k, src, k \notin DOMAIN keys)
         \/ ret'.out = "full" /\ NoStore /\ Answers("replace", k, "full")
  BY RowIds DEF ReplaceData
<1> HIDE DEF k, src
<1>3. /\ IInv' /\ now' = now
      /\ StoredRow("replace", k, src, k \notin DOMAIN keys) \/ NoRoom("replace", k)
  BY <1>1, <1>2, ReplaceIs
<1>4. \E out : Answers("replace", k, out)
  BY <1>2 DEF StoreRow
<1>5. reply'.op = "replace" /\ k \in {reply'.id} \cap Key
  BY <1>2, <1>4 DEF Answers
<1>6. Promise!Create("replace", k, given) \/ Promise!Overwrite("replace", k, given, InsertFill)
  <2>1. CASE NoRoom("replace", k)
    BY <1>1, <1>2, <2>1, RefusedIs
  <2>2. CASE StoredRow("replace", k, src, k \notin DOMAIN keys) /\ k \notin DOMAIN keys
    <3>1. (k \notin DOMAIN keys) = TRUE
      BY <2>2
    <3>2. StoredRow("replace", k, src, TRUE)
      BY <2>2, <3>1
    <3>3. QED
      BY <1>1, <1>2, <1>3, <3>2, CreateIs DEF src
  <2>3. CASE StoredRow("replace", k, src, k \notin DOMAIN keys) /\ k \in DOMAIN keys
    <3>1. (k \notin DOMAIN keys) = FALSE
      BY <2>3
    <3>2. StoredRow("replace", k, src, FALSE)
      BY <2>3, <3>1
    <3>3. QED
      BY <1>1, <1>2, <1>3, <3>2, OverwriteIs DEF src
  <2>4. QED
    BY <1>3, <2>1, <2>2, <2>3
<1>7. QED
  BY <1>2, <1>3, <1>5, <1>6 DEF Promise!AReplace

LEMMA DeleteImplements ==
  ASSUME RefInv, NEW v \in RequestId, DeleteData(v)
  PROVE  Promise!ADelete
<1> DEFINE k == GetRowId(v)
<1>1. StorageInv /\ FullInv
  BY DEF RefInv, ShapeInv, StorageInv
<1>2. /\ k \in Key /\ UNCHANGED autoInc /\ Erase(k) /\ NoStore
      /\ Answers("delete", k, IF ret'.out = "true" THEN "ok" ELSE "zero")
  BY RowIds DEF DeleteData
<1> HIDE DEF k
<1>3. /\ now' = now
      /\ \/ Gone(k) /\ ret'.out = "true"
         \/ k \notin DOMAIN keys /\ UNCHANGED <<keys, size>> /\ ret'.out = "false"
  BY <1>1, <1>2, EraseIs
<1>4. reply'.op = "delete" /\ k \in {reply'.id} \cap Key
  BY <1>2 DEF Answers
<1>5. CASE Gone(k) /\ ret'.out = "true"
  <2>1. /\ Table' = [j \in DOMAIN keys' |-> Table[j]]
        /\ DOMAIN Table = DOMAIN keys /\ k \in DOMAIN keys /\ k \notin DOMAIN keys'
        /\ DOMAIN keys' \subseteq DOMAIN keys
        /\ \A j \in DOMAIN keys : (~Dead(keys[j]) /\ j # k) => j \in DOMAIN keys'
    BY <1>1, <1>2, <1>5, GoneTable
  <2> DEFINE D == DOMAIN keys' \cup {k}
             t == [j \in D |-> Table[j]]
  <2>2. D \subseteq DOMAIN keys /\ (\A j \in DOMAIN keys : ~Dead(keys[j]) => j \in D) /\ D \ {k} = DOMAIN keys'
    BY <2>1
  <2> HIDE DEF D
  <2>3. t \in Promise!Swept
    BY <2>2, SweptIs
  <2>4. Table' = [j \in DOMAIN t \ {k} |-> t[j]]
    BY <2>1, <2>2
  <2> HIDE DEF t
  <2>5. Promise!Replies("delete", k, "ok")
    BY <1>2, <1>5 DEF Answers, Promise!Replies
  <2>6. QED
    BY <1>2, <1>3, <1>4, <2>1, <2>3, <2>4, <2>5 DEF Promise!ADelete
<1>6. CASE k \notin DOMAIN keys /\ UNCHANGED <<keys, size>> /\ ret'.out = "false"
  <2>1. Table' = Table /\ k \notin DOMAIN Table
    BY <1>1, <1>2, <1>6, IdleTable DEF Table
  <2>2. Promise!Replies("delete", k, "zero")
    BY <1>2, <1>6 DEF Answers, Promise!Replies
  <2>3. QED
    BY <1>2, <1>3, <1>4, <2>1, <2>2 DEF Promise!ADelete
<1>7. QED
  BY <1>3, <1>5, <1>6

LEMMA GetImplements ==
  ASSUME ReadsBack, RefInv, NEW v \in RequestId, GetData(v)
  PROVE  Promise!AGet
<1> DEFINE k == GetRowId(v)
           read == ReadRow(rows[keys[k].pos])
<1>1. StorageInv /\ FullInv /\ IInv /\ RowsOK /\ RowsShaped
  BY DEF RefInv, ShapeInv, StorageInv, StorageShape, FullInv
<1>2. /\ k \in Key /\ UNCHANGED autoInc /\ At(k) /\ NoStore
      /\ IF ret'.out = "null" \/ k = 0 THEN Answers("get", k, "zero")
         ELSE IF read.ok THEN reply' = [op |-> "get", id |-> k, out |-> "row", val |-> read.vals]
         ELSE Answers("get", k, "error")
  BY RowIds DEF GetData
<1> HIDE DEF k
<1>3. /\ now' = now
      /\ \/ k \in DOMAIN keys /\ ~Dead(keys[k]) /\ UNCHANGED <<keys, size>> /\ ret'.out = "row"
         \/ k \notin DOMAIN keys /\ UNCHANGED <<keys, size>> /\ ret'.out = "null"
         \/ Dead(keys[k]) /\ Gone(k) /\ ret'.out = "null"
  BY <1>1, <1>2, AtIs
<1>4. reply'.op = "get" /\ k \in {reply'.id} \cap Key
  BY <1>2 DEF Answers
<1>5. Table' \in Promise!Swept
  <2>1. CASE UNCHANGED <<keys, size>>
    <3>1. Table' = [j \in DOMAIN keys |-> Table[j]]
      BY <1>1, <1>2, <2>1, IdleTable DEF Table
    <3>2. QED
      BY <3>1, SweptIs
  <2>2. CASE Dead(keys[k]) /\ Gone(k)
    <3>1. /\ Table' = [j \in DOMAIN keys' |-> Table[j]]
          /\ DOMAIN keys' \subseteq DOMAIN keys
          /\ \A j \in DOMAIN keys : ~Dead(keys[j]) => j \in DOMAIN keys'
      BY <1>1, <1>2, <2>2, GoneTable
    <3>2. QED
      BY <3>1, SweptIs
  <2>3. QED
    BY <1>3, <2>1, <2>2
<1>6. k \in Promise!Live <=> ret'.out = "row"
  BY <1>3, LiveIs DEF Gone
<1>7. CASE ~(k \in Promise!Live /\ k # 0)
  <2>1. ret'.out = "null" \/ k = 0
    BY <1>3, <1>6, <1>7
  <2>2. Promise!Replies("get", k, "zero")
    BY <1>2, <2>1 DEF Answers, Promise!Replies
  <2>3. QED
    BY <1>2, <1>3, <1>4, <1>5, <1>7, <2>2 DEF Promise!AGet
<1>8. CASE k \in Promise!Live /\ k # 0
  <2>1. k \in DOMAIN keys /\ ret'.out # "null"
    BY <1>3, <1>6, <1>8
  <2>2. IF read.ok THEN reply' = [op |-> "get", id |-> k, out |-> "row", val |-> read.vals]
        ELSE Answers("get", k, "error")
    BY <1>2, <1>8, <2>1
  <2>3. Table[k].val = IF k \in torn THEN Torn ELSE read.vals
    BY <2>1 DEF Table
  <2>4. reply'.out \in {"row", "error"}
    BY <2>2 DEF Answers
  <2>5. k \notin torn => reply' = [op |-> "get", id |-> k, out |-> "row", val |-> Table[k].val]
    <3> SUFFICES ASSUME k \notin torn
                 PROVE  reply' = [op |-> "get", id |-> k, out |-> "row", val |-> Table[k].val]
      OBVIOUS
    <3>1. rows[keys[k].pos] \in Rows /\ Shaped(rows[keys[k].pos])
      BY <1>1, <2>1, RowOfKey DEF RowsShaped
    <3>2. read.ok
      BY <3>1, ReadWhole
    <3> HIDE DEF read
    <3>3. QED
      BY <2>2, <2>3, <3>2
  <2>6. k \notin torn => Table[k].val # Torn
    <3> SUFFICES ASSUME k \notin torn PROVE Table[k].val # Torn
      OBVIOUS
    <3>1. rows[keys[k].pos] \in Rows /\ Shaped(rows[keys[k].pos])
      BY <1>1, <2>1, RowOfKey DEF RowsShaped
    <3>2. read.vals \in [DOMAIN Fields -> Seq(Nat)]
      BY <3>1, ReadWhole, ReadType
    <3> HIDE DEF read
    <3>3. QED
      BY <2>3, <3>2, RowAssumption
  <2> HIDE DEF read
  <2>7. IF Table[k].val = Torn THEN reply'.out \in {"row", "error"}
        ELSE reply' = [op |-> "get", id |-> k, out |-> "row", val |-> Table[k].val]
    BY <2>3, <2>4, <2>5, <2>6
  <2>8. QED
    BY <1>2, <1>3, <1>4, <1>5, <1>8, <2>7 DEF Promise!AGet
<1>9. QED
  BY <1>7, <1>8

LEMMA NextRefInv == ASSUME ReadsBack, RefInv, [StorageNext]_svars PROVE RefInv'
<1>1. ShapeInv'
  BY NextShapeInv DEF RefInv, ReadsBack
<1>2. [Next]_vars
  <2>1. StorageInv
    BY DEF RefInv, ShapeInv
  <2>2. CASE (Tick /\ UNCHANGED storageVars) \/ UNCHANGED svars
    BY <2>2 DEF Next, svars
  <2>3. ASSUME NEW v \in RequestId, RefuseRowId(v) PROVE UNCHANGED vars
    BY <2>3 DEF RefuseRowId
  <2>4. QED
    BY <2>1, <2>2, <2>3, InsertCases, UpdateCases, ReplaceCases, DeleteCases, GetCases DEF StorageNext
<1>3. RowsFit'
  BY <1>2, NextFits DEF RefInv, ShapeInv, StorageInv, FullInv, FitInv
<1>4. QED
  BY <1>1, <1>3 DEF RefInv

LEMMA NextImplements == ASSUME ReadsBack, RefInv, [StorageNext]_svars PROVE [Promise!ANext]_Promise!tvars
<1>1. StorageInv /\ RowsFit' /\ torn \subseteq DOMAIN keys
  BY NextRefInv DEF RefInv, ShapeInv, StorageInv, StorageShape
<1>2. CASE UNCHANGED svars
  <2>1. Table' = Table
    BY <1>2 DEF svars, vars, mapVars, storageVars, Table
  <2>2. QED
    BY <1>2, <2>1 DEF Promise!tvars, svars, vars, storageVars
<1>3. CASE Tick /\ UNCHANGED storageVars
  <2>1. Table' = Table
    BY <1>3 DEF Tick, mapVars, storageVars, Table
  <2>2. Promise!ATick
    BY <1>3, <2>1 DEF Promise!ATick, Tick, storageVars
  <2>3. QED
    BY <2>2 DEF Promise!ANext
<1>4. ASSUME NEW v \in RequestId, RefuseRowId(v) PROVE Promise!ARefuse
  <2>1. Table' = Table
    BY <1>4 DEF RefuseRowId, vars, mapVars, Table
  <2>2. QED
    BY <1>4, <2>1 DEF RefuseRowId, vars, Answers, Promise!ARefuse
<1>5. ASSUME NEW v \in RequestId,
             \/ \E given \in Given : InsertData(v, given) \/ UpdateData(v, given) \/ ReplaceData(v, given)
             \/ DeleteData(v) \/ GetData(v) \/ RefuseRowId(v)
      PROVE  Promise!ANext
  BY <1>1, <1>4, <1>5, InsertImplements, UpdateImplements, ReplaceImplements, DeleteImplements,
     GetImplements DEF Promise!ANext
<1>6. QED
  BY <1>2, <1>3, <1>5 DEF StorageNext

LEMMA InitImplements == ASSUME StorageInit PROVE Promise!AInit
<1>1. Init /\ autoInc = 0 /\ reply = [op |-> "none", id |-> 0, out |-> "ok", val |-> NoRow]
  BY DEF StorageInit
<1>2. DOMAIN keys = {} /\ now = 1
  BY <1>1 DEF Init
<1>3. Table = <<>>
  BY <1>2 DEF Table
<1>4. QED
  BY <1>1, <1>2, <1>3 DEF Promise!AInit

(* A table in memory is a map from row ids to rows with a time of expiry:  *)
(* for every sequence of requests the positions, their recycling, the lazy *)
(* expiry and the rows of cells give each client what AbstractTable does.  *)
(* The table must be able to read back what it writes, and to hold no more *)
(* rows at first than it may ever hold.                                    *)
THEOREM StorageKeepsPromise ==
  ASSUME ReadsBack, InitialCapacity <= MaxSize
  PROVE  StorageSpec => ImplementsTable
<1>1. ASSUME StorageInit PROVE RefInv
  <2>1. Init /\ ShapeInv
    BY <1>1, InitShapeInv DEF StorageInit
  <2>2. RowsFit
    BY <2>1, SizeAssumption DEF Init, RowsFit, InitialCapacity
  <2>3. QED
    BY <2>1, <2>2 DEF RefInv
<1>2. RefInv /\ [StorageNext]_svars => RefInv'
  BY NextRefInv
<1>3. StorageInit => Promise!AInit
  BY InitImplements
<1>4. RefInv /\ [StorageNext]_svars => [Promise!ANext]_Promise!tvars
  BY NextImplements
<1>5. QED
  BY <1>1, <1>2, <1>3, <1>4, PTL DEF StorageSpec, ImplementsTable, Promise!ASpec
=============================================================================
