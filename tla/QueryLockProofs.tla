-------------------------- MODULE QueryLockProofs --------------------------
(***************************************************************************)
(* Proofs about QueryLock, for every set of threads, databases and keys.   *)
(***************************************************************************)
EXTENDS QueryLock, FiniteSetTheorems, SequenceTheorems, TLAPS

(* A thread that has found its database has the one in the cache. *)
Has(t) == Inside(t) \/ thread[t].at \in {"table", "lock"}
HasObject ==
  \A t \in Thread : Has(t) => thread[t].obj \in DOMAIN objects /\ databases[thread[t].req.db] = thread[t].obj

(* The threads that read an object, under its lock. *)
Readers(o) == {t \in Thread : Inside(t) /\ thread[t].obj = o /\ Reading(t)}

(* An object's lock counts at least those who read and names who writes;   *)
(* it is exact unless the lock was leaked.                                 *)
Locked(o) ==
  /\ objects[o].writer # NoThread => objects[o].shared = 0
  /\ \A t \in Thread : Inside(t) /\ thread[t].obj = o /\ ~Reading(t) => objects[o].writer = t
  /\ Cardinality(Readers(o)) <= objects[o].shared
  /\ o \notin leaked =>
       /\ objects[o].shared = Cardinality(Readers(o))
       /\ objects[o].writer # NoThread =>
            \E t \in Thread : /\ t = objects[o].writer /\ Inside(t)
                              /\ thread[t].obj = o /\ ~Reading(t)

LocksHold == \A o \in DOMAIN objects : Locked(o)

IInv == TypeOK /\ HasObject /\ LocksHold

(* Sets of readers are finite, so that they can be counted. *)
LEMMA ReadersFinite ==
  \A o : IsFiniteSet(Readers(o)) /\ Cardinality(Readers(o)) \in Nat
<1> SUFFICES ASSUME NEW o PROVE IsFiniteSet(Readers(o)) /\ Cardinality(Readers(o)) \in Nat
  OBVIOUS
<1>1. Readers(o) \in SUBSET Thread
  BY DEF Readers
<1>2. QED
  BY <1>1, ThreadAssumption, FS_Subset, FS_CardinalityType

(* Who is inside, in which object and as what. *)
SameSides ==
  \A u \in Thread :
    /\ Inside(u)' <=> Inside(u)
    /\ Inside(u) => thread'[u].obj = thread[u].obj /\ (Reading(u)' <=> Reading(u))

(* No lock changes, and a new object is not locked. *)
SameLocks ==
  \A o \in DOMAIN objects' :
    IF o \in DOMAIN objects
    THEN objects'[o].shared = objects[o].shared /\ objects'[o].writer = objects[o].writer
    ELSE objects'[o].shared = 0 /\ objects'[o].writer = NoThread

(* A step that neither locks nor unlocks keeps the locks as they should be. *)
LEMMA LocksStay ==
  ASSUME IInv, SameSides, SameLocks, leaked' = leaked
  PROVE  LocksHold'
<1> SUFFICES ASSUME NEW o \in DOMAIN objects' PROVE Locked(o)'
  BY DEF LocksHold
<1>1. Readers(o)' = Readers(o)
  BY DEF Readers, SameSides
<1>2. CASE o \in DOMAIN objects
  <2>1. Locked(o)
    BY <1>2 DEF IInv, LocksHold
  <2>2. objects'[o].shared = objects[o].shared /\ objects'[o].writer = objects[o].writer
    BY <1>2 DEF SameLocks
  <2>3. QED
    BY <1>1, <2>1, <2>2 DEF Locked, SameSides
<1>3. CASE o \notin DOMAIN objects
  <2>1. \A t \in Thread : Inside(t) => thread[t].obj # o
    BY <1>3 DEF IInv, HasObject, Has
  <2>2. Readers(o) = {}
    BY <2>1 DEF Readers
  <2>3. objects'[o].shared = 0 /\ objects'[o].writer = NoThread
    BY <1>3 DEF SameLocks
  <2>4. QED
    BY <1>1, <2>1, <2>2, <2>3, FS_EmptySet DEF Locked, SameSides
<1>4. QED
  BY <1>2, <1>3

(* Only thread t moves, to the place p, and keeps its request. *)
Moves(t, p, o) ==
  /\ DOMAIN thread' = Thread
  /\ \A u \in Thread : u # t => thread'[u] = thread[u]
  /\ DOMAIN thread'[t] = {"at", "req", "obj", "got", "old", "made"}
  /\ thread'[t].at = p /\ thread'[t].obj = o /\ thread'[t].req = thread[t].req

(* Go moves the thread and keeps what it knows. *)
LEMMA GoMoves ==
  ASSUME TypeOK, NEW t \in Thread, NEW p, Go(t, p)
  PROVE  Moves(t, p, thread[t].obj)
  BY DEF TypeOK, Moves, Go

(* So does Fail, which moves it to its reply. *)
LEMMA FailMoves ==
  ASSUME TypeOK, NEW t \in Thread, Fail(t)
  PROVE  Moves(t, "reply", thread[t].obj)
  BY DEF TypeOK, Moves, Fail

(* So does Ends, which moves it to the unlocking. *)
LEMMA EndsMoves ==
  ASSUME TypeOK, NEW t \in Thread, NEW got, Ends(t, got)
  PROVE  Moves(t, "unlock", thread[t].obj)
  BY DEF TypeOK, Moves, Ends

InsidePlace == {"row", "erase", "read1", "read2", "write1", "write2", "unlock", "lost"}

(* What is in the objects changes, but not their locks. *)
RowsChange ==
  /\ objects' \in Seq(Object) /\ Len(objects') = Len(objects)
  /\ \A o \in DOMAIN objects :
       objects'[o].shared = objects[o].shared /\ objects'[o].writer = objects[o].writer

(* A thread that stays on its side of the lock keeps the invariant. *)
LEMMA MovesKeep ==
  ASSUME IInv, NEW t \in Thread, NEW p \in Place, Moves(t, p, thread[t].obj), RowsChange,
         thread[t].at # "idle", p # "idle",
         p \in InsidePlace <=> Inside(t),
         p \in {"table", "lock"} => Has(t),
         loadAll' = loadAll, databases' = databases, leaked' = leaked,
         damaged' \subseteq DOMAIN objects
  PROVE  IInv'
<1>1. DOMAIN objects' = DOMAIN objects
  BY DEF RowsChange, IInv, TypeOK
<1>2. TypeOK'
  BY <1>1 DEF IInv, TypeOK, Moves, RowsChange
<1>3. HasObject'
  BY <1>1 DEF IInv, TypeOK, HasObject, Has, Inside, Moves, InsidePlace
<1>4. SameSides
  BY DEF SameSides, Inside, Reading, Moves, InsidePlace
<1>5. SameLocks
  BY <1>1 DEF SameLocks, RowsChange
<1>6. QED
  BY <1>2, <1>3, <1>4, <1>5, LocksStay DEF IInv

(* Nothing happens to the objects. *)
LEMMA NoRowsChange ==
  ASSUME TypeOK, UNCHANGED objects
  PROVE  RowsChange
  BY DEF TypeOK, RowsChange

(* A row of the object a thread is in is set. *)
LEMMA SetRowChanges ==
  ASSUME TypeOK, NEW t \in Thread, thread[t].at # "idle", thread[t].obj \in DOMAIN objects,
         NEW st \in {"none", "live", "dead"}, SetRow(t, st)
  PROVE  RowsChange
<1> DEFINE o == thread[t].obj
           k == thread[t].req.key
<1>1. objects[o] \in Object /\ k \in Key
  BY DEF TypeOK, Request
<1>2. [objects[o] EXCEPT !.keys[k] = st] \in Object
  BY <1>1 DEF Object
<1>3. objects' = [objects EXCEPT ![o] = [objects[o] EXCEPT !.keys[k] = st]]
  BY DEF SetRow
<1>4. objects' \in Seq(Object) /\ Len(objects') = Len(objects)
  BY <1>2, <1>3 DEF TypeOK
<1>5. QED
  BY <1>1, <1>3, <1>4 DEF TypeOK, RowsChange, Object

(* Looking for the table changes no object. *)
LEMMA TableKeeps ==
  ASSUME IInv, NEW t \in Thread, Table(t)
  PROVE  IInv'
<1>1. RowsChange
  BY NoRowsChange DEF Table, IInv
<1>2. CASE Go(t, "lock")
  <2>1. Moves(t, "lock", thread[t].obj)
    BY <1>2, GoMoves DEF IInv
  <2>2. QED
    BY <1>1, <2>1, MovesKeep DEF Table, Place, InsidePlace, Inside, Has, IInv, TypeOK
<1>3. CASE Fail(t)
  <2>1. Moves(t, "reply", thread[t].obj)
    BY <1>3, FailMoves DEF IInv
  <2>2. QED
    BY <1>1, <2>1, MovesKeep DEF Table, Place, InsidePlace, Inside, Has, IInv, TypeOK
<1>4. QED
  BY <1>2, <1>3 DEF Table

(* Looking for the row changes no object. *)
LEMMA LookKeeps ==
  ASSUME IInv, NEW t \in Thread, Look(t)
  PROVE  IInv'
<1>1. RowsChange
  BY NoRowsChange DEF Look, IInv
<1>2. \E p \in {"unlock", "erase", "read1"} : Moves(t, p, thread[t].obj)
  BY GoMoves, EndsMoves DEF IInv, Look
<1>3. QED
  BY <1>1, <1>2, MovesKeep DEF Look, Place, InsidePlace, Inside, IInv, TypeOK

(* Erasing an expired row changes rows, but no lock. *)
LEMMA EraseKeeps ==
  ASSUME IInv, NEW t \in Thread, Erase(t)
  PROVE  IInv'
<1>1. thread[t].obj \in DOMAIN objects
  BY DEF IInv, HasObject, Has, Inside, Erase
<1>2. RowsChange
  BY <1>1, SetRowChanges DEF Erase, IInv
<1>3. Moves(t, "unlock", thread[t].obj)
  BY EndsMoves DEF Erase, IInv
<1>4. damaged' \subseteq DOMAIN objects
  BY <1>1 DEF Erase, IInv, TypeOK
<1>5. QED
  BY <1>2, <1>3, <1>4, MovesKeep DEF Erase, Place, InsidePlace, Inside

(* Reading the first field changes no object. *)
LEMMA Read1Keeps ==
  ASSUME IInv, NEW t \in Thread, Read1(t)
  PROVE  IInv'
<1>1. Moves(t, "read2", thread[t].obj)
  BY DEF Read1, IInv, TypeOK, Moves
<1>2. QED
  BY <1>1, NoRowsChange, MovesKeep DEF Read1, Place, InsidePlace, Inside, IInv, TypeOK

(* Reading the second field changes no object. *)
LEMMA Read2Keeps ==
  ASSUME IInv, NEW t \in Thread, Read2(t)
  PROVE  IInv'
<1>1. Moves(t, "unlock", thread[t].obj)
  BY EndsMoves DEF Read2, IInv
<1>2. QED
  BY <1>1, NoRowsChange, MovesKeep DEF Read2, Place, InsidePlace, Inside, IInv, TypeOK

(* Finding or making the row to write changes rows, but no lock. *)
LEMMA ChangeKeeps ==
  ASSUME IInv, NEW t \in Thread, Change(t)
  PROVE  IInv'
<1>1. thread[t].obj \in DOMAIN objects
  BY DEF IInv, HasObject, Has, Inside, Change
<1>2. RowsChange
  <2>1. CASE UNCHANGED objects
    BY <2>1, NoRowsChange DEF IInv
  <2>2. CASE SetRow(t, "none") \/ SetRow(t, "live")
    BY <1>1, <2>2, SetRowChanges DEF IInv, Change
  <2>3. QED
    BY <2>1, <2>2 DEF Change
<1>3. \E p \in {"unlock", "write1"} : Moves(t, p, thread[t].obj)
  <2>1. CASE \E got : Ends(t, got)
    BY <2>1, EndsMoves DEF IInv
  <2>2. CASE \E old : thread' = [thread EXCEPT ![t].at = "write1", ![t].old = old]
    BY <2>2 DEF IInv, TypeOK, Moves
  <2>3. QED
    BY <2>1, <2>2 DEF Change
<1>4. QED
  BY <1>2, <1>3, MovesKeep DEF Change, Place, InsidePlace, Inside, IInv, TypeOK

(* A cell of the object a thread is in is stored. *)
LEMMA StoreChanges ==
  ASSUME TypeOK, NEW t \in Thread, thread[t].at # "idle", thread[t].obj \in DOMAIN objects,
         NEW i \in {1, 2},
         objects' = [objects EXCEPT ![thread[t].obj].mem[thread[t].req.key][i] = t]
  PROVE  RowsChange
<1> DEFINE o == thread[t].obj
           k == thread[t].req.key
           old == objects[o].mem[k]
           new == [old EXCEPT ![i] = t]
<1>1. objects[o] \in Object /\ k \in Key
  BY DEF TypeOK, Request
<1>2. old \in [1..2 -> Cell]
  BY <1>1 DEF Object
<1>3. new \in [1..2 -> Cell]
  BY <1>2 DEF Cell
<1>4. [objects[o] EXCEPT !.mem[k] = new] \in Object
  BY <1>1, <1>3 DEF Object
<1>5. objects' = [objects EXCEPT ![o] = [objects[o] EXCEPT !.mem[k] = new]]
  OBVIOUS
<1>6. objects' \in Seq(Object) /\ Len(objects') = Len(objects)
  BY <1>4, <1>5 DEF TypeOK
<1>7. [objects[o] EXCEPT !.mem[k] = new].shared = objects[o].shared
      /\ [objects[o] EXCEPT !.mem[k] = new].writer = objects[o].writer
  BY <1>1 DEF Object
<1>8. objects'[o].shared = objects[o].shared /\ objects'[o].writer = objects[o].writer
  BY <1>5, <1>7 DEF TypeOK
<1>9. \A q \in DOMAIN objects : q # o => objects'[q] = objects[q]
  BY <1>5 DEF TypeOK
<1>10. QED
  BY <1>6, <1>8, <1>9 DEF RowsChange

(* Storing the first field changes rows, but no lock. *)
LEMMA Write1Keeps ==
  ASSUME IInv, NEW t \in Thread, Write1(t)
  PROVE  IInv'
<1>1. RowsChange
  BY StoreChanges DEF IInv, HasObject, Has, Inside, Write1
<1>2. Moves(t, "write2", thread[t].obj)
  BY GoMoves DEF Write1, IInv
<1>3. QED
  BY <1>1, <1>2, MovesKeep DEF Write1, Place, InsidePlace, Inside, IInv, TypeOK

(* Storing or refusing the second field changes rows, but no lock. *)
LEMMA Write2Keeps ==
  ASSUME IInv, NEW t \in Thread, Write2(t)
  PROVE  IInv'
<1>1. RowsChange
  BY StoreChanges, NoRowsChange DEF IInv, HasObject, Has, Inside, Write2
<1>2. Moves(t, "unlock", thread[t].obj)
  BY EndsMoves DEF Write2, IInv
<1>3. QED
  BY <1>1, <1>2, MovesKeep DEF Write2, Place, InsidePlace, Inside, IInv, TypeOK

(* Thread t, which is not inside, becomes h, which is not inside either. *)
Becomes(t, h) ==
  /\ ~Inside(t)
  /\ thread' = [thread EXCEPT ![t] = h]
  /\ DOMAIN h = {"at", "req", "obj", "got", "old", "made"}
  /\ h.at \in Place \ InsidePlace
  /\ h.at # "idle" => h.req \in Request

(* So it keeps the invariant, if it only has what is in the cache. *)
LEMMA OutsideKeeps ==
  ASSUME IInv, NEW t \in Thread, NEW h, Becomes(t, h),
         UNCHANGED <<loadAll, databases, objects, damaged, leaked>>,
         h.obj \in 0..Len(objects),
         h.at \in {"table", "lock"} => h.obj \in DOMAIN objects /\ databases[h.req.db] = h.obj
  PROVE  IInv'
<1>1. TypeOK'
  BY DEF IInv, TypeOK, Becomes
<1>2. HasObject'
  BY DEF IInv, TypeOK, HasObject, Has, Inside, Becomes, InsidePlace
<1>3. SameSides
  BY DEF IInv, TypeOK, SameSides, Inside, Reading, Becomes, InsidePlace
<1>4. SameLocks
  BY DEF SameLocks
<1>5. QED
  BY <1>1, <1>2, <1>3, <1>4, LocksStay DEF IInv

(* A thread that takes a request is not inside yet. *)
LEMMA CallKeeps ==
  ASSUME IInv, NEW t \in Thread, Call(t)
  PROVE  IInv'
<1>1. PICK r \in Asked :
        thread' = [thread EXCEPT ![t] = [at |-> "find", req |-> r, obj |-> 0, got |-> <<>>,
                                         old |-> <<>>, made |-> thread[t].made + 1]]
  BY DEF Call
<1> DEFINE h == [at |-> "find", req |-> r, obj |-> 0, got |-> <<>>,
                 old |-> <<>>, made |-> thread[t].made + 1]
<1>2. Becomes(t, h)
  BY <1>1 DEF Call, Becomes, Inside, Place, InsidePlace, Asked
<1>3. h.obj \in 0..Len(objects)
  BY DEF IInv, TypeOK
<1>4. QED
  BY <1>2, <1>3, OutsideKeeps DEF Call

(* A thread that replies is inside no more. *)
LEMMA ReplyKeeps ==
  ASSUME IInv, NEW t \in Thread, Reply(t)
  PROVE  IInv'
<1> DEFINE h == [at |-> "idle", req |-> <<>>, obj |-> 0, got |-> <<>>,
                 old |-> <<>>, made |-> thread[t].made]
<1>1. Becomes(t, h)
  BY DEF Reply, Idle, Becomes, Inside, Place, InsidePlace
<1>2. h.obj \in 0..Len(objects)
  BY DEF IInv, TypeOK
<1>3. QED
  BY <1>1, <1>2, OutsideKeeps DEF Reply

(* A database found in the cache is the one the cache names. *)
LEMMA FindKeeps ==
  ASSUME IInv, NEW t \in Thread, Find(t)
  PROVE  IInv'
<1> DEFINE o == databases[thread[t].req.db]
           h == [thread[t] EXCEPT !.at = IF loadAll THEN "table" ELSE "load", !.obj = o]
<1>1. CASE loadAll /\ o = 0
  <2>1. Moves(t, "reply", thread[t].obj)
    BY <1>1, FailMoves DEF IInv, Find
  <2>2. QED
    BY <2>1, NoRowsChange, MovesKeep DEF Find, Place, InsidePlace, Inside, IInv, TypeOK
<1>2. CASE ~(loadAll /\ o = 0)
  <2>1. o \in 0..Len(objects)
    BY DEF IInv, TypeOK, Find, Request
  <2>2. thread' = [thread EXCEPT ![t] = h]
    BY <1>2 DEF Find
  <2>3. /\ DOMAIN h = {"at", "req", "obj", "got", "old", "made"}
        /\ h.at = (IF loadAll THEN "table" ELSE "load") /\ h.obj = o /\ h.req = thread[t].req
    BY DEF IInv, TypeOK
  <2>4. Becomes(t, h)
    BY <2>2, <2>3 DEF Becomes, Find, IInv, TypeOK, Inside, Place, InsidePlace
  <2>5. h.at \in {"table", "lock"} => h.obj \in DOMAIN objects /\ databases[h.req.db] = h.obj
    BY <1>2, <2>1, <2>3 DEF IInv, TypeOK
  <2>6. QED
    BY <2>1, <2>3, <2>4, <2>5, OutsideKeeps DEF Find
<1>3. QED
  BY <1>1, <1>2

(* A row that expires changes no lock. *)
LEMMA ExpireKeeps ==
  ASSUME IInv, NEW o \in DOMAIN objects, NEW k \in Key, Expire(o, k)
  PROVE  IInv'
<1>1. objects[o] \in Object
  BY DEF IInv, TypeOK
<1> DEFINE new == [objects[o] EXCEPT !.keys[k] = "dead"]
<1>2. new \in Object /\ new.shared = objects[o].shared /\ new.writer = objects[o].writer
  BY <1>1 DEF Object
<1>3. objects' = [objects EXCEPT ![o] = new]
  BY DEF Expire
<1>4. objects' \in Seq(Object) /\ DOMAIN objects' = DOMAIN objects /\ Len(objects') = Len(objects)
  BY <1>2, <1>3 DEF IInv, TypeOK
<1>5. TypeOK' /\ HasObject'
  BY <1>4 DEF IInv, TypeOK, HasObject, Has, Inside, Expire
<1>6. SameLocks
  BY <1>2, <1>3, <1>4 DEF SameLocks, IInv, TypeOK
<1>7. SameSides
  BY DEF SameSides, Inside, Reading, Expire
<1>8. QED
  BY <1>5, <1>6, <1>7, LocksStay DEF IInv, Expire

(* A damaged map may hold anything, but changes no lock. *)
LEMMA HavocKeeps ==
  ASSUME IInv, NEW o \in damaged, NEW k \in Key, Havoc(o, k)
  PROVE  IInv'
<1>1. o \in DOMAIN objects /\ objects[o] \in Object /\ objects \in Seq(Object)
  BY DEF IInv, TypeOK
<1>2. PICK s \in {"none", "live", "dead"}, c \in [1..2 -> Cell] :
        objects' = [objects EXCEPT ![o].keys[k] = s, ![o].mem[k] = c]
  BY DEF Havoc
<1> DEFINE new == [objects[o] EXCEPT !.keys[k] = s, !.mem[k] = c]
<1>3. new \in Object /\ new.shared = objects[o].shared /\ new.writer = objects[o].writer
  BY <1>1 DEF Object
<1>4. objects' = [objects EXCEPT ![o] = new]
  BY <1>1, <1>2
<1> HIDE DEF new
<1>5. objects' \in Seq(Object) /\ DOMAIN objects' = DOMAIN objects /\ Len(objects') = Len(objects)
  BY <1>1, <1>3, <1>4
<1>6. TypeOK' /\ HasObject'
  BY <1>5 DEF IInv, TypeOK, HasObject, Has, Inside, Havoc
<1>7. SameLocks
  BY <1>3, <1>4, <1>5 DEF SameLocks, IInv, TypeOK
<1>8. SameSides
  BY DEF SameSides, Inside, Reading, Havoc
<1>9. QED
  BY <1>6, <1>7, <1>8, LocksStay DEF IInv, Havoc

(* A thread that is lost in a damaged map keeps its lock. *)
LEMMA LoseKeeps ==
  ASSUME IInv, NEW t \in Thread, Lose(t)
  PROVE  IInv'
<1>1. RowsChange
  BY NoRowsChange DEF Lose, IInv
<1>2. Moves(t, "lost", thread[t].obj)
  BY GoMoves DEF Lose, IInv
<1>3. QED
  BY <1>1, <1>2, MovesKeep DEF Lose, Place, InsidePlace, Inside, IInv, TypeOK

(* The object a thread opens is a new one. *)
LEMMA OpenKeeps ==
  ASSUME IInv, NEW t \in Thread, thread[t].at = "load", FoundAgain(t) = 0,
         objects' = Append(objects, Opened(thread[t].req.db)),
         databases' = [databases EXCEPT ![thread[t].req.db] =
                         IF @ = 0 THEN Len(objects) + 1 ELSE @],
         thread' = [thread EXCEPT ![t].at = "table", ![t].obj = Len(objects) + 1],
         UNCHANGED <<loadAll, damaged, leaked>>
  PROVE  IInv'
<1> DEFINE d == thread[t].req.db
           n == Len(objects) + 1
<1>1. d \in Db /\ databases[d] = 0
  BY DEF IInv, TypeOK, Request, FoundAgain
<1>2. /\ Opened(d) \in Object /\ Opened(d).shared = 0 /\ Opened(d).writer = NoThread
  <2>1. <<NoThread, NoThread>> \in [1..2 -> Cell]
    BY DEF Cell
  <2>2. QED
    BY <1>1, <2>1 DEF Opened, Object, Cell
<1>3. /\ objects' \in Seq(Object) /\ Len(objects') = n
      /\ \A o \in DOMAIN objects : objects'[o] = objects[o]
      /\ objects'[n] = Opened(d)
      /\ DOMAIN objects' = 1..n /\ DOMAIN objects = 1..Len(objects) /\ Len(objects) \in Nat
  BY <1>2 DEF IInv, TypeOK
<1>4. /\ databases' \in [Db -> 0..n] /\ databases'[d] = n
      /\ \A e \in Db : e # d => databases'[e] = databases[e]
  BY <1>1, <1>3 DEF IInv, TypeOK
<1>5. Moves(t, "table", n)
  BY DEF IInv, TypeOK, Moves
<1>6. TypeOK'
  BY <1>3, <1>4, <1>5 DEF IInv, TypeOK, Moves, Place
<1>7. HasObject'
  <2> SUFFICES ASSUME NEW u \in Thread, Has(u)'
               PROVE  /\ thread'[u].obj \in DOMAIN objects'
                      /\ databases'[thread'[u].req.db] = thread'[u].obj
    BY DEF HasObject
  <2>1. CASE u = t
    BY <1>3, <1>4, <1>5, <2>1 DEF Moves
  <2>2. CASE u # t
    <3>1. thread'[u] = thread[u] /\ Has(u)
      BY <1>5, <2>2 DEF Moves, Has, Inside
    <3>2. thread[u].obj \in DOMAIN objects /\ databases[thread[u].req.db] = thread[u].obj
      BY <3>1 DEF IInv, HasObject
    <3>3. thread[u].req.db # d
      BY <1>1, <1>3, <3>2
    <3>4. thread[u].req.db \in Db
      BY <3>1 DEF IInv, TypeOK, Has, Inside, Request
    <3>5. QED
      BY <1>3, <1>4, <3>1, <3>2, <3>3, <3>4
  <2>3. QED
    BY <2>1, <2>2
<1>8. SameSides
  BY <1>5 DEF SameSides, Inside, Reading, Moves
<1>9. SameLocks
  BY <1>2, <1>3 DEF SameLocks
<1>10. QED
  BY <1>6, <1>7, <1>8, <1>9, LocksStay DEF IInv

(* Looking again, or opening: either way the thread has what is cached. *)
LEMMA LoadKeeps ==
  ASSUME IInv, NEW t \in Thread, Load(t)
  PROVE  IInv'
<1>1. CASE FoundAgain(t) # 0
  <2> DEFINE h == [thread[t] EXCEPT !.at = "table", !.obj = FoundAgain(t)]
  <2>1. FoundAgain(t) \in 0..Len(objects) /\ FoundAgain(t) \in DOMAIN objects
    BY <1>1 DEF IInv, TypeOK, Load, Request, FoundAgain
  <2>2. thread' = [thread EXCEPT ![t] = h]
    BY <1>1 DEF Load
  <2>3. /\ DOMAIN h = {"at", "req", "obj", "got", "old", "made"}
        /\ h.at = "table" /\ h.obj = FoundAgain(t) /\ h.req = thread[t].req
    BY DEF IInv, TypeOK
  <2>4. Becomes(t, h)
    BY <2>2, <2>3 DEF Becomes, Load, IInv, TypeOK, Inside, Place, InsidePlace
  <2>5. h.obj \in DOMAIN objects /\ databases[h.req.db] = h.obj
    BY <2>1, <2>3 DEF IInv, TypeOK, FoundAgain
  <2>6. QED
    BY <1>1, <2>1, <2>3, <2>4, <2>5, OutsideKeeps DEF Load
<1>2. CASE FoundAgain(t) = 0 /\ Fail(t) /\ UNCHANGED <<databases, objects>>
  <2>1. Moves(t, "reply", thread[t].obj)
    BY <1>2, FailMoves DEF IInv
  <2>2. QED
    BY <1>2, <2>1, NoRowsChange, MovesKeep DEF Load, Place, InsidePlace, Inside, IInv, TypeOK
<1>3. CASE FoundAgain(t) = 0 /\ ~(Fail(t) /\ UNCHANGED <<databases, objects>>)
  BY <1>3, OpenKeeps DEF Load
<1>4. QED
  BY <1>1, <1>2, <1>3

(* Who is inside an object, and what its lock says, stays the same. *)
LEMMA OtherLocked ==
  ASSUME NEW q, Locked(q), q \in leaked' <=> q \in leaked,
         objects'[q].shared = objects[q].shared, objects'[q].writer = objects[q].writer,
         \A u \in Thread :
           /\ (Inside(u) /\ thread[u].obj = q)' <=> (Inside(u) /\ thread[u].obj = q)
           /\ Inside(u) /\ thread[u].obj = q => (Reading(u)' <=> Reading(u))
  PROVE  Locked(q)'
<1>1. Readers(q)' = Readers(q)
  BY DEF Readers
<1>2. QED
  BY <1>1 DEF Locked

(* The lock of the object that thread t has found is taken or given back,  *)
(* and t goes in or away; the rest is as it was.                           *)
Crosses(t, p, shared, writer) ==
  /\ DOMAIN thread' = Thread
  /\ \A u \in Thread : u # t => thread'[u] = thread[u]
  /\ DOMAIN thread'[t] = {"at", "req", "obj", "got", "old", "made"}
  /\ thread'[t].at = p
  /\ p = "row" => thread'[t].obj = thread[t].obj /\ thread'[t].req = thread[t].req
  /\ p = "idle" => thread'[t].obj = 0
  /\ objects' = [objects EXCEPT ![thread[t].obj] = [@ EXCEPT !.shared = shared, !.writer = writer]]
  /\ UNCHANGED <<loadAll, databases, damaged, leaked>>

(* A step over the border of a lock changes that lock and no other. *)
LEMMA CrossesTyped ==
  ASSUME IInv, NEW t \in Thread, NEW p \in {"row", "idle"}, NEW shared \in Nat, NEW writer \in Cell,
         Has(t), Crosses(t, p, shared, writer)
  PROVE  /\ TypeOK' /\ HasObject'
         /\ DOMAIN objects' = DOMAIN objects
         /\ objects'[thread[t].obj].shared = shared /\ objects'[thread[t].obj].writer = writer
         /\ \A q \in DOMAIN objects : q # thread[t].obj => Locked(q)'
<1> PICK o \in DOMAIN objects : o = thread[t].obj
  BY DEF IInv, HasObject
<1> DEFINE new == [objects[o] EXCEPT !.shared = shared, !.writer = writer]
<1>1. objects[o] \in Object
  BY DEF IInv, TypeOK
<1>2. new \in Object /\ new.shared = shared /\ new.writer = writer
  BY <1>1 DEF Object
<1>3. objects' = [objects EXCEPT ![o] = new]
  BY DEF Crosses
<1>4. /\ objects' \in Seq(Object) /\ DOMAIN objects' = DOMAIN objects /\ Len(objects') = Len(objects)
      /\ objects'[o] = new /\ \A q \in DOMAIN objects : q # o => objects'[q] = objects[q]
      /\ Len(objects) \in Nat
  BY <1>1, <1>2, <1>3 DEF IInv, TypeOK
<1>5. TypeOK'
  BY <1>4 DEF IInv, TypeOK, Crosses, Has, Inside, Place
<1>6. HasObject'
  BY <1>4 DEF IInv, TypeOK, HasObject, Crosses, Has, Inside
<1>7. ASSUME NEW q \in DOMAIN objects, q # o PROVE Locked(q)'
  <2>1. \A u \in Thread :
          /\ (Inside(u) /\ thread[u].obj = q)' <=> (Inside(u) /\ thread[u].obj = q)
          /\ Inside(u) /\ thread[u].obj = q => (Reading(u)' <=> Reading(u))
    <3> SUFFICES ASSUME NEW u \in Thread
                 PROVE  /\ (Inside(u) /\ thread[u].obj = q)' <=> (Inside(u) /\ thread[u].obj = q)
                        /\ Inside(u) /\ thread[u].obj = q => (Reading(u)' <=> Reading(u))
      OBVIOUS
    <3>1. CASE u = t
      <4>1. ~(Inside(t) /\ thread[t].obj = q)
        BY <1>7
      <4>2. ~(Inside(t) /\ thread[t].obj = q)'
        BY <1>7 DEF Crosses, Inside
      <4>3. QED
        BY <3>1, <4>1, <4>2
    <3>2. CASE u # t
      BY <3>2 DEF Crosses, Inside, Reading
    <3>3. QED
      BY <3>1, <3>2
  <2>2. objects'[q].shared = objects[q].shared /\ objects'[q].writer = objects[q].writer
    BY <1>4, <1>7
  <2>3. QED
    BY <2>1, <2>2, OtherLocked DEF IInv, LocksHold, Crosses
<1>8. QED
  BY <1>2, <1>4, <1>5, <1>6, <1>7

(* Taking the lock, shared or exclusive. *)
LEMMA LockKeeps ==
  ASSUME IInv, NEW t \in Thread, Lock(t)
  PROVE  IInv'
<1>1. Has(t) /\ ~Inside(t) /\ thread[t].at = "lock"
  BY DEF Lock, Has, Inside
<1> PICK o \in DOMAIN objects : o = thread[t].obj
  BY <1>1 DEF IInv, HasObject
<1>2. objects[o] \in Object /\ Locked(o)
  BY DEF IInv, TypeOK, LocksHold
<1>3. /\ objects[o].shared \in Nat /\ objects[o].writer \in Cell
      /\ DOMAIN objects[o] = {"db", "shared", "writer", "keys", "mem"}
  BY <1>2 DEF Object
<1>4. CASE Held(t).writer = t /\ Fail(t) /\ UNCHANGED objects
  <2>1. Moves(t, "reply", o)
    BY <1>4, FailMoves DEF IInv
  <2>2. QED
    BY <1>1, <1>4, <2>1, NoRowsChange, MovesKeep DEF Lock, Place, InsidePlace, Inside, IInv, TypeOK
<1>5. CASE Lockable(t) /\ Reading(t) /\ Go(t, "row")
           /\ objects' = [objects EXCEPT ![o].shared = @ + 1]
  <2>1. objects[o].writer = NoThread
    BY <1>5 DEF Lockable, Held
  <2>2. Crosses(t, "row", objects[o].shared + 1, objects[o].writer)
    <3>1. [objects[o] EXCEPT !.shared = @ + 1, !.writer = objects[o].writer]
            = [objects[o] EXCEPT !.shared = @ + 1]
      BY <1>2 DEF Object
    <3>2. Moves(t, "row", o)
      BY <1>5, GoMoves DEF IInv
    <3>3. QED
      BY <1>5, <3>1, <3>2 DEF Crosses, Moves, Lock
  <2>3. TypeOK' /\ HasObject' /\ DOMAIN objects' = DOMAIN objects
        /\ objects'[o].shared = objects[o].shared + 1 /\ objects'[o].writer = NoThread
        /\ \A q \in DOMAIN objects : q # o => Locked(q)'
    BY <1>1, <1>3, <2>1, <2>2, CrossesTyped
  <2>4. Readers(o)' = Readers(o) \cup {t} /\ t \notin Readers(o)
    BY <1>1, <1>5, <2>2 DEF Readers, Crosses, Inside, Reading
  <2>5. Cardinality(Readers(o)') = Cardinality(Readers(o)) + 1
    BY <2>4, ReadersFinite, FS_AddElement
  <2>6. \A u \in Thread : (Inside(u) /\ thread[u].obj = o /\ ~Reading(u))'
                            => Inside(u) /\ thread[u].obj = o /\ ~Reading(u)
    BY <1>5, <2>2 DEF Crosses, Inside, Reading
  <2>7. \A u \in Thread : Inside(u) /\ thread[u].obj = o => Reading(u)
    BY <1>2, <2>1, ThreadAssumption DEF Locked
  <2>8. Locked(o)'
    <3>1. \A u \in Thread : ~(Inside(u) /\ thread[u].obj = o /\ ~Reading(u))'
      BY <2>6, <2>7
    <3>2. leaked' = leaked
      BY <2>2 DEF Crosses
    <3>3. Cardinality(Readers(o)') <= objects'[o].shared
          /\ (o \notin leaked => objects'[o].shared = Cardinality(Readers(o)'))
      BY <1>2, <1>3, <2>3, <2>5, ReadersFinite DEF Locked
    <3>4. QED
      BY <2>3, <3>1, <3>2, <3>3 DEF Locked
  <2>9. QED
    BY <2>3, <2>8 DEF IInv, LocksHold
<1>6. CASE Lockable(t) /\ ~Reading(t) /\ Go(t, "row")
           /\ objects' = [objects EXCEPT ![o].writer = t]
  <2>1. objects[o].writer = NoThread /\ objects[o].shared = 0
    BY <1>6 DEF Lockable, Held
  <2>2. Crosses(t, "row", objects[o].shared, t)
    <3>1. [objects[o] EXCEPT !.shared = objects[o].shared, !.writer = t] = [objects[o] EXCEPT !.writer = t]
      BY <1>2 DEF Object
    <3>2. Moves(t, "row", o)
      BY <1>6, GoMoves DEF IInv
    <3>3. QED
      BY <1>6, <3>1, <3>2 DEF Crosses, Moves, Lock
  <2>3. TypeOK' /\ HasObject' /\ DOMAIN objects' = DOMAIN objects
        /\ objects'[o].shared = 0 /\ objects'[o].writer = t
        /\ \A q \in DOMAIN objects : q # o => Locked(q)'
    BY <1>1, <1>3, <2>1, <2>2, CrossesTyped DEF Cell
  <2>4. Readers(o)' = Readers(o)
    BY <1>1, <1>6, <2>2 DEF Readers, Crosses, Inside, Reading
  <2>5. \A u \in Thread : u # t /\ Inside(u)' => (thread[u].obj = o => Reading(u)) /\ thread'[u] = thread[u]
    BY <1>2, <2>1, <2>2, ThreadAssumption DEF Locked, Crosses, Inside
  <2>6. (Inside(t) /\ thread[t].obj = o /\ ~Reading(t))'
    BY <1>6, <2>2 DEF Crosses, Inside, Reading
  <2>7. Locked(o)'
    <3>1. \A u \in Thread : (Inside(u) /\ thread[u].obj = o /\ ~Reading(u))' => u = t
      BY <2>5 DEF Reading
    <3>2. leaked' = leaked
      BY <2>2 DEF Crosses
    <3>3. Cardinality(Readers(o)') <= objects'[o].shared
          /\ (o \notin leaked => objects'[o].shared = Cardinality(Readers(o)'))
      BY <1>2, <2>1, <2>3, <2>4, ReadersFinite DEF Locked
    <3>4. QED
      BY <2>3, <2>6, <3>1, <3>2, <3>3 DEF Locked
  <2>8. QED
    BY <2>3, <2>7 DEF IInv, LocksHold
<1>7. QED
  BY <1>4, <1>5, <1>6 DEF Lock

(* Giving the lock back. *)
LEMMA UnlockKeeps ==
  ASSUME IInv, NEW t \in Thread, Unlock(t)
  PROVE  IInv'
<1>1. Has(t) /\ Inside(t)
  BY DEF Unlock, Has, Inside
<1> PICK o \in DOMAIN objects : o = thread[t].obj
  BY <1>1 DEF IInv, HasObject
<1>2. objects[o] \in Object /\ Locked(o)
  BY DEF IInv, TypeOK, LocksHold
<1>3. objects[o].shared \in Nat /\ objects[o].writer \in Cell
  BY <1>2 DEF Object
<1>4. /\ DOMAIN thread' = Thread
      /\ \A u \in Thread : u # t => thread'[u] = thread[u]
      /\ DOMAIN thread'[t] = {"at", "req", "obj", "got", "old", "made"}
      /\ thread'[t].at = "idle" /\ thread'[t].obj = 0
      /\ UNCHANGED <<loadAll, databases, damaged, leaked>>
  BY DEF Unlock, Idle, IInv, TypeOK
<1>5. ~Inside(t)' /\ \A u \in Thread : u # t => thread'[u] = thread[u] /\ (Inside(u)' <=> Inside(u))
  BY <1>4 DEF Inside
<1>6. CASE Reading(t)
  <2>1. t \in Readers(o)
    BY <1>1, <1>6 DEF Readers
  <2>2. Readers(o)' = Readers(o) \ {t}
    BY <1>5 DEF Readers, Reading
  <2>3. Cardinality(Readers(o)') = Cardinality(Readers(o)) - 1
        /\ Cardinality(Readers(o)) \in Nat /\ Cardinality(Readers(o)') \in Nat
    <3>1. IsFiniteSet(Readers(o)) /\ Cardinality(Readers(o)) \in Nat
      BY ReadersFinite
    <3>2. /\ IsFiniteSet(Readers(o) \ {t})
          /\ Cardinality(Readers(o) \ {t}) = Cardinality(Readers(o)) - 1
      BY <2>1, <3>1, FS_RemoveElement
    <3>3. Cardinality(Readers(o) \ {t}) \in Nat
      BY <3>2, FS_CardinalityType
    <3>4. QED
      BY <2>2, <3>1, <3>2, <3>3
  <2>4. objects[o].shared - 1 \in Nat /\ objects[o].shared # 0
    BY <1>2, <1>3, <2>3 DEF Locked
  <2>5. objects[o].writer = NoThread
    BY <1>2, <2>4 DEF Locked
  <2>6. Crosses(t, "idle", objects[o].shared - 1, objects[o].writer)
    <3>1. [objects[o] EXCEPT !.shared = @ - 1, !.writer = objects[o].writer]
            = [objects[o] EXCEPT !.shared = @ - 1]
      BY <1>2 DEF Object
    <3>2. QED
      BY <1>4, <1>6, <3>1 DEF Crosses, Unlock
  <2>7. TypeOK' /\ HasObject' /\ DOMAIN objects' = DOMAIN objects
        /\ objects'[o].shared = objects[o].shared - 1 /\ objects'[o].writer = NoThread
        /\ \A q \in DOMAIN objects : q # o => Locked(q)'
    BY <1>1, <1>3, <2>4, <2>5, <2>6, CrossesTyped
  <2>8. \A u \in Thread : ~(Inside(u) /\ thread[u].obj = o /\ ~Reading(u))'
    BY <1>2, <1>5, <2>5, ThreadAssumption DEF Locked, Reading
  <2>9. Cardinality(Readers(o)') <= objects'[o].shared
        /\ (o \notin leaked => objects'[o].shared = Cardinality(Readers(o)'))
    BY <1>2, <1>3, <2>3, <2>7 DEF Locked
  <2>10. Locked(o)'
    BY <1>4, <2>7, <2>8, <2>9 DEF Locked
  <2>11. QED
    BY <2>7, <2>10 DEF IInv, LocksHold
<1>7. CASE ~Reading(t)
  <2>1. objects[o].writer = t /\ t # NoThread
    BY <1>1, <1>2, <1>7, ThreadAssumption DEF Locked
  <2>2. objects[o].shared = 0
    BY <1>2, <2>1 DEF Locked
  <2>3. Crosses(t, "idle", objects[o].shared, NoThread)
    <3>1. [objects[o] EXCEPT !.shared = objects[o].shared, !.writer = NoThread]
            = [objects[o] EXCEPT !.writer = NoThread]
      BY <1>2 DEF Object
    <3>2. QED
      BY <1>4, <1>7, <3>1 DEF Crosses, Unlock
  <2>4. TypeOK' /\ HasObject' /\ DOMAIN objects' = DOMAIN objects
        /\ objects'[o].shared = 0 /\ objects'[o].writer = NoThread
        /\ \A q \in DOMAIN objects : q # o => Locked(q)'
    BY <1>1, <1>3, <2>2, <2>3, CrossesTyped DEF Cell
  <2>5. Readers(o)' = Readers(o)
    BY <1>5, <1>7 DEF Readers, Reading
  <2>6. \A u \in Thread : ~(Inside(u) /\ thread[u].obj = o /\ ~Reading(u))'
    BY <1>2, <1>5, <2>1 DEF Locked, Reading
  <2>7. Cardinality(Readers(o)') <= objects'[o].shared
        /\ (o \notin leaked => objects'[o].shared = Cardinality(Readers(o)'))
    BY <1>2, <2>2, <2>4, <2>5 DEF Locked
  <2>8. Locked(o)'
    BY <1>4, <2>4, <2>6, <2>7 DEF Locked
  <2>9. QED
    BY <2>4, <2>8 DEF IInv, LocksHold
<1>8. QED
  BY <1>6, <1>7

(* An exception past the handlers leaves the lock as it was. *)
LEMMA BadIdKeeps ==
  ASSUME IInv, NEW t \in Thread, BadId(t)
  PROVE  IInv'
<1>1. Has(t) /\ Inside(t)
  BY DEF BadId, Has, Inside
<1> PICK o \in DOMAIN objects : o = thread[t].obj
  BY <1>1 DEF IInv, HasObject
<1>2. Moves(t, "reply", o)
  BY FailMoves DEF BadId, IInv
<1>3. UNCHANGED <<loadAll, databases, objects, damaged>> /\ leaked' = leaked \cup {o}
  BY DEF BadId
<1>4. TypeOK'
  BY <1>2, <1>3 DEF IInv, TypeOK, Moves, Place, BadId
<1>5. HasObject'
  BY <1>2, <1>3 DEF IInv, HasObject, Has, Inside, Moves
<1>6. ~Inside(t)' /\ \A u \in Thread : u # t => thread'[u] = thread[u] /\ (Inside(u)' <=> Inside(u))
  BY <1>2 DEF Moves, Inside
<1>7. ASSUME NEW q \in DOMAIN objects PROVE Locked(q)'
  <2>1. CASE q = o
    <3>1. Readers(o)' \in SUBSET Readers(o)
      BY <1>6 DEF Readers, Reading
    <3>2. Cardinality(Readers(o)') <= Cardinality(Readers(o))
          /\ Cardinality(Readers(o)) \in Nat /\ Cardinality(Readers(o)') \in Nat
      BY <3>1, ReadersFinite, FS_Subset, FS_CardinalityType
    <3>3. Locked(o) /\ objects[o].shared \in Nat
      <4>1. Locked(o) /\ objects[o] \in Object
        BY DEF IInv, TypeOK, LocksHold
      <4>2. QED
        BY <4>1 DEF Object
    <3>4. Cardinality(Readers(o)') <= objects[o].shared
      BY <3>2, <3>3 DEF Locked
    <3>5. QED
      BY <1>3, <1>6, <2>1, <3>3, <3>4 DEF Locked, Reading
  <2>2. CASE q # o
    <3>1. \A u \in Thread :
            /\ (Inside(u) /\ thread[u].obj = q)' <=> (Inside(u) /\ thread[u].obj = q)
            /\ Inside(u) /\ thread[u].obj = q => (Reading(u)' <=> Reading(u))
      BY <1>6, <2>2 DEF Reading
    <3>2. QED
      BY <1>3, <2>2, <3>1, OtherLocked DEF IInv, LocksHold
  <2>3. QED
    BY <2>1, <2>2
<1>8. QED
  BY <1>3, <1>4, <1>5, <1>7 DEF IInv, LocksHold

-----------------------------------------------------------------------------
(* At the beginning no thread is inside and nothing is locked. *)
LEMMA InitKeeps ==
  ASSUME Init
  PROVE  IInv
<1>1. <<NoThread, NoThread>> \in [1..2 -> Cell]
  BY DEF Cell
<1>2. \A d \in Db : Opened(d) \in Object /\ Opened(d).shared = 0 /\ Opened(d).writer = NoThread
  BY <1>1 DEF Opened, Object, Cell
<1>3. /\ objects \in Seq(Object) /\ databases \in [Db -> 0..Len(objects)]
      /\ \A o \in DOMAIN objects : objects[o].shared = 0 /\ objects[o].writer = NoThread
  <2>1. CASE loadAll = FALSE /\ objects = <<>> /\ databases = [d \in Db |-> 0]
    BY <2>1
  <2>2. ASSUME NEW n \in 0..Cardinality(Db), NEW f \in [1..n -> Db],
               objects = [i \in 1..n |-> Opened(f[i])],
               databases = [d \in Db |-> IF \E i \in 1..n : f[i] = d
                                         THEN CHOOSE i \in 1..n : f[i] = d ELSE 0]
        PROVE  /\ objects \in Seq(Object) /\ databases \in [Db -> 0..Len(objects)]
               /\ \A o \in DOMAIN objects : objects[o].shared = 0 /\ objects[o].writer = NoThread
    <3>1. n \in Nat
      BY DbAssumption, FS_CardinalityType
    <3>2. objects \in Seq(Object) /\ Len(objects) = n /\ DOMAIN objects = 1..n
      BY <1>2, <2>2, <3>1
    <3>3. databases \in [Db -> 0..n]
      BY <2>2, <3>1
    <3>4. QED
      BY <1>2, <2>2, <3>2, <3>3
  <2>3. CASE loadAll = TRUE
    <3>1. PICK n \in 0..Cardinality(Db) : \E f \in [1..n -> Db] :
            /\ objects = [i \in 1..n |-> Opened(f[i])]
            /\ databases = [d \in Db |-> IF \E i \in 1..n : f[i] = d
                                         THEN CHOOSE i \in 1..n : f[i] = d ELSE 0]
      BY <2>3 DEF Init
    <3>2. QED
      BY <2>2, <3>1
  <2>4. QED
    BY <2>1, <2>3 DEF Init
<1>4. TypeOK
  BY <1>3 DEF Init, TypeOK, Place
<1>5. \A t \in Thread : ~Inside(t) /\ ~Has(t)
  BY DEF Init, Inside, Has
<1>6. \A o : Readers(o) = {}
  BY <1>5 DEF Readers
<1>7. LocksHold
  <2> SUFFICES ASSUME NEW o \in DOMAIN objects PROVE Locked(o)
    BY DEF LocksHold
  <2>1. Readers(o) = {} /\ Cardinality(Readers(o)) = 0
    BY <1>6, FS_EmptySet
  <2>2. QED
    BY <1>3, <1>5, <2>1 DEF Locked
<1>8. QED
  BY <1>4, <1>5, <1>7 DEF IInv, HasObject

(* Every step keeps the invariant. *)
LEMMA NextKeeps ==
  ASSUME IInv, [Next]_vars
  PROVE  IInv'
<1>1. CASE UNCHANGED vars
  <2>1. TypeOK' /\ HasObject' /\ SameSides /\ SameLocks
    BY <1>1 DEF vars, IInv, TypeOK, HasObject, Has, Inside, Reading, SameSides, SameLocks
  <2>2. QED
    BY <1>1, <2>1, LocksStay DEF vars, IInv
<1>2. ASSUME NEW t \in Thread, Call(t) \/ Runs(t) \/ Lose(t) PROVE IInv'
  BY <1>2, LoseKeeps, CallKeeps, FindKeeps, LoadKeeps, TableKeeps, LockKeeps, BadIdKeeps, LookKeeps, EraseKeeps,
     Read1Keeps, Read2Keeps, ChangeKeeps, Write1Keeps, Write2Keeps, UnlockKeeps, ReplyKeeps DEF Runs
<1>3. QED
  BY <1>1, <1>2, ExpireKeeps, HavocKeeps DEF Next

(* The locks and the threads are as the inductive invariant says. *)
THEOREM Invariance == Spec => []IInv
<1>1. Init => IInv
  BY InitKeeps
<1>2. IInv /\ [Next]_vars => IInv'
  BY NextKeeps
<1>3. QED
  BY <1>1, <1>2, PTL DEF Spec

(* TypeOK for every set of threads, databases and keys. *)
THEOREM TypeCorrect == Spec => []TypeOK
<1>1. IInv => TypeOK
  BY DEF IInv
<1>2. QED
  BY <1>1, Invariance, PTL

(* Threads in one database have one object, which the cache names, and its *)
(* lock admits a writer only alone.                                        *)
LEMMA Exclusive == IInv => WritersExclude
<1> SUFFICES ASSUME IInv,
                    NEW t \in Thread, NEW u \in Thread, t # u, Inside(t), Inside(u),
                    thread[t].req.db = thread[u].req.db, ~Reading(t)
             PROVE  FALSE
  BY DEF WritersExclude
<1>1. PICK o \in DOMAIN objects : thread[t].obj = o /\ thread[u].obj = o
  BY DEF IInv, HasObject, Has
<1>2. Locked(o) /\ objects[o].shared \in Nat
  <2>1. Locked(o) /\ objects[o] \in Object
    BY DEF IInv, TypeOK, LocksHold
  <2>2. QED
    BY <2>1 DEF Object
<1>3. objects[o].writer = t /\ objects[o].shared = 0
  BY <1>1, <1>2, ThreadAssumption DEF Locked
<1>4. Readers(o) = {}
  BY <1>2, <1>3, ReadersFinite, FS_EmptySet DEF Locked
<1>5. Reading(u)
  BY <1>1, <1>2, <1>3 DEF Locked
<1>6. QED
  BY <1>1, <1>4, <1>5 DEF Readers

(* WritersExclude for every set of threads, databases and keys: writers    *)
(* have a database for themselves (NoSQLQuery, GetDatabase).               *)
THEOREM WritersAreAlone == Spec => []WritersExclude
<1>1. QED
  BY Exclusive, Invariance, PTL

(* LocksMatchHolders: every way out of a query that is handled gives back  *)
(* exactly what it took (NoSQLQuery's catch clauses).                      *)
THEOREM LocksAreReturned == Spec => []LocksMatchHolders
<1>1. ASSUME IInv PROVE LocksMatchHolders
  <2> SUFFICES ASSUME NEW o \in DOMAIN objects \ leaked
               PROVE  LET inside == {t \in Thread : Inside(t) /\ thread[t].obj = o}
                      IN  /\ objects[o].shared = Cardinality({t \in inside : Reading(t)})
                          /\ {t \in inside : ~Reading(t)}
                               = IF objects[o].writer = NoThread THEN {} ELSE {objects[o].writer}
    BY DEF LocksMatchHolders
  <2> DEFINE inside == {t \in Thread : Inside(t) /\ thread[t].obj = o}
  <2>1. Locked(o)
    BY <1>1 DEF IInv, LocksHold
  <2>2. {t \in inside : Reading(t)} = Readers(o)
    BY DEF Readers
  <2>3. {t \in inside : ~Reading(t)}
          = IF objects[o].writer = NoThread THEN {} ELSE {objects[o].writer}
    BY <2>1, ThreadAssumption DEF Locked
  <2>4. QED
    BY <2>1, <2>2, <2>3 DEF Locked
<1>2. QED
  BY <1>1, Invariance, PTL

----------------------------------------------------------------------------

(***************************************************************************)
(* Proof that QueryLock implements AtomicStore: what clients see of the    *)
(* threads is what one query after the other would do.  An abstract row is *)
(* the one in memory, except while a write is storing its fields: then it  *)
(* is the one the write found.                                             *)
(***************************************************************************)


(* A write between the change of its row and its last field. *)
Stores(t) == thread[t].at \in {"write1", "write2"}
StoresAt(t, d, k) == Stores(t) /\ thread[t].req.db = d /\ thread[t].req.key = k

(* The cache names a database by the object made for it. *)
Names == \A d \in Db : databases[d] # 0 => objects[databases[d]].db = d

(* A write that stores: what it asked for allows the row it found, which   *)
(* is gone from memory as far as it got.                                   *)
Started(t) ==
  LET h == thread[t] IN
  /\ h.req.op \in {"insert", "update", "replace"}
  /\ h.old.state \in {"none", "live", "dead"} /\ h.old.cells \in [1..2 -> Cell]
  /\ h.req.op = "insert" => h.old.state = "none"
  /\ h.req.op = "update" => h.old.state # "none"
  /\ Row(t) = "live"
  /\ Held(t).mem[h.req.key] = IF h.at = "write1" THEN h.old.cells ELSE [h.old.cells EXCEPT ![1] = t]

(* What a thread relies on while it is at its row. *)
Progress(t) ==
  /\ thread[t].at = "erase" => Reading(t) /\ Row(t) # "live"
  /\ thread[t].at \in {"read1", "read2"} => Reading(t)
  /\ thread[t].at = "read2" => thread[t].got = <<Held(t).mem[thread[t].req.key][1]>>
  /\ Stores(t) => Started(t)

RInv == Names /\ \A t \in Thread : Progress(t)

(* The abstract rows, without the choice of the thread that stores. *)
SeenAt(d, k) ==
  /\ databases[d] = 0 => VisibleState(d, k) = "none" /\ VisibleCells(d, k) = <<NoThread, NoThread>>
  /\ \A t \in Thread : StoresAt(t, d, k) =>
       /\ databases[d] # 0
       /\ VisibleState(d, k) = thread[t].old.state /\ VisibleCells(d, k) = thread[t].old.cells
  /\ databases[d] # 0 /\ (\A t \in Thread : ~StoresAt(t, d, k)) =>
       /\ VisibleState(d, k) = objects[databases[d]].keys[k]
       /\ VisibleCells(d, k) = objects[databases[d]].mem[k]
Seen == \A d \in Db, k \in Key : SeenAt(d, k)

(* At most one write is storing in a row. *)
LEMMA OneStores ==
  ASSUME IInv, RInv, NEW d \in Db, NEW k \in Key, NEW t \in Thread, StoresAt(t, d, k)
  PROVE  Storing(d, k) = {t} /\ databases[d] # 0
<1>1. \A u \in Thread : StoresAt(u, d, k) => Inside(u) /\ ~Reading(u)
  BY DEF RInv, Progress, Started, StoresAt, Stores, Inside, Reading
<1>2. \A u \in Thread : StoresAt(u, d, k) => u = t
  BY <1>1, Exclusive DEF WritersExclude, StoresAt
<1>3. databases[d] # 0
  BY <1>1 DEF IInv, TypeOK, HasObject, Has, StoresAt
<1>4. QED
  BY <1>2, <1>3 DEF Storing, StoresAt, Stores

(* The abstract rows are what Seen says. *)
LEMMA SeenHolds == IInv /\ RInv => Seen
<1> SUFFICES ASSUME IInv, RInv, NEW d \in Db, NEW k \in Key PROVE SeenAt(d, k)
  BY DEF Seen
<1>1. ASSUME NEW t \in Thread, StoresAt(t, d, k)
      PROVE  /\ databases[d] # 0
             /\ VisibleState(d, k) = thread[t].old.state /\ VisibleCells(d, k) = thread[t].old.cells
  <2>1. Storing(d, k) = {t} /\ databases[d] # 0
    BY <1>1, OneStores
  <2>2. (CHOOSE u \in Storing(d, k) : TRUE) = t
    BY <2>1
  <2>3. QED
    BY <2>1, <2>2 DEF VisibleState, VisibleCells
<1>2. (\A t \in Thread : ~StoresAt(t, d, k)) => Storing(d, k) = {}
  BY DEF Storing, StoresAt, Stores
<1>3. QED
  BY <1>1, <1>2 DEF SeenAt, VisibleState, VisibleCells

(* Nothing that is visible of a row changes. *)
Same(d, k) == VisibleState(d, k)' = VisibleState(d, k) /\ VisibleCells(d, k)' = VisibleCells(d, k)

(* Nor does it, when the row is in the same database, the same write is    *)
(* storing it and it changes at most in memory while one is.               *)
LEMMA Untouched ==
  ASSUME Seen, Seen', NEW d \in Db, NEW k \in Key, databases'[d] = databases[d],
         \A t \in Thread :
           /\ StoresAt(t, d, k)' <=> StoresAt(t, d, k)
           /\ StoresAt(t, d, k) => thread'[t].old = thread[t].old,
         databases[d] # 0 /\ (\A t \in Thread : ~StoresAt(t, d, k)) =>
           /\ objects'[databases[d]].keys[k] = objects[databases[d]].keys[k]
           /\ objects'[databases[d]].mem[k] = objects[databases[d]].mem[k]
  PROVE  Same(d, k)
<1>1. SeenAt(d, k) /\ SeenAt(d, k)'
  BY DEF Seen
<1>2. CASE databases[d] = 0
  BY <1>1, <1>2 DEF SeenAt, Same
<1>3. CASE \E t \in Thread : StoresAt(t, d, k)
  <2>1. PICK t \in Thread : StoresAt(t, d, k)
    BY <1>3
  <2>2. StoresAt(t, d, k)' /\ thread'[t].old = thread[t].old
    BY <2>1
  <2>3. QED
    BY <1>1, <2>1, <2>2 DEF SeenAt, Same
<1>4. CASE databases[d] # 0 /\ \A t \in Thread : ~StoresAt(t, d, k)
  BY <1>1, <1>4 DEF SeenAt, Same
<1>5. QED
  BY <1>2, <1>3, <1>4

-----------------------------------------------------------------------------
(* The row a thread is at. *)
ItsMem(t) == Held(t).mem[thread[t].req.key]

(* A thread that does not move, and whose row changes at most by expiring  *)
(* or by going before it stores, still relies on the same, and shows it.   *)
LEMMA Undisturbed ==
  ASSUME IInv, RInv, NEW u \in Thread, thread'[u] = thread[u],
         Inside(u) =>
           /\ ItsMem(u)' = ItsMem(u)
           /\ Row(u)' = Row(u) \/ (~Stores(u) /\ Row(u)' # "live")
  PROVE  Progress(u)' /\ VisibleQuery(u)' = VisibleQuery(u)
<1>1. Progress(u)
  BY DEF RInv
<1>2. CASE ~Inside(u)
  BY <1>2 DEF Progress, VisibleQuery, VisibleAnswer, Inside, Stores
<1>3. CASE Inside(u)
  <2>1. Progress(u)'
    BY <1>1, <1>3 DEF Progress, Started, Stores, Reading, ItsMem
  <2>2. VisibleQuery(u)' = VisibleQuery(u)
    BY <1>3 DEF VisibleQuery, VisibleAnswer, ItsMem
  <2>3. QED
    BY <2>1, <2>2
<1>4. QED
  BY <1>2, <1>3

(* No row changes, apart from one row of one object. *)
RowStays(o, k) == objects'[o].keys[k] = objects[o].keys[k] /\ objects'[o].mem[k] = objects[o].mem[k]
RowsStay == \A o \in DOMAIN objects : objects'[o].db = objects[o].db /\ \A k \in Key : RowStays(o, k)
RowsStayBut(p, j) ==
  \A o \in DOMAIN objects :
    objects'[o].db = objects[o].db /\ \A k \in Key : o # p \/ k # j => RowStays(o, k)

(* Only thread t moves. *)
Alone(t) == \A u \in Thread : u # t => thread'[u] = thread[u]

(* The abstract query of t changes as its visible one does, and no other. *)
Follows(t) == Queries' = [Queries EXCEPT ![t] = VisibleQuery(t)']

(* It does when no other thread's does. *)
LEMMA OneFollows ==
  ASSUME NEW t \in Thread, \A u \in Thread : u # t => VisibleQuery(u)' = VisibleQuery(u)
  PROVE  Follows(t)
  BY DEF Follows, Queries

(* A step that changes no row, where no write begins, goes on or ends. *)
LEMMA Passive ==
  ASSUME IInv, RInv, IInv', NEW t \in Thread, Alone(t), RowsStay, UNCHANGED databases,
         ~Stores(t), ~Stores(t)', Progress(t)'
  PROVE  RInv' /\ UNCHANGED <<States, Cells>> /\ Follows(t)
<1>1. ASSUME NEW u \in Thread, u # t
      PROVE  Progress(u)' /\ VisibleQuery(u)' = VisibleQuery(u)
  <2>1. thread'[u] = thread[u]
    BY <1>1 DEF Alone
  <2>2. ASSUME Inside(u) PROVE ItsMem(u)' = ItsMem(u) /\ Row(u)' = Row(u)
    <3>1. thread[u].obj \in DOMAIN objects /\ thread[u].req.key \in Key
      BY <2>2 DEF IInv, TypeOK, HasObject, Has, Inside, Request
    <3>2. QED
      BY <2>1, <3>1 DEF RowsStay, RowStays, ItsMem, Row, Held
  <2>3. QED
    BY <2>1, <2>2, Undisturbed
<1>2. Names'
  BY DEF RInv, Names, RowsStay, IInv, TypeOK
<1>3. RInv'
  BY <1>1, <1>2 DEF RInv
<1>4. Seen
  BY SeenHolds
<1>5. Seen'
  BY <1>3, SeenHolds, PTL
<1>6. ASSUME NEW d \in Db, NEW k \in Key PROVE Same(d, k)
  <2>1. \A u \in Thread :
          /\ StoresAt(u, d, k)' <=> StoresAt(u, d, k)
          /\ StoresAt(u, d, k) => thread'[u].old = thread[u].old
    BY DEF StoresAt, Stores, Alone
  <2>2. databases[d] # 0 =>
          /\ objects'[databases[d]].keys[k] = objects[databases[d]].keys[k]
          /\ objects'[databases[d]].mem[k] = objects[databases[d]].mem[k]
    BY DEF RowsStay, RowStays, IInv, TypeOK
  <2>3. QED
    BY <1>4, <1>5, <2>1, <2>2, Untouched
<1>7. UNCHANGED <<States, Cells>>
  BY <1>6 DEF States, Cells, Same
<1>8. QED
  BY <1>1, <1>3, <1>7, OneFollows

(* Two threads in one object are in one database, where a writer is alone. *)
LEMMA SameObject ==
  ASSUME IInv, RInv, NEW t \in Thread, NEW u \in Thread, t # u, Inside(t), Inside(u),
         thread[u].obj = thread[t].obj
  PROVE  Reading(t) /\ Reading(u)
<1>1. \A v \in {t, u} : /\ thread[v].req.db \in Db /\ databases[thread[v].req.db] = thread[v].obj
                        /\ thread[v].obj \in DOMAIN objects
  BY DEF IInv, TypeOK, HasObject, Has, Inside, Request
<1>2. \A v \in {t, u} : objects[thread[v].obj].db = thread[v].req.db
  BY <1>1 DEF RInv, Names, IInv, TypeOK
<1>3. thread[t].req.db = thread[u].req.db
  BY <1>2
<1>4. QED
  BY <1>3, Exclusive DEF WritersExclude

(* A table of the rows of all databases. *)
Rows(S) == S = [d \in Db |-> [k \in Key |-> S[d][k]]]
Differs(T, S, e, j) == \A d \in Db, k \in Key : d # e \/ k # j => T[d][k] = S[d][k]
Replaces(T, S, e, j) == T = [S EXCEPT ![e][j] = T[e][j]]

(* A table of rows in which one row is another. *)
LEMMA OneReplaced ==
  ASSUME NEW S, NEW T, NEW e \in Db, NEW j \in Key, Rows(S), Rows(T), Differs(T, S, e, j)
  PROVE  Replaces(T, S, e, j)
<1> DEFINE v == T[e][j]
           R == [S EXCEPT ![e][j] = v]
<1>1. DOMAIN S = Db /\ \A d \in Db : S[d] = [k \in Key |-> S[d][k]]
  BY ONLY Rows(S) DEF Rows
<1>2. R = [d \in Db |-> IF d = e THEN [S[e] EXCEPT ![j] = v] ELSE S[d]]
  BY <1>1
<1>3. \A d \in Db : R[d] = [k \in Key |-> T[d][k]]
  <2> SUFFICES ASSUME NEW d \in Db PROVE R[d] = [k \in Key |-> T[d][k]]
    OBVIOUS
  <2>1. S[d] = [k \in Key |-> S[d][k]]
    BY <1>1
  <2>2. CASE d = e
    <3>1. R[d] = [S[e] EXCEPT ![j] = v]
      BY <1>2, <2>2
    <3>2. [S[e] EXCEPT ![j] = v] = [k \in Key |-> IF k = j THEN v ELSE S[e][k]]
      BY <2>1, <2>2
    <3>3. \A k \in Key : T[d][k] = IF k = j THEN v ELSE S[e][k]
      BY <2>2 DEF Differs
    <3>4. QED
      BY <3>1, <3>2, <3>3
  <2>3. CASE d # e
    <3>1. \A k \in Key : T[d][k] = S[d][k]
      BY <2>3 DEF Differs
    <3>2. QED
      BY <1>2, <2>1, <2>3, <3>1
  <2>4. QED
    BY <2>2, <2>3
<1>4. R = [d \in Db |-> R[d]]
  BY <1>2
<1>5. R = [d \in Db |-> [k \in Key |-> T[d][k]]]
  BY <1>3, <1>4
<1>6. QED
  BY <1>5 DEF Rows, Replaces

(* The abstract row of thread t becomes what is visible of it. *)
RowFollows(t) ==
  LET d == thread[t].req.db
      k == thread[t].req.key
  IN  /\ States' = [States EXCEPT ![d][k] = VisibleState(d, k)']
      /\ Cells' = [Cells EXCEPT ![d][k] = VisibleCells(d, k)']

(* A step of a thread inside that changes only its row, with the lock for  *)
(* itself or by erasing a row that is not there for readers.               *)
LEMMA Active ==
  ASSUME IInv, RInv, IInv', NEW t \in Thread, Inside(t), Alone(t),
         RowsStayBut(thread[t].obj, thread[t].req.key), UNCHANGED databases,
         thread'[t].req = thread[t].req,
         Reading(t) => /\ objects'[thread[t].obj].mem[thread[t].req.key] = ItsMem(t)
                       /\ objects'[thread[t].obj].keys[thread[t].req.key] = "none",
         Progress(t)'
  PROVE  RInv' /\ RowFollows(t) /\ Follows(t)
<1> DEFINE o == thread[t].obj
           e == thread[t].req.db
           j == thread[t].req.key
<1>1. o \in DOMAIN objects /\ j \in Key /\ e \in Db /\ databases[e] = o /\ objects[o].db = e
  BY DEF IInv, TypeOK, HasObject, Has, Inside, Request, RInv, Names
<1>2. ASSUME NEW u \in Thread, u # t
      PROVE  Progress(u)' /\ VisibleQuery(u)' = VisibleQuery(u)
  <2>1. thread'[u] = thread[u]
    BY <1>2 DEF Alone
  <2>2. ASSUME Inside(u)
        PROVE  ItsMem(u)' = ItsMem(u) /\ (Row(u)' = Row(u) \/ (~Stores(u) /\ Row(u)' # "live"))
    <3>1. thread[u].obj \in DOMAIN objects /\ thread[u].req.key \in Key
      BY <2>2 DEF IInv, TypeOK, HasObject, Has, Inside, Request
    <3>2. CASE thread[u].obj = o
      <4>1. Reading(t) /\ Reading(u)
        BY <1>2, <2>2, <3>2, SameObject
      <4>2. ~Stores(u)
        BY <4>1 DEF RInv, Progress, Started, Reading
      <4>3. QED
        BY <2>1, <3>1, <3>2, <4>1, <4>2 DEF RowsStayBut, RowStays, ItsMem, Row, Held
    <3>3. CASE thread[u].obj # o
      BY <2>1, <3>1, <3>3 DEF RowsStayBut, RowStays, ItsMem, Row, Held
    <3>4. QED
      BY <3>2, <3>3
  <2>3. QED
    BY <2>1, <2>2, Undisturbed
<1>3. Names'
  BY DEF RInv, Names, RowsStayBut, IInv, TypeOK
<1>4. RInv'
  BY <1>2, <1>3 DEF RInv
<1>5. Seen
  BY SeenHolds
<1>6. Seen'
  BY <1>4, SeenHolds, PTL
<1>7. ASSUME NEW d \in Db, NEW k \in Key, d # e \/ k # j PROVE Same(d, k)
  <2>1. \A u \in Thread :
          /\ StoresAt(u, d, k)' <=> StoresAt(u, d, k)
          /\ StoresAt(u, d, k) => thread'[u].old = thread[u].old
    BY <1>7 DEF StoresAt, Stores, Alone
  <2>2. databases[d] # 0 => databases[d] \in DOMAIN objects /\ (databases[d] # o \/ k # j)
    BY <1>1, <1>7 DEF RInv, Names, IInv, TypeOK
  <2>3. databases[d] # 0 =>
          /\ objects'[databases[d]].keys[k] = objects[databases[d]].keys[k]
          /\ objects'[databases[d]].mem[k] = objects[databases[d]].mem[k]
    BY <2>2 DEF RowsStayBut, RowStays
  <2>4. QED
    BY <1>5, <1>6, <2>1, <2>3, Untouched
<1>8. RowFollows(t)
  <2>1. Rows(States) /\ Rows(Cells)
    BY DEF States, Cells, Rows
  <2>2. Rows(States') /\ Rows(Cells')
    BY DEF States, Cells, Rows
  <2>3. Differs(States', States, e, j) /\ Differs(Cells', Cells, e, j)
    BY <1>7 DEF States, Cells, Same, Differs
  <2>4. States'[e][j] = VisibleState(e, j)' /\ Cells'[e][j] = VisibleCells(e, j)'
    BY <1>1 DEF States, Cells
  <2>5. Replaces(States', States, e, j) /\ Replaces(Cells', Cells, e, j)
    BY <1>1, <2>1, <2>2, <2>3, OneReplaced
  <2>6. QED
    BY <2>4, <2>5 DEF RowFollows, Replaces
<1>9. QED
  BY <1>2, <1>4, <1>8, OneFollows

-----------------------------------------------------------------------------
(* What a step does to the abstract state: nothing, or an abstract step. *)
Implements == RInv' /\ [Atomic!Next]_(Atomic!vars)

(* How the query of a thread looks while it is not answered, and then. *)
Called(t) == [phase |-> "called", req |-> thread[t].req]
AnsweredWith(t, a) == [phase |-> "answered", req |-> thread[t].req, answer |-> a]

(* No abstract variable changes. *)
LEMMA Stutters ==
  ASSUME NEW t \in Thread, UNCHANGED <<States, Cells>>, Follows(t), VisibleQuery(t)' = VisibleQuery(t)
  PROVE  UNCHANGED Atomic!vars
<1>1. Queries' = [Queries EXCEPT ![t] = Queries[t]]
  BY DEF Follows, Queries
<1>2. Queries' = Queries
  BY <1>1 DEF Queries
<1>3. QED
  BY <1>2 DEF Atomic!vars

(* A query is answered. *)
LEMMA Answers ==
  ASSUME NEW t \in Thread, NEW a, Follows(t), VisibleQuery(t) = Called(t),
         VisibleQuery(t)' = AnsweredWith(t, a)
  PROVE  Queries[t].phase = "called" /\ Queries[t].req = thread[t].req /\ Atomic!Answered(t, a)
<1>1. Queries[t] = Called(t)
  BY DEF Queries
<1>2. Queries' = [Queries EXCEPT ![t] = AnsweredWith(t, a)]
  BY DEF Follows
<1>3. QED
  BY <1>1, <1>2 DEF Called, AnsweredWith, Atomic!Answered

(* With an error, and without an effect. *)
LEMMA Refuses ==
  ASSUME NEW t \in Thread, UNCHANGED <<States, Cells>>, Follows(t), VisibleQuery(t) = Called(t),
         VisibleQuery(t)' = AnsweredWith(t, "error")
  PROVE  Atomic!Next
<1>1. Queries[t].phase = "called" /\ Atomic!Answered(t, "error")
  BY Answers
<1>2. Atomic!Refuse(t)
  BY <1>1 DEF Atomic!Refuse
<1>3. QED
  BY <1>2 DEF Atomic!Next

(* A thread that goes to its reply has nothing to rely on. *)
LEMMA FailIs ==
  ASSUME IInv, NEW t \in Thread, Fail(t)
  PROVE  /\ Alone(t) /\ Progress(t)' /\ ~Stores(t)'
         /\ VisibleQuery(t)' = AnsweredWith(t, "error")
<1>1. /\ Alone(t) /\ thread'[t].at = "reply" /\ thread'[t].got = "error"
      /\ thread'[t].req = thread[t].req
  BY DEF Fail, IInv, TypeOK, Alone
<1>2. QED
  BY <1>1 DEF Progress, Stores, VisibleQuery, VisibleAnswer, AnsweredWith

(* Neither has one that goes to the unlocking. *)
LEMMA EndsIs ==
  ASSUME IInv, NEW t \in Thread, NEW got, Ends(t, got)
  PROVE  /\ Alone(t) /\ Progress(t)' /\ ~Stores(t)' /\ thread'[t].req = thread[t].req
         /\ VisibleQuery(t)' = AnsweredWith(t, got)
<1>1. /\ Alone(t) /\ thread'[t].at = "unlock" /\ thread'[t].got = got
      /\ thread'[t].req = thread[t].req
  BY DEF Ends, IInv, TypeOK, Alone
<1>2. QED
  BY <1>1 DEF Progress, Stores, VisibleQuery, VisibleAnswer, AnsweredWith

(* A query that fails before its row is refused. *)
LEMMA FailRefuses ==
  ASSUME IInv, RInv, IInv', NEW t \in Thread, Fail(t), RowsStay, UNCHANGED databases,
         thread[t].at \in {"find", "load", "table", "lock", "row"}
  PROVE  Implements
<1>1. /\ Alone(t) /\ Progress(t)' /\ ~Stores(t)' /\ ~Stores(t)
      /\ VisibleQuery(t)' = AnsweredWith(t, "error") /\ VisibleQuery(t) = Called(t)
  BY FailIs DEF Stores, VisibleQuery, Called
<1>2. RInv' /\ UNCHANGED <<States, Cells>> /\ Follows(t)
  BY <1>1, Passive
<1>3. Atomic!Next
  BY <1>1, <1>2, Refuses
<1>4. QED
  BY <1>2, <1>3 DEF Implements

(* A query that goes on towards its row looks as before. *)
LEMMA WaysStutter ==
  ASSUME IInv, RInv, IInv', NEW t \in Thread, RowsStay, UNCHANGED databases, Alone(t),
         thread[t].at \in {"find", "load", "table", "lock", "row"},
         thread'[t].at \in {"load", "table", "lock", "row"}, thread'[t].req = thread[t].req
  PROVE  Implements
<1>1. ~Stores(t) /\ ~Stores(t)' /\ Progress(t)' /\ VisibleQuery(t)' = VisibleQuery(t)
  BY DEF Stores, Progress, VisibleQuery
<1>2. RInv' /\ UNCHANGED <<States, Cells>> /\ Follows(t)
  BY <1>1, Passive
<1>3. QED
  BY <1>1, <1>2, Stutters DEF Implements

(* Unchanged objects have unchanged rows. *)
LEMMA NothingStays ==
  ASSUME UNCHANGED objects
  PROVE  RowsStay
  BY DEF RowsStay, RowStays

(* Taking a request is the abstract call. *)
LEMMA CallImplements ==
  ASSUME IInv, RInv, IInv', NEW t \in Thread, Call(t)
  PROVE  Implements
<1>1. PICK r \in Asked :
        thread' = [thread EXCEPT ![t] = [at |-> "find", req |-> r, obj |-> 0, got |-> <<>>,
                                         old |-> <<>>, made |-> thread[t].made + 1]]
  BY DEF Call
<1>2. Alone(t) /\ thread'[t].at = "find" /\ thread'[t].req = r /\ thread[t].at = "idle"
  BY <1>1 DEF IInv, TypeOK, Alone, Call
<1>3. ~Stores(t) /\ ~Stores(t)' /\ Progress(t)'
  BY <1>2 DEF Stores, Progress
<1>4. RowsStay /\ UNCHANGED databases
  BY NothingStays DEF Call
<1>5. RInv' /\ UNCHANGED <<States, Cells>> /\ Follows(t)
  BY <1>2, <1>3, <1>4, Passive
<1>6. VisibleQuery(t) = [phase |-> "idle"] /\ VisibleQuery(t)' = [phase |-> "called", req |-> r]
  BY <1>2 DEF VisibleQuery
<1>7. Queries[t].phase = "idle" /\ Queries' = [Queries EXCEPT ![t] = [phase |-> "called", req |-> r]]
  BY <1>5, <1>6 DEF Follows, Queries
<1>8. r \in Atomic!Request
  BY DEF Asked, Request, Op, Atomic!Request, Atomic!Op
<1>9. Atomic!Call(t)
  BY <1>5, <1>7, <1>8 DEF Atomic!Call
<1>10. QED
  BY <1>5, <1>9 DEF Implements, Atomic!Next

(* Finding the database in the cache. *)
LEMMA FindImplements ==
  ASSUME IInv, RInv, IInv', NEW t \in Thread, Find(t)
  PROVE  Implements
<1>1. RowsStay /\ UNCHANGED databases
  BY NothingStays DEF Find
<1>2. CASE Fail(t)
  BY <1>1, <1>2, FailRefuses DEF Find
<1>3. CASE ~Fail(t)
  <2>1. Alone(t) /\ thread'[t].at \in {"load", "table"} /\ thread'[t].req = thread[t].req
    BY <1>3 DEF Find, IInv, TypeOK, Alone
  <2>2. QED
    BY <1>1, <2>1, WaysStutter DEF Find
<1>4. QED
  BY <1>2, <1>3

(* Finding the table and reading the parameters. *)
LEMMA TableImplements ==
  ASSUME IInv, RInv, IInv', NEW t \in Thread, Table(t)
  PROVE  Implements
<1>1. RowsStay /\ UNCHANGED databases
  BY NothingStays DEF Table
<1>2. CASE Fail(t)
  BY <1>1, <1>2, FailRefuses DEF Table
<1>3. CASE Go(t, "lock")
  <2>1. Alone(t) /\ thread'[t].at = "lock" /\ thread'[t].req = thread[t].req
    BY <1>3 DEF Go, IInv, TypeOK, Alone
  <2>2. QED
    BY <1>1, <2>1, WaysStutter DEF Table
<1>4. QED
  BY <1>2, <1>3 DEF Table

(* A bad id ends the query like any other error. *)
LEMMA BadIdImplements ==
  ASSUME IInv, RInv, IInv', NEW t \in Thread, BadId(t)
  PROVE  Implements
  BY NothingStays, FailRefuses DEF BadId

(* Locking changes no row. *)
LEMMA LockImplements ==
  ASSUME IInv, RInv, IInv', NEW t \in Thread, Lock(t)
  PROVE  Implements
<1>1. UNCHANGED databases /\ thread[t].at = "lock"
  BY DEF Lock
<1>2. thread[t].obj \in DOMAIN objects /\ \A o \in DOMAIN objects : objects[o] \in Object
  BY <1>1 DEF IInv, HasObject, Has, TypeOK
<1>3. CASE Fail(t) /\ UNCHANGED objects
  BY <1>1, <1>3, NothingStays, FailRefuses
<1>4. CASE Go(t, "row")
  <2>1. RowsStay
    <3>1. CASE objects' = [objects EXCEPT ![thread[t].obj].shared = @ + 1]
      BY <1>2, <3>1 DEF RowsStay, RowStays, Object
    <3>2. CASE objects' = [objects EXCEPT ![thread[t].obj].writer = t]
      BY <1>2, <3>2 DEF RowsStay, RowStays, Object
    <3>3. CASE UNCHANGED objects
      BY <3>3, NothingStays
    <3>4. QED
      BY <3>1, <3>2, <3>3 DEF Lock
  <2>2. Alone(t) /\ thread'[t].at = "row" /\ thread'[t].req = thread[t].req
    BY <1>4 DEF Go, IInv, TypeOK, Alone
  <2>3. QED
    BY <1>1, <2>1, <2>2, WaysStutter
<1>5. QED
  BY <1>3, <1>4 DEF Lock

(* A query that returns to its client is over. *)
LEMMA Returns ==
  ASSUME IInv, RInv, IInv', NEW t \in Thread, RowsStay, UNCHANGED databases,
         thread[t].at \in {"unlock", "reply"}, Idle(t)
  PROVE  Implements
<1>1. Alone(t) /\ thread'[t].at = "idle"
  BY DEF Idle, IInv, TypeOK, Alone
<1>2. ~Stores(t) /\ ~Stores(t)' /\ Progress(t)'
  BY <1>1 DEF Stores, Progress
<1>3. RInv' /\ UNCHANGED <<States, Cells>> /\ Follows(t)
  BY <1>1, <1>2, Passive
<1>4. VisibleQuery(t).phase = "answered" /\ VisibleQuery(t)' = [phase |-> "idle"]
  BY <1>1 DEF VisibleQuery
<1>5. Queries[t].phase = "answered" /\ Queries' = [Queries EXCEPT ![t] = [phase |-> "idle"]]
  BY <1>3, <1>4 DEF Follows, Queries
<1>6. Atomic!Return(t)
  BY <1>3, <1>5 DEF Atomic!Return
<1>7. QED
  BY <1>3, <1>6 DEF Implements, Atomic!Next

(* Unlocking changes no row and returns. *)
LEMMA UnlockImplements ==
  ASSUME IInv, RInv, IInv', NEW t \in Thread, Unlock(t)
  PROVE  Implements
<1>1. UNCHANGED databases /\ thread[t].at = "unlock" /\ Idle(t)
  BY DEF Unlock
<1>2. thread[t].obj \in DOMAIN objects /\ \A o \in DOMAIN objects : objects[o] \in Object
  BY <1>1 DEF IInv, HasObject, Has, Inside, TypeOK
<1>3. RowsStay
  <2>1. CASE objects' = [objects EXCEPT ![thread[t].obj].shared = @ - 1]
    BY <1>2, <2>1 DEF RowsStay, RowStays, Object
  <2>2. CASE objects' = [objects EXCEPT ![thread[t].obj].writer = NoThread]
    BY <1>2, <2>2 DEF RowsStay, RowStays, Object
  <2>3. QED
    BY <2>1, <2>2 DEF Unlock
<1>4. QED
  BY <1>1, <1>3, Returns

(* An error is told. *)
LEMMA ReplyImplements ==
  ASSUME IInv, RInv, IInv', NEW t \in Thread, Reply(t)
  PROVE  Implements
  BY NothingStays, Returns DEF Reply

(* A thread inside sees its row as it is in memory, or is storing it. *)
SeesIts(t) ==
  LET d == thread[t].req.db
      k == thread[t].req.key
  IN  /\ VisibleState(d, k) = IF Stores(t) THEN thread[t].old.state ELSE Row(t)
      /\ VisibleCells(d, k) = IF Stores(t) THEN thread[t].old.cells ELSE ItsMem(t)

AllSeeTheirs == \A t \in Thread : Inside(t) => SeesIts(t)

(* This follows from the invariants. *)
LEMMA MemorySeen == IInv /\ RInv => AllSeeTheirs
<1> SUFFICES ASSUME IInv, RInv, NEW t \in Thread, Inside(t),
                    NEW d, d = thread[t].req.db, NEW k, k = thread[t].req.key
             PROVE  /\ VisibleState(d, k) = IF Stores(t) THEN thread[t].old.state ELSE Row(t)
                    /\ VisibleCells(d, k) = IF Stores(t) THEN thread[t].old.cells ELSE ItsMem(t)
  BY DEF SeesIts, AllSeeTheirs
<1>1. d \in Db /\ k \in Key /\ databases[d] = thread[t].obj /\ databases[d] # 0
  BY DEF IInv, TypeOK, HasObject, Has, Inside, Request
<1>2. SeenAt(d, k)
  BY <1>1, SeenHolds DEF Seen
<1>3. CASE Stores(t)
  BY <1>2, <1>3 DEF SeenAt, StoresAt
<1>4. CASE ~Stores(t)
  <2>1. ASSUME NEW u \in Thread PROVE ~StoresAt(u, d, k)
    <3>1. StoresAt(u, d, k) => Inside(u) /\ ~Reading(u) /\ u # t
      BY <1>4 DEF StoresAt, Stores, Inside, Reading, RInv, Progress, Started
    <3>2. QED
      BY <3>1, Exclusive DEF WritersExclude, StoresAt
  <2>2. QED
    BY <1>1, <1>2, <1>4, <2>1 DEF SeenAt, Row, ItsMem, Held
<1>5. QED
  BY <1>3, <1>4

(* So an abstract row is the one it finds in memory, before it stores. *)
LEMMA AbstractRow ==
  ASSUME IInv, RInv, NEW t \in Thread, Inside(t)
  PROVE  /\ States[thread[t].req.db][thread[t].req.key] = IF Stores(t) THEN thread[t].old.state ELSE Row(t)
         /\ Cells[thread[t].req.db][thread[t].req.key] = IF Stores(t) THEN thread[t].old.cells ELSE ItsMem(t)
<1>1. thread[t].req.db \in Db /\ thread[t].req.key \in Key
  BY DEF IInv, TypeOK, Inside, Request
<1>2. QED
  BY <1>1, MemorySeen DEF States, Cells, SeesIts, AllSeeTheirs

(* Looking at the row answers a select, unless the row has yet to go. *)
LEMMA LookImplements ==
  ASSUME IInv, RInv, IInv', NEW t \in Thread, Look(t)
  PROVE  Implements
<1> DEFINE d == thread[t].req.db
           k == thread[t].req.key
<1>1. RowsStay /\ UNCHANGED <<databases, objects>>
  BY NothingStays DEF Look
<1>2. Inside(t) /\ Reading(t) /\ ~Stores(t) /\ VisibleQuery(t) = Called(t) /\ thread[t].req.op = "select"
  BY DEF Look, Inside, Reading, Stores, VisibleQuery, Called
<1>3. /\ States[thread[t].req.db][thread[t].req.key] = Row(t)
      /\ Cells[thread[t].req.db][thread[t].req.key] = ItsMem(t)
  BY <1>2, AbstractRow
<1>4. CASE Row(t) = "none" /\ Ends(t, "none")
  <2>1. Alone(t) /\ Progress(t)' /\ ~Stores(t)' /\ VisibleQuery(t)' = AnsweredWith(t, "none")
    BY <1>4, EndsIs
  <2>2. RInv' /\ UNCHANGED <<States, Cells>> /\ Follows(t)
    BY <1>1, <1>2, <2>1, Passive
  <2>3. Queries[t].phase = "called" /\ Queries[t].req = thread[t].req /\ Atomic!Answered(t, "none")
    BY <1>2, <2>1, <2>2, Answers
  <2>4. States = [States EXCEPT ![d][k] = "none"]
    BY <1>3, <1>4 DEF States
  <2>5. Atomic!Select(t)
    BY <1>2, <1>3, <1>4, <2>2, <2>3, <2>4 DEF Atomic!Select
  <2>6. QED
    BY <2>2, <2>5 DEF Implements, Atomic!Next
<1>5. CASE Row(t) = "dead" /\ Go(t, "erase")
  <2>1. Alone(t) /\ thread'[t].at = "erase" /\ thread'[t].req = thread[t].req
        /\ thread'[t].obj = thread[t].obj
    BY <1>5 DEF Go, IInv, TypeOK, Alone
  <2>2. Progress(t)' /\ ~Stores(t)' /\ VisibleQuery(t)' = VisibleQuery(t)
    BY <1>1, <1>2, <1>5, <2>1 DEF Progress, Stores, VisibleQuery, Called, Row, Held, Reading
  <2>3. RInv' /\ UNCHANGED <<States, Cells>> /\ Follows(t)
    BY <1>1, <1>2, <2>1, <2>2, Passive
  <2>4. QED
    BY <2>2, <2>3, Stutters DEF Implements
<1>6. CASE Row(t) = "live" /\ Go(t, "read1")
  <2>1. Alone(t) /\ thread'[t].at = "read1" /\ thread'[t].req = thread[t].req
        /\ thread'[t].obj = thread[t].obj
    BY <1>6 DEF Go, IInv, TypeOK, Alone
  <2>2. Progress(t)' /\ ~Stores(t)' /\ VisibleQuery(t)' = AnsweredWith(t, ItsMem(t))
    BY <1>1, <1>2, <2>1
       DEF Progress, Stores, VisibleQuery, VisibleAnswer, AnsweredWith, ItsMem, Held, Reading
  <2>3. RInv' /\ UNCHANGED <<States, Cells>> /\ Follows(t)
    BY <1>1, <1>2, <2>1, <2>2, Passive
  <2>4. Queries[t].phase = "called" /\ Queries[t].req = thread[t].req /\ Atomic!Answered(t, ItsMem(t))
    BY <1>2, <2>2, <2>3, Answers
  <2>5. Atomic!Select(t)
    BY <1>2, <1>3, <1>6, <2>3, <2>4 DEF Atomic!Select
  <2>6. QED
    BY <2>3, <2>5 DEF Implements, Atomic!Next
<1>7. QED
  BY <1>4, <1>5, <1>6 DEF Look

(* Reading the fields shows what the row had when it was found. *)
LEMMA ReadsStutter ==
  ASSUME IInv, RInv, IInv', NEW t \in Thread, UNCHANGED <<databases, objects>>, Alone(t),
         thread[t].at \in {"read1", "read2"}, thread'[t].at \in {"read2", "unlock"},
         thread'[t].req = thread[t].req, thread'[t].obj = thread[t].obj,
         thread'[t].at = "read2" => thread'[t].got = <<ItsMem(t)[1]>>,
         thread'[t].at = "unlock" => thread'[t].got = ItsMem(t),
         thread[t].at = "read2" => ItsMem(t) = Append(thread[t].got, ItsMem(t)[2]),
         thread'[t].at = "read2" => ItsMem(t) = Append(thread'[t].got, ItsMem(t)[2])
  PROVE  Implements
<1>1. RowsStay
  BY NothingStays
<1>2. ~Stores(t) /\ ~Stores(t)' /\ Reading(t)
  BY DEF Stores, RInv, Progress
<1>3. Progress(t)'
  BY <1>2 DEF Progress, Stores, Reading, ItsMem, Held
<1>4. VisibleQuery(t)' = VisibleQuery(t)
  <2>1. VisibleQuery(t) = AnsweredWith(t, ItsMem(t))
    BY DEF VisibleQuery, VisibleAnswer, AnsweredWith, ItsMem
  <2>2. VisibleQuery(t)' = AnsweredWith(t, ItsMem(t))
    BY DEF VisibleQuery, VisibleAnswer, AnsweredWith, ItsMem, Held
  <2>3. QED
    BY <2>1, <2>2
<1>5. RInv' /\ UNCHANGED <<States, Cells>> /\ Follows(t)
  BY <1>1, <1>2, <1>3, Passive
<1>6. QED
  BY <1>4, <1>5, Stutters DEF Implements

(* A row in memory has two cells. *)
LEMMA TwoCells ==
  ASSUME IInv, NEW t \in Thread, Inside(t)
  PROVE  /\ thread[t].obj \in DOMAIN objects /\ objects[thread[t].obj] \in Object
         /\ thread[t].req.key \in Key /\ thread[t].req.db \in Db
         /\ ItsMem(t) \in [1..2 -> Cell] /\ ItsMem(t) = <<ItsMem(t)[1], ItsMem(t)[2]>>
         /\ Row(t) \in {"none", "live", "dead"}
<1>1. thread[t].obj \in DOMAIN objects /\ thread[t].req.key \in Key /\ thread[t].req.db \in Db
  BY DEF IInv, TypeOK, HasObject, Has, Inside, Request
<1>2. objects[thread[t].obj] \in Object
  BY <1>1 DEF IInv, TypeOK
<1>3. ItsMem(t) \in [1..2 -> Cell] /\ Row(t) \in {"none", "live", "dead"}
  BY <1>1, <1>2 DEF Object, ItsMem, Row, Held
<1>4. QED
  BY <1>1, <1>2, <1>3

(* Reading the first field. *)
LEMMA Read1Implements ==
  ASSUME IInv, RInv, IInv', NEW t \in Thread, Read1(t)
  PROVE  Implements
<1>1. thread[t].at = "read1" /\ Inside(t)
  BY DEF Read1, Inside
<1>2. /\ Alone(t) /\ thread'[t].at = "read2" /\ thread'[t].got = <<ItsMem(t)[1]>>
      /\ thread'[t].req = thread[t].req /\ thread'[t].obj = thread[t].obj
  BY DEF Read1, IInv, TypeOK, Alone, ItsMem
<1>3. ItsMem(t) = Append(thread'[t].got, ItsMem(t)[2])
  BY <1>1, <1>2, TwoCells
<1>4. UNCHANGED <<databases, objects>>
  BY DEF Read1
<1>5. QED
  BY <1>1, <1>2, <1>3, <1>4, ReadsStutter

(* Reading the second field. *)
LEMMA Read2Implements ==
  ASSUME IInv, RInv, IInv', NEW t \in Thread, Read2(t)
  PROVE  Implements
<1>1. thread[t].at = "read2" /\ Inside(t)
  BY DEF Read2, Inside
<1>2. /\ Alone(t) /\ thread'[t].at = "unlock" /\ thread'[t].got = Append(thread[t].got, ItsMem(t)[2])
      /\ thread'[t].req = thread[t].req /\ thread'[t].obj = thread[t].obj
  BY DEF Read2, Ends, IInv, TypeOK, Alone, ItsMem
<1>3. thread[t].got = <<ItsMem(t)[1]>>
  BY <1>1 DEF RInv, Progress, ItsMem
<1>4. ItsMem(t) = Append(thread[t].got, ItsMem(t)[2])
  BY <1>1, <1>3, TwoCells
<1>5. UNCHANGED <<databases, objects>>
  BY DEF Read2
<1>6. QED
  BY <1>1, <1>2, <1>4, <1>5, ReadsStutter

(* Setting the row of a thread changes no other. *)
LEMMA SetRowIs ==
  ASSUME IInv, NEW t \in Thread, Inside(t), NEW s, SetRow(t, s)
  PROVE  /\ RowsStayBut(thread[t].obj, thread[t].req.key)
         /\ objects'[thread[t].obj].keys[thread[t].req.key] = s
         /\ objects'[thread[t].obj].mem[thread[t].req.key] = ItsMem(t)
<1> DEFINE o == thread[t].obj
           k == thread[t].req.key
           new == [objects[o] EXCEPT !.keys[k] = s]
<1>1. o \in DOMAIN objects /\ objects[o] \in Object /\ k \in Key
  BY TwoCells
<1>2. objects' = [objects EXCEPT ![o] = new]
  BY DEF SetRow
<1>3. /\ new.db = objects[o].db /\ new.mem = objects[o].mem /\ new.keys[k] = s
      /\ \A j \in Key : j # k => new.keys[j] = objects[o].keys[j]
  BY <1>1 DEF Object
<1>4. \A q \in DOMAIN objects : objects'[q] = IF q = o THEN new ELSE objects[q]
  BY <1>2
<1>5. QED
  BY <1>1, <1>3, <1>4 DEF RowsStayBut, RowStays, ItsMem, Held

(* A row that is set to what it is stays. *)
LEMMA SetToItself ==
  ASSUME NEW d \in Db, NEW k \in Key
  PROVE  /\ [States EXCEPT ![d][k] = States[d][k]] = States
         /\ [Cells EXCEPT ![d][k] = Cells[d][k]] = Cells
  BY DEF States, Cells

(* The abstract row of thread t becomes this. *)
RowBecomes(t, st, cells) ==
  /\ States' = [States EXCEPT ![thread[t].req.db][thread[t].req.key] = st]
  /\ Cells' = [Cells EXCEPT ![thread[t].req.db][thread[t].req.key] = cells]

(* What the thread sees after a step that changed its row. *)
LEMMA RowAfter ==
  ASSUME IInv', RInv', NEW t \in Thread, Inside(t)', RowFollows(t),
         thread'[t].req = thread[t].req, thread'[t].obj = thread[t].obj
  PROVE  IF Stores(t)' THEN RowBecomes(t, thread'[t].old.state, thread'[t].old.cells)
         ELSE RowBecomes(t, objects'[thread[t].obj].keys[thread[t].req.key],
                            objects'[thread[t].obj].mem[thread[t].req.key])
<1> DEFINE d == thread[t].req.db
           k == thread[t].req.key
<1>1. AllSeeTheirs'
  BY MemorySeen, PTL
<1>2. SeesIts(t)'
  BY <1>1 DEF AllSeeTheirs
<1>3. /\ VisibleState(d, k)' = IF Stores(t)' THEN thread'[t].old.state ELSE objects'[thread[t].obj].keys[k]
      /\ VisibleCells(d, k)' = IF Stores(t)' THEN thread'[t].old.cells ELSE objects'[thread[t].obj].mem[k]
  BY <1>2 DEF SeesIts, Row, ItsMem, Held
<1>4. QED
  BY <1>3 DEF RowFollows, RowBecomes

(* Erasing an expired row answers a select. *)
LEMMA EraseImplements ==
  ASSUME IInv, RInv, IInv', NEW t \in Thread, Erase(t)
  PROVE  Implements
<1> DEFINE d == thread[t].req.db
           k == thread[t].req.key
<1>1. Inside(t) /\ Reading(t) /\ Row(t) # "live" /\ ~Stores(t) /\ VisibleQuery(t) = Called(t)
  BY DEF Erase, Inside, RInv, Progress, Stores, VisibleQuery, Called
<1>2. Ends(t, "none") /\ SetRow(t, "none") /\ UNCHANGED databases
  BY DEF Erase
<1>3. /\ Alone(t) /\ Progress(t)' /\ ~Stores(t)' /\ thread'[t].req = thread[t].req
      /\ VisibleQuery(t)' = AnsweredWith(t, "none")
  BY <1>2, EndsIs
<1>4. thread'[t].at = "unlock" /\ thread'[t].obj = thread[t].obj
  BY <1>2 DEF Ends, IInv, TypeOK
<1>5. /\ RowsStayBut(thread[t].obj, k)
      /\ objects'[thread[t].obj].keys[k] = "none" /\ objects'[thread[t].obj].mem[k] = ItsMem(t)
  BY <1>1, <1>2, SetRowIs
<1>6. RInv' /\ RowFollows(t) /\ Follows(t)
  BY <1>1, <1>2, <1>3, <1>5, Active
<1>7. States' = [States EXCEPT ![d][k] = "none"] /\ Cells' = [Cells EXCEPT ![d][k] = ItsMem(t)]
  <2>1. RowBecomes(t, objects'[thread[t].obj].keys[k], objects'[thread[t].obj].mem[k])
    BY <1>3, <1>4, <1>6, RowAfter DEF Inside
  <2>2. QED
    BY <1>5, <2>1 DEF RowBecomes
<1>8. States[d][k] = Row(t) /\ Cells[d][k] = ItsMem(t) /\ d \in Db /\ k \in Key
  BY <1>1, AbstractRow, TwoCells
<1>9. UNCHANGED Cells
  BY <1>7, <1>8, SetToItself
<1>10. Queries[t].phase = "called" /\ Queries[t].req = thread[t].req /\ Atomic!Answered(t, "none")
  BY <1>1, <1>3, <1>6, Answers
<1>11. Atomic!Select(t)
  BY <1>1, <1>7, <1>8, <1>9, <1>10 DEF Atomic!Select, Reading
<1>12. QED
  BY <1>6, <1>11 DEF Implements, Atomic!Next

(* Finding the row refuses, answers or begins to store. *)
LEMMA ChangeImplements ==
  ASSUME IInv, RInv, IInv', NEW t \in Thread, Change(t)
  PROVE  Implements
<1> DEFINE d == thread[t].req.db
           k == thread[t].req.key
           op == thread[t].req.op
           o == thread[t].obj
<1>1. /\ Inside(t) /\ ~Reading(t) /\ ~Stores(t) /\ VisibleQuery(t) = Called(t)
      /\ UNCHANGED databases /\ thread[t].at = "row"
  BY DEF Change, Inside, Stores, VisibleQuery, Called
<1>2. States[d][k] = Row(t) /\ Cells[d][k] = ItsMem(t) /\ d \in Db /\ k \in Key
      /\ Row(t) \in {"none", "live", "dead"} /\ ItsMem(t) \in [1..2 -> Cell]
  BY <1>1, AbstractRow, TwoCells
<1>3. ASSUME NEW got, Ends(t, got), UNCHANGED objects
      PROVE  /\ RInv' /\ UNCHANGED <<States, Cells>> /\ Follows(t)
             /\ VisibleQuery(t)' = AnsweredWith(t, got)
             /\ Queries[t].phase = "called" /\ Queries[t].req = thread[t].req /\ Atomic!Answered(t, got)
  <2>1. /\ Alone(t) /\ Progress(t)' /\ ~Stores(t)' /\ thread'[t].req = thread[t].req
        /\ VisibleQuery(t)' = AnsweredWith(t, got) /\ RowsStay
    BY <1>3, EndsIs, NothingStays
  <2>2. RInv' /\ UNCHANGED <<States, Cells>> /\ Follows(t)
    BY <1>1, <2>1, Passive
  <2>3. QED
    BY <1>1, <2>1, <2>2, Answers
<1>4. CASE op = "insert" /\ Row(t) # "none" /\ Ends(t, "error") /\ UNCHANGED objects
  <2>1. Atomic!Next
    BY <1>1, <1>3, <1>4, Refuses
  <2>2. QED
    BY <1>3, <1>4, <2>1 DEF Implements
<1>5. CASE op = "update" /\ Row(t) = "none" /\ Ends(t, "none") /\ UNCHANGED objects
  <2>1. Atomic!UpdateNothing(t)
    BY <1>2, <1>3, <1>5 DEF Atomic!UpdateNothing
  <2>2. QED
    BY <1>3, <1>5, <2>1 DEF Implements, Atomic!Next
<1>6. ASSUME op = "delete", SetRow(t, "none"),
             NEW got, got = IF Row(t) = "none" THEN "none" ELSE "done", Ends(t, got)
      PROVE  Implements
  <2>1. /\ Alone(t) /\ Progress(t)' /\ ~Stores(t)' /\ thread'[t].req = thread[t].req
        /\ VisibleQuery(t)' = AnsweredWith(t, got)
    BY <1>6, EndsIs
  <2>2. thread'[t].at = "unlock" /\ thread'[t].obj = thread[t].obj
    BY <1>6 DEF Ends, IInv, TypeOK
  <2>3. RowsStayBut(o, k) /\ objects'[o].keys[k] = "none" /\ objects'[o].mem[k] = ItsMem(t)
    BY <1>1, <1>6, SetRowIs
  <2>4. RInv' /\ RowFollows(t) /\ Follows(t)
    BY <1>1, <2>1, <2>3, Active
  <2>5. RowBecomes(t, objects'[o].keys[k], objects'[o].mem[k])
    BY <2>1, <2>2, <2>4, RowAfter DEF Inside
  <2>6. States' = [States EXCEPT ![d][k] = "none"] /\ Cells' = [Cells EXCEPT ![d][k] = Cells[d][k]]
    BY <1>2, <2>3, <2>5 DEF RowBecomes
  <2>7. UNCHANGED Cells
    BY <1>2, <2>6, SetToItself
  <2>8. Queries[t].phase = "called" /\ Queries[t].req = thread[t].req /\ Atomic!Answered(t, got)
    BY <1>1, <2>1, <2>4, Answers
  <2>9. Atomic!Delete(t)
    BY <1>2, <1>6, <2>6, <2>7, <2>8 DEF Atomic!Delete
  <2>10. QED
    BY <2>4, <2>9 DEF Implements, Atomic!Next
<1>7. ASSUME \/ op = "insert" /\ Row(t) = "none"
             \/ op = "update" /\ Row(t) # "none"
             \/ op = "replace",
             SetRow(t, "live"),
             thread' = [thread EXCEPT ![t].at = "write1",
               ![t].old = [state |-> Row(t), cells |-> ItsMem(t)]]
      PROVE  Implements
  <2>1. /\ Alone(t) /\ thread'[t].at = "write1" /\ thread'[t].req = thread[t].req
        /\ thread'[t].obj = thread[t].obj
        /\ thread'[t].old = [state |-> Row(t), cells |-> ItsMem(t)]
    BY <1>7 DEF Alone, IInv, TypeOK
  <2>2. RowsStayBut(o, k) /\ objects'[o].keys[k] = "live" /\ objects'[o].mem[k] = ItsMem(t)
    BY <1>1, <1>7, SetRowIs
  <2>3. Stores(t)' /\ Inside(t)'
    BY <2>1 DEF Stores, Inside
  <2>4. Started(t)'
    <3>1. thread'[t].old.state = Row(t) /\ thread'[t].old.cells = ItsMem(t)
      BY <2>1
    <3>2. Row(t)' = "live" /\ ItsMem(t)' = ItsMem(t)
      BY <2>1, <2>2 DEF Row, ItsMem, Held
    <3>3. op \in {"insert", "update", "replace"}
          /\ (op = "insert" => Row(t) = "none") /\ (op = "update" => Row(t) # "none")
      BY <1>7
    <3>4. QED
      BY <1>2, <2>1, <3>1, <3>2, <3>3 DEF Started, ItsMem
  <2>5. Progress(t)'
    BY <2>1, <2>4 DEF Progress
  <2>6. RInv' /\ RowFollows(t) /\ Follows(t)
    BY <1>1, <2>1, <2>2, <2>5, Active
  <2>7. RowBecomes(t, thread'[t].old.state, thread'[t].old.cells)
    BY <2>1, <2>3, <2>6, RowAfter
  <2>8. States' = [States EXCEPT ![d][k] = States[d][k]] /\ Cells' = [Cells EXCEPT ![d][k] = Cells[d][k]]
    BY <1>2, <2>1, <2>7 DEF RowBecomes
  <2>9. UNCHANGED <<States, Cells>>
    BY <1>2, <2>8, SetToItself
  <2>10. VisibleQuery(t)' = VisibleQuery(t)
    BY <1>1, <2>1 DEF VisibleQuery
  <2>11. QED
    BY <2>6, <2>9, <2>10, Stutters DEF Implements
<1>8. QED
  BY <1>4, <1>5, <1>6, <1>7 DEF Change, ItsMem

(* Storing a field of the row of a thread changes no other row. *)
LEMMA StoreIs ==
  ASSUME IInv, NEW t \in Thread, Inside(t), NEW i \in {1, 2},
         objects' = [objects EXCEPT ![thread[t].obj].mem[thread[t].req.key][i] = t]
  PROVE  /\ RowsStayBut(thread[t].obj, thread[t].req.key)
         /\ objects'[thread[t].obj].keys[thread[t].req.key] = Row(t)
         /\ objects'[thread[t].obj].mem[thread[t].req.key] = [ItsMem(t) EXCEPT ![i] = t]
<1> DEFINE o == thread[t].obj
           k == thread[t].req.key
           cells == [objects[o].mem[k] EXCEPT ![i] = t]
           new == [objects[o] EXCEPT !.mem[k] = cells]
<1>1. o \in DOMAIN objects /\ objects[o] \in Object /\ k \in Key
  BY TwoCells
<1>2. objects' = [objects EXCEPT ![o] = new]
  OBVIOUS
<1> HIDE DEF cells
<1>3. /\ new.db = objects[o].db /\ new.keys = objects[o].keys /\ new.mem[k] = cells
      /\ \A j \in Key : j # k => new.mem[j] = objects[o].mem[j]
  BY <1>1 DEF Object
<1>4. \A q \in DOMAIN objects : objects'[q] = IF q = o THEN new ELSE objects[q]
  BY <1>2
<1> HIDE DEF new
<1>5. RowsStayBut(o, k)
  BY <1>1, <1>3, <1>4 DEF RowsStayBut, RowStays
<1>6. objects'[o].keys[k] = Row(t) /\ objects'[o].mem[k] = [ItsMem(t) EXCEPT ![i] = t]
  BY <1>1, <1>3, <1>4 DEF ItsMem, Row, Held, cells
<1>7. QED
  BY <1>5, <1>6

(* Storing the first field shows nothing yet. *)
LEMMA Write1Implements ==
  ASSUME IInv, RInv, IInv', NEW t \in Thread, Write1(t)
  PROVE  Implements
<1> DEFINE d == thread[t].req.db
           k == thread[t].req.key
           o == thread[t].obj
<1>1. Inside(t) /\ Stores(t) /\ Started(t) /\ ~Reading(t) /\ thread[t].at = "write1" /\ UNCHANGED databases
  BY DEF Write1, Inside, Stores, Reading, RInv, Progress, Started
<1>2. /\ Alone(t) /\ thread'[t].at = "write2" /\ thread'[t].req = thread[t].req
      /\ thread'[t].obj = thread[t].obj /\ thread'[t].old = thread[t].old
  BY DEF Write1, Go, Alone, IInv, TypeOK
<1>3. RowsStayBut(o, k) /\ objects'[o].keys[k] = Row(t) /\ objects'[o].mem[k] = [ItsMem(t) EXCEPT ![1] = t]
  BY <1>1, StoreIs DEF Write1
<1>4. Stores(t)' /\ Inside(t)'
  BY <1>2 DEF Stores, Inside
<1>5. Started(t)'
  BY <1>1, <1>2, <1>3 DEF Started, Row, Held, ItsMem
<1>6. Progress(t)'
  BY <1>2, <1>5 DEF Progress
<1>7. RInv' /\ RowFollows(t) /\ Follows(t)
  BY <1>1, <1>2, <1>3, <1>6, Active
<1>8. RowBecomes(t, thread[t].old.state, thread[t].old.cells)
  BY <1>2, <1>4, <1>7, RowAfter
<1>9. States[d][k] = thread[t].old.state /\ Cells[d][k] = thread[t].old.cells /\ d \in Db /\ k \in Key
  BY <1>1, AbstractRow, TwoCells
<1>10. UNCHANGED <<States, Cells>>
  BY <1>8, <1>9, SetToItself DEF RowBecomes
<1>11. VisibleQuery(t)' = VisibleQuery(t)
  BY <1>1, <1>2 DEF VisibleQuery
<1>12. QED
  BY <1>7, <1>10, <1>11, Stutters DEF Implements

(* Storing or refusing the last field is the abstract write. *)
LEMMA Write2Implements ==
  ASSUME IInv, RInv, IInv', NEW t \in Thread, Write2(t)
  PROVE  Implements
<1> DEFINE d == thread[t].req.db
           k == thread[t].req.key
           o == thread[t].obj
           old == thread[t].old
           got == IF thread[t].req.kind = "refused" THEN "error" ELSE "done"
           cells == IF thread[t].req.kind = "refused" THEN [old.cells EXCEPT ![1] = t] ELSE <<t, t>>
<1>1. /\ Inside(t) /\ Stores(t) /\ Started(t) /\ ~Reading(t) /\ VisibleQuery(t) = Called(t)
      /\ thread[t].at = "write2" /\ UNCHANGED databases
  BY DEF Write2, Inside, Stores, Reading, RInv, Progress, Started, VisibleQuery, Called
<1>2. /\ old.cells \in [1..2 -> Cell] /\ Row(t) = "live" /\ ItsMem(t) = [old.cells EXCEPT ![1] = t]
  BY <1>1 DEF Started, ItsMem
<1>3. Ends(t, got)
  BY DEF Write2
<1>4. /\ Alone(t) /\ Progress(t)' /\ ~Stores(t)' /\ thread'[t].req = thread[t].req
      /\ VisibleQuery(t)' = AnsweredWith(t, got)
  BY <1>3, EndsIs
<1>5. thread'[t].at = "unlock" /\ thread'[t].obj = thread[t].obj
  BY <1>3 DEF Ends, IInv, TypeOK
<1>6. RowsStayBut(o, k) /\ objects'[o].keys[k] = "live" /\ objects'[o].mem[k] = cells
  <2>1. CASE thread[t].req.kind = "refused"
    <3>1. UNCHANGED objects
      BY <2>1 DEF Write2
    <3>2. QED
      BY <1>2, <2>1, <3>1 DEF RowsStayBut, RowStays, Row, ItsMem, Held
  <2>2. CASE thread[t].req.kind # "refused"
    <3>1. RowsStayBut(o, k) /\ objects'[o].keys[k] = Row(t) /\ objects'[o].mem[k] = [ItsMem(t) EXCEPT ![2] = t]
      BY <1>1, <2>2, StoreIs DEF Write2
    <3>2. [[old.cells EXCEPT ![1] = t] EXCEPT ![2] = t] = <<t, t>>
      BY <1>2
    <3>3. QED
      BY <1>2, <2>2, <3>1, <3>2
  <2>3. QED
    BY <2>1, <2>2
<1>7. RInv' /\ RowFollows(t) /\ Follows(t)
  BY <1>1, <1>4, <1>6, Active
<1>8. RowBecomes(t, objects'[o].keys[k], objects'[o].mem[k])
  BY <1>4, <1>5, <1>7, RowAfter DEF Inside
<1>9. States' = [States EXCEPT ![d][k] = "live"] /\ Cells' = [Cells EXCEPT ![d][k] = cells]
  BY <1>6, <1>8 DEF RowBecomes
<1>10. States[d][k] = old.state /\ Cells[d][k] = old.cells /\ d \in Db /\ k \in Key
  BY <1>1, AbstractRow, TwoCells
<1>11. Queries[t].phase = "called" /\ Queries[t].req = thread[t].req /\ Atomic!Answered(t, got)
  BY <1>1, <1>4, <1>7, Answers
<1>12. Atomic!Write(t)
  <2>1. /\ thread[t].req.op \in {"insert", "update", "replace"}
        /\ thread[t].req.op = "insert" => States[d][k] = "none"
        /\ thread[t].req.op = "update" => States[d][k] # "none"
    BY <1>1, <1>10 DEF Started
  <2>2. CASE thread[t].req.kind = "refused"
    <3>1. Cells' = [Cells EXCEPT ![d][k] = [Cells[d][k] EXCEPT ![1] = t]]
      BY <1>9, <1>10, <2>2
    <3>2. Cells' = [Cells EXCEPT ![d][k][1] = t]
      BY <3>1
    <3>3. QED
      BY <1>9, <1>11, <2>1, <2>2, <3>2 DEF Atomic!Write
  <2>3. CASE thread[t].req.kind # "refused"
    BY <1>9, <1>11, <2>1, <2>3 DEF Atomic!Write
  <2>4. QED
    BY <2>2, <2>3
<1>13. QED
  BY <1>7, <1>12 DEF Implements, Atomic!Next

(* Opening a database shows nothing: its rows were absent before. *)
LEMMA OpenImplements ==
  ASSUME IInv, RInv, IInv', NEW t \in Thread, thread[t].at = "load",
         databases[thread[t].req.db] = 0,
         objects' = Append(objects, Opened(thread[t].req.db)),
         databases' = [databases EXCEPT ![thread[t].req.db] = Len(objects) + 1],
         thread' = [thread EXCEPT ![t].at = "table", ![t].obj = Len(objects) + 1]
  PROVE  Implements
<1> DEFINE e == thread[t].req.db
           n == Len(objects) + 1
<1>1. /\ Alone(t) /\ thread'[t].at = "table" /\ thread'[t].req = thread[t].req /\ thread[t].at = "load"
      /\ e \in Db /\ objects \in Seq(Object) /\ DOMAIN databases = Db
      /\ \A d \in Db : databases[d] \in 0..Len(objects)
  BY DEF Alone, IInv, TypeOK, Request
<1>2. (\A o \in DOMAIN objects : objects'[o] = objects[o]) /\ objects'[n] = Opened(e) /\ n # 0
      /\ DOMAIN objects = 1..Len(objects)
  <2>1. objects \in Seq(Object) /\ Opened(e) \in {Opened(e)}
    BY <1>1
  <2>2. QED
    BY <2>1
<1>3. databases'[e] = n /\ \A d \in Db : d # e => databases'[d] = databases[d]
  BY <1>1
<1>4. ASSUME NEW u \in Thread, u # t
      PROVE  Progress(u)' /\ VisibleQuery(u)' = VisibleQuery(u)
  <2>1. thread'[u] = thread[u]
    BY <1>1, <1>4 DEF Alone
  <2>2. ASSUME Inside(u) PROVE ItsMem(u)' = ItsMem(u) /\ Row(u)' = Row(u)
    <3>1. thread[u].obj \in DOMAIN objects
      BY <2>2, TwoCells
    <3>2. QED
      BY <1>2, <2>1, <3>1 DEF ItsMem, Row, Held
  <2>3. QED
    BY <2>1, <2>2, Undisturbed
<1>5. Progress(t)' /\ ~Stores(t) /\ ~Stores(t)' /\ VisibleQuery(t)' = VisibleQuery(t)
  BY <1>1 DEF Progress, Stores, VisibleQuery
<1>6. Names'
  <2> SUFFICES ASSUME NEW d \in Db, databases'[d] # 0 PROVE objects'[databases'[d]].db = d
    BY DEF Names
  <2>1. CASE d = e
    BY <1>2, <1>3, <2>1 DEF Opened
  <2>2. CASE d # e
    BY <1>1, <1>2, <1>3, <2>2 DEF RInv, Names
  <2>3. QED
    BY <2>1, <2>2
<1>7. RInv'
  BY <1>4, <1>5, <1>6 DEF RInv
<1>8. Seen
  BY SeenHolds
<1>9. Seen'
  BY <1>7, SeenHolds, PTL
<1>10. ASSUME NEW d \in Db, NEW k \in Key PROVE Same(d, k)
  <2>1. \A u \in Thread :
          /\ StoresAt(u, d, k)' <=> StoresAt(u, d, k)
          /\ StoresAt(u, d, k) => thread'[u].old = thread[u].old
    BY <1>1, <1>5 DEF StoresAt, Stores, Alone
  <2>2. CASE d # e
    <3>1. databases[d] # 0 => objects'[databases[d]] = objects[databases[d]]
      BY <1>1, <1>2
    <3>2. QED
      BY <1>3, <1>8, <1>9, <2>1, <2>2, <3>1, Untouched
  <2>3. CASE d = e
    <3>1. SeenAt(d, k) /\ SeenAt(d, k)'
      BY <1>8, <1>9 DEF Seen
    <3>2. \A u \in Thread : ~StoresAt(u, d, k)
      BY <2>3, <3>1 DEF SeenAt
    <3>3. \A u \in Thread : ~StoresAt(u, d, k)'
      BY <2>1, <3>2
    <3>4. VisibleState(d, k) = "none" /\ VisibleCells(d, k) = <<NoThread, NoThread>>
      BY <2>3, <3>1 DEF SeenAt
    <3>5. VisibleState(d, k)' = objects'[n].keys[k] /\ VisibleCells(d, k)' = objects'[n].mem[k]
      BY <1>2, <1>3, <2>3, <3>1, <3>3 DEF SeenAt
    <3>6. QED
      BY <1>2, <3>4, <3>5 DEF Same, Opened
  <2>4. QED
    BY <2>2, <2>3
<1>11. UNCHANGED <<States, Cells>>
  BY <1>10 DEF States, Cells, Same
<1>12. Follows(t)
  BY <1>4, OneFollows
<1>13. QED
  BY <1>5, <1>7, <1>11, <1>12, Stutters DEF Implements

(* Looking for the database again, and opening it. *)
LEMMA LoadImplements ==
  ASSUME IInv, RInv, IInv', NEW t \in Thread, Load(t)
  PROVE  Implements
<1> DEFINE e == thread[t].req.db
<1>1. thread[t].at = "load" /\ e \in Db /\ DOMAIN databases = Db
  BY DEF Load, IInv, TypeOK, Request
<1>2. CASE databases[e] # 0
  <2>1. /\ Alone(t) /\ thread'[t].at = "table" /\ thread'[t].req = thread[t].req
        /\ UNCHANGED <<databases, objects>>
    BY <1>2 DEF Load, FoundAgain, Alone, IInv, TypeOK
  <2>2. QED
    BY <1>1, <2>1, NothingStays, WaysStutter
<1>3. CASE databases[e] = 0 /\ Fail(t) /\ UNCHANGED <<databases, objects>>
  BY <1>1, <1>3, NothingStays, FailRefuses
<1>4. CASE /\ databases[e] = 0
           /\ objects' = Append(objects, Opened(e))
           /\ databases' = [databases EXCEPT ![e] = IF @ = 0 THEN Len(objects) + 1 ELSE @]
           /\ thread' = [thread EXCEPT ![t].at = "table", ![t].obj = Len(objects) + 1]
  <2>1. databases' = [databases EXCEPT ![e] = Len(objects) + 1]
    BY <1>1, <1>4
  <2>2. QED
    BY <1>1, <1>4, <2>1, OpenImplements
<1>5. QED
  BY <1>2, <1>3, <1>4 DEF Load, FoundAgain

(* A row that expires in memory expires for the clients; one that no name  *)
(* leads to is seen by nobody.                                             *)
LEMMA ExpireImplements ==
  ASSUME IInv, RInv, IInv', NEW o \in DOMAIN objects, NEW k \in Key, Expire(o, k)
  PROVE  Implements
<1> DEFINE new == [objects[o] EXCEPT !.keys[k] = "dead"]
<1>1. objects[o] \in Object /\ UNCHANGED <<databases, thread>> /\ o # 0
      /\ \A d \in Db : databases[d] # 0 => databases[d] \in DOMAIN objects
  BY DEF IInv, TypeOK, Expire
<1>2. objects' = [objects EXCEPT ![o] = new]
  BY DEF Expire
<1>3. /\ new.db = objects[o].db /\ new.mem = objects[o].mem /\ new.keys[k] = "dead"
      /\ \A j \in Key : j # k => new.keys[j] = objects[o].keys[j]
  BY <1>1 DEF Object
<1>4. RowsStayBut(o, k) /\ objects'[o].keys[k] = "dead" /\ objects'[o].mem[k] = objects[o].mem[k]
  BY <1>2, <1>3 DEF RowsStayBut, RowStays
<1>5. ASSUME NEW u \in Thread PROVE Progress(u)' /\ VisibleQuery(u)' = VisibleQuery(u)
  <2>1. thread'[u] = thread[u]
    BY <1>1
  <2>2. ASSUME Inside(u)
        PROVE  ItsMem(u)' = ItsMem(u) /\ (Row(u)' = Row(u) \/ (~Stores(u) /\ Row(u)' # "live"))
    <3>1. thread[u].obj \in DOMAIN objects /\ thread[u].req.key \in Key
      BY <2>2, TwoCells
    <3>2. CASE thread[u].obj = o /\ thread[u].req.key = k
      BY <1>4, <2>1, <3>2 DEF ItsMem, Row, Held, Stores, Expire
    <3>3. CASE thread[u].obj # o \/ thread[u].req.key # k
      BY <1>4, <2>1, <3>1, <3>3 DEF RowsStayBut, RowStays, ItsMem, Row, Held
    <3>4. QED
      BY <3>2, <3>3
  <2>3. QED
    BY <2>1, <2>2, Undisturbed
<1>6. Names'
  BY <1>1, <1>4 DEF RInv, Names, RowsStayBut
<1>7. RInv'
  BY <1>5, <1>6 DEF RInv
<1>8. UNCHANGED Queries
  BY <1>5 DEF Queries
<1>9. Seen
  BY SeenHolds
<1>10. Seen'
  BY <1>7, SeenHolds, PTL
<1>11. ASSUME NEW d \in Db, NEW j \in Key, databases[d] # o \/ j # k PROVE Same(d, j)
  <2>1. \A u \in Thread :
          /\ StoresAt(u, d, j)' <=> StoresAt(u, d, j)
          /\ StoresAt(u, d, j) => thread'[u].old = thread[u].old
    BY <1>1 DEF StoresAt, Stores
  <2>2. databases[d] # 0 =>
          /\ objects'[databases[d]].keys[j] = objects[databases[d]].keys[j]
          /\ objects'[databases[d]].mem[j] = objects[databases[d]].mem[j]
    BY <1>1, <1>4, <1>11 DEF RowsStayBut, RowStays
  <2>3. QED
    BY <1>1, <1>9, <1>10, <2>1, <2>2, Untouched
<1>12. CASE \A d \in Db : databases[d] # o
  <2>1. UNCHANGED <<States, Cells>>
    BY <1>11, <1>12 DEF States, Cells, Same
  <2>2. QED
    BY <1>7, <1>8, <2>1 DEF Implements, Atomic!vars
<1>13. ASSUME NEW d \in Db, databases[d] = o PROVE Implements
  <2>1. \A c \in Db : c # d => databases[c] # o
    BY <1>1, <1>13 DEF RInv, Names
  <2>2. \A u \in Thread : ~StoresAt(u, d, k)
    BY <1>13 DEF StoresAt, Stores, Expire, IInv, HasObject, Has, Inside
  <2>3. \A u \in Thread : ~StoresAt(u, d, k)'
    BY <1>1, <2>2 DEF StoresAt, Stores
  <2>4. SeenAt(d, k) /\ SeenAt(d, k)'
    BY <1>9, <1>10 DEF Seen
  <2>5. /\ VisibleState(d, k) = "live" /\ VisibleState(d, k)' = "dead"
        /\ VisibleCells(d, k)' = VisibleCells(d, k)
    BY <1>1, <1>4, <1>13, <2>2, <2>3, <2>4 DEF SeenAt, Expire
  <2>6. \A c \in Db, j \in Key : c # d \/ j # k => Same(c, j)
    BY <1>11, <2>1
  <2>7. UNCHANGED Cells
    BY <2>5, <2>6 DEF Cells, Same
  <2>8. States[d][k] = "live" /\ States'[d][k] = "dead"
    BY <2>5 DEF States
  <2>9. Replaces(States', States, d, k)
    <3>1. Rows(States) /\ Rows(States')
      BY DEF States, Rows
    <3>2. Differs(States', States, d, k)
      BY <2>6 DEF States, Same, Differs
    <3>3. QED
      BY <3>1, <3>2, OneReplaced
  <2>10. Atomic!Expire(d, k)
    BY <1>8, <2>7, <2>8, <2>9 DEF Replaces, Atomic!Expire
  <2>11. QED
    BY <1>7, <2>10 DEF Implements, Atomic!Next
<1>14. QED
  BY <1>12, <1>13

-----------------------------------------------------------------------------
(* At the beginning no query is called and no row is there. *)
LEMMA InitImplements ==
  ASSUME Init
  PROVE  RInv /\ Atomic!Init
<1>1. IInv
  BY InitKeeps
<1>2. \A t \in Thread : Progress(t) /\ ~Stores(t) /\ VisibleQuery(t) = [phase |-> "idle"]
  BY DEF Init, Progress, Stores, VisibleQuery
<1>3. /\ \A o \in DOMAIN objects : objects[o] = Opened(objects[o].db)
      /\ \A d \in Db : databases[d] # 0 => objects[databases[d]].db = d
  <2>1. CASE loadAll = FALSE /\ objects = <<>> /\ databases = [d \in Db |-> 0]
    BY <2>1
  <2>2. ASSUME NEW n \in 0..Cardinality(Db), NEW f \in [1..n -> Db],
               objects = [i \in 1..n |-> Opened(f[i])],
               databases = [d \in Db |-> IF \E i \in 1..n : f[i] = d
                                         THEN CHOOSE i \in 1..n : f[i] = d ELSE 0]
        PROVE  /\ \A o \in DOMAIN objects : objects[o] = Opened(objects[o].db)
               /\ \A d \in Db : databases[d] # 0 => objects[databases[d]].db = d
    <3>1. \A i \in 1..n : objects[i] = Opened(f[i]) /\ objects[i].db = f[i]
      BY <2>2 DEF Opened
    <3>2. \A o \in DOMAIN objects : objects[o] = Opened(objects[o].db)
      BY <2>2, <3>1
    <3>3. \A d \in Db : databases[d] # 0 => databases[d] \in 1..n /\ f[databases[d]] = d
      BY <2>2
    <3>4. QED
      BY <3>1, <3>2, <3>3
  <2>3. CASE loadAll = TRUE
    <3>1. PICK n \in 0..Cardinality(Db) : \E f \in [1..n -> Db] :
            /\ objects = [i \in 1..n |-> Opened(f[i])]
            /\ databases = [d \in Db |-> IF \E i \in 1..n : f[i] = d
                                         THEN CHOOSE i \in 1..n : f[i] = d ELSE 0]
      BY <2>3 DEF Init
    <3>2. QED
      BY <2>2, <3>1
  <2>4. QED
    BY <2>1, <2>3 DEF Init
<1>4. RInv
  BY <1>2, <1>3 DEF RInv, Names
<1>5. ASSUME NEW d \in Db, NEW k \in Key
      PROVE  VisibleState(d, k) = "none" /\ VisibleCells(d, k) = <<NoThread, NoThread>>
  <2>1. SeenAt(d, k)
    BY <1>1, <1>4, SeenHolds DEF Seen
  <2>2. \A t \in Thread : ~StoresAt(t, d, k)
    BY <1>2 DEF StoresAt
  <2>3. databases[d] # 0 => databases[d] \in DOMAIN objects
    BY <1>1 DEF IInv, TypeOK
  <2>4. QED
    BY <1>3, <2>1, <2>2, <2>3 DEF SeenAt, Opened
<1>6. QED
  BY <1>2, <1>4, <1>5 DEF States, Cells, Queries, Atomic!Init

(* A damaged map stays damaged. *)
LEMMA DamageStays ==
  ASSUME IInv, [Next]_vars
  PROVE  damaged \subseteq damaged'
<1>1. CASE UNCHANGED vars
  BY <1>1 DEF vars
<1>2. ASSUME NEW t \in Thread, Call(t) \/ Runs(t) \/ Lose(t) PROVE damaged \subseteq damaged'
  <2>1. CASE Erase(t)
    BY <2>1 DEF Erase
  <2>2. CASE ~Erase(t)
    BY <1>2, <2>2 DEF Runs, Lose, Call, Find, Load, Table, Lock, BadId, Look, Read1, Read2, Change,
                      Write1, Write2, Unlock, Reply
  <2>3. QED
    BY <2>1, <2>2
<1>3. ASSUME NEW o, NEW k, Expire(o, k) \/ Havoc(o, k) PROVE damaged \subseteq damaged'
  BY <1>3 DEF Expire, Havoc
<1>4. QED
  BY <1>1, <1>2, <1>3 DEF Next

(* Every step of a thread is an abstract step, or none, if it leaves every *)
(* map sound.                                                              *)
LEMMA StepImplements ==
  ASSUME IInv, RInv, IInv', [Next]_vars, damaged' = {}
  PROVE  Implements
<1> damaged = {}
  BY DamageStays
<1>1. CASE UNCHANGED vars
  <2>1. RInv'
    BY <1>1 DEF vars, RInv, Names, Progress, Stores, Started, Reading, Row, Held
  <2>2. UNCHANGED <<States, Cells, Queries>>
    BY <1>1 DEF vars, States, Cells, Queries, VisibleState, VisibleCells, VisibleQuery, VisibleAnswer,
                Storing, Held
  <2>3. QED
    BY <2>1, <2>2 DEF Implements, Atomic!vars
<1>2. ASSUME NEW t \in Thread, Call(t) \/ Runs(t) PROVE Implements
  BY <1>2, CallImplements, FindImplements, LoadImplements, TableImplements, LockImplements,
     BadIdImplements, LookImplements, EraseImplements, Read1Implements, Read2Implements,
     ChangeImplements, Write1Implements, Write2Implements, UnlockImplements, ReplyImplements DEF Runs
<1>3. \A t \in Thread : ~Lose(t)
  BY DEF Lose
<1>4. QED
  BY <1>1, <1>2, <1>3, ExpireImplements DEF Next

(* QueriesAreAtomic: whatever threads, databases and rows there are, what  *)
(* clients see is what one thread answering one query after the other      *)
(* would do (NoSQLQuery under the database's lock), until two selects      *)
(* erase rows of one map at once (CFixedMap::at).                          *)
THEOREM QueriesLookAtomic == Spec => QueriesAreAtomic
<1> DEFINE Inv == IInv /\ (damaged = {} => RInv)
           Step == damaged' = {} => [Atomic!Next]_(Atomic!vars)
<1>1. Init => Inv /\ Atomic!Init
  BY InitKeeps, InitImplements
<1>2. Inv /\ [Next]_vars => Inv' /\ Step
  <2> SUFFICES ASSUME Inv, [Next]_vars PROVE Inv' /\ Step
    OBVIOUS
  <2>1. IInv'
    BY NextKeeps
  <2>2. ASSUME damaged' = {} PROVE Implements
    <3>1. damaged = {}
      BY <2>2, DamageStays
    <3>2. QED
      BY <2>1, <2>2, <3>1, StepImplements
  <2>3. QED
    BY <2>1, <2>2 DEF Implements
<1> HIDE DEF Inv
<1>3. QED
  BY <1>1, <1>2, PTL DEF Spec, QueriesAreAtomic
=============================================================================
