----------------------------- MODULE QueryLock -----------------------------
(***************************************************************************)
(* How the threads that answer queries share the databases                 *)
(* (cmoondb.cpp: NoSQLQuery, GetDatabase, ApplyForMutex, LoadSchemas).     *)
(* A thread finds the database in a cache under SchemaMutex, opens it if   *)
(* need be, takes the database's lock (shared for a select, exclusive for  *)
(* the rest), and works on its table.                                      *)
(*                                                                         *)
(* A step is one critical section of SchemaMutex, one operation of a       *)
(* database's lock, or one access to the rows under that lock: finding the *)
(* row, erasing one that expired, and reading or storing each of its two   *)
(* fields.  Threads are those of _AsyncQuery, which turns every exception  *)
(* into an error reply.  Which position a row has is left to FixedMap, and *)
(* so is collecting garbage: a key keeps its memory, which is not cleared  *)
(* when its row goes.  That holds until two selects erase rows of one map  *)
(* at once, under the shared lock: the map is damaged then, and what it    *)
(* holds is anything (Havoc, Lose).                                        *)
(***************************************************************************)
EXTENDS Integers, Sequences, FiniteSets, FiniteSetsExt

CONSTANTS
  Thread,    \* the threads that answer queries
  Db, Key,   \* names of databases, row ids
  Ops,       \* the operations clients ask for
  Requests,  \* bound of the model: how many queries there are
  Openings,  \* how opening a database ends: TRUE, or FALSE for an error
  NoThread

ASSUME ThreadAssumption == NoThread \notin Thread /\ IsFiniteSet(Thread)
ASSUME DbAssumption == IsFiniteSet(Db)

VARIABLES
  loadAll,    \* LoadAllSchemasOnLoading
  databases,  \* Databases: the object of each name, 0 if there is none
  objects,    \* every CDatabase made: its lock, its rows and their memory
  thread,     \* where each thread is and what it knows
  damaged,    \* the objects whose map was erased from by two threads at once
  leaked      \* the objects whose lock was left locked

vars == <<loadAll, databases, objects, thread, damaged, leaked>>

Op == {"select", "insert", "update", "replace", "delete"}
Request == [op : Op, db : Db, key : Key, kind : {"good", "refused", "badid"}]
Reading(t) == thread[t].req.op = "select"

(* A refused value is one that Store throws at, after the first field; a   *)
(* bad id is one that is no number, at which stoul throws.                 *)
Asked == {r \in Request : r.op \in Ops /\ (r.kind = "refused" => r.op \notin {"select", "delete"})}

Place == {"idle", "find", "load", "table", "lock", "row", "erase", "read1", "read2",
          "write1", "write2", "unlock", "reply", "lost"}
Cell == Thread \cup {NoThread}

Object == [db : Db, shared : Nat, writer : Cell, keys : [Key -> {"none", "live", "dead"}],
           mem : [Key -> [1..2 -> Cell]]]

TypeOK ==
  /\ loadAll \in BOOLEAN
  /\ objects \in Seq(Object)
  /\ databases \in [Db -> 0..Len(objects)]
  /\ DOMAIN thread = Thread
  /\ \A t \in Thread :
       /\ DOMAIN thread[t] = {"at", "req", "obj", "got", "old", "made"}
       /\ thread[t].at \in Place /\ thread[t].obj \in 0..Len(objects)
       /\ thread[t].at # "idle" => thread[t].req \in Request
  /\ damaged \subseteq DOMAIN objects /\ leaked \subseteq DOMAIN objects

(* CDatabase's constructor: tables are in memory only, so they are empty. *)
Opened(d) == [db |-> d, shared |-> 0, writer |-> NoThread, keys |-> [k \in Key |-> "none"],
              mem |-> [k \in Key |-> <<NoThread, NoThread>>]]

(* Start: LoadSchemas opens every database, and skips those that cannot be.*)
Init ==
  /\ loadAll \in BOOLEAN
  /\ \/ loadAll = FALSE /\ objects = <<>> /\ databases = [d \in Db |-> 0]
     \/ /\ loadAll = TRUE
        /\ \E n \in 0..Cardinality(Db) : \E f \in [1..n -> Db] :
             /\ \A i, j \in 1..n : i # j => f[i] # f[j]
             /\ n < Cardinality(Db) => FALSE \in Openings
             /\ objects = [i \in 1..n |-> Opened(f[i])]
             /\ databases = [d \in Db |-> IF \E i \in 1..n : f[i] = d
                                          THEN CHOOSE i \in 1..n : f[i] = d ELSE 0]
  /\ thread = [t \in Thread |-> [at |-> "idle", req |-> <<>>, obj |-> 0, got |-> <<>>,
                                 old |-> <<>>, made |-> 0]]
  /\ damaged = {} /\ leaked = {}

Go(t, place) == thread' = [thread EXCEPT ![t].at = place]
Fail(t) == thread' = [thread EXCEPT ![t].at = "reply", ![t].got = "error"]

Call(t) ==
  /\ thread[t].at = "idle"
  /\ MapThenSumSet(LAMBDA u : thread[u].made, Thread) < Requests
  /\ \E r \in Asked :
       thread' = [thread EXCEPT ![t] = [at |-> "find", req |-> r, obj |-> 0, got |-> <<>>,
                                        old |-> <<>>, made |-> @.made + 1]]
  /\ UNCHANGED <<loadAll, databases, objects, damaged, leaked>>

(* GetDatabase, under the shared SchemaMutex. *)
Find(t) ==
  /\ thread[t].at = "find"
  /\ LET o == databases[thread[t].req.db] IN
     IF loadAll /\ o = 0 THEN Fail(t)
     ELSE thread' = [thread EXCEPT ![t].at = IF loadAll THEN "table" ELSE "load", ![t].obj = o]
  /\ UNCHANGED <<loadAll, databases, objects, damaged, leaked>>

(* Faulty variant: what was found before is not looked up again. *)
FoundAgainBlindly(t) == thread[t].obj

(* The database of a request, looked up again under the exclusive lock. *)
FoundAgain(t) == databases[thread[t].req.db]

(* ... under the exclusive SchemaMutex: another thread may have opened the *)
(* database in the meantime.  One that cannot be opened does not exist.    *)
Load(t) ==
  /\ thread[t].at = "load"
  /\ IF FoundAgain(t) # 0
     THEN /\ thread' = [thread EXCEPT ![t].at = "table", ![t].obj = FoundAgain(t)]
          /\ UNCHANGED <<databases, objects>>
     ELSE \E opens \in Openings :
            IF ~opens THEN Fail(t) /\ UNCHANGED <<databases, objects>>
            ELSE /\ objects' = Append(objects, Opened(thread[t].req.db))
                 /\ databases' = [databases EXCEPT ![thread[t].req.db] =
                                    IF @ = 0 THEN Len(objects) + 1 ELSE @]
                 /\ thread' = [thread EXCEPT ![t].at = "table", ![t].obj = Len(objects) + 1]
  /\ UNCHANGED <<loadAll, damaged, leaked>>

(* GetTable and ParseStringMap: either may end the query with an error. *)
Table(t) ==
  /\ thread[t].at = "table"
  /\ Go(t, "lock") \/ Fail(t)
  /\ UNCHANGED <<loadAll, databases, objects, damaged, leaked>>

Held(t) == objects[thread[t].obj]

(* Faulty variant: who writes does not wait for those who read. *)
LockableAmongReaders(t) == Held(t).writer = NoThread

Lockable(t) == Held(t).writer = NoThread /\ (Reading(t) \/ Held(t).shared = 0)

(* A thread that left this lock locked is told of the deadlock (EDEADLK);  *)
(* the exception is thrown outside the try and unlocks nothing.            *)
Lock(t) ==
  /\ thread[t].at = "lock"
  /\ \/ /\ Lockable(t)
        /\ objects' = IF Reading(t) THEN [objects EXCEPT ![thread[t].obj].shared = @ + 1]
                      ELSE [objects EXCEPT ![thread[t].obj].writer = t]
        /\ Go(t, "row")
     \/ Held(t).writer = t /\ Fail(t) /\ UNCHANGED objects
  /\ UNCHANGED <<loadAll, databases, damaged, leaked>>

Row(t) == Held(t).keys[thread[t].req.key]
SetRow(t, s) == objects' = [objects EXCEPT ![thread[t].obj].keys[thread[t].req.key] = s]
Ends(t, got) == thread' = [thread EXCEPT ![t].at = "unlock", ![t].got = got]

(* GetRowId throws a logic_error: nothing unlocks the database. *)
BadId(t) ==
  /\ thread[t].at = "row" /\ thread[t].req.kind = "badid"
  /\ Fail(t)
  /\ leaked' = leaked \cup {thread[t].obj}
  /\ UNCHANGED <<loadAll, databases, objects, damaged>>

(* GetData: at tells a row that expired from one that is there. *)
Look(t) ==
  /\ thread[t].at = "row" /\ thread[t].req.kind # "badid" /\ Reading(t)
  /\ \/ Row(t) = "none" /\ Ends(t, "none")
     \/ Row(t) = "dead" /\ Go(t, "erase")
     \/ Row(t) = "live" /\ Go(t, "read1")
  /\ UNCHANGED <<loadAll, databases, objects, damaged, leaked>>

(* Another thread looks up or erases a row of the same map. *)
Racing(t) ==
  \E u \in Thread \ {t} :
    /\ thread[u].at \in {"row", "erase"} /\ thread[u].req.kind # "badid"
    /\ thread[u].obj = thread[t].obj

(* at erases it, although the lock is shared.  If another reader just did  *)
(* so, its position is queued a second time and an entry that is gone is   *)
(* erased: the map is damaged.  If one is at the map, it may be.           *)
Erase(t) ==
  /\ thread[t].at = "erase"
  /\ SetRow(t, "none")
  /\ \/ Row(t) # "none" /\ UNCHANGED damaged
     \/ (Row(t) = "none" \/ Racing(t)) /\ damaged' = damaged \cup {thread[t].obj}
  /\ Ends(t, "none")
  /\ UNCHANGED <<loadAll, databases, leaked>>

(* GetResult reads the fields in turn. *)
Read1(t) ==
  /\ thread[t].at = "read1"
  /\ thread' = [thread EXCEPT ![t].at = "read2", ![t].got = <<Held(t).mem[thread[t].req.key][1]>>]
  /\ UNCHANGED <<loadAll, databases, objects, damaged, leaked>>
Read2(t) ==
  /\ thread[t].at = "read2"
  /\ Ends(t, Append(thread[t].got, Held(t).mem[thread[t].req.key][2]))
  /\ UNCHANGED <<loadAll, databases, objects, damaged, leaked>>

(* InsertData, UpdateData, ReplaceData and DeleteData find or make the row.*)
Change(t) ==
  /\ thread[t].at = "row" /\ thread[t].req.kind # "badid" /\ ~Reading(t)
  /\ LET op == thread[t].req.op IN
     \/ op = "insert" /\ Row(t) # "none" /\ Ends(t, "error") /\ UNCHANGED objects
     \/ op = "update" /\ Row(t) = "none" /\ Ends(t, "none") /\ UNCHANGED objects
     \/ op = "delete" /\ SetRow(t, "none") /\ Ends(t, IF Row(t) = "none" THEN "none" ELSE "done")
     \/ /\ \/ op = "insert" /\ Row(t) = "none"
           \/ op = "update" /\ Row(t) # "none"
           \/ op = "replace"
        /\ SetRow(t, "live")
        /\ thread' = [thread EXCEPT ![t].at = "write1",
             ![t].old = [state |-> Row(t), cells |-> Held(t).mem[thread[t].req.key]]]
  /\ UNCHANGED <<loadAll, databases, damaged, leaked>>

(* GetInputValue stores the fields in turn; it may refuse the second one. *)
Write1(t) ==
  /\ thread[t].at = "write1"
  /\ objects' = [objects EXCEPT ![thread[t].obj].mem[thread[t].req.key][1] = t]
  /\ Go(t, "write2")
  /\ UNCHANGED <<loadAll, databases, damaged, leaked>>
Write2(t) ==
  /\ thread[t].at = "write2"
  /\ IF thread[t].req.kind = "refused" THEN Ends(t, "error") /\ UNCHANGED objects
     ELSE /\ objects' = [objects EXCEPT ![thread[t].obj].mem[thread[t].req.key][2] = t]
          /\ Ends(t, "done")
  /\ UNCHANGED <<loadAll, databases, damaged, leaked>>

Idle(t) == thread' = [thread EXCEPT ![t] =
  [at |-> "idle", req |-> <<>>, obj |-> 0, got |-> <<>>, old |-> <<>>, made |-> @.made]]

(* Faulty variant: an error leaves the lock locked. *)
UnlockIfFine(t) ==
  /\ thread[t].at = "unlock"
  /\ objects' = IF thread[t].got = "error" THEN objects
                ELSE IF Reading(t) THEN [objects EXCEPT ![thread[t].obj].shared = @ - 1]
                ELSE [objects EXCEPT ![thread[t].obj].writer = NoThread]
  /\ Idle(t)
  /\ UNCHANGED <<loadAll, databases, damaged, leaked>>

(* Faulty variant: who reads unlocks as if it had written. *)
UnlockExclusive(t) ==
  /\ thread[t].at = "unlock"
  /\ objects' = [objects EXCEPT ![thread[t].obj].writer = NoThread]
  /\ Idle(t)
  /\ UNCHANGED <<loadAll, databases, damaged, leaked>>

(* At the end of the try, or in the handler of a runtime_error. *)
Unlock(t) ==
  /\ thread[t].at = "unlock"
  /\ objects' = IF Reading(t) THEN [objects EXCEPT ![thread[t].obj].shared = @ - 1]
                ELSE [objects EXCEPT ![thread[t].obj].writer = NoThread]
  /\ Idle(t)
  /\ UNCHANGED <<loadAll, databases, damaged, leaked>>

Reply(t) ==
  /\ thread[t].at = "reply"
  /\ Idle(t)
  /\ UNCHANGED <<loadAll, databases, objects, damaged, leaked>>

Inside(t) ==
  thread[t].at \in {"row", "erase", "read1", "read2", "write1", "write2", "unlock", "lost"}

(* What a damaged map holds: keys may be gone or there again, and two of   *)
(* them may have one position, so that what is stored for one is read for  *)
(* the other.                                                              *)
Havoc(o, k) ==
  /\ \E s \in {"none", "live", "dead"}, c \in [1..2 -> Cell] :
       objects' = [objects EXCEPT ![o].keys[k] = s, ![o].mem[k] = c]
  /\ UNCHANGED <<loadAll, databases, thread, damaged, leaked>>

(* An operation of a damaged map need not end, and keeps the lock then.    *)
Lose(t) ==
  /\ thread[t].at \in {"row", "erase"} /\ thread[t].obj \in damaged
  /\ Go(t, "lost")
  /\ UNCHANGED <<loadAll, databases, objects, damaged, leaked>>

(* A row's time is over.  Lifetimes are seconds: not while it is stored. *)
Expire(o, k) ==
  /\ objects[o].keys[k] = "live"
  /\ \A t \in Thread : thread[t].at \in {"write1", "write2"} => thread[t].obj # o
  /\ objects' = [objects EXCEPT ![o].keys[k] = "dead"]
  /\ UNCHANGED <<loadAll, databases, thread, damaged, leaked>>

Runs(t) ==
  \/ Find(t) \/ Load(t) \/ Table(t) \/ Lock(t) \/ BadId(t) \/ Look(t) \/ Erase(t) \/ Read1(t)
  \/ Read2(t) \/ Change(t) \/ Write1(t) \/ Write2(t) \/ Unlock(t) \/ Reply(t)

Next ==
  \/ \E t \in Thread : Call(t) \/ Runs(t) \/ Lose(t)
  \/ \E o \in DOMAIN objects, k \in Key : Expire(o, k)
  \/ \E o \in damaged, k \in Key : Havoc(o, k)

Spec == Init /\ [][Next]_vars
FairSpec == Spec /\ \A t \in Thread : WF_vars(Runs(t))
-----------------------------------------------------------------------------
(* Two threads in one database at the same time are both reading: writers  *)
(* have a database for themselves (NoSQLQuery's locks), also when several  *)
(* threads opened it at once (GetDatabase looks it up twice).              *)
WritersExclude ==
  \A t, u \in Thread :
    t # u /\ Inside(t) /\ Inside(u) /\ thread[t].req.db = thread[u].req.db => Reading(t) /\ Reading(u)

(* A lock is held by those who are inside and by nobody else, whatever     *)
(* error ended a query, unless an exception went past its handlers         *)
(* (NoSQLQuery's catch clauses).                                           *)
LocksMatchHolders ==
  \A o \in DOMAIN objects \ leaked :
    LET inside == {t \in Thread : Inside(t) /\ thread[t].obj = o}
    IN  /\ objects[o].shared = Cardinality({t \in inside : Reading(t)})
        /\ {t \in inside : ~Reading(t)} = IF objects[o].writer = NoThread THEN {} ELSE {objects[o].writer}

(* Every query is answered, unless a lock was left locked or a map was     *)
(* damaged: locks are given back, and no two threads wait for each other   *)
(* (NoSQLQuery, GetDatabase).                                              *)
QueriesEnd ==
  \A t \in Thread : thread[t].at = "find" ~> (thread[t].at = "idle" \/ leaked # {} \/ damaged # {})

(* Two selects never erase rows of one map at once (CFixedMap::at under    *)
(* the shared lock of NoSQLQuery).                                         *)
NoDamage == damaged = {}
-----------------------------------------------------------------------------
(* Each query takes effect at one instant: a select when it finds its row, *)
(* a write when it stores its last field.                                  *)
Storing(d, k) == {t \in Thread : thread[t].at \in {"write1", "write2"}
                    /\ thread[t].req.db = d /\ thread[t].req.key = k}
VisibleState(d, k) ==
  IF databases[d] = 0 THEN "none"
  ELSE IF Storing(d, k) # {} THEN thread[CHOOSE t \in Storing(d, k) : TRUE].old.state
  ELSE objects[databases[d]].keys[k]
VisibleCells(d, k) ==
  IF databases[d] = 0 THEN <<NoThread, NoThread>>
  ELSE IF Storing(d, k) # {} THEN thread[CHOOSE t \in Storing(d, k) : TRUE].old.cells
  ELSE objects[databases[d]].mem[k]
VisibleAnswer(t) ==
  LET h == thread[t] IN
  CASE h.at = "read1" -> Held(t).mem[h.req.key]
    [] h.at = "read2" -> Append(h.got, Held(t).mem[h.req.key][2])
    [] OTHER -> h.got
VisibleQuery(t) ==
  CASE thread[t].at = "idle" -> [phase |-> "idle"]
    [] thread[t].at \in {"find", "load", "table", "lock", "row", "erase", "write1", "write2", "lost"} ->
         [phase |-> "called", req |-> thread[t].req]
    [] OTHER -> [phase |-> "answered", req |-> thread[t].req, answer |-> VisibleAnswer(t)]

States == [d \in Db |-> [k \in Key |-> VisibleState(d, k)]]
Cells == [d \in Db |-> [k \in Key |-> VisibleCells(d, k)]]
Queries == [t \in Thread |-> VisibleQuery(t)]

Atomic == INSTANCE AtomicStore WITH state <- States, cells <- Cells, query <- Queries

(* What clients see is what one thread answering one query after the other *)
(* would do (NoSQLQuery under the database's lock), every step of the way  *)
(* until two selects erase rows of one map at once.                        *)
QueriesAreAtomic ==
  Atomic!Init /\ [][damaged' = {} => [Atomic!Next]_(Atomic!vars)]_vars
=============================================================================
