---------------------------- MODULE GroupServer ----------------------------
(***************************************************************************)
(* CMoonDb::GroupRun (cmoondb.cpp), the server that runs when Async = 2.   *)
(* The main thread accepts clients and deals their sockets out to the      *)
(* worker threads, to those with few connections first.  Each worker owns  *)
(* a pool of connections (CQueue) and does everything for them: it         *)
(* receives, answers, sends, times out and closes.                         *)
(*                                                                         *)
(* A step is one accept, one critical section of ThreadMutex, or one visit *)
(* of a connection by its worker.  Threads are numbered from 1.  Requests  *)
(* are a length and a body; those that are refused, fail or have no reply  *)
(* are left to AsyncServer, whose AsyncReceive and AsyncSend these are.    *)
(***************************************************************************)
EXTENDS Integers, Sequences, FiniteSets, SequencesExt

CONSTANTS
  Client,          \* each makes one connection
  Early, Asker, Leaver, Idler,  \* bounds of the model: the clients that connect before the
                                \* threads start, that make requests, that may leave unasked,
                                \* and whose time may run out
  MaxThreads, MaxConnections, BackLog,
  Requests,        \* bound of the model: how many requests a client makes
  ReplyChunks,     \* the number of chunks a reply is sent in
  SocketRoom,      \* how many of them a socket takes until the client reads
  CounterRange,    \* range of AsyncThreadNum (2^32)
  NoClient

ASSUME SizeAssumption ==
  /\ MaxThreads \in Nat \ {0} /\ MaxConnections \in Nat \ {0} /\ BackLog \in Nat \ {0}
  /\ Requests \in Nat /\ ReplyChunks \in Nat \ {0} /\ SocketRoom \in Nat \ {0}
  /\ CounterRange \in Nat /\ CounterRange > MaxThreads
ASSUME ClientAssumption ==
  /\ NoClient \notin Client /\ IsFiniteSet(Client)
  /\ Early \cup Asker \cup Leaver \cup Idler \subseteq Client

Worker == 1..MaxThreads
Slot == 1..MaxConnections

VARIABLES
  started,    \* Started
  main,       \* where the main thread is
  accepted,   \* clientsocks: the sockets accepted in this round
  order,      \* connnumperthread: counts of connections with their threads
  groupNum,   \* GroupConnectionNum
  perThread,  \* GroupConnectionNumPerThread
  fresh,      \* GroupNewConnections: the sockets dealt out to each worker
  threadNum,  \* AsyncThreadNum
  worker,     \* where each worker is, and whom it has yet to visit
  pool,       \* its CQueue: slots in use, slots freed, capacity
  conn,       \* what is in each slot
  backlog, client, inbox, outbox, closed

shared == <<started, groupNum, perThread, fresh, threadNum>>
mine == <<worker, pool, conn>>
clientVars == <<backlog, client, inbox, outbox, closed>>
vars == <<shared, main, accepted, order, mine, clientVars>>

Asked == {"connected", "sent"}
Status == Asked \cup {"unconnected", "disconnected", "receiving", "sending"}

TypeOK ==
  /\ started \in BOOLEAN
  /\ main \in {"accept", "deal", "wait", "end"}
  /\ accepted \in Seq(Client) /\ Len(accepted) <= BackLog
  /\ order \in Seq([num : Nat, thread : Worker])
  /\ groupNum \in Nat /\ perThread \in [Worker -> Nat]
  /\ fresh \in [Worker -> Seq(Client)] /\ threadNum \in 0..(CounterRange - 1)
  /\ worker \in [Worker -> [at : {"start", "lock", "asleep", "serve", "drain", "spin", "dead", "crashed",
                                "exit"}, todo : Seq(Slot)]]
  /\ pool \in [Worker -> [keys : Seq(Slot), freed : Seq(Slot), capacity : 0..MaxConnections]]
  /\ conn \in [Worker -> [Slot -> [client : Client \cup {NoClient}, status : Status,
                                   left : 0..ReplyChunks, late : BOOLEAN]]]
  /\ backlog \in Seq(Client) /\ closed \subseteq Client
  /\ client \in [Client -> [at : {"new", "idle", "sending", "waiting", "left"},
                            made : 0..Requests, got : 0..(ReplyChunks - 1)]]
  /\ inbox \in [Client -> Seq({"len", "body"})] /\ outbox \in [Client -> 0..SocketRoom]

Gone(c) == c # NoClient /\ client[c].at = "left"
Unused == [client |-> NoClient, status |-> "unconnected", left |-> 0, late |-> FALSE]

(* GroupQuery: ceil(MaxConnections / MaxThreads) * 1.2, cut by initialize. *)
InitialCapacity ==
  LET share == (MaxConnections + MaxThreads - 1) \div MaxThreads
      most  == (share * 12) \div 10
  IN  IF most < MaxConnections THEN most ELSE MaxConnections

Init ==
  /\ started = TRUE /\ main = "accept" /\ accepted = <<>> /\ order = <<>>
  /\ groupNum = 0 /\ perThread = [w \in Worker |-> 0]
  /\ fresh = [w \in Worker |-> <<>>] /\ threadNum = 0
  /\ worker = [w \in Worker |-> [at |-> "start", todo |-> <<>>]]
  /\ pool = [w \in Worker |-> [keys |-> <<>>, freed |-> <<>>, capacity |-> InitialCapacity]]
  /\ conn = [w \in Worker |-> [s \in Slot |-> Unused]]
  /\ backlog = SetToSeq(Early) /\ closed = {}
  /\ client = [c \in Client |-> [at |-> IF c \in Early THEN "idle" ELSE "new", made |-> 0, got |-> 0]]
  /\ inbox = [c \in Client |-> <<>>] /\ outbox = [c \in Client |-> 0]
-----------------------------------------------------------------------------
(* The main thread. *)

RoomForMore == Len(accepted) < BackLog /\ groupNum < MaxConnections

Accept ==
  /\ main = "accept" /\ backlog # <<>> /\ RoomForMore
  /\ groupNum' = groupNum + 1
  /\ accepted' = Append(accepted, Head(backlog)) /\ backlog' = Tail(backlog)
  /\ UNCHANGED <<started, perThread, fresh, threadNum, main, order, mine,
                 client, inbox, outbox, closed>>

(* A round of accepts ends when BackLog of them are done, there is no room *)
(* or no client, or an accept fails.  The counts are then read, before the *)
(* lock is taken, and sorted; threads with the same count may come in any  *)
(* order.                                                                  *)
Orders ==
  {o \in [Worker -> [num : {perThread[w] : w \in Worker}, thread : Worker]] :
     /\ \A i \in Worker : o[i].num = perThread[o[i].thread]
     /\ \A i, j \in Worker : i < j => o[i].num <= o[j].num /\ o[i].thread # o[j].thread}
Sort ==
  /\ main = "accept" /\ accepted # <<>>
  /\ order' \in Orders
  /\ main' = "deal"
  /\ UNCHANGED <<shared, accepted, mine, clientVars>>

(* GroupDistributeConnection: whom the sockets go to, in turns.  A turn     *)
(* gives each thread but the last in the order one more than it is behind  *)
(* the next, and then one to the thread with the highest number.           *)
Begins(i) == order[i].num - order[1].num + i
Receiver(k) ==
  LET place == ((k - 1) % Begins(MaxThreads)) + 1
      i     == Cardinality({j \in Worker : Begins(j) <= place})
  IN  IF i = MaxThreads THEN MaxThreads ELSE order[i].thread

(* The sockets of each worker, when the first k were dealt out. *)
DealtOne(given, k) == [given EXCEPT ![Receiver(k)] = Append(given[Receiver(k)], accepted[k])]
Dealing[k \in 0..Len(accepted)] == IF k = 0 THEN fresh ELSE DealtOne(Dealing[k - 1], k)

(* Faulty variant: the return tests the size before the last socket. *)
DealtShort == Dealing[Len(accepted) - (Len(accepted) \div 2)]

Dealt == Dealing[Len(accepted)]

Awake(wk) == [w \in Worker |-> IF wk[w].at = "asleep" THEN [wk[w] EXCEPT !.at = "lock"] ELSE wk[w]]

(* Faulty variant: the workers are not told. *)
DealQuietly ==
  /\ main = "deal"
  /\ fresh' = Dealt
  /\ perThread' = [w \in Worker |-> perThread[w] + (Len(fresh'[w]) - Len(fresh[w]))]
  /\ accepted' = <<>> /\ order' = <<>> /\ main' = "accept"
  /\ UNCHANGED <<started, groupNum, threadNum, worker, pool, conn, clientVars>>

(* Under ThreadMutex, with notify_all. *)
Deal ==
  /\ main = "deal"
  /\ fresh' = Dealt
  /\ perThread' = [w \in Worker |-> perThread[w] + (Len(fresh'[w]) - Len(fresh[w]))]
  /\ worker' = Awake(worker)
  /\ accepted' = <<>> /\ order' = <<>> /\ main' = "accept"
  /\ UNCHANGED <<started, groupNum, threadNum, pool, conn, clientVars>>

Stop ==
  /\ started
  /\ started' = FALSE
  /\ UNCHANGED <<groupNum, perThread, fresh, threadNum, main, accepted, order, mine, clientVars>>

(* Faulty variant: a stop wakes nobody. *)
NotifyNobody ==
  /\ main = "accept" /\ accepted = <<>> /\ ~started
  /\ main' = "wait"
  /\ UNCHANGED <<shared, accepted, order, worker, pool, conn, clientVars>>

(* The loop sees that the server is told to stop. *)
Notify ==
  /\ main = "accept" /\ accepted = <<>> /\ ~started
  /\ worker' = Awake(worker) /\ main' = "wait"
  /\ UNCHANGED <<shared, accepted, order, pool, conn, clientVars>>

(* Clear, once no thread is counted: sockets that were dealt out and never *)
(* taken are forgotten, and not closed.                                    *)
Finish ==
  /\ main = "wait" /\ threadNum = 0
  /\ main' = "end"
  /\ groupNum' = 0 /\ fresh' = [w \in Worker |-> <<>>] /\ perThread' = [w \in Worker |-> 0]
  /\ UNCHANGED <<started, threadNum, accepted, order, mine, clientVars>>

Main == Accept \/ Sort \/ Deal \/ Notify \/ Finish
-----------------------------------------------------------------------------
(* A worker (GroupQuery).  It is counted when it starts to run. *)

Goes(w, place) == worker' = [worker EXCEPT ![w] = [at |-> place, todo |-> <<>>]]
Serves(w, keys) == worker' = [worker EXCEPT ![w] = [at |-> "serve", todo |-> keys]]
Drains(w) == worker' = [worker EXCEPT ![w] = [at |-> "drain", todo |-> pool[w].keys]]

(* Faulty variant: a thread is not counted. *)
BeginUncounted(w) ==
  /\ worker[w].at = "start"
  /\ threadNum' = threadNum
  /\ Goes(w, "lock")
  /\ UNCHANGED <<started, groupNum, perThread, fresh, pool, conn, inbox, outbox, closed>>

Begin(w) ==
  /\ worker[w].at = "start"
  /\ threadNum' = (threadNum + 1) % CounterRange
  /\ Goes(w, "lock")
  /\ UNCHANGED <<started, groupNum, perThread, fresh, pool, conn, inbox, outbox, closed>>

(* Faulty variant: the pool does not grow. *)
GrownNot(p) == p.capacity

(* CQueue's reserve: (Size + 1) * 1.5, up to the size of the pool.  The    *)
(* resize moves the connections in use, and for each frees the buffer that *)
(* its copy goes on to use: see Relocated.                                 *)
Grown(p) ==
  LET more == ((Len(p.keys) + 1) * 3) \div 2
  IN  IF more < p.capacity THEN p.capacity ELSE IF more < MaxConnections THEN more ELSE MaxConnections

(* CQueue's push: a slot that was freed first, or else the next one, for   *)
(* which the pool grows and, when it cannot, throws.  A pool that has      *)
(* grown is told by its capacity.                                          *)
Fits(p) == p.freed # <<>> \/ Len(p.keys) < Grown(p)
Pushed(p) ==
  IF p.freed # <<>>
  THEN [keys |-> Append(p.keys, Head(p.freed)), freed |-> Tail(p.freed), capacity |-> p.capacity]
  ELSE [keys |-> Append(p.keys, Len(p.keys) + 1), freed |-> p.freed,
        capacity |-> IF Len(p.keys) = p.capacity THEN Grown(p) ELSE p.capacity]

(* The pool of w with the first of the sockets dealt out to it. *)
Taking(w) ==
  LET with[i \in 0..Len(fresh[w])] ==
        IF i = 0 THEN pool[w] ELSE IF Fits(with[i - 1]) THEN Pushed(with[i - 1]) ELSE with[i - 1]
  IN  with

(* The sockets dealt out to w become connections, in the slots they got.   *)
Given(w, keys) == [i \in DOMAIN fresh[w] |-> keys[Len(pool[w].keys) + i]]
Initialize(w, keys) ==
  LET slot == Given(w, keys) IN
  [s \in Slot |->
     IF s \in Range(slot)
     THEN [client |-> fresh[w][CHOOSE i \in DOMAIN slot : slot[i] = s],
           status |-> "connected", left |-> 0, late |-> FALSE]
     ELSE conn[w][s]]
TakeFresh(w) ==
  LET with  == Taking(w)
      after == with[Len(fresh[w])]
  IN  /\ fresh' = [fresh EXCEPT ![w] = <<>>]
      /\ IF \E i \in DOMAIN fresh[w] : ~Fits(with[i - 1]) THEN Goes(w, "dead") /\ UNCHANGED <<pool, conn>>
         ELSE /\ pool' = [pool EXCEPT ![w] = after]
              /\ conn' = [conn EXCEPT ![w] = Initialize(w, after.keys)]
              /\ Serves(w, after.keys)
      /\ UNCHANGED <<started, groupNum, perThread, threadNum, inbox, outbox, closed>>

(* Under ThreadMutex: take what was dealt out, or sleep.  (That Started is *)
(* also read before the lock is asked for adds no behaviour.)              *)
Take(w) ==
  /\ worker[w].at = "lock"
  /\ \/ ~started /\ Drains(w) /\ UNCHANGED <<shared, pool, conn, inbox, outbox, closed>>
     \/ started /\ fresh[w] = <<>> /\ Goes(w, "asleep")
          /\ UNCHANGED <<shared, pool, conn, inbox, outbox, closed>>
     \/ started /\ fresh[w] # <<>> /\ TakeFresh(w)

(* A condition variable may wake up without being notified. *)
Wake(w) ==
  /\ worker[w].at = "asleep" /\ Goes(w, "lock")
  /\ UNCHANGED <<shared, pool, conn, inbox, outbox, closed>>
-----------------------------------------------------------------------------
(* A pool that has grown.  CPack frees its memory when it is destroyed and  *)
(* has no constructor that copies or moves that memory, so the connections  *)
(* that were in use when the vector grew have buffers that were freed.  To  *)
(* use one is undefined: the worker goes on as if nothing were wrong, or it *)
(* dies, in a visit or when the pool is destroyed at its end, and the       *)
(* process with it (what the others do then is more than they can).  That   *)
(* two buffers get the same memory, and what is then in a reply, is not     *)
(* represented.                                                             *)
Relocated(p) == p.capacity > InitialCapacity
Crash(w) ==
  /\ worker[w].at \in {"serve", "drain"} /\ Relocated(pool[w])
  /\ Goes(w, "crashed")
  /\ UNCHANGED <<shared, pool, conn, inbox, outbox, closed>>
-----------------------------------------------------------------------------
(* A visit, of the first connection of todo. *)

Visited(w) == Head(worker[w].todo)
Now(w) == conn[w][Visited(w)]
Next1(w) == worker' = [worker EXCEPT ![w].todo = Tail(@)]
Closed(k) == [k EXCEPT !.status = "disconnected"]

(* The results of AsyncReceive: the connection, what is left to read and   *)
(* whether its loop ends.  recv returns 0 at the end of the stream, which  *)
(* is neither data nor an error: the loop goes on for ever.                *)
Read(k, in, ends) == [conn |-> k, in |-> in, ends |-> ends]
Body(k, in) ==
  IF in # <<>> THEN {Read([k EXCEPT !.status = "received", !.late = FALSE], Tail(in), TRUE)}
  ELSE IF ~Gone(k.client) THEN {Read(k, in, TRUE)}
  ELSE {Read(Closed(k), in, TRUE), Read(k, in, FALSE)}
AsyncReceive(k) ==
  LET in == inbox[k.client] IN
  IF k.status \in Asked
  THEN IF in = <<>> THEN {Read(IF Gone(k.client) THEN Closed(k) ELSE k, in, TRUE)}
       ELSE Body([k EXCEPT !.status = "receiving", !.late = FALSE], Tail(in))
  ELSE IF k.late THEN {Read(Closed(k), in, TRUE)}
  ELSE Body(k, in)

(* The results of AsyncSend: the connection and the chunks that were sent. *)
AsyncSend(k) ==
  LET room == SocketRoom - outbox[k.client]
      n    == IF k.left < room THEN k.left ELSE room
      sent == [k EXCEPT !.left = @ - n, !.late = @ /\ n = 0,
                        !.status = IF k.left = n THEN "sent" ELSE "sending"]
  IN  IF k.late THEN {[conn |-> Closed(k), out |-> 0]}
      ELSE {[conn |-> sent, out |-> n]} \cup
           (IF Gone(k.client) THEN {[conn |-> Closed(k), out |-> 0]} ELSE {})

(* _AsyncQuery, and the send that follows it in the same visit. *)
Answer(k) == AsyncSend([k EXCEPT !.left = ReplyChunks, !.late = FALSE])

Sets(w, k, in, out) ==
  /\ conn' = [conn EXCEPT ![w][Visited(w)] = k]
  /\ inbox' = [inbox EXCEPT ![k.client] = in]
  /\ outbox' = [outbox EXCEPT ![k.client] = @ + out]
  /\ closed' = IF k.status = "disconnected" THEN closed \cup {k.client} ELSE closed
  /\ UNCHANGED <<shared, pool>>

(* Nothing reads the slot, or what its client sent, once it is freed. *)
Forget(w, s) ==
  /\ conn' = [conn EXCEPT ![w][s] = Unused]
  /\ inbox' = [inbox EXCEPT ![conn[w][s].client] = <<>>]
  /\ UNCHANGED outbox

(* Faulty variant: an erased connection is still counted. *)
EraseUncounted(w, s) ==
  /\ pool' = [pool EXCEPT ![w].keys = RemoveFirst(@, s), ![w].freed = Append(@, s)]
  /\ perThread' = [perThread EXCEPT ![w] = @ - 1]
  /\ Forget(w, s)
  /\ UNCHANGED <<groupNum, started, fresh, threadNum>>

Erase(w, s) ==
  /\ pool' = [pool EXCEPT ![w].keys = RemoveFirst(@, s), ![w].freed = Append(@, s)]
  /\ perThread' = [perThread EXCEPT ![w] = @ - 1]
  /\ groupNum' = groupNum - 1
  /\ Forget(w, s)
  /\ UNCHANGED <<started, fresh, threadNum>>

(* A connection that is closed goes, and so does one idle for too long.    *)
VisitErase(w) ==
  /\ worker[w].at = "serve" /\ started /\ worker[w].todo # <<>>
  /\ Now(w).status = "disconnected" \/ (Now(w).status \in Asked /\ Now(w).late)
  /\ Erase(w, Visited(w))
  /\ closed' = closed \cup {Now(w).client}
  /\ Next1(w)

VisitReceive(w) ==
  /\ worker[w].at = "serve" /\ started /\ worker[w].todo # <<>>
  /\ Now(w).status = "receiving" \/ (Now(w).status \in Asked /\ ~Now(w).late)
  /\ \E r \in AsyncReceive(Now(w)) :
       IF ~r.ends THEN Goes(w, "spin") /\ UNCHANGED <<shared, pool, conn, inbox, outbox, closed>>
       ELSE /\ Next1(w)
            /\ IF r.conn.status = "received"
               THEN \E a \in Answer(r.conn) : Sets(w, a.conn, r.in, a.out)
               ELSE Sets(w, r.conn, r.in, 0)

VisitSend(w) ==
  /\ worker[w].at = "serve" /\ started /\ worker[w].todo # <<>>
  /\ Now(w).status = "sending"
  /\ \E a \in AsyncSend(Now(w)) : Sets(w, a.conn, inbox[a.conn.client], a.out)
  /\ Next1(w)

StopSeen(w) ==
  /\ worker[w].at = "serve" /\ ~started
  /\ Drains(w)
  /\ UNCHANGED <<shared, pool, conn, inbox, outbox, closed>>

(* try_lock at the end of a round: it may fail, or there may be nothing    *)
(* new; then the next round begins, or the worker goes back to wait when   *)
(* it has no connection left.                                              *)
TryNothing(w) ==
  /\ worker[w].at = "serve" /\ started /\ worker[w].todo = <<>>
  /\ IF pool[w].keys = <<>> THEN Goes(w, "lock") ELSE Serves(w, pool[w].keys)
  /\ UNCHANGED <<shared, pool, conn, inbox, outbox, closed>>
TryTake(w) ==
  /\ worker[w].at = "serve" /\ started /\ worker[w].todo = <<>> /\ fresh[w] # <<>>
  /\ TakeFresh(w)

(* The end: what is being sent is sent, every other connection is dropped  *)
(* without closing its socket.                                             *)
DrainSend(w) ==
  /\ worker[w].at = "drain" /\ worker[w].todo # <<>> /\ Now(w).status = "sending"
  /\ \E a \in AsyncSend(Now(w)) : Sets(w, a.conn, inbox[a.conn.client], a.out)
  /\ Next1(w)
DrainErase(w) ==
  /\ worker[w].at = "drain" /\ worker[w].todo # <<>> /\ Now(w).status # "sending"
  /\ Erase(w, Visited(w))
  /\ Next1(w)
  /\ UNCHANGED closed
DrainAgain(w) ==
  /\ worker[w].at = "drain" /\ worker[w].todo = <<>> /\ pool[w].keys # <<>>
  /\ Drains(w)
  /\ UNCHANGED <<shared, pool, conn, inbox, outbox, closed>>
Exit(w) ==
  /\ worker[w].at = "drain" /\ pool[w].keys = <<>>
  /\ threadNum' = (threadNum + CounterRange - 1) % CounterRange
  /\ Goes(w, "exit")
  /\ UNCHANGED <<started, groupNum, perThread, fresh, pool, conn, inbox, outbox, closed>>

Steps(w) ==
  \/ Begin(w) \/ Take(w) \/ VisitErase(w) \/ VisitReceive(w) \/ VisitSend(w)
  \/ StopSeen(w) \/ TryNothing(w) \/ TryTake(w)
  \/ DrainSend(w) \/ DrainErase(w) \/ DrainAgain(w) \/ Exit(w)
Runs(w) == Steps(w) /\ UNCHANGED <<main, accepted, order, backlog, client>>
TakesNew(w) == TryTake(w) /\ UNCHANGED <<main, accepted, order, backlog, client>>
Wakes(w) == Wake(w) /\ UNCHANGED <<main, accepted, order, backlog, client>>
Crashes(w) == Crash(w) /\ UNCHANGED <<main, accepted, order, backlog, client>>
-----------------------------------------------------------------------------
(* The environment: clients, as in AsyncServer, and time.  After a stop    *)
(* only what is being sent matters, so nothing else is sent or runs out.   *)

Connect(c) ==
  /\ client[c].at = "new"
  /\ client' = [client EXCEPT ![c].at = "idle"] /\ backlog' = Append(backlog, c)
  /\ UNCHANGED <<shared, main, accepted, order, mine, inbox, outbox, closed>>
Send(c) ==
  /\ started /\ c \in Asker /\ client[c].at = "idle" /\ client[c].made < Requests
  /\ client' = [client EXCEPT ![c].at = "sending", ![c].made = @ + 1]
  /\ inbox' = [inbox EXCEPT ![c] = Append(@, "len")]
  /\ UNCHANGED <<shared, main, accepted, order, mine, backlog, outbox, closed>>
SendBody(c) ==
  /\ started /\ client[c].at = "sending" /\ c \notin closed
  /\ client' = [client EXCEPT ![c].at = "waiting"]
  /\ inbox' = [inbox EXCEPT ![c] = Append(@, "body")]
  /\ UNCHANGED <<shared, main, accepted, order, mine, backlog, outbox, closed>>
ReadReply(c) ==
  /\ client[c].at = "waiting" /\ outbox[c] > 0
  /\ outbox' = [outbox EXCEPT ![c] = @ - 1]
  /\ client' = [client EXCEPT ![c] =
       IF @.got + 1 = ReplyChunks THEN [@ EXCEPT !.at = "idle", !.got = 0] ELSE [@ EXCEPT !.got = client[c].got + 1]]
  /\ UNCHANGED <<shared, main, accepted, order, mine, backlog, inbox, closed>>
Leave(c) ==
  /\ client[c].at \in {"idle", "sending", "waiting"} /\ c \in Leaver \cup closed
  /\ client' = [client EXCEPT ![c] = [at |-> "left", made |-> 0, got |-> 0]]
  /\ UNCHANGED <<shared, main, accepted, order, mine, backlog, inbox, outbox, closed>>
Elapse(w, s) ==
  /\ ~conn[w][s].late
  /\ conn[w][s].client \in Idler \/ Gone(conn[w][s].client)
  /\ conn[w][s].status = "sending" \/ (started /\ conn[w][s].status \in Asked \cup {"receiving"})
  /\ s \in Range(pool[w].keys)
  /\ conn' = [conn EXCEPT ![w][s].late = TRUE]
  /\ UNCHANGED <<shared, main, accepted, order, worker, pool, clientVars>>

Next ==
  \/ Main \/ Stop
  \/ \E w \in Worker : Runs(w) \/ Wakes(w) \/ Crashes(w)
  \/ \E c \in Client : Connect(c) \/ Send(c) \/ SendBody(c) \/ ReadReply(c) \/ Leave(c)
  \/ \E w \in Worker, s \in Slot : Elapse(w, s)

(* Threads are scheduled fairly, time passes, clients read what they are   *)
(* sent and notice that they are closed; a try_lock that is tried again    *)
(* and again does not always meet another thread in its critical section.  *)
Fairness ==
  /\ WF_vars(Main)
  /\ \A w \in Worker : WF_vars(Runs(w)) /\ SF_vars(TakesNew(w))
  /\ WF_vars(\E w \in Worker, s \in Slot : Elapse(w, s))
  /\ WF_vars(\E c \in Client : ReadReply(c) \/ (c \in closed /\ Leave(c)))

Spec == Init /\ [][Next]_vars
FairSpec == Spec /\ Fairness
-----------------------------------------------------------------------------
(* The clients whose sockets w has: dealt out to it, or its connections.   *)
Clients(w) == [i \in DOMAIN pool[w].keys |-> conn[w][pool[w].keys[i]].client]
Holds(w) == fresh[w] \o Clients(w)

(* Until Clear, GroupConnectionNum counts the clients whose sockets were   *)
(* accepted and not dropped, wherever they are, and                        *)
(* GroupConnectionNumPerThread those of each worker: the limit neither     *)
(* leaks nor drifts, whichever way a connection ends (GroupRun,            *)
(* GroupDistributeConnection, GroupQuery).                                 *)
CountsConnections ==
  main # "end" =>
    /\ \A w \in Worker : perThread[w] = Len(Holds(w))
    /\ groupNum = Cardinality(Range(accepted) \cup UNION {Range(Holds(w)) : w \in Worker})

(* Every socket is in one place: accepted, dealt out, or a connection of   *)
(* one worker; none is lost between the threads while the server runs      *)
(* (GroupDistributeConnection, GroupQuery's two places that take).         *)
OneHolder ==
  LET outside == accepted \o backlog IN
  /\ IsInjective(outside) /\ \A w \in Worker : IsInjective(Holds(w))
  /\ \A w \in Worker : Range(Holds(w)) \cap Range(outside) = {}
  /\ \A v, w \in Worker : v # w => Range(Holds(v)) \cap Range(Holds(w)) = {}
  /\ started => \A c \in Client : client[c].at \in {"idle", "sending", "waiting"} =>
       c \in closed \cup Range(outside) \cup UNION {Range(Holds(w)) : w \in Worker}

(* No pool is asked for more than it holds, which would throw and end the  *)
(* process: GroupRun's limit is that of every pool (GroupRun, CQueue's     *)
(* push and reserve).                                                      *)
NoPushThrows == \A w \in Worker : worker[w].at # "dead"

(* What the limit promises, MaxConnections connections: that a worker may  *)
(* be dealt more than its pool began with and goes on.  Not so, since the  *)
(* pool then frees the buffers of the connections it has (CQueue's         *)
(* reserve, CPack's destructor).                                           *)
NoThreadCrashes == \A w \in Worker : worker[w].at # "crashed"

(* When the server has stopped and its state is cleared, no worker has a   *)
(* connection: a worker that starts late only exits (GroupRun's wait for   *)
(* AsyncThreadNum, GroupQuery).                                            *)
NobodyServesAfterEnd ==
  main = "end" => \A w \in Worker : pool[w].keys = <<>> /\ worker[w].at \notin {"serve", "spin"}

Spins == \E w \in Worker : worker[w].at = "spin"
Crashed == \E w \in Worker : worker[w].at = "crashed"

(* A stop ends, whoever sleeps, unless a client that left in the middle of *)
(* a request holds its worker, or a worker whose pool has grown crashes    *)
(* (GroupRun, GroupQuery).                                                 *)
StopCompletes == ~started ~> (main = "end" \/ Spins \/ Crashed)

(* A client that waits is answered or disconnected, although its worker    *)
(* may be asleep or busy when its socket is dealt out, and although others *)
(* may have used its slot; again unless a worker spins or crashes          *)
(* (GroupRun's notify_all, GroupQuery's try_lock).                         *)
Answered ==
  \A c \in Asker : client[c].at = "waiting" ~> (client[c].at # "waiting" \/ ~started \/ Spins \/ Crashed)
=============================================================================
