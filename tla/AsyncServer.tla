---------------------------- MODULE AsyncServer ----------------------------
(***************************************************************************)
(* CMoonDb::AsyncRun (cmoondb.cpp), the server that runs when Async = 1.   *)
(* One main thread owns every socket: it accepts clients, receives their   *)
(* requests, sends the replies and closes what is idle, broken or late.    *)
(* A request that was received is handed to a pool of worker threads       *)
(* through a queue, a mutex and a condition variable; with MaxThreads = 1  *)
(* there is no pool and the main thread answers it itself.                 *)
(*                                                                         *)
(* A step is one visit of a connection by the main thread, one critical    *)
(* section of ThreadMutex, or one of a worker's accesses to what threads   *)
(* share.  Status is not atomic in the code, but a visit acts on it once,  *)
(* and a worker writes it once, after the reply is in the buffer.          *)
(***************************************************************************)
EXTENDS Integers, Sequences, FiniteSets, SequencesExt

CONSTANTS
  Client,          \* each makes one connection
  Worker,          \* the threads of the pool: MaxThreads of them, or none
  MaxConnections,  \* size of the pool of connections
  Requests,        \* how many requests a client makes at most
  Leaving,         \* the clients that may leave with a request under way
  Lengths,         \* the lengths of requests: "len", or "big", which is refused
  Outcomes,        \* how queries end: "reply", "error", "empty" (no reply)
  MayStop,         \* the server may be told to stop
  ReplyChunks,     \* the number of chunks a reply is sent in
  SocketRoom,      \* how many of them a socket takes until the client reads
  CounterRange,    \* range of AsyncThreadNum (2^32)
  NoClient, NoConn

ASSUME PoolAssumption ==
  IsFiniteSet(Worker) /\ Cardinality(Worker) # 1 /\ CounterRange \in Nat /\ CounterRange > Cardinality(Worker) + 1
ASSUME RoomAssumption ==
  /\ MaxConnections \in Nat \ {0} /\ SocketRoom \in Nat \ {0} /\ ReplyChunks \in Nat \ {0}
  /\ Requests \in Nat /\ Lengths \subseteq {"len", "big"}
ASSUME NameAssumption == NoClient \notin Client /\ NoConn \notin 1..MaxConnections

MaxThreads == IF Worker = {} THEN 1 ELSE Cardinality(Worker)
Conn == 1..MaxConnections

VARIABLES
  started,    \* Started
  main,       \* where the main thread is
  todo,       \* the connections it has yet to visit in this round
  pool,       \* AsyncConnections: the connections in use, in order
  freed,      \* ... and those that were used and can be again
  conn,       \* what a connection holds
  threadNum,  \* AsyncThreadNum
  queue,      \* AsyncNewConnections
  worker,     \* where each worker is, and the connection it works for
  backlog,    \* the clients that wait to be accepted
  client,     \* where each client is, requests made, chunks of reply read
  inbox,      \* what a client sent and the server has not read
  outbox,     \* what the server sent and the client has not read
  closed      \* the clients whose socket the server closed

serverVars == <<started, main, todo, pool, freed, conn, threadNum, queue>>
clientVars == <<backlog, client, inbox, outbox, closed>>
vars == <<serverVars, worker, clientVars>>

Status == {"unconnected", "connected", "disconnected", "receiving", "received",
           "processing", "processed", "sending", "sent"}
Place == {"accept", "visit", "push", "spin", "wait", "drain", "end"}
Asked == {"connected", "sent"}

TypeOK ==
  /\ started \in BOOLEAN /\ main \in Place
  /\ todo \in Seq(Conn) /\ pool \in Seq(Conn) /\ freed \in Seq(Conn) /\ queue \in Seq(Conn)
  /\ conn \in [Conn -> [client : Client \cup {NoClient}, status : Status, err : BOOLEAN,
                        buf : Client \cup {NoClient}, left : 0..ReplyChunks, late : BOOLEAN]]
  /\ threadNum \in 0..(CounterRange - 1)
  /\ worker \in [Worker -> [at : {"check", "lock", "asleep", "query", "done", "exit"},
                            conn : Conn \cup {NoConn}]]
  /\ backlog \in Seq(Client) /\ closed \subseteq Client
  /\ client \in [Client -> [at : {"new", "idle", "sending", "waiting", "left"},
                            made : 0..Requests, got : 0..ReplyChunks]]
  /\ inbox \in [Client -> Seq({"len", "big", "body"})]
  /\ outbox \in [Client -> Seq(Client)]
-----------------------------------------------------------------------------
(* A connection as a value: what AsyncReceive, AsyncSend and _AsyncQuery   *)
(* make of it.  buf says whose bytes its buffer holds.  late says that the *)
(* timeout of its status went by since its Time was set.                   *)

Unused == [client |-> NoClient, status |-> "unconnected", err |-> FALSE,
           buf |-> NoClient, left |-> 0, late |-> FALSE]
Initialized(c) == [Unused EXCEPT !.client = c, !.status = "connected"]
Closed(k) == [k EXCEPT !.status = "disconnected"]
Gone(c) == client[c].at = "left"

(* The results of AsyncReceive: the connection, what is left to read, and  *)
(* whether the loop ever ends.                                             *)
Result(k, in) == [conn |-> k, in |-> in, ends |-> TRUE]

(* The loop that receives the body.  recv returns 0 when the client left,  *)
(* which is neither data nor an error: the loop goes on for ever.          *)
Body(k, in) ==
  IF in # <<>>
  THEN {Result([k EXCEPT !.status = "received", !.buf = k.client, !.late = FALSE], Tail(in))}
  ELSE IF ~Gone(k.client) THEN {Result(k, in)}
  ELSE {Result(Closed(k), in), [Result(k, in) EXCEPT !.ends = FALSE]}

(* The 8 bytes of a length.  After a length that is too big, what comes    *)
(* next is its body: as a length it may be anything.                       *)
Length(k, in) ==
  LET receiving == [k EXCEPT !.status = "receiving", !.buf = NoClient, !.late = FALSE]
      refused   == Result([k EXCEPT !.err = TRUE, !.buf = k.client], Tail(in))
  IN  IF in = <<>> THEN {Result(IF Gone(k.client) THEN Closed(k) ELSE k, in)}
      ELSE CASE Head(in) = "len"  -> Body(receiving, Tail(in))
             [] Head(in) = "big"  -> {refused}
             [] Head(in) = "body" -> {Result(Closed(k), in), refused}
                                       \cup Body(receiving, in) \cup Body(receiving, Tail(in))

(* Faulty variant: receiving does not time out. *)
AsyncReceivePatient(k) ==
  IF k.status \in Asked THEN Length(k, inbox[k.client]) ELSE Body(k, inbox[k.client])

AsyncReceive(k) ==
  LET in == inbox[k.client] IN
  IF k.status \in Asked THEN Length(k, in)
  ELSE IF k.late THEN {Result(Closed(k), in)}
  ELSE Body(k, in)

(* The results of AsyncSend: the connection, and the chunks that were sent.*)
AsyncSend(k) ==
  LET room == SocketRoom - Len(outbox[k.client])
      n    == IF k.left < room THEN k.left ELSE room
      late == k.late /\ k.status = "sending" /\ n = 0
      left == [k EXCEPT !.status = "sending", !.left = k.left - n, !.late = late]
      done == IF left.left > 0 THEN left
              ELSE IF k.err THEN Closed(left) ELSE [left EXCEPT !.status = "sent"]
  IN  IF k.status = "sending" /\ k.late THEN {[conn |-> Closed(k), out |-> <<>>]}
      ELSE {[conn |-> done, out |-> [i \in 1..n |-> k.buf]]} \cup
           (IF Gone(k.client) THEN {[conn |-> Closed(k), out |-> <<>>]} ELSE {})

(* The results of _AsyncQuery.  What throws sets Error; an SQL query       *)
(* leaves an empty buffer.                                                 *)
AsyncQuery(k) ==
  {[k EXCEPT !.status = "processed", !.err = @ \/ o = "error",
             !.left = IF o = "empty" THEN 0 ELSE ReplyChunks] : o \in Outcomes}
-----------------------------------------------------------------------------
Init ==
  /\ started = TRUE /\ main = "accept"
  /\ todo = <<>> /\ pool = <<>> /\ freed = <<>> /\ queue = <<>>
  /\ conn = [s \in Conn |-> Unused]
  /\ threadNum = 0
  /\ worker = [w \in Worker |-> [at |-> "check", conn |-> NoConn]]
  /\ backlog = <<>> /\ closed = {}
  /\ client = [c \in Client |-> [at |-> "new", made |-> 0, got |-> 0]]
  /\ inbox = [c \in Client |-> <<>>]
  /\ outbox = [c \in Client |-> <<>>]

(* The sockets after the connection of client c became k. *)
Sockets(k, in, out) ==
  /\ inbox' = [inbox EXCEPT ![k.client] = in]
  /\ outbox' = [outbox EXCEPT ![k.client] = @ \o out]
  /\ closed' = IF k.status = "disconnected" THEN closed \cup {k.client} ELSE closed

(* AsyncAccept, for one client: CQueue's push takes the connection that    *)
(* was freed first, or one never used; the client may have sent already.   *)
Accept ==
  /\ main = "accept"
  /\ backlog # <<>> /\ Len(pool) < MaxConnections
  /\ LET s == IF freed # <<>> THEN Head(freed) ELSE Len(pool) + 1 IN
     \E r \in AsyncReceive(Initialized(Head(backlog))) :
       /\ pool' = Append(pool, s)
       /\ freed' = IF freed # <<>> THEN Tail(freed) ELSE freed
       /\ conn' = [conn EXCEPT ![s] = r.conn]
       /\ Sockets(r.conn, r.in, <<>>)
       /\ main' = IF r.ends THEN main ELSE "spin"
  /\ backlog' = Tail(backlog)
  /\ UNCHANGED <<started, todo, threadNum, queue, worker, client>>

AcceptDone ==
  /\ main = "accept"
  /\ backlog = <<>> \/ Len(pool) = MaxConnections
  /\ main' = "visit" /\ todo' = pool
  /\ UNCHANGED <<started, pool, freed, conn, threadNum, queue, worker, clientVars>>

(* Faulty variant: a connection is freed and stays in use. *)
EraseHalf(s) == UNCHANGED pool /\ freed' = Append(freed, s)

Erase(s) == pool' = RemoveFirst(pool, s) /\ freed' = Append(freed, s)

(* Faulty variant: a busy connection may be erased. *)
ToEraseBusy(k) == k.status \in Asked \cup {"disconnected", "processing"}

(* A visit of a connection that is closed, or is closed now because it was *)
(* idle for too long, ends with the connection.                            *)
ToErase(k) == k.status = "disconnected" \/ (k.status \in Asked /\ k.late)
VisitErase ==
  /\ main = "visit" /\ started /\ todo # <<>>
  /\ LET s == Head(todo) IN
     /\ ToErase(conn[s])
     /\ Erase(s)
     /\ closed' = closed \cup {conn[s].client}
  /\ todo' = Tail(todo)
  /\ UNCHANGED <<started, main, conn, threadNum, queue, worker, backlog, client, inbox, outbox>>

(* Faulty variant: a connection that is dispatched keeps its status. *)
DispatchQuietly(s, k) ==
  /\ conn' = [conn EXCEPT ![s] = k]
  /\ IF threadNum < MaxThreads /\ k.status = "received"
     THEN main' = "push" /\ todo' = todo /\ threadNum' = threadNum + 1
     ELSE main' = main /\ todo' = Tail(todo) /\ threadNum' = threadNum

(* The end of a visit of s, whose connection is now k: what was received   *)
(* is dispatched if AsyncThreadNum allows it.                              *)
Dispatch(s, k) ==
  IF ~(threadNum < MaxThreads /\ k.status = "received")
  THEN /\ conn' = [conn EXCEPT ![s] = k]
       /\ main' = main /\ todo' = Tail(todo) /\ threadNum' = threadNum
  ELSE IF MaxThreads = 1
  THEN /\ \E q \in AsyncQuery(k) : conn' = [conn EXCEPT ![s] = q]
       /\ main' = main /\ todo' = Tail(todo) /\ threadNum' = threadNum
  ELSE /\ conn' = [conn EXCEPT ![s] = [k EXCEPT !.status = "processing"]]
       /\ main' = "push" /\ todo' = todo /\ threadNum' = threadNum + 1

VisitReceive ==
  /\ main = "visit" /\ started /\ todo # <<>>
  /\ LET s == Head(todo) IN
     /\ conn[s].status = "receiving" \/ (conn[s].status \in Asked /\ ~conn[s].late)
     /\ \E r \in AsyncReceive(conn[s]) :
          /\ Sockets(r.conn, r.in, <<>>)
          /\ \/ r.ends /\ Dispatch(s, r.conn)
             \/ ~r.ends /\ main' = "spin" /\ UNCHANGED <<conn, todo, threadNum>>
  /\ UNCHANGED <<started, pool, freed, queue, worker, backlog, client>>

VisitSend ==
  /\ main = "visit" /\ started /\ todo # <<>>
  /\ LET s == Head(todo) IN
     /\ conn[s].status \in {"processed", "sending"}
     /\ \E r \in AsyncSend(conn[s]) :
          Sockets(r.conn, inbox[r.conn.client], r.out) /\ Dispatch(s, r.conn)
  /\ UNCHANGED <<started, pool, freed, queue, worker, backlog, client>>

(* Received, but all threads were busy; or with a worker. *)
VisitOther ==
  /\ main = "visit" /\ started /\ todo # <<>>
  /\ conn[Head(todo)].status \in {"received", "processing"}
  /\ Dispatch(Head(todo), conn[Head(todo)])
  /\ UNCHANGED <<started, pool, freed, queue, worker, clientVars>>

(* Faulty variant: no worker is notified. *)
PushSilently ==
  /\ main = "push"
  /\ queue' = Append(queue, Head(todo))
  /\ main' = "visit" /\ todo' = Tail(todo)
  /\ UNCHANGED <<worker, started, pool, freed, conn, threadNum, clientVars>>

(* Under ThreadMutex: notify_one wakes one of the workers that sleep. *)
Asleep == {w \in Worker : worker[w].at = "asleep"}
Push ==
  /\ main = "push"
  /\ queue' = Append(queue, Head(todo))
  /\ \/ Asleep = {} /\ UNCHANGED worker
     \/ \E w \in Asleep : worker' = [worker EXCEPT ![w].at = "lock"]
  /\ main' = "visit" /\ todo' = Tail(todo)
  /\ UNCHANGED <<started, pool, freed, conn, threadNum, clientVars>>

(* The end of a round, which a stop ends early. *)
RoundDone ==
  /\ main = "visit" /\ (todo = <<>> \/ ~started)
  /\ main' = (IF started THEN "accept" ELSE "wait") /\ todo' = <<>>
  /\ UNCHANGED <<started, pool, freed, conn, threadNum, queue, worker, clientVars>>

Stop ==
  /\ MayStop /\ started
  /\ started' = FALSE
  /\ UNCHANGED <<main, todo, pool, freed, conn, threadNum, queue, worker, clientVars>>

(* A stop waits for AsyncThreadNum, then sends what is processed ...       *)
WaitForThreads ==
  /\ main = "wait" /\ threadNum = 0
  /\ main' = "drain" /\ todo' = pool
  /\ UNCHANGED <<started, pool, freed, conn, threadNum, queue, worker, clientVars>>

DrainSend ==
  /\ main = "drain" /\ todo # <<>>
  /\ LET s == Head(todo) IN
     /\ conn[s].status \in {"processed", "sending"}
     /\ \E r \in AsyncSend(conn[s]) :
          Sockets(r.conn, inbox[r.conn.client], r.out) /\ conn' = [conn EXCEPT ![s] = r.conn]
  /\ todo' = Tail(todo)
  /\ UNCHANGED <<started, main, pool, freed, threadNum, queue, worker, backlog, client>>

(* Faulty variant: a connection whose reply was sent is left alone. *)
DrainEraseSome ==
  /\ main = "drain" /\ todo # <<>>
  /\ conn[Head(todo)].status \notin {"processed", "sending", "sent"}
  /\ Erase(Head(todo))
  /\ todo' = Tail(todo)
  /\ UNCHANGED <<started, main, conn, threadNum, queue, worker, clientVars>>

(* ... and drops every other connection, without closing its socket.       *)
DrainErase ==
  /\ main = "drain" /\ todo # <<>>
  /\ conn[Head(todo)].status \notin {"processed", "sending"}
  /\ Erase(Head(todo))
  /\ todo' = Tail(todo)
  /\ UNCHANGED <<started, main, conn, threadNum, queue, worker, clientVars>>

DrainAgain ==
  /\ main = "drain" /\ todo = <<>> /\ pool # <<>>
  /\ todo' = pool
  /\ UNCHANGED <<started, main, pool, freed, conn, threadNum, queue, worker, clientVars>>

(* Clear *)
DrainDone ==
  /\ main = "drain" /\ todo = <<>> /\ pool = <<>>
  /\ main' = "end"
  /\ freed' = <<>> /\ queue' = <<>> /\ threadNum' = 0
  /\ conn' = [s \in Conn |-> Unused]
  /\ UNCHANGED <<started, todo, pool, worker, clientVars>>

Main ==
  \/ Accept \/ AcceptDone \/ VisitErase \/ VisitReceive \/ VisitSend \/ VisitOther \/ Push
  \/ RoundDone \/ WaitForThreads \/ DrainSend \/ DrainErase \/ DrainAgain \/ DrainDone
-----------------------------------------------------------------------------
(* The workers (AsyncQuery). *)

Decremented == (threadNum + CounterRange - 1) % CounterRange

Exit(w) ==
  /\ ~started
  /\ threadNum' = Decremented
  /\ worker' = [worker EXCEPT ![w].at = "exit"]
  /\ UNCHANGED <<queue, conn>>

Check(w) ==
  /\ worker[w].at = "check"
  /\ \/ Exit(w)
     \/ /\ started
        /\ worker' = [worker EXCEPT ![w].at = "lock"]
        /\ UNCHANGED <<threadNum, queue, conn>>

(* Under ThreadMutex: take a connection, or sleep until one is pushed. *)
Take(w) ==
  /\ worker[w].at = "lock"
  /\ \/ Exit(w)
     \/ /\ started /\ queue = <<>>
        /\ worker' = [worker EXCEPT ![w].at = "asleep"]
        /\ UNCHANGED <<threadNum, queue, conn>>
     \/ /\ started /\ queue # <<>>
        /\ worker' = [worker EXCEPT ![w] = [at |-> "query", conn |-> Head(queue)]]
        /\ queue' = Tail(queue)
        /\ UNCHANGED <<threadNum, conn>>

(* A condition variable may wake up without being notified. *)
Wake(w) ==
  /\ worker[w].at = "asleep"
  /\ worker' = [worker EXCEPT ![w].at = "lock"]
  /\ UNCHANGED <<threadNum, queue, conn>>

Query(w) ==
  /\ worker[w].at = "query"
  /\ \E q \in AsyncQuery(conn[worker[w].conn]) :
       conn' = [conn EXCEPT ![worker[w].conn] = q]
  /\ worker' = [worker EXCEPT ![w] = [at |-> "done", conn |-> NoConn]]
  /\ UNCHANGED <<threadNum, queue>>

(* Faulty variant: a worker forgets to count its request off. *)
DoneUncounted(w) ==
  /\ worker[w].at = "done"
  /\ worker' = [worker EXCEPT ![w].at = "check"]
  /\ UNCHANGED <<threadNum, queue, conn>>

Done(w) ==
  /\ worker[w].at = "done"
  /\ threadNum' = Decremented
  /\ worker' = [worker EXCEPT ![w].at = "check"]
  /\ UNCHANGED <<queue, conn>>

Runs(w) ==
  /\ Check(w) \/ Take(w) \/ Query(w) \/ Done(w)
  /\ UNCHANGED <<started, main, todo, pool, freed, clientVars>>
Wakes(w) == Wake(w) /\ UNCHANGED <<started, main, todo, pool, freed, clientVars>>
-----------------------------------------------------------------------------
(* The environment: clients that send a request and wait for its reply     *)
(* (CMoonDbClient), and time.                                              *)

Connect(c) ==
  /\ client[c].at = "new"
  /\ client' = [client EXCEPT ![c].at = "idle"]
  /\ backlog' = Append(backlog, c)
  /\ UNCHANGED <<serverVars, worker, inbox, outbox, closed>>

Send(c) ==
  /\ client[c].at = "idle" /\ client[c].made < Requests
  /\ client' = [client EXCEPT ![c].at = "sending", ![c].made = @ + 1]
  /\ \E len \in Lengths : inbox' = [inbox EXCEPT ![c] = Append(@, len)]
  /\ UNCHANGED <<serverVars, worker, backlog, outbox, closed>>

SendBody(c) ==
  /\ client[c].at = "sending" /\ c \notin closed
  /\ client' = [client EXCEPT ![c].at = "waiting"]
  /\ inbox' = [inbox EXCEPT ![c] = Append(@, "body")]
  /\ UNCHANGED <<serverVars, worker, backlog, outbox, closed>>

Read(c) ==
  /\ client[c].at = "waiting" /\ outbox[c] # <<>>
  /\ outbox' = [outbox EXCEPT ![c] = Tail(@)]
  /\ LET got == client[c].got + 1 IN
     client' = [client EXCEPT ![c].at = IF got = ReplyChunks THEN "idle" ELSE @,
                              ![c].got = IF got = ReplyChunks THEN 0 ELSE got]
  /\ UNCHANGED <<serverVars, worker, backlog, inbox, closed>>

(* A client leaves when the server has closed its socket, between two      *)
(* requests, or with one under way.                                        *)
Leave(c) ==
  /\ \/ c \in closed /\ client[c].at \in {"sending", "waiting"} /\ outbox[c] = <<>>
     \/ client[c].at = "idle"
     \/ c \in Leaving /\ client[c].at \in {"sending", "waiting"}
  /\ client' = [client EXCEPT ![c].at = "left"]
  /\ UNCHANGED <<serverVars, worker, backlog, inbox, outbox, closed>>

(* The timeout of a connection's status goes by: of receiving, of sending, *)
(* or of waiting for a request.                                            *)
Elapse(s) ==
  /\ conn[s].status \in Asked \cup {"receiving", "sending"} /\ ~conn[s].late
  /\ conn' = [conn EXCEPT ![s].late = TRUE]
  /\ UNCHANGED <<started, main, todo, pool, freed, threadNum, queue, worker, clientVars>>

Next ==
  \/ Main \/ Stop
  \/ \E w \in Worker : Runs(w) \/ Wakes(w)
  \/ \E c \in Client : Connect(c) \/ Send(c) \/ SendBody(c) \/ Read(c) \/ Leave(c)
  \/ \E s \in Conn : Elapse(s)

(* Threads are scheduled fairly; time passes; a client reads what it is    *)
(* sent, and notices that the server closed its socket.  It need not send, *)
(* and a condition variable need not wake up by itself.                    *)
Fairness ==
  /\ WF_vars(Main)
  /\ \A w \in Worker : WF_vars(Runs(w))
  /\ \A s \in Conn : WF_vars(Elapse(s))
  /\ \A c \in Client : WF_vars(Read(c)) /\ WF_vars(c \in closed /\ Leave(c))

Spec == Init /\ [][Next]_vars
FairSpec == Spec /\ Fairness
-----------------------------------------------------------------------------
Pushing == IF main = "push" THEN {Head(todo)} ELSE {}
Working(s) == {w \in Worker : worker[w].conn = s}

(* While the server runs, a connection that is being processed is owned by *)
(* exactly one thread or waits once in the queue, and no other connection  *)
(* is: the main thread neither sends, receives nor erases under a worker   *)
(* (AsyncRun's dispatch, AsyncQuery's pop, and the statuses between them). *)
OneOwner ==
  started =>
    \A s \in Conn :
      LET owners == Cardinality(Pushing \cap {s}) + Cardinality(Working(s))
                      + Cardinality({i \in DOMAIN queue : queue[i] = s})
      IN  IF conn[s].status = "processing" THEN owners = 1 /\ s \in Range(pool) ELSE owners = 0

(* While the server runs, AsyncThreadNum counts the requests that were     *)
(* dispatched and whose worker is not done (AsyncRun, AsyncQuery): the     *)
(* limit on dispatches neither leaks nor drifts.                           *)
CountsRequests ==
  started =>
    threadNum = Cardinality(Pushing) + Len(queue)
                  + Cardinality({w \in Worker : worker[w].at \in {"query", "done"}})

(* A client only receives replies to its own requests, although its        *)
(* connection, with its buffer, was another's before (CQueue, Initialize). *)
RepliesAreOwn == \A c \in Client : \A i \in DOMAIN outbox[c] : outbox[c][i] = c

(* What is in use and what was freed do not overlap (CQueue's push, erase).*)
PoolIsConsistent == IsInjective(pool \o freed)

(* A client that waits for a reply gets it or is disconnected, unless the  *)
(* server stops: no request is forgotten between the threads (AsyncRun,    *)
(* AsyncQuery, notify_one).                                                *)
Answered ==
  \A c \in Client : client[c].at = "waiting" ~> (client[c].at # "waiting" \/ ~started)

(* A stop comes to its end ("has stopped", cmoondb.h:219). *)
StopCompletes == ~started ~> main = "end"

(* A request that started to arrive is completed or times out ("if it has  *)
(* started to receive, check the receive timeout", cmoondb.cpp:1376).      *)
ReceiveTimesOut == \A s \in Conn : conn[s].status = "receiving" ~> conn[s].status # "receiving"

(* A client that is refused for the length of its request is told so       *)
(* (AsyncReceive's error; "read more, for it contains the error message",  *)
(* cmoondbclient.cpp:263).                                                 *)
RefusalIsSent ==
  \A s \in Conn, c \in Client :
    (conn[s].client = c /\ conn[s].err /\ conn[s].status = "connected") ~> outbox[c] # <<>>
=============================================================================
