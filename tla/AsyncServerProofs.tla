------------------------- MODULE AsyncServerProofs -------------------------
(***************************************************************************)
(* Proofs about AsyncServer, for every number of worker threads, pool of   *)
(* connections, set of clients and behaviour of theirs.                    *)
(***************************************************************************)
EXTENDS AsyncServer, QueueFacts

Message == {"len", "big", "body"}
ConnType == [client : Client \cup {NoClient}, status : Status, err : BOOLEAN,
             buf : Client \cup {NoClient}, left : 0..ReplyChunks, late : BOOLEAN]

WorkerType == [at : {"check", "lock", "asleep", "query", "done", "exit"}, conn : Conn \cup {NoConn}]

(* A socket never holds more than its room, and no client reads a reply    *)
(* beyond its end.                                                         *)
Sockets0 == \A c \in Client : Len(outbox[c]) <= SocketRoom /\ client[c].got < ReplyChunks

(* What CQueue holds: the connections that were ever used, each in use or  *)
(* freed.  The next one that never was has the number after them.          *)
PoolInv ==
  /\ IsInjective(pool) /\ IsInjective(freed) /\ Range(pool) \cap Range(freed) = {}
  /\ Range(pool) \cup Range(freed) = 1..(Len(pool) + Len(freed))

(* A round visits connections in use, each once.                           *)
TodoInv ==
  /\ main \in {"visit", "push", "drain"} => IsInjective(todo) /\ Range(todo) \subseteq Range(pool)
  /\ main = "push" => todo # <<>>
  /\ main \in {"wait", "drain", "end"} => ~started

(* A connection has an owner: the main thread that pushes it, a place in   *)
(* the queue, or a worker.                                                 *)
Owned(s) == s \in Pushing \/ s \in Range(queue) \/ \E w \in Worker : worker[w].conn = s
OwnerInv ==
  /\ IsInjective(queue)
  /\ \A w \in Worker : worker[w].conn # NoConn <=> worker[w].at = "query"
  /\ \A v, w \in Worker : worker[v].conn = worker[w].conn /\ worker[v].conn # NoConn => v = w
  /\ Pushing \cap Range(queue) = {}
  /\ \A w \in Worker : worker[w].conn \notin Pushing \cup Range(queue)

(* Until a stop clears everything, a connection is being processed while   *)
(* it has an owner; until the stop drops it, it is also in use.            *)
StatusInv ==
  /\ main # "end" => \A s \in Conn : conn[s].status = "processing" <=> Owned(s)
  /\ main \notin {"drain", "end"} =>
       \A s \in Conn : conn[s].status = "processing" => s \in Range(pool)

(* A connection in use has a client; from a request to the end of its      *)
(* reply the buffer holds what is that client's.                           *)
Good(k) == k.client \in Client
           /\ (k.status \in {"received", "processing", "processed", "sending"} => k.buf = k.client)
BufferInv == main # "end" => \A s \in Range(pool) : Good(conn[s])
OutboxInv == \A c \in Client : outbox[c] \in Seq({c})

Busy == {w \in Worker : worker[w].at \in {"query", "done"}}
CountInv == started => threadNum = Cardinality(Pushing) + Len(queue) + Cardinality(Busy)

IInv ==
  /\ TypeOK /\ Sockets0 /\ PoolInv /\ TodoInv /\ OwnerInv /\ StatusInv
  /\ BufferInv /\ OutboxInv /\ CountInv
-----------------------------------------------------------------------------
(* Connections as values. *)

(* A connection that has a client keeps it when it receives, and is good.  *)
Received(k, r) ==
  /\ r.conn \in ConnType /\ r.in \in Seq(Message) /\ r.conn.client = k.client
  /\ r.conn.status \in {"connected", "sent", "receiving", "received", "disconnected"}
  /\ Good(r.conn)

(* Receiving a body (AsyncReceive's second loop). *)
LEMMA BodyResults ==
  ASSUME TypeOK, NEW k \in ConnType, k.client \in Client,
         k.status \in {"connected", "sent", "receiving"},
         NEW in \in Seq(Message), NEW r \in Body(k, in)
  PROVE  Received(k, r)
<1> DEFINE full == [k EXCEPT !.status = "received", !.buf = k.client, !.late = FALSE]
<1>1. full \in ConnType /\ full.client = k.client /\ full.buf = k.client /\ full.status = "received"
  BY DEF ConnType, Status
<1>2. Closed(k) \in ConnType /\ Closed(k).client = k.client /\ Closed(k).status = "disconnected"
  BY DEF ConnType, Status, Closed
<1>3. CASE in # <<>>
  <2>1. r = Result(full, Tail(in))
    BY <1>3 DEF Body
  <2>2. Tail(in) \in Seq(Message)
    BY <1>3, Tailed
  <2>3. r.conn = full /\ r.in = Tail(in)
    BY <2>1 DEF Result
  <2> HIDE DEF full
  <2>4. QED
    BY <1>1, <2>2, <2>3 DEF Received, Good
<1>4. CASE in = <<>>
  <2>1. r.conn \in {k, Closed(k)} /\ r.in = in
    BY <1>4 DEF Body, Result
  <2>2. QED
    BY <1>2, <2>1 DEF Received, Good
<1>5. QED
  BY <1>3, <1>4

(* Receiving a length and what comes with it (AsyncReceive's first loop). *)
LEMMA LengthResults ==
  ASSUME TypeOK, NEW k \in ConnType, k.client \in Client, k.status \in Asked,
         NEW in \in Seq(Message), NEW r \in Length(k, in)
  PROVE  Received(k, r)
<1> DEFINE receiving == [k EXCEPT !.status = "receiving", !.buf = NoClient, !.late = FALSE]
           err == [k EXCEPT !.err = TRUE, !.buf = k.client]
           refused == Result(err, Tail(in))
<1>1. /\ receiving \in ConnType /\ receiving.client = k.client /\ receiving.status = "receiving"
      /\ err \in ConnType /\ err.client = k.client /\ err.status = k.status
  BY DEF ConnType, Status
<1>2. Closed(k) \in ConnType /\ Closed(k).client = k.client /\ Closed(k).status = "disconnected"
  BY DEF ConnType, Status, Closed
<1>3. Received(k, Result(k, in)) /\ Received(k, Result(Closed(k), in))
  BY <1>2 DEF Received, Good, Result, Asked
<1>4. CASE in = <<>>
  <2>1. r = Result(k, in) \/ r = Result(Closed(k), in)
    BY <1>4 DEF Length
  <2>2. QED
    BY <1>3, <2>1
<1>5. CASE in # <<>>
  <2>1. Tail(in) \in Seq(Message) /\ Head(in) \in Message
    BY <1>5, Tailed
  <2>2. refused.conn = err /\ refused.in = Tail(in)
    BY DEF Result
  <2>3. Received(k, refused)
    BY <1>1, <2>1, <2>2 DEF Received, Good, Asked
  <2>4. r \in Body(receiving, in) \/ r \in Body(receiving, Tail(in)) \/ r = refused
        \/ r = Result(Closed(k), in)
    BY <1>5, <2>1 DEF Length, Message
  <2> HIDE DEF receiving, refused
  <2>5. r \in Body(receiving, in) \/ r \in Body(receiving, Tail(in)) => Received(receiving, r)
    BY <1>1, <2>1, BodyResults
  <2>6. QED
    BY <1>1, <1>3, <2>3, <2>4, <2>5 DEF Received
<1>6. QED
  BY <1>4, <1>5

(* AsyncReceive keeps the client, and what it received is that client's. *)
LEMMA ReceiveResults ==
  ASSUME TypeOK, NEW k \in ConnType, k.client \in Client,
         k.status \in {"connected", "sent", "receiving"}, NEW r \in AsyncReceive(k)
  PROVE  Received(k, r)
<1>1. inbox[k.client] \in Seq(Message)
  BY DEF TypeOK, Message
<1>2. CASE k.status \in Asked
  BY <1>1, <1>2, LengthResults DEF AsyncReceive
<1>3. CASE k.status \notin Asked
  <2>1. Closed(k) \in ConnType /\ Closed(k).client = k.client /\ Closed(k).status = "disconnected"
    BY DEF ConnType, Status, Closed
  <2>2. Received(k, Result(Closed(k), inbox[k.client]))
    BY <1>1, <2>1 DEF Received, Good, Result
  <2>3. QED
    BY <1>1, <1>3, <2>2, BodyResults DEF AsyncReceive
<1>4. QED
  BY <1>2, <1>3

(* What AsyncSend leaves, when the buffer holds what is the client's: only *)
(* that was sent, and no more than the socket takes.                       *)
Sent(k, r) ==
  /\ r.conn \in ConnType /\ r.conn.client = k.client /\ Good(r.conn)
  /\ r.conn.status \in {"sending", "sent", "disconnected"}
  /\ r.out \in Seq({k.client}) /\ Len(outbox[k.client]) + Len(r.out) <= SocketRoom

(* AsyncSend keeps the client, and only sends what is that client's. *)
LEMMA SendResults ==
  ASSUME TypeOK, Sockets0, NEW k \in ConnType, k.client \in Client, k.buf = k.client,
         NEW r \in AsyncSend(k)
  PROVE  Sent(k, r)
<1> DEFINE room == SocketRoom - Len(outbox[k.client])
           n    == IF k.left < room THEN k.left ELSE room
           late == k.late /\ k.status = "sending" /\ n = 0
           left == [k EXCEPT !.status = "sending", !.left = k.left - n, !.late = late]
           done == IF left.left > 0 THEN left
                   ELSE IF k.err THEN Closed(left) ELSE [left EXCEPT !.status = "sent"]
           out  == [i \in 1..n |-> k.buf]
<1>1. room \in Nat /\ Len(outbox[k.client]) \in Nat /\ SocketRoom \in Nat
  <2>1. Len(outbox[k.client]) \in Nat /\ Len(outbox[k.client]) <= SocketRoom
    BY LenProperties DEF TypeOK, Sockets0
  <2>2. QED
    BY <2>1, RoomAssumption
<1>2. n \in Nat /\ n <= room /\ k.left - n \in 0..ReplyChunks
  BY <1>1, RoomAssumption DEF ConnType
<1>3. Len(outbox[k.client]) + n <= SocketRoom
  BY <1>1, <1>2
<1>4. out \in Seq({k.client}) /\ Len(out) = n
  <2> HIDE DEF n
  <2>1. out \in [1..n -> {k.client}]
    OBVIOUS
  <2>2. QED
    BY <1>2, <2>1, SeqDef, LenProperties
<1> HIDE DEF n, out
<1>5. late \in BOOLEAN
  BY DEF ConnType
<1> HIDE DEF late
<1>6. left \in ConnType /\ left.client = k.client /\ left.buf = k.client /\ left.status = "sending"
  BY <1>2, <1>5 DEF ConnType, Status
<1> HIDE DEF left
<1>7. /\ done \in ConnType /\ done.client = k.client /\ done.buf = k.client
      /\ done.status \in {"sending", "sent", "disconnected"}
  BY <1>6 DEF ConnType, Status, Closed
<1>8. Closed(k) \in ConnType /\ Closed(k).client = k.client /\ Closed(k).status = "disconnected"
  BY DEF ConnType, Status, Closed
<1>9. \/ r = [conn |-> Closed(k), out |-> <<>>]
      \/ r = [conn |-> done, out |-> out]
  BY DEF AsyncSend, out, left, late, n
<1> HIDE DEF done
<1>10. CASE r = [conn |-> Closed(k), out |-> <<>>]
  <2>1. <<>> \in Seq({k.client}) /\ Len(<<>>) = 0 /\ Len(outbox[k.client]) + 0 <= SocketRoom
    BY <1>1, <1>2, <1>3, EmptySeq
  <2>2. r.conn = Closed(k) /\ r.out = <<>>
    BY <1>10
  <2>3. QED
    BY <1>8, <2>1, <2>2 DEF Sent, Good
<1>11. CASE r = [conn |-> done, out |-> out]
  <2>1. r.conn = done /\ r.out = out
    BY <1>11
  <2>2. QED
    BY <1>3, <1>4, <1>7, <2>1 DEF Sent, Good
<1>12. QED
  BY <1>9, <1>10, <1>11

(* A query ends with a reply in the buffer it began with. *)
LEMMA QueryResults ==
  ASSUME NEW k \in ConnType, NEW q \in AsyncQuery(k)
  PROVE  /\ q \in ConnType /\ q.client = k.client /\ q.buf = k.buf /\ q.status = "processed"
<1>1. PICK o \in Outcomes : q = [k EXCEPT !.status = "processed", !.err = @ \/ o = "error",
                                          !.left = IF o = "empty" THEN 0 ELSE ReplyChunks]
  BY DEF AsyncQuery
<1>2. 0 \in 0..ReplyChunks /\ ReplyChunks \in 0..ReplyChunks
  BY RoomAssumption
<1>3. (k.err \/ o = "error") \in BOOLEAN
  BY DEF ConnType
<1>4. QED
  BY <1>1, <1>2, <1>3 DEF ConnType, Status
-----------------------------------------------------------------------------
(* The pool of connections, and sets that are counted. *)

(* A connection that is erased is no longer in use (CQueue's erase). *)
LEMMA Erased ==
  ASSUME TypeOK, PoolInv, NEW s \in Range(pool), Erase(s)
  PROVE  /\ PoolInv' /\ pool' \in Seq(Conn) /\ freed' \in Seq(Conn)
         /\ Range(pool') = Range(pool) \ {s}
<1>1. pool \in Seq(Conn) /\ freed \in Seq(Conn)
  BY DEF TypeOK
<1>2. s \in Conn
  BY <1>1, Indices DEF Range
<1>3. /\ pool' \in Seq(Conn) /\ IsInjective(pool') /\ Range(pool') = Range(pool) \ {s}
      /\ Len(pool') = Len(pool) - 1
  BY <1>1, Removed DEF PoolInv, Erase
<1>4. /\ freed' \in Seq(Conn) /\ IsInjective(freed') /\ Range(freed') = Range(freed) \cup {s}
      /\ Len(freed') = Len(freed) + 1
  BY <1>1, <1>2, Appended DEF PoolInv, Erase
<1>5. Len(pool') + Len(freed') = Len(pool) + Len(freed)
  <2>1. Len(pool) \in Nat /\ Len(freed) \in Nat
    BY <1>1, LenProperties
  <2>2. QED
    BY <1>3, <1>4, <2>1
<1>6. QED
  BY <1>3, <1>4, <1>5 DEF PoolInv

(* CQueue's push takes s. *)
Pushes(s) ==
  /\ s = IF freed # <<>> THEN Head(freed) ELSE Len(pool) + 1
  /\ pool' = Append(pool, s) /\ freed' = IF freed # <<>> THEN Tail(freed) ELSE freed

(* A connection that is pushed was not in use (CQueue's push). *)
LEMMA Pushed ==
  ASSUME TypeOK, PoolInv, Len(pool) < MaxConnections,
         NEW s, Pushes(s)
  PROVE  /\ s \in Conn \ Range(pool) /\ PoolInv' /\ pool' \in Seq(Conn) /\ freed' \in Seq(Conn)
         /\ Range(pool') = Range(pool) \cup {s}
<1>1. pool \in Seq(Conn) /\ freed \in Seq(Conn) /\ Len(pool) \in Nat /\ Len(freed) \in Nat
  BY LenProperties DEF TypeOK
<1>2. s \in Conn \ Range(pool) /\ (freed = <<>> => s \notin Range(freed))
  <2>1. CASE freed # <<>>
    BY <1>1, <2>1, Tailed DEF PoolInv, Pushes
  <2>2. CASE freed = <<>>
    <3>1. Len(freed) = 0 /\ s = Len(pool) + 1
      BY <2>2, EmptySeq DEF Pushes
    <3>2. s \notin 1..(Len(pool) + Len(freed))
      BY <1>1, <3>1
    <3>3. s \in Conn
      BY <1>1, <3>1, RoomAssumption DEF Conn
    <3>4. QED
      BY <3>2, <3>3 DEF PoolInv
  <2>3. QED
    BY <2>1, <2>2
<1>3. /\ pool' \in Seq(Conn) /\ Range(pool') = Range(pool) \cup {s} /\ Len(pool') = Len(pool) + 1
      /\ IsInjective(pool')
  BY <1>1, <1>2, Appended DEF PoolInv, Pushes
<1>4. CASE freed # <<>>
  <2>1. /\ freed' \in Seq(Conn) /\ IsInjective(freed') /\ Range(freed') = Range(freed) \ {s}
        /\ Len(freed') = Len(freed) - 1 /\ s \in Range(freed)
    BY <1>1, <1>4, Tailed DEF PoolInv, Pushes
  <2>2. Len(pool') + Len(freed') = Len(pool) + Len(freed)
    BY <1>1, <1>3, <2>1
  <2>3. QED
    BY <1>2, <1>3, <2>1, <2>2 DEF PoolInv
<1>5. CASE freed = <<>>
  <2>1. freed' = freed /\ Len(freed) = 0 /\ s = Len(pool) + 1 /\ Range(freed) = {}
    BY <1>5, EmptySeq DEF Range, Pushes
  <2>2. 1..(Len(pool) + 1) = 1..Len(pool) \cup {Len(pool) + 1}
    BY <1>1
  <2>3. Len(pool) + Len(freed) = Len(pool) /\ Len(pool') + Len(freed') = Len(pool) + 1
    BY <1>1, <1>3, <2>1
  <2>4. Range(pool') \cup Range(freed') = 1..(Len(pool') + Len(freed'))
    <3>1. Range(pool) = 1..Len(pool)
      BY <2>1, <2>3 DEF PoolInv
    <3>2. Range(pool') = 1..(Len(pool) + 1)
      BY <1>3, <2>1, <2>2, <3>1
    <3>3. QED
      BY <2>1, <2>3, <3>2
  <2>5. IsInjective(freed') /\ freed' \in Seq(Conn)
    BY <1>1, <2>1 DEF PoolInv
  <2>6. QED
    BY <1>2, <1>3, <2>1, <2>4, <2>5 DEF PoolInv
<1>6. QED
  BY <1>4, <1>5

(* Sets of workers can be counted; the limit on dispatches is far from the *)
(* counter's range.                                                        *)
LEMMA BusyFinite == IsFiniteSet(Busy) /\ Cardinality(Busy) \in Nat /\ Cardinality(Worker) \in Nat
                    /\ MaxThreads \in Nat /\ MaxThreads < CounterRange /\ CounterRange \in Nat \ {0}
<1>1. Busy \in SUBSET Worker
  BY DEF Busy
<1>2. IsFiniteSet(Busy) /\ Cardinality(Busy) \in Nat /\ Cardinality(Worker) \in Nat
  BY <1>1, PoolAssumption, FS_Subset, FS_CardinalityType
<1>3. QED
  BY <1>2, PoolAssumption DEF MaxThreads

(* What the invariant says of the sockets. *)
Net ==
  /\ inbox \in [Client -> Seq(Message)] /\ outbox \in [Client -> Seq(Client)]
  /\ closed \subseteq Client /\ Sockets0 /\ OutboxInv

(* The sockets after a visit. *)
LEMMA SocketsKept ==
  ASSUME TypeOK, Sockets0, OutboxInv, NEW k, k.client \in Client, NEW in \in Seq(Message),
         NEW out \in Seq({k.client}), Len(outbox[k.client]) + Len(out) <= SocketRoom,
         Sockets(k, in, out), client' = client
  PROVE  Net'
<1> DEFINE c == k.client
<1>1. outbox[c] \in Seq({c})
  BY DEF OutboxInv
<1>2. outbox[c] \o out \in Seq({c}) /\ Len(outbox[c] \o out) = Len(outbox[c]) + Len(out)
  BY <1>1, ConcatProperties
<1>3. outbox[c] \o out \in Seq(Client)
  <2>1. outbox[c] \in Seq(Client) /\ out \in Seq(Client)
    BY DEF TypeOK
  <2>2. QED
    BY <2>1, ConcatProperties
<1>4. outbox' = [outbox EXCEPT ![c] = outbox[c] \o out] /\ outbox \in [Client -> Seq(Client)]
  BY DEF Sockets, TypeOK
<1>5. outbox' \in [Client -> Seq(Client)]
  BY <1>3, <1>4
<1>6. Sockets0' /\ OutboxInv'
  BY <1>2, <1>4 DEF Sockets0, OutboxInv
<1>7. inbox' \in [Client -> Seq(Message)] /\ closed' \subseteq Client
  BY DEF Sockets, TypeOK, Message
<1>8. QED
  BY <1>5, <1>6, <1>7 DEF Net
-----------------------------------------------------------------------------
(* The main thread. *)

(* A visit that settles what becomes of the connection it is at. *)
LEMMA Settled ==
  ASSUME IInv, main \in {"visit", "drain"}, todo # <<>>, NEW k \in ConnType, Good(k),
         k.status = "processing" <=> conn[Head(todo)].status = "processing",
         conn' = [conn EXCEPT ![Head(todo)] = k], todo' = Tail(todo),
         UNCHANGED <<main, threadNum, started, pool, freed, queue, worker, backlog, client>>, Net'
  PROVE  IInv'
<1>1. /\ Head(todo) \in Range(todo) /\ Head(todo) \in Conn
      /\ Tail(todo) \in Seq(Conn) /\ Range(Tail(todo)) \subseteq Range(todo) /\ IsInjective(Tail(todo))
  BY Tailed DEF IInv, TypeOK, TodoInv
<1>2. conn \in [Conn -> ConnType] /\ conn' \in [Conn -> ConnType]
  BY <1>1 DEF IInv, TypeOK, ConnType
<1>3. TypeOK'
  BY <1>1, <1>2 DEF IInv, TypeOK, ConnType, Net, Message
<1>4. PoolInv' /\ TodoInv'
  BY <1>1 DEF IInv, PoolInv, TodoInv
<1>5. Pushing = {} /\ Pushing' = {}
  BY DEF Pushing
<1>6. OwnerInv' /\ CountInv'
  BY <1>5 DEF IInv, OwnerInv, CountInv, Busy
<1>7. \A s \in Conn : Owned(s)' <=> Owned(s)
  BY <1>5 DEF Owned
<1>8. \A s \in Conn : conn'[s].status = "processing" <=> conn[s].status = "processing"
  BY <1>2
<1>9. StatusInv'
  BY <1>7, <1>8 DEF IInv, StatusInv
<1>10. BufferInv'
  <2>1. \A s \in Range(pool) : s \in Conn
    BY Indices DEF IInv, TypeOK, Range
  <2>2. QED
    BY <1>2, <2>1 DEF IInv, BufferInv, Good
<1>11. QED
  BY <1>3, <1>4, <1>6, <1>9, <1>10 DEF IInv, Net

(* A visit that hands its connection to the workers.  AsyncThreadNum does  *)
(* not wrap, for it was below the limit.                                   *)
LEMMA HandedOver ==
  ASSUME IInv, main = "visit", todo # <<>>, NEW k \in ConnType, Good(k), k.status = "processing",
         conn[Head(todo)].status # "processing", threadNum < MaxThreads,
         conn' = [conn EXCEPT ![Head(todo)] = k],
         main' = "push", todo' = todo, threadNum' = threadNum + 1,
         UNCHANGED <<started, pool, freed, queue, worker, backlog, client>>, Net'
  PROVE  IInv'
<1>1. Head(todo) \in Range(todo) /\ Head(todo) \in Conn /\ Head(todo) \in Range(pool)
  BY Tailed DEF IInv, TypeOK, TodoInv
<1>2. conn \in [Conn -> ConnType] /\ conn' \in [Conn -> ConnType]
  BY <1>1 DEF IInv, TypeOK, ConnType
<1>3. threadNum' \in 0..(CounterRange - 1)
  BY BusyFinite DEF IInv, TypeOK
<1>4. TypeOK'
  BY <1>2, <1>3 DEF IInv, TypeOK, ConnType, Net, Message, Place
<1>5. PoolInv' /\ TodoInv'
  BY DEF IInv, PoolInv, TodoInv
<1>6. Pushing = {} /\ Pushing' = {Head(todo)}
  BY DEF Pushing
<1>7. ~Owned(Head(todo))
  BY <1>1 DEF IInv, StatusInv
<1>8. OwnerInv'
  BY <1>6, <1>7 DEF IInv, OwnerInv, Owned
<1>9. StatusInv'
  <2>1. \A s \in Conn : Owned(s)' <=> (Owned(s) \/ s = Head(todo))
    BY <1>6 DEF Owned
  <2>2. \A s \in Conn : conn'[s].status = "processing"
                          <=> (conn[s].status = "processing" \/ s = Head(todo))
    BY <1>2
  <2>3. QED
    BY <1>1, <2>1, <2>2 DEF IInv, StatusInv
<1>10. BufferInv'
  <2>1. \A s \in Range(pool) : s \in Conn
    BY Indices DEF IInv, TypeOK, Range
  <2>2. QED
    BY <1>2, <2>1 DEF IInv, BufferInv, Good
<1>11. CountInv'
  <2>1. Cardinality(Pushing) = 0 /\ Cardinality(Pushing') = 1
    BY <1>6, FS_EmptySet, FS_Singleton
  <2>2. Len(queue) \in Nat /\ Cardinality(Busy) \in Nat /\ Busy' = Busy
    BY BusyFinite, LenProperties DEF IInv, TypeOK, Busy
  <2>3. QED
    BY <2>1, <2>2 DEF IInv, CountInv
<1>12. QED
  BY <1>4, <1>5, <1>8, <1>9, <1>10, <1>11 DEF IInv, Net

(* Either way a visit keeps the invariant (the end of AsyncRun's loop). *)
LEMMA Dispatched ==
  ASSUME IInv, main = "visit", todo # <<>>, NEW k \in ConnType, Good(k),
         k.status = "processing" <=> conn[Head(todo)].status = "processing",
         Dispatch(Head(todo), k),
         UNCHANGED <<started, pool, freed, queue, worker, backlog, client>>, Net'
  PROVE  IInv'
<1>1. CASE ~(threadNum < MaxThreads /\ k.status = "received")
  BY <1>1, Settled DEF Dispatch
<1>2. CASE threadNum < MaxThreads /\ k.status = "received" /\ MaxThreads = 1
  <2>1. PICK q \in AsyncQuery(k) : conn' = [conn EXCEPT ![Head(todo)] = q]
    BY <1>2 DEF Dispatch
  <2>2. q \in ConnType /\ Good(q) /\ q.status = "processed"
    BY <1>2, QueryResults DEF Good
  <2>3. QED
    BY <1>2, <2>1, <2>2, Settled DEF Dispatch
<1>3. CASE threadNum < MaxThreads /\ k.status = "received" /\ MaxThreads # 1
  <2> DEFINE q == [k EXCEPT !.status = "processing"]
  <2>1. q \in ConnType /\ Good(q) /\ q.status = "processing"
    BY <1>3 DEF Good, ConnType, Status
  <2>2. conn' = [conn EXCEPT ![Head(todo)] = q] /\ main' = "push" /\ todo' = todo
        /\ threadNum' = threadNum + 1
    BY <1>3 DEF Dispatch
  <2> HIDE DEF q
  <2>3. QED
    BY <1>3, <2>1, <2>2, HandedOver
<1>4. QED
  BY <1>1, <1>2, <1>3

(* A connection after Initialize. *)
LEMMA InitializedType ==
  /\ Unused \in ConnType
  /\ \A c \in Client : /\ Initialized(c) \in ConnType /\ Initialized(c).client = c
                      /\ Initialized(c).status = "connected"
<1>1. 0 \in 0..ReplyChunks
  BY RoomAssumption
<1>2. Unused \in ConnType
  BY <1>1 DEF Unused, ConnType, Status
<1>3. ASSUME NEW c \in Client
      PROVE  /\ Initialized(c) \in ConnType /\ Initialized(c).client = c
             /\ Initialized(c).status = "connected"
  BY <1>2 DEF Initialized, Unused, ConnType, Status
<1>4. QED
  BY <1>2, <1>3

(* A client is accepted.  Its connection was not in use, and so has no     *)
(* owner (AsyncAccept).                                                    *)
LEMMA AcceptKeeps == ASSUME IInv, Accept PROVE IInv'
<1> DEFINE s == IF freed # <<>> THEN Head(freed) ELSE Len(pool) + 1
           k == Initialized(Head(backlog))
<1>1. PICK r \in AsyncReceive(k) :
        /\ Pushes(s) /\ conn' = [conn EXCEPT ![s] = r.conn]
        /\ Sockets(r.conn, r.in, <<>>) /\ main' = IF r.ends THEN main ELSE "spin"
  BY DEF Accept, Pushes
<1>2. Head(backlog) \in Client /\ Tail(backlog) \in Seq(Client)
  BY Tailed DEF Accept, IInv, TypeOK
<1>3. k \in ConnType /\ k.client \in Client /\ k.status = "connected"
  BY <1>2, InitializedType
<1> HIDE DEF s, k
<1>4. Received(k, r)
  BY <1>1, <1>3, ReceiveResults DEF IInv
<1>5. /\ s \in Conn \ Range(pool) /\ PoolInv' /\ pool' \in Seq(Conn) /\ freed' \in Seq(Conn)
      /\ Range(pool') = Range(pool) \cup {s}
  BY <1>1, Pushed DEF Accept, IInv
<1>6. Net'
  <2>1. <<>> \in Seq({r.conn.client}) /\ Len(<<>>) = 0
    BY EmptySeq
  <2>2. r.conn.client \in Client /\ r.in \in Seq(Message)
    BY <1>3, <1>4 DEF Received
  <2>3. Len(outbox[r.conn.client]) + 0 <= SocketRoom
    BY <2>2, LenProperties DEF IInv, TypeOK, Sockets0
  <2>4. QED
    BY <1>1, <2>1, <2>2, <2>3, SocketsKept DEF IInv, Accept
<1>7. main = "accept" /\ main' \in {"accept", "spin"}
      /\ UNCHANGED <<started, todo, threadNum, queue, worker, client>> /\ backlog' = Tail(backlog)
  BY <1>1 DEF Accept
<1>8. conn \in [Conn -> ConnType] /\ conn' \in [Conn -> ConnType]
  BY <1>1, <1>4 DEF IInv, TypeOK, ConnType, Received
<1>9. TypeOK'
  BY <1>2, <1>5, <1>6, <1>7, <1>8 DEF IInv, TypeOK, ConnType, Net, Message, Place
<1>10. TodoInv' /\ Pushing = {} /\ Pushing' = {}
  BY <1>7 DEF IInv, TodoInv, Pushing
<1>11. OwnerInv' /\ CountInv'
  BY <1>7, <1>10 DEF IInv, OwnerInv, CountInv, Busy
<1>12. StatusInv'
  <2>1. \A t \in Conn : Owned(t)' <=> Owned(t)
    BY <1>7, <1>10 DEF Owned
  <2>2. conn[s].status # "processing" /\ r.conn.status # "processing"
    BY <1>4, <1>5, <1>7 DEF IInv, StatusInv, Received
  <2>3. \A t \in Conn : conn'[t].status = "processing" <=> conn[t].status = "processing"
    BY <1>1, <1>8, <2>2
  <2>4. QED
    BY <1>5, <1>7, <2>1, <2>3 DEF IInv, StatusInv
<1>13. BufferInv'
  <2>1. \A t \in Range(pool) : t \in Conn
    BY Indices DEF IInv, TypeOK, Range
  <2>2. QED
    BY <1>1, <1>4, <1>5, <1>7, <1>8, <2>1 DEF IInv, BufferInv, Good, Received
<1>14. QED
  BY <1>5, <1>6, <1>9, <1>10, <1>11, <1>12, <1>13 DEF IInv, Net

(* What a connection that a round visits is. *)
LEMMA Visits ==
  ASSUME IInv, main \in {"visit", "push", "drain"}, todo # <<>>
  PROVE  /\ Head(todo) \in Range(pool) /\ Head(todo) \in Conn
         /\ conn[Head(todo)] \in ConnType /\ Good(conn[Head(todo)])
         /\ Tail(todo) \in Seq(Conn) /\ IsInjective(Tail(todo))
         /\ Range(Tail(todo)) \subseteq Range(pool) \ {Head(todo)}
<1>1. /\ Head(todo) \in Range(pool) /\ Head(todo) \in Conn
      /\ Tail(todo) \in Seq(Conn) /\ IsInjective(Tail(todo))
      /\ Range(Tail(todo)) \subseteq Range(pool) \ {Head(todo)}
  BY Tailed DEF IInv, TypeOK, TodoInv
<1>2. conn[Head(todo)] \in ConnType
  BY <1>1 DEF IInv, TypeOK, ConnType
<1>3. Good(conn[Head(todo)])
  BY <1>1 DEF IInv, BufferInv
<1>4. QED
  BY <1>1, <1>2, <1>3

(* A visit that receives. *)
LEMMA VisitReceiveKeeps == ASSUME IInv, VisitReceive PROVE IInv'
<1> DEFINE k == conn[Head(todo)]
<1>1. /\ main = "visit" /\ todo # <<>> /\ k.status \in {"connected", "sent", "receiving"}
      /\ UNCHANGED <<started, pool, freed, queue, worker, backlog, client>>
  BY DEF VisitReceive, Asked
<1>2. PICK r \in AsyncReceive(k) :
        /\ Sockets(r.conn, r.in, <<>>)
        /\ \/ r.ends /\ Dispatch(Head(todo), r.conn)
           \/ ~r.ends /\ main' = "spin" /\ UNCHANGED <<conn, todo, threadNum>>
  BY DEF VisitReceive
<1>3. k \in ConnType /\ k.client \in Client
  BY <1>1, Visits DEF Good
<1> HIDE DEF k
<1>4. Received(k, r)
  BY <1>1, <1>2, <1>3, ReceiveResults DEF IInv
<1>5. Net'
  <2>1. <<>> \in Seq({r.conn.client}) /\ Len(<<>>) = 0
    BY EmptySeq
  <2>2. r.conn.client \in Client /\ r.in \in Seq(Message)
    BY <1>3, <1>4 DEF Received
  <2>3. Len(outbox[r.conn.client]) + 0 <= SocketRoom
    BY <2>2, LenProperties DEF IInv, TypeOK, Sockets0
  <2>4. QED
    BY <1>1, <1>2, <2>1, <2>2, <2>3, SocketsKept DEF IInv
<1>6. CASE r.ends /\ Dispatch(Head(todo), r.conn)
  BY <1>1, <1>4, <1>5, <1>6, Dispatched DEF Received, k
<1>7. CASE main' = "spin" /\ UNCHANGED <<conn, todo, threadNum>>
  <2>1. Pushing = {} /\ Pushing' = {}
    BY <1>1, <1>7 DEF Pushing
  <2>2. TypeOK' /\ PoolInv' /\ TodoInv'
    BY <1>1, <1>5, <1>7 DEF IInv, TypeOK, PoolInv, TodoInv, Net, Message, Place
  <2>3. OwnerInv' /\ CountInv' /\ BufferInv'
    BY <1>1, <1>7, <2>1 DEF IInv, OwnerInv, CountInv, BufferInv, Busy
  <2>4. StatusInv'
    <3>1. \A t \in Conn : Owned(t)' <=> Owned(t)
      BY <1>1, <2>1 DEF Owned
    <3>2. QED
      BY <1>1, <1>7, <3>1 DEF IInv, StatusInv
  <2>5. QED
    BY <1>5, <2>2, <2>3, <2>4 DEF IInv, Net
<1>8. QED
  BY <1>2, <1>6, <1>7

(* A visit that sends. *)
LEMMA VisitSendKeeps == ASSUME IInv, VisitSend PROVE IInv'
<1> DEFINE k == conn[Head(todo)]
<1>1. /\ main = "visit" /\ todo # <<>> /\ k.status \in {"processed", "sending"}
      /\ UNCHANGED <<started, pool, freed, queue, worker, backlog, client>>
  BY DEF VisitSend
<1>2. PICK r \in AsyncSend(k) :
        Sockets(r.conn, inbox[r.conn.client], r.out) /\ Dispatch(Head(todo), r.conn)
  BY DEF VisitSend
<1>3. k \in ConnType /\ k.client \in Client /\ k.buf = k.client
  BY <1>1, Visits DEF Good
<1> HIDE DEF k
<1>4. Sent(k, r)
  BY <1>1, <1>2, <1>3, SendResults DEF IInv
<1>5. Net'
  <2>1. /\ r.conn.client \in Client /\ inbox[r.conn.client] \in Seq(Message)
        /\ r.out \in Seq({r.conn.client}) /\ Len(outbox[r.conn.client]) + Len(r.out) <= SocketRoom
    BY <1>3, <1>4 DEF Sent, IInv, TypeOK, Message
  <2>2. QED
    BY <1>1, <1>2, <2>1, SocketsKept DEF IInv
<1>6. QED
  BY <1>1, <1>2, <1>4, <1>5, Dispatched DEF Sent, k

(* A visit of a connection that waits for a worker, or has one. *)
LEMMA VisitOtherKeeps == ASSUME IInv, VisitOther PROVE IInv'
<1>1. main = "visit" /\ todo # <<>>
  BY DEF VisitOther
<1>2. Net'
  BY DEF VisitOther, clientVars, IInv, Net, TypeOK, Message, Sockets0, OutboxInv
<1>3. QED
  BY <1>1, <1>2, Visits, Dispatched DEF VisitOther, clientVars

(* A visit that ends with the connection: none that has an owner. *)
LEMMA VisitEraseKeeps == ASSUME IInv, VisitErase PROVE IInv'
<1>1. /\ main = "visit" /\ todo # <<>> /\ Erase(Head(todo)) /\ todo' = Tail(todo)
      /\ UNCHANGED <<started, main, conn, threadNum, queue, worker, backlog, client, inbox, outbox>>
      /\ closed' = closed \cup {conn[Head(todo)].client}
  BY DEF VisitErase
<1>2. conn[Head(todo)].status # "processing"
  BY DEF VisitErase, ToErase, Asked
<1>3. /\ PoolInv' /\ pool' \in Seq(Conn) /\ freed' \in Seq(Conn)
      /\ Range(pool') = Range(pool) \ {Head(todo)}
  BY <1>1, Visits, Erased DEF IInv
<1>4. TypeOK'
  BY <1>1, <1>3, Visits DEF IInv, TypeOK, Good
<1>5. TodoInv' /\ Pushing = {} /\ Pushing' = {}
  BY <1>1, <1>3, Visits DEF IInv, TodoInv, Pushing
<1>6. OwnerInv' /\ CountInv' /\ BufferInv' /\ OutboxInv' /\ Sockets0'
  BY <1>1, <1>3, <1>5 DEF IInv, OwnerInv, CountInv, BufferInv, OutboxInv, Sockets0, Busy
<1>7. StatusInv'
  <2>1. \A t \in Conn : Owned(t)' <=> Owned(t)
    BY <1>1, <1>5 DEF Owned
  <2>2. QED
    BY <1>1, <1>2, <1>3, <2>1 DEF IInv, StatusInv
<1>8. QED
  BY <1>3, <1>4, <1>5, <1>6, <1>7 DEF IInv

(* What counts the requests is a number. *)
LEMMA CountedNat == IInv => Len(queue) \in Nat /\ Cardinality(Pushing) \in Nat
<1>1. IInv => Len(queue) \in Nat
  BY LenProperties DEF IInv, TypeOK
<1>2. Pushing = {} \/ Pushing = {Head(todo)}
  BY DEF Pushing
<1>3. Cardinality(Pushing) \in Nat
  BY <1>2, FS_EmptySet, FS_Singleton
<1>4. QED
  BY <1>1, <1>3

(* No connection is none. *)
LEMMA NoConnApart == NoConn \notin Conn
  BY NameAssumption DEF Conn

(* A connection is put in the queue, and some worker may be woken. *)
LEMMA PushKeeps == ASSUME IInv, Push PROVE IInv'
<1>1. /\ main = "push" /\ main' = "visit" /\ todo' = Tail(todo) /\ todo # <<>>
      /\ queue' = Append(queue, Head(todo))
      /\ UNCHANGED <<started, pool, freed, conn, threadNum, backlog, client, inbox, outbox, closed>>
  BY DEF Push, clientVars, IInv, TodoInv
<1>2. /\ worker' \in [Worker -> WorkerType]
      /\ \A w \in Worker : worker'[w].conn = worker[w].conn
      /\ \A w \in Worker : worker'[w].at = worker[w].at
                             \/ (worker[w].at = "asleep" /\ worker'[w].at = "lock")
  <2>1. worker \in [Worker -> WorkerType]
    BY DEF IInv, TypeOK, WorkerType
  <2>2. CASE worker' = worker
    BY <2>1, <2>2
  <2>3. ASSUME NEW w \in Worker, worker[w].at = "asleep", worker' = [worker EXCEPT ![w].at = "lock"]
        PROVE  /\ worker' \in [Worker -> WorkerType]
               /\ \A v \in Worker : worker'[v].conn = worker[v].conn
               /\ \A v \in Worker : worker'[v].at = worker[v].at
                                      \/ (worker[v].at = "asleep" /\ worker'[v].at = "lock")
    BY <2>1, <2>3 DEF WorkerType
  <2>4. QED
    BY <2>2, <2>3 DEF Push, Asleep
<1>3. Pushing = {Head(todo)} /\ Pushing' = {}
  BY <1>1 DEF Pushing
<1>4. /\ queue' \in Seq(Conn) /\ IsInjective(queue') /\ Len(queue') = Len(queue) + 1
      /\ Range(queue') = Range(queue) \cup {Head(todo)}
  BY <1>1, <1>3, Visits, Appended DEF IInv, TypeOK, OwnerInv
<1>5. TypeOK' /\ Sockets0' /\ PoolInv' /\ TodoInv'
  BY <1>1, <1>2, <1>4, Visits DEF IInv, TypeOK, WorkerType, Sockets0, PoolInv, TodoInv, Place
<1>6. OwnerInv'
  <2>1. /\ \A w \in Worker : worker'[w].conn # NoConn <=> worker'[w].at = "query"
        /\ \A v, w \in Worker : worker'[v].conn = worker'[w].conn /\ worker'[v].conn # NoConn => v = w
    BY <1>2 DEF IInv, OwnerInv
  <2>2. Pushing' \cap Range(queue') = {}
        /\ \A w \in Worker : worker'[w].conn \notin Pushing' \cup Range(queue')
    BY <1>2, <1>3, <1>4 DEF IInv, OwnerInv
  <2>3. QED
    BY <1>4, <2>1, <2>2 DEF OwnerInv
<1>7. StatusInv'
  <2>1. \A t \in Conn : Owned(t)' <=> Owned(t)
    BY <1>1, <1>2, <1>3, <1>4 DEF Owned
  <2>2. QED
    BY <1>1, <2>1 DEF IInv, StatusInv
<1>8. BufferInv' /\ OutboxInv'
  BY <1>1 DEF IInv, BufferInv, OutboxInv
<1>9. CountInv'
  <2>1. Cardinality(Pushing) = 1 /\ Cardinality(Pushing') = 0
    BY <1>3, FS_EmptySet, FS_Singleton
  <2>2. Len(queue) \in Nat /\ Cardinality(Busy) \in Nat /\ Busy' = Busy
    BY <1>2, BusyFinite, LenProperties DEF IInv, TypeOK, Busy
  <2>3. QED
    BY <1>1, <1>4, <2>1, <2>2 DEF IInv, CountInv
<1>10. QED
  BY <1>5, <1>6, <1>7, <1>8, <1>9 DEF IInv

(* The steps of the main thread that only change where it is. *)
Moves == AcceptDone \/ RoundDone \/ WaitForThreads \/ DrainAgain

(* They change nothing that the invariant relates to each other. *)
LEMMA MovesKeep == ASSUME IInv, Moves PROVE IInv'
<1>1. /\ UNCHANGED <<started, pool, freed, conn, threadNum, queue, worker>> /\ UNCHANGED clientVars
      /\ main \notin {"push", "end"} /\ main' \notin {"push", "end"}
      /\ main' \in {"visit", "drain"} => todo' = pool
      /\ main' \in {"wait", "drain"} => ~started
      /\ main = "drain" => main' = "drain"
      /\ main' \in Place /\ todo' \in Seq(Conn)
  BY EmptySeq DEF Moves, AcceptDone, RoundDone, WaitForThreads, DrainAgain, IInv, TypeOK, TodoInv, Place
<1>2. Pushing = {} /\ Pushing' = {}
  BY <1>1 DEF Pushing
<1>3. TypeOK' /\ Sockets0' /\ PoolInv' /\ TodoInv'
  BY <1>1 DEF clientVars, IInv, TypeOK, Sockets0, PoolInv, TodoInv
<1>4. OwnerInv' /\ BufferInv' /\ OutboxInv' /\ CountInv'
  BY <1>1, <1>2 DEF clientVars, IInv, OwnerInv, BufferInv, OutboxInv, CountInv, Busy
<1>5. StatusInv'
  <2>1. \A t \in Conn : Owned(t)' <=> Owned(t)
    BY <1>1, <1>2 DEF Owned
  <2>2. QED
    BY <1>1, <2>1 DEF IInv, StatusInv
<1>6. QED
  BY <1>3, <1>4, <1>5 DEF IInv

(* After a stop, what was processed is sent ... *)
LEMMA DrainSendKeeps == ASSUME IInv, DrainSend PROVE IInv'
<1> DEFINE k == conn[Head(todo)]
<1>1. /\ main = "drain" /\ todo # <<>> /\ k.status \in {"processed", "sending"} /\ todo' = Tail(todo)
      /\ UNCHANGED <<started, main, pool, freed, threadNum, queue, worker, backlog, client>>
  BY DEF DrainSend
<1>2. PICK r \in AsyncSend(k) :
        Sockets(r.conn, inbox[r.conn.client], r.out) /\ conn' = [conn EXCEPT ![Head(todo)] = r.conn]
  BY DEF DrainSend
<1>3. k \in ConnType /\ k.client \in Client /\ k.buf = k.client
  BY <1>1, Visits DEF Good
<1> HIDE DEF k
<1>4. Sent(k, r)
  BY <1>1, <1>2, <1>3, SendResults DEF IInv
<1>5. Net'
  <2>1. /\ r.conn.client \in Client /\ inbox[r.conn.client] \in Seq(Message)
        /\ r.out \in Seq({r.conn.client}) /\ Len(outbox[r.conn.client]) + Len(r.out) <= SocketRoom
    BY <1>3, <1>4 DEF Sent, IInv, TypeOK, Message
  <2>2. QED
    BY <1>1, <1>2, <2>1, SocketsKept DEF IInv
<1>6. QED
  BY <1>1, <1>2, <1>4, <1>5, Settled DEF Sent, k

(* ... the rest is dropped, although a worker may still be at it ... *)
LEMMA DrainEraseKeeps == ASSUME IInv, DrainErase PROVE IInv'
<1>1. /\ main = "drain" /\ todo # <<>> /\ Erase(Head(todo)) /\ todo' = Tail(todo)
      /\ UNCHANGED <<started, main, conn, threadNum, queue, worker, backlog, client, inbox, outbox, closed>>
  BY DEF DrainErase, clientVars
<1>2. /\ PoolInv' /\ pool' \in Seq(Conn) /\ freed' \in Seq(Conn)
      /\ Range(pool') = Range(pool) \ {Head(todo)}
  BY <1>1, Visits, Erased DEF IInv
<1>3. TypeOK' /\ Sockets0'
  BY <1>1, <1>2, Visits DEF IInv, TypeOK, Sockets0
<1>4. TodoInv' /\ Pushing = {} /\ Pushing' = {}
  BY <1>1, <1>2, Visits DEF IInv, TodoInv, Pushing
<1>5. OwnerInv' /\ CountInv' /\ BufferInv' /\ OutboxInv'
  BY <1>1, <1>2, <1>4 DEF IInv, OwnerInv, CountInv, BufferInv, OutboxInv, Busy
<1>6. StatusInv'
  <2>1. \A t \in Conn : Owned(t)' <=> Owned(t)
    BY <1>1, <1>4 DEF Owned
  <2>2. QED
    BY <1>1, <2>1 DEF IInv, StatusInv
<1>7. QED
  BY <1>2, <1>3, <1>4, <1>5, <1>6 DEF IInv

(* ... and everything is cleared. *)
LEMMA DrainDoneKeeps == ASSUME IInv, DrainDone PROVE IInv'
<1>1. /\ main = "drain" /\ main' = "end" /\ freed' = <<>> /\ queue' = <<>> /\ threadNum' = 0
      /\ conn' = [s \in Conn |-> Unused] /\ pool = <<>>
      /\ UNCHANGED <<started, todo, pool, worker, backlog, client, inbox, outbox, closed>>
  BY DEF DrainDone, clientVars
<1>2. /\ freed' \in Seq(Conn) /\ queue' \in Seq(Conn) /\ Len(<<>>) = 0
      /\ \A q : q = <<>> => Range(q) = {} /\ IsInjective(q)
  BY <1>1, EmptySeq DEF Range, IsInjective
<1>3. threadNum' \in 0..(CounterRange - 1) /\ conn' \in [Conn -> ConnType]
  BY <1>1, BusyFinite, InitializedType
<1>4. TypeOK' /\ Sockets0' /\ OutboxInv'
  BY <1>1, <1>2, <1>3 DEF IInv, TypeOK, Sockets0, OutboxInv, ConnType, Place
<1>5. PoolInv'
  BY <1>1, <1>2 DEF PoolInv
<1>6. ~started /\ Pushing' = {}
  BY <1>1 DEF IInv, TodoInv, Pushing
<1>7. TodoInv' /\ OwnerInv' /\ StatusInv' /\ BufferInv' /\ CountInv'
  BY <1>1, <1>2, <1>6 DEF IInv, TodoInv, OwnerInv, StatusInv, BufferInv, CountInv
<1>8. QED
  BY <1>4, <1>5, <1>7 DEF IInv

(* Every step of the main thread. *)
LEMMA MainKeeps == ASSUME IInv, Main PROVE IInv'
  BY AcceptKeeps, VisitReceiveKeeps, VisitSendKeeps, VisitOtherKeeps, VisitEraseKeeps, PushKeeps,
     MovesKeep, DrainSendKeeps, DrainEraseKeeps, DrainDoneKeeps
  DEF Main, Moves
-----------------------------------------------------------------------------
(* The workers. *)

Elsewhere == <<started, main, todo, pool, freed, backlog, client, inbox, outbox, closed>>

(* A worker that goes on, without a connection before or after. *)
LEMMA WorkerMoves ==
  ASSUME IInv, NEW w \in Worker, NEW to \in {"check", "lock", "asleep", "exit"},
         worker[w].at \in {"check", "lock", "asleep"}, worker' = [worker EXCEPT ![w].at = to],
         threadNum' \in 0..(CounterRange - 1), started => threadNum' = threadNum,
         UNCHANGED Elsewhere, UNCHANGED <<queue, conn>>
  PROVE  IInv'
<1>1. /\ worker \in [Worker -> WorkerType] /\ worker' \in [Worker -> WorkerType]
      /\ \A v \in Worker : worker'[v].conn = worker[v].conn
      /\ \A v \in Worker : worker'[v].at = IF v = w THEN to ELSE worker[v].at
  BY DEF IInv, TypeOK, WorkerType
<1>2. TypeOK' /\ Sockets0' /\ PoolInv' /\ TodoInv' /\ Pushing' = Pushing
  BY <1>1 DEF IInv, TypeOK, WorkerType, Sockets0, PoolInv, TodoInv, Pushing, Elsewhere
<1>3. OwnerInv' /\ BufferInv' /\ OutboxInv'
  BY <1>1, <1>2 DEF IInv, OwnerInv, BufferInv, OutboxInv, Elsewhere
<1>4. Busy' = Busy
  BY <1>1 DEF Busy
<1>5. CountInv'
  BY <1>2, <1>4 DEF IInv, CountInv, Elsewhere
<1>6. StatusInv'
  <2>1. \A t \in Conn : Owned(t)' <=> Owned(t)
    BY <1>1, <1>2 DEF Owned
  <2>2. QED
    BY <2>1 DEF IInv, StatusInv, Elsewhere
<1>7. QED
  BY <1>2, <1>3, <1>5, <1>6 DEF IInv

(* The counter stays within its word. *)
LEMMA DecrementedType == TypeOK => Decremented \in 0..(CounterRange - 1)
<1>1. SUFFICES ASSUME TypeOK PROVE Decremented \in 0..(CounterRange - 1)
  OBVIOUS
<1>2. threadNum + CounterRange - 1 \in Int /\ CounterRange \in Nat \ {0}
  BY <1>1, BusyFinite DEF TypeOK
<1>3. QED
  BY <1>2, CounterWraps DEF Decremented

(* A worker leaves its loop; before a stop none does. *)
LEMMA ExitKeeps ==
  ASSUME IInv, NEW w \in Worker, worker[w].at \in {"check", "lock"}, Exit(w), UNCHANGED Elsewhere
  PROVE  IInv'
  BY DecrementedType, WorkerMoves DEF Exit, IInv

(* A worker takes a connection from the queue, or sleeps. *)
LEMMA TakeKeeps == ASSUME IInv, NEW w \in Worker, Take(w), UNCHANGED Elsewhere PROVE IInv'
<1>1. CASE Exit(w)
  BY <1>1, ExitKeeps DEF Take
<1>2. CASE started /\ queue = <<>> /\ worker' = [worker EXCEPT ![w].at = "asleep"]
           /\ UNCHANGED <<threadNum, queue, conn>>
  BY <1>2, WorkerMoves DEF Take, IInv, TypeOK
<1>3. CASE /\ started /\ queue # <<>>
           /\ worker' = [worker EXCEPT ![w] = [at |-> "query", conn |-> Head(queue)]]
           /\ queue' = Tail(queue) /\ UNCHANGED <<threadNum, conn>>
  <2>1. /\ Head(queue) \in Range(queue) /\ Head(queue) \in Conn /\ queue' \in Seq(Conn)
        /\ Len(queue') = Len(queue) - 1 /\ IsInjective(queue')
        /\ Range(queue') = Range(queue) \ {Head(queue)} /\ Head(queue) # NoConn
    BY <1>3, Tailed, NoConnApart DEF IInv, TypeOK, OwnerInv
  <2>2. /\ worker \in [Worker -> WorkerType] /\ worker' \in [Worker -> WorkerType]
        /\ worker[w].at = "lock" /\ worker[w].conn = NoConn
        /\ worker'[w].at = "query" /\ worker'[w].conn = Head(queue)
        /\ \A v \in Worker \ {w} : worker'[v] = worker[v]
    BY <1>3, <2>1 DEF Take, IInv, TypeOK, WorkerType, OwnerInv
  <2>3. TypeOK' /\ Sockets0' /\ PoolInv' /\ TodoInv' /\ Pushing' = Pushing
    BY <1>3, <2>1, <2>2 DEF IInv, TypeOK, WorkerType, Sockets0, PoolInv, TodoInv, Pushing, Elsewhere
  <2>4. OwnerInv'
    BY <2>1, <2>2, <2>3 DEF IInv, OwnerInv
  <2>5. StatusInv'
    <3>1. ASSUME NEW t \in Conn PROVE Owned(t)' <=> Owned(t)
      <4>1. CASE t = Head(queue)
        BY <2>1, <2>2, <4>1 DEF Owned
      <4>2. CASE t # Head(queue)
        <5>1. \A v \in Worker : worker'[v].conn = t <=> worker[v].conn = t
          BY <2>2, <4>2, NoConnApart
        <5>2. QED
          BY <2>1, <2>3, <4>2, <5>1 DEF Owned
      <4>3. QED
        BY <4>1, <4>2
    <3>2. QED
      BY <1>3, <3>1 DEF IInv, StatusInv, Elsewhere
  <2>6. BufferInv' /\ OutboxInv'
    BY <1>3 DEF IInv, BufferInv, OutboxInv, Elsewhere
  <2>7. CountInv'
    <3>1. Busy' = Busy \cup {w} /\ w \notin Busy
      BY <2>2 DEF Busy
    <3>2. Cardinality(Busy') = Cardinality(Busy) + 1
      BY <3>1, BusyFinite, FS_AddElement
    <3>3. Len(queue) \in Nat /\ Cardinality(Pushing) \in Nat
      BY CountedNat
    <3>4. QED
      BY <1>3, <2>1, <2>3, <3>2, <3>3, BusyFinite DEF IInv, CountInv, Elsewhere
  <2>8. QED
    BY <2>3, <2>4, <2>5, <2>6, <2>7 DEF IInv
<1>4. QED
  BY <1>1, <1>2, <1>3 DEF Take

(* A worker answers the request of the connection it took, and lets it go. *)
LEMMA QueryKeeps == ASSUME IInv, NEW w \in Worker, Query(w), UNCHANGED Elsewhere PROVE IInv'
<1> DEFINE s == worker[w].conn
<1>1. PICK q \in AsyncQuery(conn[s]) : conn' = [conn EXCEPT ![s] = q]
  BY DEF Query
<1>2. /\ worker' = [worker EXCEPT ![w] = [at |-> "done", conn |-> NoConn]]
      /\ worker[w].at = "query" /\ UNCHANGED <<threadNum, queue>>
  BY DEF Query
<1>3. s \in Conn /\ conn[s] \in ConnType /\ conn \in [Conn -> ConnType]
  BY <1>2 DEF IInv, TypeOK, OwnerInv, ConnType
<1>4. q \in ConnType /\ q.client = conn[s].client /\ q.buf = conn[s].buf /\ q.status = "processed"
  BY <1>1, <1>3, QueryResults
<1>5. /\ worker \in [Worker -> WorkerType] /\ worker' \in [Worker -> WorkerType]
      /\ worker'[w].at = "done" /\ worker'[w].conn = NoConn
      /\ \A v \in Worker \ {w} : worker'[v] = worker[v] /\ worker[v].conn # s
  BY <1>2, <1>3, NoConnApart DEF IInv, TypeOK, WorkerType, OwnerInv
<1>6. TypeOK' /\ Sockets0' /\ PoolInv' /\ TodoInv' /\ Pushing' = Pushing
  BY <1>1, <1>2, <1>3, <1>4, <1>5
  DEF IInv, TypeOK, ConnType, WorkerType, Sockets0, PoolInv, TodoInv, Pushing, Elsewhere
<1>7. OwnerInv'
  <2>1. \A t \in Pushing \cup Range(queue) : t \in Conn
    BY Visits, Indices DEF IInv, TypeOK, Range, Pushing, TodoInv
  <2>2. QED
    BY <1>2, <1>5, <1>6, <2>1, NoConnApart DEF IInv, OwnerInv
<1>8. StatusInv'
  <2>1. \A t \in Conn : Owned(t)' <=> Owned(t) /\ t # s
    BY <1>2, <1>3, <1>5, <1>6, NoConnApart DEF Owned, IInv, OwnerInv
  <2>2. \A t \in Conn : conn'[t].status = "processing" <=> conn[t].status = "processing" /\ t # s
    BY <1>1, <1>3, <1>4
  <2>3. QED
    BY <2>1, <2>2 DEF IInv, StatusInv, Elsewhere
<1>9. BufferInv'
  <2>1. main # "end" => conn[s].status = "processing"
    BY <1>3 DEF IInv, StatusInv, Owned
  <2>2. \A t \in Range(pool) : t \in Conn
    BY Indices DEF IInv, TypeOK, Range
  <2>3. QED
    BY <1>1, <1>3, <1>4, <2>1, <2>2 DEF IInv, BufferInv, Good, Elsewhere
<1>10. OutboxInv'
  BY DEF IInv, OutboxInv, Elsewhere
<1>11. CountInv'
  <2>1. Busy' = Busy
    BY <1>2, <1>5 DEF Busy
  <2>2. QED
    BY <1>2, <1>6, <2>1 DEF IInv, CountInv, Elsewhere
<1>12. QED
  BY <1>6, <1>7, <1>8, <1>9, <1>10, <1>11 DEF IInv

(* A worker counts its request off.  AsyncThreadNum does not wrap while    *)
(* the server runs, for the request was counted.                           *)
LEMMA DoneKeeps == ASSUME IInv, NEW w \in Worker, Done(w), UNCHANGED Elsewhere PROVE IInv'
<1>1. /\ worker \in [Worker -> WorkerType] /\ worker' \in [Worker -> WorkerType]
      /\ worker[w].at = "done" /\ worker'[w].at = "check" /\ worker'[w].conn = worker[w].conn
      /\ \A v \in Worker \ {w} : worker'[v] = worker[v]
      /\ UNCHANGED <<queue, conn>> /\ threadNum' = Decremented
  BY DEF Done, IInv, TypeOK, WorkerType
<1>2. TypeOK' /\ Sockets0' /\ PoolInv' /\ TodoInv' /\ Pushing' = Pushing
  BY <1>1, DecrementedType
  DEF IInv, TypeOK, WorkerType, Sockets0, PoolInv, TodoInv, Pushing, Elsewhere
<1>3. OwnerInv' /\ BufferInv' /\ OutboxInv'
  BY <1>1, <1>2 DEF IInv, OwnerInv, BufferInv, OutboxInv, Elsewhere
<1>4. StatusInv'
  <2>1. \A t \in Conn : Owned(t)' <=> Owned(t)
    BY <1>1, <1>2 DEF Owned
  <2>2. QED
    BY <1>1, <2>1 DEF IInv, StatusInv, Elsewhere
<1>5. CountInv'
  <2>1. Busy' = Busy \ {w} /\ w \in Busy
    BY <1>1 DEF Busy
  <2>2. Cardinality(Busy') = Cardinality(Busy) - 1
    BY <2>1, BusyFinite, FS_RemoveElement
  <2>3. Cardinality(Busy) > 0
    BY <2>1, BusyFinite, FS_EmptySet
  <2>4. Len(queue) \in Nat /\ Cardinality(Pushing) \in Nat
    BY CountedNat
  <2>5. CASE started
    <3>1. threadNum \in 1..CounterRange /\ CounterRange \in Nat \ {0}
      BY <2>3, <2>4, <2>5, BusyFinite DEF IInv, CountInv, TypeOK
    <3>2. threadNum' = threadNum - 1
      BY <1>1, <3>1, CounterDown DEF Decremented
    <3>3. QED
      BY <1>1, <1>2, <2>2, <2>4, <2>5, <3>1, <3>2, BusyFinite DEF IInv, CountInv, Elsewhere
  <2>6. CASE ~started
    BY <2>6 DEF CountInv, Elsewhere
  <2>7. QED
    BY <2>5, <2>6
<1>6. QED
  BY <1>2, <1>3, <1>4, <1>5 DEF IInv

(* Every step of a worker. *)
LEMMA WorkerKeeps == ASSUME IInv, NEW w \in Worker, Runs(w) \/ Wakes(w) PROVE IInv'
<1>1. UNCHANGED Elsewhere
  BY DEF Runs, Wakes, Elsewhere, clientVars
<1>2. CASE Check(w)
  <2>1. CASE Exit(w)
    BY <1>1, <1>2, <2>1, ExitKeeps DEF Check
  <2>2. CASE worker' = [worker EXCEPT ![w].at = "lock"] /\ UNCHANGED <<threadNum, queue, conn>>
    BY <1>1, <1>2, <2>2, WorkerMoves DEF Check, IInv, TypeOK
  <2>3. QED
    BY <1>2, <2>1, <2>2 DEF Check
<1>3. CASE Wake(w)
  BY <1>1, <1>3, WorkerMoves DEF Wake, IInv, TypeOK
<1>4. QED
  BY <1>1, <1>2, <1>3, TakeKeeps, QueryKeeps, DoneKeeps DEF Runs, Wakes
-----------------------------------------------------------------------------
(* The clients, time and the stop. *)

(* A step of a client leaves the server as it is. *)
LEMMA ClientKeeps ==
  ASSUME IInv, NEW c \in Client, Connect(c) \/ Send(c) \/ SendBody(c) \/ Read(c) \/ Leave(c)
  PROVE  IInv'
<1> DEFINE ClientType == [at : {"new", "idle", "sending", "waiting", "left"},
                          made : 0..Requests, got : 0..ReplyChunks]
<1>1. UNCHANGED serverVars /\ UNCHANGED worker
  BY DEF Connect, Send, SendBody, Read, Leave
<1>2. /\ client \in [Client -> ClientType] /\ inbox \in [Client -> Seq(Message)]
      /\ outbox \in [Client -> Seq(Client)] /\ backlog \in Seq(Client) /\ closed \subseteq Client
      /\ client[c].got \in Nat /\ client[c].got < ReplyChunks /\ ReplyChunks \in Nat \ {0}
  <2>1. /\ client \in [Client -> ClientType] /\ inbox \in [Client -> Seq(Message)]
        /\ outbox \in [Client -> Seq(Client)] /\ backlog \in Seq(Client) /\ closed \subseteq Client
    BY DEF IInv, TypeOK, Message
  <2>2. client[c].got < ReplyChunks /\ ReplyChunks \in Nat \ {0}
    BY RoomAssumption DEF IInv, Sockets0
  <2>3. client[c].got \in 0..ReplyChunks
    BY <2>1
  <2>4. QED
    BY <2>1, <2>2, <2>3
<1>3. closed' = closed /\ backlog' \in Seq(Client)
  <2>1. closed' = closed /\ backlog' \in {backlog, Append(backlog, c)}
    BY DEF Connect, Send, SendBody, Read, Leave
  <2>2. backlog \in Seq(Client)
    BY DEF IInv, TypeOK
  <2>3. Append(backlog, c) \in Seq(Client)
    BY <2>2, Appended
  <2>4. QED
    BY <2>1, <2>2, <2>3
<1>4. inbox' \in [Client -> Seq(Message)]
  <2>1. \A m \in Message : Append(inbox[c], m) \in Seq(Message)
    BY <1>2, AppendProperties
  <2>2. Lengths \subseteq Message /\ "body" \in Message
    BY RoomAssumption DEF Message
  <2>3. \/ inbox' = inbox
        \/ \E m \in Message : inbox' = [inbox EXCEPT ![c] = Append(inbox[c], m)]
    BY <2>2 DEF Connect, Send, SendBody, Read, Leave
  <2>4. QED
    BY <1>2, <2>1, <2>3
<1>5. client' \in [Client -> ClientType] /\ \A d \in Client : client'[d].got < ReplyChunks
  <2>1. \A d \in Client : client[d].got < ReplyChunks
    BY DEF IInv, Sockets0
  <2>2. CASE Read(c)
    <3> DEFINE next == client[c].got + 1
               at == IF next = ReplyChunks THEN "idle" ELSE client[c].at
               got == IF next = ReplyChunks THEN 0 ELSE next
    <3>1. client' = [client EXCEPT ![c].at = at, ![c].got = got]
      BY <2>2 DEF Read
    <3>2. got \in 0..ReplyChunks /\ got < ReplyChunks
      <4> DEFINE g == client[c].got
      <4>1. g \in Nat /\ g < ReplyChunks /\ ReplyChunks \in Nat \ {0}
        BY <1>2
      <4>2. got = IF g + 1 = ReplyChunks THEN 0 ELSE g + 1
        OBVIOUS
      <4> HIDE DEF g, got
      <4>3. QED
        BY <4>1, <4>2
    <3>3. at \in {"new", "idle", "sending", "waiting", "left"}
      BY <1>2
    <3> HIDE DEF at, got
    <3>4. QED
      BY <1>2, <2>1, <3>1, <3>2, <3>3
  <2>3. CASE Send(c)
    <3>1. client[c].made + 1 \in 0..Requests
      BY <1>2, <2>3, RoomAssumption DEF Send
    <3>2. client' = [client EXCEPT ![c].at = "sending", ![c].made = client[c].made + 1]
      BY <2>3 DEF Send
    <3>3. QED
      BY <1>2, <2>1, <3>1, <3>2
  <2>4. CASE Connect(c) \/ SendBody(c) \/ Leave(c)
    <3>1. PICK at \in {"idle", "waiting", "left"} : client' = [client EXCEPT ![c].at = at]
      BY <2>4 DEF Connect, SendBody, Leave
    <3>2. [client[c] EXCEPT !.at = at] \in ClientType /\ [client[c] EXCEPT !.at = at].got = client[c].got
      BY <1>2
    <3>3. \A d \in Client : client'[d] = IF d = c THEN [client[c] EXCEPT !.at = at] ELSE client[d]
      BY <1>2, <3>1
    <3>4. DOMAIN client' = Client /\ client' = [d \in Client |-> client'[d]]
      BY <1>2, <3>1
    <3> HIDE DEF ClientType
    <3>5. \A d \in Client : client'[d] \in ClientType /\ client'[d].got < ReplyChunks
      BY <1>2, <2>1, <3>2, <3>3
    <3>6. QED
      BY <3>4, <3>5
  <2>5. QED
    BY <2>2, <2>3, <2>4
<1>6. /\ outbox' \in [Client -> Seq(Client)] /\ OutboxInv'
      /\ \A d \in Client : Len(outbox'[d]) <= SocketRoom
  <2>1. \A d \in Client : outbox[d] \in Seq({d}) /\ Len(outbox[d]) <= SocketRoom
    BY DEF IInv, OutboxInv, Sockets0
  <2>2. CASE outbox' = outbox
    BY <1>2, <2>1, <2>2 DEF OutboxInv
  <2>3. CASE Read(c)
    <3>1. /\ Tail(outbox[c]) \in Seq(Client) /\ Tail(outbox[c]) \in Seq({c})
          /\ Len(Tail(outbox[c])) = Len(outbox[c]) - 1
      BY <1>2, <2>1, <2>3, Tailed DEF Read
    <3>2. Len(outbox[c]) \in Nat /\ SocketRoom \in Nat
      BY <1>2, LenProperties, RoomAssumption
    <3>3. Len(Tail(outbox[c])) <= SocketRoom
      BY <2>1, <3>1, <3>2
    <3>4. outbox' = [outbox EXCEPT ![c] = Tail(outbox[c])]
      BY <2>3 DEF Read
    <3>5. QED
      BY <1>2, <2>1, <3>1, <3>3, <3>4 DEF OutboxInv
  <2>4. QED
    BY <2>2, <2>3 DEF Connect, Send, SendBody, Leave
<1>7. TypeOK' /\ Sockets0'
  BY <1>1, <1>2, <1>3, <1>4, <1>5, <1>6 DEF IInv, TypeOK, Sockets0, serverVars, Message
<1>8. Pushing' = Pushing /\ PoolInv' /\ TodoInv' /\ OwnerInv' /\ BufferInv'
  BY <1>1 DEF serverVars, IInv, Pushing, PoolInv, TodoInv, OwnerInv, BufferInv
<1>9. StatusInv' /\ CountInv'
  <2>1. \A t \in Conn : Owned(t)' <=> Owned(t)
    BY <1>1, <1>8 DEF Owned, serverVars
  <2>2. QED
    BY <1>1, <1>8, <2>1 DEF serverVars, IInv, StatusInv, CountInv, Busy
<1>10. QED
  BY <1>6, <1>7, <1>8, <1>9 DEF IInv

(* Time only makes connections late. *)
LEMMA ElapseKeeps == ASSUME IInv, NEW s \in Conn, Elapse(s) PROVE IInv'
<1>1. /\ conn' = [conn EXCEPT ![s].late = TRUE]
      /\ UNCHANGED <<started, main, todo, pool, freed, threadNum, queue, worker>> /\ UNCHANGED clientVars
  BY DEF Elapse
<1>2. /\ conn \in [Conn -> ConnType] /\ conn' \in [Conn -> ConnType]
      /\ \A t \in Conn : conn'[t].status = conn[t].status /\ conn'[t].client = conn[t].client
                         /\ conn'[t].buf = conn[t].buf
  <2> DEFINE k == [conn[s] EXCEPT !.late = TRUE]
  <2>1. conn \in [Conn -> ConnType] /\ conn' = [conn EXCEPT ![s] = k]
    BY <1>1 DEF IInv, TypeOK, ConnType
  <2>2. k \in ConnType /\ k.status = conn[s].status /\ k.client = conn[s].client /\ k.buf = conn[s].buf
    BY <2>1 DEF ConnType
  <2> HIDE DEF k
  <2>3. QED
    BY <2>1, <2>2
<1>3. TypeOK' /\ Sockets0' /\ PoolInv' /\ TodoInv' /\ Pushing' = Pushing
  BY <1>1, <1>2 DEF clientVars, IInv, TypeOK, ConnType, Sockets0, PoolInv, TodoInv, Pushing
<1>4. OwnerInv' /\ OutboxInv' /\ CountInv'
  BY <1>1, <1>3 DEF clientVars, IInv, OwnerInv, OutboxInv, CountInv, Busy
<1>5. BufferInv'
  <2>1. \A t \in Range(pool) : t \in Conn
    BY Indices DEF IInv, TypeOK, Range
  <2>2. QED
    BY <1>1, <1>2, <2>1 DEF IInv, BufferInv, Good
<1>6. StatusInv'
  <2>1. \A t \in Conn : Owned(t)' <=> Owned(t)
    BY <1>1, <1>3 DEF Owned
  <2>2. QED
    BY <1>1, <1>2, <2>1 DEF IInv, StatusInv
<1>7. QED
  BY <1>3, <1>4, <1>5, <1>6 DEF IInv

(* A step that changes at most whether the server runs, from that it does. *)
LEMMA StopKeeps ==
  ASSUME IInv, UNCHANGED <<main, todo, pool, freed, conn, threadNum, queue, worker>>,
         UNCHANGED clientVars, started' \in BOOLEAN, started' => started
  PROVE  IInv'
<1>1. TypeOK' /\ Sockets0' /\ PoolInv' /\ TodoInv' /\ Pushing' = Pushing
  BY DEF clientVars, IInv, TypeOK, Sockets0, PoolInv, TodoInv, Pushing
<1>2. OwnerInv' /\ OutboxInv' /\ CountInv' /\ BufferInv'
  BY <1>1 DEF clientVars, IInv, OwnerInv, OutboxInv, CountInv, BufferInv, Busy
<1>3. StatusInv'
  <2>1. \A t \in Conn : Owned(t)' <=> Owned(t)
    BY <1>1 DEF Owned
  <2>2. QED
    BY <2>1 DEF IInv, StatusInv
<1>4. QED
  BY <1>1, <1>2, <1>3 DEF IInv
-----------------------------------------------------------------------------
(* The server starts with nothing in use and nobody at work. *)
LEMMA InitHolds == Init => IInv
<1> SUFFICES ASSUME Init PROVE IInv
  OBVIOUS
<1>1. /\ \A S : <<>> \in Seq(S)
      /\ Len(<<>>) = 0 /\ Range(<<>>) = {} /\ IsInjective(<<>>)
  BY EmptySeq DEF Range, IsInjective
<1>2. 0 \in 0..(CounterRange - 1) /\ 0 \in 0..Requests /\ 0 \in 0..ReplyChunks
      /\ 0 <= SocketRoom /\ 0 < ReplyChunks
  BY BusyFinite, RoomAssumption
<1>3. Pushing = {} /\ Busy = {} /\ Cardinality({}) = 0
  BY FS_EmptySet DEF Init, Pushing, Busy
<1>4. TypeOK /\ Sockets0
  BY <1>1, <1>2, InitializedType DEF Init, TypeOK, Sockets0, ConnType, Place
<1>5. PoolInv /\ TodoInv /\ OutboxInv /\ BufferInv
  BY <1>1 DEF Init, PoolInv, TodoInv, OutboxInv, BufferInv
<1>6. OwnerInv /\ CountInv
  BY <1>1, <1>3 DEF Init, OwnerInv, CountInv
<1>7. StatusInv
  <2>1. \A s \in Conn : conn[s].status = "unconnected"
    BY DEF Init, Unused
  <2>2. \A s \in Conn : ~Owned(s)
    BY <1>1, <1>3, NoConnApart DEF Init, Owned
  <2>3. QED
    BY <2>1, <2>2 DEF StatusInv
<1>8. QED
  BY <1>4, <1>5, <1>6, <1>7 DEF IInv

(* Every step keeps the invariant. *)
LEMMA NextKeeps == IInv /\ [Next]_vars => IInv'
<1> SUFFICES ASSUME IInv, [Next]_vars PROVE IInv'
  OBVIOUS
<1>1. CASE Main
  BY <1>1, MainKeeps
<1>2. CASE Stop
  BY <1>2, StopKeeps DEF Stop, IInv, TypeOK
<1>3. CASE \E w \in Worker : Runs(w) \/ Wakes(w)
  BY <1>3, WorkerKeeps
<1>4. CASE \E c \in Client : Connect(c) \/ Send(c) \/ SendBody(c) \/ Read(c) \/ Leave(c)
  BY <1>4, ClientKeeps
<1>5. CASE \E s \in Conn : Elapse(s)
  BY <1>5, ElapseKeeps
<1>6. CASE UNCHANGED vars
  BY <1>6, StopKeeps DEF vars, serverVars, IInv, TypeOK
<1>7. QED
  BY <1>1, <1>2, <1>3, <1>4, <1>5, <1>6 DEF Next

(* The invariant holds throughout. *)
LEMMA Invariant == Spec => []IInv
  BY InitHolds, NextKeeps, PTL DEF Spec

(* The variables of the server keep their types: among others, no socket's *)
(* buffer is addressed by a client that is none.                           *)
THEOREM TypesKept == Spec => []TypeOK
<1>1. IInv => TypeOK
  BY DEF IInv
<1>2. QED
  BY <1>1, Invariant, PTL

(* What the invariant says of owners is what OneOwner does, in sets. *)
LEMMA OwnersCounted == IInv => OneOwner
<1> SUFFICES ASSUME IInv, started, NEW s \in Conn
    PROVE  LET owners == Cardinality(Pushing \cap {s}) + Cardinality(Working(s))
                           + Cardinality({i \in DOMAIN queue : queue[i] = s})
           IN  IF conn[s].status = "processing" THEN owners = 1 /\ s \in Range(pool) ELSE owners = 0
  BY DEF OneOwner
<1> DEFINE A == Pushing \cap {s}
           B == Working(s)
           C == {i \in DOMAIN queue : queue[i] = s}
<1>1. IF s \in Pushing THEN Cardinality(A) = 1 ELSE Cardinality(A) = 0
  <2>1. IF s \in Pushing THEN A = {s} ELSE A = {}
    OBVIOUS
  <2>2. QED
    BY <2>1, FS_EmptySet, FS_Singleton
<1>2. IF \E w \in Worker : worker[w].conn = s THEN Cardinality(B) = 1 ELSE Cardinality(B) = 0
  <2>1. CASE \E w \in Worker : worker[w].conn = s
    <3>1. PICK w \in Worker : worker[w].conn = s
      BY <2>1
    <3>2. B = {w}
      BY <3>1, NoConnApart DEF Working, IInv, OwnerInv
    <3>3. QED
      BY <2>1, <3>2, FS_Singleton
  <2>2. CASE ~\E w \in Worker : worker[w].conn = s
    BY <2>2, FS_EmptySet DEF Working
  <2>3. QED
    BY <2>1, <2>2
<1>3. IF s \in Range(queue) THEN Cardinality(C) = 1 ELSE Cardinality(C) = 0
  <2>1. CASE s \in Range(queue)
    <3>1. PICK i \in DOMAIN queue : queue[i] = s
      BY <2>1 DEF Range
    <3>2. C = {i}
      BY <3>1 DEF IInv, OwnerInv, IsInjective
    <3>3. QED
      BY <2>1, <3>2, FS_Singleton
  <2>2. CASE s \notin Range(queue)
    <3>1. C = {}
      BY <2>2 DEF Range
    <3>2. QED
      BY <2>2, <3>1, FS_EmptySet
  <2>3. QED
    BY <2>1, <2>2
<1>4. main \notin {"drain", "end"}
  BY DEF IInv, TodoInv
<1>5. conn[s].status = "processing" <=> Owned(s)
  BY <1>4 DEF IInv, StatusInv
<1>6. conn[s].status = "processing" => s \in Range(pool)
  BY <1>4 DEF IInv, StatusInv
<1>7. /\ ~(s \in Pushing /\ s \in Range(queue))
      /\ ~(s \in Pushing /\ \E w \in Worker : worker[w].conn = s)
      /\ ~(s \in Range(queue) /\ \E w \in Worker : worker[w].conn = s)
  BY DEF IInv, OwnerInv
<1> HIDE DEF A, B, C
<1>8. IF Owned(s) THEN Cardinality(A) + Cardinality(B) + Cardinality(C) = 1
                  ELSE Cardinality(A) + Cardinality(B) + Cardinality(C) = 0
  BY <1>1, <1>2, <1>3, <1>7 DEF Owned
<1>9. QED
  BY <1>5, <1>6, <1>8 DEF A, B, C

(* While the server runs, a connection that is being processed is with     *)
(* exactly one thread or once in the queue, and no other is.               *)
THEOREM EveryConnectionHasOneOwner == Spec => []OneOwner
  BY OwnersCounted, Invariant, PTL

(* While the server runs, AsyncThreadNum counts the requests that are      *)
(* dispatched, exactly.                                                    *)
THEOREM RequestsAreCounted == Spec => []CountsRequests
<1>1. IInv => CountsRequests
  BY DEF IInv, CountInv, CountsRequests, Busy
<1>2. QED
  BY <1>1, Invariant, PTL

(* What CQueue has in use and what it freed never overlap. *)
THEOREM PoolStaysConsistent == Spec => []PoolIsConsistent
<1>1. IInv => PoolIsConsistent
  <2>1. SUFFICES ASSUME IInv PROVE PoolIsConsistent
    OBVIOUS
  <2>2. pool \in Seq(Conn) /\ freed \in Seq(Conn)
    BY <2>1 DEF IInv, TypeOK
  <2>3. QED
    BY <2>1, <2>2, Apart DEF IInv, PoolInv, PoolIsConsistent
<1>2. QED
  BY <1>1, Invariant, PTL

(* A client only receives what answers its own requests. *)
THEOREM RepliesStayOwn == Spec => []RepliesAreOwn
<1>1. IInv => RepliesAreOwn
  <2>1. SUFFICES ASSUME IInv, NEW c \in Client, NEW i \in DOMAIN outbox[c] PROVE outbox[c][i] = c
    BY DEF RepliesAreOwn
  <2>2. outbox[c] \in Seq({c})
    BY <2>1 DEF IInv, OutboxInv
  <2>3. QED
    BY <2>1, <2>2, Indices
<1>2. QED
  BY <1>1, Invariant, PTL
=============================================================================
