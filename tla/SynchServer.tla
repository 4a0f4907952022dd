----------------------------- MODULE SynchServer -----------------------------
(***************************************************************************)
(* CMoonDb::SynchRun (cmoondb.cpp), the server that runs when Async = 0.   *)
(* The main thread waits for a client to come and starts a thread for it,  *)
(* under a number that says which buffer is the thread's.  The thread      *)
(* accepts, receives, answers and sends in blocking calls that time out,   *)
(* and gives its number back when it is done.                              *)
(*                                                                         *)
(* A step is one system call of a thread, a query, or one critical section *)
(* of ThreadMutex.  With MaxThreads = 1 the main thread does it all        *)
(* itself, which is one thread at a time here too.  SynchThreadNum is read *)
(* without the mutex; the value read is one it had.                        *)
(***************************************************************************)
EXTENDS Integers, Sequences, FiniteSets, SequencesExt

CONSTANTS
  Client,          \* each makes one connection
  Early,           \* bounds of the model: the clients that connect first,
  Asker, Leaver,   \*   that make requests, that may leave unasked,
  Splitter,        \*   and whose lengths may arrive in two parts
  Barred,          \* the clients that DataClientIP does not allow
  MaxThreads,
  Unread,          \* bound of the model: a client with so much unread does not ask
  Lengths,         \* the lengths of requests: "len", or "big", which is refused
  Outcomes,        \* how queries end: "reply", "error", "empty" (no reply)
  ShowInfo,
  ReplyChunks,     \* the number of chunks a reply is sent in
  SocketRoom,      \* how many of them a socket takes until the client reads
  NoClient

ASSUME SizeAssumption ==
  MaxThreads \in Nat \ {0} /\ ReplyChunks \in Nat \ {0} /\ SocketRoom \in Nat \ {0}
ASSUME RequestAssumption ==
  Unread \in Nat /\ Lengths \subseteq {"len", "big"} /\ Outcomes \subseteq {"reply", "error", "empty"}
ASSUME ClientAssumption ==
  /\ NoClient \notin Client /\ IsFiniteSet(Client)
  /\ Early \cup Asker \cup Leaver \cup Splitter \cup Barred \subseteq Client

Num == 0..(MaxThreads - 1)

VARIABLES
  started,    \* Started
  main,       \* where the main thread is
  threadNum,  \* SynchThreadNum
  idle,       \* SynchIdleThreads
  thread,     \* the thread that has each number
  backlog,    \* the clients that wait to be accepted
  client,     \* where each client is, chunks of reply read
  inbox,      \* what a client sent and the server has not read
  outbox,     \* the chunks the server sent and the client has not read
  closed,     \* the clients whose socket the server closed
  upset       \* history: the clients whose request or reply was broken by a
              \* pause, in the network or in their own reading

serverVars == <<started, main, threadNum, idle>>
clientVars == <<backlog, client>>
vars == <<serverVars, thread, clientVars, inbox, outbox, closed, upset>>

Place == {"none", "accept", "length", "body", "query", "send"}

TypeOK ==
  /\ started \in BOOLEAN /\ main \in {"loop", "wait", "end", "dead"}
  /\ threadNum \in 0..MaxThreads /\ idle \in Seq(Num)
  /\ thread \in [Num -> [at : Place, client : Client \cup {NoClient},
                         again : BOOLEAN,  \* errno is EAGAIN, from a call that timed out
                         late : BOOLEAN,   \* WaitTimeout went by since time
                         whole : BOOLEAN,  \* what is read as a request is one
                         error : BOOLEAN,  \* the reply is that of SynchSendError
                         pos : 0..ReplyChunks, size : 0..ReplyChunks]]
  /\ backlog \in Seq(Client) /\ closed \subseteq Client /\ upset \subseteq Client
  /\ client \in [Client -> [at : {"new", "idle", "half", "sending", "waiting", "left"},
                            got : 0..ReplyChunks]]
  /\ inbox \in [Client -> Seq({"len", "big", "half", "body"})]
  /\ outbox \in [Client -> Seq(1..ReplyChunks)]

NoThread == [at |-> "none", client |-> NoClient, again |-> FALSE, late |-> FALSE,
             whole |-> TRUE, error |-> FALSE, pos |-> 0, size |-> 0]

Init ==
  /\ started = TRUE /\ main = "loop" /\ threadNum = 0
  /\ idle = [i \in 1..MaxThreads |-> i - 1]
  /\ thread = [n \in Num |-> NoThread]
  /\ backlog = SetToSeq(Early) /\ closed = {} /\ upset = {}
  /\ client = [c \in Client |-> [at |-> IF c \in Early THEN "idle" ELSE "new", got |-> 0]]
  /\ inbox = [c \in Client |-> <<>>] /\ outbox = [c \in Client |-> <<>>]

Gone(c) == client[c].at = "left"
-----------------------------------------------------------------------------
(* The main thread. *)

(* Faulty variant: one thread more than there are numbers. *)
RoomForOneMore == threadNum <= MaxThreads

RoomForThread == threadNum < MaxThreads

(* SynchGetNewThreadNum, and the thread that starts.  errno is the         *)
(* thread's own; the main thread, when it does it itself, still has its.   *)
Dispatch ==
  /\ main = "loop" /\ started /\ RoomForThread /\ backlog # <<>>
  /\ IF idle = <<>> THEN main' = "dead" /\ UNCHANGED <<threadNum, idle, thread>>
     ELSE /\ threadNum' = threadNum + 1 /\ idle' = Tail(idle)
          /\ thread' = [thread EXCEPT ![Head(idle)] =
               [NoThread EXCEPT !.at = "accept", !.again = MaxThreads = 1 /\ thread[Head(idle)].again]]
          /\ UNCHANGED main
  /\ UNCHANGED <<started, clientVars, inbox, outbox, closed, upset>>

(* No thread can be created: SynchDeleteThread gives the number back.      *)
DispatchFails ==
  /\ main = "loop" /\ started /\ RoomForThread /\ backlog # <<>> /\ idle # <<>>
  /\ MaxThreads > 1
  /\ idle' = Append(Tail(idle), Head(idle))
  /\ UNCHANGED <<started, main, threadNum, thread, clientVars, inbox, outbox, closed, upset>>

StopSeen ==
  /\ main = "loop" /\ ~started
  /\ main' = "wait"
  /\ UNCHANGED <<started, threadNum, idle, thread, clientVars, inbox, outbox, closed, upset>>

(* Clear, once no thread is counted. *)
Finish ==
  /\ main = "wait" /\ threadNum = 0
  /\ main' = "end" /\ idle' = <<>>
  /\ UNCHANGED <<started, threadNum, thread, clientVars, inbox, outbox, closed, upset>>

Stop ==
  /\ started
  /\ started' = FALSE
  /\ UNCHANGED <<main, threadNum, idle, thread, clientVars, inbox, outbox, closed, upset>>

Main == Dispatch \/ StopSeen \/ Finish
-----------------------------------------------------------------------------
(* A thread (SynchAcceptAndQuery). *)

(* Faulty variant: a thread that is done is still counted. *)
SynchDeleteThreadUncounted(n) ==
  /\ idle' = Append(idle, n) /\ threadNum' = threadNum
  /\ thread' = [thread EXCEPT ![n] = [NoThread EXCEPT !.again = thread[n].again /\ MaxThreads = 1]]

SynchDeleteThread(n) ==
  /\ idle' = Append(idle, n)
  /\ threadNum' = IF threadNum > 0 THEN threadNum - 1 ELSE threadNum
  /\ thread' = [thread EXCEPT ![n] = [NoThread EXCEPT !.again = thread[n].again /\ MaxThreads = 1]]

Is(n, t) == thread' = [thread EXCEPT ![n] = t] /\ UNCHANGED <<threadNum, idle>>

(* MoonSockClose, and what follows. *)
Close(n) ==
  /\ closed' = closed \cup {thread[n].client}
  /\ SynchDeleteThread(n)

(* Accept: the client may be one that is not allowed; and another thread   *)
(* may have accepted the client this one was started for, so that it waits *)
(* until the accept times out.                                             *)
AcceptClient(n) ==
  /\ thread[n].at = "accept" /\ backlog # <<>>
  /\ backlog' = Tail(backlog)
  /\ IF Head(backlog) \in Barred
     THEN closed' = closed \cup {Head(backlog)} /\ SynchDeleteThread(n)
     ELSE Is(n, [thread[n] EXCEPT !.at = "length", !.client = Head(backlog)]) /\ UNCHANGED closed
  /\ UNCHANGED <<started, main, client, inbox, outbox, upset>>
AcceptTimesOut(n) ==
  /\ thread[n].at = "accept" /\ backlog = <<>>
  /\ SynchDeleteThread(n)
  /\ UNCHANGED <<started, main, clientVars, inbox, outbox, closed, upset>>

(* Faulty variant: the loop does not look at the time.                     *)
FailedTimeless(n, again) ==
  IF again THEN Is(n, [thread[n] EXCEPT !.at = "length", !.again = again]) /\ UNCHANGED closed
  ELSE Close(n)

(* What the loop does when SynchReceive returns 0 or less.  It looks at    *)
(* errno even when the call that failed did not set it.                    *)
Failed(n, again) ==
  IF again /\ ~thread[n].late
  THEN Is(n, [thread[n] EXCEPT !.at = "length", !.again = again]) /\ UNCHANGED closed
  ELSE Close(n)

(* Faulty variant: a request that is too long is answered and skipped. *)
RefusedOnly(t) == [t EXCEPT !.at = "send", !.error = FALSE, !.pos = 0, !.size = ReplyChunks]

(* SynchSendError: the reply is the error, and the socket is closed.       *)
Refused(t) == [t EXCEPT !.at = "send", !.error = TRUE, !.pos = 0, !.size = ReplyChunks]

(* How many of the tokens one recv of 8 bytes takes: a length may come in  *)
(* two halves.                                                             *)
Taken(in) == IF Len(in) > 1 /\ in[1] = "half" THEN 2 ELSE 1
Rest(in, k) == SubSeq(in, k + 1, Len(in))

(* The 8 bytes of a length.  When they are none, as a number they may be   *)
(* anything.                                                               *)
ReadLength(n) ==
  LET t  == thread[n]
      in == inbox[t.client]
  IN  /\ t.at = "length" /\ in # <<>>
      /\ inbox' = [inbox EXCEPT ![t.client] = Rest(in, Taken(in))]
      /\ \/ Head(in) = "len" /\ Is(n, [t EXCEPT !.at = "body", !.whole = TRUE]) /\ UNCHANGED closed
         \/ Head(in) = "big" /\ Is(n, [Refused(t) EXCEPT !.whole = TRUE]) /\ UNCHANGED closed
         \/ in = <<"half">> /\ Failed(n, t.again)
         \/ /\ Len(in) > 1 /\ in[1] = "half" /\ in[2] = "half"
            /\ Is(n, [t EXCEPT !.at = "body", !.whole = TRUE]) /\ UNCHANGED closed
         \/ /\ Head(in) = "body" \/ (Len(in) > 1 /\ in[1] = "half" /\ in[2] # "half")
            /\ \/ Failed(n, t.again)
               \/ Is(n, [Refused(t) EXCEPT !.whole = FALSE]) /\ UNCHANGED closed
               \/ Is(n, [t EXCEPT !.at = "body", !.whole = FALSE]) /\ UNCHANGED closed
      /\ UNCHANGED <<started, main, clientVars, outbox, upset>>

ReadBody(n) ==
  LET t == thread[n] IN
  /\ t.at = "body" /\ inbox[t.client] # <<>>
  /\ inbox' = [inbox EXCEPT ![t.client] = Tail(@)]
  /\ Is(n, [t EXCEPT !.at = "query"])
  /\ UNCHANGED <<started, main, clientVars, outbox, closed, upset>>

(* There is nothing to read: recv returns 0 if the client has left, and    *)
(* else it times out.                                                      *)
ReadNothing(n) ==
  LET t == thread[n] IN
  /\ t.at \in {"length", "body"} /\ inbox[t.client] = <<>>
  /\ Failed(n, t.again \/ ~Gone(t.client))
  /\ upset' = IF t.at = "body" /\ ~Gone(t.client) THEN upset \cup {t.client} ELSE upset
  /\ UNCHANGED <<started, main, clientVars, inbox, outbox>>

(* NoSQLQuery or SQLQuery; what throws is answered by SynchSendError. *)
Query(n) ==
  /\ thread[n].at = "query"
  /\ \E o \in Outcomes :
       IF o = "error" THEN Is(n, Refused(thread[n]))
       ELSE Is(n, [thread[n] EXCEPT !.at = "send", !.pos = 0, !.size = IF o = "empty" THEN 0 ELSE ReplyChunks])
  /\ UNCHANGED <<started, main, clientVars, inbox, outbox, closed, upset>>

(* Faulty variant: what was sent is not skipped. *)
SendChunksAgain(n) ==
  LET t == thread[n]
      k == Min({SocketRoom - Len(outbox[t.client]), t.size - t.pos})
  IN  /\ t.at = "send" /\ t.pos < t.size /\ k > 0
      /\ Is(n, [t EXCEPT !.pos = IF t.pos = 0 THEN k ELSE t.size])
      /\ outbox' = [outbox EXCEPT ![t.client] = @ \o [i \in 1..k |-> i]]
      /\ UNCHANGED <<started, main, clientVars, inbox, closed, upset>>

(* SynchSend: a send takes as much as there is room for. *)
SendChunks(n) ==
  LET t == thread[n]
      k == Min({SocketRoom - Len(outbox[t.client]), t.size - t.pos})
  IN  /\ t.at = "send" /\ t.pos < t.size /\ k > 0
      /\ Is(n, [t EXCEPT !.pos = @ + k])
      /\ outbox' = [outbox EXCEPT ![t.client] = @ \o [i \in 1..k |-> t.pos + i]]
      /\ UNCHANGED <<started, main, clientVars, inbox, closed, upset>>

(* A send fails, at once if the client has left and else when it times     *)
(* out.  Unless ShowInfo is on, the loop goes on and adds -1 to pos: what  *)
(* comes before is sent again, or, at 0, pos wraps around and the loop     *)
(* ends.                                                                   *)
SendFails(n) ==
  LET t == thread[n] IN
  /\ t.at = "send" /\ t.pos < t.size
  /\ Gone(t.client) \/ Len(outbox[t.client]) = SocketRoom
  /\ Is(n, [t EXCEPT !.pos = IF ShowInfo \/ @ = 0 THEN t.size ELSE @ - 1, !.again = ~Gone(t.client)])
  /\ upset' = upset \cup {t.client}
  /\ UNCHANGED <<started, main, clientVars, inbox, outbox, closed>>

SendDone(n) ==
  LET t == thread[n] IN
  /\ t.at = "send" /\ t.pos = t.size
  /\ IF t.error THEN Close(n)
     ELSE Is(n, [t EXCEPT !.at = "length", !.late = FALSE, !.whole = TRUE, !.pos = 0, !.size = 0])
          /\ UNCHANGED closed
  /\ UNCHANGED <<started, main, clientVars, inbox, outbox, upset>>

Runs(n) ==
  \/ AcceptClient(n) \/ AcceptTimesOut(n) \/ ReadLength(n) \/ ReadBody(n) \/ ReadNothing(n)
  \/ Query(n) \/ SendChunks(n) \/ SendFails(n) \/ SendDone(n)

(* WaitTimeout goes by since the last request was answered. *)
Elapse(n) ==
  /\ thread[n].at \in {"length", "body"} /\ ~thread[n].late
  /\ thread' = [thread EXCEPT ![n].late = TRUE]
  /\ UNCHANGED <<serverVars, clientVars, inbox, outbox, closed, upset>>
-----------------------------------------------------------------------------
(* The environment: the clients. *)

Connect(c) ==
  /\ client[c].at = "new"
  /\ client' = [client EXCEPT ![c].at = "idle"] /\ backlog' = Append(backlog, c)
  /\ UNCHANGED <<serverVars, thread, inbox, outbox, closed, upset>>

Puts(c, token, place) ==
  /\ inbox' = [inbox EXCEPT ![c] = Append(@, token)]
  /\ client' = [client EXCEPT ![c].at = place]
  /\ UNCHANGED <<serverVars, thread, backlog, outbox, closed>>
MayAsk(c) == client[c].at = "idle" /\ c \in Asker \ closed /\ Len(inbox[c]) < Unread

SendLength(c) ==
  /\ MayAsk(c) /\ \E l \in Lengths : Puts(c, l, "sending")
  /\ UNCHANGED upset
SendHalf(c) ==
  /\ MayAsk(c) /\ c \in Splitter /\ Puts(c, "half", "half")
  /\ upset' = upset \cup {c}
SendRest(c) ==
  /\ client[c].at = "half" /\ c \notin closed /\ Puts(c, "half", "sending")
  /\ UNCHANGED upset
SendBody(c) ==
  /\ client[c].at = "sending" /\ c \notin closed /\ Puts(c, "body", "waiting")
  /\ UNCHANGED upset

ReadReply(c) ==
  /\ client[c].at = "waiting" /\ outbox[c] # <<>>
  /\ outbox' = [outbox EXCEPT ![c] = Tail(@)]
  /\ LET got == client[c].got + 1 IN
     client' = [client EXCEPT ![c].at  = IF got = ReplyChunks THEN "idle" ELSE @,
                              ![c].got = IF got = ReplyChunks THEN 0 ELSE got]
  /\ UNCHANGED <<serverVars, thread, backlog, inbox, closed, upset>>

Leave(c) ==
  /\ client[c].at \in {"idle", "half", "sending", "waiting"} /\ c \in Leaver \cup closed
  /\ client' = [client EXCEPT ![c] = [at |-> "left", got |-> 0]]
  /\ UNCHANGED <<serverVars, thread, backlog, inbox, outbox, closed, upset>>

Next ==
  \/ Main \/ Stop \/ DispatchFails
  \/ \E n \in Num : Runs(n) \/ Elapse(n)
  \/ \E c \in Client : \/ Connect(c) \/ SendLength(c) \/ SendHalf(c) \/ SendRest(c) \/ SendBody(c)
                       \/ ReadReply(c) \/ Leave(c)

(* Threads are scheduled fairly, creating one succeeds at last, blocking   *)
(* calls return or time out, time passes; clients read what they are sent  *)
(* and notice that they are closed.  No client has to make a request, or   *)
(* to finish one; and one that is answered may ask again, without end.     *)
Fairness ==
  /\ WF_vars(Main)
  /\ \A n \in Num : WF_vars(Runs(n)) /\ WF_vars(Elapse(n))
  /\ \A c \in Client : WF_vars(ReadReply(c) \/ (c \in closed /\ Leave(c)))

Spec == Init /\ [][Next]_vars
FairSpec == Spec /\ Fairness
-----------------------------------------------------------------------------
(* Every number is either idle or that of one thread, and SynchThreadNum   *)
(* counts the threads: two threads never share a buffer, and front() is    *)
(* never called on an empty queue, although the main thread starts threads *)
(* while others end, fail to accept or cannot be created.  When the state   *)
(* of the server is cleared no thread is left that would use it            *)
(* (SynchGetNewThreadNum, SynchDeleteThread, SynchRun).                    *)
NumbersConserved ==
  LET used == {n \in Num : thread[n].at # "none"} IN
  /\ main # "dead" /\ threadNum = Cardinality(used)
  /\ main # "end" => IsInjective(idle) /\ Range(idle) = Num \ used
  /\ main = "end" => used = {}

(* A thread takes bytes of one request for another's only after a pause:   *)
(* no request that arrives in time, refused or not, makes it lose its step *)
(* (SynchReceive, SynchAcceptAndQuery).                                    *)
InStep ==
  \A n \in Num : thread[n].client # NoClient /\ ~thread[n].whole => thread[n].client \in upset

(* A client that reads gets every chunk of a reply once and in order; only *)
(* a send that failed may repeat or lose some (SynchSend).                 *)
RepliesInOrder ==
  \A c \in Client \ upset : client[c].at # "left" =>
    \A i \in DOMAIN outbox[c] : outbox[c][i] = ((client[c].got + i - 1) % ReplyChunks) + 1

(* A client that says nothing more is left, or leaves, in the end; one that *)
(* keeps asking is not, since a thread looks at neither the clock nor       *)
(* Started while requests come.                                             *)
Asks == \E c \in Client : client[c].at = "idle" /\ client'[c].at \in {"half", "sending"}
ClientsKeepAsking == []<><<Asks>>_vars

(* A stop ends, although threads do not look at Started, once the clients   *)
(* ask no more: they leave, or say nothing for too long.  While one asks on *)
(* within WaitTimeout the stop waits for its thread (SynchRun,              *)
(* SynchAcceptAndQuery).                                                    *)
StopCompletes == ClientsKeepAsking \/ (~started ~> main = "end")

(* An accepted client that waits is answered or disconnected, whatever the  *)
(* others do (SynchAcceptAndQuery).                                         *)
Answered ==
  \A c \in Asker : (client[c].at = "waiting" /\ c \notin Range(backlog)) ~> client[c].at # "waiting"

(* Clients that connected are all accepted, or refused, unless there is a   *)
(* stop: every thread gives its number back once the clients ask no more,   *)
(* and so does one that found no client to accept.  While clients that ask  *)
(* on have all the threads the others wait (SynchRun).                      *)
Accepted == ClientsKeepAsking \/ []<>(backlog = <<>> \/ ~started)

(* What a stop would promise if a thread looked at Started: not so.         *)
StopAlwaysCompletes == ~started ~> main = "end"
=============================================================================
