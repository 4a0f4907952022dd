------------------------- MODULE SynchServerProofs -------------------------
(***************************************************************************)
(* Proofs about SynchServer, for every number of threads, set of clients   *)
(* and behaviour of theirs.                                                *)
(***************************************************************************)
EXTENDS SynchServer, QueueFacts

(* The numbers of the threads that run. *)
Used == {n \in Num : thread[n].at # "none"}

Fields == {"at", "client", "again", "late", "whole", "error", "pos", "size"}
Shape == DOMAIN thread = Num /\ \A n \in Num : DOMAIN thread[n] = Fields

(* The idle numbers are the rest, each once. *)
Complete(queue, used) == queue \in Seq(Num) /\ IsInjective(queue) /\ Range(queue) = Num \ used

IInv ==
  /\ Shape
  /\ threadNum \in Nat /\ threadNum = Cardinality(Used)
  /\ main \in {"loop", "wait", "end"}
  /\ main # "end" => Complete(idle, Used)
  /\ main = "end" => Used = {}

(* The invariant says what NumbersConserved does. *)
LEMMA Conserved == ASSUME IInv PROVE NumbersConserved
  BY DEF IInv, NumbersConserved, Used, Complete

(* There are MaxThreads numbers, so that sets of them can be counted. *)
LEMMA NumFinite == IsFiniteSet(Num) /\ Cardinality(Num) = MaxThreads
<1>1. 0 \in Int /\ MaxThreads - 1 \in Int /\ MaxThreads \in Nat \ {0}
  BY SizeAssumption
<1>2. IsFiniteSet(0..(MaxThreads - 1))
      /\ Cardinality(0..(MaxThreads - 1)) = IF 0 > MaxThreads - 1 THEN 0 ELSE (MaxThreads - 1) - 0 + 1
  BY <1>1, FS_Interval
<1>3. QED
  BY <1>1, <1>2 DEF Num

(* The numbers in use can be counted, too. *)
LEMMA UsedFinite == IsFiniteSet(Used) /\ Cardinality(Used) \in Nat
<1>1. Used \in SUBSET Num
  BY DEF Used
<1>2. QED
  BY <1>1, NumFinite, FS_Subset, FS_CardinalityType
-----------------------------------------------------------------------------
(* The queue of idle numbers. *)

(* A number put at the end of the queue. *)
LEMMA Queued ==
  ASSUME NEW q, NEW used, Complete(q, used), NEW n \in used, used \subseteq Num
  PROVE  Complete(Append(q, n), used \ {n})
<1>1. /\ Append(q, n) \in Seq(Num) /\ Len(Append(q, n)) = Len(q) + 1
      /\ \A i \in 1..Len(q) : Append(q, n)[i] = q[i]
      /\ Append(q, n)[Len(q) + 1] = n
  BY AppendProperties DEF Complete
<1>2. Len(q) \in Nat /\ DOMAIN q = 1..Len(q) /\ DOMAIN Append(q, n) = 1..(Len(q) + 1)
  BY <1>1, LenProperties DEF Complete
<1>3. \A i \in DOMAIN q : q[i] # n
  BY DEF Complete, Range
<1>4. IsInjective(Append(q, n))
  BY <1>1, <1>2, <1>3 DEF Complete, IsInjective
<1>5. Range(Append(q, n)) = Range(q) \cup {n}
  <2>1. \A i \in 1..(Len(q) + 1) : i \in 1..Len(q) \/ i = Len(q) + 1
    BY <1>2
  <2>2. \A i \in 1..Len(q) : i \in 1..(Len(q) + 1)
    BY <1>2
  <2>3. Len(q) + 1 \in 1..(Len(q) + 1)
    BY <1>2
  <2>4. QED
    BY <1>1, <1>2, <2>1, <2>2, <2>3 DEF Range
<1>6. QED
  BY <1>1, <1>4, <1>5 DEF Complete

(* The number at the head of the queue, given to a thread. *)
LEMMA Drawn ==
  ASSUME NEW q, NEW used, Complete(q, used), q # <<>>
  PROVE  Head(q) \in Num \ used /\ Complete(Tail(q), used \cup {Head(q)})
<1>1. Len(q) \in Nat \ {0} /\ DOMAIN q = 1..Len(q) /\ Head(q) = q[1]
  BY EmptySeq, LenProperties, HeadTailProperties DEF Complete
<1>2. /\ Tail(q) \in Seq(Num) /\ Len(Tail(q)) = Len(q) - 1
      /\ \A i \in 1..(Len(q) - 1) : Tail(q)[i] = q[i + 1]
  BY HeadTailProperties DEF Complete
<1>3. DOMAIN Tail(q) = 1..(Len(q) - 1)
  BY <1>2, LenProperties
<1>4. 1 \in DOMAIN q /\ \A i \in 1..(Len(q) - 1) : i + 1 \in DOMAIN q /\ i + 1 # 1
  BY <1>1
<1>5. Head(q) \in Num \ used
  BY <1>1, <1>4 DEF Complete, Range
<1>6. IsInjective(Tail(q))
  <2> SUFFICES ASSUME NEW i \in 1..(Len(q) - 1), NEW j \in 1..(Len(q) - 1), q[i + 1] = q[j + 1]
               PROVE  i = j
    BY <1>2, <1>3 DEF IsInjective
  <2>1. i + 1 = j + 1
    BY <1>4 DEF Complete, IsInjective
  <2>2. QED
    BY <2>1, <1>1
<1>7. Range(Tail(q)) = Range(q) \ {Head(q)}
  <2>1. \A i \in 1..(Len(q) - 1) : q[i + 1] # q[1]
    BY <1>4 DEF Complete, IsInjective
  <2>2. \A i \in 1..Len(q) : i = 1 \/ (i - 1 \in 1..(Len(q) - 1) /\ (i - 1) + 1 = i)
    BY <1>1
  <2>3. Range(Tail(q)) \subseteq Range(q) \ {Head(q)}
    BY <1>1, <1>2, <1>3, <1>4, <2>1 DEF Range
  <2>4. ASSUME NEW i \in 1..Len(q), q[i] # Head(q) PROVE q[i] \in Range(Tail(q))
    <3>1. i - 1 \in DOMAIN Tail(q) /\ q[i] = Tail(q)[i - 1]
      BY <1>1, <1>2, <1>3, <2>2, <2>4
    <3>2. QED
      BY <3>1 DEF Range
  <2>5. QED
    BY <1>1, <2>3, <2>4 DEF Range
<1>8. QED
  BY <1>2, <1>5, <1>6, <1>7 DEF Complete
-----------------------------------------------------------------------------
(* The steps of a thread. *)

(* Thread n goes on: it had a number and has it still. *)
GoesOn(n) ==
  /\ thread[n].at # "none"
  /\ \A m \in Num \ {n} : thread'[m] = thread[m]
  /\ DOMAIN thread' = Num /\ DOMAIN thread'[n] = Fields /\ thread'[n].at # "none"
  /\ UNCHANGED <<main, threadNum, idle>>

(* Thread n ends and gives its number back. *)
GivesBack(n) == thread[n].at # "none" /\ SynchDeleteThread(n) /\ main' = main

(* Whatever a thread does next, it goes on. *)
LEMMA IsGoesOn ==
  ASSUME IInv, NEW n \in Num, NEW t, thread[n].at # "none", main' = main, Is(n, t),
         DOMAIN t = Fields, t.at # "none"
  PROVE  GoesOn(n)
  BY DEF IInv, Shape, Is, GoesOn

(* A receive that failed: the thread looks again or closes the connection. *)
LEMMA FailedGoesOn ==
  ASSUME IInv, NEW n \in Num, NEW again, thread[n].at # "none", main' = main, Failed(n, again)
  PROVE  GoesOn(n) \/ GivesBack(n)
<1>1. CASE Close(n)
  BY <1>1 DEF Close, GivesBack
<1>2. CASE Is(n, [thread[n] EXCEPT !.at = "length", !.again = again])
  <2>1. DOMAIN [thread[n] EXCEPT !.at = "length", !.again = again] = Fields
        /\ [thread[n] EXCEPT !.at = "length", !.again = again].at = "length"
    BY DEF IInv, Shape, Fields
  <2>2. QED
    BY <1>2, <2>1, IsGoesOn
<1>3. QED
  BY <1>1, <1>2 DEF Failed

(* Every step of a thread is one or the other. *)
LEMMA ThreadSteps ==
  ASSUME IInv, NEW n \in Num, Runs(n)
  PROVE  GoesOn(n) \/ GivesBack(n)
<1> DEFINE t == thread[n]
<1>1. DOMAIN t = Fields
  BY DEF IInv, Shape
<1>2. DOMAIN Refused(t) = Fields /\ Refused(t).at = "send"
  BY <1>1 DEF Refused, Fields
<1>3. CASE AcceptClient(n)
  <2>1. CASE SynchDeleteThread(n)
    BY <1>3, <2>1 DEF AcceptClient, GivesBack
  <2>2. CASE Is(n, [t EXCEPT !.at = "length", !.client = Head(backlog)])
    <3>1. DOMAIN [t EXCEPT !.at = "length", !.client = Head(backlog)] = Fields
          /\ [t EXCEPT !.at = "length", !.client = Head(backlog)].at = "length"
      BY <1>1 DEF Fields
    <3>2. t.at # "none" /\ main' = main
      BY <1>3 DEF AcceptClient
    <3>3. QED
      BY <2>2, <3>1, <3>2, IsGoesOn
  <2>3. QED
    BY <1>3, <2>1, <2>2 DEF AcceptClient
<1>4. CASE AcceptTimesOut(n)
  BY <1>4 DEF AcceptTimesOut, GivesBack
<1>5. CASE ReadLength(n)
  <2>1. t.at # "none" /\ main' = main
    BY <1>5 DEF ReadLength
  <2>2. \/ \E w \in BOOLEAN : Is(n, [t EXCEPT !.at = "body", !.whole = w])
        \/ \E w \in BOOLEAN : Is(n, [Refused(t) EXCEPT !.whole = w])
        \/ Failed(n, t.again)
    BY <1>5 DEF ReadLength
  <2>3. ASSUME NEW w \in BOOLEAN
        PROVE  /\ DOMAIN [t EXCEPT !.at = "body", !.whole = w] = Fields
               /\ [t EXCEPT !.at = "body", !.whole = w].at = "body"
               /\ DOMAIN [Refused(t) EXCEPT !.whole = w] = Fields
               /\ [Refused(t) EXCEPT !.whole = w].at = "send"
    BY <1>1, <1>2 DEF Fields
  <2>4. ASSUME NEW w \in BOOLEAN, Is(n, [t EXCEPT !.at = "body", !.whole = w]) PROVE GoesOn(n)
    BY <2>1, <2>3, <2>4, IsGoesOn
  <2>5. ASSUME NEW w \in BOOLEAN, Is(n, [Refused(t) EXCEPT !.whole = w]) PROVE GoesOn(n)
    BY <2>1, <2>3, <2>5, IsGoesOn
  <2>6. QED
    BY <2>1, <2>2, <2>4, <2>5, FailedGoesOn
<1>6. CASE ReadBody(n)
  <2>1. t.at # "none" /\ main' = main /\ Is(n, [t EXCEPT !.at = "query"])
    BY <1>6 DEF ReadBody
  <2>2. DOMAIN [t EXCEPT !.at = "query"] = Fields /\ [t EXCEPT !.at = "query"].at = "query"
    BY <1>1 DEF Fields
  <2>3. QED
    BY <2>1, <2>2, IsGoesOn
<1>7. CASE ReadNothing(n)
  <2>1. t.at # "none" /\ main' = main /\ Failed(n, t.again \/ ~Gone(t.client))
    BY <1>7 DEF ReadNothing
  <2>2. QED
    BY <2>1, FailedGoesOn
<1>8. CASE Query(n)
  <2>1. t.at # "none" /\ main' = main
    BY <1>8 DEF Query
  <2>2. Is(n, Refused(t)) \/ \E s : Is(n, [t EXCEPT !.at = "send", !.pos = 0, !.size = s])
    BY <1>8 DEF Query
  <2>3. \A s : /\ DOMAIN [t EXCEPT !.at = "send", !.pos = 0, !.size = s] = Fields
               /\ [t EXCEPT !.at = "send", !.pos = 0, !.size = s].at = "send"
    BY <1>1 DEF Fields
  <2>4. ASSUME NEW s, Is(n, [t EXCEPT !.at = "send", !.pos = 0, !.size = s]) PROVE GoesOn(n)
    BY <2>1, <2>3, <2>4, IsGoesOn
  <2>5. QED
    BY <1>2, <2>1, <2>2, <2>4, IsGoesOn
<1>9. CASE SendChunks(n)
  <2>1. t.at = "send" /\ main' = main /\ \E p : Is(n, [t EXCEPT !.pos = p])
    BY <1>9 DEF SendChunks
  <2>2. \A p : DOMAIN [t EXCEPT !.pos = p] = Fields /\ [t EXCEPT !.pos = p].at = t.at
    BY <1>1 DEF Fields
  <2>3. ASSUME NEW p, Is(n, [t EXCEPT !.pos = p]) PROVE GoesOn(n)
    BY <2>1, <2>2, <2>3, IsGoesOn
  <2>4. QED
    BY <2>1, <2>3
<1>10. CASE SendFails(n)
  <2>1. t.at = "send" /\ main' = main /\ \E p, a : Is(n, [t EXCEPT !.pos = p, !.again = a])
    BY <1>10 DEF SendFails
  <2>2. \A p, a : /\ DOMAIN [t EXCEPT !.pos = p, !.again = a] = Fields
                  /\ [t EXCEPT !.pos = p, !.again = a].at = t.at
    BY <1>1 DEF Fields
  <2>3. ASSUME NEW p, NEW a, Is(n, [t EXCEPT !.pos = p, !.again = a]) PROVE GoesOn(n)
    BY <2>1, <2>2, <2>3, IsGoesOn
  <2>4. QED
    BY <2>1, <2>3
<1>11. CASE SendDone(n)
  <2> DEFINE fresh == [t EXCEPT !.at = "length", !.late = FALSE, !.whole = TRUE, !.pos = 0, !.size = 0]
  <2>1. t.at = "send" /\ main' = main /\ (Close(n) \/ Is(n, fresh))
    BY <1>11 DEF SendDone
  <2>2. DOMAIN fresh = Fields /\ fresh.at = "length"
    BY <1>1 DEF Fields
  <2>3. CASE Is(n, fresh)
    <3> HIDE DEF fresh
    <3>1. QED
      BY <2>1, <2>2, <2>3, IsGoesOn
  <2>4. CASE Close(n)
    BY <2>1, <2>4 DEF Close, GivesBack
  <2>5. QED
    BY <2>1, <2>3, <2>4
<1>12. QED
  BY <1>3, <1>4, <1>5, <1>6, <1>7, <1>8, <1>9, <1>10, <1>11 DEF Runs
-----------------------------------------------------------------------------
(* Each step keeps the invariant. *)

(* Whoever leaves the threads' places and the numbers alone keeps it. *)
LEMMA NumbersStay ==
  ASSUME IInv, Shape', Used' = Used, UNCHANGED <<threadNum, idle>>, main' \in {"loop", "wait", "end"},
         main' = "end" <=> main = "end"
  PROVE  IInv'
  BY DEF IInv

(* A thread that goes on changes neither the numbers nor who has them. *)
LEMMA GoesOnKeeps ==
  ASSUME IInv, NEW n \in Num, GoesOn(n)
  PROVE  IInv'
<1>1. Shape'
  BY DEF IInv, Shape, GoesOn
<1>2. Used' = Used
  BY DEF Used, GoesOn
<1>3. QED
  BY <1>1, <1>2, NumbersStay DEF GoesOn, IInv

(* A thread that ends puts its number back, which nobody else has          *)
(* (SynchDeleteThread).                                                    *)
LEMMA GivesBackKeeps ==
  ASSUME IInv, NEW n \in Num, GivesBack(n)
  PROVE  IInv'
<1>1. n \in Used /\ Used \subseteq Num /\ main # "end"
  BY DEF GivesBack, Used, IInv
<1>2. /\ \A m \in Num \ {n} : thread'[m] = thread[m]
      /\ DOMAIN thread' = Num /\ DOMAIN thread'[n] = Fields /\ thread'[n].at = "none"
  BY DEF GivesBack, SynchDeleteThread, NoThread, IInv, Shape, Fields
<1>3. Shape' /\ Used' = Used \ {n}
  BY <1>2 DEF Shape, Used, IInv
<1>4. Cardinality(Used) \in Nat /\ Cardinality(Used \ {n}) \in Nat
      /\ Cardinality(Used \ {n}) = Cardinality(Used) - 1
  BY <1>1, UsedFinite, FS_RemoveElement, FS_CardinalityType
<1>5. threadNum' \in Nat /\ threadNum' = Cardinality(Used \ {n})
  BY <1>4 DEF IInv, GivesBack, SynchDeleteThread
<1>6. Complete(idle', Used \ {n})
  BY <1>1, Queued DEF IInv, GivesBack, SynchDeleteThread
<1>7. QED
  BY <1>1, <1>3, <1>5, <1>6 DEF IInv, GivesBack

(* While a thread may be started there is a number for it. *)
LEMMA NumberIdle ==
  ASSUME IInv, main # "end", threadNum < MaxThreads
  PROVE  idle # <<>>
<1> SUFFICES ASSUME idle = <<>> PROVE FALSE
  OBVIOUS
<1>1. Range(idle) = {}
  BY DEF Range
<1>2. Num \subseteq Used
  BY <1>1 DEF IInv, Complete
<1>3. Used = Num
  BY <1>2 DEF Used
<1>4. QED
  BY <1>3, NumFinite, SizeAssumption DEF IInv

(* A thread that starts gets a number that nobody has                      *)
(* (SynchGetNewThreadNum).                                                 *)
LEMMA DispatchKeeps ==
  ASSUME IInv, Dispatch
  PROVE  IInv'
<1>1. main = "loop" /\ threadNum < MaxThreads
  BY DEF Dispatch, RoomForThread
<1>2. idle # <<>>
  BY <1>1, NumberIdle
<1> DEFINE n == Head(idle)
<1>3. n \in Num \ Used /\ Complete(Tail(idle), Used \cup {n})
  BY <1>1, <1>2, Drawn DEF IInv
<1>4. /\ threadNum' = threadNum + 1 /\ idle' = Tail(idle) /\ main' = main
      /\ \A m \in Num \ {n} : thread'[m] = thread[m]
      /\ DOMAIN thread' = Num /\ DOMAIN thread'[n] = Fields /\ thread'[n].at = "accept"
  BY <1>2, <1>3 DEF Dispatch, NoThread, IInv, Shape, Fields
<1> HIDE DEF n
<1>5. Shape' /\ Used' = Used \cup {n}
  BY <1>3, <1>4 DEF Shape, Used, IInv
<1>6. Cardinality(Used \cup {n}) = Cardinality(Used) + 1 /\ Cardinality(Used) \in Nat
  BY <1>3, UsedFinite, FS_AddElement
<1>7. threadNum' \in Nat /\ threadNum' = Cardinality(Used')
  BY <1>4, <1>5, <1>6 DEF IInv
<1>8. QED
  BY <1>1, <1>3, <1>4, <1>5, <1>7 DEF IInv

(* A number drawn and given back goes to the end of the queue. *)
LEMMA DispatchFailsKeeps ==
  ASSUME IInv, DispatchFails
  PROVE  IInv'
<1>1. Head(idle) \in Num \ Used /\ Complete(Tail(idle), Used \cup {Head(idle)})
  BY Drawn DEF IInv, DispatchFails
<1>2. Head(idle) \in Used \cup {Head(idle)} /\ Used \cup {Head(idle)} \subseteq Num
  BY <1>1 DEF Used
<1>3. Complete(idle', (Used \cup {Head(idle)}) \ {Head(idle)})
  BY <1>1, <1>2, Queued DEF DispatchFails
<1>4. (Used \cup {Head(idle)}) \ {Head(idle)} = Used
  BY <1>1
<1>5. Used' = Used /\ Shape' /\ UNCHANGED <<threadNum, main>>
  BY DEF DispatchFails, Used, Shape, IInv
<1>6. QED
  BY <1>3, <1>4, <1>5 DEF IInv, DispatchFails

(* The state is cleared when nothing is counted, hence when nothing runs. *)
LEMMA FinishKeeps ==
  ASSUME IInv, Finish
  PROVE  IInv'
<1>1. Used = {}
  BY UsedFinite, FS_EmptySet DEF IInv, Finish
<1>2. Used' = Used /\ Shape' /\ threadNum' = threadNum /\ main' = "end"
  BY DEF Finish, Used, Shape, IInv
<1>3. QED
  BY <1>1, <1>2 DEF IInv

(* Time only marks a thread as late. *)
LEMMA ElapseKeeps ==
  ASSUME IInv, NEW n \in Num, Elapse(n)
  PROVE  IInv'
<1>1. thread' = [thread EXCEPT ![n] = [thread[n] EXCEPT !.late = TRUE]]
      /\ thread[n].at # "none" /\ UNCHANGED <<main, threadNum, idle>>
  BY DEF Elapse, serverVars
<1>2. DOMAIN [thread[n] EXCEPT !.late = TRUE] = Fields
      /\ [thread[n] EXCEPT !.late = TRUE].at = thread[n].at
  BY DEF IInv, Shape, Fields
<1>3. GoesOn(n)
  BY <1>1, <1>2 DEF GoesOn, IInv, Shape
<1>4. QED
  BY <1>3, GoesOnKeeps

(* The clients, and a stop, change neither threads nor numbers. *)
LEMMA OthersKeep ==
  ASSUME IInv, UNCHANGED <<threadNum, idle, thread>>,
         main' = main \/ StopSeen
  PROVE  IInv'
<1>1. Used' = Used /\ Shape'
  BY DEF Used, Shape, IInv
<1>2. main' \in {"loop", "wait", "end"} /\ (main' = "end" <=> main = "end")
  BY DEF IInv, StopSeen
<1>3. QED
  BY <1>1, <1>2, NumbersStay

(* At the beginning all numbers are idle. *)
LEMMA InitKeeps == ASSUME Init PROVE IInv
<1>1. Used = {} /\ Cardinality(Used) = 0
  <2>1. Used = {}
    BY DEF Init, Used, NoThread
  <2>2. QED
    BY <2>1, FS_EmptySet
<1>2. Shape
  BY DEF Init, Shape, NoThread, Fields
<1>3. Complete(idle, {})
  <2>1. \A i \in 1..MaxThreads : i - 1 \in Num
    BY SizeAssumption DEF Num
  <2>2. idle \in Seq(Num) /\ DOMAIN idle = 1..MaxThreads /\ \A i \in 1..MaxThreads : idle[i] = i - 1
    BY <2>1, SizeAssumption DEF Init
  <2>3. IsInjective(idle)
    BY <2>2, SizeAssumption DEF IsInjective
  <2>4. ASSUME NEW n \in Num PROVE n \in Range(idle)
    <3>1. n + 1 \in DOMAIN idle /\ idle[n + 1] = n
      BY <2>2, SizeAssumption DEF Num
    <3>2. QED
      BY <3>1 DEF Range
  <2>5. Range(idle) \subseteq Num
    BY <2>1, <2>2 DEF Range
  <2>6. QED
    BY <2>2, <2>3, <2>4, <2>5 DEF Complete
<1>4. QED
  BY <1>1, <1>2, <1>3 DEF Init, IInv

(* Every step keeps the invariant. *)
LEMMA NextKeeps ==
  ASSUME IInv, [Next]_vars
  PROVE  IInv'
<1>1. CASE UNCHANGED vars
  BY <1>1, OthersKeep DEF vars, serverVars
<1>2. CASE Main
  <2>1. CASE StopSeen
    BY <2>1, OthersKeep DEF StopSeen
  <2>2. QED
    BY <1>2, <2>1, DispatchKeeps, FinishKeeps DEF Main
<1>3. CASE Stop
  BY <1>3, OthersKeep DEF Stop
<1>4. CASE DispatchFails
  BY <1>4, DispatchFailsKeeps
<1>5. ASSUME NEW n \in Num, Runs(n) \/ Elapse(n) PROVE IInv'
  BY <1>5, ThreadSteps, GoesOnKeeps, GivesBackKeeps, ElapseKeeps
<1>6. ASSUME NEW c \in Client,
             \/ Connect(c) \/ SendLength(c) \/ SendHalf(c) \/ SendRest(c) \/ SendBody(c)
             \/ ReadReply(c) \/ Leave(c)
      PROVE  IInv'
  <2>1. UNCHANGED <<main, threadNum, idle, thread>>
    BY <1>6 DEF Connect, SendLength, SendHalf, SendRest, SendBody, ReadReply, Leave, Puts, serverVars
  <2>2. QED
    BY <2>1, OthersKeep
<1>7. QED
  BY <1>1, <1>2, <1>3, <1>4, <1>5, <1>6 DEF Next

(* The numbers and the threads are as the inductive invariant says. *)
THEOREM Invariance == Spec => []IInv
<1>1. Init => IInv
  BY InitKeeps
<1>2. IInv /\ [Next]_vars => IInv'
  BY NextKeeps
<1>3. QED
  BY <1>1, <1>2, PTL DEF Spec

(* NumbersConserved: no two threads share a buffer, no number is lost or   *)
(* drawn from an empty queue, and none is in use when the state is cleared *)
(* (SynchGetNewThreadNum, SynchDeleteThread, SynchRun).                    *)
THEOREM NumbersAreConserved == Spec => []NumbersConserved
<1>1. IInv => NumbersConserved
  BY Conserved
<1>2. QED
  BY <1>1, Invariance, PTL
-----------------------------------------------------------------------------
(* What goes over the sockets. *)

Token == {"len", "big", "half", "body"}
ThreadType == [at : Place, client : Client \cup {NoClient}, again : BOOLEAN, late : BOOLEAN,
               whole : BOOLEAN, error : BOOLEAN, pos : 0..ReplyChunks, size : 0..ReplyChunks]
ClientType == [at : {"new", "idle", "half", "sending", "waiting", "left"},
               got : 0..ReplyChunks]

ServerTypes == started \in BOOLEAN /\ idle \in Seq(Num)
NetTypes ==
  /\ thread \in [Num -> ThreadType] /\ client \in [Client -> ClientType]
  /\ backlog \in Seq(Client) /\ closed \subseteq Client /\ upset \subseteq Client
  /\ inbox \in [Client -> Seq(Token)] /\ outbox \in [Client -> Seq(1..ReplyChunks)]

(* How far a thread is in a reply, and a client in reading it. *)
ProgressInv ==
  /\ \A n \in Num : thread[n].pos <= thread[n].size /\ thread[n].size \in {0, ReplyChunks}
  /\ \A c \in Client : client[c].got < ReplyChunks

(* A connection waits, or one thread has it, or it was closed. *)
OwnerInv ==
  /\ IsInjective(backlog)
  /\ \A n \in Num : thread[n].client = NoClient <=> thread[n].at \in {"none", "accept"}
  /\ \A m, n \in Num : thread[m].client = thread[n].client /\ thread[m].client # NoClient => m = n
  /\ \A n \in Num : thread[n].client \notin Range(backlog) \cup closed
  /\ Range(backlog) \cap closed = {}
  /\ \A c \in Client : client[c].at = "new" =>
       c \notin Range(backlog) \cup closed /\ \A n \in Num : thread[n].client # c

(* Where the requests of a client are that nothing has upset: between two  *)
(* of them, between a length and its body, and after the body.             *)
BetweenRequests(c) ==
  \/ inbox[c] = <<>> /\ client[c].at \in {"idle", "waiting", "left"}
  \/ inbox[c] \in {<<"len">>, <<"big">>} /\ client[c].at \in {"sending", "left"}
  \/ inbox[c] \in {<<"len", "body">>, <<"big", "body">>} /\ client[c].at \in {"waiting", "left"}
BeforeBody(c) ==
  \/ inbox[c] = <<>> /\ client[c].at \in {"sending", "left"}
  \/ inbox[c] = <<"body">> /\ client[c].at \in {"waiting", "left"}
AfterBody(c) == inbox[c] = <<>> /\ client[c].at \in {"waiting", "left"}

(* The client has no part of a reply yet, or the part that was sent. *)
Fresh(c) == client[c].at = "left" \/ (outbox[c] = <<>> /\ client[c].got = 0)
Sent(c, pos) == client[c].at = "left"
                \/ (client[c].at \in {"sending", "waiting"} /\ pos = client[c].got + Len(outbox[c]))
Waits(c) == BetweenRequests(c) /\ (inbox[c] # <<>> => Fresh(c))

(* Where thread n is in the stream of its client. *)
Stream(n) ==
  LET t == thread[n]
      c == t.client
  IN  /\ t.whole
      /\ t.at = "length" => Waits(c)
      /\ t.at = "body" => BeforeBody(c) /\ Fresh(c)
      /\ t.at = "query" => AfterBody(c) /\ Fresh(c)
      /\ t.at = "send" /\ t.pos < t.size => Sent(c, t.pos) /\ (t.error \/ AfterBody(c))
      /\ t.at = "send" /\ t.pos = t.size => t.error \/ Waits(c)

(* A reply is read in order, and not beyond its end. *)
Ordered(c) ==
  client[c].at # "left" =>
    /\ \A i \in DOMAIN outbox[c] : outbox[c][i] = client[c].got + i
    /\ client[c].got + Len(outbox[c]) <= ReplyChunks
    /\ client[c].at \in {"new", "idle"} => Fresh(c)

StreamInv ==
  /\ \A n \in Num : thread[n].client = NoClient => thread[n].whole
  /\ \A n \in Num : thread[n].client \in Client \ upset => Stream(n)
  /\ \A c \in Range(backlog) \ upset : Waits(c) /\ Fresh(c)
  /\ \A c \in Client : client[c].at = "new" => inbox[c] = <<>>
  /\ \A c \in Client \ upset : client[c].at # "half" /\ Ordered(c)

NetInv == NetTypes /\ ProgressInv /\ OwnerInv /\ StreamInv

(* What a thread or client has, when nothing happens at its sockets. *)
SameAt(c) == inbox'[c] = inbox[c] /\ outbox'[c] = outbox[c] /\ client'[c] = client[c]

(* It is where it was. *)
LEMMA SameStream ==
  ASSUME NEW n, Stream(n), thread'[n] = thread[n], SameAt(thread[n].client)
  PROVE  Stream(n)'
  BY DEF Stream, SameAt, Waits, BetweenRequests, BeforeBody, AfterBody, Fresh, Sent

(* And the client reads on as before. *)
LEMMA SameClient ==
  ASSUME NEW c, SameAt(c)
  PROVE  (Waits(c) => Waits(c)') /\ (Fresh(c) => Fresh(c)') /\ (Ordered(c) => Ordered(c)')
  BY DEF SameAt, Waits, BetweenRequests, Fresh, Ordered

(* What a step of thread n or its client c may change at the sockets. *)
AtMost(c) ==
  /\ \A d \in Client \ {c} : SameAt(d)
  /\ inbox' \in [Client -> Seq(Token)] /\ outbox' \in [Client -> Seq(1..ReplyChunks)]
  /\ client' \in [Client -> ClientType] /\ \A d \in Client : client'[d].got < ReplyChunks
  /\ upset' = upset \/ upset' = upset \cup {c}

(* A thread that goes on with its client is where its stream says.         *)
LEMMA GoesInStep ==
  ASSUME NetInv, NEW n \in Num, NEW c \in Client, thread[n].client = c,
         NEW t \in ThreadType, thread' = [thread EXCEPT ![n] = t], t.client = c,
         t.at \notin {"none", "accept"}, t.pos <= t.size, t.size \in {0, ReplyChunks},
         UNCHANGED <<client, backlog, closed>>, AtMost(c),
         c \notin upset' => Stream(n)' /\ Ordered(c)'
  PROVE  NetInv'
<1>1. NetTypes' /\ ProgressInv'
  BY DEF NetInv, NetTypes, ProgressInv, AtMost
<1>2. \A m \in Num : thread'[m] = IF m = n THEN t ELSE thread[m]
  BY DEF NetInv, NetTypes
<1>3. \A m \in Num \ {n} : thread[m].client # c
  BY ClientAssumption DEF NetInv, OwnerInv
<1>4. OwnerInv'
  BY <1>2, <1>3, ClientAssumption DEF NetInv, OwnerInv
<1>5. c \notin Range(backlog) /\ client[c].at # "new"
  BY DEF NetInv, OwnerInv
<1>6. StreamInv'
  <2>1. \A m \in Num : (thread[m].client = NoClient => thread[m].whole)'
    BY <1>2, ClientAssumption DEF NetInv, StreamInv
  <2>2. ASSUME NEW m \in Num, thread'[m].client \in Client \ upset' PROVE Stream(m)'
    <3>1. CASE m = n
      BY <1>2, <2>2, <3>1
    <3>2. CASE m # n
      <4>1. thread'[m] = thread[m] /\ SameAt(thread[m].client) /\ thread[m].client \notin upset
        BY <1>2, <1>3, <2>2, <3>2 DEF AtMost
      <4>2. QED
        BY <2>2, <4>1, SameStream DEF NetInv, StreamInv
    <3>3. QED
      BY <3>1, <3>2
  <2>3. \A d \in Range(backlog) \ upset' : Waits(d)' /\ Fresh(d)'
    BY <1>5, SameClient, SMTT(30) DEF NetInv, NetTypes, StreamInv, AtMost, Range
  <2>4. \A d \in Client : client[d].at = "new" => inbox'[d] = <<>>
    BY <1>5 DEF NetInv, StreamInv, AtMost, SameAt
  <2>5. \A d \in Client \ upset' : client[d].at # "half" /\ Ordered(d)'
    BY SameClient DEF NetInv, StreamInv, AtMost
  <2>6. QED
    BY <2>1, <2>2, <2>3, <2>4, <2>5 DEF StreamInv
<1>7. QED
  BY <1>1, <1>4, <1>6 DEF NetInv

(* A thread that starts, or ends, has no client and nothing to send. *)
LEMMA ClearedThread ==
  ASSUME NEW b
  PROVE  LET t == [NoThread EXCEPT !.again = b /\ MaxThreads = 1]
         IN  /\ t \in ThreadType /\ t.client = NoClient /\ t.at = "none" /\ t.whole
             /\ t.pos = 0 /\ t.size = 0
<1>1. 0 \in 0..ReplyChunks
  BY SizeAssumption
<1>2. NoThread \in ThreadType
  BY <1>1 DEF NoThread, ThreadType, Place
<1>3. /\ NoThread.client = NoClient /\ NoThread.at = "none" /\ NoThread.whole
      /\ NoThread.pos = 0 /\ NoThread.size = 0
  BY DEF NoThread
<1>4. ASSUME NEW t \in ThreadType
      PROVE  LET u == [t EXCEPT !.again = b /\ MaxThreads = 1]
             IN  /\ u \in ThreadType /\ u.client = t.client /\ u.at = t.at /\ u.whole = t.whole
                 /\ u.pos = t.pos /\ u.size = t.size
  BY DEF ThreadType
<1>5. QED
  BY <1>2, <1>3, <1>4

(* A thread that closes its connection leaves nothing behind. *)
LEMMA ClosesInStep ==
  ASSUME NetInv, NEW n \in Num, NEW c \in Client, thread[n].client = c,
         Close(n), UNCHANGED <<client, backlog, outbox>>, AtMost(c)
  PROVE  NetInv'
<1> DEFINE t == [NoThread EXCEPT !.again = thread[n].again /\ MaxThreads = 1]
<1>1. /\ t \in ThreadType /\ t.client = NoClient /\ t.at = "none" /\ t.whole
      /\ t.pos = 0 /\ t.size = 0
  BY ClearedThread
<1>2. thread' = [thread EXCEPT ![n] = t] /\ closed' = closed \cup {c}
  BY DEF Close, SynchDeleteThread
<1> HIDE DEF t
<1>3. NetTypes' /\ ProgressInv'
  BY <1>1, <1>2, SizeAssumption DEF NetInv, NetTypes, ProgressInv, AtMost
<1>4. \A m \in Num : thread'[m] = IF m = n THEN t ELSE thread[m]
  BY <1>2 DEF NetInv, NetTypes
<1>5. \A m \in Num \ {n} : thread[m].client # c
  BY ClientAssumption DEF NetInv, OwnerInv
<1>6. c \notin Range(backlog) /\ client[c].at # "new" /\ c # NoClient
  BY ClientAssumption DEF NetInv, OwnerInv
<1>7. OwnerInv'
  <2>1. IsInjective(backlog)'
    BY DEF NetInv, OwnerInv
  <2>2. \A m \in Num : thread'[m].client = NoClient <=> thread'[m].at \in {"none", "accept"}
    BY <1>1, <1>4 DEF NetInv, OwnerInv
  <2>3. \A l, m \in Num : thread'[l].client = thread'[m].client /\ thread'[l].client # NoClient => l = m
    BY <1>1, <1>4 DEF NetInv, OwnerInv
  <2>4. NoClient \notin Range(backlog) \cup closed
    BY ClientAssumption DEF NetInv, NetTypes, Range
  <2>5. \A m \in Num : thread'[m].client \notin Range(backlog) \cup closed'
    BY <1>1, <1>2, <1>4, <1>5, <1>6, <2>4 DEF NetInv, OwnerInv
  <2>6. Range(backlog) \cap closed' = {}
    BY <1>2, <1>6 DEF NetInv, OwnerInv
  <2>7. \A d \in Client : client[d].at = "new" =>
          d \notin Range(backlog) \cup closed' /\ \A m \in Num : thread'[m].client # d
    BY <1>1, <1>2, <1>4, <1>6, ClientAssumption DEF NetInv, OwnerInv
  <2>8. QED
    BY <2>1, <2>2, <2>3, <2>5, <2>6, <2>7 DEF OwnerInv
<1>8. StreamInv'
  <2>1. \A m \in Num : (thread[m].client = NoClient => thread[m].whole)'
    BY <1>1, <1>4 DEF NetInv, StreamInv
  <2>2. ASSUME NEW m \in Num, thread'[m].client \in Client \ upset' PROVE Stream(m)'
    <3>1. m # n
      BY <1>1, <1>4, <2>2, ClientAssumption
    <3>2. thread'[m] = thread[m] /\ SameAt(thread[m].client) /\ thread[m].client \notin upset
      BY <1>4, <1>5, <2>2, <3>1 DEF AtMost
    <3>3. QED
      BY <2>2, <3>2, SameStream DEF NetInv, StreamInv
  <2>3. \A d \in Range(backlog) \ upset' : Waits(d)' /\ Fresh(d)'
    BY <1>6, SameClient DEF NetInv, NetTypes, StreamInv, AtMost, Range
  <2>4. \A d \in Client : client[d].at = "new" => inbox'[d] = <<>>
    BY <1>6 DEF NetInv, StreamInv, AtMost, SameAt
  <2>5. \A d \in Client \ upset' : client[d].at # "half" /\ Ordered(d)'
    BY DEF NetInv, StreamInv, AtMost, Ordered, Fresh
  <2>6. QED
    BY <2>1, <2>2, <2>3, <2>4, <2>5 DEF StreamInv
<1>9. QED
  BY <1>3, <1>7, <1>8 DEF NetInv

(* A thread with a client, which is neither new nor in the backlog. *)
LEMMA HasClient ==
  ASSUME NetInv, NEW n \in Num, thread[n].at \notin {"none", "accept"}
  PROVE  /\ thread[n] \in ThreadType /\ thread[n].client \in Client /\ thread[n].client # NoClient
         /\ client[thread[n].client] \in ClientType
         /\ inbox[thread[n].client] \in Seq(Token) /\ outbox[thread[n].client] \in Seq(1..ReplyChunks)
         /\ thread[n].pos <= thread[n].size /\ thread[n].size \in {0, ReplyChunks}
         /\ thread[n].client \notin upset => Stream(n) /\ Ordered(thread[n].client)
<1>1. thread[n] \in ThreadType /\ thread[n].client \in Client \cup {NoClient}
  BY DEF NetInv, NetTypes, ThreadType
<1>2. thread[n].client # NoClient
  BY DEF NetInv, OwnerInv
<1>3. QED
  BY <1>1, <1>2 DEF NetInv, NetTypes, ProgressInv, StreamInv

(* The same for a step that only the thread and what it reads take part in. *)
LEMMA MovesInStep ==
  ASSUME NetInv, NEW n \in Num, NEW c \in Client, thread[n].client = c,
         NEW t \in ThreadType, Is(n, t), t.client = c,
         t.at \notin {"none", "accept"}, t.pos <= t.size, t.size \in {0, ReplyChunks},
         UNCHANGED <<client, backlog, outbox, closed>>, AtMost(c),
         c \notin upset' => Stream(n)'
  PROVE  NetInv'
<1>1. c \notin upset' => Ordered(c)'
  BY DEF AtMost, NetInv, StreamInv, Ordered, Fresh
<1>2. thread' = [thread EXCEPT ![n] = t]
  BY DEF Is
<1>3. QED
  BY <1>1, <1>2, GoesInStep

(* A receive that failed: the thread looks again, or closes. *)
LEMMA FailedInStep ==
  ASSUME NetInv, NEW n \in Num, thread[n].at \notin {"none", "accept"},
         NEW c \in Client, thread[n].client = c,
         NEW again \in BOOLEAN, Failed(n, again),
         UNCHANGED <<client, backlog, outbox>>, AtMost(c),
         c \notin upset' => thread[n].whole /\ Waits(c)'
  PROVE  NetInv'
<1> DEFINE t == [thread[n] EXCEPT !.at = "length", !.again = again]
<1>1. thread[n] \in ThreadType /\ thread[n].pos <= thread[n].size /\ thread[n].size \in {0, ReplyChunks}
  BY HasClient
<1>2. CASE Close(n)
  BY <1>2, ClosesInStep
<1>3. CASE Is(n, t) /\ UNCHANGED closed
  <2>1. /\ t \in ThreadType /\ t.client = c /\ t.at = "length" /\ t.whole = thread[n].whole
        /\ t.pos = thread[n].pos /\ t.size = thread[n].size
    BY <1>1 DEF ThreadType, Place
  <2>2. thread'[n] = t
    BY <1>3 DEF Is, NetInv, NetTypes
  <2> HIDE DEF t
  <2>3. c \notin upset' => Stream(n)'
    BY <2>1, <2>2 DEF Stream
  <2>4. QED
    BY <1>1, <1>3, <2>1, <2>3, MovesInStep
<1>4. QED
  BY <1>2, <1>3 DEF Failed

(* The client of a thread takes out of its inbox what it read, and no more *)
(* changes at any socket.                                                  *)
LEMMA Reads ==
  ASSUME NetInv, NEW c \in Client, NEW rest \in Seq(Token),
         inbox' = [inbox EXCEPT ![c] = rest], UNCHANGED <<client, outbox>>,
         upset' = upset \/ upset' = upset \cup {c}
  PROVE  AtMost(c) /\ inbox'[c] = rest
  BY DEF NetInv, NetTypes, ProgressInv, AtMost, SameAt

(* What is left when the length of a request was read. *)
LEMMA LengthRead ==
  ASSUME NEW in \in Seq(Token), in # <<>>
  PROVE  /\ Rest(in, Taken(in)) \in Seq(Token)
         /\ \A l \in {"len", "big"} :
              /\ in = <<l>> => Head(in) = l /\ Len(in) = 1 /\ Rest(in, Taken(in)) = <<>>
              /\ in = <<l, "body">> => Head(in) = l /\ in[1] = l /\ Rest(in, Taken(in)) = <<"body">>
<1>1. Len(in) \in Nat \ {0} /\ Taken(in) \in Nat
  BY EmptySeq, LenProperties DEF Taken
<1>2. Rest(in, Taken(in)) \in Seq(Token)
  <2>1. \A i \in (Taken(in) + 1)..Len(in) : in[i] \in Token
    BY <1>1, ElementOfSeq
  <2>2. QED
    BY <1>1, <2>1, SubSeqProperties DEF Rest
<1>3. ASSUME NEW l \in {"len", "big"}
      PROVE  /\ in = <<l>> => Head(in) = l /\ Len(in) = 1 /\ Rest(in, Taken(in)) = <<>>
             /\ in = <<l, "body">> => Head(in) = l /\ in[1] = l /\ Rest(in, Taken(in)) = <<"body">>
  <2>1. CASE in = <<l>>
    <3>1. Len(in) = 1 /\ Taken(in) = 1 /\ Head(in) = l
      BY <2>1 DEF Taken
    <3>2. SubSeq(in, 2, 1) = <<>>
      OBVIOUS
    <3>3. in # <<l, "body">>
      BY <2>1
    <3>4. QED
      BY <3>1, <3>2, <3>3 DEF Rest
  <2>2. CASE in = <<l, "body">>
    <3>1. Len(in) = 2 /\ Taken(in) = 1 /\ Head(in) = l /\ in[1] = l
      BY <2>2 DEF Taken
    <3>2. SubSeq(in, 2, 2) = <<"body">>
      <4>1. in[2] = "body" /\ \A i \in 2..2 : in[i] \in {"body"}
        BY <2>2
      <4>2. /\ SubSeq(in, 2, 2) \in Seq({"body"}) /\ Len(SubSeq(in, 2, 2)) = 1
            /\ \A i \in 1..1 : SubSeq(in, 2, 2)[i] = in[2 + i - 1]
        BY <4>1, SubSeqProperties
      <4>3. <<"body">> \in Seq({"body"}) /\ Len(<<"body">>) = 1 /\ <<"body">>[1] = "body"
        OBVIOUS
      <4>4. \A i \in 1..1 : SubSeq(in, 2, 2)[i] = <<"body">>[i]
        BY <4>1, <4>2, <4>3
      <4>5. QED
        BY <4>2, <4>3, <4>4, SeqEqual
    <3>3. in # <<l>>
      BY <2>2
    <3>4. QED
      BY <3>1, <3>2, <3>3 DEF Rest
  <2>3. QED
    BY <2>1, <2>2
<1>4. QED
  BY <1>2, <1>3

(* Where a client is in its stream once the length of its request was read. *)
LEMMA AfterLength ==
  ASSUME NEW c \in Client, NEW in \in Seq(Token), in = inbox[c], in # <<>>, Waits(c),
         inbox'[c] = Rest(in, Taken(in)), UNCHANGED <<client, outbox>>
  PROVE  /\ Head(in) \in {"len", "big"} /\ in # <<"half">> /\ ~(Len(in) > 1 /\ in[1] = "half")
         /\ (BeforeBody(c) /\ Fresh(c) /\ Sent(c, 0))'
<1>1. /\ Fresh(c)
      /\ \E l \in {"len", "big"} : \/ in = <<l>> /\ client[c].at \in {"sending", "left"}
                                   \/ in = <<l, "body">> /\ client[c].at \in {"waiting", "left"}
  BY DEF Waits, BetweenRequests
<1>2. PICK l \in {"len", "big"} : \/ in = <<l>> /\ client[c].at \in {"sending", "left"}
                                  \/ in = <<l, "body">> /\ client[c].at \in {"waiting", "left"}
  BY <1>1
<1>3. Head(in) = l /\ (Len(in) = 1 \/ in[1] = l)
  BY <1>2, LengthRead
<1>4. Head(in) \in {"len", "big"} /\ in # <<"half">> /\ ~(Len(in) > 1 /\ in[1] = "half")
  BY <1>2, <1>3
<1>5. \/ inbox'[c] = <<>> /\ client[c].at \in {"sending", "left"}
      \/ inbox'[c] = <<"body">> /\ client[c].at \in {"waiting", "left"}
  BY <1>2, LengthRead
<1>6. Fresh(c)'
  BY <1>1 DEF Fresh
<1>7. Sent(c, 0)'
  BY <1>5, <1>6 DEF Fresh, Sent
<1>8. QED
  BY <1>4, <1>5, <1>6, <1>7 DEF BeforeBody

(* A refusal is an error of full length, of which nothing was sent. *)
LEMMA Refusal ==
  ASSUME NEW old \in ThreadType
  PROVE  LET t == Refused(old)
         IN  /\ t \in ThreadType /\ t.client = old.client /\ t.whole = old.whole /\ t.at = "send"
             /\ t.error /\ t.pos = 0 /\ t.size = ReplyChunks
<1>1. 0 \in 0..ReplyChunks /\ ReplyChunks \in 0..ReplyChunks
  BY SizeAssumption
<1>2. QED
  BY <1>1 DEF Refused, ThreadType, Place

(* ReadLength: a client in step is now before its body, or refused. *)
LEMMA ReadLengthInStep ==
  ASSUME NetInv, NEW n \in Num, ReadLength(n)
  PROVE  NetInv'
<1>1. PICK c \in Client : thread[n].client = c
  BY HasClient DEF ReadLength
<1> DEFINE old == thread[n]
           in == inbox[c]
           rest == Rest(in, Taken(in))
<1>2. /\ old \in ThreadType /\ in \in Seq(Token) /\ old.pos <= old.size /\ old.size \in {0, ReplyChunks}
      /\ old.at = "length" /\ in # <<>> /\ (c \notin upset => old.whole /\ Waits(c))
  BY <1>1, HasClient DEF ReadLength, Stream
<1>3. inbox' = [inbox EXCEPT ![c] = rest] /\ UNCHANGED <<client, backlog, outbox, upset>>
  BY <1>1 DEF ReadLength, clientVars
<1>4. AtMost(c) /\ inbox'[c] = rest
  BY <1>2, <1>3, LengthRead, Reads
<1>5. c \notin upset => /\ Head(in) \in {"len", "big"} /\ in # <<"half">> /\ ~(Len(in) > 1 /\ in[1] = "half")
                        /\ (BeforeBody(c) /\ Fresh(c) /\ Sent(c, 0))'
  BY <1>2, <1>3, <1>4, AfterLength
<1>6. ASSUME NEW w \in BOOLEAN, Is(n, [old EXCEPT !.at = "body", !.whole = w]), UNCHANGED closed,
             c \notin upset => w
      PROVE  NetInv'
  <2> DEFINE t == [old EXCEPT !.at = "body", !.whole = w]
  <2>1. t \in ThreadType /\ t.client = c /\ t.at = "body" /\ t.whole = w /\ t.pos = old.pos /\ t.size = old.size
    BY <1>1, <1>2 DEF ThreadType, Place
  <2>2. Is(n, t) /\ thread'[n] = t
    BY <1>6 DEF Is, NetInv, NetTypes
  <2> HIDE DEF t
  <2>3. c \notin upset' => Stream(n)'
    BY <1>3, <1>5, <1>6, <2>1, <2>2 DEF Stream
  <2>4. QED
    BY <1>1, <1>2, <1>3, <1>4, <1>6, <2>1, <2>2, <2>3, MovesInStep
<1>7. ASSUME NEW w \in BOOLEAN, Is(n, [Refused(old) EXCEPT !.whole = w]), UNCHANGED closed,
             c \notin upset => w
      PROVE  NetInv'
  <2> DEFINE t == [Refused(old) EXCEPT !.whole = w]
  <2>1. /\ t \in ThreadType /\ t.client = c /\ t.at = "send" /\ t.whole = w /\ t.error
        /\ t.pos = 0 /\ t.size = ReplyChunks
    <3>1. Refused(old) \in ThreadType
      BY <1>2, Refusal
    <3>2. QED
      BY <1>1, <1>2, <3>1, Refusal DEF ThreadType
  <2>2. Is(n, t) /\ thread'[n] = t
    BY <1>7 DEF Is, NetInv, NetTypes
  <2> HIDE DEF t
  <2>3. c \notin upset' => Stream(n)'
    BY <1>3, <1>5, <1>7, <2>1, <2>2 DEF Stream
  <2>4. QED
    BY <1>1, <1>2, <1>3, <1>4, <1>7, <2>1, <2>2, <2>3, MovesInStep, SizeAssumption
<1>8. ASSUME Failed(n, old.again), c \in upset PROVE NetInv'
  BY <1>1, <1>2, <1>3, <1>4, <1>8, FailedInStep DEF ThreadType
<1>9. QED
  <2>1. \/ Head(in) = "len" /\ Is(n, [old EXCEPT !.at = "body", !.whole = TRUE]) /\ UNCHANGED closed
        \/ Head(in) = "big" /\ Is(n, [Refused(old) EXCEPT !.whole = TRUE]) /\ UNCHANGED closed
        \/ in = <<"half">> /\ Failed(n, old.again)
        \/ /\ Len(in) > 1 /\ in[1] = "half" /\ in[2] = "half"
           /\ Is(n, [old EXCEPT !.at = "body", !.whole = TRUE]) /\ UNCHANGED closed
        \/ /\ Head(in) = "body" \/ (Len(in) > 1 /\ in[1] = "half" /\ in[2] # "half")
           /\ \/ Failed(n, old.again)
              \/ Is(n, [Refused(old) EXCEPT !.whole = FALSE]) /\ UNCHANGED closed
              \/ Is(n, [old EXCEPT !.at = "body", !.whole = FALSE]) /\ UNCHANGED closed
    BY <1>1 DEF ReadLength
  <2>2. \/ \E w \in BOOLEAN : (c \notin upset => w) /\ UNCHANGED closed
             /\ (Is(n, [old EXCEPT !.at = "body", !.whole = w]) \/ Is(n, [Refused(old) EXCEPT !.whole = w]))
        \/ Failed(n, old.again) /\ c \in upset
    BY <1>5, <2>1
  <2>3. QED
    BY <1>6, <1>7, <1>8, <2>2

(* ReadBody: the request is read, and nothing comes before it is answered. *)
LEMMA ReadBodyInStep ==
  ASSUME NetInv, NEW n \in Num, ReadBody(n)
  PROVE  NetInv'
<1>1. PICK c \in Client : thread[n].client = c
  BY HasClient DEF ReadBody
<1> DEFINE t == [thread[n] EXCEPT !.at = "query"]
<1>2. /\ thread[n] \in ThreadType /\ inbox[c] \in Seq(Token) /\ inbox[c] # <<>>
      /\ thread[n].pos <= thread[n].size /\ thread[n].size \in {0, ReplyChunks}
      /\ c \notin upset => thread[n].whole /\ BeforeBody(c) /\ Fresh(c)
  BY <1>1, HasClient DEF ReadBody, Stream
<1>3. /\ inbox' = [inbox EXCEPT ![c] = Tail(inbox[c])] /\ Is(n, t)
      /\ UNCHANGED <<client, backlog, outbox, closed, upset>>
  BY <1>1 DEF ReadBody, clientVars
<1>4. AtMost(c) /\ inbox'[c] = Tail(inbox[c])
  BY <1>2, <1>3, HeadTailProperties, Reads
<1>5. /\ t \in ThreadType /\ t.client = c /\ t.at = "query" /\ t.whole = thread[n].whole
      /\ t.pos = thread[n].pos /\ t.size = thread[n].size
  BY <1>1, <1>2 DEF ThreadType, Place
<1>6. thread'[n] = t
  BY <1>3 DEF Is, NetInv, NetTypes
<1> HIDE DEF t
<1>7. c \notin upset' => AfterBody(c)' /\ Fresh(c)'
  <2>1. Tail(<<"body">>) = <<>>
    OBVIOUS
  <2>2. QED
    BY <1>2, <1>3, <1>4, <2>1 DEF BeforeBody, AfterBody, Fresh
<1>8. c \notin upset' => Stream(n)'
  BY <1>2, <1>3, <1>5, <1>6, <1>7 DEF Stream
<1>9. QED
  BY <1>1, <1>2, <1>3, <1>4, <1>5, <1>8, MovesInStep

(* ReadNothing: only a pause before a body makes it count as lost. *)
LEMMA ReadNothingInStep ==
  ASSUME NetInv, NEW n \in Num, ReadNothing(n)
  PROVE  NetInv'
<1>1. PICK c \in Client : thread[n].client = c
  BY HasClient DEF ReadNothing
<1> DEFINE again == thread[n].again \/ ~Gone(c)
<1>2. /\ inbox[c] \in Seq(Token) /\ inbox[c] = <<>> /\ thread[n].at \in {"length", "body"}
      /\ c \notin upset => Stream(n)
  BY <1>1, HasClient DEF ReadNothing
<1>3. /\ UNCHANGED <<client, backlog, outbox, inbox>> /\ Failed(n, again)
      /\ upset' = IF thread[n].at = "body" /\ ~Gone(c) THEN upset \cup {c} ELSE upset
  BY <1>1 DEF ReadNothing, clientVars
<1>4. AtMost(c)
  BY <1>3 DEF NetInv, NetTypes, ProgressInv, AtMost, SameAt
<1>5. c \notin upset' => thread[n].whole /\ Waits(c)'
  BY <1>1, <1>2, <1>3 DEF Stream, Gone, Waits, BetweenRequests, Fresh
<1>6. again \in BOOLEAN
  OBVIOUS
<1> HIDE DEF again
<1>7. QED
  BY <1>1, <1>2, <1>3, <1>4, <1>5, <1>6, FailedInStep

(* Query: the answer is an error, or a reply, or nothing. *)
LEMMA QueryInStep ==
  ASSUME NetInv, NEW n \in Num, Query(n)
  PROVE  NetInv'
<1>1. PICK c \in Client : thread[n].client = c
  BY HasClient DEF Query
<1>2. /\ thread[n] \in ThreadType /\ thread[n].at = "query"
      /\ c \notin upset => thread[n].whole /\ AfterBody(c) /\ Fresh(c)
  BY <1>1, HasClient DEF Query, Stream
<1>3. UNCHANGED <<client, backlog, outbox, inbox, closed, upset>>
  BY DEF Query, clientVars
<1>4. AtMost(c)
  BY <1>3 DEF NetInv, NetTypes, ProgressInv, AtMost, SameAt
<1>5. c \notin upset' => AfterBody(c)' /\ Sent(c, 0)' /\ Waits(c)'
  BY <1>2, <1>3 DEF AfterBody, Fresh, Sent, Waits, BetweenRequests
<1>6. CASE Is(n, Refused(thread[n]))
  <2> DEFINE t == Refused(thread[n])
  <2>1. /\ t \in ThreadType /\ t.client = c /\ t.at = "send" /\ t.whole = thread[n].whole
        /\ t.error /\ t.pos = 0 /\ t.size = ReplyChunks
    BY <1>1, <1>2, Refusal
  <2>2. thread'[n] = t
    BY <1>6 DEF Is, NetInv, NetTypes
  <2> HIDE DEF t
  <2>3. c \notin upset' => Stream(n)'
    BY <1>2, <1>3, <1>5, <2>1, <2>2 DEF Stream
  <2>4. QED
    BY <1>1, <1>3, <1>4, <1>6, <2>1, <2>3, MovesInStep, SizeAssumption DEF t
<1>7. ASSUME NEW s \in {0, ReplyChunks}, Is(n, [thread[n] EXCEPT !.at = "send", !.pos = 0, !.size = s])
      PROVE  NetInv'
  <2> DEFINE t == [thread[n] EXCEPT !.at = "send", !.pos = 0, !.size = s]
  <2>1. 0 \in 0..ReplyChunks /\ s \in 0..ReplyChunks /\ s >= 0
    BY SizeAssumption
  <2>2. /\ t \in ThreadType /\ t.client = c /\ t.at = "send" /\ t.whole = thread[n].whole
        /\ t.pos = 0 /\ t.size = s
    BY <1>1, <1>2, <2>1 DEF ThreadType, Place
  <2>3. thread'[n] = t /\ Is(n, t)
    BY <1>7 DEF Is, NetInv, NetTypes
  <2> HIDE DEF t
  <2>4. c \notin upset' => Stream(n)'
    BY <1>2, <1>3, <1>5, <2>2, <2>3 DEF Stream
  <2>5. QED
    BY <1>1, <1>3, <1>4, <2>1, <2>2, <2>3, <2>4, MovesInStep
<1>8. QED
  BY <1>6, <1>7 DEF Query

(* The smaller of two numbers. *)
LEMMA SmallerOfTwo ==
  ASSUME NEW a \in Int, NEW b \in Int
  PROVE  Min({a, b}) \in {a, b} /\ Min({a, b}) <= a /\ Min({a, b}) <= b
<1>1. \E x \in {a, b} : \A y \in {a, b} : x <= y
  BY a <= b \/ b <= a
<1>2. QED
  BY <1>1 DEF Min

(* What a client has to read when k chunks more were sent. *)
Followed(out, pos, k) == out \o [i \in 1..k |-> pos + i]

(* What is sent comes after what was. *)
LEMMA Chunks ==
  ASSUME NEW out \in Seq(1..ReplyChunks), NEW pos \in Nat, NEW k \in Nat, pos + k <= ReplyChunks
  PROVE  LET sent == Followed(out, pos, k)
         IN  /\ sent \in Seq(1..ReplyChunks) /\ Len(sent) = Len(out) + k /\ DOMAIN sent = 1..(Len(out) + k)
             /\ \A i \in 1..(Len(out) + k) :
                  sent[i] = IF i <= Len(out) THEN out[i] ELSE pos + (i - Len(out))
<1> DEFINE new == [i \in 1..k |-> pos + i]
<1>1. \A i \in 1..k : pos + i \in 1..ReplyChunks
  BY SizeAssumption
<1>2. new \in Seq(1..ReplyChunks) /\ Len(new) = k /\ \A i \in 1..k : new[i] = pos + i
  BY <1>1, IsASeq, LenProperties
<1> HIDE DEF new
<1>3. /\ out \o new \in Seq(1..ReplyChunks) /\ Len(out \o new) = Len(out) + Len(new)
      /\ \A i \in 1..(Len(out) + Len(new)) :
           (out \o new)[i] = IF i <= Len(out) THEN out[i] ELSE new[i - Len(out)]
  BY <1>2, ConcatProperties
<1>4. Len(out) \in Nat /\ DOMAIN (out \o new) = 1..(Len(out) + k)
  BY <1>2, <1>3, LenProperties
<1>5. \A i \in 1..(Len(out) + k) : ~(i <= Len(out)) => i - Len(out) \in 1..k
  BY <1>4
<1>6. QED
  BY <1>2, <1>3, <1>4, <1>5 DEF new, Followed

(* What a send takes is some of what there is to send. *)
LEMMA Some ==
  ASSUME NEW n \in Num, NEW c \in Client, NetInv, thread[n].client = c, SendChunks(n)
  PROVE  \E pos, k \in Nat :
           /\ pos = thread[n].pos /\ k > 0 /\ pos + k <= thread[n].size
           /\ Is(n, [thread[n] EXCEPT !.pos = pos + k])
           /\ outbox' = [outbox EXCEPT ![c] = Followed(outbox[c], pos, k)]
<1> DEFINE a == SocketRoom - Len(outbox[c])
           b == thread[n].size - thread[n].pos
           k == Min({a, b})
<1>1. thread[n] \in ThreadType /\ outbox[c] \in Seq(1..ReplyChunks)
  BY HasClient DEF SendChunks
<1>2. Len(outbox[c]) \in Nat /\ thread[n].pos \in Nat /\ thread[n].size \in Nat /\ SocketRoom \in Nat
  BY <1>1, LenProperties, SizeAssumption DEF ThreadType
<1>3. a \in Int /\ b \in Int
  BY <1>2
<1>4. k > 0 /\ Is(n, [thread[n] EXCEPT !.pos = thread[n].pos + k])
      /\ outbox' = [outbox EXCEPT ![c] = Followed(outbox[c], thread[n].pos, k)]
  BY DEF SendChunks, Followed
<1> HIDE DEF a
<1>5. k \in Int /\ k <= b
  <2> HIDE DEF b
  <2>1. QED
    BY <1>3, SmallerOfTwo
<1> HIDE DEF k
<1>6. k \in Nat /\ thread[n].pos + k <= thread[n].size
  BY <1>2, <1>4, <1>5
<1>7. QED
  BY <1>2, <1>4, <1>6

(* SendChunks: the client is sent what follows what it has. *)
LEMMA SendChunksInStep ==
  ASSUME NetInv, NEW n \in Num, SendChunks(n)
  PROVE  NetInv'
<1>1. PICK c \in Client : thread[n].client = c
  BY HasClient DEF SendChunks
<1>2. PICK pos \in Nat, k \in Nat :
        /\ pos = thread[n].pos /\ k > 0 /\ pos + k <= thread[n].size
        /\ Is(n, [thread[n] EXCEPT !.pos = pos + k])
        /\ outbox' = [outbox EXCEPT ![c] = Followed(outbox[c], pos, k)]
  BY <1>1, Some
<1> DEFINE old == thread[n]
           t == [old EXCEPT !.pos = pos + k]
           sent == Followed(outbox[c], pos, k)
<1>3. /\ old \in ThreadType /\ outbox[c] \in Seq(1..ReplyChunks) /\ client[c] \in ClientType
      /\ old.at = "send" /\ old.pos < old.size /\ old.size \in {0, ReplyChunks}
      /\ c \notin upset => Ordered(c) /\ old.whole /\ Sent(c, pos) /\ (old.error \/ AfterBody(c))
  BY <1>1, <1>2, HasClient DEF SendChunks, Stream
<1>4. UNCHANGED <<client, backlog, inbox, closed, upset>>
  BY <1>1 DEF SendChunks, clientVars
<1>5. /\ Len(outbox[c]) \in Nat /\ old.size \in Nat /\ ReplyChunks \in Nat /\ client[c].got \in Nat
      /\ pos + k \in 0..ReplyChunks /\ pos + k <= ReplyChunks /\ DOMAIN outbox[c] = 1..Len(outbox[c])
  BY <1>2, <1>3, LenProperties, SizeAssumption DEF ThreadType, ClientType
<1>6. /\ sent \in Seq(1..ReplyChunks) /\ Len(sent) = Len(outbox[c]) + k
      /\ DOMAIN sent = 1..(Len(outbox[c]) + k)
      /\ \A i \in 1..(Len(outbox[c]) + k) :
           sent[i] = IF i <= Len(outbox[c]) THEN outbox[c][i] ELSE pos + (i - Len(outbox[c]))
  <2>1. outbox[c] \in Seq(1..ReplyChunks) /\ pos + k <= ReplyChunks
    BY <1>3, <1>5
  <2>2. QED
    BY <2>1, Chunks, Zenon
<1>7. /\ t \in ThreadType /\ t.client = c /\ t.at = "send" /\ t.whole = old.whole
      /\ t.error = old.error /\ t.pos = pos + k /\ t.size = old.size
  BY <1>1, <1>3, <1>5 DEF ThreadType, Place
<1>8. thread'[n] = t /\ thread' = [thread EXCEPT ![n] = t]
  BY <1>2 DEF Is, NetInv, NetTypes
<1> HIDE DEF t, sent
<1>9. AtMost(c) /\ outbox'[c] = sent
  BY <1>2, <1>4, <1>6 DEF NetInv, NetTypes, ProgressInv, AtMost, SameAt, sent
<1>10. ASSUME c \notin upset' PROVE Stream(n)' /\ Ordered(c)'
  <2>1. Ordered(c) /\ old.whole /\ Sent(c, pos) /\ (old.error \/ AfterBody(c))
    BY <1>3, <1>4, <1>10
  <2>2. Sent(c, pos + k)'
    <3>1. Len(outbox'[c]) = Len(outbox[c]) + k
      BY <1>6, <1>9
    <3>2. pos = client[c].got + Len(outbox[c]) => pos + k = client[c].got + (Len(outbox[c]) + k)
      BY <1>5
    <3>3. QED
      BY <1>4, <2>1, <3>1, <3>2 DEF Sent
  <2>3. AfterBody(c) => AfterBody(c)' /\ Waits(c)'
    BY <1>4 DEF AfterBody, Waits, BetweenRequests
  <2>4. Stream(n)'
    BY <1>1, <1>7, <1>8, <2>1, <2>2, <2>3 DEF Stream
  <2>5. ASSUME client[c].at # "left" PROVE Ordered(c)'
    <3>1. pos = client[c].got + Len(outbox[c]) /\ client[c].at \in {"sending", "waiting"}
      BY <2>1, <2>5 DEF Sent
    <3>2. \A i \in 1..(Len(outbox[c]) + k) : sent[i] = client[c].got + i
      <4>1. \A i \in 1..Len(outbox[c]) : outbox[c][i] = client[c].got + i
        BY <1>5, <2>1, <2>5 DEF Ordered
      <4>2. ASSUME NEW i \in 1..(Len(outbox[c]) + k) PROVE sent[i] = client[c].got + i
        <5>1. CASE i <= Len(outbox[c])
          <6>1. i \in 1..Len(outbox[c])
            BY <1>5, <5>1
          <6>2. QED
            BY <1>6, <4>1, <5>1, <6>1
        <5>2. CASE ~(i <= Len(outbox[c]))
          <6>1. \A a, b, j \in Int : (a + b) + (j - b) = a + j
            OBVIOUS
          <6>2. pos + (i - Len(outbox[c])) = client[c].got + i
            BY <1>5, <3>1, <6>1, SMTT(30)
          <6>3. QED
            BY <1>6, <5>2, <6>2
        <5>3. QED
          BY <5>1, <5>2
      <4>3. QED
        BY <4>2
    <3>3. client[c].got + Len(sent) <= ReplyChunks
      BY <1>5, <1>6, <3>1
    <3>4. QED
      BY <1>4, <1>6, <1>9, <3>1, <3>2, <3>3 DEF Ordered
  <2>6. QED
    BY <1>4, <2>4, <2>5 DEF Ordered
<1>11. QED
  BY <1>1, <1>2, <1>3, <1>4, <1>7, <1>8, <1>9, <1>10, GoesInStep

(* SendFails: what the client has may now be wrong, and is counted so. *)
LEMMA SendFailsInStep ==
  ASSUME NetInv, NEW n \in Num, SendFails(n)
  PROVE  NetInv'
<1>1. PICK c \in Client : thread[n].client = c
  BY HasClient DEF SendFails
<1> DEFINE old == thread[n]
<1>2. PICK pos, again : pos = (IF ShowInfo \/ old.pos = 0 THEN old.size ELSE old.pos - 1) /\ again = ~Gone(c)
  OBVIOUS
<1> DEFINE t == [old EXCEPT !.pos = pos, !.again = again]
<1>3. /\ old \in ThreadType /\ old.at = "send" /\ old.pos < old.size /\ old.size \in {0, ReplyChunks}
  BY <1>1, HasClient DEF SendFails
<1>4. Is(n, t) /\ UNCHANGED <<client, backlog, outbox, inbox, closed>> /\ upset' = upset \cup {c}
  BY <1>1, <1>2 DEF SendFails, clientVars
<1>5. pos \in 0..ReplyChunks /\ pos <= old.size
  BY <1>2, <1>3, SizeAssumption DEF ThreadType
<1>6. again \in BOOLEAN
  BY <1>2
<1>7. t \in ThreadType /\ t.client = c /\ t.at = "send" /\ t.pos = pos /\ t.size = old.size
  BY <1>1, <1>3, <1>5, <1>6 DEF ThreadType, Place
<1> HIDE DEF t
<1>8. AtMost(c)
  BY <1>4 DEF NetInv, NetTypes, ProgressInv, AtMost, SameAt
<1>9. QED
  BY <1>1, <1>3, <1>4, <1>5, <1>7, <1>8, MovesInStep

(* SendDone: the next request may be read, or there is none. *)
LEMMA SendDoneInStep ==
  ASSUME NetInv, NEW n \in Num, SendDone(n)
  PROVE  NetInv'
<1>1. PICK c \in Client : thread[n].client = c
  BY HasClient DEF SendDone
<1>2. /\ thread[n] \in ThreadType /\ thread[n].at = "send" /\ thread[n].pos = thread[n].size
      /\ c \notin upset => Stream(n)
  BY <1>1, HasClient DEF SendDone
<1>3. UNCHANGED <<client, backlog, outbox, inbox, upset>>
  BY DEF SendDone, clientVars
<1>4. AtMost(c)
  BY <1>3 DEF NetInv, NetTypes, ProgressInv, AtMost, SameAt
<1>5. CASE thread[n].error
  BY <1>1, <1>3, <1>4, <1>5, ClosesInStep DEF SendDone
<1>6. CASE ~thread[n].error
  <2> DEFINE t == [thread[n] EXCEPT !.at = "length", !.late = FALSE, !.whole = TRUE, !.pos = 0, !.size = 0]
  <2>1. 0 \in 0..ReplyChunks
    BY SizeAssumption
  <2>2. t \in ThreadType /\ t.client = c /\ t.at = "length" /\ t.whole /\ t.pos = 0 /\ t.size = 0
    BY <1>1, <1>2, <2>1 DEF ThreadType, Place
  <2>3. Is(n, t) /\ thread'[n] = t /\ UNCHANGED closed
    BY <1>6 DEF SendDone, Is, NetInv, NetTypes
  <2> HIDE DEF t
  <2>4. c \notin upset => Waits(c)'
    BY <1>1, <1>2, <1>3, <1>6 DEF Stream, Waits, BetweenRequests, Fresh
  <2>5. c \notin upset' => Stream(n)'
    BY <1>3, <2>2, <2>3, <2>4 DEF Stream
  <2>6. QED
    BY <1>1, <1>3, <1>4, <2>2, <2>3, <2>5, MovesInStep
<1>7. QED
  BY <1>5, <1>6

(* Time moves nobody. *)
LEMMA ElapseInStep ==
  ASSUME NetInv, NEW n \in Num, Elapse(n)
  PROVE  NetInv'
<1>1. PICK c \in Client : thread[n].client = c
  BY HasClient DEF Elapse
<1> DEFINE t == [thread[n] EXCEPT !.late = TRUE]
<1>2. /\ thread[n] \in ThreadType /\ thread[n].pos <= thread[n].size /\ thread[n].size \in {0, ReplyChunks}
      /\ thread[n].at \in {"length", "body"} /\ (c \notin upset => Stream(n) /\ Ordered(c))
  BY <1>1, HasClient DEF Elapse
<1>3. thread' = [thread EXCEPT ![n] = t]
      /\ UNCHANGED <<client, backlog, outbox, inbox, closed, upset>>
  BY DEF Elapse, clientVars
<1>4. /\ t \in ThreadType /\ t.client = c /\ t.at = thread[n].at /\ t.whole = thread[n].whole
      /\ t.pos = thread[n].pos /\ t.size = thread[n].size
  BY <1>1, <1>2 DEF ThreadType
<1>5. thread'[n] = t
  BY <1>3 DEF NetInv, NetTypes
<1> HIDE DEF t
<1>6. AtMost(c)
  BY <1>3 DEF NetInv, NetTypes, ProgressInv, AtMost, SameAt
<1>7. c \notin upset' => Stream(n)'
  BY <1>1, <1>2, <1>3, <1>4, <1>5 DEF Stream, Waits, BetweenRequests, BeforeBody, Fresh
<1>8. c \notin upset' => Ordered(c)'
  BY <1>2, <1>3 DEF Ordered, Fresh
<1>9. QED
  BY <1>1, <1>2, <1>3, <1>4, <1>6, <1>7, <1>8, GoesInStep

(* A thread without a client starts, ends, or turns the next client away:  *)
(* no client is elsewhere in its stream.                                   *)
LEMMA AloneInStep ==
  ASSUME NetInv, NEW n \in Num, thread[n].client = NoClient, NEW t \in ThreadType,
         thread' = [thread EXCEPT ![n] = t], t.client = NoClient, t.at \in {"none", "accept"},
         t.whole, t.pos = 0, t.size = 0, UNCHANGED <<client, inbox, outbox, upset>>,
         \/ UNCHANGED <<backlog, closed>>
         \/ backlog # <<>> /\ backlog' = Tail(backlog) /\ closed' = closed \cup {Head(backlog)}
  PROVE  NetInv'
<1>1. backlog \in Seq(Client) /\ closed \subseteq Client /\ IsInjective(backlog) /\ Range(backlog) \cap closed = {}
  BY DEF NetInv, NetTypes, OwnerInv
<1>2. /\ backlog' \in Seq(Client) /\ closed' \subseteq Client /\ IsInjective(backlog')
      /\ Range(backlog') \subseteq Range(backlog) /\ Range(backlog') \cap closed' = {}
      /\ Range(backlog') \cup closed' = Range(backlog) \cup closed
  <2>1. CASE UNCHANGED <<backlog, closed>>
    BY <1>1, <2>1
  <2>2. CASE backlog # <<>> /\ backlog' = Tail(backlog) /\ closed' = closed \cup {Head(backlog)}
    <3>1. /\ Head(backlog) \in Range(backlog) /\ Head(backlog) \in Client /\ backlog' \in Seq(Client)
          /\ IsInjective(backlog') /\ Range(backlog') = Range(backlog) \ {Head(backlog)}
      BY <1>1, <2>2, Tailed
    <3>2. QED
      BY <1>1, <2>2, <3>1
  <2>3. QED
    BY <2>1, <2>2
<1>3. \A m \in Num : thread'[m] = IF m = n THEN t ELSE thread[m]
  BY DEF NetInv, NetTypes
<1>4. NetTypes' /\ ProgressInv'
  BY <1>2, <1>3 DEF NetInv, NetTypes, ProgressInv
<1>5. NoClient \notin Range(backlog) \cup closed
  BY ClientAssumption DEF NetInv, NetTypes, Range
<1>6. OwnerInv'
  BY <1>2, <1>3, <1>5, ClientAssumption DEF NetInv, OwnerInv
<1>7. StreamInv'
  <2>1. \A m \in Num : (thread[m].client = NoClient => thread[m].whole)'
    BY <1>3 DEF NetInv, StreamInv
  <2>2. ASSUME NEW m \in Num, thread'[m].client \in Client \ upset' PROVE Stream(m)'
    <3>1. m # n /\ thread'[m] = thread[m]
      BY <1>3, <2>2, ClientAssumption
    <3>2. QED
      BY <2>2, <3>1, SameStream DEF NetInv, StreamInv, SameAt
  <2>3. \A d \in Range(backlog') \ upset' : Waits(d)' /\ Fresh(d)'
    BY <1>2, SameClient DEF NetInv, StreamInv, SameAt
  <2>4. \A d \in Client : client[d].at = "new" => inbox'[d] = <<>>
    BY DEF NetInv, StreamInv
  <2>5. \A d \in Client \ upset' : client[d].at # "half" /\ Ordered(d)'
    BY SameClient DEF NetInv, StreamInv, SameAt
  <2>6. QED
    BY <2>1, <2>2, <2>3, <2>4, <2>5 DEF StreamInv
<1>8. QED
  BY <1>4, <1>6, <1>7 DEF NetInv

(* AcceptClient: its thread starts where the client is in its stream. *)
LEMMA AcceptClientInStep ==
  ASSUME NetInv, NEW n \in Num, AcceptClient(n)
  PROVE  NetInv'
<1>1. /\ thread[n] \in ThreadType /\ thread[n].at = "accept" /\ thread[n].client = NoClient /\ thread[n].whole
      /\ thread[n].pos <= thread[n].size /\ thread[n].size \in {0, ReplyChunks}
  BY DEF AcceptClient, NetInv, NetTypes, OwnerInv, StreamInv, ProgressInv
<1>2. /\ backlog # <<>> /\ backlog' = Tail(backlog) /\ backlog \in Seq(Client)
      /\ UNCHANGED <<client, inbox, outbox, upset>>
  BY DEF AcceptClient, NetInv, NetTypes
<1>3. PICK c \in Client : c = Head(backlog)
  BY <1>2, Tailed
<1>4. /\ c \in Range(backlog) /\ Range(backlog') = Range(backlog) \ {c} /\ IsInjective(backlog')
      /\ backlog' \in Seq(Client)
  BY <1>2, <1>3, Tailed DEF NetInv, OwnerInv
<1>5. CASE c \in Barred
  <2> DEFINE t == [NoThread EXCEPT !.again = thread[n].again /\ MaxThreads = 1]
  <2>1. thread' = [thread EXCEPT ![n] = t] /\ closed' = closed \cup {Head(backlog)}
    BY <1>3, <1>5 DEF AcceptClient, SynchDeleteThread
  <2>2. t \in ThreadType /\ t.client = NoClient /\ t.at = "none" /\ t.whole /\ t.pos = 0 /\ t.size = 0
    BY ClearedThread
  <2> HIDE DEF t
  <2>3. QED
    BY <1>1, <1>2, <2>1, <2>2, AloneInStep
<1>6. CASE c \notin Barred
  <2> DEFINE t == [thread[n] EXCEPT !.at = "length", !.client = c]
  <2>1. thread' = [thread EXCEPT ![n] = t] /\ UNCHANGED closed
    BY <1>3, <1>6 DEF AcceptClient, Is
  <2>2. /\ t \in ThreadType /\ t.client = c /\ t.at = "length" /\ t.whole
        /\ t.pos = thread[n].pos /\ t.size = thread[n].size
    BY <1>1 DEF ThreadType, Place
  <2> HIDE DEF t
  <2>3. \A m \in Num : thread'[m] = IF m = n THEN t ELSE thread[m]
    BY <2>1 DEF NetInv, NetTypes
  <2>4. NetTypes' /\ ProgressInv'
    BY <1>1, <1>2, <1>4, <2>1, <2>2, <2>3 DEF NetInv, NetTypes, ProgressInv
  <2>5. c # NoClient /\ c \notin closed /\ client[c].at # "new" /\ \A m \in Num : thread[m].client # c
    BY <1>4, ClientAssumption DEF NetInv, OwnerInv
  <2>6. OwnerInv'
    BY <1>1, <1>2, <1>4, <2>1, <2>2, <2>3, <2>5 DEF NetInv, OwnerInv
  <2>7. c \notin upset => Waits(c)'
    BY <1>2, <1>4, SameClient DEF NetInv, StreamInv, SameAt
  <2>8. StreamInv'
    <3>1. \A m \in Num : (thread[m].client = NoClient => thread[m].whole)'
      BY <2>2, <2>3 DEF NetInv, StreamInv
    <3>2. ASSUME NEW m \in Num, thread'[m].client \in Client \ upset' PROVE Stream(m)'
      <4>1. CASE m = n
        BY <1>2, <2>2, <2>3, <2>7, <3>2, <4>1 DEF Stream
      <4>2. CASE m # n
        BY <1>2, <2>3, <3>2, <4>2, SameStream DEF NetInv, StreamInv, SameAt
      <4>3. QED
        BY <4>1, <4>2
    <3>3. \A d \in Range(backlog') \ upset' : Waits(d)' /\ Fresh(d)'
      BY <1>2, <1>4, SameClient DEF NetInv, StreamInv, SameAt
    <3>4. \A d \in Client : client'[d].at = "new" => inbox'[d] = <<>>
      BY <1>2 DEF NetInv, StreamInv
    <3>5. \A d \in Client \ upset' : client'[d].at # "half" /\ Ordered(d)'
      BY <1>2, SameClient DEF NetInv, StreamInv, SameAt
    <3>6. QED
      BY <3>1, <3>2, <3>3, <3>4, <3>5 DEF StreamInv
  <2>9. QED
    BY <2>4, <2>6, <2>8 DEF NetInv
<1>7. QED
  BY <1>5, <1>6

(* AcceptTimesOut: a thread that never had a client is gone. *)
LEMMA AcceptTimesOutInStep ==
  ASSUME NetInv, NEW n \in Num, AcceptTimesOut(n)
  PROVE  NetInv'
<1> DEFINE t == [NoThread EXCEPT !.again = thread[n].again /\ MaxThreads = 1]
<1>1. thread' = [thread EXCEPT ![n] = t] /\ UNCHANGED <<backlog, closed, client, inbox, outbox, upset>>
  BY DEF AcceptTimesOut, SynchDeleteThread, clientVars
<1>2. t \in ThreadType /\ t.client = NoClient /\ t.at = "none" /\ t.whole /\ t.pos = 0 /\ t.size = 0
  BY ClearedThread
<1> HIDE DEF t
<1>3. thread[n].client = NoClient
  BY DEF AcceptTimesOut, NetInv, OwnerInv
<1>4. QED
  BY <1>1, <1>2, <1>3, AloneInStep

(* Dispatch: the number is that of no thread, hence of no client. *)
LEMMA DispatchInStep ==
  ASSUME NetInv, IInv, Dispatch
  PROVE  NetInv'
<1>1. UNCHANGED <<backlog, closed, client, inbox, outbox, upset>>
  BY DEF Dispatch, clientVars
<1>2. idle # <<>>
  BY NumberIdle DEF Dispatch, RoomForThread
<1>3. PICK n \in Num : n = Head(idle) /\ n \notin Used
  BY <1>2, Drawn DEF IInv, Dispatch
<1> DEFINE none == [NoThread EXCEPT !.again = thread[n].again /\ MaxThreads = 1]
           t == [none EXCEPT !.at = "accept"]
<1>4. none \in ThreadType /\ none.client = NoClient /\ none.whole /\ none.pos = 0 /\ none.size = 0
  BY ClearedThread
<1>5. thread' = [thread EXCEPT ![n] = [NoThread EXCEPT !.at = "accept", !.again = MaxThreads = 1 /\ thread[n].again]]
  BY <1>2, <1>3 DEF Dispatch
<1>6. [NoThread EXCEPT !.at = "accept", !.again = MaxThreads = 1 /\ thread[n].again] = t
  BY DEF NoThread
<1> HIDE DEF none
<1>7. t \in ThreadType /\ t.client = NoClient /\ t.at = "accept" /\ t.whole /\ t.pos = 0 /\ t.size = 0
  BY <1>4 DEF ThreadType, Place
<1>8. thread[n].client = NoClient
  BY <1>3 DEF Used, NetInv, OwnerInv
<1> HIDE DEF t
<1>9. QED
  BY <1>1, <1>5, <1>6, <1>7, <1>8, AloneInStep

(* The client goes on in its stream, and the thread is still right. *)
KeepsStep(c) ==
  /\ Waits(c) => Waits(c)'
  /\ BeforeBody(c) /\ Fresh(c) => BeforeBody(c)' /\ Fresh(c)'
  /\ AfterBody(c) /\ Fresh(c) => AfterBody(c)' /\ Fresh(c)'
  /\ Waits(c) /\ Fresh(c) => Waits(c)' /\ Fresh(c)'
  /\ \A pos \in 0..ReplyChunks : pos < ReplyChunks /\ Sent(c, pos) =>
       Sent(c, pos)' /\ (AfterBody(c) => AfterBody(c)')
  /\ Ordered(c)' /\ client'[c].at # "half"

(* A client that does something the server has no part in. *)
LEMMA ClientInStep ==
  ASSUME NetInv, NEW c \in Client, client[c].at # "new", client'[c].at # "new",
         UNCHANGED <<thread, backlog, closed>>, AtMost(c), c \notin upset' => KeepsStep(c)
  PROVE  NetInv'
<1>1. NetTypes' /\ ProgressInv'
  BY DEF NetInv, NetTypes, ProgressInv, AtMost
<1>2. OwnerInv'
  BY DEF NetInv, OwnerInv, AtMost, SameAt
<1>3. StreamInv'
  <2>1. \A m \in Num : (thread[m].client = NoClient => thread[m].whole)'
    BY DEF NetInv, StreamInv
  <2>2. ASSUME NEW m \in Num, thread[m].client \in Client \ upset' PROVE Stream(m)'
    <3>1. thread'[m] = thread[m] /\ Stream(m)
      BY <2>2 DEF NetInv, StreamInv, AtMost
    <3>2. CASE thread[m].client # c
      BY <2>2, <3>1, <3>2, SameStream DEF AtMost
    <3>3. CASE thread[m].client = c
      <4>1. PICK pos \in 0..ReplyChunks : pos = thread[m].pos /\ thread[m].size \in {0, ReplyChunks}
        BY DEF NetInv, NetTypes, ProgressInv, ThreadType
      <4>2. thread[m].pos < thread[m].size => pos < ReplyChunks
        BY <4>1, SizeAssumption
      <4>3. KeepsStep(c)
        BY <2>2, <3>3
      <4>4. QED
        BY <3>1, <3>3, <4>1, <4>2, <4>3 DEF Stream, KeepsStep
    <3>4. QED
      BY <3>2, <3>3
  <2>3. ASSUME NEW d \in Range(backlog) \ upset' PROVE Waits(d)' /\ Fresh(d)'
    <3>1. d \in Client /\ Waits(d) /\ Fresh(d)
      BY <2>3, SMTT(30) DEF NetInv, NetTypes, StreamInv, AtMost, Range
    <3>2. CASE d = c
      BY <2>3, <3>1, <3>2 DEF KeepsStep
    <3>3. CASE d # c
      BY <3>1, <3>3, SameClient DEF AtMost
    <3>4. QED
      BY <3>2, <3>3
  <2>4. \A d \in Client : client'[d].at = "new" => inbox'[d] = <<>>
    BY DEF NetInv, StreamInv, AtMost, SameAt
  <2>5. ASSUME NEW d \in Client \ upset' PROVE client'[d].at # "half" /\ Ordered(d)'
    <3>1. CASE d = c
      BY <2>5, <3>1 DEF KeepsStep
    <3>2. CASE d # c
      BY <2>5, <3>2, SameClient DEF NetInv, StreamInv, AtMost, SameAt
    <3>3. QED
      BY <3>1, <3>2
  <2>6. QED
    BY <2>1, <2>2, <2>3, <2>4, <2>5 DEF StreamInv
<1>4. QED
  BY <1>1, <1>2, <1>3 DEF NetInv

(* Puts: what a client sends. *)
LEMMA PutsAtMost ==
  ASSUME NetInv, NEW c \in Client, NEW token \in Token, NEW place \in {"half", "sending", "waiting"},
         Puts(c, token, place),
         upset' = upset \/ upset' = upset \cup {c}
  PROVE  /\ AtMost(c) /\ UNCHANGED <<thread, backlog, closed, outbox>>
         /\ inbox'[c] = Append(inbox[c], token) /\ client'[c].at = place /\ client'[c].got = client[c].got
<1> DEFINE h == [client[c] EXCEPT !.at = place]
<1>1. /\ client[c] \in ClientType /\ client[c].got < ReplyChunks /\ inbox[c] \in Seq(Token)
      /\ client \in [Client -> ClientType] /\ inbox \in [Client -> Seq(Token)]
      /\ outbox \in [Client -> Seq(1..ReplyChunks)]
  BY DEF NetInv, NetTypes, ProgressInv
<1>2. h \in ClientType /\ h.at = place /\ h.got = client[c].got
  BY <1>1 DEF ClientType
<1>3. client' = [client EXCEPT ![c] = h] /\ UNCHANGED <<thread, backlog, closed, outbox>>
      /\ inbox' = [inbox EXCEPT ![c] = Append(inbox[c], token)]
  BY <1>1 DEF Puts
<1> HIDE DEF h
<1>4. Append(inbox[c], token) \in Seq(Token)
  BY <1>1, Appended
<1>5. QED
  BY <1>1, <1>2, <1>3, <1>4 DEF AtMost, SameAt, NetInv, ProgressInv

(* One token more. *)
LEMMA OneMore ==
  ASSUME NEW l \in Token
  PROVE  Append(<<>>, l) = <<l>> /\ Append(<<l>>, "body") = <<l, "body">>
<1>1. "body" \in Token
  BY DEF Token
<1>2. /\ <<>> \in Seq(Token) /\ Len(<<>>) = 0 /\ <<l>> \in Seq(Token) /\ Len(<<l>>) = 1 /\ <<l>>[1] = l
      /\ <<l, "body">> \in Seq(Token) /\ Len(<<l, "body">>) = 2
      /\ <<l, "body">>[1] = l /\ <<l, "body">>[2] = "body"
  BY <1>1
<1>3. Append(<<>>, l) = <<l>>
  <2>1. Append(<<>>, l) \in Seq(Token) /\ Len(Append(<<>>, l)) = 1 /\ Append(<<>>, l)[1] = l
    BY <1>2, AppendProperties
  <2>2. \A i \in 1..1 : Append(<<>>, l)[i] = <<l>>[i]
    BY <1>2, <2>1
  <2>3. QED
    BY <1>2, <2>1, <2>2, SeqEqual
<1>4. Append(<<l>>, "body") = <<l, "body">>
  <2>1. /\ Append(<<l>>, "body") \in Seq(Token) /\ Len(Append(<<l>>, "body")) = 2
        /\ Append(<<l>>, "body")[1] = l /\ Append(<<l>>, "body")[2] = "body"
    BY <1>1, <1>2, AppendProperties
  <2>2. \A i \in 1..2 : i = 1 \/ i = 2
    OBVIOUS
  <2>3. \A i \in 1..2 : Append(<<l>>, "body")[i] = <<l, "body">>[i]
    BY <1>2, <2>1, <2>2
  <2>4. QED
    BY <1>2, <2>1, <2>3, SeqEqual
<1>5. QED
  BY <1>3, <1>4

(* SendLength: a request begins when the reply before it was read. *)
LEMMA SendLengthInStep ==
  ASSUME NetInv, NEW c \in Client, SendLength(c)
  PROVE  NetInv'
<1>1. PICK l \in {"len", "big"} : Puts(c, l, "sending")
  BY RequestAssumption DEF SendLength
<1>2. /\ client[c].at = "idle" /\ upset' = upset
      /\ c \notin upset => Ordered(c)
  BY DEF SendLength, MayAsk, NetInv, StreamInv
<1>3. /\ AtMost(c) /\ UNCHANGED <<thread, backlog, closed, outbox>>
      /\ inbox'[c] = Append(inbox[c], l) /\ client'[c].at = "sending" /\ client'[c].got = client[c].got
  BY <1>1, <1>2, PutsAtMost DEF Token
<1>4. ASSUME c \notin upset' PROVE KeepsStep(c)
  <2>1. Fresh(c) /\ Fresh(c)' /\ outbox[c] = <<>>
    BY <1>2, <1>3, <1>4 DEF Ordered, Fresh
  <2>2. Waits(c) => Waits(c)'
    <3>1. Waits(c) => inbox[c] = <<>>
      BY <1>2 DEF Waits, BetweenRequests
    <3>2. inbox[c] = <<>> => inbox'[c] = <<l>>
      BY <1>3, OneMore DEF Token
    <3>3. QED
      BY <1>3, <2>1, <3>1, <3>2 DEF Waits, BetweenRequests
  <2>3. ~BeforeBody(c) /\ ~AfterBody(c) /\ \A pos : ~Sent(c, pos)
    BY <1>2 DEF BeforeBody, AfterBody, Sent
  <2>4. Ordered(c)'
    BY <1>2, <1>3, <1>4 DEF Ordered
  <2>5. QED
    BY <1>3, <2>1, <2>2, <2>3, <2>4 DEF KeepsStep
<1>5. QED
  BY <1>2, <1>3, <1>4, ClientInStep

(* SendHalf: a pause within a length is counted. *)
LEMMA SendHalfInStep ==
  ASSUME NetInv, NEW c \in Client, SendHalf(c)
  PROVE  NetInv'
<1>1. client[c].at = "idle" /\ upset' = upset \cup {c} /\ Puts(c, "half", "half")
  BY DEF SendHalf, MayAsk
<1>2. AtMost(c) /\ UNCHANGED <<thread, backlog, closed, outbox>> /\ client'[c].at = "half"
  BY <1>1, PutsAtMost DEF Token
<1>3. QED
  BY <1>1, <1>2, ClientInStep

(* SendRest: and so was the pause that this ends. *)
LEMMA SendRestInStep ==
  ASSUME NetInv, NEW c \in Client, SendRest(c)
  PROVE  NetInv'
<1>1. client[c].at = "half" /\ upset' = upset /\ Puts(c, "half", "sending")
  BY DEF SendRest
<1>2. AtMost(c) /\ UNCHANGED <<thread, backlog, closed, outbox>> /\ client'[c].at = "sending"
  BY <1>1, PutsAtMost DEF Token
<1>3. c \in upset
  BY <1>1 DEF NetInv, StreamInv
<1>4. QED
  BY <1>1, <1>2, <1>3, ClientInStep

(* SendBody: the body follows its length, read or not. *)
LEMMA SendBodyInStep ==
  ASSUME NetInv, NEW c \in Client, SendBody(c)
  PROVE  NetInv'
<1>1. /\ client[c].at = "sending" /\ upset' = upset /\ Puts(c, "body", "waiting")
      /\ c \notin upset => Ordered(c)
  BY DEF SendBody, NetInv, StreamInv
<1>2. /\ AtMost(c) /\ UNCHANGED <<thread, backlog, closed, outbox>>
      /\ inbox'[c] = Append(inbox[c], "body") /\ client'[c].at = "waiting" /\ client'[c].got = client[c].got
  BY <1>1, PutsAtMost DEF Token
<1>3. ASSUME c \notin upset' PROVE KeepsStep(c)
  <2>1. Fresh(c) => Fresh(c)'
    BY <1>1, <1>2 DEF Fresh
  <2>2. Waits(c) => Waits(c)'
    <3>1. Waits(c) => Fresh(c) /\ \E l \in {"len", "big"} : inbox[c] = <<l>>
      BY <1>1 DEF Waits, BetweenRequests
    <3>2. \A l \in {"len", "big"} : inbox[c] = <<l>> => inbox'[c] = <<l, "body">>
      BY <1>2, OneMore DEF Token
    <3>3. QED
      BY <1>2, <2>1, <3>1, <3>2 DEF Waits, BetweenRequests
  <2>3. BeforeBody(c) => BeforeBody(c)'
    BY <1>1, <1>2, OneMore DEF BeforeBody, Token
  <2>4. ~AfterBody(c) /\ \A pos \in 0..ReplyChunks : Sent(c, pos) => Sent(c, pos)'
    BY <1>1, <1>2 DEF AfterBody, Sent
  <2>5. Ordered(c)'
    BY <1>1, <1>2, <1>3 DEF Ordered
  <2>6. QED
    BY <1>2, <2>1, <2>2, <2>3, <2>4, <2>5 DEF KeepsStep
<1>4. QED
  BY <1>1, <1>2, <1>3, ClientInStep

(* ReadReply: reading moves the client on and takes from the socket, and   *)
(* the last chunk of a reply is the last that the socket has.              *)
LEMMA ReadReplyInStep ==
  ASSUME NetInv, NEW c \in Client, ReadReply(c)
  PROVE  NetInv'
<1> DEFINE got == client[c].got + 1
           last == got = ReplyChunks
           h == [client[c] EXCEPT !.at = IF last THEN "idle" ELSE "waiting",
                                  !.got = IF last THEN 0 ELSE got]
<1>1. /\ client[c] \in ClientType /\ client[c].got < ReplyChunks /\ client[c].at = "waiting"
      /\ outbox[c] \in Seq(1..ReplyChunks) /\ outbox[c] # <<>> /\ (c \notin upset => Ordered(c))
      /\ client \in [Client -> ClientType] /\ outbox \in [Client -> Seq(1..ReplyChunks)]
  BY DEF ReadReply, NetInv, NetTypes, ProgressInv, StreamInv
<1>2. UNCHANGED <<thread, backlog, inbox, closed, upset>> /\ outbox' = [outbox EXCEPT ![c] = Tail(outbox[c])]
  BY DEF ReadReply
<1>3. client' = [client EXCEPT ![c] = h]
  BY <1>1 DEF ReadReply
<1>4. got \in Nat /\ ReplyChunks \in Nat /\ got <= ReplyChunks /\ 0 \in 0..ReplyChunks
  BY <1>1, SizeAssumption DEF ClientType
<1>5. /\ h \in ClientType /\ h.at = (IF last THEN "idle" ELSE "waiting")
      /\ h.got = (IF last THEN 0 ELSE got) /\ h.got < ReplyChunks
  <2> DEFINE place == IF last THEN "idle" ELSE "waiting"
             g == IF last THEN 0 ELSE got
  <2>1. place \in {"idle", "waiting"} /\ g \in 0..ReplyChunks /\ g < ReplyChunks
    BY <1>4, SizeAssumption
  <2>2. h = [client[c] EXCEPT !.at = place, !.got = g]
    OBVIOUS
  <2> HIDE DEF place, g, h
  <2>3. h \in ClientType /\ h.at = place /\ h.got = g
    BY <1>1, <2>1, <2>2 DEF ClientType
  <2>4. QED
    BY <2>1, <2>3 DEF place, g
<1> HIDE DEF h
<1>6. /\ Tail(outbox[c]) \in Seq(1..ReplyChunks) /\ Len(outbox[c]) \in Nat \ {0}
      /\ Len(Tail(outbox[c])) = Len(outbox[c]) - 1
      /\ \A i \in 1..(Len(outbox[c]) - 1) : Tail(outbox[c])[i] = outbox[c][i + 1]
      /\ DOMAIN outbox[c] = 1..Len(outbox[c]) /\ DOMAIN Tail(outbox[c]) = 1..(Len(outbox[c]) - 1)
  <2>1. Tail(outbox[c]) \in Seq(1..ReplyChunks) /\ Len(Tail(outbox[c])) = Len(outbox[c]) - 1
        /\ \A i \in 1..(Len(outbox[c]) - 1) : Tail(outbox[c])[i] = outbox[c][i + 1]
    BY <1>1, HeadTailProperties
  <2>2. Len(outbox[c]) \in Nat \ {0}
    BY <1>1, EmptySeq
  <2>3. QED
    BY <1>1, <2>1, <2>2, LenProperties
<1>7. AtMost(c) /\ outbox'[c] = Tail(outbox[c]) /\ client'[c] = h
  BY <1>1, <1>2, <1>3, <1>5, <1>6 DEF AtMost, SameAt, NetInv, NetTypes, ProgressInv
<1>8. ASSUME c \notin upset' PROVE KeepsStep(c)
  <2>1. /\ \A i \in 1..Len(outbox[c]) : outbox[c][i] = client[c].got + i
        /\ client[c].got + Len(outbox[c]) <= ReplyChunks
    BY <1>1, <1>2, <1>6, <1>8 DEF Ordered
  <2>2. last => Len(outbox[c]) = 1 /\ Tail(outbox[c]) = <<>>
    <3>1. last => Len(outbox[c]) = 1
      BY <1>1, <1>4, <1>6, <2>1 DEF ClientType
    <3>2. Len(Tail(outbox[c])) = 0 => Tail(outbox[c]) = <<>>
      BY <1>6, EmptySeq
    <3>3. QED
      BY <1>6, <3>1, <3>2
  <2>3. ~Fresh(c)
    BY <1>1 DEF Fresh
  <2>4. Waits(c) => Waits(c)'
    BY <1>1, <1>2, <1>5, <1>7, <2>3 DEF Waits, BetweenRequests
  <2>5. ASSUME NEW pos \in 0..ReplyChunks, pos < ReplyChunks, Sent(c, pos)
        PROVE  Sent(c, pos)' /\ (AfterBody(c) => AfterBody(c)')
    <3>1. pos = client[c].got + Len(outbox[c])
      BY <1>1, <2>5 DEF Sent
    <3>2. ~last
      BY <1>1, <1>6, <2>2, <2>5, <3>1 DEF ClientType
    <3>3. pos = got + (Len(outbox[c]) - 1)
      BY <1>1, <1>6, <3>1 DEF ClientType
    <3>4. QED
      BY <1>2, <1>5, <1>6, <1>7, <3>2, <3>3 DEF Sent, AfterBody
  <2>6. Ordered(c)'
    <3>1. CASE last
      <4>1. outbox'[c] = <<>> /\ client'[c].got = 0 /\ client'[c].at = "idle"
        BY <1>5, <1>7, <2>2, <3>1
      <4>2. Len(outbox'[c]) = 0 /\ DOMAIN outbox'[c] = {}
        BY <4>1
      <4>3. QED
        BY <4>1, <4>2, SizeAssumption DEF Ordered, Fresh
    <3>2. CASE ~last
      <4>1. ASSUME NEW i \in 1..(Len(outbox[c]) - 1) PROVE Tail(outbox[c])[i] = got + i
        <5>1. i + 1 \in 1..Len(outbox[c]) /\ client[c].got + (i + 1) = got + i
          BY <1>1, <1>6 DEF ClientType
        <5>2. QED
          BY <1>6, <2>1, <5>1
      <4>2. got + Len(Tail(outbox[c])) <= ReplyChunks
        BY <1>1, <1>6, <2>1 DEF ClientType
      <4>3. QED
        BY <1>5, <1>6, <1>7, <3>2, <4>1, <4>2 DEF Ordered
    <3>3. QED
      BY <3>1, <3>2
  <2>7. QED
    BY <1>5, <1>7, <2>3, <2>4, <2>5, <2>6 DEF KeepsStep
<1>9. QED
  BY <1>1, <1>2, <1>5, <1>7, <1>8, ClientInStep

(* Leave: nothing more is expected of a client that has left. *)
LEMMA LeaveInStep ==
  ASSUME NetInv, NEW c \in Client, Leave(c)
  PROVE  NetInv'
<1> DEFINE h == [at |-> "left", got |-> 0]
<1>1. /\ client[c].at # "new" /\ client' = [client EXCEPT ![c] = h]
      /\ UNCHANGED <<thread, backlog, inbox, outbox, closed, upset>>
  BY DEF Leave
<1>2. h \in ClientType /\ h.at = "left" /\ h.got < ReplyChunks
  BY SizeAssumption, RequestAssumption DEF ClientType
<1> HIDE DEF h
<1>3. AtMost(c) /\ client'[c] = h
  BY <1>1, <1>2 DEF AtMost, SameAt, NetInv, NetTypes, ProgressInv
<1>4. ASSUME c \notin upset' PROVE KeepsStep(c)
  BY <1>1, <1>2, <1>3
     DEF KeepsStep, Waits, BetweenRequests, BeforeBody, AfterBody, Fresh, Sent, Ordered, ClientType
<1>5. QED
  BY <1>1, <1>2, <1>3, <1>4, ClientInStep

(* Connect: a client that is new waits to be accepted. *)
LEMMA ConnectInStep ==
  ASSUME NetInv, NEW c \in Client, Connect(c)
  PROVE  NetInv'
<1> DEFINE h == [client[c] EXCEPT !.at = "idle"]
<1>1. /\ client[c] \in ClientType /\ client[c].at = "new" /\ client[c].got < ReplyChunks
      /\ inbox[c] = <<>> /\ (c \notin upset => Ordered(c)) /\ backlog \in Seq(Client)
      /\ c \notin Range(backlog) \cup closed /\ (\A n \in Num : thread[n].client # c) /\ IsInjective(backlog)
  BY DEF Connect, NetInv, NetTypes, ProgressInv, OwnerInv, StreamInv
<1>2. /\ client' = [client EXCEPT ![c] = h] /\ backlog' = Append(backlog, c)
      /\ UNCHANGED <<thread, inbox, outbox, closed, upset>>
  BY DEF Connect
<1>3. h \in ClientType /\ h.at = "idle" /\ h.got = client[c].got
  BY <1>1 DEF ClientType
<1> HIDE DEF h
<1>4. backlog' \in Seq(Client) /\ Range(backlog') = Range(backlog) \cup {c} /\ IsInjective(backlog')
  BY <1>1, <1>2, Appended
<1>5. \A d \in Client : client'[d] = IF d = c THEN h ELSE client[d]
  BY <1>2 DEF NetInv, NetTypes
<1>6. NetTypes' /\ ProgressInv'
  BY <1>1, <1>2, <1>3, <1>4, <1>5 DEF NetInv, NetTypes, ProgressInv
<1>7. OwnerInv'
  BY <1>1, <1>2, <1>3, <1>4, <1>5 DEF NetInv, OwnerInv
<1>8. StreamInv'
  <2>1. \A m \in Num : (thread[m].client = NoClient => thread[m].whole)'
    BY <1>2 DEF NetInv, StreamInv
  <2>2. ASSUME NEW m \in Num, thread'[m].client \in Client \ upset' PROVE Stream(m)'
    BY <1>1, <1>2, <1>5, <2>2, SameStream DEF NetInv, StreamInv, SameAt
  <2>3. ASSUME c \notin upset' PROVE Waits(c)' /\ Fresh(c)' /\ Ordered(c)'
    <3>1. Fresh(c) /\ outbox[c] = <<>> /\ client[c].got = 0
      BY <1>1, <1>2, <2>3 DEF Ordered, Fresh
    <3>2. QED
      BY <1>1, <1>2, <1>3, <1>5, <2>3, <3>1 DEF Ordered, Fresh, Waits, BetweenRequests
  <2>4. \A d \in Client \ {c} : SameAt(d)
    BY <1>2, <1>5 DEF SameAt
  <2>5. ASSUME NEW d \in Range(backlog') \ upset' PROVE Waits(d)' /\ Fresh(d)'
    <3>1. CASE d = c
      BY <2>3, <2>5, <3>1
    <3>2. CASE d # c
      <4>1. d \in Client \ {c} /\ d \in Range(backlog) \ upset
        BY <1>2, <1>4, <2>5, <3>2 DEF NetInv, NetTypes, Range
      <4>2. QED
        BY <2>4, <4>1, SameClient DEF NetInv, StreamInv
    <3>3. QED
      BY <3>1, <3>2
  <2>6. \A d \in Client : client'[d].at = "new" => inbox'[d] = <<>>
    BY <1>2, <1>3, <1>5 DEF NetInv, StreamInv
  <2>7. ASSUME NEW d \in Client \ upset' PROVE client'[d].at # "half" /\ Ordered(d)'
    <3>1. CASE d = c
      BY <1>3, <1>5, <2>3, <2>7, <3>1
    <3>2. CASE d # c
      BY <1>2, <1>5, <2>4, <2>7, <3>2, SameClient DEF NetInv, StreamInv
    <3>3. QED
      BY <3>1, <3>2
  <2>8. QED
    BY <2>1, <2>2, <2>5, <2>6, <2>7 DEF StreamInv
<1>9. QED
  BY <1>6, <1>7, <1>8 DEF NetInv

(* The clients that connect first wait each once. *)
LEMMA InitInStep ==
  ASSUME Init
  PROVE  NetInv
<1>1. IsFiniteSet(Early) /\ Early \subseteq Client
  BY ClientAssumption, FS_Subset
<1>2. backlog \in Seq(Early) /\ IsInjective(backlog)
  BY <1>1, Listed DEF Init
<1>3. /\ thread = [n \in Num |-> NoThread] /\ closed = {} /\ upset = {}
      /\ client = [c \in Client |-> [at |-> IF c \in Early THEN "idle" ELSE "new", got |-> 0]]
      /\ inbox = [c \in Client |-> <<>>] /\ outbox = [c \in Client |-> <<>>]
  BY DEF Init
<1>4. \A n \in Num : thread[n] = NoThread
  BY <1>3
<1>5. /\ NoThread \in ThreadType /\ NoThread.client = NoClient /\ NoThread.at = "none" /\ NoThread.whole
      /\ NoThread.pos = 0 /\ NoThread.size = 0
  BY SizeAssumption DEF NoThread, ThreadType, Place
<1>6. \A c \in Client : /\ client[c] \in ClientType /\ client[c].got = 0
                        /\ client[c].at = IF c \in Early THEN "idle" ELSE "new"
  BY <1>3, SizeAssumption, RequestAssumption DEF ClientType
<1>7. backlog \in Seq(Client) /\ Range(backlog) \subseteq Early
  <2>1. \A i \in DOMAIN backlog : backlog[i] \in Early
    BY <1>2, Indices
  <2>2. QED
    BY <1>1, <1>2, <2>1 DEF Range
<1>8. NetTypes
  <2>1. <<>> \in Seq(Token) /\ <<>> \in Seq(1..ReplyChunks)
    BY EmptySeq
  <2>2. client \in [Client -> ClientType] /\ thread \in [Num -> ThreadType]
    BY <1>3, <1>4, <1>5, <1>6
  <2>3. QED
    BY <1>3, <1>7, <2>1, <2>2 DEF NetTypes
<1>9. ProgressInv
  BY <1>4, <1>5, <1>6, SizeAssumption DEF ProgressInv
<1>10. OwnerInv
  BY <1>2, <1>3, <1>4, <1>5, <1>6, <1>7, ClientAssumption DEF OwnerInv
<1>11. StreamInv
  <2>1. \A c \in Client : inbox[c] = <<>> /\ outbox[c] = <<>> /\ Fresh(c)
    BY <1>3, <1>6 DEF Fresh
  <2>2. \A c \in Client : Ordered(c)
    BY <1>6, <2>1, SizeAssumption DEF Ordered
  <2>3. \A c \in Range(backlog) : Waits(c) /\ Fresh(c)
    BY <1>1, <1>6, <1>7, <2>1 DEF Waits, BetweenRequests
  <2>4. QED
    BY <1>4, <1>5, <1>6, <2>1, <2>2, <2>3, ClientAssumption DEF StreamInv
<1>12. QED
  BY <1>8, <1>9, <1>10, <1>11 DEF NetInv

(* Every step of a thread keeps its client in step. *)
LEMMA RunsInStep ==
  ASSUME NetInv, NEW n \in Num, Runs(n) \/ Elapse(n)
  PROVE  NetInv'
  BY AcceptClientInStep, AcceptTimesOutInStep, ReadLengthInStep, ReadBodyInStep, ReadNothingInStep,
     QueryInStep, SendChunksInStep, SendFailsInStep, SendDoneInStep, ElapseInStep DEF Runs

(* The sockets are as they were. *)
LEMMA NetStays ==
  ASSUME NetInv, UNCHANGED <<thread, backlog, client, inbox, outbox, closed, upset>>
  PROVE  NetInv'
  BY DEF NetInv, NetTypes, ProgressInv, OwnerInv, StreamInv, Stream, Ordered, Waits, BetweenRequests,
         BeforeBody, AfterBody, Fresh, Sent

(* Every step keeps what goes over the sockets right. *)
LEMMA NextInStep ==
  ASSUME NetInv, IInv, [Next]_vars
  PROVE  NetInv'
<1>1. CASE UNCHANGED vars
  BY <1>1, NetStays DEF vars, clientVars
<1>2. CASE StopSeen \/ Finish \/ Stop \/ DispatchFails
  BY <1>2, NetStays DEF StopSeen, Finish, Stop, DispatchFails, clientVars
<1>3. CASE Dispatch
  BY <1>3, DispatchInStep
<1>4. ASSUME NEW n \in Num, Runs(n) \/ Elapse(n) PROVE NetInv'
  BY <1>4, RunsInStep
<1>5. ASSUME NEW c \in Client,
             \/ Connect(c) \/ SendLength(c) \/ SendHalf(c) \/ SendRest(c) \/ SendBody(c)
             \/ ReadReply(c) \/ Leave(c)
      PROVE  NetInv'
  BY <1>5, ConnectInStep, SendLengthInStep, SendHalfInStep, SendRestInStep, SendBodyInStep,
     ReadReplyInStep, LeaveInStep
<1>6. QED
  BY <1>1, <1>2, <1>3, <1>4, <1>5 DEF Next, Main

(* The main thread's own variables have their types. *)
LEMMA ServerTyped ==
  ASSUME ServerTypes, [Next]_vars
  PROVE  ServerTypes'
<1>1. ASSUME NEW n \in Num, idle' = idle \/ idle' = Append(idle, n), started' = started PROVE ServerTypes'
  BY <1>1, Appended DEF ServerTypes
<1>2. CASE UNCHANGED vars
  BY <1>2 DEF vars, serverVars, ServerTypes
<1>3. CASE Main
  <2>1. started' = started
    BY <1>3 DEF Main, Dispatch, StopSeen, Finish
  <2>2. idle' = idle \/ idle' = <<>> \/ (idle # <<>> /\ idle' = Tail(idle))
    BY <1>3 DEF Main, Dispatch, StopSeen, Finish
  <2>3. <<>> \in Seq(Num) /\ (idle \in Seq(Num) /\ idle # <<>> => Tail(idle) \in Seq(Num))
    BY EmptySeq, Tailed
  <2>4. QED
    BY <2>1, <2>2, <2>3 DEF ServerTypes
<1>4. CASE Stop
  BY <1>4 DEF Stop, ServerTypes
<1>5. CASE DispatchFails
  BY <1>5, Tailed, Appended DEF DispatchFails, ServerTypes
<1>6. ASSUME NEW n \in Num, Runs(n) \/ Elapse(n) PROVE ServerTypes'
  <2>1. (idle' = idle \/ idle' = Append(idle, n)) /\ started' = started
    BY <1>6 DEF Runs, Elapse, serverVars, AcceptClient, AcceptTimesOut, ReadLength, ReadBody, ReadNothing, Query,
       SendChunks, SendFails, SendDone, SynchDeleteThread, Is, Failed, Close
  <2>2. QED
    BY <1>1, <2>1
<1>7. ASSUME NEW c \in Client,
             \/ Connect(c) \/ SendLength(c) \/ SendHalf(c) \/ SendRest(c) \/ SendBody(c)
             \/ ReadReply(c) \/ Leave(c)
      PROVE  ServerTypes'
  BY <1>7 DEF Connect, SendLength, SendHalf, SendRest, SendBody, ReadReply, Leave, Puts, serverVars, ServerTypes
<1>8. QED
  BY <1>2, <1>3, <1>4, <1>5, <1>6, <1>7 DEF Next

(* Threads, clients and sockets are in step, in every state. *)
THEOREM StreamsInvariance == Spec => [](ServerTypes /\ NetInv)
<1>1. Init => ServerTypes /\ NetInv
  <2>1. ASSUME Init PROVE ServerTypes
    BY <2>1, InitKeeps DEF ServerTypes, Init, IInv, Complete
  <2>2. QED
    BY <2>1, InitInStep
<1>2. ServerTypes /\ NetInv /\ IInv /\ [Next]_vars => (ServerTypes /\ NetInv)'
  BY NextInStep, ServerTyped
<1>3. QED
  BY <1>1, <1>2, Invariance, PTL DEF Spec

(* TypeOK: with every buffer, counter and queue within its bounds, however *)
(* sends and receives fail (SynchSend, SynchReceive).                      *)
THEOREM TypesKept == Spec => []TypeOK
<1>1. ServerTypes /\ NetInv /\ IInv => TypeOK
  <2>1. ASSUME IInv PROVE threadNum \in 0..MaxThreads /\ main \in {"loop", "wait", "end", "dead"}
    <3>1. Used \subseteq Num
      BY DEF Used
    <3>2. Cardinality(Used) <= MaxThreads
      BY <3>1, NumFinite, FS_Subset
    <3>3. QED
      BY <2>1, <3>2, SizeAssumption DEF IInv
  <2>2. QED
    BY <2>1 DEF TypeOK, ServerTypes, NetInv, NetTypes, ThreadType, ClientType, Token
<1>2. QED
  BY <1>1, StreamsInvariance, Invariance, PTL

(* InStep: what a thread reads as a request is one, unless its client      *)
(* paused within one (SynchReceive, SynchAcceptAndQuery).                  *)
THEOREM ThreadsStayInStep == Spec => []InStep
<1>1. NetInv => InStep
  BY DEF NetInv, NetTypes, ThreadType, StreamInv, Stream, InStep
<1>2. QED
  BY <1>1, StreamsInvariance, PTL

(* RepliesInOrder: a client that reads gets every chunk of a reply once,   *)
(* and in order (SynchSend).                                               *)
THEOREM RepliesComeInOrder == Spec => []RepliesInOrder
<1>1. NetInv => RepliesInOrder
  <2> SUFFICES ASSUME NetInv, NEW c \in Client \ upset, client[c].at # "left", NEW i \in DOMAIN outbox[c]
               PROVE  outbox[c][i] = ((client[c].got + i - 1) % ReplyChunks) + 1
    BY DEF RepliesInOrder
  <2>1. client[c] \in ClientType /\ outbox[c] \in Seq(1..ReplyChunks) /\ Ordered(c)
    BY DEF NetInv, NetTypes, StreamInv
  <2>2. /\ client[c].got \in Nat /\ i \in Nat \ {0} /\ i <= Len(outbox[c]) /\ Len(outbox[c]) \in Nat
        /\ ReplyChunks \in Nat \ {0}
    BY <2>1, LenProperties, SizeAssumption DEF ClientType
  <2>3. outbox[c][i] = client[c].got + i /\ client[c].got + i <= ReplyChunks
    BY <2>1, <2>2 DEF Ordered
  <2> DEFINE x == client[c].got + i - 1
  <2>4. x \in 0..(ReplyChunks - 1)
    BY <2>2, <2>3
  <2>5. \A y \in 0..(ReplyChunks - 1) : y % ReplyChunks = y
    BY <2>2, SMTT(30)
  <2>6. QED
    BY <2>2, <2>3, <2>4, <2>5
<1>2. QED
  BY <1>1, StreamsInvariance, PTL
=============================================================================
