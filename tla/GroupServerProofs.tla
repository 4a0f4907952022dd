------------------------- MODULE GroupServerProofs -------------------------
(***************************************************************************)
(* Proofs about GroupServer, for every number of worker threads, limit on  *)
(* connections, set of clients and behaviour of theirs.                    *)
(***************************************************************************)
EXTENDS GroupServer, QueueFacts

Place == {"start", "lock", "asleep", "serve", "drain", "spin", "dead", "crashed", "exit"}
WorkerType == [at : Place, todo : Seq(Slot)]
PoolType == [keys : Seq(Slot), freed : Seq(Slot), capacity : 0..MaxConnections]
ConnType == [client : Client \cup {NoClient}, status : Status,
             left : 0..ReplyChunks, late : BOOLEAN]
-----------------------------------------------------------------------------
(* A group's pool of connections (CQueue). *)

(* The slots that were ever used are in use or freed. *)
PoolFits(p) ==
  /\ p \in PoolType
  /\ IsInjective(p.keys) /\ IsInjective(p.freed) /\ Range(p.keys) \cap Range(p.freed) = {}
  /\ Range(p.keys) \cup Range(p.freed) = 1..(Len(p.keys) + Len(p.freed))
  /\ Len(p.keys) + Len(p.freed) <= p.capacity

(* A pool that is not full has room for one more, or grows. *)
LEMMA GrownFits ==
  ASSUME NEW p \in PoolType, Len(p.keys) < MaxConnections, Len(p.keys) <= p.capacity
  PROVE  Grown(p) \in 0..MaxConnections /\ Len(p.keys) < Grown(p)
<1> DEFINE n == Len(p.keys)
           more == ((n + 1) * 3) \div 2
<1>1. n \in Nat /\ p.capacity \in 0..MaxConnections /\ MaxConnections \in Nat
  BY LenProperties, SizeAssumption DEF PoolType
<1>2. Grown(p) = IF more < p.capacity THEN p.capacity ELSE IF more < MaxConnections THEN more ELSE MaxConnections
  BY DEF Grown
<1> HIDE DEF n
<1>3. more \in Nat /\ n < more
  BY <1>1
<1> HIDE DEF more
<1>4. QED
  BY <1>1, <1>2, <1>3 DEF n

(* A connection that is pushed was not in use. *)
LEMMA PushedFits ==
  ASSUME NEW p, PoolFits(p), Len(p.keys) < MaxConnections
  PROVE  /\ Fits(p) /\ PoolFits(Pushed(p))
         /\ \E s \in Slot \ Range(p.keys) : Pushed(p).keys = Append(p.keys, s)
<1> DEFINE m == Len(p.keys)
           n == Len(p.freed)
<1>1. /\ p.keys \in Seq(Slot) /\ p.freed \in Seq(Slot) /\ Len(p.keys) \in Nat /\ Len(p.freed) \in Nat
      /\ p.capacity \in 0..MaxConnections /\ MaxConnections \in Nat /\ p \in PoolType
  <2>1. p \in PoolType
    BY DEF PoolFits
  <2>2. p.keys \in Seq(Slot) /\ p.freed \in Seq(Slot) /\ p.capacity \in 0..MaxConnections
    BY <2>1 DEF PoolType
  <2>3. QED
    BY <2>1, <2>2, LenProperties, SizeAssumption
<1>2. m + n <= p.capacity /\ m \in Nat /\ n \in Nat /\ m < MaxConnections
  BY <1>1 DEF PoolFits
<1> HIDE DEF m, n
<1>3. Grown(p) \in 0..MaxConnections /\ m < Grown(p)
  <2>1. m <= p.capacity
    BY <1>1, <1>2
  <2>2. QED
    BY <1>1, <1>2, <2>1, GrownFits DEF m
<1>4. CASE p.freed # <<>>
  <2> DEFINE s == Head(p.freed)
             q == [keys |-> Append(p.keys, s), freed |-> Tail(p.freed), capacity |-> p.capacity]
  <2>1. /\ s \in Range(p.freed) /\ s \in Slot /\ Tail(p.freed) \in Seq(Slot)
        /\ Len(Tail(p.freed)) = Len(p.freed) - 1 /\ IsInjective(Tail(p.freed))
        /\ Range(Tail(p.freed)) = Range(p.freed) \ {s}
    BY <1>1, <1>4, Tailed DEF PoolFits
  <2>2. s \notin Range(p.keys)
    BY <2>1 DEF PoolFits
  <2>3. /\ Append(p.keys, s) \in Seq(Slot) /\ IsInjective(Append(p.keys, s))
        /\ Range(Append(p.keys, s)) = Range(p.keys) \cup {s} /\ Len(Append(p.keys, s)) = Len(p.keys) + 1
    BY <1>1, <2>1, <2>2, Appended DEF PoolFits
  <2>4. (m + 1) + (n - 1) = m + n
    BY <1>2
  <2>5. Pushed(p) = q /\ Fits(p)
    BY <1>4 DEF Pushed, Fits
  <2>6. PoolFits(q)
    <3>1. q.keys = Append(p.keys, s) /\ q.freed = Tail(p.freed) /\ q.capacity = p.capacity /\ q \in PoolType
      BY <1>1, <2>1, <2>3 DEF PoolType
    <3>2. Len(q.keys) + Len(q.freed) = Len(p.keys) + Len(p.freed)
      BY <2>1, <2>3, <2>4, <3>1 DEF m, n
    <3>3. Range(q.keys) \cup Range(q.freed) = Range(p.keys) \cup Range(p.freed)
      BY <2>1, <2>3, <3>1
    <3> HIDE DEF q, s
    <3>4. QED
      BY <2>1, <2>2, <2>3, <3>1, <3>2, <3>3 DEF PoolFits
  <2>7. QED
    BY <2>1, <2>2, <2>5, <2>6
<1>5. CASE p.freed = <<>>
  <2> DEFINE s == m + 1
             c == IF m = p.capacity THEN Grown(p) ELSE p.capacity
             q == [keys |-> Append(p.keys, s), freed |-> p.freed, capacity |-> c]
  <2>1. Len(p.freed) = 0 /\ Range(p.freed) = {} /\ Range(p.keys) = 1..Len(p.keys)
    <3>1. Len(p.freed) = 0 /\ Range(p.freed) = {}
      BY <1>5, EmptySeq DEF Range
    <3>2. m + n = m
      BY <1>2, <3>1 DEF n
    <3>3. QED
      BY <3>1, <3>2 DEF PoolFits, m, n
  <2>2. s \in Slot /\ s \notin Range(p.keys)
    <3>1. m + 1 \in 1..MaxConnections /\ m + 1 \notin 1..m
      BY <1>1, <1>2
    <3>2. QED
      BY <2>1, <3>1 DEF Slot, m
  <2>3. /\ Append(p.keys, s) \in Seq(Slot) /\ IsInjective(Append(p.keys, s))
        /\ Range(Append(p.keys, s)) = Range(p.keys) \cup {s} /\ Len(Append(p.keys, s)) = Len(p.keys) + 1
    BY <1>1, <2>2, Appended DEF PoolFits
  <2>4. c \in 0..MaxConnections /\ m + 1 <= c
    BY <1>1, <1>2, <1>3
  <2>5. Pushed(p) = q /\ Fits(p)
    BY <1>3, <1>5 DEF Pushed, Fits, m
  <2> HIDE DEF c
  <2>6. PoolFits(q)
    <3>1. q.keys = Append(p.keys, s) /\ q.freed = p.freed /\ q.capacity = c /\ q \in PoolType
      BY <1>1, <2>3, <2>4 DEF PoolType
    <3>2. Len(q.keys) + Len(q.freed) = m + 1
      <4>1. (m + 1) + 0 = m + 1
        BY <1>2
      <4>2. QED
        BY <2>1, <2>3, <3>1, <4>1 DEF m
    <3>3. 1..(m + 1) = 1..m \cup {m + 1}
      BY <1>2
    <3>4. Range(q.keys) \cup Range(q.freed) = 1..(m + 1)
      BY <2>1, <2>3, <3>1, <3>3 DEF m
    <3> HIDE DEF q, s
    <3>5. QED
      BY <2>1, <2>3, <2>4, <3>1, <3>2, <3>4 DEF PoolFits
  <2>7. QED
    BY <2>2, <2>5, <2>6
<1>6. QED
  BY <1>4, <1>5

(* A pool with room is not full. *)
LEMMA FitsNotFull ==
  ASSUME NEW p, PoolFits(p), Fits(p)
  PROVE  Len(p.keys) < MaxConnections
<1> DEFINE m == Len(p.keys)
           n == Len(p.freed)
<1>1. /\ p.keys \in Seq(Slot) /\ p.freed \in Seq(Slot) /\ p.capacity \in 0..MaxConnections
      /\ MaxConnections \in Nat
  BY SizeAssumption DEF PoolFits, PoolType
<1>2. m \in Nat /\ n \in Nat /\ (p.freed # <<>> => n > 0)
  BY <1>1, LenProperties, EmptySeq
<1>3. m + n <= p.capacity
  BY DEF PoolFits
<1>4. p.freed = <<>> => m < Grown(p)
  BY DEF Fits
<1>5. Grown(p) \in Nat /\ Grown(p) <= MaxConnections
  <2> DEFINE more == ((m + 1) * 3) \div 2
  <2>1. Grown(p) = IF more < p.capacity THEN p.capacity ELSE IF more < MaxConnections THEN more ELSE MaxConnections
    BY DEF Grown
  <2> HIDE DEF m
  <2>2. more \in Nat
    BY <1>2
  <2> HIDE DEF more
  <2>3. QED
    BY <1>1, <2>1, <2>2
<1> HIDE DEF m, n
<1>6. m < MaxConnections
  BY <1>1, <1>2, <1>3, <1>4, <1>5
<1>7. QED
  BY <1>6 DEF m

(* One socket after the other is taken, while there is room. *)
LEMMA TakingIs ==
  ASSUME NEW w \in Worker, fresh[w] \in Seq(Client), PoolFits(pool[w])
  PROVE  /\ Taking(w)[0] = pool[w]
         /\ \A i \in 1..Len(fresh[w]) :
              Taking(w)[i] = IF Fits(Taking(w)[i - 1]) THEN Pushed(Taking(w)[i - 1]) ELSE Taking(w)[i - 1]
<1> DEFINE n == Len(fresh[w])
           Step(p) == IF Fits(p) THEN Pushed(p) ELSE p
           T == {p \in PoolType : PoolFits(p)}
           F == [i \in 1..n |-> [p \in T |-> Step(p)]]
           Is(f) == f = [i \in 0..n |-> IF i = 0 THEN pool[w] ELSE Step(f[i - 1])]
<1>1. n \in Nat
  BY LenProperties
<1>2. pool[w] \in T
  BY DEF PoolFits
<1>3. F \in [1..n -> [T -> T]]
  <2> SUFFICES ASSUME NEW p \in T PROVE Step(p) \in T
    OBVIOUS
  <2>1. CASE Fits(p)
    <3>1. PoolFits(Pushed(p))
      BY <2>1, FitsNotFull, PushedFits
    <3>2. QED
      BY <2>1, <3>1 DEF PoolFits
  <2>2. QED
    BY <2>1
<1> HIDE DEF n, T, F
<1>4. PICK f \in [0..n -> T] : Recurs(f, n, pool[w], F)
  BY <1>1, <1>2, <1>3, Recursion
<1>5. Is(f)
  <2> SUFFICES ASSUME NEW i \in 0..n PROVE f[i] = IF i = 0 THEN pool[w] ELSE Step(f[i - 1])
    BY <1>4
  <2>1. CASE i = 0
    BY <1>4, <2>1 DEF Recurs
  <2>2. CASE i # 0
    <3>1. i \in 1..n /\ i - 1 \in 0..n
      BY <1>1, <2>2
    <3>2. f[i - 1] \in T
      BY <1>4, <3>1
    <3> HIDE DEF Step
    <3>3. F[i][f[i - 1]] = Step(f[i - 1])
      BY <3>1, <3>2 DEF F
    <3>4. QED
      BY <1>4, <2>2, <3>1, <3>3 DEF Recurs
  <2>3. QED
    BY <2>1, <2>2
<1>6. Is(Taking(w))
  BY <1>5 DEF Taking, n
<1> HIDE DEF Step
<1>7. /\ Taking(w)[0] = pool[w]
      /\ \A i \in 1..n : Taking(w)[i] = Step(Taking(w)[i - 1])
  <2>1. 0 \in 0..n /\ \A i \in 1..n : i \in 0..n /\ i # 0
    BY <1>1
  <2>2. \A i \in 0..n : Taking(w)[i] = IF i = 0 THEN pool[w] ELSE Step(Taking(w)[i - 1])
    BY <1>6
  <2>3. QED
    BY <2>1, <2>2
<1>8. QED
  BY <1>7 DEF Step, n

(* All the sockets are taken, each into a slot of its own. *)
After(w) == Taking(w)[Len(fresh[w])]
LEMMA Taken ==
  ASSUME NEW w \in Worker, fresh[w] \in Seq(Client), PoolFits(pool[w]),
         Len(pool[w].keys) + Len(fresh[w]) <= MaxConnections
  PROVE  /\ \A i \in 1..Len(fresh[w]) : Fits(Taking(w)[i - 1])
         /\ PoolFits(After(w)) /\ Len(After(w).keys) = Len(pool[w].keys) + Len(fresh[w])
         /\ \A j \in 1..Len(pool[w].keys) : After(w).keys[j] = pool[w].keys[j]
<1> DEFINE n == Len(fresh[w])
           m == Len(pool[w].keys)
           after == After(w)
           Good(p, i) ==
             /\ PoolFits(p) /\ Len(p.keys) = m + i
             /\ \A j \in 1..m : p.keys[j] = pool[w].keys[j]
           S == {i \in Nat : i <= n => Good(Taking(w)[i], i)}
<1>1. n \in Nat /\ m \in Nat /\ m + n <= MaxConnections /\ MaxConnections \in Nat
  <2>1. pool[w].keys \in Seq(Slot)
    BY DEF PoolFits, PoolType
  <2>2. QED
    BY <2>1, LenProperties, SizeAssumption
<1> HIDE DEF n, m, Good
<1>2. ASSUME NEW p, NEW i \in Nat, i < n, Good(p, i)
      PROVE  Fits(p) /\ Good(Pushed(p), i + 1)
  <2>1. m + i < MaxConnections /\ (m + i) + 1 = m + (i + 1)
    <3>1. \A a, b, c \in Nat :
            (a + b <= MaxConnections /\ c < b => a + c < MaxConnections) /\ (a + c) + 1 = a + (c + 1)
      BY <1>1
    <3>2. QED
      BY <1>1, <1>2, <3>1
  <2>2. Len(p.keys) = m + i /\ m + i < MaxConnections /\ (m + i) + 1 = m + (i + 1)
    BY <1>2, <2>1 DEF Good
  <2>3. Fits(p) /\ PoolFits(Pushed(p))
    BY <1>2, <2>2, PushedFits DEF Good
  <2>4. PICK s \in Slot : Pushed(p).keys = Append(p.keys, s)
    BY <1>2, <2>2, PushedFits DEF Good
  <2>5. p.keys \in Seq(Slot)
    BY <1>2 DEF PoolFits, PoolType, Good
  <2>6. /\ Len(Pushed(p).keys) = Len(p.keys) + 1
        /\ \A j \in 1..Len(p.keys) : Pushed(p).keys[j] = p.keys[j]
    BY <2>4, <2>5, AppendProperties
  <2>7. \A j \in 1..m : j \in 1..Len(p.keys)
    BY <1>1, <1>2, <2>2
  <2>8. QED
    BY <1>2, <2>2, <2>3, <2>6, <2>7 DEF Good
<1>3. 0 \in S
  <2>1. Taking(w)[0] = pool[w] /\ m + 0 = m
    BY <1>1, TakingIs
  <2>2. QED
    BY <2>1 DEF Good, m
<1>4. ASSUME NEW i \in Nat, i \in S PROVE i + 1 \in S
  <2> SUFFICES ASSUME i + 1 <= n PROVE Good(Taking(w)[i + 1], i + 1)
    OBVIOUS
  <2>1. i < n /\ i <= n /\ i + 1 \in 1..n /\ (i + 1) - 1 = i
    BY <1>1
  <2>2. Good(Taking(w)[i], i)
    BY <1>4, <2>1
  <2>3. Fits(Taking(w)[i]) /\ Good(Pushed(Taking(w)[i]), i + 1)
    BY <1>2, <2>1, <2>2
  <2>4. Taking(w)[i + 1] = Pushed(Taking(w)[i])
    BY <2>1, <2>3, TakingIs DEF n
  <2>5. QED
    BY <2>3, <2>4
<1> HIDE DEF S
<1>5. \A i \in Nat : i \in S
  BY <1>3, <1>4, Induction
<1>6. Good(after, n)
  BY <1>1, <1>5 DEF S, n, After
<1>7. ASSUME NEW i \in 1..n PROVE Fits(Taking(w)[i - 1])
  <2>1. i - 1 \in Nat /\ i - 1 < n /\ i - 1 <= n
    BY <1>1
  <2>2. Good(Taking(w)[i - 1], i - 1)
    BY <1>5, <2>1 DEF S
  <2>3. QED
    BY <1>2, <2>1, <2>2
<1>8. QED
  BY <1>1, <1>6, <1>7 DEF Good, n, m

(* The slots taken hold the clients that were dealt out, in their order;   *)
(* those in use before are left alone.                                     *)
LEMMA Initialized ==
  ASSUME NEW w \in Worker, NEW before \in [Slot -> ConnType], conn[w] = before,
         NEW new \in Seq(Client), fresh[w] = new, NEW K, NEW place \in [DOMAIN new -> Slot],
         Given(w, K) = place, IsInjective(place)
  PROVE  /\ Initialize(w, K) \in [Slot -> ConnType]
         /\ \A s \in Slot \ Range(place) : Initialize(w, K)[s] = before[s]
         /\ \A i \in DOMAIN new : Initialize(w, K)[place[i]].client = new[i]
<1> DEFINE D == DOMAIN new
           pick(s) == CHOOSE i \in DOMAIN place : place[i] = s
           made(i) == [client |-> new[i], status |-> "connected", left |-> 0, late |-> FALSE]
           next == Initialize(w, K)
<1>1. \A i \in D : new[i] \in Client
  BY LenProperties
<1>2. DOMAIN place = D /\ place \in [D -> Slot]
  OBVIOUS
<1>3. next = [s \in Slot |-> IF s \in Range(place) THEN made(pick(s)) ELSE before[s]]
  BY DEF Initialize
<1> HIDE DEF D, next
<1>4. ASSUME NEW i \in D PROVE made(i) \in ConnType /\ made(i).client = new[i]
  <2>1. 0 \in 0..ReplyChunks /\ "connected" \in Status
    BY SizeAssumption DEF Status, Asked
  <2>2. QED
    BY <1>1, <2>1 DEF ConnType
<1> HIDE DEF made
<1>5. ASSUME NEW i \in D PROVE pick(place[i]) = i /\ place[i] \in Range(place) /\ place[i] \in Slot
  <2>1. pick(place[i]) \in D /\ place[pick(place[i])] = place[i]
    BY <1>2
  <2> HIDE DEF pick
  <2>2. QED
    BY <1>2, <2>1 DEF IsInjective, Range
<1> HIDE DEF pick
<1>6. ASSUME NEW i \in D PROVE next[place[i]] = made(i)
  BY <1>3, <1>5
<1>7. ASSUME NEW s \in Slot PROVE next[s] \in ConnType
  <2>1. CASE s \in Range(place)
    <3>1. PICK i \in D : s = place[i]
      BY <1>2, <2>1 DEF Range
    <3>2. QED
      BY <1>4, <1>6, <3>1
  <2>2. CASE s \notin Range(place)
    BY <1>3, <2>2
  <2>3. QED
    BY <2>1, <2>2
<1>8. next \in [Slot -> ConnType]
  BY <1>3, <1>7
<1>9. QED
  BY <1>3, <1>4, <1>6, <1>8 DEF D, next

-----------------------------------------------------------------------------
(* The inductive invariant. *)

(* The clients of the connections in a pool; the clients of a worker; all  *)
(* the clients that were accepted.                                         *)
Pooled(p, k) == {k[s].client : s \in Range(p.keys)}
Mine(w) == Range(fresh[w]) \cup Pooled(pool[w], conn[w])
Held == Range(accepted) \cup UNION {Mine(w) : w \in Worker}

TypeServer ==
  /\ started \in BOOLEAN /\ main \in {"accept", "deal", "wait", "end"}
  /\ accepted \in Seq(Client) /\ Len(accepted) <= BackLog
  /\ order \in Seq([num : Nat, thread : Worker])
  /\ groupNum \in Nat /\ perThread \in [Worker -> Nat] /\ fresh \in [Worker -> Seq(Client)]
TypeWorkers ==
  /\ worker \in [Worker -> WorkerType] /\ pool \in [Worker -> PoolType]
  /\ conn \in [Worker -> [Slot -> ConnType]]
TypeClients ==
  /\ backlog \in Seq(Client) /\ closed \subseteq Client
  /\ client \in [Client -> [at : {"new", "idle", "sending", "waiting", "left"},
                            made : 0..Requests, got : 0..(ReplyChunks - 1)]]
  /\ inbox \in [Client -> Seq({"len", "body"})] /\ outbox \in [Client -> 0..SocketRoom]

(* While the main thread deals, it has the threads by their counts; when   *)
(* it waits and after that nothing is accepted any more.                   *)
MainInv ==
  /\ main = "deal" => /\ order \in [Worker -> [num : Nat, thread : Worker]]
                      /\ order[1].num <= order[MaxThreads].num
  /\ main \in {"wait", "end"} => ~started /\ accepted = <<>>

(* What a worker has: a pool that fits, and a client of its own in each of *)
(* its slots.                                                              *)
Owns(p, k, f) ==
  /\ PoolFits(p) /\ IsInjective(f)
  /\ \A s \in Range(p.keys) : k[s].client \in Client \ Range(f)
  /\ \A s, t \in Range(p.keys) : k[s].client = k[t].client => s = t

(* What it does: it visits connections it has, and has none before it      *)
(* serves and after it has gone.                                           *)
Does(wk, p) ==
  /\ IsInjective(wk.todo) /\ Range(wk.todo) \subseteq Range(p.keys) /\ wk.at # "dead"
  /\ wk.at \in {"start", "lock", "asleep", "exit"} => p.keys = <<>>
Stops(wk, p, on, m) ==
  /\ wk.at \in {"drain", "exit"} => ~on
  /\ m = "end" => p.keys = <<>> /\ wk.at \in {"start", "lock", "drain", "crashed", "exit"}
WorkersInv ==
  \A w \in Worker : /\ Owns(pool[w], conn[w], fresh[w])
                    /\ Does(worker[w], pool[w]) /\ Stops(worker[w], pool[w], started, main)

(* Nobody is in two places. *)
ApartInv ==
  /\ IsInjective(accepted) /\ IsInjective(backlog) /\ Range(accepted) \cap Range(backlog) = {}
  /\ \A w \in Worker : Mine(w) \cap (Range(accepted) \cup Range(backlog)) = {}
  /\ \A v, w \in Worker : v # w => Mine(v) \cap Mine(w) = {}
PlaceInv ==
  \A c \in Client :
    /\ client[c].at = "new" => c \notin Range(backlog) \cup Held
    /\ started /\ client[c].at \in {"idle", "sending", "waiting"}
         => c \in closed \cup Range(backlog) \cup Held

CountInv ==
  main # "end" =>
    /\ \A w \in Worker : perThread[w] = Len(fresh[w]) + Len(pool[w].keys)
    /\ groupNum = Cardinality(Held) /\ groupNum <= MaxConnections

(* AsyncThreadNum counts the threads that run. *)
Running == {w \in Worker : worker[w].at \notin {"start", "exit"}}
ThreadInv == threadNum = Cardinality(Running)

ServerInv == TypeServer /\ TypeWorkers /\ MainInv /\ WorkersInv /\ ApartInv /\ PlaceInv /\ CountInv
IInv == ServerInv /\ TypeClients /\ ThreadInv

-----------------------------------------------------------------------------
(* Whom a worker has. *)

(* The clients of the connections, in the order of the pool. *)
LEMMA InOrder ==
  ASSUME NEW p \in PoolType, NEW k \in [Slot -> ConnType], NEW f \in Seq(Client), Owns(p, k, f)
  PROVE  LET q == [i \in DOMAIN p.keys |-> k[p.keys[i]].client] IN
         /\ q \in Seq(Client) /\ Len(q) = Len(p.keys) /\ Range(q) = Pooled(p, k)
         /\ IsInjective(f \o q) /\ Range(f \o q) = Range(f) \cup Pooled(p, k)
         /\ f \o q \in Seq(Client) /\ Len(f \o q) = Len(f) + Len(p.keys)
<1> DEFINE keys == p.keys
           g == [s \in Slot |-> k[s].client]
           q == [i \in DOMAIN keys |-> k[keys[i]].client]
<1>1. keys \in Seq(Slot) /\ IsInjective(keys) /\ IsInjective(f)
  BY DEF Owns, PoolFits, PoolType
<1>2. /\ \A s \in Range(keys) : k[s].client \in Client \ Range(f)
      /\ \A s, t \in Range(keys) : k[s].client = k[t].client => s = t
      /\ Pooled(p, k) = {k[s].client : s \in Range(keys)}
  BY DEF Owns, Pooled
<1> HIDE DEF keys
<1>3. Range(keys) \subseteq Slot /\ \A i \in DOMAIN keys : keys[i] \in Slot
  BY <1>1, LenProperties DEF Range
<1>4. g \in [Slot -> Client \cup {NoClient}] /\ \A s \in Slot : g[s] = k[s].client
  BY DEF ConnType
<1> HIDE DEF g
<1>5. q = [i \in DOMAIN keys |-> g[keys[i]]]
  BY <1>3, <1>4
<1>6. /\ \A s \in Range(keys) : g[s] \in Client \ Range(f)
      /\ \A s, t \in Range(keys) : g[s] = g[t] => s = t
      /\ Pooled(p, k) = {g[s] : s \in Range(keys)}
  BY <1>2, <1>3, <1>4
<1> HIDE DEF q
<1>7. q \in Seq(Client) /\ Len(q) = Len(keys) /\ IsInjective(q) /\ Range(q) = Pooled(p, k)
  <2> DEFINE D == DOMAIN keys
             n == Len(keys)
  <2>1. n \in Nat /\ D = 1..n
    BY <1>1, LenProperties
  <2>2. (\A i \in D : keys[i] \in Range(keys)) /\ (\A x \in Range(keys) : \E i \in D : x = keys[i])
    BY DEF Range
  <2>3. \A i, j \in D : keys[i] = keys[j] => i = j
    BY <1>1, Zenon DEF IsInjective
  <2>4. q = [i \in D |-> g[keys[i]]]
    BY <1>5
  <2> HIDE DEF D, n
  <2>5. DOMAIN q = D /\ \A i \in D : q[i] = g[keys[i]] /\ q[i] \in Client
    BY <1>6, <2>2, <2>4
  <2>6. q \in Seq(Client) /\ Len(q) = n
    <3>1. q \in [1..n -> Client]
      BY <2>1, <2>4, <2>5
    <3>2. QED
      BY <2>1, <3>1, SeqDef, LenProperties
  <2>7. IsInjective(q)
    <3> SUFFICES ASSUME NEW i \in D, NEW j \in D, q[i] = q[j] PROVE i = j
      BY <2>5 DEF IsInjective
    <3>1. g[keys[i]] = g[keys[j]]
      BY <2>5
    <3>2. QED
      BY <1>6, <2>2, <2>3, <3>1
  <2>8. Range(q) = {q[i] : i \in D}
    BY <2>5 DEF Range
  <2>9. Range(q) = Pooled(p, k)
    BY <1>6, <2>2, <2>5, <2>8
  <2>10. QED
    BY <2>6, <2>7, <2>9 DEF n
<1>8. Range(f) \cap Range(q) = {}
  BY <1>6, <1>7
<1>9. IsInjective(f \o q)
  BY <1>1, <1>7, <1>8, Apart
<1>10. f \o q \in Seq(Client) /\ Len(f \o q) = Len(f) + Len(q) /\ Range(f \o q) = Range(f) \cup Range(q)
  <2>1. f \in Seq(Client) /\ q \in Seq(Client)
    BY <1>7
  <2>2. QED
    BY ONLY <2>1, Joined
<1>11. /\ q \in Seq(Client) /\ Len(q) = Len(keys) /\ Range(q) = Pooled(p, k)
       /\ IsInjective(f \o q) /\ Range(f \o q) = Range(f) \cup Pooled(p, k)
       /\ f \o q \in Seq(Client) /\ Len(f \o q) = Len(f) + Len(keys)
  BY <1>6, <1>7, <1>9, <1>10
<1>12. QED
  BY <1>11 DEF q, keys

(* ... they are as many as the sockets dealt out and the connections. *)
LEMMA OwnsMany ==
  ASSUME NEW p \in PoolType, NEW k \in [Slot -> ConnType], NEW f \in Seq(Client), Owns(p, k, f)
  PROVE  /\ IsFiniteSet(Range(f) \cup Pooled(p, k)) /\ Range(f) \cup Pooled(p, k) \subseteq Client
         /\ Cardinality(Range(f) \cup Pooled(p, k)) = Len(f) + Len(p.keys)
<1> DEFINE q == [i \in DOMAIN p.keys |-> k[p.keys[i]].client]
<1> HIDE DEF q
<1>1. /\ IsInjective(f \o q) /\ Range(f \o q) = Range(f) \cup Pooled(p, k)
      /\ f \o q \in Seq(Client) /\ Len(f \o q) = Len(f) + Len(p.keys)
  BY InOrder DEF q
<1>2. IsFiniteSet(Range(f \o q)) /\ Cardinality(Range(f \o q)) = Len(f \o q)
  BY <1>1, Counted
<1>3. Range(f \o q) \subseteq Client
  BY <1>1, LenProperties DEF Range
<1>4. QED
  BY <1>1, <1>2, <1>3


(* There are finitely many of them. *)
LEMMA HeldFinite ==
  ASSUME TypeServer, TypeWorkers, WorkersInv
  PROVE  Held \subseteq Client /\ IsFiniteSet(Held)
<1>1. Range(accepted) \subseteq Client
  BY LenProperties DEF TypeServer, Range
<1>2. ASSUME NEW w \in Worker PROVE Mine(w) \subseteq Client
  <2>1. fresh[w] \in Seq(Client) /\ pool[w] \in PoolType /\ conn[w] \in [Slot -> ConnType]
        /\ Owns(pool[w], conn[w], fresh[w])
    BY DEF TypeServer, TypeWorkers, WorkersInv
  <2>2. QED
    BY <2>1, OwnsMany DEF Mine
<1>3. Held \subseteq Client
  BY <1>1, <1>2 DEF Held
<1>4. QED
  BY <1>3, ClientAssumption, FS_Subset


(* The limit on connections is one for what each worker gets. *)
LEMMA WithinLimit ==
  ASSUME TypeServer, TypeWorkers, WorkersInv, CountInv, main # "end", NEW w \in Worker
  PROVE  Len(pool[w].keys) + Len(fresh[w]) <= MaxConnections
<1>1. Held \subseteq Client /\ IsFiniteSet(Held)
  BY HeldFinite
<1>2. Mine(w) \subseteq Held
  BY DEF Held
<1>3. fresh[w] \in Seq(Client) /\ pool[w] \in PoolType /\ conn[w] \in [Slot -> ConnType]
      /\ Owns(pool[w], conn[w], fresh[w])
  BY DEF TypeServer, TypeWorkers, WorkersInv
<1>4. Cardinality(Mine(w)) = Len(fresh[w]) + Len(pool[w].keys)
  BY <1>3, OwnsMany DEF Mine
<1>5. Cardinality(Mine(w)) <= Cardinality(Held) /\ Cardinality(Held) \in Nat
  BY <1>1, <1>2, FS_Subset, FS_CardinalityType
<1>6. Cardinality(Held) <= MaxConnections
  BY DEF CountInv
<1>7. Len(fresh[w]) \in Nat /\ Len(pool[w].keys) \in Nat /\ MaxConnections \in Nat
  <2>1. pool[w].keys \in Seq(Slot)
    BY <1>3 DEF PoolType
  <2>2. QED
    BY <1>3, <2>1, LenProperties, SizeAssumption
<1>8. \A a, b, c, d, e \in Nat : c = a + b /\ c <= d /\ d <= e => b + a <= e
  OBVIOUS
<1>9. Cardinality(Mine(w)) \in Nat
  BY <1>1, <1>2, FS_Subset, FS_CardinalityType
<1>10. QED
  BY <1>4, <1>5, <1>6, <1>7, <1>8, <1>9

(* A worker that gets nothing from the others, and changes only what it    *)
(* has, keeps it apart from theirs.                                        *)
LEMMA WorkerStep ==
  ASSUME TypeServer, TypeWorkers, MainInv, WorkersInv, ApartInv,
         NEW w \in Worker, NEW wk \in WorkerType, NEW p \in PoolType, NEW k \in [Slot -> ConnType],
         NEW f \in Seq(Client),
         worker' = [worker EXCEPT ![w] = wk], pool' = [pool EXCEPT ![w] = p],
         conn' = [conn EXCEPT ![w] = k], fresh' = [fresh EXCEPT ![w] = f],
         Owns(p, k, f), Does(wk, p), Stops(wk, p, started, main),
         Range(f) \cup Pooled(p, k) \subseteq Mine(w),
         UNCHANGED <<started, main, accepted, order, backlog>>
  PROVE  /\ fresh' \in [Worker -> Seq(Client)] /\ TypeWorkers' /\ MainInv' /\ WorkersInv' /\ ApartInv'
         /\ Held' = (Held \ Mine(w)) \cup (Range(f) \cup Pooled(p, k))
<1>1. fresh \in [Worker -> Seq(Client)] /\ worker \in [Worker -> WorkerType]
      /\ pool \in [Worker -> PoolType] /\ conn \in [Worker -> [Slot -> ConnType]]
  BY DEF TypeServer, TypeWorkers
<1>2. /\ worker'[w] = wk /\ pool'[w] = p /\ conn'[w] = k /\ fresh'[w] = f
      /\ \A v \in Worker : v # w => /\ worker'[v] = worker[v] /\ pool'[v] = pool[v]
                                    /\ conn'[v] = conn[v] /\ fresh'[v] = fresh[v]
  BY <1>1
<1>3. fresh' \in [Worker -> Seq(Client)] /\ TypeWorkers'
  <2>1. fresh' \in [Worker -> Seq(Client)]
    BY <1>1
  <2>2. worker' \in [Worker -> WorkerType]
    BY <1>1
  <2>3. pool' \in [Worker -> PoolType]
    BY <1>1
  <2>4. conn' \in [Worker -> [Slot -> ConnType]]
    BY <1>1
  <2>5. QED
    BY <2>1, <2>2, <2>3, <2>4 DEF TypeWorkers
<1>4. MainInv'
  BY DEF MainInv
<1>5. WorkersInv'
  <2> SUFFICES ASSUME NEW v \in Worker
               PROVE  /\ Owns(pool'[v], conn'[v], fresh'[v]) /\ Does(worker'[v], pool'[v])
                      /\ Stops(worker'[v], pool'[v], started, main)
    BY DEF WorkersInv
  <2>1. CASE v = w
    BY <1>2, <2>1
  <2>2. CASE v # w
    BY <1>2, <2>2 DEF WorkersInv
  <2>3. QED
    BY <2>1, <2>2
<1>6. /\ Mine(w)' = Range(f) \cup Pooled(p, k)
      /\ \A v \in Worker : v # w => Mine(v)' = Mine(v)
  BY <1>2 DEF Mine
<1> DEFINE own == Range(f) \cup Pooled(p, k)
<1> HIDE DEF own
<1>7. own \subseteq Mine(w) /\ Mine(w)' = own
  BY <1>6 DEF own
<1>8. ApartInv'
  <2>1. \A v \in Worker : Mine(v)' \subseteq Mine(v)
    BY <1>6, <1>7
  <2>2. QED
    BY <2>1 DEF ApartInv
<1>9. Held' = (Held \ Mine(w)) \cup own
  <2>1. \A c : c \in Held' <=> c \in Range(accepted) \/ \E v \in Worker : c \in Mine(v)'
    BY DEF Held
  <2>2. \A c : c \in Held <=> c \in Range(accepted) \/ \E v \in Worker : c \in Mine(v)
    BY DEF Held
  <2>3. Mine(w) \cap Range(accepted) = {} /\ \A v \in Worker : v # w => Mine(v) \cap Mine(w) = {}
    BY DEF ApartInv
  <2>4. \A c : c \in Held' <=> c \in (Held \ Mine(w)) \cup own
    BY <1>6, <1>7, <2>1, <2>2, <2>3
  <2>5. QED
    BY <2>4
<1>10. QED
  BY <1>3, <1>4, <1>5, <1>8, <1>9 DEF own


(* A step of a worker after which it has the clients it had. *)
LEMMA Keeps ==
  ASSUME ServerInv,
         NEW w \in Worker, NEW wk \in WorkerType, NEW p \in PoolType, NEW k \in [Slot -> ConnType],
         NEW f \in Seq(Client),
         worker' = [worker EXCEPT ![w] = wk], pool' = [pool EXCEPT ![w] = p],
         conn' = [conn EXCEPT ![w] = k], fresh' = [fresh EXCEPT ![w] = f],
         Owns(p, k, f), Does(wk, p), Stops(wk, p, started, main),
         Range(f) \cup Pooled(p, k) = Mine(w), Len(f) + Len(p.keys) = Len(fresh[w]) + Len(pool[w].keys),
         UNCHANGED <<started, main, accepted, order, backlog, groupNum, perThread, client>>,
         closed \subseteq closed'
  PROVE  ServerInv'
<1>1. TypeServer /\ TypeWorkers /\ MainInv /\ WorkersInv /\ ApartInv /\ PlaceInv /\ CountInv
  BY DEF ServerInv
<1>2. /\ fresh' \in [Worker -> Seq(Client)] /\ TypeWorkers' /\ MainInv' /\ WorkersInv' /\ ApartInv'
      /\ Held' = (Held \ Mine(w)) \cup (Range(f) \cup Pooled(p, k))
  BY <1>1, WorkerStep
<1>3. Held' = Held
  <2>1. Mine(w) \subseteq Held
    BY DEF Held
  <2>2. QED
    BY <1>2, <2>1
<1>4. TypeServer'
  BY <1>1, <1>2 DEF TypeServer
<1>5. PlaceInv'
  BY <1>1, <1>3 DEF PlaceInv
<1>6. CountInv'
  <2>1. \A v \in Worker : Len(fresh'[v]) + Len(pool'[v].keys) = Len(fresh[v]) + Len(pool[v].keys)
    <3>1. fresh'[w] = f /\ pool'[w] = p /\ \A v \in Worker : v # w => fresh'[v] = fresh[v] /\ pool'[v] = pool[v]
      BY <1>1 DEF TypeServer, TypeWorkers
    <3>2. QED
      BY <3>1
  <2> DEFINE Sum(v) == Len(fresh[v]) + Len(pool[v].keys)
  <2>2. \A v \in Worker : Sum(v)' = Sum(v)
    BY <2>1
  <2>3. main # "end" => (\A v \in Worker : perThread[v] = Sum(v)) /\ groupNum = Cardinality(Held) /\ groupNum <= MaxConnections
    BY <1>1 DEF CountInv
  <2> HIDE DEF Sum
  <2>4. main' # "end" => (\A v \in Worker : perThread'[v] = Sum(v)') /\ groupNum' = Cardinality(Held') /\ groupNum' <= MaxConnections
    BY <1>3, <2>2, <2>3
  <2>5. QED
    BY <2>4 DEF CountInv, Sum
<1>7. QED
  BY <1>2, <1>4, <1>5, <1>6 DEF ServerInv

(* A worker that only goes somewhere else. *)
LEMMA Moves ==
  ASSUME ServerInv, NEW w \in Worker, NEW wk \in WorkerType, worker' = [worker EXCEPT ![w] = wk],
         Does(wk, pool[w]), Stops(wk, pool[w], started, main),
         UNCHANGED <<started, main, accepted, order, backlog, groupNum, perThread, client, fresh, pool, conn, closed>>
  PROVE  ServerInv'
<1>1. /\ fresh \in [Worker -> Seq(Client)] /\ pool \in [Worker -> PoolType]
      /\ conn \in [Worker -> [Slot -> ConnType]] /\ Owns(pool[w], conn[w], fresh[w])
  BY DEF ServerInv, TypeServer, TypeWorkers, WorkersInv
<1>2. /\ fresh' = [fresh EXCEPT ![w] = fresh[w]] /\ pool' = [pool EXCEPT ![w] = pool[w]]
      /\ conn' = [conn EXCEPT ![w] = conn[w]]
  BY <1>1
<1>3. /\ fresh[w] \in Seq(Client) /\ pool[w] \in PoolType /\ conn[w] \in [Slot -> ConnType]
      /\ Range(fresh[w]) \cup Pooled(pool[w], conn[w]) = Mine(w)
  BY <1>1 DEF Mine
<1>4. QED
  BY <1>1, <1>2, <1>3, Keeps

(* The count of threads: a step that neither starts nor ends one; ... *)
LEMMA RunsOn ==
  ASSUME TypeWorkers, ThreadInv, NEW w \in Worker, NEW wk \in WorkerType,
         worker' = [worker EXCEPT ![w] = wk], threadNum' = threadNum,
         wk.at \in {"start", "exit"} <=> worker[w].at \in {"start", "exit"}
  PROVE  ThreadInv'
<1>1. \A v \in Worker : worker'[v] = IF v = w THEN wk ELSE worker[v]
  BY DEF TypeWorkers
<1>2. Running' = Running
  BY <1>1 DEF Running
<1>3. QED
  BY <1>2 DEF ThreadInv

LEMMA WorkerFinite == MaxThreads \in Nat /\ IsFiniteSet(Worker) /\ Cardinality(Worker) = MaxThreads
<1>1. MaxThreads \in Nat
  BY SizeAssumption
<1>2. QED
  BY <1>1, FS_Interval DEF Worker

LEMMA RunningFinite == IsFiniteSet(Running) /\ Cardinality(Running) \in 0..MaxThreads
<1>1. MaxThreads \in Nat
  BY WorkerFinite
<1>2. IsFiniteSet(Worker) /\ Cardinality(Worker) = MaxThreads
  BY WorkerFinite
<1>3. Running \subseteq Worker
  BY DEF Running
<1>4. IsFiniteSet(Running) /\ Cardinality(Running) <= MaxThreads
  BY <1>2, <1>3, FS_Subset
<1>5. QED
  BY <1>1, <1>4, FS_CardinalityType

(* ... one that starts; ... *)
LEMMA RunsMore ==
  ASSUME TypeWorkers, ThreadInv, NEW w \in Worker, NEW wk \in WorkerType,
         worker' = [worker EXCEPT ![w] = wk], threadNum' = (threadNum + 1) % CounterRange,
         wk.at \notin {"start", "exit"}, worker[w].at \in {"start", "exit"}
  PROVE  ThreadInv'
<1>1. \A v \in Worker : worker'[v] = IF v = w THEN wk ELSE worker[v]
  BY DEF TypeWorkers
<1>2. Running' = Running \cup {w} /\ w \notin Running
  BY <1>1 DEF Running
<1>3. IsFiniteSet(Running)
  BY RunningFinite
<1>4. Cardinality(Running \cup {w}) = Cardinality(Running) + 1
  BY <1>2, <1>3, FS_AddElement
<1>5. Running \cup {w} \subseteq Worker /\ IsFiniteSet(Worker) /\ Cardinality(Worker) = MaxThreads
  BY WorkerFinite DEF Running
<1>6. Cardinality(Running \cup {w}) <= MaxThreads
  BY <1>5, FS_Subset
<1>7. Cardinality(Running) \in Nat
  BY RunningFinite
<1>8. threadNum = Cardinality(Running)
  BY DEF ThreadInv
<1>9. (threadNum + 1) % CounterRange = threadNum + 1
  BY <1>4, <1>6, <1>7, <1>8, SizeAssumption
<1>10. QED
  BY <1>2, <1>4, <1>8, <1>9 DEF ThreadInv

(* ... and one that ends. *)
LEMMA RunsLess ==
  ASSUME TypeWorkers, ThreadInv, NEW w \in Worker, NEW wk \in WorkerType,
         worker' = [worker EXCEPT ![w] = wk], threadNum' = (threadNum + CounterRange - 1) % CounterRange,
         wk.at \in {"start", "exit"}, worker[w].at \notin {"start", "exit"}
  PROVE  ThreadInv'
<1>1. \A v \in Worker : worker'[v] = IF v = w THEN wk ELSE worker[v]
  BY DEF TypeWorkers
<1>2. Running' = Running \ {w} /\ w \in Running
  BY <1>1 DEF Running
<1>3. IsFiniteSet(Running) /\ Cardinality(Running) \in 0..MaxThreads
  BY RunningFinite
<1>4. Cardinality(Running \ {w}) = Cardinality(Running) - 1
  BY <1>2, <1>3, FS_RemoveElement
<1>5. Cardinality(Running) # 0
  BY <1>2, <1>3, FS_EmptySet
<1>6. threadNum = Cardinality(Running)
  BY DEF ThreadInv
<1>7. threadNum \in 1..CounterRange /\ CounterRange \in Nat \ {0}
  BY <1>3, <1>5, <1>6, SizeAssumption
<1>8. (threadNum + CounterRange - 1) % CounterRange = threadNum - 1
  BY <1>7, CounterDown
<1>9. QED
  BY <1>2, <1>4, <1>6, <1>8 DEF ThreadInv

-----------------------------------------------------------------------------
(* The steps of a worker. *)

Put(w, at, todo) == worker' = [worker EXCEPT ![w] = [at |-> at, todo |-> todo]]
Same == UNCHANGED <<started, main, accepted, order, backlog, groupNum, perThread, client, fresh, pool, conn,
                    closed, inbox, outbox>>

(* A worker goes to another place, with all of its connections to visit or *)
(* none.                                                                   *)
LEMMA Placed ==
  ASSUME IInv, NEW w \in Worker, NEW at \in Place \ {"dead"}, NEW todo \in {<<>>, pool[w].keys},
         Put(w, at, todo), Same,
         at \in {"start", "lock", "asleep", "exit"} => pool[w].keys = <<>>,
         at \in {"drain", "exit"} => ~started,
         main = "end" => at \in {"lock", "drain", "crashed", "exit"}
  PROVE  /\ ServerInv' /\ TypeClients'
         /\ \/ threadNum' = threadNum /\ (at \in {"start", "exit"} <=> worker[w].at \in {"start", "exit"})
            \/ /\ threadNum' = (threadNum + 1) % CounterRange
               /\ at \notin {"start", "exit"} /\ worker[w].at \in {"start", "exit"}
            \/ /\ threadNum' = (threadNum + CounterRange - 1) % CounterRange
               /\ at \in {"start", "exit"} /\ worker[w].at \notin {"start", "exit"}
            => ThreadInv'
<1> DEFINE wk == [at |-> at, todo |-> todo]
<1>1. ServerInv /\ TypeClients /\ ThreadInv /\ TypeWorkers
  BY DEF IInv, ServerInv
<1>2. pool[w] \in PoolType /\ PoolFits(pool[w]) /\ Stops(worker[w], pool[w], started, main)
  BY <1>1 DEF ServerInv, WorkersInv, TypeWorkers, Owns
<1>3. pool[w].keys \in Seq(Slot) /\ IsInjective(pool[w].keys)
  BY <1>2 DEF PoolFits, PoolType
<1>4. wk \in WorkerType /\ wk.at = at /\ wk.todo = todo
  <2>1. todo \in Seq(Slot)
    BY <1>3, EmptySeq
  <2>2. QED
    BY <2>1 DEF WorkerType
<1>5. IsInjective(todo) /\ Range(todo) \subseteq Range(pool[w].keys)
  <2>1. IsInjective(<<>>) /\ Range(<<>>) = {}
    BY DEF IsInjective, Range
  <2>2. QED
    BY <1>3, <2>1
<1>6. Does(wk, pool[w])
  BY <1>4, <1>5 DEF Does
<1>7. Stops(wk, pool[w], started, main)
  BY <1>2, <1>4 DEF Stops
<1>8. worker' = [worker EXCEPT ![w] = wk]
  BY DEF Put
<1> HIDE DEF wk
<1>9. ServerInv'
  BY <1>1, <1>4, <1>6, <1>7, <1>8, Moves DEF Same
<1>10. TypeClients'
  BY <1>1 DEF TypeClients, Same
<1>11. CASE threadNum' = threadNum /\ (at \in {"start", "exit"} <=> worker[w].at \in {"start", "exit"})
  <2>1. ThreadInv'
    BY <1>1, <1>4, <1>8, <1>11, RunsOn
  <2>2. QED
    BY <1>9, <1>10, <2>1
<1>12. CASE /\ threadNum' = (threadNum + 1) % CounterRange
            /\ at \notin {"start", "exit"} /\ worker[w].at \in {"start", "exit"}
  <2>1. ThreadInv'
    BY <1>1, <1>4, <1>8, <1>12, RunsMore
  <2>2. QED
    BY <1>9, <1>10, <2>1
<1>13. CASE /\ threadNum' = (threadNum + CounterRange - 1) % CounterRange
            /\ at \in {"start", "exit"} /\ worker[w].at \notin {"start", "exit"}
  <2>1. ThreadInv'
    BY <1>1, <1>4, <1>8, <1>13, RunsLess
  <2>2. QED
    BY <1>9, <1>10, <2>1
<1>14. QED
  BY <1>9, <1>10, <1>11, <1>12, <1>13


(* The steps of a worker that change neither what it has nor whom. *)
LEMMA SmallSteps ==
  ASSUME IInv, NEW w \in Worker, UNCHANGED <<main, accepted, order, backlog, client>>,
         \/ Begin(w) \/ Wake(w) \/ StopSeen(w) \/ TryNothing(w) \/ DrainAgain(w) \/ Exit(w)
         \/ worker[w].at = "lock" /\ ~started /\ Drains(w) /\ UNCHANGED <<shared, pool, conn, inbox, outbox, closed>>
         \/ worker[w].at = "lock" /\ started /\ Goes(w, "asleep") /\ UNCHANGED <<shared, pool, conn, inbox, outbox, closed>>
         \/ worker[w].at = "serve" /\ Goes(w, "spin") /\ UNCHANGED <<shared, pool, conn, inbox, outbox, closed>>
         \/ Crash(w)
  PROVE  IInv'
<1>1. Does(worker[w], pool[w]) /\ Stops(worker[w], pool[w], started, main) /\ (main = "end" => ~started)
  BY DEF IInv, ServerInv, WorkersInv, MainInv
<1>2. CASE Begin(w)
  <2>1. Same /\ Put(w, "lock", <<>>) /\ worker[w].at = "start" /\ threadNum' = (threadNum + 1) % CounterRange
    BY <1>2 DEF Begin, Goes, Same, Put
  <2>2. pool[w].keys = <<>>
    BY <1>1, <2>1 DEF Does
  <2>3. QED
    BY <2>1, <2>2, Placed DEF Place, IInv
<1>3. CASE Wake(w)
  <2>1. Same /\ Put(w, "lock", <<>>) /\ worker[w].at = "asleep" /\ threadNum' = threadNum
    BY <1>3 DEF Wake, Goes, shared, Same, Put
  <2>2. pool[w].keys = <<>>
    BY <1>1, <2>1 DEF Does
  <2>3. QED
    BY <2>1, <2>2, Placed DEF Place, IInv
<1>4. CASE StopSeen(w)
  <2>1. Same /\ Put(w, "drain", pool[w].keys) /\ worker[w].at = "serve" /\ ~started /\ threadNum' = threadNum
    BY <1>4 DEF StopSeen, Drains, shared, Same, Put
  <2>2. QED
    BY <2>1, Placed DEF Place, IInv
<1>5. CASE TryNothing(w)
  <2>1. Same /\ worker[w].at = "serve" /\ started /\ threadNum' = threadNum /\ main # "end"
    BY <1>1, <1>5 DEF TryNothing, shared, Same, Put
  <2>2. CASE pool[w].keys = <<>>
    <3>1. Put(w, "lock", <<>>)
      BY <1>5, <2>2 DEF TryNothing, Goes, Put
    <3>2. QED
      BY <2>1, <2>2, <3>1, Placed DEF Place, IInv
  <2>3. CASE pool[w].keys # <<>>
    <3>1. Put(w, "serve", pool[w].keys)
      BY <1>5, <2>3 DEF TryNothing, Serves, Put
    <3>2. QED
      BY <2>1, <3>1, Placed DEF Place, IInv
  <2>4. QED
    BY <2>2, <2>3
<1>6. CASE DrainAgain(w)
  <2>1. Same /\ Put(w, "drain", pool[w].keys) /\ worker[w].at = "drain" /\ threadNum' = threadNum
    BY <1>6 DEF DrainAgain, Drains, shared, Same, Put
  <2>2. ~started
    BY <1>1, <2>1 DEF Stops
  <2>3. QED
    BY <2>1, <2>2, Placed DEF Place, IInv
<1>7. CASE Exit(w)
  <2>1. /\ Same /\ Put(w, "exit", <<>>) /\ worker[w].at = "drain" /\ pool[w].keys = <<>>
        /\ threadNum' = (threadNum + CounterRange - 1) % CounterRange
    BY <1>7 DEF Exit, Goes, Same, Put
  <2>2. ~started
    BY <1>1, <2>1 DEF Stops
  <2>3. QED
    BY <2>1, <2>2, Placed DEF Place, IInv
<1>8. CASE worker[w].at = "lock" /\ ~started /\ Drains(w) /\ UNCHANGED <<shared, pool, conn, inbox, outbox, closed>>
  <2>1. Same /\ Put(w, "drain", pool[w].keys) /\ threadNum' = threadNum
    BY <1>8 DEF Drains, shared, Same, Put
  <2>2. QED
    BY <1>8, <2>1, Placed DEF Place, IInv
<1>9. CASE worker[w].at = "lock" /\ started /\ Goes(w, "asleep") /\ UNCHANGED <<shared, pool, conn, inbox, outbox, closed>>
  <2>1. Same /\ Put(w, "asleep", <<>>) /\ threadNum' = threadNum /\ main # "end"
    BY <1>1, <1>9 DEF Goes, shared, Same, Put
  <2>2. pool[w].keys = <<>>
    BY <1>1, <1>9 DEF Does
  <2>3. QED
    BY <1>9, <2>1, <2>2, Placed DEF Place, IInv
<1>10. CASE worker[w].at = "serve" /\ Goes(w, "spin") /\ UNCHANGED <<shared, pool, conn, inbox, outbox, closed>>
  <2>1. Same /\ Put(w, "spin", <<>>) /\ threadNum' = threadNum
    BY <1>10 DEF Goes, shared, Same, Put
  <2>2. main # "end"
    BY <1>1, <1>10 DEF Stops
  <2>3. QED
    BY <1>10, <2>1, <2>2, Placed DEF Place, IInv
<1>11. CASE Crash(w)
  <2>1. Same /\ Put(w, "crashed", <<>>) /\ threadNum' = threadNum /\ worker[w].at \in {"serve", "drain"}
    BY <1>11 DEF Crash, Goes, shared, Same, Put
  <2>2. QED
    BY <2>1, Placed DEF Place, IInv
<1>12. QED
  BY <1>2, <1>3, <1>4, <1>5, <1>6, <1>7, <1>8, <1>9, <1>10, <1>11


(* A step to the next connection. *)
Passed(w) == [worker[w] EXCEPT !.todo = Tail(worker[w].todo)]
LEMMA ToNext ==
  ASSUME IInv, NEW w \in Worker, worker[w].todo # <<>>, Next1(w)
  PROVE  /\ worker' = [worker EXCEPT ![w] = Passed(w)] /\ Passed(w) \in WorkerType
         /\ Passed(w).at = worker[w].at /\ Passed(w).todo = Tail(worker[w].todo)
         /\ Visited(w) \in Range(pool[w].keys) /\ Visited(w) \in Slot
         /\ IsInjective(Passed(w).todo)
         /\ Range(Passed(w).todo) \subseteq Range(pool[w].keys) \ {Visited(w)}
         /\ Now(w) \in ConnType /\ Now(w).client \in Client /\ Now(w).client \in Pooled(pool[w], conn[w])
         /\ pool[w].keys # <<>>
<1> DEFINE todo == worker[w].todo
<1>1. /\ worker \in [Worker -> WorkerType] /\ worker[w] \in WorkerType /\ pool[w] \in PoolType
      /\ conn[w] \in [Slot -> ConnType]
  BY DEF IInv, ServerInv, TypeWorkers
<1>2. todo \in Seq(Slot) /\ todo # <<>>
  BY <1>1 DEF WorkerType
<1>3. /\ IsInjective(todo) /\ Range(todo) \subseteq Range(pool[w].keys)
      /\ \A s \in Range(pool[w].keys) : conn[w][s].client \in Client
  BY DEF IInv, ServerInv, WorkersInv, Owns, Does
<1>4. /\ Head(todo) \in Range(todo) /\ Head(todo) \in Slot /\ Tail(todo) \in Seq(Slot)
      /\ IsInjective(Tail(todo)) /\ Range(Tail(todo)) = Range(todo) \ {Head(todo)}
  <2> HIDE DEF todo
  <2>1. QED
    BY <1>2, <1>3, Tailed
<1>5. worker' = [worker EXCEPT ![w] = Passed(w)]
  BY <1>1 DEF Next1, Passed
<1>6. Passed(w) \in WorkerType /\ Passed(w).at = worker[w].at /\ Passed(w).todo = Tail(todo)
  BY <1>1, <1>4 DEF WorkerType, Passed
<1>7. Visited(w) = Head(todo) /\ Now(w) = conn[w][Visited(w)]
  BY DEF Visited, Now
<1> HIDE DEF todo
<1>8. Visited(w) \in Range(pool[w].keys) /\ Visited(w) \in Slot
  BY <1>3, <1>4, <1>7
<1>9. Now(w) \in ConnType /\ Now(w).client \in Client /\ Now(w).client \in Pooled(pool[w], conn[w])
  BY <1>1, <1>3, <1>7, <1>8 DEF Pooled
<1>10. pool[w].keys # <<>>
  BY <1>8 DEF Range
<1>11. IsInjective(Passed(w).todo) /\ Range(Passed(w).todo) \subseteq Range(pool[w].keys) \ {Visited(w)}
  BY <1>3, <1>4, <1>6, <1>7
<1>12. QED
  BY <1>5, <1>6, <1>8, <1>9, <1>10, <1>11 DEF todo

(* What a visit makes of a connection. *)
LEMMA Visits ==
  ASSUME IInv, NEW w \in Worker, worker[w].todo # <<>>, worker[w].at \in {"serve", "drain"}, Next1(w),
         NEW k \in ConnType, k.client = Now(w).client, NEW in \in Seq({"len", "body"}),
         NEW out, outbox[k.client] + out \in 0..SocketRoom, Sets(w, k, in, out),
         UNCHANGED <<main, accepted, order, backlog, client>>
  PROVE  IInv'
<1> DEFINE s == Visited(w)
           kk == [conn[w] EXCEPT ![s] = k]
<1>1. /\ worker' = [worker EXCEPT ![w] = Passed(w)] /\ Passed(w) \in WorkerType
      /\ Passed(w).at = worker[w].at /\ s \in Range(pool[w].keys) /\ s \in Slot
      /\ IsInjective(Passed(w).todo) /\ Range(Passed(w).todo) \subseteq Range(pool[w].keys)
      /\ k.client \in Client /\ conn[w][s].client = k.client
  BY ToNext DEF Now
<1>2. ServerInv /\ TypeClients /\ ThreadInv /\ TypeWorkers
  BY DEF IInv, ServerInv
<1>3. /\ pool \in [Worker -> PoolType] /\ conn \in [Worker -> [Slot -> ConnType]]
      /\ fresh \in [Worker -> Seq(Client)] /\ Owns(pool[w], conn[w], fresh[w])
      /\ Does(worker[w], pool[w]) /\ Stops(worker[w], pool[w], started, main)
  BY <1>2 DEF ServerInv, TypeWorkers, TypeServer, WorkersInv
<1>4. /\ conn' = [conn EXCEPT ![w] = kk] /\ pool' = [pool EXCEPT ![w] = pool[w]]
      /\ fresh' = [fresh EXCEPT ![w] = fresh[w]]
      /\ UNCHANGED <<started, groupNum, perThread, threadNum>> /\ closed \subseteq closed' /\ closed' \subseteq closed \cup {k.client}
      /\ inbox' = [inbox EXCEPT ![k.client] = in] /\ outbox' = [outbox EXCEPT ![k.client] = @ + out]
  BY <1>3 DEF Sets, shared
<1>5. kk \in [Slot -> ConnType] /\ \A t \in Slot : kk[t].client = conn[w][t].client
  BY <1>1, <1>3
<1> HIDE DEF kk, s
<1>6. pool[w].keys \in Seq(Slot) /\ Range(pool[w].keys) \subseteq Slot
  <2>1. pool[w].keys \in Seq(Slot)
    BY <1>3 DEF PoolType
  <2>2. QED
    BY <2>1, LenProperties DEF Range
<1>7. Owns(pool[w], kk, fresh[w]) /\ Pooled(pool[w], kk) = Pooled(pool[w], conn[w])
  <2> DEFINE R == Range(pool[w].keys)
             f == fresh[w]
             c(t) == conn[w][t].client
  <2>1. /\ PoolFits(pool[w]) /\ IsInjective(f) /\ \A t \in R : c(t) \in Client \ Range(f)
        /\ \A t, u \in R : c(t) = c(u) => t = u
    BY <1>3 DEF Owns
  <2>2. \A t \in R : kk[t].client = c(t)
    BY <1>5, <1>6
  <2>3. Pooled(pool[w], kk) = {kk[t].client : t \in R} /\ Pooled(pool[w], conn[w]) = {c(t) : t \in R}
    BY DEF Pooled
  <2> HIDE DEF c
  <2>4. Pooled(pool[w], kk) = Pooled(pool[w], conn[w])
    BY <2>2, <2>3
  <2>5. Owns(pool[w], kk, f)
    BY <2>1, <2>2 DEF Owns
  <2>6. QED
    BY <2>4, <2>5
<1>8. Does(Passed(w), pool[w]) /\ Stops(Passed(w), pool[w], started, main)
  BY <1>1, <1>3 DEF Does, Stops
<1>9. ServerInv'
  <2>1. Range(fresh[w]) \cup Pooled(pool[w], kk) = Mine(w)
    BY <1>7 DEF Mine
  <2>2. pool[w] \in PoolType /\ fresh[w] \in Seq(Client)
    BY <1>3
  <2>3. QED
    BY <1>1, <1>2, <1>4, <1>5, <1>7, <1>8, <2>1, <2>2, Keeps
<1>10. ThreadInv'
  BY <1>1, <1>2, <1>4, RunsOn
<1>11. TypeClients'
  BY <1>1, <1>2, <1>4 DEF TypeClients
<1>12. QED
  BY <1>9, <1>10, <1>11 DEF IInv

(* What is received and sent. *)
Carried == [client : Client, status : Status \cup {"received"}, left : 0..ReplyChunks, late : BOOLEAN]
LEMMA Dropped ==
  ASSUME NEW k \in Carried
  PROVE  Closed(k) \in ConnType /\ Closed(k).client = k.client
BY DEF Carried, Closed, ConnType, Status

LEMMA SendGives ==
  ASSUME TypeClients, NEW k \in Carried, NEW a \in AsyncSend(k)
  PROVE  /\ a.conn \in ConnType /\ a.conn.client = k.client
         /\ outbox[a.conn.client] + a.out \in 0..SocketRoom
<1> DEFINE room == SocketRoom - outbox[k.client]
           n    == IF k.left < room THEN k.left ELSE room
           sent == [k EXCEPT !.left = @ - n, !.late = @ /\ n = 0,
                             !.status = IF k.left = n THEN "sent" ELSE "sending"]
<1>1. k.client \in Client /\ outbox[k.client] \in 0..SocketRoom /\ SocketRoom \in Nat /\ k.left \in 0..ReplyChunks
      /\ ReplyChunks \in Nat
  BY SizeAssumption DEF TypeClients, Carried
<1>2. n \in Nat /\ k.left - n \in 0..ReplyChunks /\ outbox[k.client] + n \in 0..SocketRoom
  BY <1>1
<1>3. outbox[k.client] + 0 \in 0..SocketRoom
  BY <1>1
<1>4. a \in {[conn |-> Closed(k), out |-> 0], [conn |-> sent, out |-> n]}
  BY DEF AsyncSend
<1> HIDE DEF n
<1>5. sent \in ConnType /\ sent.client = k.client
  BY <1>1, <1>2 DEF Carried, ConnType, Status, Asked
<1> HIDE DEF sent
<1>6. CASE a = [conn |-> Closed(k), out |-> 0]
  BY <1>3, <1>6, Dropped
<1>7. CASE a = [conn |-> sent, out |-> n]
  BY <1>2, <1>5, <1>7
<1>8. QED
  BY <1>4, <1>6, <1>7

LEMMA ReceiveGives ==
  ASSUME TypeClients, NEW k \in ConnType, k.client \in Client, NEW r \in AsyncReceive(k)
  PROVE  /\ r.conn \in Carried /\ r.conn.client = k.client /\ r.in \in Seq({"len", "body"})
         /\ r.conn.status # "received" => r.conn \in ConnType
<1> DEFINE M == {"len", "body"}
           in == inbox[k.client]
           Is(x) == /\ x.conn \in Carried /\ x.conn.client = k.client /\ x.in \in Seq(M)
                    /\ x.conn.status # "received" => x.conn \in ConnType
<1>1. in \in Seq(M)
  BY DEF TypeClients
<1> HIDE DEF in
<1>2. ASSUME NEW s \in Seq(M), s # <<>> PROVE Tail(s) \in Seq(M)
  BY <1>2, HeadTailProperties
<1>3. k \in Carried
  BY DEF Carried, ConnType
<1>4. ASSUME NEW j \in Carried, j.client = k.client, j \in ConnType, NEW s \in Seq(M), NEW x \in Body(j, s)
      PROVE  Is(x)
  <2> DEFINE got == [j EXCEPT !.status = "received", !.late = FALSE]
  <2>1. got \in Carried /\ got.client = k.client /\ got.status = "received"
    BY <1>4 DEF Carried
  <2>2. Closed(j) \in ConnType /\ Closed(j) \in Carried /\ Closed(j).client = k.client
    BY <1>4 DEF Closed, Carried, ConnType, Status
  <2> HIDE DEF got
  <2>3. CASE s # <<>>
    <3>1. x = Read(got, Tail(s), TRUE)
      BY <1>4, <2>3 DEF Body, got
    <3>2. x.conn = got /\ x.in = Tail(s)
      BY <3>1 DEF Read
    <3>3. QED
      BY <1>2, <2>1, <2>3, <3>2
  <2>4. CASE s = <<>>
    <3>1. x \in {Read(j, s, TRUE), Read(Closed(j), s, TRUE), Read(j, s, FALSE)}
      BY <1>4, <2>4 DEF Body
    <3>2. x.in = s /\ x.conn \in {j, Closed(j)}
      BY <3>1 DEF Read
    <3>3. QED
      BY <1>4, <2>2, <3>2
  <2>5. QED
    BY <2>3, <2>4
<1>5. CASE k.status \in Asked /\ in = <<>>
  <2>1. r = Read(IF Gone(k.client) THEN Closed(k) ELSE k, in, TRUE)
    BY <1>5 DEF AsyncReceive, in
  <2>2. r.in = in /\ r.conn \in {k, Closed(k)}
    BY <2>1 DEF Read
  <2>3. Closed(k) \in ConnType /\ Closed(k) \in Carried /\ Closed(k).client = k.client
    BY <1>3 DEF Closed, Carried, ConnType, Status
  <2>4. QED
    BY <1>1, <1>3, <2>2, <2>3
<1>6. CASE k.status \in Asked /\ in # <<>>
  <2> DEFINE j == [k EXCEPT !.status = "receiving", !.late = FALSE]
  <2>1. j \in Carried /\ j \in ConnType /\ j.client = k.client
    BY <1>3 DEF Carried, ConnType, Status
  <2>2. r \in Body(j, Tail(in))
    BY <1>6 DEF AsyncReceive, in
  <2> HIDE DEF j
  <2>3. QED
    BY <1>1, <1>2, <1>4, <1>6, <2>1, <2>2
<1>7. CASE k.status \notin Asked /\ k.late
  <2>1. r = Read(Closed(k), in, TRUE)
    BY <1>7 DEF AsyncReceive, in
  <2>2. r.in = in /\ r.conn = Closed(k)
    BY <2>1 DEF Read
  <2>3. Closed(k) \in ConnType /\ Closed(k) \in Carried /\ Closed(k).client = k.client
    BY <1>3 DEF Closed, Carried, ConnType, Status
  <2>4. QED
    BY <1>1, <2>2, <2>3
<1>8. CASE k.status \notin Asked /\ ~k.late
  <2>1. r \in Body(k, in)
    BY <1>8 DEF AsyncReceive, in
  <2>2. QED
    BY <1>1, <1>3, <1>4, <2>1
<1>9. QED
  BY <1>5, <1>6, <1>7, <1>8


LEMMA VisitSteps ==
  ASSUME IInv, NEW w \in Worker, VisitReceive(w) \/ VisitSend(w) \/ DrainSend(w),
         UNCHANGED <<main, accepted, order, backlog, client>>
  PROVE  IInv'
<1>1. TypeClients
  BY DEF IInv
<1>2. CASE VisitSend(w) \/ DrainSend(w)
  <2>1. /\ worker[w].todo # <<>> /\ worker[w].at \in {"serve", "drain"} /\ Next1(w)
        /\ \E a \in AsyncSend(Now(w)) : Sets(w, a.conn, inbox[a.conn.client], a.out)
    BY <1>2 DEF VisitSend, DrainSend
  <2>2. PICK a \in AsyncSend(Now(w)) : Sets(w, a.conn, inbox[a.conn.client], a.out)
    BY <2>1
  <2>3. Now(w) \in Carried
    BY <2>1, ToNext DEF Carried, ConnType
  <2>4. a.conn \in ConnType /\ a.conn.client = Now(w).client /\ outbox[a.conn.client] + a.out \in 0..SocketRoom
    BY <1>1, <2>3, SendGives
  <2>5. inbox[a.conn.client] \in Seq({"len", "body"})
    BY <1>1, <2>3, <2>4 DEF TypeClients, Carried
  <2>6. QED
    BY <2>1, <2>2, <2>4, <2>5, Visits
<1>3. CASE VisitReceive(w)
  <2>1. worker[w].todo # <<>> /\ worker[w].at = "serve"
    BY <1>3 DEF VisitReceive
  <2>2. PICK r \in AsyncReceive(Now(w)) :
          IF ~r.ends THEN Goes(w, "spin") /\ UNCHANGED <<shared, pool, conn, inbox, outbox, closed>>
          ELSE /\ Next1(w)
               /\ IF r.conn.status = "received"
                  THEN \E a \in Answer(r.conn) : Sets(w, a.conn, r.in, a.out)
                  ELSE Sets(w, r.conn, r.in, 0)
    BY <1>3 DEF VisitReceive
  <2>3. CASE ~r.ends
    BY <2>1, <2>2, <2>3, SmallSteps
  <2>4. CASE r.ends /\ r.conn.status = "received"
    <3>1. Next1(w)
      BY <2>2, <2>4
    <3>2. PICK a \in Answer(r.conn) : Sets(w, a.conn, r.in, a.out)
      BY <2>2, <2>4
    <3>3. Now(w) \in ConnType /\ Now(w).client \in Client
      BY <2>1, <3>1, ToNext
    <3>4. r.conn \in Carried /\ r.conn.client = Now(w).client /\ r.in \in Seq({"len", "body"})
      BY <1>1, <3>3, ReceiveGives
    <3> DEFINE k == [r.conn EXCEPT !.left = ReplyChunks, !.late = FALSE]
    <3>5. k \in Carried /\ k.client = Now(w).client
      <4>1. ASSUME NEW c \in Carried, NEW l \in 0..ReplyChunks
            PROVE  LET d == [c EXCEPT !.left = l, !.late = FALSE] IN d \in Carried /\ d.client = c.client
        BY DEF Carried
      <4>2. ReplyChunks \in 0..ReplyChunks
        BY SizeAssumption
      <4>3. QED
        BY <3>4, <4>1, <4>2
    <3>6. a \in AsyncSend(k)
      BY DEF Answer
    <3> HIDE DEF k
    <3>7. a.conn \in ConnType /\ a.conn.client = Now(w).client /\ outbox[a.conn.client] + a.out \in 0..SocketRoom
      BY <1>1, <3>5, <3>6, SendGives
    <3>8. QED
      BY <2>1, <3>1, <3>2, <3>4, <3>7, Visits
  <2>5. CASE r.ends /\ r.conn.status # "received"
    <3>1. Next1(w) /\ Sets(w, r.conn, r.in, 0)
      BY <2>2, <2>5
    <3>2. Now(w) \in ConnType /\ Now(w).client \in Client
      BY <2>1, <3>1, ToNext
    <3>3. r.conn \in ConnType /\ r.conn.client = Now(w).client /\ r.in \in Seq({"len", "body"})
      BY <1>1, <2>5, <3>2, ReceiveGives
    <3>4. outbox[r.conn.client] \in 0..SocketRoom /\ SocketRoom \in Nat
      BY <1>1, <3>2, <3>3, SizeAssumption DEF TypeClients
    <3>5. outbox[r.conn.client] + 0 \in 0..SocketRoom
      BY <3>4
    <3>6. QED
      BY <2>1, <3>1, <3>3, <3>5, Visits
  <2>6. QED
    BY <2>3, <2>4, <2>5
<1>4. QED
  BY <1>2, <1>3

(* A pool from which a connection is erased. *)
Erased(p, s) == [p EXCEPT !.keys = RemoveFirst(p.keys, s), !.freed = Append(p.freed, s)]
LEMMA ErasedFits ==
  ASSUME NEW p \in PoolType, PoolFits(p), NEW s \in Range(p.keys)
  PROVE  /\ Erased(p, s) \in PoolType /\ PoolFits(Erased(p, s))
         /\ Range(Erased(p, s).keys) = Range(p.keys) \ {s}
         /\ Len(Erased(p, s).keys) = Len(p.keys) - 1 /\ Len(p.keys) \in Nat /\ Len(p.keys) # 0
<1> DEFINE q == Erased(p, s)
           m == Len(p.keys)
           n == Len(p.freed)
<1>1. /\ p.keys \in Seq(Slot) /\ p.freed \in Seq(Slot) /\ IsInjective(p.keys) /\ IsInjective(p.freed)
      /\ Range(p.keys) \cap Range(p.freed) = {} /\ Range(p.keys) \cup Range(p.freed) = 1..(m + n)
      /\ m + n <= p.capacity
  BY DEF PoolFits, PoolType
<1>2. s \in Slot /\ m \in Nat /\ n \in Nat /\ m # 0
  BY <1>1, LenProperties DEF Range
<1>3. /\ RemoveFirst(p.keys, s) \in Seq(Slot) /\ IsInjective(RemoveFirst(p.keys, s))
      /\ Range(RemoveFirst(p.keys, s)) = Range(p.keys) \ {s} /\ Len(RemoveFirst(p.keys, s)) = m - 1
  BY <1>1, Removed
<1>4. /\ Append(p.freed, s) \in Seq(Slot) /\ IsInjective(Append(p.freed, s))
      /\ Range(Append(p.freed, s)) = Range(p.freed) \cup {s} /\ Len(Append(p.freed, s)) = n + 1
  BY <1>1, <1>2, Appended
<1>5. /\ q.keys = RemoveFirst(p.keys, s) /\ q.freed = Append(p.freed, s) /\ q.capacity = p.capacity
      /\ q \in PoolType
  BY <1>3, <1>4 DEF Erased, PoolType
<1> HIDE DEF m, n, q
<1>6. (m - 1) + (n + 1) = m + n
  BY <1>2
<1>7. /\ Len(q.keys) + Len(q.freed) = m + n /\ Range(q.keys) \cup Range(q.freed) = 1..(m + n)
      /\ Range(q.keys) \cap Range(q.freed) = {}
  BY <1>1, <1>3, <1>4, <1>5, <1>6
<1>8. PoolFits(q)
  BY <1>1, <1>3, <1>4, <1>5, <1>7 DEF PoolFits
<1>9. QED
  BY <1>2, <1>3, <1>5, <1>8 DEF q, m


(* A connection is erased: by a visit, which closes its socket, or by the  *)
(* end.                                                                    *)
LEMMA EraseStep ==
  ASSUME IInv, NEW w \in Worker, worker[w].todo # <<>>, worker[w].at \in {"serve", "drain"}, Next1(w),
         Erase(w, Visited(w)), closed \subseteq closed', closed' \subseteq closed \cup {Now(w).client},
         started => Now(w).client \in closed',
         UNCHANGED <<main, accepted, order, backlog, client>>
  PROVE  IInv'
<1> DEFINE s == Visited(w)
           c == Now(w).client
           p == Erased(pool[w], s)
           k == [conn[w] EXCEPT ![s] = Unused]
           f == fresh[w]
<1>1. /\ worker' = [worker EXCEPT ![w] = Passed(w)] /\ Passed(w) \in WorkerType
      /\ Passed(w).at = worker[w].at /\ s \in Range(pool[w].keys) /\ s \in Slot
      /\ IsInjective(Passed(w).todo) /\ Range(Passed(w).todo) \subseteq Range(pool[w].keys) \ {s}
      /\ c \in Client /\ conn[w][s].client = c /\ pool[w].keys # <<>>
      /\ c \in Pooled(pool[w], conn[w])
  BY ToNext DEF Now
<1>2. /\ TypeServer /\ TypeWorkers /\ MainInv /\ WorkersInv /\ ApartInv /\ PlaceInv /\ CountInv
      /\ TypeClients /\ ThreadInv
  BY DEF IInv, ServerInv
<1>3. /\ pool \in [Worker -> PoolType] /\ conn \in [Worker -> [Slot -> ConnType]]
      /\ fresh \in [Worker -> Seq(Client)] /\ perThread \in [Worker -> Nat] /\ groupNum \in Nat
      /\ Owns(pool[w], conn[w], f)
      /\ Does(worker[w], pool[w]) /\ Stops(worker[w], pool[w], started, main)
  BY <1>2 DEF TypeWorkers, TypeServer, WorkersInv
<1>4. /\ pool' = [pool EXCEPT ![w] = p] /\ conn' = [conn EXCEPT ![w] = k] /\ fresh' = [fresh EXCEPT ![w] = f]
      /\ perThread' = [perThread EXCEPT ![w] = @ - 1] /\ groupNum' = groupNum - 1
      /\ inbox' = [inbox EXCEPT ![c] = <<>>]
      /\ UNCHANGED <<started, threadNum, outbox>>
  <2>1. /\ pool' = [pool EXCEPT ![w].keys = RemoveFirst(@, s), ![w].freed = Append(@, s)]
        /\ conn' = [conn EXCEPT ![w][s] = Unused] /\ fresh' = fresh
        /\ perThread' = [perThread EXCEPT ![w] = @ - 1] /\ groupNum' = groupNum - 1
        /\ inbox' = [inbox EXCEPT ![conn[w][s].client] = <<>>]
        /\ UNCHANGED <<started, threadNum, outbox>>
    BY DEF Erase, Forget
  <2>2. pool' = [pool EXCEPT ![w] = p]
    BY <1>3, <2>1 DEF Erased, PoolType
  <2>3. conn' = [conn EXCEPT ![w] = k]
    BY <1>3, <2>1
  <2>4. fresh' = [fresh EXCEPT ![w] = f]
    BY <1>3, <2>1
  <2>5. QED
    BY <1>1, <2>1, <2>2, <2>3, <2>4
<1>5. k \in [Slot -> ConnType] /\ \A t \in Slot : t # s => k[t] = conn[w][t]
  <2>1. Unused \in ConnType
    BY SizeAssumption DEF Unused, ConnType, Status
  <2>2. QED
    BY <1>1, <1>3, <2>1
<1>6. /\ p \in PoolType /\ PoolFits(p) /\ Range(p.keys) = Range(pool[w].keys) \ {s}
      /\ Len(p.keys) = Len(pool[w].keys) - 1 /\ Len(pool[w].keys) \in Nat /\ Len(pool[w].keys) # 0
      /\ f \in Seq(Client) /\ Len(f) \in Nat
  <2>1. pool[w] \in PoolType /\ PoolFits(pool[w]) /\ f \in Seq(Client)
    BY <1>3 DEF Owns
  <2> HIDE DEF f, s
  <2>2. Len(f) \in Nat
    BY <2>1, LenProperties
  <2>3. QED
    BY <1>1, <2>1, <2>2, ErasedFits
<1>7. main # "end"
  BY <1>1, <1>3 DEF Stops
<1> HIDE DEF p, k, s, c, f
<1>8. Owns(p, k, f) /\ Pooled(p, k) = Pooled(pool[w], conn[w]) \ {c} /\ c \notin Range(f)
  <2> DEFINE R == Range(pool[w].keys)
             cl(t) == conn[w][t].client
  <2>1. /\ IsInjective(f) /\ \A t \in R : cl(t) \in Client \ Range(f)
        /\ \A t, u \in R : cl(t) = cl(u) => t = u
    BY <1>3 DEF Owns
  <2>2. s \in R /\ cl(s) = c
    BY <1>1
  <2>3. R \subseteq Slot
    <3>1. pool[w].keys \in Seq(Slot)
      BY <1>3 DEF PoolType
    <3>2. QED
      BY <3>1, LenProperties DEF Range
  <2>4. Range(p.keys) = R \ {s} /\ \A t \in R \ {s} : k[t].client = cl(t)
    BY <1>5, <1>6, <2>3
  <2>5. Pooled(p, k) = {k[t].client : t \in R \ {s}} /\ Pooled(pool[w], conn[w]) = {cl(t) : t \in R}
    BY <2>4 DEF Pooled
  <2> HIDE DEF cl, R
  <2>6. Pooled(p, k) = Pooled(pool[w], conn[w]) \ {c}
    BY <2>1, <2>2, <2>4, <2>5
  <2>7. Owns(p, k, f)
    BY <1>6, <2>1, <2>4 DEF Owns
  <2>8. QED
    BY <2>1, <2>2, <2>6, <2>7
<1>9. Range(f) \cup Pooled(p, k) = Mine(w) \ {c} /\ c \in Mine(w)
  BY <1>1, <1>8 DEF Mine, f
<1>10. Does(Passed(w), p) /\ Stops(Passed(w), p, started, main)
  BY <1>1, <1>3, <1>6, <1>7 DEF Does, Stops
<1>11. /\ fresh' \in [Worker -> Seq(Client)] /\ TypeWorkers' /\ MainInv' /\ WorkersInv' /\ ApartInv'
       /\ Held' = (Held \ Mine(w)) \cup (Range(f) \cup Pooled(p, k))
  <2>1. Range(f) \cup Pooled(p, k) \subseteq Mine(w)
    BY <1>9
  <2>2. QED
    BY <1>1, <1>2, <1>4, <1>5, <1>6, <1>8, <1>10, <2>1, WorkerStep
<1>12. Held' = Held \ {c} /\ c \in Held
  <2>1. Mine(w) \subseteq Held
    BY DEF Held
  <2>2. QED
    BY <1>9, <1>11, <2>1
<1>13. groupNum' = Cardinality(Held') /\ groupNum' \in Nat /\ groupNum' <= MaxConnections
  <2>1. groupNum = Cardinality(Held) /\ groupNum <= MaxConnections /\ MaxConnections \in Nat
    BY <1>2, <1>7, SizeAssumption DEF CountInv
  <2>2. IsFiniteSet(Held)
    BY <1>2, HeldFinite
  <2>3. Cardinality(Held \ {c}) = Cardinality(Held) - 1 /\ Cardinality(Held \ {c}) \in Nat
    BY <1>12, <2>2, FS_RemoveElement, FS_CardinalityType
  <2>4. QED
    BY <1>3, <1>4, <1>12, <2>1, <2>3
<1>14. \A v \in Worker : perThread'[v] \in Nat /\ perThread'[v] = Len(fresh'[v]) + Len(pool'[v].keys)
  <2>1. \A v \in Worker : perThread[v] = Len(fresh[v]) + Len(pool[v].keys) /\ perThread[v] \in Nat
    BY <1>2, <1>3, <1>7 DEF CountInv
  <2>2. perThread'[w] = perThread[w] - 1 /\ fresh'[w] = f /\ pool'[w] = p
    BY <1>3, <1>4
  <2>3. \A v \in Worker : v # w => perThread'[v] = perThread[v] /\ fresh'[v] = fresh[v] /\ pool'[v] = pool[v]
    BY <1>3, <1>4
  <2>4. perThread[w] = Len(f) + Len(pool[w].keys)
    BY <2>1 DEF f
  <2>5. perThread'[w] \in Nat /\ perThread'[w] = Len(f) + Len(p.keys)
    <3>1. \A a, b \in Nat : b # 0 => a + b - 1 \in Nat /\ a + b - 1 = a + (b - 1)
      OBVIOUS
    <3>2. QED
      BY <1>6, <2>2, <2>4, <3>1
  <2>6. QED
    BY <2>1, <2>2, <2>3, <2>5
<1>15. CountInv'
  BY <1>13, <1>14 DEF CountInv
<1>16. TypeServer'
  <2>1. perThread' \in [Worker -> Nat]
    BY <1>3, <1>4, <1>14
  <2>2. QED
    BY <1>2, <1>4, <1>11, <1>13, <2>1 DEF TypeServer
<1>17. PlaceInv'
  BY <1>2, <1>4, <1>12 DEF PlaceInv, c
<1>18. TypeClients'
  <2>1. <<>> \in Seq({"len", "body"})
    BY EmptySeq
  <2>2. inbox' \in [Client -> Seq({"len", "body"})]
    BY <1>1, <1>2, <1>4, <2>1 DEF TypeClients
  <2>3. closed' \subseteq Client
    BY <1>1, <1>2 DEF TypeClients, c
  <2>4. QED
    BY <1>2, <1>4, <2>2, <2>3 DEF TypeClients
<1>19. ThreadInv'
  BY <1>1, <1>2, <1>4, RunsOn
<1>20. QED
  BY <1>11, <1>15, <1>16, <1>17, <1>18, <1>19 DEF IInv, ServerInv


(* The sockets that were dealt out become connections. *)
Fills(p, k, f, q, j, place) ==
  /\ place \in [DOMAIN f -> Slot] /\ IsInjective(place)
  /\ Range(q.keys) = Range(p.keys) \cup Range(place) /\ Range(p.keys) \cap Range(place) = {}
  /\ \A s \in Slot \ Range(place) : j[s] = k[s]
  /\ \A i \in DOMAIN f : j[place[i]].client = f[i]
LEMMA TookOwns ==
  ASSUME NEW p \in PoolType, NEW k \in [Slot -> ConnType], NEW f \in Seq(Client), Owns(p, k, f),
         NEW q \in PoolType, PoolFits(q), NEW j \in [Slot -> ConnType], NEW place,
         Fills(p, k, f, q, j, place)
  PROVE  Owns(q, j, <<>>) /\ Range(<<>>) \cup Pooled(q, j) = Range(f) \cup Pooled(p, k)
<1>0. /\ place \in [DOMAIN f -> Slot] /\ Range(q.keys) = Range(p.keys) \cup Range(place)
      /\ Range(p.keys) \cap Range(place) = {} /\ \A s \in Slot \ Range(place) : j[s] = k[s]
      /\ \A i \in DOMAIN f : j[place[i]].client = f[i]
  BY DEF Fills
<1> DEFINE R == Range(p.keys)
           D == DOMAIN f
           cl(s) == k[s].client
           new(s) == j[s].client
<1>1. /\ IsInjective(f) /\ \A s \in R : cl(s) \in Client \ Range(f)
      /\ \A s, t \in R : cl(s) = cl(t) => s = t
      /\ \A c : c \in Pooled(p, k) <=> \E s \in R : c = cl(s)
  BY DEF Owns, Pooled
<1>2. R \subseteq Slot
  <2>1. p.keys \in Seq(Slot)
    BY DEF PoolType
  <2>2. QED
    BY <2>1, LenProperties DEF Range
<1>3. /\ (\A i \in D : place[i] \in Range(place)) /\ (\A s \in Range(place) : \E i \in D : s = place[i])
      /\ (\A i \in D : f[i] \in Range(f) /\ f[i] \in Client) /\ (\A c \in Range(f) : \E i \in D : c = f[i])
  <2>1. DOMAIN place = D
    BY <1>0
  <2>2. \A i \in D : f[i] \in Client
    BY LenProperties
  <2>3. QED
    BY <2>1, <2>2 DEF Range
<1>4. \A i, i2 \in D : f[i] = f[i2] => i = i2
  BY <1>1, Zenon DEF IsInjective
<1>5. \A s \in R : new(s) = cl(s)
  BY <1>0, <1>2
<1>6. \A i \in D : new(place[i]) = f[i]
  BY <1>0
<1>7. \A c : c \in Pooled(q, j) <=> \E s \in Range(q.keys) : c = new(s)
  BY DEF Pooled
<1>8. \A s : s \in Range(q.keys) <=> s \in R \/ s \in Range(place)
  BY <1>0
<1> HIDE DEF R, D, cl, new
<1>9. \A s : s \in Range(q.keys) <=> s \in R \/ \E i \in D : s = place[i]
  BY <1>3, <1>8
<1>10. \A c : c \in Pooled(q, j) <=> c \in Range(f) \/ c \in Pooled(p, k)
  <2>1. ASSUME NEW c \in Pooled(q, j) PROVE c \in Range(f) \/ c \in Pooled(p, k)
    <3>1. PICK s \in Range(q.keys) : c = new(s)
      BY <1>7
    <3>2. CASE s \in R
      BY <1>1, <1>5, <3>1, <3>2
    <3>3. CASE \E i \in D : s = place[i]
      BY <1>3, <1>6, <3>1, <3>3
    <3>4. QED
      BY <1>9, <3>2, <3>3
  <2>2. ASSUME NEW c \in Range(f) PROVE c \in Pooled(q, j)
    BY <1>3, <1>6, <1>7, <1>9
  <2>3. ASSUME NEW c \in Pooled(p, k) PROVE c \in Pooled(q, j)
    BY <1>1, <1>5, <1>7, <1>9
  <2>4. QED
    BY <2>1, <2>2, <2>3
<1>11. Range(<<>>) = {} /\ IsInjective(<<>>)
  BY DEF Range, IsInjective
<1>12. ASSUME NEW s \in Range(q.keys) PROVE new(s) \in Client
  <2>1. CASE s \in R
    BY <1>1, <1>5, <2>1
  <2>2. CASE \E i \in D : s = place[i]
    BY <1>3, <1>6, <2>2
  <2>3. QED
    BY <1>9, <2>1, <2>2
<1>13. ASSUME NEW s \in Range(q.keys), NEW t \in Range(q.keys), new(s) = new(t) PROVE s = t
  <2>1. CASE s \in R /\ t \in R
    BY <1>1, <1>5, <1>13, <2>1
  <2>2. ASSUME NEW i \in D, s = place[i], NEW i2 \in D, t = place[i2] PROVE s = t
    BY <1>4, <1>6, <1>13, <2>2
  <2>3. ASSUME NEW i \in D, s = place[i], t \in R PROVE FALSE
    BY <1>1, <1>3, <1>5, <1>6, <1>13, <2>3
  <2>4. ASSUME NEW i \in D, t = place[i], s \in R PROVE FALSE
    BY <1>1, <1>3, <1>5, <1>6, <1>13, <2>4
  <2>5. QED
    BY <1>9, <2>1, <2>2, <2>3, <2>4
<1>14. Owns(q, j, <<>>)
  BY <1>11, <1>12, <1>13 DEF Owns, new
<1>15. QED
  BY <1>10, <1>11, <1>14

LEMMA TakeFreshStep ==
  ASSUME IInv, NEW w \in Worker, worker[w].at \in {"lock", "serve"}, started, TakeFresh(w),
         UNCHANGED <<main, accepted, order, backlog, client>>
  PROVE  IInv'
<1> DEFINE old == pool[w].keys
           f == fresh[w]
           n == Len(f)
           m == Len(old)
           after == After(w)
           K == after.keys
           kk == Initialize(w, K)
           place == Given(w, K)
<1>1. /\ TypeServer /\ TypeWorkers /\ MainInv /\ WorkersInv /\ ApartInv /\ PlaceInv /\ CountInv
      /\ TypeClients /\ ThreadInv /\ ServerInv /\ main # "end"
  BY DEF IInv, ServerInv, MainInv
<1>2. /\ f \in Seq(Client) /\ Owns(pool[w], conn[w], f) /\ PoolFits(pool[w]) /\ pool[w] \in PoolType
      /\ conn[w] \in [Slot -> ConnType] /\ pool[w].keys \in Seq(Slot)
  BY <1>1 DEF TypeServer, TypeWorkers, WorkersInv, Owns, PoolType
<1>3. m \in Nat /\ n \in Nat /\ DOMAIN f = 1..n
  BY <1>2, LenProperties
<1>4. m + n <= MaxConnections
  BY <1>1, WithinLimit
<1>5. /\ \A i \in 1..n : Fits(Taking(w)[i - 1])
      /\ PoolFits(after) /\ Len(K) = m + n /\ \A i \in 1..m : K[i] = old[i]
  <2>1. fresh[w] \in Seq(Client) /\ PoolFits(pool[w]) /\ Len(pool[w].keys) + Len(fresh[w]) <= MaxConnections
    BY <1>2, <1>4
  <2>2. /\ \A i \in 1..Len(fresh[w]) : Fits(Taking(w)[i - 1])
        /\ PoolFits(After(w)) /\ Len(After(w).keys) = Len(pool[w].keys) + Len(fresh[w])
        /\ \A j \in 1..Len(pool[w].keys) : After(w).keys[j] = pool[w].keys[j]
    BY <2>1, Taken
  <2>3. QED
    BY <2>2
<1>6. after \in PoolType /\ K \in Seq(Slot) /\ IsInjective(K)
  BY <1>5 DEF PoolFits, PoolType
<1>7. /\ fresh' = [fresh EXCEPT ![w] = <<>>]
      /\ pool' = [pool EXCEPT ![w] = after] /\ conn' = [conn EXCEPT ![w] = kk]
      /\ worker' = [worker EXCEPT ![w] = [at |-> "serve", todo |-> K]]
      /\ UNCHANGED <<started, groupNum, perThread, threadNum, inbox, outbox, closed>>
  <2>1. ~ \E i \in DOMAIN f : ~Fits(Taking(w)[i - 1])
    BY <1>3, <1>5
  <2>2. QED
    BY <2>1 DEF TakeFresh, Serves, After
<1>8. place = [i \in 1..n |-> K[m + i]]
  BY <1>3 DEF Given
<1> DEFINE wk == [at |-> "serve", todo |-> K]
<1>9. wk \in WorkerType /\ wk.at = "serve" /\ wk.todo = K
  BY <1>6 DEF WorkerType, Place
<1>10. worker' = [worker EXCEPT ![w] = wk]
  BY <1>7
<1> HIDE DEF old, n, m, after, K, kk, wk, place
<1>11. place \in [1..n -> Slot] /\ \A i \in 1..n : place[i] = K[m + i]
  <2>1. DOMAIN K = 1..(m + n) /\ \A i \in 1..(m + n) : K[i] \in Slot
    BY <1>5, <1>6, LenProperties
  <2>2. \A i \in 1..n : m + i \in 1..(m + n)
    BY <1>3
  <2>3. QED
    BY <1>8, <2>1, <2>2
<1>12. IsInjective(place) /\ Range(K) = Range(old) \cup Range(place) /\ Range(old) \cap Range(place) = {}
  <2>1. old \in Seq(Slot) /\ Len(old) = m
    BY <1>2 DEF old, m
  <2>2. place \in Seq(Slot) /\ Len(place) = n
    BY <1>3, <1>11, SeqDef, LenProperties
  <2>3. /\ old \o place \in Seq(Slot) /\ Len(old \o place) = m + n
        /\ \A i \in 1..(m + n) : (old \o place)[i] = IF i <= m THEN old[i] ELSE place[i - m]
    BY <2>1, <2>2, ConcatProperties
  <2>4. ASSUME NEW i \in 1..(m + n) PROVE K[i] = (old \o place)[i]
    <3>1. CASE i <= m
      BY <1>3, <1>5, <2>3, <3>1
    <3>2. CASE i > m
      <4>1. i - m \in 1..n /\ m + (i - m) = i /\ ~(i <= m)
        BY <1>3, <3>2
      <4>2. QED
        BY <1>11, <2>3, <4>1
    <3>3. i <= m \/ i > m
      BY <1>3
    <3>4. QED
      BY <3>1, <3>2, <3>3
  <2>5. K = old \o place
    <3>1. DOMAIN K = 1..(m + n) /\ DOMAIN (old \o place) = 1..(m + n)
      BY <1>5, <1>6, <2>3, LenProperties
    <3> HIDE DEF old
    <3>2. QED
      BY <1>5, <1>6, <2>3, <2>4, SeqEqual
  <2>6. IsInjective(old \o place) /\ Range(old \o place) = Range(old) \cup Range(place)
    BY <1>6, <2>1, <2>2, <2>5, Joined
  <2>7. QED
    BY <2>1, <2>2, <2>5, <2>6, Apart
<1>13. place \in [DOMAIN f -> Slot]
  BY <1>3, <1>11
<1>14. /\ kk \in [Slot -> ConnType]
       /\ \A s \in Slot \ Range(place) : kk[s] = conn[w][s]
       /\ \A i \in DOMAIN f : kk[place[i]].client = f[i]
  BY <1>2, <1>12, <1>13, Initialized DEF kk, place
<1>15. Owns(after, kk, <<>>) /\ Range(<<>>) \cup Pooled(after, kk) = Range(f) \cup Pooled(pool[w], conn[w])
  <2>1. Fills(pool[w], conn[w], f, after, kk, place)
    BY <1>12, <1>13, <1>14 DEF Fills, K, old
  <2>2. /\ pool[w] \in PoolType /\ conn[w] \in [Slot -> ConnType] /\ f \in Seq(Client)
        /\ Owns(pool[w], conn[w], f) /\ after \in PoolType /\ PoolFits(after) /\ kk \in [Slot -> ConnType]
    BY <1>2, <1>5, <1>6, <1>14
  <2> HIDE DEF f
  <2>3. QED
    BY ONLY <2>1, <2>2, TookOwns
<1>16. Does(wk, after) /\ Stops(wk, after, started, main)
  BY <1>1, <1>6, <1>9 DEF Does, Stops, K
<1>17. Len(<<>>) + Len(after.keys) = Len(fresh[w]) + Len(pool[w].keys)
  <2>1. Len(<<>>) = 0 /\ Len(after.keys) = m + n /\ Len(fresh[w]) = n /\ Len(pool[w].keys) = m
    BY <1>5, EmptySeq DEF K, n, m, old
  <2>2. 0 + (m + n) = n + m
    BY <1>3
  <2>3. QED
    BY <2>1, <2>2
<1>18. Range(<<>>) \cup Pooled(after, kk) = Mine(w)
  BY <1>15 DEF Mine
<1>19. ServerInv'
  <2>1. <<>> \in Seq(Client)
    BY EmptySeq
  <2>2. QED
    BY <1>1, <1>6, <1>7, <1>9, <1>10, <1>14, <1>15, <1>16, <1>17, <1>18, <2>1, Keeps
<1>20. ThreadInv'
  BY <1>1, <1>7, <1>9, <1>10, RunsOn
<1>21. TypeClients'
  BY <1>1, <1>7 DEF TypeClients
<1>22. QED
  BY <1>19, <1>20, <1>21 DEF IInv

(* The steps of a worker: none of them loses or doubles a connection, or   *)
(* puts it out of the count.                                               *)
LEMMA WorkerSteps ==
  ASSUME IInv, NEW w \in Worker, Runs(w) \/ Wakes(w) \/ Crashes(w)
  PROVE  IInv'
<1>1. UNCHANGED <<main, accepted, order, backlog, client>>
  BY DEF Runs, Wakes, Crashes
<1>2. Stops(worker[w], pool[w], started, main)
  BY DEF IInv, ServerInv, WorkersInv
<1>3. CASE Begin(w) \/ StopSeen(w) \/ TryNothing(w) \/ DrainAgain(w) \/ Exit(w) \/ Wakes(w) \/ Crashes(w)
  BY <1>1, <1>3, SmallSteps DEF Wakes, Crashes
<1>4. CASE VisitReceive(w) \/ VisitSend(w) \/ DrainSend(w)
  BY <1>1, <1>4, VisitSteps
<1>5. CASE Take(w)
  <2>1. CASE started /\ fresh[w] # <<>> /\ TakeFresh(w)
    BY <1>1, <1>5, <2>1, TakeFreshStep DEF Take
  <2>2. CASE ~(started /\ fresh[w] # <<>> /\ TakeFresh(w))
    <3>1. \/ worker[w].at = "lock" /\ ~started /\ Drains(w) /\ UNCHANGED <<shared, pool, conn, inbox, outbox, closed>>
          \/ worker[w].at = "lock" /\ started /\ Goes(w, "asleep") /\ UNCHANGED <<shared, pool, conn, inbox, outbox, closed>>
      BY <1>5, <2>2 DEF Take
    <3>2. QED
      BY <1>1, <3>1, SmallSteps
  <2>3. QED
    BY <2>1, <2>2
<1>6. CASE TryTake(w)
  BY <1>1, <1>6, TakeFreshStep DEF TryTake
<1>7. CASE VisitErase(w)
  <2>1. /\ worker[w].at = "serve" /\ worker[w].todo # <<>> /\ Erase(w, Visited(w))
        /\ closed' = closed \cup {Now(w).client} /\ Next1(w)
    BY <1>7 DEF VisitErase
  <2>2. QED
    BY <1>1, <2>1, EraseStep
<1>8. CASE DrainErase(w)
  <2>1. worker[w].at = "drain" /\ worker[w].todo # <<>> /\ Erase(w, Visited(w)) /\ closed' = closed /\ Next1(w)
    BY <1>8 DEF DrainErase
  <2>2. ~started
    BY <1>2, <2>1 DEF Stops
  <2>3. QED
    BY <1>1, <2>1, <2>2, EraseStep
<1>9. QED
  BY <1>3, <1>4, <1>5, <1>6, <1>7, <1>8 DEF Runs, Steps

-----------------------------------------------------------------------------
(* The steps of the main thread. *)

LEMMA AcceptStep ==
  ASSUME IInv, Accept
  PROVE  IInv'
<1> DEFINE c == Head(backlog)
<1>1. /\ TypeServer /\ TypeWorkers /\ MainInv /\ WorkersInv /\ ApartInv /\ PlaceInv /\ CountInv
      /\ TypeClients /\ ThreadInv
  BY DEF IInv, ServerInv
<1>2. /\ main = "accept" /\ backlog # <<>> /\ Len(accepted) < BackLog /\ groupNum < MaxConnections
      /\ groupNum' = groupNum + 1 /\ accepted' = Append(accepted, c) /\ backlog' = Tail(backlog)
      /\ UNCHANGED <<started, perThread, fresh, threadNum, main, order, worker, pool, conn,
                     client, inbox, outbox, closed>>
  BY DEF Accept, RoomForMore, mine
<1>3. backlog \in Seq(Client) /\ accepted \in Seq(Client) /\ IsInjective(backlog) /\ IsInjective(accepted)
      /\ groupNum \in Nat /\ Range(accepted) \cap Range(backlog) = {}
  BY <1>1 DEF TypeServer, TypeClients, ApartInv
<1>4. /\ c \in Range(backlog) /\ c \in Client /\ Tail(backlog) \in Seq(Client)
      /\ IsInjective(Tail(backlog)) /\ Range(Tail(backlog)) = Range(backlog) \ {c}
  BY <1>2, <1>3, Tailed
<1> HIDE DEF c
<1>5. /\ accepted' \in Seq(Client) /\ Range(accepted') = Range(accepted) \cup {c} /\ IsInjective(accepted')
      /\ Len(accepted') = Len(accepted) + 1 /\ Len(accepted) \in Nat
  BY <1>2, <1>3, <1>4, Appended, LenProperties
<1>6. \A w \in Worker : Mine(w)' = Mine(w) /\ c \notin Mine(w)
  <2>1. \A w \in Worker : Mine(w)' = Mine(w)
    BY <1>2 DEF Mine
  <2>2. QED
    BY <1>1, <1>4, <2>1 DEF ApartInv
<1>7. Held' = Held \cup {c} /\ c \notin Held
  BY <1>3, <1>4, <1>5, <1>6 DEF Held
<1>8. groupNum' \in Nat /\ groupNum' <= MaxConnections /\ groupNum' = Cardinality(Held')
  <2>1. IsFiniteSet(Held) /\ groupNum = Cardinality(Held)
    BY <1>1, <1>2, HeldFinite DEF CountInv
  <2>2. Cardinality(Held \cup {c}) = Cardinality(Held) + 1
    BY <1>7, <2>1, FS_AddElement
  <2>3. Held' = Held \cup {c} /\ groupNum' = groupNum + 1 /\ groupNum < MaxConnections
        /\ groupNum \in Nat /\ MaxConnections \in Nat
    BY <1>2, <1>3, <1>7, SizeAssumption
  <2>4. Cardinality(Held') = groupNum + 1
    BY <2>1, <2>2, <2>3
  <2>5. groupNum + 1 \in Nat /\ groupNum + 1 <= MaxConnections
    BY <2>3
  <2>6. QED
    BY <2>3, <2>4, <2>5
<1>9. TypeServer'
  <2>1. Len(accepted') <= BackLog
    BY <1>2, <1>5, SizeAssumption
  <2>2. QED
    BY <1>1, <1>2, <1>5, <1>8, <2>1 DEF TypeServer
<1>10. TypeWorkers' /\ MainInv' /\ WorkersInv' /\ ThreadInv'
  BY <1>1, <1>2 DEF TypeWorkers, MainInv, WorkersInv, ThreadInv, Running
<1>11. ApartInv'
  BY <1>1, <1>2, <1>3, <1>4, <1>5, <1>6 DEF ApartInv
<1>12. PlaceInv'
  <2>1. Range(backlog') \cup Held' = Range(backlog) \cup Held
    BY <1>2, <1>4, <1>7
  <2>2. QED
    BY <1>1, <1>2, <2>1 DEF PlaceInv
<1>13. CountInv'
  BY <1>1, <1>2, <1>8 DEF CountInv
<1>14. TypeClients'
  BY <1>1, <1>2, <1>4 DEF TypeClients
<1>15. QED
  BY <1>9, <1>10, <1>11, <1>12, <1>13, <1>14 DEF IInv, ServerInv

LEMMA SortStep ==
  ASSUME IInv, Sort
  PROVE  IInv'
<1>1. /\ TypeServer /\ TypeWorkers /\ MainInv /\ WorkersInv /\ ApartInv /\ PlaceInv /\ CountInv
      /\ TypeClients /\ ThreadInv
  BY DEF IInv, ServerInv
<1>2. /\ main = "accept" /\ main' = "deal" /\ order' \in Orders
      /\ UNCHANGED <<started, groupNum, perThread, fresh, threadNum, accepted, worker, pool, conn,
                     backlog, client, inbox, outbox, closed>>
  BY DEF Sort, shared, mine, clientVars
<1>3. perThread \in [Worker -> Nat]
  BY <1>1 DEF TypeServer
<1>4. /\ order' \in [Worker -> [num : Nat, thread : Worker]]
      /\ \A i, j \in Worker : i < j => order'[i].num <= order'[j].num
  BY <1>2, <1>3 DEF Orders
<1>5. order' \in Seq([num : Nat, thread : Worker]) /\ order'[1].num <= order'[MaxThreads].num
  <2>1. MaxThreads \in Nat \ {0} /\ 1 \in Worker /\ MaxThreads \in Worker
    BY SizeAssumption DEF Worker
  <2>2. order' \in Seq([num : Nat, thread : Worker])
    <3> DEFINE T == [num : Nat, thread : Worker]
    <3>1. order' \in [1..MaxThreads -> T]
      BY <1>4 DEF Worker
    <3> HIDE DEF T
    <3>2. order' \in Seq(T)
      BY <2>1, <3>1, SeqDef
    <3>3. QED
      BY <3>2 DEF T
  <2>3. CASE MaxThreads = 1
    <3>1. order'[1].num \in Nat
      BY <1>4, <2>1
    <3>2. QED
      BY <2>2, <2>3, <3>1
  <2>4. CASE MaxThreads # 1
    BY <1>4, <2>1, <2>2, <2>4
  <2>5. QED
    BY <2>3, <2>4
<1>6. TypeServer' /\ MainInv'
  BY <1>1, <1>2, <1>4, <1>5 DEF TypeServer, MainInv
<1>7. Held' = Held /\ \A w \in Worker : Mine(w)' = Mine(w)
  BY <1>2 DEF Held, Mine
<1>8. ApartInv' /\ PlaceInv'
  BY <1>1, <1>2, <1>7 DEF ApartInv, PlaceInv
<1>9. CountInv' /\ TypeWorkers' /\ TypeClients' /\ ThreadInv'
  BY <1>1, <1>2, <1>7 DEF CountInv, TypeWorkers, TypeClients, ThreadInv, Running
<1>10. WorkersInv'
  BY <1>1, <1>2 DEF WorkersInv, Stops
<1>11. QED
  BY <1>6, <1>8, <1>9, <1>10 DEF IInv, ServerInv

(* Every socket that was accepted is dealt out to a worker. *)
LEMMA Receives ==
  ASSUME order \in [Worker -> [num : Nat, thread : Worker]], order[1].num <= order[MaxThreads].num,
         NEW k \in Nat \ {0}
  PROVE  Receiver(k) \in Worker
<1> DEFINE turn == Begins(MaxThreads)
           place == ((k - 1) % turn) + 1
           I == {j \in Worker : Begins(j) <= place}
           i == Cardinality(I)
<1>1. MaxThreads \in Nat \ {0} /\ Worker = 1..MaxThreads /\ 1 \in Worker /\ MaxThreads \in Worker
  BY SizeAssumption DEF Worker
<1>2. order[1].num \in Nat /\ order[MaxThreads].num \in Nat
  BY <1>1
<1>3. turn \in Nat \ {0} /\ Begins(1) = 1
  <2> DEFINE a == order[1].num
             z == order[MaxThreads].num
  <2>1. turn = z - a + MaxThreads /\ Begins(1) = a - a + 1
    BY DEF Begins
  <2>2. a \in Nat /\ z \in Nat /\ a <= z
    BY <1>2
  <2>3. MaxThreads \in Nat \ {0}
    BY <1>1
  <2> HIDE DEF a, z, turn
  <2>4. z - a \in Nat /\ a - a + 1 = 1
    BY ONLY <2>2
  <2>5. turn \in Nat \ {0}
    BY ONLY <2>1, <2>3, <2>4
  <2>6. QED
    BY ONLY <2>1, <2>4, <2>5
<1> HIDE DEF turn
<1>4. place \in Nat /\ 1 <= place
  <2>1. (k - 1) % turn \in 0..(turn - 1)
    BY <1>3, CounterWraps
  <2> DEFINE r == (k - 1) % turn
  <2> HIDE DEF r
  <2>2. r \in 0..(turn - 1)
    BY <2>1 DEF r
  <2>3. r + 1 \in Nat /\ 1 <= r + 1
    BY <1>3, <2>2
  <2>4. QED
    BY <2>3 DEF r
<1> HIDE DEF place
<1>5. 1 \in I /\ I \subseteq Worker
  BY <1>1, <1>3, <1>4
<1> HIDE DEF I
<1>6. IsFiniteSet(I) /\ i \in Nat /\ i <= MaxThreads /\ i # 0
  <2>1. IsFiniteSet(I) /\ i <= MaxThreads
    BY <1>5, WorkerFinite, FS_Subset
  <2>2. QED
    BY <1>5, <2>1, FS_CardinalityType, FS_EmptySet
<1> HIDE DEF i
<1>7. i \in Worker
  BY <1>1, <1>6
<1>8. order[i].thread \in Worker
  BY <1>7
<1>9. Receiver(k) = IF i = MaxThreads THEN MaxThreads ELSE order[i].thread
  BY DEF Receiver, i, I, place, turn
<1>10. QED
  BY <1>1, <1>8, <1>9

LEMMA DealingIs ==
  ASSUME fresh \in [Worker -> Seq(Client)], accepted \in Seq(Client),
         \A k \in 1..Len(accepted) : Receiver(k) \in Worker
  PROVE  /\ Dealing[0] = fresh
         /\ \A k \in 1..Len(accepted) : Dealing[k] = DealtOne(Dealing[k - 1], k)
<1> DEFINE n == Len(accepted)
           T == [Worker -> Seq(Client)]
           F == [k \in 1..n |-> [g \in T |-> DealtOne(g, k)]]
           Is(f) == f = [k \in 0..n |-> IF k = 0 THEN fresh ELSE DealtOne(f[k - 1], k)]
<1>1. n \in Nat /\ \A k \in 1..n : accepted[k] \in Client
  BY LenProperties
<1>2. F \in [1..n -> [T -> T]]
  <2> SUFFICES ASSUME NEW k \in 1..n, NEW g \in T PROVE DealtOne(g, k) \in T
    OBVIOUS
  <2> DEFINE r == Receiver(k)
             a == Append(g[r], accepted[k])
  <2>1. r \in Worker /\ g[r] \in Seq(Client) /\ a \in Seq(Client)
    BY <1>1, AppendProperties
  <2>2. DealtOne(g, k) = [g EXCEPT ![r] = a]
    BY DEF DealtOne
  <2> HIDE DEF r, a
  <2>3. QED
    BY <2>1, <2>2
<1> HIDE DEF n, F
<1>3. fresh \in T
  OBVIOUS
<1> HIDE DEF T
<1>4. PICK f \in [0..n -> T] : Recurs(f, n, fresh, F)
  BY <1>1, <1>2, <1>3, Recursion
<1>5. Is(f)
  <2> SUFFICES ASSUME NEW k \in 0..n PROVE f[k] = IF k = 0 THEN fresh ELSE DealtOne(f[k - 1], k)
    BY <1>4
  <2>1. CASE k = 0
    BY <1>4, <2>1 DEF Recurs
  <2>2. CASE k # 0
    <3>1. k \in 1..n /\ k - 1 \in 0..n
      BY <1>1, <2>2
    <3>2. f[k - 1] \in T
      BY <1>4, <3>1
    <3>3. F[k][f[k - 1]] = DealtOne(f[k - 1], k)
      BY <3>1, <3>2 DEF F
    <3>4. QED
      BY <1>4, <2>2, <3>1, <3>3 DEF Recurs
  <2>3. QED
    BY <2>1, <2>2
<1>6. Is(Dealing)
  BY <1>5 DEF Dealing, n
<1>7. Dealing[0] = fresh /\ \A k \in 1..n : Dealing[k] = DealtOne(Dealing[k - 1], k)
  <2>1. 0 \in 0..n /\ \A k \in 1..n : k \in 0..n /\ k # 0
    BY <1>1
  <2>2. \A k \in 0..n : Dealing[k] = IF k = 0 THEN fresh ELSE DealtOne(Dealing[k - 1], k)
    BY <1>6
  <2>3. QED
    BY <2>1, <2>2
<1>8. QED
  BY <1>7 DEF n

(* What the workers have been dealt of the first k sockets, each to one. *)
Shared(g, k) ==
  /\ g \in [Worker -> Seq(Client)]
  /\ \A w \in Worker : /\ IsInjective(g[w]) /\ Len(fresh[w]) <= Len(g[w])
                       /\ Range(fresh[w]) \subseteq Range(g[w])
                       /\ Range(g[w]) \subseteq Range(fresh[w]) \cup {accepted[j] : j \in 1..k}
  /\ \A v, w \in Worker : v # w => Range(g[v]) \cap Range(g[w]) = {}
  /\ \A j \in 1..k : \E w \in Worker : accepted[j] \in Range(g[w])
LEMMA DealtOut ==
  ASSUME TypeServer, WorkersInv, ApartInv, MainInv, main = "deal"
  PROVE  Shared(Dealt, Len(accepted))
<1> DEFINE n == Len(accepted)
           S == {k \in Nat : k <= n => Shared(Dealing[k], k)}
<1>1. /\ order \in [Worker -> [num : Nat, thread : Worker]] /\ order[1].num <= order[MaxThreads].num
      /\ fresh \in [Worker -> Seq(Client)] /\ accepted \in Seq(Client) /\ IsInjective(accepted)
  BY DEF MainInv, TypeServer, ApartInv
<1>2. \A w \in Worker : IsInjective(fresh[w]) /\ Range(fresh[w]) \cap Range(accepted) = {}
  BY DEF WorkersInv, Owns, ApartInv, Mine
<1>3. \A v, w \in Worker : v # w => Range(fresh[v]) \cap Range(fresh[w]) = {}
  BY DEF ApartInv, Mine
<1>4. n \in Nat /\ DOMAIN accepted = 1..n
  BY <1>1, LenProperties
<1>5. /\ \A k \in 1..n : accepted[k] \in Client /\ accepted[k] \in Range(accepted)
      /\ \A j, k \in 1..n : accepted[j] = accepted[k] => j = k
  <2>1. \A k \in 1..n : accepted[k] \in Client /\ accepted[k] \in Range(accepted)
    <3>1. \A k \in DOMAIN accepted : accepted[k] \in Client
      BY <1>1, Indices
    <3> HIDE DEF n
    <3>2. QED
      BY <1>4, <3>1 DEF Range
  <2>2. \A j, k \in 1..n : accepted[j] = accepted[k] => j = k
    BY <1>1, <1>4, Zenon DEF IsInjective
  <2>3. QED
    BY <2>1, <2>2
<1>6. \A k \in 1..n : Receiver(k) \in Worker
  <2>1. \A k \in 1..n : k \in Nat \ {0}
    BY <1>4
  <2>2. QED
    BY <1>1, <2>1, Receives
<1>7. /\ Dealing[0] = fresh
      /\ \A k \in 1..n : Dealing[k] = DealtOne(Dealing[k - 1], k)
  BY <1>1, <1>6, DealingIs
<1> HIDE DEF n
<1>8. 0 \in S
  <2>1. \A w \in Worker : Len(fresh[w]) <= Len(fresh[w])
    BY <1>1, LenProperties
  <2>2. 1..0 = {}
    OBVIOUS
  <2>3. Shared(fresh, 0)
    BY <1>1, <1>2, <1>3, <2>1, <2>2 DEF Shared
  <2>4. QED
    BY <1>7, <2>3
<1>9. ASSUME NEW k \in Nat, k \in S PROVE k + 1 \in S
  <2> SUFFICES ASSUME k + 1 <= n PROVE Shared(Dealing[k + 1], k + 1)
    OBVIOUS
  <2>1. k + 1 \in 1..n /\ (k + 1) - 1 = k /\ k <= n /\ 1..(k + 1) = 1..k \cup {k + 1} /\ k + 1 \notin 1..k
        /\ 1..k \subseteq 1..n
    BY <1>4
  <2> DEFINE g == Dealing[k]
             h == Dealing[k + 1]
             r == Receiver(k + 1)
             c == accepted[k + 1]
             first == {accepted[j] : j \in 1..k}
  <2>2. Shared(g, k)
    BY <1>9, <2>1
  <2>3. r \in Worker /\ c \in Client /\ c \in Range(accepted) /\ c \notin first
    BY <1>5, <1>6, <2>1
  <2>4. h = [g EXCEPT ![r] = Append(g[r], c)]
    BY <1>7, <2>1 DEF DealtOne
  <2>5. {accepted[j] : j \in 1..(k + 1)} = first \cup {c}
    BY <2>1
  <2>6. \A j \in 1..(k + 1) : j \in 1..k \/ accepted[j] = c
    BY <2>1
  <2> HIDE DEF g, h, r, c, first
  <2>7. /\ g \in [Worker -> Seq(Client)]
        /\ \A w \in Worker : /\ IsInjective(g[w]) /\ Len(fresh[w]) <= Len(g[w])
                             /\ Range(fresh[w]) \subseteq Range(g[w])
                             /\ Range(g[w]) \subseteq Range(fresh[w]) \cup first
        /\ \A v, w \in Worker : v # w => Range(g[v]) \cap Range(g[w]) = {}
        /\ \A j \in 1..k : \E w \in Worker : accepted[j] \in Range(g[w])
    BY <2>2 DEF Shared, first
  <2>8. \A w \in Worker : c \notin Range(g[w])
    BY <1>2, <2>3, <2>7
  <2>9. /\ Append(g[r], c) \in Seq(Client) /\ Range(Append(g[r], c)) = Range(g[r]) \cup {c}
        /\ Len(Append(g[r], c)) = Len(g[r]) + 1 /\ IsInjective(Append(g[r], c))
    BY <2>3, <2>7, <2>8, Appended
  <2> DEFINE a == Append(g[r], c)
  <2>10. /\ h \in [Worker -> Seq(Client)] /\ h[r] = a
         /\ \A w \in Worker : w # r => h[w] = g[w]
    BY <2>3, <2>4, <2>7, <2>9
  <2> HIDE DEF a
  <2>11. \A w \in Worker : Range(h[w]) = IF w = r THEN Range(g[w]) \cup {c} ELSE Range(g[w])
    BY <2>9, <2>10 DEF a
  <2>12. \A w \in Worker : IsInjective(h[w]) /\ Len(fresh[w]) <= Len(h[w])
    <3>1. Len(fresh[r]) <= Len(g[r]) /\ Len(fresh[r]) \in Nat /\ Len(g[r]) \in Nat /\ Len(h[r]) = Len(g[r]) + 1
      BY <1>1, <2>3, <2>7, <2>9, <2>10, LenProperties DEF a
    <3>2. Len(fresh[r]) <= Len(h[r])
      BY <3>1
    <3>3. QED
      BY <2>7, <2>9, <2>10, <3>2 DEF a
  <2> DEFINE F(w) == Range(fresh[w])
             G(w) == Range(g[w])
             H(w) == Range(h[w])
  <2>13. /\ \A w \in Worker : F(w) \subseteq G(w) /\ G(w) \subseteq F(w) \cup first /\ c \notin G(w)
         /\ \A v, w \in Worker : v # w => G(v) \cap G(w) = {}
         /\ \A w \in Worker : H(w) = IF w = r THEN G(w) \cup {c} ELSE G(w)
    BY <2>7, <2>8, <2>11
  <2> HIDE DEF F, G, H
  <2>14. \A w \in Worker : F(w) \subseteq H(w) /\ H(w) \subseteq F(w) \cup (first \cup {c})
    BY ONLY <2>13
  <2>15. \A v, w \in Worker : v # w => H(v) \cap H(w) = {}
    BY ONLY <2>13
  <2>16. \A j \in 1..(k + 1) : \E w \in Worker : accepted[j] \in Range(h[w])
    BY <2>3, <2>6, <2>7, <2>11
  <2>17. Shared(h, k + 1)
    BY <2>5, <2>10, <2>12, <2>14, <2>15, <2>16 DEF Shared, F, H
  <2>18. QED
    BY <2>17 DEF h
<1> HIDE DEF S
<1>10. \A k \in Nat : k \in S
  BY <1>8, <1>9, Induction
<1>11. n \in S /\ n <= n
  BY <1>4, <1>10
<1>12. QED
  BY <1>11 DEF S, n, Dealt

(* Those who are woken do, and have, what they did and had. *)
LEMMA Awoken ==
  ASSUME TypeWorkers, worker' = Awake(worker)
  PROVE  /\ worker' \in [Worker -> WorkerType] /\ Running' = Running
         /\ \A w \in Worker : Does(worker[w], pool[w]) => Does(worker'[w], pool[w])
         /\ \A on, m : \A w \in Worker :
              m # "end" /\ Stops(worker[w], pool[w], on, m) => Stops(worker'[w], pool[w], on, m)
<1>1. worker \in [Worker -> WorkerType]
  BY DEF TypeWorkers
<1>2. ASSUME NEW w \in Worker
      PROVE  /\ worker'[w] \in WorkerType /\ worker'[w].todo = worker[w].todo
             /\ worker'[w].at = IF worker[w].at = "asleep" THEN "lock" ELSE worker[w].at
  <2>1. worker'[w] = IF worker[w].at = "asleep" THEN [worker[w] EXCEPT !.at = "lock"] ELSE worker[w]
    BY DEF Awake
  <2>2. worker[w] \in WorkerType
    BY <1>1
  <2>3. QED
    BY <2>1, <2>2 DEF WorkerType, Place
<1>3. worker' \in [Worker -> WorkerType]
  <2>1. DOMAIN worker' = Worker /\ worker' = [w \in Worker |-> worker'[w]]
    BY DEF Awake
  <2>2. QED
    BY <1>2, <2>1
<1>4. Running' = Running
  BY <1>2 DEF Running
<1>5. ASSUME NEW w \in Worker, Does(worker[w], pool[w]) PROVE Does(worker'[w], pool[w])
  BY <1>2, <1>5 DEF Does
<1>6. ASSUME NEW w \in Worker, NEW on, NEW m, m # "end", Stops(worker[w], pool[w], on, m)
      PROVE  Stops(worker'[w], pool[w], on, m)
  BY <1>2, <1>6 DEF Stops
<1>7. QED
  BY <1>3, <1>4, <1>5, <1>6

LEMMA DealStep ==
  ASSUME IInv, Deal
  PROVE  IInv'
<1> DEFINE n == Len(accepted)
           A == Range(accepted)
           F(w) == Range(fresh[w])
           G(w) == Range(fresh'[w])
           P(w) == Pooled(pool[w], conn[w])
<1>1. /\ TypeServer /\ TypeWorkers /\ MainInv /\ WorkersInv /\ ApartInv /\ PlaceInv /\ CountInv
      /\ TypeClients /\ ThreadInv
  BY DEF IInv, ServerInv
<1>2. /\ main = "deal" /\ fresh' = Dealt /\ worker' = Awake(worker)
      /\ perThread' = [w \in Worker |-> perThread[w] + (Len(fresh'[w]) - Len(fresh[w]))]
      /\ accepted' = <<>> /\ order' = <<>> /\ main' = "accept"
      /\ UNCHANGED <<started, groupNum, threadNum, pool, conn, backlog, client, inbox, outbox, closed>>
  BY DEF Deal, clientVars
<1>3. Shared(fresh', n)
  BY <1>1, <1>2, DealtOut
<1>4. A = {accepted[j] : j \in 1..n}
  <2>1. DOMAIN accepted = 1..n
    BY <1>1, LenProperties DEF TypeServer
  <2> HIDE DEF n
  <2>2. QED
    BY <2>1 DEF Range
<1>5. /\ fresh' \in [Worker -> Seq(Client)]
      /\ \A w \in Worker : IsInjective(fresh'[w]) /\ Len(fresh[w]) <= Len(fresh'[w])
      /\ \A w \in Worker : F(w) \subseteq G(w) /\ G(w) \subseteq F(w) \cup A
      /\ \A v, w \in Worker : v # w => G(v) \cap G(w) = {}
      /\ \A c \in A : \E w \in Worker : c \in G(w)
  <2> HIDE DEF n, A
  <2>1. QED
    BY <1>3, <1>4 DEF Shared
<1>6. /\ \A w \in Worker : Mine(w) = F(w) \cup P(w) /\ Mine(w)' = G(w) \cup P(w)
      /\ \A c : c \in Held <=> c \in A \/ \E w \in Worker : c \in Mine(w)
      /\ \A c : c \in Held' <=> \E w \in Worker : c \in Mine(w)'
  <2>1. \A w \in Worker : Mine(w) = F(w) \cup P(w) /\ Mine(w)' = G(w) \cup P(w)
    BY <1>2 DEF Mine
  <2>2. Range(accepted') = {}
    BY <1>2 DEF Range
  <2>3. QED
    BY <2>1, <2>2 DEF Held
<1>7. /\ \A w \in Worker : Mine(w) \cap A = {} /\ Mine(w) \cap Range(backlog) = {}
      /\ \A v, w \in Worker : v # w => Mine(v) \cap Mine(w) = {}
      /\ A \cap Range(backlog) = {} /\ IsInjective(backlog)
  BY <1>1 DEF ApartInv
<1> HIDE DEF A, F, G, P
<1>8. \A c : c \in Held' <=> c \in Held
  <2>1. ASSUME NEW c \in Held' PROVE c \in Held
    BY <1>5, <1>6, <2>1
  <2>2. ASSUME NEW c \in Held PROVE c \in Held'
    <3>1. CASE c \in A
      BY <1>5, <1>6, <3>1
    <3>2. CASE \E w \in Worker : c \in Mine(w)
      BY <1>5, <1>6, <3>2
    <3>3. QED
      BY <1>6, <2>2, <3>1, <3>2
  <2>3. QED
    BY <2>1, <2>2
<1>9. Held' = Held
  BY <1>8
<1>10. ApartInv'
  <2>1. IsInjective(accepted') /\ Range(accepted') = {}
    BY <1>2 DEF Range, IsInjective
  <2>2. ASSUME NEW w \in Worker PROVE Mine(w)' \cap Range(backlog) = {}
    BY <1>5, <1>6, <1>7
  <2>3. ASSUME NEW v \in Worker, NEW w \in Worker, v # w PROVE Mine(v)' \cap Mine(w)' = {}
    <3>1. G(v) \cap G(w) = {} /\ G(v) \subseteq F(v) \cup A /\ G(w) \subseteq F(w) \cup A
      BY <1>5, <2>3
    <3>2. /\ Mine(v)' = G(v) \cup P(v) /\ Mine(w)' = G(w) \cup P(w)
          /\ Mine(v) = F(v) \cup P(v) /\ Mine(w) = F(w) \cup P(w)
      BY <1>6
    <3>3. Mine(v) \cap A = {} /\ Mine(w) \cap A = {} /\ Mine(v) \cap Mine(w) = {}
      BY <1>7, <2>3
    <3>4. QED
      BY <3>1, <3>2, <3>3
  <2>4. QED
    BY <1>2, <1>7, <2>1, <2>2, <2>3 DEF ApartInv
<1>11. worker' \in [Worker -> WorkerType] /\ Running' = Running
  BY <1>1, <1>2, Awoken
<1>12. WorkersInv'
  <2> SUFFICES ASSUME NEW w \in Worker
               PROVE  /\ Owns(pool[w], conn[w], fresh'[w]) /\ Does(worker'[w], pool[w])
                      /\ Stops(worker'[w], pool[w], started, main')
    BY <1>2 DEF WorkersInv
  <2>1. /\ Owns(pool[w], conn[w], fresh[w]) /\ Does(worker[w], pool[w])
        /\ Stops(worker[w], pool[w], started, main)
    BY <1>1 DEF WorkersInv
  <2>2. ASSUME NEW s \in Range(pool[w].keys) PROVE conn[w][s].client \in Client \ G(w)
    <3>1. conn[w][s].client \in P(w) /\ conn[w][s].client \in Client /\ conn[w][s].client \notin F(w)
      BY <2>1 DEF Owns, Pooled, P, F
    <3>2. conn[w][s].client \notin A
      BY <1>6, <1>7, <3>1
    <3>3. QED
      BY <1>5, <3>1, <3>2
  <2>3. Owns(pool[w], conn[w], fresh'[w])
    BY <1>5, <2>1, <2>2 DEF Owns, G
  <2>4. Stops(worker[w], pool[w], started, main')
    BY <1>2, <2>1 DEF Stops
  <2>5. QED
    BY <1>1, <1>2, <2>1, <2>3, <2>4, Awoken
<1>13. TypeWorkers' /\ ThreadInv' /\ MainInv' /\ TypeClients' /\ PlaceInv'
  BY <1>1, <1>2, <1>9, <1>11 DEF TypeWorkers, ThreadInv, MainInv, TypeClients, PlaceInv
<1>14. \A w \in Worker : perThread'[w] = Len(fresh'[w]) + Len(pool'[w].keys) /\ perThread'[w] \in Nat
  <2> TAKE w \in Worker
  <2>1. perThread[w] = Len(fresh[w]) + Len(pool[w].keys)
        /\ perThread'[w] = perThread[w] + (Len(fresh'[w]) - Len(fresh[w])) /\ pool'[w] = pool[w]
    BY <1>1, <1>2 DEF CountInv
  <2>2. Len(fresh[w]) \in Nat /\ Len(fresh'[w]) \in Nat /\ Len(pool[w].keys) \in Nat
    <3>1. fresh[w] \in Seq(Client) /\ pool[w].keys \in Seq(Slot) /\ fresh'[w] \in Seq(Client)
      BY <1>1, <1>5 DEF TypeServer, TypeWorkers, PoolType
    <3>2. QED
      BY <3>1, LenProperties
  <2>3. ASSUME NEW a \in Nat, NEW b \in Nat, NEW k \in Nat, NEW x, NEW y, x = a + k, y = x + (b - a)
        PROVE  y = b + k /\ y \in Nat
    BY <2>3
  <2> DEFINE a == Len(fresh[w])
             b == Len(fresh'[w])
             k == Len(pool[w].keys)
             x == perThread[w]
             y == perThread'[w]
  <2>4. a \in Nat /\ b \in Nat /\ k \in Nat /\ x = a + k /\ y = x + (b - a)
    BY <2>1, <2>2
  <2> HIDE DEF a, b, k, x, y
  <2>5. y = b + k /\ y \in Nat
    BY <2>3, <2>4
  <2>6. QED
    BY <2>1, <2>5 DEF y, b, k
<1>15. CountInv'
  BY <1>1, <1>2, <1>9, <1>14 DEF CountInv
<1>16. TypeServer'
  <2>1. perThread' \in [Worker -> Nat]
    BY <1>2, <1>14
  <2>2. <<>> \in Seq(Client) /\ <<>> \in Seq([num : Nat, thread : Worker]) /\ Len(<<>>) <= BackLog
    BY EmptySeq, SizeAssumption
  <2>3. QED
    BY <1>1, <1>2, <1>5, <2>1, <2>2 DEF TypeServer
<1>17. QED
  BY <1>10, <1>12, <1>13, <1>15, <1>16 DEF IInv, ServerInv

LEMMA NotifyStep ==
  ASSUME IInv, Notify
  PROVE  IInv'
<1>1. /\ TypeServer /\ TypeWorkers /\ MainInv /\ WorkersInv /\ ApartInv /\ PlaceInv /\ CountInv
      /\ TypeClients /\ ThreadInv
  BY DEF IInv, ServerInv
<1>2. /\ main = "accept" /\ accepted = <<>> /\ ~started /\ worker' = Awake(worker) /\ main' = "wait"
      /\ UNCHANGED <<started, groupNum, perThread, fresh, threadNum, accepted, order, pool, conn,
                     backlog, client, inbox, outbox, closed>>
  BY DEF Notify, shared, clientVars
<1>3. worker' \in [Worker -> WorkerType] /\ Running' = Running
  BY <1>1, <1>2, Awoken
<1>4. WorkersInv'
  <2> SUFFICES ASSUME NEW w \in Worker
               PROVE  /\ Owns(pool[w], conn[w], fresh[w]) /\ Does(worker'[w], pool[w])
                      /\ Stops(worker'[w], pool[w], started, main')
    BY <1>2 DEF WorkersInv
  <2>1. /\ Owns(pool[w], conn[w], fresh[w]) /\ Does(worker[w], pool[w])
        /\ Stops(worker[w], pool[w], started, main)
    BY <1>1 DEF WorkersInv
  <2>2. Stops(worker[w], pool[w], started, main') /\ main' # "end"
    BY <1>2, <2>1 DEF Stops
  <2>3. QED
    BY <1>1, <1>2, <2>1, <2>2, Awoken
<1>5. Held' = Held /\ \A w \in Worker : Mine(w)' = Mine(w)
  BY <1>2 DEF Held, Mine
<1>6. ApartInv' /\ PlaceInv' /\ CountInv'
  BY <1>1, <1>2, <1>5 DEF ApartInv, PlaceInv, CountInv
<1>7. TypeServer' /\ TypeWorkers' /\ TypeClients' /\ ThreadInv' /\ MainInv'
  BY <1>1, <1>2, <1>3 DEF TypeServer, TypeWorkers, TypeClients, ThreadInv, MainInv
<1>8. QED
  BY <1>4, <1>6, <1>7 DEF IInv, ServerInv

(* Clear finds no thread that runs, so that none has a connection.         *)
LEMMA FinishStep ==
  ASSUME IInv, Finish
  PROVE  IInv'
<1>1. /\ TypeServer /\ TypeWorkers /\ MainInv /\ WorkersInv /\ ApartInv /\ PlaceInv /\ CountInv
      /\ TypeClients /\ ThreadInv
  BY DEF IInv, ServerInv
<1>2. /\ main = "wait" /\ threadNum = 0 /\ main' = "end" /\ groupNum' = 0
      /\ fresh' = [w \in Worker |-> <<>>] /\ perThread' = [w \in Worker |-> 0]
      /\ UNCHANGED <<started, threadNum, accepted, order, worker, pool, conn,
                     backlog, client, inbox, outbox, closed>>
  BY DEF Finish, mine, clientVars
<1>3. ~started /\ accepted = <<>>
  BY <1>1, <1>2 DEF MainInv
<1>4. Running = {}
  BY <1>1, <1>2, RunningFinite, FS_EmptySet DEF ThreadInv
<1>5. ASSUME NEW w \in Worker PROVE worker[w].at \in {"start", "exit"} /\ pool[w].keys = <<>>
  <2>1. worker[w].at \in {"start", "exit"}
    BY <1>4 DEF Running
  <2>2. QED
    BY <1>1, <2>1 DEF WorkersInv, Does
<1>6. WorkersInv'
  <2> SUFFICES ASSUME NEW w \in Worker
               PROVE  /\ Owns(pool[w], conn[w], fresh'[w]) /\ Does(worker[w], pool[w])
                      /\ Stops(worker[w], pool[w], started, main')
    BY <1>2 DEF WorkersInv
  <2>1. /\ Owns(pool[w], conn[w], fresh[w]) /\ Does(worker[w], pool[w])
        /\ Stops(worker[w], pool[w], started, main)
    BY <1>1 DEF WorkersInv
  <2>2. Stops(worker[w], pool[w], started, main')
    BY <1>5, <2>1 DEF Stops
  <2>3. fresh'[w] = <<>> /\ Range(<<>>) = {} /\ IsInjective(<<>>)
    BY <1>2 DEF Range, IsInjective
  <2>4. Owns(pool[w], conn[w], fresh'[w])
    BY <2>1, <2>3 DEF Owns
  <2>5. QED
    BY <2>1, <2>2, <2>4
<1>7. (\A w \in Worker : Mine(w)' = {}) /\ Held' = {}
  <2>1. ASSUME NEW w \in Worker PROVE Mine(w)' = {}
    <3>1. fresh'[w] = <<>> /\ Range(<<>>) = {} /\ Range(pool'[w].keys) = {}
      BY <1>2, <1>5 DEF Range
    <3>2. QED
      BY <3>1 DEF Mine, Pooled
  <2>2. Range(accepted') = {}
    BY <1>2, <1>3 DEF Range
  <2>3. QED
    BY <2>1, <2>2 DEF Held
<1>8. ApartInv' /\ PlaceInv' /\ CountInv'
  BY <1>1, <1>2, <1>3, <1>7 DEF ApartInv, PlaceInv, CountInv
<1>9. TypeServer'
  <2>1. <<>> \in Seq(Client) /\ 0 \in Nat
    BY EmptySeq
  <2>2. fresh' \in [Worker -> Seq(Client)] /\ perThread' \in [Worker -> Nat]
    BY <1>2, <2>1
  <2>3. QED
    BY <1>1, <1>2, <2>1, <2>2 DEF TypeServer
<1>10. TypeWorkers' /\ TypeClients' /\ ThreadInv' /\ MainInv'
  BY <1>1, <1>2, <1>3 DEF TypeWorkers, TypeClients, ThreadInv, Running, MainInv
<1>11. QED
  BY <1>6, <1>8, <1>9, <1>10 DEF IInv, ServerInv

LEMMA StopStep ==
  ASSUME IInv, Stop
  PROVE  IInv'
<1>1. /\ TypeServer /\ TypeWorkers /\ MainInv /\ WorkersInv /\ ApartInv /\ PlaceInv /\ CountInv
      /\ TypeClients /\ ThreadInv
  BY DEF IInv, ServerInv
<1>2. /\ started' = FALSE
      /\ UNCHANGED <<groupNum, perThread, fresh, threadNum, main, accepted, order, worker, pool, conn,
                     backlog, client, inbox, outbox, closed>>
  BY DEF Stop, mine, clientVars
<1>3. Held' = Held /\ \A w \in Worker : Mine(w)' = Mine(w)
  BY <1>2 DEF Held, Mine
<1>4. ApartInv' /\ PlaceInv' /\ CountInv'
  BY <1>1, <1>2, <1>3 DEF ApartInv, PlaceInv, CountInv
<1>5. TypeServer' /\ TypeWorkers' /\ TypeClients' /\ ThreadInv' /\ MainInv'
  BY <1>1, <1>2 DEF TypeServer, TypeWorkers, TypeClients, ThreadInv, Running, MainInv
<1>6. WorkersInv'
  BY <1>1, <1>2 DEF WorkersInv, Stops
<1>7. QED
  BY <1>4, <1>5, <1>6 DEF IInv, ServerInv

-----------------------------------------------------------------------------
(* The steps of the clients, and time. *)

LEMMA ConnectStep ==
  ASSUME IInv, NEW c \in Client, Connect(c)
  PROVE  IInv'
<1>1. /\ TypeServer /\ TypeWorkers /\ MainInv /\ WorkersInv /\ ApartInv /\ PlaceInv /\ CountInv
      /\ TypeClients /\ ThreadInv
  BY DEF IInv, ServerInv
<1>2. /\ client[c].at = "new" /\ client' = [client EXCEPT ![c].at = "idle"] /\ backlog' = Append(backlog, c)
      /\ UNCHANGED <<started, groupNum, perThread, fresh, threadNum, main, accepted, order,
                     worker, pool, conn, inbox, outbox, closed>>
  BY DEF Connect, shared, mine
<1>3. backlog \in Seq(Client) /\ IsInjective(backlog) /\ c \notin Range(backlog) /\ c \notin Held
  BY <1>1, <1>2 DEF TypeClients, ApartInv, PlaceInv
<1>4. backlog' \in Seq(Client) /\ IsInjective(backlog') /\ Range(backlog') = Range(backlog) \cup {c}
  BY <1>2, <1>3, Appended
<1>5. Held' = Held /\ \A w \in Worker : Mine(w)' = Mine(w)
  BY <1>2 DEF Held, Mine
<1>6. ApartInv'
  <2>1. c \notin Range(accepted) /\ \A w \in Worker : c \notin Mine(w)
    BY <1>3 DEF Held
  <2>2. QED
    BY <1>1, <1>2, <1>4, <1>5, <2>1 DEF ApartInv
<1>7. PlaceInv'
  <2>1. /\ client'[c].at = "idle"
        /\ \A d \in Client : d # c => client'[d] = client[d]
    BY <1>1, <1>2 DEF TypeClients
  <2>2. QED
    BY <1>1, <1>2, <1>4, <1>5, <2>1 DEF PlaceInv
<1>8. TypeServer' /\ TypeWorkers' /\ ThreadInv' /\ MainInv' /\ CountInv' /\ WorkersInv'
  BY <1>1, <1>2, <1>5 DEF TypeServer, TypeWorkers, ThreadInv, Running, MainInv, CountInv, WorkersInv
<1>9. TypeClients'
  BY <1>1, <1>2, <1>4 DEF TypeClients
<1>10. QED
  BY <1>6, <1>7, <1>8, <1>9 DEF IInv, ServerInv

(* A client that goes on with its requests, or leaves, is where it was.    *)
LEMMA ClientSteps ==
  ASSUME IInv, NEW c \in Client, Send(c) \/ SendBody(c) \/ ReadReply(c) \/ Leave(c)
  PROVE  IInv'
<1>1. /\ TypeServer /\ TypeWorkers /\ MainInv /\ WorkersInv /\ ApartInv /\ PlaceInv /\ CountInv
      /\ TypeClients /\ ThreadInv
  BY DEF IInv, ServerInv
<1> DEFINE K == [at : {"new", "idle", "sending", "waiting", "left"}, made : 0..Requests, got : 0..(ReplyChunks - 1)]
           M == {"len", "body"}
<1>2. /\ UNCHANGED <<started, groupNum, perThread, fresh, threadNum, main, accepted, order,
                     worker, pool, conn, backlog, closed>>
  BY DEF Send, SendBody, ReadReply, Leave, shared, mine
<1>3. /\ client[c] \in K /\ client \in [Client -> K] /\ inbox \in [Client -> Seq(M)]
      /\ outbox \in [Client -> 0..SocketRoom]
      /\ SocketRoom \in Nat /\ Requests \in Nat /\ ReplyChunks \in Nat \ {0}
  BY <1>1, SizeAssumption DEF TypeClients
<1>4. \A m \in M : Append(inbox[c], m) \in Seq(M)
  <2> HIDE DEF M
  <2>1. QED
    BY <1>3, AppendProperties
<1>5. /\ \E k \in K : /\ client' = [client EXCEPT ![c] = k]
                      /\ k.at \in {"idle", "sending", "waiting"} => client[c].at \in {"idle", "sending", "waiting"}
                      /\ k.at # "new"
      /\ inbox' \in [Client -> Seq(M)] /\ outbox' \in [Client -> 0..SocketRoom]
  <2>1. CASE Send(c)
    <3> DEFINE k == [client[c] EXCEPT !.at = "sending", !.made = @ + 1]
    <3>1. client' = [client EXCEPT ![c] = k] /\ inbox' = [inbox EXCEPT ![c] = Append(@, "len")]
          /\ outbox' = outbox /\ client[c].at = "idle" /\ client[c].made < Requests
      BY <1>3, <2>1 DEF Send
    <3>2. k \in K /\ k.at = "sending"
      <4>1. \A x \in 0..Requests : x < Requests => x + 1 \in 0..Requests
        BY <1>3
      <4>2. client[c].made \in 0..Requests
        BY <1>3
      <4>3. client[c].made + 1 \in 0..Requests
        BY <3>1, <4>1, <4>2
      <4>4. QED
        BY <1>3, <4>3
    <3> HIDE DEF k, K, M
    <3>3. inbox' \in [Client -> Seq(M)]
      BY <1>3, <1>4, <3>1 DEF M
    <3>4. QED
      BY <1>3, <3>1, <3>2, <3>3
  <2>2. CASE SendBody(c)
    <3> DEFINE k == [client[c] EXCEPT !.at = "waiting"]
    <3>1. client' = [client EXCEPT ![c] = k] /\ inbox' = [inbox EXCEPT ![c] = Append(@, "body")]
          /\ outbox' = outbox /\ client[c].at = "sending"
      BY <1>3, <2>2 DEF SendBody
    <3>2. k \in K /\ k.at = "waiting"
      BY <1>3, <3>1
    <3> HIDE DEF k, K, M
    <3>3. inbox' \in [Client -> Seq(M)]
      BY <1>3, <1>4, <3>1 DEF M
    <3>4. QED
      BY <1>3, <3>1, <3>2, <3>3
  <2>3. CASE ReadReply(c)
    <3> DEFINE k == IF client[c].got + 1 = ReplyChunks THEN [client[c] EXCEPT !.at = "idle", !.got = 0]
                    ELSE [client[c] EXCEPT !.got = client[c].got + 1]
    <3>1. client' = [client EXCEPT ![c] = k] /\ outbox' = [outbox EXCEPT ![c] = @ - 1]
          /\ inbox' = inbox /\ client[c].at = "waiting" /\ outbox[c] > 0
      BY <1>3, <2>3 DEF ReadReply
    <3>2. outbox' \in [Client -> 0..SocketRoom]
      BY <1>3, <3>1
    <3>3. k \in K /\ k.at \in {"idle", "waiting"}
      <4>1. \A x \in 0..(ReplyChunks - 1) : x + 1 # ReplyChunks => x + 1 \in 0..(ReplyChunks - 1)
        BY <1>3
      <4>2. client[c].got \in 0..(ReplyChunks - 1) /\ 0 \in 0..(ReplyChunks - 1)
        BY <1>3
      <4>3. CASE client[c].got + 1 = ReplyChunks
        BY <1>3, <4>2, <4>3
      <4>4. CASE client[c].got + 1 # ReplyChunks
        <5>1. client[c].got + 1 \in 0..(ReplyChunks - 1)
          BY <4>1, <4>2, <4>4
        <5>2. QED
          BY <1>3, <3>1, <4>4, <5>1
      <4>5. QED
        BY <4>3, <4>4
    <3> HIDE DEF k, K, M
    <3>4. QED
      BY <1>3, <3>1, <3>2, <3>3
  <2>4. CASE Leave(c)
    <3> DEFINE k == [at |-> "left", made |-> 0, got |-> 0]
    <3>1. client' = [client EXCEPT ![c] = k] /\ inbox' = inbox /\ outbox' = outbox
      BY <1>3, <2>4 DEF Leave
    <3>2. k \in K /\ k.at = "left"
      BY <1>3
    <3> HIDE DEF k, K, M
    <3>3. QED
      BY <1>3, <3>1, <3>2
  <2>5. QED
    BY <2>1, <2>2, <2>3, <2>4
<1>6. Held' = Held /\ \A w \in Worker : Mine(w)' = Mine(w)
  BY <1>2 DEF Held, Mine
<1> HIDE DEF K, M
<1>7. PICK k \in K : /\ client' = [client EXCEPT ![c] = k]
                     /\ k.at \in {"idle", "sending", "waiting"} => client[c].at \in {"idle", "sending", "waiting"}
                     /\ k.at # "new"
  BY <1>5
<1>8. PlaceInv'
  <2>1. client'[c] = k /\ \A d \in Client : d # c => client'[d] = client[d]
    BY <1>3, <1>7
  <2>2. QED
    BY <1>1, <1>2, <1>6, <1>7, <2>1 DEF PlaceInv
<1>9. TypeServer' /\ TypeWorkers' /\ ThreadInv' /\ MainInv' /\ CountInv' /\ WorkersInv' /\ ApartInv'
  BY <1>1, <1>2, <1>6 DEF TypeServer, TypeWorkers, ThreadInv, Running, MainInv, CountInv, WorkersInv, ApartInv
<1>10. TypeClients'
  <2>1. client' \in [Client -> K]
    BY <1>3, <1>7
  <2>2. QED
    BY <1>1, <1>2, <1>5, <2>1 DEF TypeClients, K, M
<1>11. QED
  BY <1>8, <1>9, <1>10 DEF IInv, ServerInv

LEMMA ElapseStep ==
  ASSUME IInv, NEW w \in Worker, NEW s \in Slot, Elapse(w, s)
  PROVE  IInv'
<1> DEFINE late == [conn[w][s] EXCEPT !.late = TRUE]
           k == [conn[w] EXCEPT ![s] = late]
<1>1. /\ TypeServer /\ TypeWorkers /\ MainInv /\ WorkersInv /\ ApartInv /\ PlaceInv /\ CountInv
      /\ TypeClients /\ ThreadInv /\ ServerInv
  BY DEF IInv, ServerInv
<1>2. /\ conn' = [conn EXCEPT ![w][s].late = TRUE]
      /\ UNCHANGED <<started, groupNum, perThread, fresh, threadNum, main, accepted, order,
                     worker, pool, backlog, client, inbox, outbox, closed>>
  BY DEF Elapse, shared, clientVars
<1>3. conn \in [Worker -> [Slot -> ConnType]]
  BY <1>1 DEF TypeWorkers
<1>4. conn' = [conn EXCEPT ![w] = k]
  BY <1>2, <1>3
<1>5. k \in [Slot -> ConnType] /\ \A t \in Slot : k[t].client = conn[w][t].client
  <2>1. late \in ConnType /\ late.client = conn[w][s].client
    <3>1. ASSUME NEW x \in ConnType
          PROVE  [x EXCEPT !.late = TRUE] \in ConnType /\ [x EXCEPT !.late = TRUE].client = x.client
      BY DEF ConnType
    <3>2. conn[w][s] \in ConnType
      BY <1>3
    <3>3. QED
      BY <3>1, <3>2
  <2> HIDE DEF late
  <2>2. QED
    BY <1>3, <2>1
<1> HIDE DEF k
<1>6. conn' \in [Worker -> [Slot -> ConnType]] /\ \A v \in Worker, t \in Slot : conn'[v][t].client = conn[v][t].client
  BY <1>3, <1>4, <1>5
<1>7. \A v \in Worker : Range(pool[v].keys) \subseteq Slot
  <2>1. \A v \in Worker : pool[v].keys \in Seq(Slot)
    BY <1>1 DEF TypeWorkers, PoolType
  <2>2. QED
    BY <2>1, LenProperties DEF Range
<1>8. \A v \in Worker : Pooled(pool[v], conn'[v]) = Pooled(pool[v], conn[v])
                        /\ (Owns(pool[v], conn[v], fresh[v]) => Owns(pool[v], conn'[v], fresh[v]))
  <2> TAKE v \in Worker
  <2> DEFINE R == Range(pool[v].keys)
             a(t) == conn[v][t].client
             b(t) == conn'[v][t].client
  <2>1. \A t \in R : b(t) = a(t)
    BY <1>6, <1>7
  <2>2. /\ Pooled(pool[v], conn'[v]) = {b(t) : t \in R} /\ Pooled(pool[v], conn[v]) = {a(t) : t \in R}
        /\ Owns(pool[v], conn[v], fresh[v]) =>
             /\ PoolFits(pool[v]) /\ IsInjective(fresh[v])
             /\ \A t \in R : a(t) \in Client \ Range(fresh[v])
             /\ \A t, u \in R : a(t) = a(u) => t = u
        /\ (/\ PoolFits(pool[v]) /\ IsInjective(fresh[v])
            /\ \A t \in R : b(t) \in Client \ Range(fresh[v])
            /\ \A t, u \in R : b(t) = b(u) => t = u) => Owns(pool[v], conn'[v], fresh[v])
    BY DEF Pooled, Owns
  <2> HIDE DEF R, a, b
  <2>3. QED
    BY <2>1, <2>2
<1>9. Held' = Held /\ \A v \in Worker : Mine(v)' = Mine(v)
  <2>1. \A v \in Worker : Mine(v)' = Mine(v)
    BY <1>2, <1>8 DEF Mine
  <2>2. QED
    BY <1>2, <2>1 DEF Held
<1>10. WorkersInv'
  BY <1>1, <1>2, <1>8 DEF WorkersInv
<1>11. ApartInv' /\ PlaceInv' /\ CountInv'
  BY <1>1, <1>2, <1>9 DEF ApartInv, PlaceInv, CountInv
<1>12. TypeServer' /\ TypeWorkers' /\ TypeClients' /\ ThreadInv' /\ MainInv'
  BY <1>1, <1>2, <1>6 DEF TypeServer, TypeWorkers, TypeClients, ThreadInv, Running, MainInv
<1>13. QED
  BY <1>10, <1>11, <1>12 DEF IInv, ServerInv

-----------------------------------------------------------------------------
(* The inductive invariant holds, ... *)

LEMMA InitIInv ==
  ASSUME Init
  PROVE  IInv
<1>1. /\ started = TRUE /\ main = "accept" /\ accepted = <<>> /\ order = <<>>
      /\ groupNum = 0 /\ perThread = [w \in Worker |-> 0]
      /\ fresh = [w \in Worker |-> <<>>] /\ threadNum = 0
      /\ worker = [w \in Worker |-> [at |-> "start", todo |-> <<>>]]
      /\ pool = [w \in Worker |-> [keys |-> <<>>, freed |-> <<>>, capacity |-> InitialCapacity]]
      /\ conn = [w \in Worker |-> [s \in Slot |-> Unused]]
      /\ backlog = SetToSeq(Early) /\ closed = {}
      /\ inbox = [c \in Client |-> <<>>] /\ outbox = [c \in Client |-> 0]
      /\ client = [c \in Client |-> [at |-> IF c \in Early THEN "idle" ELSE "new", made |-> 0, got |-> 0]]
  BY DEF Init
<1>2. /\ \A S : <<>> \in Seq(S)
      /\ Range(<<>>) = {} /\ IsInjective(<<>>) /\ Len(<<>>) = 0
  <2>1. \A S : <<>> \in Seq(S)
    BY EmptySeq
  <2>2. Len(<<>>) = 0
    BY EmptySeq
  <2>3. QED
    BY <2>1, <2>2 DEF Range, IsInjective
<1>3. InitialCapacity \in 0..MaxConnections
  <2> DEFINE share == (MaxConnections + MaxThreads - 1) \div MaxThreads
             most == (share * 12) \div 10
  <2>1. InitialCapacity = IF most < MaxConnections THEN most ELSE MaxConnections
    BY DEF InitialCapacity
  <2>2. share \in Nat
    BY SizeAssumption
  <2> HIDE DEF share
  <2>3. most \in Nat
    BY <2>2
  <2> HIDE DEF most
  <2>4. QED
    BY <2>1, <2>3, SizeAssumption
<1>4. backlog \in Seq(Client) /\ IsInjective(backlog) /\ Range(backlog) = Early
  <2>1. IsFiniteSet(Early) /\ Early \subseteq Client
    BY ClientAssumption, FS_Subset
  <2>2. SetToSeq(Early) \in Seq(Early) /\ IsInjective(SetToSeq(Early)) /\ Range(SetToSeq(Early)) = Early
    BY <2>1, Listed
  <2>3. SetToSeq(Early) \in Seq(Client)
    BY <2>1, <2>2, SeqDef
  <2>4. QED
    BY <1>1, <2>2, <2>3
<1>5. ASSUME NEW w \in Worker
      PROVE  /\ pool[w] \in PoolType /\ PoolFits(pool[w]) /\ pool[w].keys = <<>> /\ fresh[w] = <<>>
             /\ worker[w] \in WorkerType /\ worker[w].at = "start" /\ worker[w].todo = <<>>
  <2>1. /\ pool[w].keys = <<>> /\ pool[w].freed = <<>> /\ pool[w].capacity = InitialCapacity
        /\ fresh[w] = <<>> /\ worker[w].at = "start" /\ worker[w].todo = <<>>
    BY <1>1
  <2>2. pool[w] \in PoolType
    BY <1>1, <1>2, <1>3 DEF PoolType
  <2>3. worker[w] \in WorkerType
    BY <1>1, <1>2 DEF WorkerType, Place
  <2>4. 1..(0 + 0) = {} /\ 0 + 0 <= InitialCapacity
    BY <1>3, SizeAssumption
  <2>5. PoolFits(pool[w])
    BY <1>2, <2>1, <2>2, <2>4 DEF PoolFits
  <2>6. QED
    BY <2>1, <2>2, <2>3, <2>5
<1>6. TypeServer
  <2>1. 0 <= BackLog
    BY SizeAssumption
  <2>2. fresh \in [Worker -> Seq(Client)] /\ perThread \in [Worker -> Nat]
    BY <1>1, <1>2
  <2>3. QED
    BY <1>1, <1>2, <2>1, <2>2 DEF TypeServer
<1>7. TypeWorkers
  <2>1. Unused \in ConnType
    BY SizeAssumption DEF Unused, ConnType, Status
  <2>2. conn \in [Worker -> [Slot -> ConnType]]
    BY <1>1, <2>1
  <2>3. pool \in [Worker -> PoolType] /\ worker \in [Worker -> WorkerType]
    <3>1. pool = [w \in Worker |-> pool[w]] /\ worker = [w \in Worker |-> worker[w]]
      BY <1>1
    <3>2. QED
      BY <1>5, <3>1
  <2>4. QED
    BY <2>2, <2>3 DEF TypeWorkers
<1>8. TypeClients
  <2>1. 0 \in 0..Requests /\ 0 \in 0..(ReplyChunks - 1) /\ 0 \in 0..SocketRoom
    BY SizeAssumption
  <2>2. inbox \in [Client -> Seq({"len", "body"})]
    BY <1>1, <1>2
  <2>3. QED
    BY <1>1, <1>4, <2>1, <2>2 DEF TypeClients
<1>9. (\A w \in Worker : Mine(w) = {}) /\ Held = {}
  <2>1. \A w \in Worker : Mine(w) = {}
    BY <1>2, <1>5 DEF Mine, Pooled
  <2>2. Range(accepted) = {}
    BY <1>1, <1>2
  <2>3. QED
    BY <2>1, <2>2 DEF Held
<1>10. MainInv /\ WorkersInv /\ ApartInv
  <2>1. MainInv
    BY <1>1 DEF MainInv
  <2>2. WorkersInv
    BY <1>1, <1>2, <1>5 DEF WorkersInv, Owns, Does, Stops
  <2>3. ApartInv
    BY <1>1, <1>2, <1>4, <1>9 DEF ApartInv
  <2>4. QED
    BY <2>1, <2>2, <2>3
<1>11. PlaceInv
  BY <1>1, <1>4, <1>9 DEF PlaceInv
<1>12. CountInv
  <2>1. \A w \in Worker : perThread[w] = 0 /\ Len(fresh[w]) = 0 /\ Len(pool[w].keys) = 0
    BY <1>1, <1>2, <1>5
  <2>2. Cardinality(Held) = 0 /\ 0 <= MaxConnections
    BY <1>9, FS_EmptySet, SizeAssumption
  <2>3. QED
    BY <1>1, <2>1, <2>2 DEF CountInv
<1>13. ThreadInv
  <2>1. Running = {}
    BY <1>5 DEF Running
  <2>2. QED
    BY <1>1, <2>1, FS_EmptySet DEF ThreadInv
<1>14. QED
  BY <1>6, <1>7, <1>8, <1>10, <1>11, <1>12, <1>13 DEF IInv, ServerInv

LEMMA NextIInv ==
  ASSUME IInv, [Next]_vars
  PROVE  IInv'
<1>1. CASE Main
  BY <1>1, AcceptStep, SortStep, DealStep, NotifyStep, FinishStep DEF Main
<1>2. CASE Stop
  BY <1>2, StopStep
<1>3. CASE \E w \in Worker : Runs(w) \/ Wakes(w) \/ Crashes(w)
  BY <1>3, WorkerSteps
<1>4. CASE \E c \in Client : Connect(c) \/ Send(c) \/ SendBody(c) \/ ReadReply(c) \/ Leave(c)
  BY <1>4, ConnectStep, ClientSteps
<1>5. CASE \E w \in Worker, s \in Slot : Elapse(w, s)
  BY <1>5, ElapseStep
<1>6. CASE UNCHANGED vars
  <2>1. UNCHANGED <<started, groupNum, perThread, fresh, threadNum, main, accepted, order,
                    worker, pool, conn, backlog, client, inbox, outbox, closed>>
    BY <1>6 DEF vars, shared, mine, clientVars
  <2>2. Held' = Held /\ \A w \in Worker : Mine(w)' = Mine(w)
    BY <2>1 DEF Held, Mine
  <2>3. ApartInv' /\ PlaceInv' /\ CountInv'
    BY <2>1, <2>2 DEF IInv, ServerInv, ApartInv, PlaceInv, CountInv
  <2>4. TypeServer' /\ TypeWorkers' /\ TypeClients' /\ MainInv' /\ WorkersInv'
    BY <2>1 DEF IInv, ServerInv, TypeServer, TypeWorkers, TypeClients, MainInv, WorkersInv
  <2>5. ThreadInv'
    BY <2>1 DEF IInv, ThreadInv, Running
  <2>6. QED
    BY <2>3, <2>4, <2>5 DEF IInv, ServerInv
<1>7. QED
  BY <1>1, <1>2, <1>3, <1>4, <1>5, <1>6 DEF Next

(* ... of a server whose threads sleep, are woken, serve and stop in any   *)
(* order (GroupRun, GroupDistributeConnection, GroupQuery).                *)
THEOREM GroupInvariant == Spec => []IInv
<1>1. Init => IInv
  BY InitIInv
<1>2. IInv /\ [Next]_vars => IInv'
  BY NextIInv
<1>3. QED
  BY <1>1, <1>2, PTL DEF Spec

-----------------------------------------------------------------------------
(* What follows from it. *)

(* Every variable keeps the type the model gives it; the count of threads  *)
(* does not wrap.                                                          *)
THEOREM GroupTypes == Spec => []TypeOK
<1>1. IInv => TypeOK
  <2> SUFFICES ASSUME IInv PROVE TypeOK
    OBVIOUS
  <2>1. TypeServer /\ TypeWorkers /\ TypeClients /\ ThreadInv
    BY DEF IInv, ServerInv
  <2>2. threadNum \in 0..(CounterRange - 1)
    <3>1. threadNum \in 0..MaxThreads
      BY <2>1, RunningFinite DEF ThreadInv
    <3>2. QED
      BY <3>1, SizeAssumption
  <2>3. QED
    BY <2>1, <2>2 DEF TypeOK, TypeServer, TypeWorkers, TypeClients, WorkerType, PoolType, ConnType, Place
<1>2. QED
  BY <1>1, GroupInvariant, PTL

(* The clients of each worker are the sockets dealt out to it and those of *)
(* its connections, all different.                                         *)
LEMMA HoldsMine ==
  ASSUME IInv, NEW w \in Worker
  PROVE  /\ Range(Holds(w)) = Mine(w) /\ IsInjective(Holds(w))
         /\ Len(Holds(w)) = Len(fresh[w]) + Len(pool[w].keys)
<1>1. /\ pool[w] \in PoolType /\ conn[w] \in [Slot -> ConnType] /\ fresh[w] \in Seq(Client)
      /\ Owns(pool[w], conn[w], fresh[w])
  BY DEF IInv, ServerInv, TypeServer, TypeWorkers, WorkersInv
<1> DEFINE q == [i \in DOMAIN pool[w].keys |-> conn[w][pool[w].keys[i]].client]
<1>2. Holds(w) = fresh[w] \o q
  BY DEF Holds, Clients
<1> HIDE DEF q
<1>3. /\ IsInjective(fresh[w] \o q) /\ Range(fresh[w] \o q) = Range(fresh[w]) \cup Pooled(pool[w], conn[w])
      /\ Len(fresh[w] \o q) = Len(fresh[w]) + Len(pool[w].keys)
  BY <1>1, InOrder DEF q
<1>4. QED
  BY <1>2, <1>3 DEF Mine

(* However connections are accepted, dealt out, taken over, closed by      *)
(* their clients, timed out or dropped by a stop, the two counts of        *)
(* connections are exact until Clear resets them.                          *)
THEOREM GroupCounts == Spec => []CountsConnections
<1>1. IInv => CountsConnections
  <2> SUFFICES ASSUME IInv, main # "end"
               PROVE  /\ \A w \in Worker : perThread[w] = Len(Holds(w))
                      /\ groupNum = Cardinality(Range(accepted) \cup UNION {Range(Holds(w)) : w \in Worker})
    BY DEF CountsConnections
  <2>1. \A w \in Worker : Range(Holds(w)) = Mine(w) /\ Len(Holds(w)) = Len(fresh[w]) + Len(pool[w].keys)
    BY HoldsMine
  <2>2. {Range(Holds(w)) : w \in Worker} = {Mine(w) : w \in Worker}
    BY <2>1
  <2>3. (\A w \in Worker : perThread[w] = Len(fresh[w]) + Len(pool[w].keys)) /\ groupNum = Cardinality(Held)
    BY DEF IInv, ServerInv, CountInv
  <2>4. QED
    BY <2>1, <2>2, <2>3 DEF Held
<1>2. QED
  BY <1>1, GroupInvariant, PTL

(* No socket is lost between the threads, and none is in two places.       *)
THEOREM GroupOneHolder == Spec => []OneHolder
<1>1. IInv => OneHolder
  <2> SUFFICES ASSUME IInv PROVE OneHolder
    OBVIOUS
  <2> DEFINE outside == accepted \o backlog
  <2>1. \A w \in Worker : Range(Holds(w)) = Mine(w) /\ IsInjective(Holds(w))
    BY HoldsMine
  <2>2. {Range(Holds(w)) : w \in Worker} = {Mine(w) : w \in Worker}
    BY <2>1
  <2>3. accepted \in Seq(Client) /\ backlog \in Seq(Client) /\ ApartInv /\ PlaceInv
    BY DEF IInv, ServerInv, TypeServer, TypeClients
  <2>4. Range(outside) = Range(accepted) \cup Range(backlog)
    BY <2>3, Joined
  <2>5. IsInjective(outside)
    BY <2>3, Apart DEF ApartInv
  <2>6. Held = Range(accepted) \cup UNION {Range(Holds(w)) : w \in Worker}
    BY <2>2 DEF Held
  <2> HIDE DEF outside
  <2>7. \A w \in Worker : Range(Holds(w)) \cap Range(outside) = {}
    BY <2>1, <2>3, <2>4 DEF ApartInv
  <2>8. \A v, w \in Worker : v # w => Range(Holds(v)) \cap Range(Holds(w)) = {}
    BY <2>1, <2>3 DEF ApartInv
  <2>9. started => \A c \in Client : client[c].at \in {"idle", "sending", "waiting"} =>
          c \in closed \cup Range(outside) \cup UNION {Range(Holds(w)) : w \in Worker}
    BY <2>3, <2>4, <2>6 DEF PlaceInv
  <2>10. QED
    BY <2>1, <2>5, <2>7, <2>8, <2>9 DEF OneHolder, outside
<1>2. QED
  BY <1>1, GroupInvariant, PTL

(* No worker ever asks its pool for more than it has room for: a push may  *)
(* make the pool grow, with what Relocated says of it, and never throws.   *)
THEOREM GroupNoPushThrows == Spec => []NoPushThrows
<1>1. IInv => NoPushThrows
  BY DEF IInv, ServerInv, WorkersInv, Does, NoPushThrows
<1>2. QED
  BY <1>1, GroupInvariant, PTL

(* No worker has a connection after Clear, even one that starts then.      *)
THEOREM GroupEnds == Spec => []NobodyServesAfterEnd
<1>1. IInv => NobodyServesAfterEnd
  BY DEF IInv, ServerInv, WorkersInv, Stops, NobodyServesAfterEnd
<1>2. QED
  BY <1>1, GroupInvariant, PTL
=============================================================================
