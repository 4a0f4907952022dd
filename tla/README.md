# MoonDb in TLA+

MoonDb (`src/moondb/src`) is a small database server in C++: tables whose rows
live in memory, addressed by an integer row id, behind a TCP server that speaks
a binary protocol.  This directory models the parts of it that carry its logic,
checks them with TLC on small instances and proves the central ones with TLAPS.

## The system

| Component | State | Operations | What makes it correct |
|---|---|---|---|
| `CFixedMap` (`cfixedmap.hpp`): the rows of a table | `Keys` (row id -> position, expiry), queue `Deleted` of freed positions, `Size`, `Capacity`, one block of memory | `at insert update replace erase`, lazy expiry, `collect_garbage`, `reserve` | one row per position, none lost, within the block; a live row is never disturbed; "full" is said only when it is true |
| `CFixedMemoryStorage` (`cfixedmemorystorage.hpp`): the table engine | a `CFixedMap` of cells, `AutoInc` | `InsertData UpdateData ReplaceData DeleteData GetData` | what clients read is what they wrote, per row id |
| Row layout (`CTable::GetFieldLength`, `ComputeFixedRowLength`, `GetInputValue`, `GetResult`, `CAny::Store`, `CPack`) | none | store, overwrite and read the fields of a row | writers and readers agree where each field is, and a row fits |
| Server, mode 1 (`AsyncRun`) | connections (`CQueue`), their status and buffer, `AsyncThreadNum`, queue of requests, worker threads | accept, receive, dispatch, query, send, time out, stop and drain | one owner per connection; every request is answered, by its own reply; a stop loses nothing and ends |
| Server, mode 2 (`GroupRun`) | connections per thread, new sockets per thread | distribute, serve, stop | no socket is lost; a stop ends |
| Server, mode 0 (`SynchRun`) | a pool of thread numbers and buffers | accept, serve one client per thread, stop | a buffer is used by one thread; numbers return |
| Schema cache and database locks (`GetDatabase`, `ApplyForMutex`, `NoSQLQuery`) | open databases, mutexes in use and for reuse | open, look up, lock for reading or writing | writers exclude everybody, locks are released |
| `CMultiMutex` | one lock per key | lock and unlock one or several keys, shared or not | mutual exclusion per key, no lost wake-up |
| Catalog (`CDatabase`, `CTable` on disk) | a directory with the users and a schema file per table; the users and tables in memory | create and open databases, tables and users | nobody has half a table; what is in memory is what is on disk |
| `CSQLParser` | the text, the reading position, the line, whether `SET` was seen | cut a text into tokens | the tokens are the text, and parsing ends |
| `CDecimal64` | a mantissa of 64 bits and a scale | from and to text and integers, change of scale, `+ - * /` | what is returned is the exact result, rounded in its last digit |
| `CDecimal128`, `CPack`, `CAny`, functions | none | conversions | round trips, no silent overflow |

They call each other downwards: a thread of the server receives a message into
a connection's `CPack`, `NoSQLQuery` finds the database and its table through
the schema cache, takes the database's lock (shared for a select, exclusive for
the rest), and calls the table engine, which finds the row through `CFixedMap`
and stores or reads it field by field; the result goes back into the same pack.
What the threads share is the connections and the queue between them (under
`ThreadMutex`), the schema cache (`SchemaMutex`), and each database (its mutex).

The hard behaviours are the recycling of rows under lazy, partly random expiry;
requests refused half-way; the layout that several pieces of code must agree
on; the hand-over of connections between threads; timeouts and clients that
leave; and the stop of a server whose threads are busy.  `PROJECT.json` lists
them line by line as hazards.

## The modules

**FixedMap** models `CFixedMap` with one action per operation.  Operations run
under the database's lock, so each is one step.  The walk of
`collect_garbage` over the hash map has an order of its own, so the positions
are queued in any order; the draw of 1 in 1001 that starts it is a free choice.
Time is a clock of ticks that passes between operations.  `reserve`, its clamp
to `MaxSize` and its error are operators (`Requested`, `ReserveThrows`,
`Reserved`) that the two inserting operations use.

**RowLayout** is the arithmetic of rows, as operators: `FieldLength` and
`Position` are what the table computes, `PutInOrder` is what an insert or a
replace stores, `PutAtPositions` what an update stores, and `ReadRow` what a
select reads.  The loops over the fields are functions defined by recursion on
the number of fields done; the two that write go through `Store` and throw
where `CPack` throws.  A value refused ends the request with an error; a text that is
no UTF-8 and too long for its field, which ends the process (`ciconv.hpp:468`), is left
out.  `Storable` says what the values `Store` accepts look like.  Bytes are abstracted to cells: one for an
integer, one for a length prefix (which for a CHAR is two prefixes in the code),
one per byte of a string.

**FixedStorage** composes the two into the table engine.  `rows` holds the
cells behind each position; memory that was never handed out may hold anything
(`RawRow`), and a recycled row starts with what was in it.  A value that
`Store` refuses stops a request half-way, which leaves the row as far as it was
stored; the history variable `torn` remembers the rows that were never stored to
their end.  `GetRowId` cuts ids to the width of their type.

**AbstractTable** states what the engine promises, without positions or cells:
a map from ids to rows, with the two things that keep it from being simpler (an
expired row lingers for the operations that write; a refused request leaves a
prefix).  `FixedStorage` implements it under the mapping `Table`
(`ImplementsTable`).  It is an abstraction of the engine, so its definitions
stand for no particular lines.

**AsyncServer** models the server in mode 1: the main thread as a program with
a place (`main`), a round of visits (`todo`) over the pool of connections, and
the workers with theirs.  One step is a visit of a connection by the main thread
(with the receive or send it makes, until the socket would block), a critical
section of `ThreadMutex`, or a worker's access to what is shared.  The pool
follows `CQueue`: freed connections are reused first in, first out.  Clients send
a length and a body, and read chunks of a reply through a socket that holds
`SocketRoom` of them, so that requests and replies arrive in parts.  Whether a
timeout went by is a flag of each connection that time sets and the code clears.
With no `Worker` the main thread answers by itself, as with `MaxThreads = 1`.
`Status` is not atomic in the code; the model relies on a worker's write of it
coming after the reply is in the buffer, which the build (x86) keeps.

**GroupServer** models mode 2, where the main thread only accepts and hands new
sockets to workers that each own a pool of connections.  `Deal` is a round of
`GroupDistributeConnection`: `Receiver(k)` says whom its nested loops give the k-th
socket, from the place at which each thread in the order of `Sort` begins; a worker
takes what it was given when it starts, when it is woken, or when `try_lock`
succeeds between two rounds of visits.  `CQueue`'s `reserve` and `push` are
operators, since a group's pool starts smaller than its limit and grows while
its worker holds it.  Growing moves the connections in use, and `CPack`, which has a
destructor but neither a copy nor a move constructor, frees the buffer of each while the
copy goes on to use it.  So a worker whose pool has grown may crash from then on
(`Relocated`, `Crash`), which ends the process; that it may also go on is the other
outcome, and what then is in a buffer is not represented, nor what is left in one from
an earlier message.  A worker visits one connection per step, with the receive or
send that it makes, as in AsyncServer.  A stop may come before a worker has begun
to run.

**SynchServer** models mode 0, one thread per connection.  The main thread draws
numbers from `SynchIdleThreadNum` and starts threads while a connection is
pending; a thread accepts (or does not, when another was quicker), and then
receives a length, a body, queries and sends, in a loop that only its client or
`WaitTimeout` ends; a client in `Asker` asks as often as it likes.  `recv` may return the first half of a length.  A request that
comes in parts with a pause between them makes a thread lose its step; `upset` remembers
the clients that may have, and `InStep` says nobody else is affected.

**QueryLock** models what happens between a request and its reply when several
threads answer: the two looks at the cache in `GetDatabase`, the lock, the row
found, erased if it expired, and its fields read or stored one by one, and the
ways out: an error with the lock returned, and a `logic_error` past the
handlers, which leaves the lock locked (`leaked`).  A select erases an expired row under
the shared lock.  When another select erased it since, or is at the same map meanwhile
(`Racing`), the map is damaged: the position is queued twice and an entry that is gone
erased, so that two rows may share a position later.  From then on the map holds anything
(`Havoc`), and an operation of it may not come back (`Lose`); that the process may end is
left out.  What clients see is stated by
**AtomicStore**, in which each query takes effect at one instant, and QueryLock
implements it under the mapping `Atomic`: a select happens when it finds its row, a
write when its last field is stored.  That is claimed until a map is damaged.

**Catalog** models what an administrator's program and the server do with one
directory.  Every system call is a step, and a process may end at any of them
or get an error, a write possibly when a part of it is done.

**SqlLexer** models `CSQLParser::Parse`: a step is a turn of its loop.  The text is
a sequence of pieces, a piece being a character, or a keyword where its letters do not
matter, so that a text of five pieces has a statement's shape.  A token is where it
begins and ends, its kind and its type.

**Decimal64** models `CDecimal64`.  The word is small (`MaxValue` = 97 instead of
2^63 - 1: two digits instead of nineteen), and the intermediate results, which
the code holds in 128 bits or a float of quadruple precision, are exact (`MaxDigits` is
a bound on their digits).  Powers of ten are a recursive function, `Ten`.  A result is
called rounded in its last digit when it differs from the exact one by at most 0.555 of
a unit of that digit, not 0.5: a quotient may lose two digits in `operator/` and one in
`MakeScaleEffective`, and is rounded each time.

`MC*` modules give the instances; MCCodecs is that of SqlLexer and Decimal64 both,
which do not interact.  Operators introduced as a faulty variant are
not part of the model: each breaks one definition the way a plausible bug would,
and is used to see that a property notices.

## The runs

| Run | What it shows | Bounds |
|---|---|---|
| `FixedMapExpiring` | positions stay partitioned, rows fit, "full" is true, live rows stay | 4 keys for 3 rows, block of 1 that must grow, 4 ticks, lifetime 2: the store fills, expires, collects and recycles |
| `StorageMixed` | the engine implements the abstract table; a row is as long as computed; integers are at their positions | a CHAR, an integer and a VARCHAR last, 2 ids, 1 row, serial ids that wrap and are cut to their width, refused values, 2 ticks |
| `StorageVarcharFirst` | **violated**: a number behind a VARCHAR is not at its `Position` | 2 fields |
| `AsyncPool` | one owner per connection, counts agree, the pool is consistent, replies reach their own client | 2 clients, 2 workers, 2 connections that change clients, 2 requests each, abandoned requests, a stop at any time |
| `AsyncLive` | who waits is answered or disconnected | 2 clients, 2 workers, 1 request each, no stop |
| `AsyncSingle` | a stop completes, a stalled request times out | no workers, 2 clients, refused, failed and empty requests, replies in 2 chunks, a stop at any time |
| `AsyncStopHangs` | **violated**: with workers a stop may hang | 1 client, 2 workers |
| `QueryShared` | writers exclude everybody and locks return; each query takes effect at one instant, and is answered, until a map is damaged | 2 threads, a database that may not open, 1 row, 3 queries with every operation, refused values, ids that are no numbers, a row that expires |
| `GroupWorkers` | connections have one group and are counted, the pool grows in time, nobody serves after the end; a stop completes and who waits is answered, unless a worker crashes | 3 clients: one that asks and may leave, one that idles until it is dropped, one that is early; 2 workers with 2 connections each, a backlog of 2, a stop at any time |
| `SynchThreads` | numbers of threads are conserved, threads stay in step, replies are in order, who was accepted is answered; a stop completes and pending clients are accepted, unless clients keep asking | 3 clients on 2 threads: one asks without end, splits requests, asks too long ones, pauses and leaves, one is not allowed, one says nothing; replies in 2 chunks |
| `CatalogCrash` | no half table, memory matches the disk, schemas stay, users differ | an administrator and a server, 2 tables, 3 openings, 1 user, 2 records |
| `Codecs` | tokens cover their text, parsing ends; arithmetic, texts and conversions of decimals are rounded, and a text comes back | texts of up to 5 pieces of six alphabets; numbers of 2 digits, scales -6 to 3, operands at the boundaries of rounding and of the range |

The bounds are the smallest at which every branch of the code is taken: a
position is recycled only after a store fills (one key more than rows), a
VARCHAR, a CHAR and an integer are the three ways a field is stored, two workers
are the least that can overlap, and a client that comes after another has left
is what makes a connection object change hands.  `CounterRange` stands for 2^32 and
is larger than any count reached, so that wrapping below zero is seen as what it
is.  `BackLog` is taken to be at least the number of clients.
Rows that never expire (`LifeTime` = 0) have no run of their own: the theorems
cover them.
Failed queries are left to `AsyncSingle`, since with a pool they only close the
connection, as clients that leave do in `AsyncPool`.

Each module's `TypeOK` holds in its runs as well, and is proved for all but SqlLexer and
Decimal64; the runs list the properties that say more.  In `GroupWorkers` three clients on two workers
are the least with which a worker gets its second connection while it serves the
first: its pool grows from one to two, and the worker may crash.  In `SynchThreads` a
client that asks without end needs no bound on its requests, only one on what it has
sent and not read yet (`Unread`); two threads are the least with which a thread is
started for a connection that another thread accepts.  `SynchAsking`, to be run by hand, has
two such clients that hold both threads while a third waits.  In `QueryShared` three
queries are those that damage a map: one that stores a row and two selects.  In `Codecs` five
pieces hold a token, a separator and a token with what ends it, and two digits
with scales ten apart are more than `MaxPrecision` apart.

Deadlock is checked wherever the system runs for ever; the runs of a server
that may stop, or whose main thread may be held, end in states without steps.

**Fairness.**  The main thread and each worker are scheduled weakly fairly, as
threads of a preemptive system are.  Time passes (weak fairness of `Elapse`), and
a client reads what it is sent and notices that its socket was closed.  Clients
need not send, and a condition variable need not wake up by itself, though it
may.  In mode 2 a worker whose `try_lock` is tried
for ever gets the lock at last (strong fairness of `TakesNew`: it is free most of the time, and each
attempt finds it so or not by chance).  In mode 0 creating a thread succeeds at
last, and fairness is each client's own: that one reads or leaves does not stand for
another.  Liveness is only claimed under `FairSpec`, and with the
conditions the code needs, each part of its property: in mode 0 that clients do not keep
asking for ever (for `StopCompletes` and `Accepted`; `Answered` needs none), in mode 2 that
no worker crashes or is held by a client that left in the middle of a request (`Crashed`,
`Spins`), for queries that no lock was left locked and no map damaged.

**What the properties leave out.**  `LocksMatchHolders` and `QueriesEnd` are about locks that
were not left locked; `InStep` and `RepliesInOrder` about clients other than those that
pause within a request or whose reply could not be sent; `UsersDiffer` about users of
different openings; `TextIsCut` takes what a minus swallows for given;
`ArithmeticIsRounded` is about sums of operands less than `MaxPrecision` apart in scale,
measures in units of the result's own last digit, and says of refusals only that those
of sums are right.  In these cases the code does what the hazard says, and the property
shows that it goes no further.

## The proofs

`FixedStorageProofs` proves, in its first part, about `FixedMap`, for every set of keys,
every size and lifetime:

- `TypeCorrect` and `SlotsArePartitioned`.  The inductive invariant `IInv` is
  their conjunction: the partition is only inductive together with the types,
  since adding to and dropping from the map needs it to be a map over a finite
  set of keys.  The core is a handful of lemmas about maps and queues, not about
  the program: queueing the positions of the keys dropped (`QueuedKeeps`, used
  for one key by `FreedKeeps` and for a collection by `MaybeCollectedKeeps`),
  reusing the head of the queue (`ReusedKeeps`), and using the next fresh
  position (`GrownKeeps`) each keep the partition.  Every operation is then one
  or two of them, followed by a lemma per action and the case split of `Next`.
- `LiveRowsAreSafe`, the action property, from the same invariant: each of the
  lemmas also says which entries survive.
- `RowsAlwaysFit`, under the assumption that the table opens with a block of at
  most `MaxSize` rows, and from it `NeverMoreThanMaxRows` (`AtMostMaxRows`).  The
  assumption is needed, as the configuration `FixedMapDefaultRows` shows.
- `FullIsTheTruth` (`FullMeansFull`).  An operation says that the store is full when
  no position is free and the block cannot grow: then the partition makes the keys as
  many as `MaxSize` (`HeldFits` counts them), and none of them is dead.
  That needs more than `IInv`: a collection is only made when `IfCollectGarbage`
  is armed, and it is armed for good by the lifetime of the table.
  `ExpireByLifeTime` adds that a table without one has no row that can
  expire, so that the collection it never makes would have found nothing.

The assumptions are those `FixedMap` names: finitely many keys, natural sizes
and times.

Its second part proves about `RowLayout` and `FixedStorage`, for every table of
fields, widths and set of values, every set of requests, size and lifetime:

- `StorageTypeCorrect`, under no condition: each position handed out has a row
  of `RowLength` cells whatever was stored into it and however that ended, ids stay within
  their type, and a select returns a row of fields.
- `RowLengthSuffices` (`RowLengthIsMaximal`), if each field of fixed length is
  written no longer than the table computes for it (`FieldsFit`).
- `FixedFieldsStayInPlace` (`FixedFieldsAtPosition`), if besides each field of fixed
  length is in place (`InPlace`): none before it is packed, and those of fixed
  length before it are written and read as long as computed.
- `StorageKeepsPromise` (`ImplementsTable`), the refinement of `AbstractTable`, if
  every field is in place and read as long as it is written (`ReadsBack`), and the
  table opens with at most `MaxSize` rows.

The conditions are what the findings are the other side of: a DATE breaks `FieldsFit`
(`StorageDate`) and so does a DECIMAL64 (`StorageDecimal`), a number behind a VARCHAR breaks `InPlace`
(`StorageVarcharFirst`), default rows break the last (`FixedMapDefaultRows`).  A
table of integers, floats, strings of fixed length and a VARCHAR at the end, as in `StorageMixed`, meets
them all.

The argument has three layers.  The first is about a row alone: an induction over
its fields (`PrefixStep` for a row stored in order, `SlotsStep` for one that seeks) says
how a pack ends.  `Outcome` is the summary: the fields up to the first bad
value hold what was given, the others what they held, and none of it is out of
room.  Such a row is `Shaped`, that is, no string in it claims to be
longer than its field, if it was stored to its end or was shaped before
(`OutcomeShaped`), and what is read from a shaped row is field by field what it holds
(`ReadWhole`).  The second is the invariant, `StorageInv` with `RowsShaped`: rows stored to
their end are shaped, while those in `torn` may hold anything, also after they were
updated.  `StorageCases` reduces every request to one that stores a row and
one that does not, so that this takes two cases and not five.  The third, from `RoomForOne` on,
maps each request to its step of `AbstractTable`: a collection is a sweep
(`SweptIs`), the row stored is the entry the abstract step makes (`StoredEntry`,
with a recycled row's old cells gone from what anyone reads), all other entries stay, since no
two keys have one position.  Each action has its lemma (`...Implements`).

`QueryLockProofs` proves about `QueryLock`, for every set of threads, databases
and keys, with any number of queries and openings:

- `TypeCorrect`, `WritersAreAlone` (`WritersExclude`) and `LocksAreReturned`
  (`LocksMatchHolders`), from one inductive invariant `IInv` of three parts that need
  each other: the types; `HasObject`, that a thread which found its
  database has the object the cache names for it; and `LocksHold`, that an
  object's lock counts at least the threads that read it and names the one that
  writes, and does so exactly unless an exception leaked it.  `WritersExclude` needs
  both: that two threads in one database have one object is the work of the second
  look in `GetDatabase`, and that its lock admits a writer only alone is counted
  by `LocksHold`, which must also say what a leaked lock still excludes, for
  otherwise a writer that comes later would not be alone.
- Most steps neither lock nor unlock: `LocksStay` handles them all at once, and
  `MovesKeep` those that in addition only move their thread.  The steps that do
  (`LockKeeps`, `UnlockKeeps`, `BadIdKeeps`) share `CrossesTyped` and count
  readers with the library's theorems on finite sets.

They assume that there are finitely many threads and databases.  TLC checks `IInv`
as an invariant of the instance of `QueryShared` as well.

The second part of `QueryLockProofs` shows that QueryLock implements AtomicStore
(`QueriesLookAtomic`, for `QueriesAreAtomic`), again for every set of threads,
databases and keys: every step of a thread is a query that takes effect, a reply, or
nothing that a client could tell, as long as no map is damaged.  `IInv` holds after that too, `RInv` does
not, so that the invariant of this part is `IInv` with `RInv` as long as `damaged` is empty, and
`DamageStays` that it never becomes empty again.  The mapping takes the row that a write
found for the abstract one while a thread is storing, so it depends on which thread
that is.  `WritersExclude` says there is one at most (`OneStores`); from there `Seen`
tells the abstract rows without the choice of it.  `RInv` is what the steps need beyond
`IInv`: that the cache names a database by the object made for it, and, per
thread, how far it is with its row (`Progress`), so that the row a select
reads in two steps is one row and what a write has stored is what is missing from the
row it found.  A step either leaves everybody's rows and shows its own progress
(`Passive`), or changes one row (`Active`, `OneReplaced`); every action has its
lemma (`...Implements`) that says which step of AtomicStore it is.

`AsyncServerProofs` proves about `AsyncServer`, for every number of workers, size of
the pool, set of clients and behaviour of theirs, `TypesKept`,
`EveryConnectionHasOneOwner` (`OneOwner`), `RequestsAreCounted`
(`CountsRequests`), `PoolStaysConsistent` (`PoolIsConsistent`) and `RepliesStayOwn`
(`RepliesAreOwn`), from one inductive invariant.  Its parts need each other:
`StatusInv`, that a connection is being processed just while someone owns it, is what
keeps the main thread from handing over or erasing a connection that a worker has;
it depends on `OwnerInv`, that the owners (the main thread that
pushes, a place in the queue, a worker) exclude one another; that on `TodoInv`, that a
round visits connections in use, each once; and that on `PoolInv`, that a
connection number is in use or freed, never both.  `BufferInv` says whose
request a buffer holds, which is what makes a reply its client's own, and
`CountInv` counts what was handed over until the stop, after which
the code's count is wrong anyway (a finding below).  There are no assumptions on
the pool but that the counter is wider than the number of workers, and that one
worker alone is none, as in the code.

`CatalogProofs` proves about `Catalog`, for every set of processes, tables, users
and definitions, `TypesKept`, `NoTableIsHalf` (`NoHalfTable`), `TablesStayOnDisk`
(`TablesMatchDisk`), `UsersStayApart` (`UsersDiffer`) and the action property
`WrittenSchemasStay` (`SchemasStay`).  The invariant says of each process where it is
and what it may take for granted there (`Fits`): only the administrator writes, so
what it creates is as far on disk as the administrator is in creating it (`Writes`); it
creates a table only when all of those on disk are known to it or still to be loaded
(`Loads`), and a user only when it knows those on disk (`Knows`).  An error takes
a process back to the place it came from, which must fit again (`BackFits`); a
crash takes it out.

`SynchServerProofs` proves about `SynchServer`, for every number of threads, set
of clients and behaviour of theirs:

- `NumbersAreConserved` (`NumbersConserved`).  Its
  invariant `IInv` is that property with what its steps need: the shape of the
  threads' records, and that the queue holds numbers.  Every step of a thread is one of two
  (`ThreadSteps`): it goes on, or it gives its number back; `Queued` and `Drawn` say
  what the two ends of the queue do to the split of the numbers.  That `front()` is never
  called on an empty queue is `NumberIdle`: fewer threads than `MaxThreads` leave a
  number idle.
- `TypesKept`, `ThreadsStayInStep` (`InStep`) and `RepliesComeInOrder`
  (`RepliesInOrder`).  Neither property is inductive: that a thread
  which waits for a length will find a length follows from where the client is in what
  it sends, and that the next chunk is the one the client expects from how many are on their
  way.  `NetInv` therefore relates the three places a request or a reply
  can be in, thread, socket and client, for every client that nothing has
  upset: a thread that waits for a length is between two requests, one that waits for a
  body is behind a length, one that sends has sent what the client has read or will
  read (`Stream`).  `OwnerInv` adds that no two threads have one client, so that
  each step moves one such triple only (`MovesInStep`).

`GroupServerProofs` proves about `GroupServer`, for every number of worker threads,
limit on connections, set of clients and behaviour of theirs, `GroupTypes`,
`GroupOneHolder` (`OneHolder`), `GroupCounts` (`CountsConnections`),
`GroupNoPushThrows` (`NoPushThrows`) and `GroupEnds` (`NobodyServesAfterEnd`), from
one inductive invariant.  The first three need each other: a worker's pool has room for
what it is dealt (`Taken`) because all connections together are within
`MaxConnections` (`WithinLimit`), which is what `groupNum` being exact says
(`CountInv`); it is exact only while nobody is in two places (`ApartInv`), and that
depends on the pools having a slot for each (`WorkersInv`).  That a pool which begins
smaller than its limit grows in time is `PushedFits`: `reserve` gives it at least one
more slot as long as it is not at the limit.  That growing does no harm is not proved, as it
does (`Crash`, which keeps what is proved).  Two loops of the code are functions
defined by recursion, `Dealing` (a socket of the round at a time) and `Taking` (a
socket dealt to the worker at a time); `DealtOut` and `Taken` say by induction what
they come to, whatever the order that `Sort` found.  After a stop the chain is
`ThreadInv`, that `AsyncThreadNum` counts the threads that run, so that at zero
every worker has not begun or is gone, and has no connection (`Does`).

`CodecProofs` proves, in its first part, about `SqlLexer`, for every set of texts, of any length and of any
characters:

- `TextsAreCut` (`TextIsCut`).  Two places of the lexer look ahead without a bound, and a
  lemma says what each comes to: `Leaves` is the first place that is not in a set
  (`LeavesIs`), and a string is read at the places that an even number of backslashes
  is before (`ReadAtIs`, an induction over places whose step is `EvenStep`).  With them
  each kind of token has its lemma (`NumberFound`, `StringFound`, `MinusFound`, ...), and
  `ParsedFound` says of all of them that what is found at p is not empty and ends within
  the text (`Found`), though several look two pieces ahead.  A step is then a line or a
  token (`StepCases`).  The invariant `LexInv` adds to the property what it needs:
  that the current line is the number of lines that ended between tokens (`LineEnds`), that
  `ifsetexist` is what the last keyword says (`SetBefore`), and that every token is
  behind p, a minus behind what it swallowed.
- `ParsingMovesOn` (`TurnsMoveOn`), from the same cases.

The only assumption is that a text is what is before its first NUL, as the loop
takes it.

Its second part is about `Decimal64`, for every word, range of scales and operands:

- `ConversionsRound` (`ConversionsAreRounded`): from and to integers of 64 bits and less,
  signed or not, and from one scale to another.  The narrow unsigned conversions look at
  the sign before they round, so that they refuse -0.4, which `ToUInt64` takes for 0.  The
  smallest `int64_t` is left out where `Set` overflows on it, at scales below 0.
- `ArithmeticRounds` (`ArithmeticIsRounded`): `+ - * /`.

The invariant is short, as a behaviour is one operation: before it the number is one that
a program can have (`Begun`).  The work is in what the operators come to.  `TenIs` gives the
powers of ten their equation by `Recursion`.  `DropDigits` rounds half away from zero
however many digits it drops (`DropDigitsIs`).  A sum is aligned to the scale with room
for it and rounded there (`PlusRounds`, `AlignedRounds`, `AddRounds`).  `Shrink` takes
as many digits from a product as its quotient by the greatest number has, which is one
too many at most (`ShrinkIs`), which `EffectiveRounds` carries through `MakeScaleEffective`.  A quotient
has as many digits as the word or up to two more (`QuotientSize`), so that `Fitted` drops
two at most, what is left is too large for another zero (`FittedIs`), and rounding it
three times stays within 0.555 (`QuotientTwice`, `DivideRounds`).

The assumptions on the word are that it has two digits or more and that its last digit
is 4 or more: 2^63 - 1 ends in 7, and so does 97.  With a smaller one, a quotient that
rounding made too large by one would lose a digit downwards, and the error at the
greatest scale would exceed the unit.

`QueueFacts` is the lemmas all of them rest on: what appending to, taking
from and removing from a queue without repetitions does to what it holds, that
a counter modulo its range counts as long as it stays within it, and, from the library's
theorem that every set of numbers has a least one, that induction over numbers holds
for a set (`Induction`) and that a function may be defined by recursion up to a number
(`Recursion`).

The assumptions are the named ones of the modules: finitely many clients, workers and
threads where something counts them, sizes that are positive numbers, and
bounds that are numbers.  TLC checks them in every run, and was used to
check each inductive invariant on the instance of the component's run before it
was proved: `RInv` with `QueryShared`, `NetInv` with `SynchThreads`, that of
GroupServer with the constants of `GroupWorkers`, `ExpireByLifeTime`, `StorageInv` and
`RowsShaped`, with the conditions above, with `StorageMixed`, and the parts of `LexInv`
with the texts of `Codecs` of up to four pieces.

Only model-checked are the texts of decimals (`TextsAreRounded`, `TextComesBack`): the
number that digits stand for is a sum over all of them (`NumberOf`), and what such a sum
comes to is induction over data.
Liveness (`Answered`, `Accepted`, `StopCompletes`, `ReceiveTimesOut`, `QueriesEnd`), with its
fairness, and ENABLED are beyond the prover and stay with TLC.

## Findings

Two are runs that TLC finds violated, with the comment or declaration they
contradict quoted in `PROJECT.json`:

1. `StorageVarcharFirst`: a field of fixed length behind a VARCHAR is updated at
   one place and read at another.
2. `AsyncStopHangs`: with a pool of threads, workers that exit take the count of
   running requests below zero: a stop may hang.  (For the same reason the main
   thread may see zero early and drop a request that a worker still answers.)

Others have a configuration beside the modules, to be run by hand
(`tlc -config X.cfg M`), and TLC finds a counterexample within a minute or so:

| Configuration, module | Property | What it shows |
|---|---|---|
| `FixedMapDefaultRows`, MCFixedMap | `AtMostMaxRows` | a table whose `MaxRows` is below its initial number of rows (100 if not given) never refuses to grow beyond it |
| `StorageDate`, MCFixedStorage | `RowLengthIsMaximal` | DATE and DATETIME take more bytes than the table reckons with, against `ctable.h:563` |
| `StorageDecimal`, MCFixedStorage | `RowLengthIsMaximal` | so does DECIMAL64: 8 bytes are counted (`ctable.cpp:302`), 16 written (`cany.hpp:936`, `cdecimal64.h:181`) and 8 read (`ctable.h:424`) |
| `GroupGrows`, MCGroupServer | `NoThreadCrashes` | a worker of mode 2 that is dealt more connections than its pool began with uses buffers that were freed (`cqueue.hpp:59`, `cpack.hpp:43`), within `MaxConnections` |
| `SynchHeld`, MCSynchServer | `StopAlwaysCompletes` | a client that asks again within `WaitTimeout`, for ever, holds its thread of mode 0 and the stop (`cmoondb.cpp:1092-1120`) |
| `CodecFarSums`, MCCodecs | `FarSumsAreRounded` | a sum of decimals `MaxPrecision` apart in scale drops the smaller one although it counts, where the comment at `cdecimal64.cpp:888` wants one added or subtracted |
| `AsyncHalfClosed`, MCAsyncServer | `ReceiveTimesOut` | a client that closes its end in the middle of a request makes the main thread loop for ever |
| `AsyncRefusal`, MCAsyncServer | `RefusalIsSent` | the error for a request that is too long is made, but not sent |
| `CatalogRowId`, MCCatalog | `RowIdWhenNeeded` | a table whose key is no integer gets its row ids' type from any integer field, and no rowid field |
| `QueryShared` with `NoDamage` added | `NoDamage` | two selects, under the shared lock, may both erase a row that expired: its position is free twice (`cfixedmap.hpp:235-241`) |

What the models do as the code does, and no property calls wrong, because
nothing in the repository says otherwise:

- The lexer gives `<=` the type of `<` and reads `<=>` as `<>`.  A minus that is an
  operator swallows the character behind it, and at the end of the text steps over the
  NUL (status `overrun`).  White space at the end of a text is a wrong character.  A
  minus at the beginning is an operator; so `(1)-2` has the number -2 while `-1`
  has none.  `1e5` is an integer, `1e+` a number.  What `SET` began survives a `;`.
- In a text zeros behind the
  point count as digits, and 0 is refused for a scale of -19 or less.
  Rounding up looks at one digit: 1.05 becomes 1.  `Shrink` may give up a digit
  that would have fit.  Equality rounds its left side only, so that it is not
  symmetric.  The smallest `int64_t` is negated where a decimal has a scale below 0, which
  overflows: it is refused or becomes 0.
- `FlipValues` are read into a local variable by `CTable::Open` and are lost, and a
  table has no storage from its creation until its database is opened again.
- The loops that retry `bind` and `listen` for five seconds compare the wrong way
  round, so that the first failure is final.
- At a stop of mode 2 sockets not yet taken by their group are not closed; an exception
  other than `runtime_error` in a thread of mode 0 ends the process; `throw e` loses
  the type of an exception.

## Plan

Done: FixedMap, RowLayout, FixedStorage, AbstractTable, the servers of the three
modes, QueryLock and AtomicStore, Catalog, SqlLexer, Decimal64; the proofs about
FixedMap, FixedStorage and QueryLock (with their refinements), AsyncServer,
GroupServer, SynchServer, Catalog, SqlLexer and Decimal64.  What is left:

1. `CPack` with its growth and the conversions of `CAny` as they are, under
   RowLayout; wide fields (TEXT, BLOB).
2. The texts of decimals, with the number that digits stand for as a function defined by
   recursion over places instead of a sum over a set.

## Not modelled

- `CMultiMutex`: no code uses it, and as a template it is compiled nowhere.
- `CDecimal128`: the algorithms of CDecimal64 with a longer mantissa.  Floats, and
  texts with a fixed number of digits, of CDecimal64.
- `CAny`, `CPack` and the helper functions beyond what a row needs of them:
  tables of conversions, without a state that outlives a call.
- The vendored libraries, the SQLite wrapper, iconv, logging, the tables of time
  zones (most of `ctime.hpp`), and the parsing of the configuration: wrappers and data without protocol.
- The SQL path beyond the tokens: the server only prints them and leaves an empty
  reply, which is an outcome of a query in the servers' models.  There is no grammar.
- `CloseDatabase` and `ReleaseMutex`, which nothing calls; a restart, which the code
  never requests, and with it the mutexes that `Clear` deletes and keeps for reuse.
- Failures of `malloc`.
