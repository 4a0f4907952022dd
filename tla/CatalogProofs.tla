--------------------------- MODULE CatalogProofs ---------------------------
(***************************************************************************)
(* Proofs about Catalog, for every set of processes, tables, users and     *)
(* definitions, and any number of openings.                                *)
(***************************************************************************)
EXTENDS Catalog, QueueFacts

Creating == {"folder", "build", "file", "write", "close"}
Place == {"closed", "users", "list", "load", "open", "mkusers", "append"} \cup Creating
Task == {<<>>} \cup {<<u>> : u \in User} \cup (Table \X Definition)
ProcessType == [at : Place, todo : SUBSET Table, users : SUBSET User, tables : SUBSET Table,
                opening : 0..Opens, task : Task]
Record == [name : User, opening : 0..Opens]

(* What is on disk: a schema only where there is a directory for it.       *)
DiskInv ==
  /\ directory \in BOOLEAN /\ folder \subseteq Table
  /\ users \in [there : BOOLEAN, torn : BOOLEAN, records : Seq(Record)]
  /\ Len(users.records) <= Records
  /\ schema \in [Table -> {"none", "empty", "partial", "full"}]
  /\ saved \in [Table -> {Schema(d) : d \in Definition} \cup {NoSchema}]
  /\ \A t \in Table : schema[t] # "none" => t \in folder /\ directory
  /\ UsersDiffer

(* How far the administrator is with the table it creates, and what is on  *)
(* disk of it then: nobody else writes it, so it is still to be completed. *)
Writes(r) ==
  r.at \in Creating =>
    \E t \in Table, d \in Definition :
      /\ r.task = <<t, d>>
      /\ r.at # "folder" => t \in folder
      /\ r.at \in {"build", "file"} => schema[t] = "none"
      /\ r.at = "write" => schema[t] = "empty"
      /\ r.at = "close" => schema[t] = "partial"

Appends(r) ==
  r.at = "append" =>
    Len(users.records) < Records /\ \E u \in User : r.task = <<u>> /\ u \notin r.users

(* All the tables on disk are the administrator's, or still to be loaded.  *)
Loads(r) ==
  /\ r.at = "load" => Readable \subseteq r.tables \cup r.todo
  /\ r.at \in {"open", "append"} \cup Creating /\ r.opening > 0 => Readable \subseteq r.tables

(* The users it knows are those on disk, but for what it added itself.     *)
Knows(r) ==
  r.at \notin {"closed", "users", "mkusers"} /\ r.opening > 0 =>
    \A i \in DOMAIN users.records :
      users.records[i].name \in r.users \/ users.records[i].opening = r.opening

Fits(p, r) ==
  /\ r \in ProcessType
  /\ r.at # "closed" => directory
  /\ r.tables \subseteq Readable
  /\ r.at \in {"closed", "users", "list", "mkusers"} => r.tables = {}
  /\ r.at \in {"closed", "mkusers"} => r.opening = 0
  /\ IF p = Admin THEN Writes(r) /\ Appends(r) /\ Loads(r) /\ Knows(r)
                  ELSE r.at \in {"closed", "users", "list", "load", "open"}

IInv ==
  /\ DiskInv /\ opens \in 0..Opens
  /\ process \in [Process -> ProcessType] /\ \A p \in Process : Fits(p, process[p])

Kept == \A t \in Table : schema[t] = "full" => schema'[t] = "full" /\ saved'[t] = saved[t]
-----------------------------------------------------------------------------
(* Steps in general. *)

(* A step that leaves the disk alone and p as one that fits it. *)
LEMMA MemoryStep ==
  ASSUME IInv, NEW p \in Process, NEW r, Fits(p, r), Becomes(p, r), UNCHANGED disk,
         opens' \in 0..Opens
  PROVE  IInv' /\ Kept
<1>1. DiskInv' /\ Kept
  BY DEF IInv, DiskInv, disk, UsersDiffer, Kept
<1>2. r \in ProcessType /\ process' \in [Process -> ProcessType]
      /\ process'[p] = r /\ \A q \in Process \ {p} : process'[q] = process[q]
  BY DEF IInv, Fits, Becomes
<1>3. \A q \in Process : Fits(q, process'[q])
  BY <1>2 DEF IInv
<1>4. \A q \in Process : Fits(q, process[q])'
  BY <1>3 DEF Fits, Writes, Appends, Loads, Knows, Readable, disk
<1>5. QED
  BY <1>1, <1>2, <1>4 DEF IInv

(* A step of the administrator on the disk: no schema that was written is  *)
(* lost, and so what the others have loaded is still there.                *)
LEMMA DiskStep ==
  ASSUME IInv, NEW r, Fits(Admin, r)', Becomes(Admin, r), DiskInv',
         Readable \subseteq Readable', directory => directory', opens' = opens
  PROVE  IInv'
<1>1. Admin \in Process
  BY ProcessAssumption
<1>2. r \in ProcessType
  BY DEF Fits
<1>3. process' \in [Process -> ProcessType]
      /\ process'[Admin] = r /\ \A q \in Process \ {Admin} : process'[q] = process[q]
  BY <1>1, <1>2 DEF IInv, Becomes
<1>4. \A q \in Process \ {Admin} : Fits(q, process[q])'
  BY <1>3 DEF IInv, Fits
<1>5. Fits(Admin, process[Admin])'
  BY <1>3 DEF Fits, Writes, Appends, Loads, Knows
<1>6. QED
  BY <1>3, <1>4, <1>5 DEF IInv

(* A step of the administrator that creates: it has a table in hand. *)
LEMMA InHand ==
  ASSUME IInv, NEW p \in Process, process[p].at \in Creating
  PROVE  /\ p = Admin
         /\ \E t \in Table, d \in Definition :
              /\ process[p].task[1] = t /\ process[p].task[2] = d /\ process[p].task = <<t, d>>
              /\ process[p].at # "folder" => t \in folder
              /\ process[p].at \in {"build", "file"} => schema[t] = "none"
              /\ process[p].at = "write" => schema[t] = "empty"
              /\ process[p].at = "close" => schema[t] = "partial"
<1>1. p = Admin
  BY DEF IInv, Fits, Creating
<1>2. Writes(process[p])
  BY <1>1 DEF IInv, Fits
<1>3. QED
  BY <1>1, <1>2 DEF Writes

(* Places and nothing else. *)
LEMMA ClosedFits == ASSUME NEW p \in Process PROVE Fits(p, Closed)
<1>1. Closed \in ProcessType
  <2>1. 0 \in 0..Opens /\ <<>> \in Task
    BY BoundAssumption DEF Task
  <2>2. QED
    BY <2>1 DEF Closed, ProcessType, Place
<1>2. QED
  BY <1>1 DEF Fits, Closed, Writes, Appends, Loads, Knows, Creating
-----------------------------------------------------------------------------
(* Opening, and the end of a process. *)

(* A process opens the database. *)
LEMMA OpenStartKeeps == ASSUME IInv, NEW p \in Process, OpenStart(p) PROVE IInv' /\ Kept
<1>1. PICK r : r = [process[p] EXCEPT !.at = "users", !.opening = opens + 1]
  OBVIOUS
<1>2. opens + 1 \in 0..Opens
  BY BoundAssumption DEF IInv, OpenStart
<1>3. process[p] \in ProcessType /\ Fits(p, process[p]) /\ directory /\ process[p].at = "closed"
  BY DEF IInv, OpenStart
<1>4. r \in ProcessType /\ r.at = "users" /\ r.tables = process[p].tables
  BY <1>1, <1>2, <1>3 DEF ProcessType, Place
<1>5. Fits(p, r)
  BY <1>3, <1>4 DEF Fits, Writes, Appends, Loads, Knows, Creating
<1>6. QED
  BY <1>1, <1>2, <1>5, MemoryStep DEF OpenStart

(* It reads the users, all of those that are there. *)
LEMMA OpenUsersKeeps == ASSUME IInv, NEW p \in Process, OpenUsers(p) PROVE IInv' /\ Kept
<1> DEFINE names == {u.name : u \in Range(users.records)}
<1>1. CASE Becomes(p, Closed)
  BY <1>1, ClosedFits, MemoryStep DEF OpenUsers, IInv
<1>2. CASE Becomes(p, [process[p] EXCEPT !.at = "list", !.users = names])
  <2>1. PICK r : r = [process[p] EXCEPT !.at = "list", !.users = names]
    OBVIOUS
  <2>2. users.records \in Seq(Record)
    BY DEF IInv, DiskInv
  <2>3. names \subseteq User /\ \A i \in DOMAIN users.records : users.records[i].name \in names
    <3>1. \A i \in DOMAIN users.records : users.records[i] \in Record
      BY <2>2, Indices
    <3>2. \A u \in Range(users.records) : u.name \in User
      BY <3>1 DEF Range, Record
    <3>3. \A i \in DOMAIN users.records : users.records[i] \in Range(users.records)
      BY DEF Range
    <3>4. QED
      BY <3>2, <3>3
  <2> HIDE DEF names
  <2>4. process[p] \in ProcessType /\ Fits(p, process[p]) /\ process[p].at = "users"
    BY DEF IInv, OpenUsers
  <2>5. r \in ProcessType /\ r.at = "list" /\ r.tables = process[p].tables /\ r.users = names
    BY <2>1, <2>3, <2>4 DEF ProcessType, Place
  <2>6. Fits(p, r)
    BY <2>3, <2>4, <2>5 DEF Fits, Writes, Appends, Loads, Knows, Creating
  <2>7. QED
    BY <1>2, <2>1, <2>6, MemoryStep DEF OpenUsers, IInv
<1>3. QED
  BY <1>1, <1>2 DEF OpenUsers

(* It lists the directories; each table on disk is in one of them. *)
LEMMA OpenListKeeps == ASSUME IInv, NEW p \in Process, OpenList(p) PROVE IInv' /\ Kept
<1>1. PICK r : r = [process[p] EXCEPT !.at = "load", !.todo = folder]
  OBVIOUS
<1>2. process[p] \in ProcessType /\ Fits(p, process[p]) /\ process[p].at = "list"
      /\ folder \subseteq Table /\ Readable \subseteq folder
  BY DEF IInv, OpenList, DiskInv, Readable
<1>3. /\ r \in ProcessType /\ r.at = "load" /\ r.tables = process[p].tables /\ r.todo = folder
      /\ r.users = process[p].users /\ r.opening = process[p].opening
  BY <1>1, <1>2 DEF ProcessType, Place
<1>4. Fits(p, r)
  BY <1>2, <1>3 DEF Fits, Writes, Appends, Loads, Knows, Creating
<1>5. QED
  BY <1>1, <1>4, MemoryStep DEF OpenList, IInv

(* It loads a table, passes it over, or gives up. *)
LEMMA LoadTableKeeps ==
  ASSUME IInv, NEW p \in Process, NEW t \in Table, LoadTable(p, t) PROVE IInv' /\ Kept
<1>1. process[p] \in ProcessType /\ Fits(p, process[p]) /\ process[p].at = "load"
      /\ UNCHANGED disk /\ opens' \in 0..Opens
  BY DEF IInv, LoadTable
<1>2. CASE schema[t] = "none" /\ Becomes(p, [process[p] EXCEPT !.todo = @ \ {t}])
  <2>1. PICK r : r = [process[p] EXCEPT !.todo = @ \ {t}]
    OBVIOUS
  <2>2. /\ r \in ProcessType /\ r.at = "load" /\ r.tables = process[p].tables
        /\ r.todo = process[p].todo \ {t}
        /\ r.users = process[p].users /\ r.opening = process[p].opening
    BY <1>1, <2>1 DEF ProcessType, Place
  <2>3. t \notin Readable
    BY <1>2 DEF Readable
  <2>4. Fits(p, r)
    BY <1>1, <2>2, <2>3 DEF Fits, Writes, Appends, Loads, Knows, Creating
  <2>5. QED
    BY <1>1, <1>2, <2>1, <2>4, MemoryStep
<1>3. CASE schema[t] = "full"
           /\ Becomes(p, [process[p] EXCEPT !.todo = @ \ {t}, !.tables = @ \cup {t}])
  <2>1. PICK r : r = [process[p] EXCEPT !.todo = @ \ {t}, !.tables = @ \cup {t}]
    OBVIOUS
  <2>2. /\ r \in ProcessType /\ r.at = "load" /\ r.tables = process[p].tables \cup {t}
        /\ r.todo = process[p].todo \ {t}
        /\ r.users = process[p].users /\ r.opening = process[p].opening
    BY <1>1, <2>1 DEF ProcessType, Place
  <2>3. t \in Readable
    BY <1>3 DEF Readable
  <2>4. Fits(p, r)
    BY <1>1, <2>2, <2>3 DEF Fits, Writes, Appends, Loads, Knows, Creating
  <2>5. QED
    BY <1>1, <1>3, <2>1, <2>4, MemoryStep
<1>4. CASE Becomes(p, Closed)
  BY <1>1, <1>4, ClosedFits, MemoryStep
<1>5. QED
  BY <1>2, <1>3, <1>4 DEF LoadTable

(* With nothing left to load, it has all the tables. *)
LEMMA OpenDoneKeeps == ASSUME IInv, NEW p \in Process, OpenDone(p) PROVE IInv' /\ Kept
<1>1. PICK r : r = [process[p] EXCEPT !.at = "open"]
  OBVIOUS
<1>2. process[p] \in ProcessType /\ Fits(p, process[p]) /\ process[p].at = "load"
      /\ process[p].todo = {}
  BY DEF IInv, OpenDone
<1>3. /\ r \in ProcessType /\ r.at = "open" /\ r.tables = process[p].tables
      /\ r.users = process[p].users /\ r.opening = process[p].opening
  BY <1>1, <1>2 DEF ProcessType, Place
<1>4. Fits(p, r)
  BY <1>2, <1>3 DEF Fits, Writes, Appends, Loads, Knows, Creating
<1>5. QED
  BY <1>1, <1>4, MemoryStep DEF OpenDone, Goes, IInv

(* A process ends, wherever it is. *)
LEMMA EndKeeps == ASSUME IInv, NEW p \in Process, End(p) PROVE IInv' /\ Kept
  BY ClosedFits, MemoryStep DEF End, IInv
-----------------------------------------------------------------------------
(* Creating a database and adding users. *)

(* The directory is made, or is there. *)
LEMMA CreateKeeps == ASSUME IInv, NEW p \in Process, Create(p) PROVE IInv' /\ Kept
<1>1. PICK r : r = [process[p] EXCEPT !.at = "mkusers"]
  OBVIOUS
<1>2. p = Admin /\ process[p] \in ProcessType /\ Fits(p, process[p]) /\ process[p].at = "closed"
      /\ directory' = TRUE /\ UNCHANGED <<users, folder, schema, saved, opens>>
  BY DEF IInv, Create
<1>3. /\ r \in ProcessType /\ r.at = "mkusers" /\ r.tables = process[p].tables
      /\ r.opening = process[p].opening
  BY <1>1, <1>2 DEF ProcessType, Place
<1>4. Fits(Admin, r)'
  BY <1>2, <1>3 DEF Fits, Writes, Appends, Loads, Knows, Creating, Readable
<1>5. DiskInv' /\ Kept /\ Readable' = Readable
  BY <1>2 DEF IInv, DiskInv, UsersDiffer, Kept, Readable
<1>6. QED
  BY <1>1, <1>2, <1>4, <1>5, DiskStep DEF Create, Goes

(* A file of users is made, or is there and the process gives up. *)
LEMMA CreateUsersKeeps == ASSUME IInv, NEW p \in Process, CreateUsers(p) PROVE IInv' /\ Kept
<1>1. p = Admin /\ process[p] \in ProcessType /\ Fits(p, process[p]) /\ process[p].at = "mkusers"
      /\ UNCHANGED <<directory, folder, schema, saved, opens>>
  BY DEF IInv, CreateUsers, Fits
<1>2. CASE Becomes(p, Closed) /\ UNCHANGED users
  BY <1>1, <1>2, ClosedFits, MemoryStep DEF disk, IInv
<1>3. CASE Goes(p, "open") /\ users' = [users EXCEPT !.there = TRUE]
  <2>1. PICK r : r = [process[p] EXCEPT !.at = "open"]
    OBVIOUS
  <2>2. /\ r \in ProcessType /\ r.at = "open" /\ r.tables = process[p].tables
        /\ r.opening = process[p].opening
    BY <1>1, <2>1 DEF ProcessType, Place
  <2>3. users'.records = users.records
        /\ users' \in [there : BOOLEAN, torn : BOOLEAN, records : Seq(Record)]
    BY <1>3 DEF IInv, DiskInv
  <2>4. Fits(Admin, r)'
    BY <1>1, <2>2, <2>3 DEF Fits, Writes, Appends, Loads, Knows, Creating, Readable
  <2>5. DiskInv' /\ Kept /\ Readable' = Readable
    BY <1>1, <2>3 DEF IInv, DiskInv, UsersDiffer, Kept, Readable
  <2>6. QED
    BY <1>1, <1>3, <2>1, <2>4, <2>5, DiskStep DEF Goes
<1>4. QED
  BY <1>2, <1>3 DEF CreateUsers

(* A user that was not known is taken in hand. *)
LEMMA AddUserKeeps ==
  ASSUME IInv, NEW p \in Process, NEW u \in User, AddUser(p, u) PROVE IInv' /\ Kept
<1>1. PICK r : r = [process[p] EXCEPT !.at = "append", !.task = <<u>>]
  OBVIOUS
<1>2. p = Admin /\ process[p] \in ProcessType /\ Fits(p, process[p]) /\ process[p].at = "open"
      /\ u \notin process[p].users /\ Len(users.records) < Records
  BY DEF IInv, AddUser
<1>3. <<u>> \in Task
  BY DEF Task
<1>4. /\ r \in ProcessType /\ r.at = "append" /\ r.task = <<u>> /\ r.tables = process[p].tables
      /\ r.users = process[p].users /\ r.opening = process[p].opening
  BY <1>1, <1>2, <1>3 DEF ProcessType, Place
<1>5. Fits(p, r)
  BY <1>2, <1>4 DEF Fits, Writes, Appends, Loads, Knows, Creating
<1>6. QED
  BY <1>1, <1>5, MemoryStep DEF AddUser, IInv

(* One record is written, of this opening: another of the same user is of  *)
(* this opening, too, or the database was not opened.                      *)
LEMMA RecordAppended ==
  ASSUME DiskInv, NEW o \in 0..Opens, NEW u \in User, Len(users.records) < Records,
         users' = [users EXCEPT !.there = TRUE, !.records = Append(@, [name |-> u, opening |-> o])],
         UNCHANGED <<directory, folder, schema, saved>>,
         o > 0 => \A i \in DOMAIN users.records :
                    users.records[i].name = u => users.records[i].opening = o
  PROVE  /\ DiskInv'
         /\ \A i \in DOMAIN users'.records :
              \/ i \in DOMAIN users.records /\ users'.records[i] = users.records[i]
              \/ users'.records[i].opening = o
<1> DEFINE s == users.records
           x == [name |-> u, opening |-> o]
           t == Append(s, x)
<1>1. s \in Seq(Record) /\ x \in Record /\ users'.records = t
      /\ users' = [users EXCEPT !.there = TRUE, !.records = t]
      /\ x.name = u /\ x.opening = o
  BY DEF DiskInv, Record
<1> HIDE DEF x
<1>2. t \in Seq(Record) /\ Len(t) = Len(s) + 1 /\ (\A i \in 1..Len(s) : t[i] = s[i]) /\ t[Len(s) + 1] = x
  BY <1>1, AppendProperties
<1>3. Len(s) \in Nat /\ DOMAIN s = 1..Len(s) /\ DOMAIN t = 1..(Len(s) + 1)
  BY <1>1, <1>2, LenProperties
<1> HIDE DEF t
<1>4. \A i \in DOMAIN t : (i \in DOMAIN s /\ t[i] = s[i]) \/ (i = Len(s) + 1 /\ t[i] = x)
  BY <1>2, <1>3
<1>5. Len(t) <= Records
  BY <1>2, <1>3, BoundAssumption
<1>6. UsersDiffer'
  <2> SUFFICES ASSUME NEW i \in DOMAIN t, NEW j \in DOMAIN t, i < j, t[i].name = t[j].name
               PROVE  t[j].opening \in {0, t[i].opening}
    BY <1>1 DEF UsersDiffer
  <2>1. CASE j \in DOMAIN s
    <3>1. i \in DOMAIN s
      BY <1>3, <2>1
    <3>2. t[i] = s[i] /\ t[j] = s[j]
      BY <1>2, <1>3, <2>1, <3>1
    <3>3. QED
      BY <2>1, <3>1, <3>2 DEF DiskInv, UsersDiffer
  <2>2. CASE j \notin DOMAIN s
    <3>1. t[j] = x /\ i \in DOMAIN s /\ t[i] = s[i]
      BY <1>3, <1>4, <2>2
    <3>2. o > 0 => s[i].opening = o
      BY <1>1, <3>1
    <3>3. QED
      BY <1>1, <3>1, <3>2
  <2>3. QED
    BY <2>1, <2>2
<1>7. users' \in [there : BOOLEAN, torn : BOOLEAN, records : Seq(Record)]
  BY <1>1, <1>2 DEF DiskInv
<1>8. DiskInv'
  BY <1>1, <1>5, <1>6, <1>7 DEF DiskInv
<1>9. QED
  BY <1>1, <1>4, <1>8

(* A user is written, or a part of the record is. *)
LEMMA AppendKeeps == ASSUME IInv, NEW p \in Process, Append1(p) PROVE IInv' /\ Kept
<1>1. p = Admin /\ process[p] \in ProcessType /\ Fits(p, process[p]) /\ process[p].at = "append"
      /\ UNCHANGED <<directory, folder, schema, saved, opens>>
  BY DEF IInv, Append1, Fits
<1>2. PICK u \in User : process[p].task = <<u>> /\ u \notin process[p].users
  BY <1>1 DEF Fits, Appends
<1>3. Len(users.records) < Records /\ process[p].task[1] = u
  BY <1>1, <1>2 DEF Fits, Appends
<1>4. PICK r : r = [process[p] EXCEPT !.at = "open", !.task = <<>>]
  OBVIOUS
<1>5. /\ r \in ProcessType /\ r.at = "open" /\ r.tables = process[p].tables
      /\ r.users = process[p].users /\ r.opening = process[p].opening
  <2>1. <<>> \in Task
    BY DEF Task
  <2>2. QED
    BY <1>1, <1>4, <2>1 DEF ProcessType, Place
<1>6. Kept /\ Readable' = Readable
  BY <1>1 DEF Kept, Readable
<1>7. CASE /\ users' = [users EXCEPT !.there = TRUE,
                          !.records = Append(@, [name |-> u, opening |-> process[p].opening])]
           /\ Becomes(p, r)
  <2>1. process[p].opening \in 0..Opens
    BY <1>1 DEF ProcessType
  <2>2. process[p].opening > 0 =>
          \A i \in DOMAIN users.records :
            users.records[i].name \in process[p].users \/ users.records[i].opening = process[p].opening
    BY <1>1 DEF Fits, Knows
  <2>3. /\ DiskInv'
        /\ \A i \in DOMAIN users'.records :
             \/ i \in DOMAIN users.records /\ users'.records[i] = users.records[i]
             \/ users'.records[i].opening = process[p].opening
    <3>1. PICK o \in 0..Opens : o = process[p].opening
      BY <2>1
    <3>2. users' = [users EXCEPT !.there = TRUE, !.records = Append(@, [name |-> u, opening |-> o])]
      BY <1>7, <3>1
    <3>3. o > 0 => \A i \in DOMAIN users.records :
                     users.records[i].name = u => users.records[i].opening = o
      BY <1>2, <2>2, <3>1
    <3>4. DiskInv /\ Len(users.records) < Records /\ UNCHANGED <<directory, folder, schema, saved>>
      BY <1>1, <1>3 DEF IInv
    <3>5. /\ DiskInv'
          /\ \A i \in DOMAIN users'.records :
               \/ i \in DOMAIN users.records /\ users'.records[i] = users.records[i]
               \/ users'.records[i].opening = o
      BY <3>2, <3>3, <3>4, RecordAppended
    <3>6. QED
      BY <3>1, <3>5
  <2>4. Knows(r)'
    BY <1>5, <2>2, <2>3 DEF Knows
  <2>5. Fits(Admin, r)'
    BY <1>1, <1>5, <1>6, <2>4 DEF Fits, Writes, Appends, Loads, Creating
  <2>6. QED
    BY <1>1, <1>6, <1>7, <2>3, <2>5, DiskStep
<1>8. CASE /\ users' = [users EXCEPT !.there = TRUE, !.torn = TRUE]
           /\ Becomes(p, r) \/ Becomes(p, Closed)
  <2>1. users'.records = users.records
        /\ users' \in [there : BOOLEAN, torn : BOOLEAN, records : Seq(Record)]
    BY <1>8 DEF IInv, DiskInv
  <2>2. DiskInv'
    BY <1>1, <2>1 DEF IInv, DiskInv, UsersDiffer
  <2>3. Fits(Admin, r)'
    BY <1>1, <1>5, <1>6, <2>1 DEF Fits, Writes, Appends, Loads, Knows, Creating
  <2>4. PICK c : c = Closed
    OBVIOUS
  <2>5. Fits(Admin, c)'
    <3>1. Fits(Admin, c)
      BY <2>4, ClosedFits, ProcessAssumption
    <3>2. c.at = "closed"
      BY <2>4 DEF Closed
    <3>3. QED
      BY <1>6, <3>1, <3>2 DEF Fits, Writes, Appends, Loads, Knows, Creating
  <2>6. QED
    BY <1>1, <1>6, <1>8, <2>2, <2>3, <2>4, <2>5, DiskStep
<1>9. QED
  BY <1>3, <1>4, <1>7, <1>8 DEF Append1
-----------------------------------------------------------------------------
(* Creating tables. *)

(* A definition is taken in hand. *)
LEMMA CreateTableKeeps ==
  ASSUME IInv, NEW p \in Process, NEW t \in Table, NEW d \in Definition, CreateTable(p, t, d)
  PROVE  IInv' /\ Kept
<1>1. PICK r : r = [process[p] EXCEPT !.at = "folder", !.task = <<t, d>>]
  OBVIOUS
<1>2. p = Admin /\ process[p] \in ProcessType /\ Fits(p, process[p]) /\ process[p].at = "open"
  BY DEF IInv, CreateTable
<1>3. <<t, d>> \in Task
  BY DEF Task
<1>4. /\ r \in ProcessType /\ r.at = "folder" /\ r.task = <<t, d>> /\ r.tables = process[p].tables
      /\ r.users = process[p].users /\ r.opening = process[p].opening
  BY <1>1, <1>2, <1>3 DEF ProcessType, Place, Creating
<1>5. Fits(p, r)
  BY <1>2, <1>4 DEF Fits, Writes, Appends, Loads, Knows, Creating
<1>6. QED
  BY <1>1, <1>5, MemoryStep DEF CreateTable, IInv

(* The process goes back to where it can be asked again; what it has       *)
(* loaded is as it was.                                                    *)
LEMMA BackFits ==
  ASSUME IInv, NEW p \in Process, process[p].at \in Creating, NEW r,
         r = [process[p] EXCEPT !.at = "open", !.task = <<>>]
  PROVE  /\ r \in ProcessType /\ r.at = "open" /\ r.tables = process[p].tables
         /\ r.users = process[p].users /\ r.opening = process[p].opening
         /\ Fits(p, r)
<1>1. <<>> \in Task
  BY DEF Task
<1>2. process[p] \in ProcessType /\ Fits(p, process[p]) /\ p = Admin
  BY InHand DEF IInv
<1>3. /\ r \in ProcessType /\ r.at = "open" /\ r.tables = process[p].tables
      /\ r.users = process[p].users /\ r.opening = process[p].opening
  BY <1>1, <1>2 DEF ProcessType, Place
<1>4. Fits(p, r)
  BY <1>2, <1>3 DEF Fits, Writes, Appends, Loads, Knows, Creating
<1>5. QED
  BY <1>3, <1>4

(* It goes on with the table it has in hand. *)
LEMMA GoesOn ==
  ASSUME IInv, NEW p \in Process, process[p].at \in Creating, NEW place \in Creating,
         NEW r, r = [process[p] EXCEPT !.at = place]
  PROVE  /\ r \in ProcessType /\ r.at = place /\ r.tables = process[p].tables
         /\ r.users = process[p].users /\ r.opening = process[p].opening
         /\ r.task = process[p].task
<1>1. process[p] \in ProcessType
  BY DEF IInv
<1>2. QED
  BY <1>1 DEF ProcessType, Place, Creating

(* Its directory is made; a table whose schema is there is refused. *)
LEMMA CreateFolderKeeps == ASSUME IInv, NEW p \in Process, CreateFolder(p) PROVE IInv' /\ Kept
<1>1. process[p].at = "folder" /\ process[p].at \in Creating /\ "build" \in Creating
      /\ UNCHANGED <<directory, users, schema, saved, opens>>
  BY DEF CreateFolder, Creating
<1>2. PICK t \in Table, d \in Definition :
        p = Admin /\ process[p].task[1] = t /\ process[p].task = <<t, d>>
  BY <1>1, InHand
<1>3. folder' = folder \cup {t}
  BY <1>2 DEF CreateFolder
<1>4. DiskInv' /\ Kept /\ Readable' = Readable
  BY <1>1, <1>3 DEF IInv, DiskInv, UsersDiffer, Kept, Readable
<1>5. Fits(p, process[p])
  BY DEF IInv
<1>6. CASE Back(p)
  <2>1. PICK r : r = [process[p] EXCEPT !.at = "open", !.task = <<>>]
    OBVIOUS
  <2>2. Fits(p, r) /\ r.at = "open"
    BY <1>1, <2>1, BackFits
  <2>3. Fits(Admin, r)'
    BY <1>1, <1>2, <1>4, <2>2 DEF Fits, Writes, Appends, Loads, Knows, Creating
  <2>4. QED
    BY <1>1, <1>2, <1>4, <1>6, <2>1, <2>3, DiskStep DEF Back
<1>7. CASE schema[t] = "none" /\ Goes(p, "build")
  <2>1. PICK r : r = [process[p] EXCEPT !.at = "build"]
    OBVIOUS
  <2>2. /\ r \in ProcessType /\ r.at = "build" /\ r.tables = process[p].tables
        /\ r.users = process[p].users /\ r.opening = process[p].opening
        /\ r.task = process[p].task
    BY <1>1, <2>1, GoesOn
  <2>3. Writes(r)'
    BY <1>1, <1>2, <1>3, <1>7, <2>2 DEF Writes
  <2>4. Fits(Admin, r)'
    BY <1>1, <1>2, <1>4, <1>5, <2>2, <2>3 DEF Fits, Appends, Loads, Knows, Creating
  <2>5. QED
    BY <1>1, <1>2, <1>4, <1>7, <2>1, <2>4, DiskStep DEF Goes
<1>8. QED
  BY <1>2, <1>6, <1>7 DEF CreateFolder

(* The schema is built. *)
LEMMA BuildKeeps == ASSUME IInv, NEW p \in Process, Build(p) PROVE IInv' /\ Kept
<1>1. process[p].at = "build" /\ process[p].at \in Creating /\ "file" \in Creating
      /\ UNCHANGED disk /\ opens' \in 0..Opens /\ Fits(p, process[p])
  BY DEF Build, Creating, IInv
<1>2. CASE Back(p)
  <2>1. PICK r : r = [process[p] EXCEPT !.at = "open", !.task = <<>>]
    OBVIOUS
  <2>2. Fits(p, r)
    BY <1>1, <2>1, BackFits
  <2>3. QED
    BY <1>1, <1>2, <2>1, <2>2, MemoryStep DEF Back
<1>3. CASE Goes(p, "file")
  <2>1. PICK r : r = [process[p] EXCEPT !.at = "file"]
    OBVIOUS
  <2>2. /\ r \in ProcessType /\ r.at = "file" /\ r.tables = process[p].tables
        /\ r.users = process[p].users /\ r.opening = process[p].opening
        /\ r.task = process[p].task
    BY <1>1, <2>1, GoesOn
  <2>3. Writes(process[p]) /\ p = Admin
    BY <1>1, InHand DEF Fits
  <2>4. Writes(r)
    BY <1>1, <2>2, <2>3 DEF Writes
  <2>5. Fits(p, r)
    BY <1>1, <2>2, <2>3, <2>4 DEF Fits, Appends, Loads, Knows, Creating
  <2>6. QED
    BY <1>1, <1>3, <2>1, <2>5, MemoryStep DEF Goes
<1>4. QED
  BY <1>2, <1>3 DEF Build

(* The file is opened, which empties it: it was not there. *)
LEMMA OpenFileKeeps == ASSUME IInv, NEW p \in Process, OpenFile(p) PROVE IInv' /\ Kept
<1>1. process[p].at = "file" /\ process[p].at \in Creating /\ "write" \in Creating
      /\ UNCHANGED <<directory, users, folder, saved, opens>> /\ Fits(p, process[p])
  BY DEF OpenFile, Creating, IInv
<1>2. PICK t \in Table, d \in Definition :
        /\ p = Admin /\ process[p].task[1] = t /\ process[p].task = <<t, d>>
        /\ t \in folder /\ schema[t] = "none"
  BY <1>1, InHand
<1>3. schema' = [schema EXCEPT ![t] = "empty"]
      /\ schema \in [Table -> {"none", "empty", "partial", "full"}]
  BY <1>2 DEF OpenFile, IInv, DiskInv
<1>4. Kept /\ Readable' = Readable
  BY <1>1, <1>2, <1>3 DEF Kept, Readable
<1>5. directory
  BY <1>1 DEF Fits
<1>6. DiskInv'
  BY <1>1, <1>2, <1>3, <1>5 DEF IInv, DiskInv, UsersDiffer
<1>7. PICK r : r = [process[p] EXCEPT !.at = "write"]
  OBVIOUS
<1>8. /\ r \in ProcessType /\ r.at = "write" /\ r.tables = process[p].tables
      /\ r.users = process[p].users /\ r.opening = process[p].opening
      /\ r.task = process[p].task
  BY <1>1, <1>7, GoesOn
<1>9. Writes(r)'
  BY <1>1, <1>2, <1>3, <1>8 DEF Writes
<1>10. Fits(Admin, r)'
  BY <1>1, <1>2, <1>4, <1>8, <1>9 DEF Fits, Appends, Loads, Knows, Creating
<1>11. QED
  BY <1>1, <1>2, <1>4, <1>6, <1>7, <1>10, DiskStep DEF OpenFile, Goes

(* The schema is written, in part when something fails. *)
LEMMA WriteFileKeeps == ASSUME IInv, NEW p \in Process, WriteFile(p) PROVE IInv' /\ Kept
<1>1. process[p].at = "write" /\ process[p].at \in Creating /\ "close" \in Creating
      /\ UNCHANGED <<directory, users, folder, saved, opens>> /\ Fits(p, process[p])
  BY DEF WriteFile, Creating, IInv
<1>2. PICK t \in Table, d \in Definition :
        /\ p = Admin /\ process[p].task[1] = t /\ process[p].task = <<t, d>>
        /\ t \in folder /\ schema[t] = "empty"
  BY <1>1, InHand
<1>3. PICK b : b = [process[p] EXCEPT !.at = "open", !.task = <<>>]
  OBVIOUS
<1>4. Fits(p, b) /\ b.at = "open"
  BY <1>1, <1>3, BackFits
<1>5. CASE UNCHANGED schema /\ Back(p)
  BY <1>1, <1>3, <1>4, <1>5, MemoryStep DEF Back, disk, IInv
<1>6. CASE schema' = [schema EXCEPT ![t] = "partial"] /\ (Goes(p, "close") \/ Back(p))
  <2>1. schema \in [Table -> {"none", "empty", "partial", "full"}]
    BY DEF IInv, DiskInv
  <2>2. Kept /\ Readable' = Readable
    BY <1>1, <1>2, <1>6, <2>1 DEF Kept, Readable
  <2>3. directory
    BY <1>1 DEF Fits
  <2>4. DiskInv'
    BY <1>1, <1>2, <1>6, <2>1, <2>3 DEF IInv, DiskInv, UsersDiffer
  <2>5. PICK r : r = [process[p] EXCEPT !.at = "close"]
    OBVIOUS
  <2>6. /\ r \in ProcessType /\ r.at = "close" /\ r.tables = process[p].tables
        /\ r.users = process[p].users /\ r.opening = process[p].opening
        /\ r.task = process[p].task
    BY <1>1, <2>5, GoesOn
  <2>7. Writes(r)'
    BY <1>1, <1>2, <1>6, <2>1, <2>6 DEF Writes
  <2>8. Fits(Admin, r)'
    BY <1>1, <1>2, <2>2, <2>6, <2>7 DEF Fits, Appends, Loads, Knows, Creating
  <2>9. Fits(Admin, b)'
    BY <1>1, <1>2, <1>4, <2>2 DEF Fits, Writes, Appends, Loads, Knows, Creating
  <2>10. QED
    BY <1>1, <1>2, <1>3, <1>6, <2>2, <2>4, <2>5, <2>8, <2>9, DiskStep DEF Goes, Back
<1>7. QED
  BY <1>2, <1>5, <1>6 DEF WriteFile

(* The file is closed, and the table is the administrator's, too. *)
LEMMA CloseFileKeeps == ASSUME IInv, NEW p \in Process, CloseFile(p) PROVE IInv' /\ Kept
<1>1. process[p].at = "close" /\ process[p].at \in Creating
      /\ UNCHANGED <<directory, users, folder, opens>> /\ Fits(p, process[p])
      /\ process[p] \in ProcessType
  BY DEF CloseFile, Creating, IInv
<1>2. PICK t \in Table, d \in Definition :
        /\ p = Admin /\ process[p].task[1] = t /\ process[p].task[2] = d
        /\ t \in folder /\ schema[t] = "partial"
  BY <1>1, InHand
<1>3. /\ schema' = [schema EXCEPT ![t] = "full"] /\ saved' = [saved EXCEPT ![t] = Schema(d)]
      /\ schema \in [Table -> {"none", "empty", "partial", "full"}]
      /\ saved \in [Table -> {Schema(e) : e \in Definition} \cup {NoSchema}]
  BY <1>2 DEF CloseFile, IInv, DiskInv
<1>4. Kept /\ Readable' = Readable \cup {t}
  BY <1>1, <1>2, <1>3 DEF Kept, Readable
<1>5. directory
  BY <1>1 DEF Fits
<1>6. DiskInv'
  BY <1>1, <1>2, <1>3, <1>5 DEF IInv, DiskInv, UsersDiffer
<1>7. PICK r : r = [process[p] EXCEPT !.at = "open", !.task = <<>>, !.tables = @ \cup {t}]
  OBVIOUS
<1>8. /\ r \in ProcessType /\ r.at = "open" /\ r.tables = process[p].tables \cup {t}
      /\ r.users = process[p].users /\ r.opening = process[p].opening
  <2>1. <<>> \in Task
    BY DEF Task
  <2>2. QED
    BY <1>1, <1>7, <2>1 DEF ProcessType, Place
<1>9. Fits(Admin, r)'
  BY <1>1, <1>2, <1>4, <1>8 DEF Fits, Writes, Appends, Loads, Knows, Creating
<1>10. QED
  BY <1>1, <1>2, <1>4, <1>6, <1>7, <1>9, DiskStep DEF CloseFile
-----------------------------------------------------------------------------
(* No database and nobody that has opened one. *)
LEMMA InitHolds == Init => IInv
<1> SUFFICES ASSUME Init PROVE IInv
  OBVIOUS
<1>1. <<>> \in Seq(Record) /\ Len(<<>>) = 0 /\ DOMAIN <<>> = {} /\ 0 <= Records /\ 0 \in 0..Opens
  BY EmptySeq, BoundAssumption
<1>2. DiskInv
  BY <1>1 DEF Init, DiskInv, UsersDiffer
<1>3. \A p \in Process : Closed \in ProcessType /\ Fits(p, Closed)
  BY ClosedFits DEF Fits
<1>4. process \in [Process -> ProcessType] /\ \A p \in Process : Fits(p, process[p])
  BY <1>3 DEF Init
<1>5. QED
  BY <1>1, <1>2, <1>4 DEF Init, IInv

(* Every step keeps the invariant and the schemas. *)
LEMMA NextKeeps == IInv /\ [Next]_vars => IInv' /\ [Kept]_vars
<1> SUFFICES ASSUME IInv, [Next]_vars PROVE IInv' /\ [Kept]_vars
  OBVIOUS
<1>1. CASE Next
  BY <1>1, OpenStartKeeps, OpenUsersKeeps, OpenListKeeps, LoadTableKeeps, OpenDoneKeeps, EndKeeps,
     CreateKeeps, CreateUsersKeeps, AddUserKeeps, AppendKeeps, CreateTableKeeps, CreateFolderKeeps,
     BuildKeeps, OpenFileKeeps, WriteFileKeeps, CloseFileKeeps
  DEF Next
<1>2. CASE UNCHANGED vars
  <2>1. UNCHANGED <<directory, users, folder, schema, saved, process, opens>>
    BY <1>2 DEF vars, disk
  <2>2. DiskInv'
    BY <2>1 DEF IInv, DiskInv, UsersDiffer
  <2>3. \A p \in Process : Fits(p, process[p])'
    BY <2>1 DEF IInv, Fits, Writes, Appends, Loads, Knows, Readable
  <2>4. QED
    BY <1>2, <2>1, <2>2, <2>3 DEF IInv
<1>3. QED
  BY <1>1, <1>2

(* The invariant holds throughout. *)
LEMMA Invariant == Spec => []IInv
<1>1. IInv /\ [Next]_vars => IInv'
  BY NextKeeps
<1>2. QED
  BY InitHolds, <1>1, PTL DEF Spec

(* Files and processes keep their types; no schema is without a directory. *)
THEOREM TypesKept == Spec => []TypeOK
<1>1. IInv => TypeOK
  <2> SUFFICES ASSUME IInv PROVE TypeOK
    OBVIOUS
  <2>1. \A p \in Process : process[p] \in ProcessType
    BY DEF IInv
  <2>2. QED
    BY <2>1 DEF IInv, DiskInv, TypeOK, ProcessType, Place, Creating
<1>2. QED
  BY <1>1, Invariant, PTL

(* No process has a table whose schema was not written to its end. *)
THEOREM NoTableIsHalf == Spec => []NoHalfTable
<1>1. IInv => NoHalfTable
  BY DEF IInv, Fits, NoHalfTable
<1>2. QED
  BY <1>1, Invariant, PTL

(* An administrator that opened the database has the tables that are on    *)
(* disk, whatever was created, refused or failed since.                    *)
THEOREM TablesStayOnDisk == Spec => []TablesMatchDisk
<1>1. IInv => TablesMatchDisk
  <2> SUFFICES ASSUME IInv PROVE TablesMatchDisk
    OBVIOUS
  <2>1. Fits(Admin, process[Admin])
    BY ProcessAssumption DEF IInv
  <2>2. QED
    BY <2>1 DEF Fits, Loads, TablesMatchDisk
<1>2. QED
  BY <1>1, Invariant, PTL

(* Two records of a user are of one opening, or of none. *)
THEOREM UsersStayApart == Spec => []UsersDiffer
<1>1. IInv => UsersDiffer
  BY DEF IInv, DiskInv
<1>2. QED
  BY <1>1, Invariant, PTL

(* A schema that was written is never overwritten or lost. *)
THEOREM WrittenSchemasStay == Spec => SchemasStay
<1>1. IInv /\ [Next]_vars =>
        [\A t \in Table : schema[t] = "full" => schema'[t] = "full" /\ saved'[t] = saved[t]]_vars
  BY NextKeeps DEF Kept
<1>2. QED
  BY <1>1, Invariant, PTL DEF Spec, SchemasStay
=============================================================================
