------------------------------- MODULE Catalog -------------------------------
(***************************************************************************)
(* CDatabase (cdatabase.cpp) and the part of CTable that keeps a table's   *)
(* schema on disk (ctable.cpp).  A database is a directory with a file of  *)
(* users and a directory for each table, which holds the file schema.moon. *)
(*                                                                         *)
(* An administrator's process creates databases, tables and users; the     *)
(* server opens the same directory (CMoonDb::GetDatabase).  Each may end   *)
(* between any two steps, and start again.  A step is one test of, or      *)
(* change to, the file system.  What a crash of the machine does to files  *)
(* that were closed is not modelled; nor are the contents of a record of a *)
(* user, and of a definition only what decides about the row id is.        *)
(***************************************************************************)
EXTENDS Integers, Sequences, FiniteSets, SequencesExt

CONSTANTS
  Process,     \* those that open the database
  Admin,       \* the one of them that creates
  Table, User, \* names
  Definition,  \* [engine : BOOLEAN (it exists), fields : a sequence of
               \* [name, type], primary : the fields of the primary key]
  Opens,       \* bound of the model: how often the database is opened
  Records      \* bound of the model: how many records users.data may have

ASSUME ProcessAssumption == Admin \in Process
ASSUME BoundAssumption == Opens \in Nat /\ Records \in Nat

Integer == {"SERIAL32", "SERIAL64", "UINT32"}

VARIABLES
  directory,  \* the directory of the database is there
  users,      \* users.data: it is there, its records, a part of one at the end
  folder,     \* the directories of tables that are there
  schema,     \* schema.moon of each table: none, empty, partial or full
  saved,      \* the definition a schema was written from
  process,    \* each process: where it is, and its CDatabase
  opens

disk == <<directory, users, folder, schema, saved>>
vars == <<disk, process, opens>>

(* What CreateTable makes of a definition: an integer field is looked for  *)
(* when the primary key has one field, and the last one is taken.          *)
Found(d) ==
  {i \in DOMAIN d.fields : Len(d.primary) = 1 /\ d.fields[i].type \in Integer}
RowIdType(d) == IF Found(d) = {} THEN "SERIAL64" ELSE d.fields[Max(Found(d))].type
RowIdField(d) == IF Found(d) = {} THEN "rowid" ELSE d.primary[1]
Fields(d) ==
  IF Found(d) = {} THEN <<[name |-> "rowid", type |-> "SERIAL64"]>> \o d.fields ELSE d.fields
Schema(d) == [rowidtype |-> RowIdType(d), rowidfield |-> RowIdField(d), fields |-> Fields(d)]
NoSchema == [rowidtype |-> "none", rowidfield |-> "none", fields |-> <<>>]

Closed == [at |-> "closed", todo |-> {}, users |-> {}, tables |-> {}, opening |-> 0, task |-> <<>>]

TypeOK ==
  /\ directory \in BOOLEAN /\ folder \subseteq Table
  /\ users.there \in BOOLEAN /\ users.torn \in BOOLEAN /\ Len(users.records) <= Records
  /\ schema \in [Table -> {"none", "empty", "partial", "full"}]
  /\ \A t \in Table : schema[t] # "none" => t \in folder /\ directory
  /\ saved \in [Table -> {Schema(d) : d \in Definition} \cup {NoSchema}]
  /\ \A p \in Process :
       /\ process[p].at \in {"closed", "users", "list", "load", "open", "mkusers", "folder", "build",
                             "file", "write", "close", "append"}
       /\ process[p].todo \cup process[p].tables \subseteq Table /\ process[p].users \subseteq User
       /\ process[p].opening \in 0..Opens
  /\ opens \in 0..Opens

Init ==
  /\ directory = FALSE /\ users = [there |-> FALSE, records |-> <<>>, torn |-> FALSE]
  /\ folder = {} /\ schema = [t \in Table |-> "none"] /\ saved = [t \in Table |-> NoSchema]
  /\ process = [p \in Process |-> Closed] /\ opens = 0

Becomes(p, r) == process' = [process EXCEPT ![p] = r]
Goes(p, place) == Becomes(p, [process[p] EXCEPT !.at = place])
-----------------------------------------------------------------------------
(* Open.  What throws leaves no CDatabase: the constructor fails.          *)

OpenStart(p) ==
  /\ process[p].at = "closed" /\ opens < Opens
  /\ opens' = opens + 1
  /\ directory /\ Becomes(p, [process[p] EXCEPT !.at = "users", !.opening = opens + 1])
  /\ UNCHANGED disk

OpenUsers(p) ==
  /\ process[p].at = "users"
  /\ IF users.there /\ users.torn THEN Becomes(p, Closed)
     ELSE Becomes(p, [process[p] EXCEPT !.at = "list", !.users = {u.name : u \in Range(users.records)}])
  /\ UNCHANGED <<disk, opens>>

OpenList(p) ==
  /\ process[p].at = "list"
  /\ Becomes(p, [process[p] EXCEPT !.at = "load", !.todo = folder])
  /\ UNCHANGED <<disk, opens>>

(* Faulty variant: a schema that cannot be read is taken as it is. *)
LoadTableCarelessly(p, t) ==
  /\ process[p].at = "load" /\ t \in process[p].todo
  /\ IF schema[t] = "none" THEN Becomes(p, [process[p] EXCEPT !.todo = @ \ {t}])
     ELSE Becomes(p, [process[p] EXCEPT !.todo = @ \ {t}, !.tables = @ \cup {t}])
  /\ UNCHANGED <<disk, opens>>

(* LoadTable: a directory without a schema is passed over; a schema that   *)
(* ends early throws, from GetTableProperty or CTable::Open.               *)
LoadTable(p, t) ==
  /\ process[p].at = "load" /\ t \in process[p].todo
  /\ CASE schema[t] = "none" -> Becomes(p, [process[p] EXCEPT !.todo = @ \ {t}])
       [] schema[t] = "full" -> Becomes(p, [process[p] EXCEPT !.todo = @ \ {t}, !.tables = @ \cup {t}])
       [] OTHER              -> Becomes(p, Closed)
  /\ UNCHANGED <<disk, opens>>

OpenDone(p) ==
  /\ process[p].at = "load" /\ process[p].todo = {}
  /\ Goes(p, "open")
  /\ UNCHANGED <<disk, opens>>

(* Close, or the end of the process at any step. *)
End(p) ==
  /\ process[p].at # "closed"
  /\ Becomes(p, Closed)
  /\ UNCHANGED <<disk, opens>>
-----------------------------------------------------------------------------
(* Create: a database without a file of users is completed, and one with   *)
(* it is refused.  The object can be used without opening it.              *)

Create(p) ==
  /\ p = Admin /\ process[p].at = "closed"
  /\ directory' = TRUE /\ Goes(p, "mkusers")
  /\ UNCHANGED <<users, folder, schema, saved, opens>>

CreateUsers(p) ==
  /\ process[p].at = "mkusers"
  /\ IF users.there THEN Becomes(p, Closed) /\ UNCHANGED users
     ELSE Goes(p, "open") /\ users' = [users EXCEPT !.there = TRUE]
  /\ UNCHANGED <<directory, folder, schema, saved, opens>>

(* Faulty variant: a user who is there is not refused. *)
AddUserAnyway(p, u) ==
  /\ p = Admin /\ process[p].at = "open" /\ Len(users.records) < Records
  /\ Becomes(p, [process[p] EXCEPT !.at = "append", !.task = <<u>>])
  /\ UNCHANGED <<disk, opens>>

(* AddUser: refused if the user was there when the database was opened. *)
AddUser(p, u) ==
  /\ p = Admin /\ process[p].at = "open" /\ Len(users.records) < Records
  /\ u \notin process[p].users
  /\ Becomes(p, [process[p] EXCEPT !.at = "append", !.task = <<u>>])
  /\ UNCHANGED <<disk, opens>>

(* The record is appended, or the process ends, or the write fails, when a *)
(* part of it is.  Users, in memory, stays as it was.                      *)
Append1(p) ==
  /\ process[p].at = "append"
  /\ \/ /\ users' = [users EXCEPT !.there = TRUE,
                       !.records = Append(@, [name |-> process[p].task[1], opening |-> process[p].opening])]
        /\ Becomes(p, [process[p] EXCEPT !.at = "open", !.task = <<>>])
     \/ /\ users' = [users EXCEPT !.there = TRUE, !.torn = TRUE]
        /\ Becomes(p, [process[p] EXCEPT !.at = "open", !.task = <<>>]) \/ Becomes(p, Closed)
  /\ UNCHANGED <<directory, folder, schema, saved, opens>>
-----------------------------------------------------------------------------
(* CreateTable *)

CreateTable(p, t, d) ==
  /\ p = Admin /\ process[p].at = "open"
  /\ d.engine
  /\ Becomes(p, [process[p] EXCEPT !.at = "folder", !.task = <<t, d>>])
  /\ UNCHANGED <<disk, opens>>

Back(p) == Becomes(p, [process[p] EXCEPT !.at = "open", !.task = <<>>])

(* Faulty variant: a table that is there is created again. *)
CreateFolderAnyway(p) ==
  /\ process[p].at = "folder"
  /\ folder' = folder \cup {process[p].task[1]}
  /\ Goes(p, "build")
  /\ UNCHANGED <<directory, users, schema, saved, opens>>

(* The directory is made, and a table that has a schema is refused. *)
CreateFolder(p) ==
  /\ process[p].at = "folder"
  /\ folder' = folder \cup {process[p].task[1]}
  /\ IF schema[process[p].task[1]] # "none" THEN Back(p) ELSE Goes(p, "build")
  /\ UNCHANGED <<directory, users, schema, saved, opens>>

(* A default value that does not fit its type throws. *)
Build(p) ==
  /\ process[p].at = "build"
  /\ Goes(p, "file") \/ Back(p)
  /\ UNCHANGED <<disk, opens>>

OpenFile(p) ==
  /\ process[p].at = "file"
  /\ schema' = [schema EXCEPT ![process[p].task[1]] = "empty"]
  /\ Goes(p, "write")
  /\ UNCHANGED <<directory, users, folder, saved, opens>>

(* A write may fail when a part of it, or nothing, is done.                *)
WriteFile(p) ==
  LET t == process[p].task[1] IN
  /\ process[p].at = "write"
  /\ \/ schema' = [schema EXCEPT ![t] = "partial"] /\ (Goes(p, "close") \/ Back(p))
     \/ UNCHANGED schema /\ Back(p)
  /\ UNCHANGED <<directory, users, folder, saved, opens>>

(* Faulty variant: the table is not entered into Tables. *)
CloseFileOnly(p) ==
  LET t == process[p].task[1] IN
  /\ process[p].at = "close"
  /\ schema' = [schema EXCEPT ![t] = "full"]
  /\ saved' = [saved EXCEPT ![t] = Schema(process[p].task[2])]
  /\ Becomes(p, [process[p] EXCEPT !.at = "open", !.task = <<>>])
  /\ UNCHANGED <<directory, users, folder, opens>>

CloseFile(p) ==
  LET t == process[p].task[1] IN
  /\ process[p].at = "close"
  /\ schema' = [schema EXCEPT ![t] = "full"]
  /\ saved' = [saved EXCEPT ![t] = Schema(process[p].task[2])]
  /\ Becomes(p, [process[p] EXCEPT !.at = "open", !.task = <<>>, !.tables = @ \cup {t}])
  /\ UNCHANGED <<directory, users, folder, opens>>

Next ==
  \E p \in Process :
    \/ OpenStart(p) \/ OpenUsers(p) \/ OpenList(p) \/ OpenDone(p) \/ End(p)
    \/ Create(p) \/ CreateUsers(p) \/ Append1(p)
    \/ CreateFolder(p) \/ Build(p) \/ OpenFile(p) \/ WriteFile(p) \/ CloseFile(p)
    \/ \E t \in Table : LoadTable(p, t) \/ \E d \in Definition : CreateTable(p, t, d)
    \/ \E u \in User : AddUser(p, u)

Spec == Init /\ [][Next]_vars
-----------------------------------------------------------------------------
Readable == {t \in Table : schema[t] = "full"}

(* No process has a table whose schema was not written to its end, however *)
(* opening it meets a process that is still writing it, or one that ended  *)
(* there (LoadTable, GetTableProperty, CTable::Open).                      *)
NoHalfTable == \A p \in Process : process[p].tables \subseteq Readable

(* The administrator's CDatabase has all the tables that are on disk, once *)
(* it was opened and whatever was created, refused or failed since; a      *)
(* table that was created is there again after any restart that opens the  *)
(* database at all (Open, CreateTable).                                    *)
TablesMatchDisk ==
  process[Admin].at = "open" /\ process[Admin].opening > 0 => process[Admin].tables = Readable

(* A table's schema that was written is never overwritten or lost, by      *)
(* creating it again or by anything that fails or ends (CTable::Create).   *)
SchemasStay ==
  [][\A t \in Table : schema[t] = "full" => schema'[t] = "full" /\ saved'[t] = saved[t]]_vars

(* Two records of one user are written only within one opening of the      *)
(* database, in which AddUser does not see what it wrote, or by a process  *)
(* that did not open it after all (AddUser, Create, Open).                 *)
UsersDiffer ==
  \A i, j \in DOMAIN users.records :
    i < j /\ users.records[i].name = users.records[j].name =>
      users.records[j].opening \in {0, users.records[i].opening}

(* "If there is no primary key, or it is not of an integer type, a rowid   *)
(* field is created" (the comment that opens CreateTable).                 *)
RowIdWhenNeeded ==
  \A d \in Definition :
    (\A i \in DOMAIN d.fields : d.fields[i].name \in Range(d.primary) => d.fields[i].type \notin Integer)
      => \A t \in Table : saved[t] = Schema(d) => \E f \in Range(saved[t].fields) : f.name = "rowid"
=============================================================================
