----------------------------- MODULE CatalogUse -----------------------------
(***************************************************************************)
(* Statements that use tables while Catalog's connections create them.     *)
(* They read the schema in memory without a lock, so they may meet a table *)
(* whose columns are still nil, or one whose creation has failed and that  *)
(* has no bucket.  A handler that panics is stopped by net/http and leaves *)
(* its connection dead; a panic in a requery goroutine, of a live query on *)
(* __columns__, ends the process.                                          *)
(*                                                                         *)
(* The faulty variants are definitions of Catalog with a plausible bug.    *)
(***************************************************************************)
EXTENDS Catalog

CONSTANTS
    Users,      \* connections that use tables
    MaxUses     \* bound: statements of each user

ASSUME UsesAssumption == MaxUses \in Nat

\* "columns" is a live query on __columns__.
Uses == [do : {"insert", "select", "columns"}, table : Names, width : 1..MaxColumns]

VARIABLES
    user,       \* per user, where its handler is, its statement, and the tables
                \* that have a bucket in the snapshot its SELECT reads
    used,       \* per user, how many statements it has sent
    watched,    \* whether __columns__ has a table listener
    requeries,  \* columns that a requery goroutine is about to look up
    spoiled,    \* tables whose creation failed, or that were created over
    panicked    \* whether a goroutine's panic has ended the process

useVars == <<user, used, watched, requeries, spoiled, panicked>>
allVars == <<vars, useVars>>

Resting == [st |-> "idle", stmt |-> NoStatement, snap |-> {}]

UseInit ==
    /\ Init
    /\ user = [u \in Users |-> Resting]
    /\ used = [u \in Users |-> 0]
    /\ watched = FALSE
    /\ requeries = {}
    /\ spoiled = {}
    /\ panicked = FALSE

-----------------------------------------------------------------------------
(* The schema in memory, as those who use it find it.                      *)

HasNil(t) == \E i \in DOMAIN tables[t] : tables[t][i] = NoColumn
HasBucket(t) == t \in disk.tables

\* SchemaColumnsIterator.columns, in number: the built-in ones and the users'.
Slots == {s \in Names \X (1..MaxColumns) : s[2] \in DOMAIN tables[s[1]]}
ListedColumns == FirstId + Cardinality(Slots)

\* The handler answers, or panics and never reads another statement.
Answer(u) == user' = [user EXCEPT ![u] = Resting]
Die(u) == user' = [user EXCEPT ![u].st = "dead"]

-----------------------------------------------------------------------------
(* Statements.                                                             *)

\* A statement is validated: validateInsert counts the table's columns, and
\* validateSelect looks at each.
BeginUse(u) ==
    /\ up /\ user[u].st = "idle" /\ used[u] < MaxUses
    /\ used' = [used EXCEPT ![u] = @ + 1]
    /\ \E s \in Uses :
       LET accepted == \/ s.do = "columns"
                       \/ Known(s.table) /\ (s.do = "insert" => s.width = Len(tables[s.table]))
       IN  user' = [user EXCEPT ![u] =
              IF ~accepted THEN Resting
              ELSE [st |-> IF s.do = "select" /\ HasNil(s.table) THEN "dead" ELSE s.do,
                    stmt |-> s, snap |-> {}]]
    /\ UNCHANGED <<vars, watched, requeries, spoiled, panicked>>

\* ExecuteInsert names the columns of the table as it is now, ...
BuildRecord(u) ==
    /\ up /\ user[u].st = "insert"
    /\ LET s == user[u].stmt IN
       IF HasNil(s.table) \/ s.width > Len(tables[s.table])
       THEN Die(u)
       ELSE user' = [user EXCEPT ![u].st = "put"]
    /\ UNCHANGED <<vars, used, watched, requeries, spoiled, panicked>>

\* ... then takes bolt's writer lock and puts the record in the table's bucket.
PutRecord(u) ==
    /\ up /\ user[u].st = "put" /\ tx.owner = NoConn
    /\ IF HasBucket(user[u].stmt.table) THEN Answer(u) ELSE Die(u)
    /\ UNCHANGED <<vars, used, watched, requeries, spoiled, panicked>>

\* executeQuery begins a read transaction: a snapshot of the file, without a lock.
BeginRead(u) ==
    /\ up /\ user[u].st = "select"
    /\ user' = [user EXCEPT ![u].st = "read", ![u].snap = disk.tables]
    /\ UNCHANGED <<vars, used, watched, requeries, spoiled, panicked>>

\* scanTable maps the names of the columns the table has in memory by now, and
\* opens a cursor of the bucket the snapshot has of it.
ReadTable(u) ==
    /\ up /\ user[u].st = "read"
    /\ LET t == user[u].stmt.table IN
       IF HasNil(t) \/ t \notin user[u].snap THEN Die(u) ELSE Answer(u)
    /\ UNCHANGED <<vars, used, watched, requeries, spoiled, panicked>>

\* A live query on __columns__ subscribes, then lists all the columns there are.
WatchColumns(u) ==
    /\ up /\ user[u].st = "columns"
    /\ watched' = TRUE
    /\ IF \E t \in Names : HasNil(t) THEN Die(u) ELSE Answer(u)
    /\ UNCHANGED <<vars, used, requeries, spoiled, panicked>>

UserStep(u) ==
    \/ BeginUse(u) \/ BuildRecord(u) \/ PutRecord(u)
    \/ BeginRead(u) \/ ReadTable(u) \/ WatchColumns(u)

-----------------------------------------------------------------------------
(* Requeries of __columns__.                                               *)

\* The server is gone, with the users' connections and its goroutines.
Down ==
    /\ Crash
    /\ user' = [u \in Users |-> Resting]
    /\ watched' = FALSE
    /\ requeries' = {}
    /\ UNCHANGED <<used, spoiled>>

\* The goroutine of a new column lists the columns and takes its id as an index:
\* SchemaColumnsIterator.Get.
RequeryColumn(id) ==
    /\ up /\ id \in requeries
    /\ IF (\E t \in Names : HasNil(t)) \/ id >= ListedColumns
       THEN Down /\ panicked' = TRUE
       ELSE /\ requeries' = requeries \ {id}
            /\ UNCHANGED <<vars, user, used, watched, spoiled, panicked>>

-----------------------------------------------------------------------------
(* The steps of Catalog.                                                   *)

\* PushTableEvent tells the listener of __columns__ of the table's columns.
PushColumns(c) ==
    /\ PushEvents(c)
    /\ requeries' = IF watched
                    THEN requeries \cup {q.id : q \in tx.cat.columns \ disk.columns} ELSE requeries
    /\ UNCHANGED <<user, used, watched, spoiled, panicked>>

CreateOver(c) ==
    /\ BeginCreate(c)
    /\ spoiled' = IF Known(stmt[c].table) THEN spoiled \cup {stmt[c].table} ELSE spoiled
    /\ UNCHANGED <<user, used, watched, requeries, panicked>>

FailCreate(c) ==
    /\ FailCommit(c)
    /\ spoiled' = spoiled \cup {stmt[c].table}
    /\ UNCHANGED <<user, used, watched, requeries, panicked>>

CreateStep(c) ==
    \/ PushColumns(c) \/ CreateOver(c) \/ FailCreate(c)
    \/ (ValidateCreate(c) \/ AddColumn(c) \/ CommitCreate(c) \/ Reply(c)) /\ UNCHANGED useVars

UseNext ==
    \/ Start /\ UNCHANGED useVars
    \/ Down /\ UNCHANGED panicked
    \/ \E c \in Conns : CreateStep(c)
    \/ \E u \in Users : UserStep(u)
    \/ \E id \in requeries : RequeryColumn(id)

UseSpec == UseInit /\ [][UseNext]_allVars

-----------------------------------------------------------------------------
(* Properties.                                                             *)

\* The variables hold what the program's data structures can hold.
UseTypeOK ==
    /\ TypeOK
    /\ \A u \in Users :
          \/ user[u] = Resting
          \/ user[u] \in [st : {"insert", "put", "select", "read", "columns", "dead"},
                          stmt : Uses, snap : SUBSET Names]
    /\ used \in [Users -> 0..MaxUses]
    /\ watched \in BOOLEAN /\ panicked \in BOOLEAN
    /\ requeries \subseteq Nat /\ spoiled \subseteq Names

InTheMaking(t) == tx.owner # NoConn /\ stmt[tx.owner].table = t

\* A handler dies, and the tables that it may die of.
Dies(u) == user[u].st # "dead" /\ user'[u].st = "dead"
Excused(u) ==
    LET s == user'[u].stmt IN
    \/ \E t \in Names : InTheMaking(t) /\ (s.do = "columns" \/ t = s.table)
    \/ s.do # "columns" /\ s.table \in spoiled
    \/ user[u].st = "read" /\ s.table \notin user[u].snap

\* A SELECT takes its snapshot, and the tables that must be in it.
BeginsReading(u) == user[u].st # "read" /\ user'[u].st = "read"
Sees(u) ==
    LET t == user'[u].stmt.table IN t \in user'[u].snap \/ InTheMaking(t) \/ t \in spoiled

\* A handler dies of a table only while that table is being created, if its
\* creation failed or it was created over another, or if its SELECT reads a
\* snapshot without it; and a snapshot without its table is taken only while that
\* table is being created, or if its creation failed.  So a table whose creation
\* was not disturbed kills no statement that begins to read after it was
\* acknowledged, also after a restart; one that began before may still die.
OnlySpoiledTablesKill ==
    [][\A u \in Users : (Dies(u) => Excused(u)) /\ (BeginsReading(u) => Sees(u))]_allVars

\* The process dies of a requery of __columns__ only while some table is being
\* created, or after a creation has failed or gone over another: until then each
\* column's id is an index of the list of columns, also after a restart.
OnlySpoiledIdsPanic ==
    [][panicked' # panicked => spoiled # {} \/ \E t \in Names : InTheMaking(t)]_allVars

\* Two CREATETABLEs of a name are acknowledged only if they overlap: none is
\* accepted once the table is in the file.
TwiceOnlyByOverlap ==
    [][\A c \in Conns : (pc[c] = "idle" /\ pc'[c] = "begin") => stmt'[c].table \notin disk.tables]_allVars

=============================================================================
