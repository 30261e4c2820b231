------------------------------ MODULE Catalog ------------------------------
(***************************************************************************)
(* CREATETABLE and the schema: concurrent connections create tables, the   *)
(* server may die at any moment and start again on the same bolt file.     *)
(*                                                                         *)
(* The schema is kept twice: in the bolt buckets __tables__, __columns__   *)
(* and __sequences__, under bolt's writer lock, and in memory (db.Schema), *)
(* which every handler reads without a lock.  A column is known here by    *)
(* its id; names of columns, and types, are left out.                      *)
(*                                                                         *)
(* A definition commented "Faulty variant" is no part of the specification:*)
(* it is the definition after it with a plausible bug, and shows which     *)
(* property such a bug breaks.                                             *)
(***************************************************************************)
EXTENDS Integers, Sequences, FiniteSets, Bytes

CONSTANTS
    Conns,       \* client connections
    NoConn,      \* nobody, as the owner of bolt's writer lock
    NoStatement, \* what an idle connection runs
    Names,       \* names of tables that clients create
    MaxColumns,  \* bound: columns of a table
    FirstId,     \* Schema.NextColumnID after AddBuiltinSchema (13 in the code)
    Radix,       \* the base of the numerals that are keys in __columns__ (10)
    Requests,    \* the CREATETABLE statements each connection may send
    MaxCreates,  \* bound: statements of each connection
    DiskFails    \* whether bolt's commit may fail

\* A slot of TableDescriptor.Columns that is still nil.
NoColumn == 0

ASSUME ConnsAssumption == NoConn \notin Conns
ASSUME IdAssumption == FirstId \in Nat \ {NoColumn} /\ Radix \in Nat \ {0, 1}
ASSUME ColumnsAssumption == MaxColumns \in Nat
ASSUME CreatesAssumption == MaxCreates \in Nat

\* `legal` says whether the types are known and there is one primary key.
Statements == [table : Names, cols : 1..MaxColumns, refs : SUBSET Names, legal : BOOLEAN]
ASSUME RequestsAssumption == Requests \in [Conns -> SUBSET Statements]

VARIABLES
    disk,    \* the catalog in the bolt file
    tx,      \* the open write transaction, if any
    up,      \* whether the server is running
    tables,  \* Schema.Tables: the columns of the tables it knows
    nextId,  \* Schema.NextColumnID
    pc,      \* per connection, where its handler is
    stmt,    \* per connection, the statement it runs
    asked,   \* per connection, how many statements it has sent
    acks     \* per table, how many CREATETABLEs of it were acknowledged

memory == <<up, tables, nextId>>
vars == <<disk, tx, memory, pc, stmt, asked, acks>>

Atomic == INSTANCE AtomicCatalog WITH catalog <- disk

Column(id, t, pos) == [id |-> id, table |-> t, pos |-> pos]
Columns == [id : Nat, table : Names, pos : 1..MaxColumns]
Catalogs == [tables : SUBSET Names, columns : SUBSET Columns, next : Nat]

\* The catalog `cat` as the owner of a transaction sees it, with the first
\* `done` columns of its table put.
NoTx == [owner |-> NoConn, cat |-> [tables |-> {}, columns |-> {}, next |-> 0], done |-> 0]

\* A table the schema does not know has no columns; one it knows has some.
Unknown == << >>

\* Schema.Tables after AddBuiltinSchema; the built-in tables are left out.
NoTables == [t \in Names |-> Unknown]
Known(t) == tables[t] # Unknown
AllNil(n) == [i \in 1..n |-> NoColumn]

Init ==
    /\ disk = [tables |-> {}, columns |-> {}, next |-> 0]
    /\ tx = NoTx
    /\ up = FALSE
    /\ tables = NoTables
    /\ nextId = 0
    /\ pc = [c \in Conns |-> "idle"]
    /\ stmt = [c \in Conns |-> NoStatement]
    /\ asked = [c \in Conns |-> 0]
    /\ acks = [t \in Names |-> 0]

-----------------------------------------------------------------------------
(* The order of bolt's keys, and loading.                                  *)

\* fmt.Sprintf("%d", id), as the sequence of its digits.
Numeral[n \in Nat] ==
    IF n < Radix THEN <<n>> ELSE Append(Numeral[n \div Radix], n % Radix)

\* LoadUserSchema appends the columns of a table in the order of their keys.
LoadedColumns(cat, t) ==
    LET ids == {q.id : q \in {p \in cat.columns : p.table = t}}
        before(i) == {j \in ids : BytesLess(Numeral[j], Numeral[i])}
    IN  [n \in 1..Cardinality(ids) |-> CHOOSE i \in ids : Cardinality(before(i)) = n - 1]

-----------------------------------------------------------------------------
(* The server's start and its end.                                         *)

\* EnsureBuiltinSchema reads the next column id, or writes it in a new file.
EnsuredNextId == IF disk.next = 0 THEN FirstId ELSE disk.next

\* Faulty variant: the next column id is never read back.
ForgetfulStart ==
    /\ ~up
    /\ up' = TRUE
    /\ nextId' = FirstId
    /\ disk' = [disk EXCEPT !.next = nextId']
    /\ tables' = [t \in Names |-> LoadedColumns(disk, t)]
    /\ UNCHANGED <<tx, pc, stmt, asked, acks>>

\* Faulty variant: the tables in the file are not loaded.
UnloadedStart ==
    /\ ~up
    /\ up' = TRUE
    /\ nextId' = EnsuredNextId
    /\ disk' = [disk EXCEPT !.next = nextId']
    /\ UNCHANGED <<tables, tx, pc, stmt, asked, acks>>

\* NewDatabase: the next column id, then the tables and their columns.
Start ==
    /\ ~up
    /\ up' = TRUE
    /\ nextId' = EnsuredNextId
    /\ disk' = [disk EXCEPT !.next = nextId']
    /\ tables' = [t \in Names |-> LoadedColumns(disk, t)]
    /\ UNCHANGED <<tx, pc, stmt, asked, acks>>

\* The process dies: memory, connections and the open transaction are gone.
Crash ==
    /\ up
    /\ up' = FALSE
    /\ tables' = NoTables
    /\ nextId' = 0
    /\ tx' = NoTx
    /\ pc' = [c \in Conns |-> "idle"]
    /\ stmt' = [c \in Conns |-> NoStatement]
    /\ UNCHANGED <<disk, asked, acks>>

-----------------------------------------------------------------------------
(* CREATETABLE.                                                            *)

\* Faulty variant: the table is added to the schema before the lock is taken.
ValidateAndAdd(c) ==
    /\ up /\ pc[c] = "idle" /\ asked[c] < MaxCreates
    /\ asked' = [asked EXCEPT ![c] = @ + 1]
    /\ \E s \in Requests[c] :
       LET accepted == ~Known(s.table) /\ s.legal /\ \A t \in s.refs : Known(t)
       IN  /\ stmt' = [stmt EXCEPT ![c] = s]
           /\ pc' = [pc EXCEPT ![c] = IF accepted THEN "begin" ELSE "error"]
           /\ tables' = IF accepted THEN [tables EXCEPT ![s.table] = AllNil(s.cols)] ELSE tables
    /\ UNCHANGED <<disk, tx, up, nextId, acks>>

\* A statement arrives and validateCreateTable looks at the schema in memory.
ValidateCreate(c) ==
    /\ up /\ pc[c] = "idle" /\ asked[c] < MaxCreates
    /\ asked' = [asked EXCEPT ![c] = @ + 1]
    /\ \E s \in Requests[c] :
       /\ stmt' = [stmt EXCEPT ![c] = s]
       /\ pc' = [pc EXCEPT ![c] =
                    IF ~Known(s.table) /\ s.legal /\ \A t \in s.refs : Known(t)
                    THEN "begin" ELSE "error"]
    /\ UNCHANGED <<disk, tx, memory, acks>>

\* ExecuteCreateTable takes bolt's writer lock, adds the table to the schema in
\* memory, its columns still nil, and puts its record in __tables__.  If the
\* table's bucket or record is there, it stays or is overwritten.
BeginCreate(c) ==
    /\ pc[c] = "begin" /\ tx.owner = NoConn
    /\ tables' = [tables EXCEPT ![stmt[c].table] = AllNil(stmt[c].cols)]
    /\ tx' = [owner |-> c, done |-> 0,
              cat |-> [disk EXCEPT !.tables = @ \cup {stmt[c].table}]]
    /\ pc' = [pc EXCEPT ![c] = "columns"]
    /\ UNCHANGED <<disk, up, nextId, stmt, asked, acks>>

\* bucket.Put replaces the record with the same key.
PutColumn(columns, q) == {p \in columns : p.id # q.id} \cup {q}

\* Faulty variant: the loop over the columns runs once too often.
AddColumnTooMany(c) ==
    /\ pc[c] = "columns" /\ tx.done <= stmt[c].cols
    /\ LET pos == tx.done + 1
           t == stmt[c].table
       IN  /\ nextId' = nextId + 1
           /\ tables' = [tables EXCEPT ![t][pos] = nextId]
           /\ tx' = [tx EXCEPT !.done = pos,
                               !.cat.columns = PutColumn(@, Column(nextId, t, pos))]
    /\ UNCHANGED <<disk, up, pc, stmt, asked, acks>>

\* Faulty variant: each column is put in a transaction of its own.
AddColumnCommitted(c) ==
    /\ pc[c] = "columns" /\ tx.done < stmt[c].cols
    /\ LET pos == tx.done + 1
           t == stmt[c].table
       IN  /\ nextId' = nextId + 1
           /\ tables' = [tables EXCEPT ![t][pos] = nextId]
           /\ tx' = [tx EXCEPT !.done = pos,
                               !.cat.columns = PutColumn(@, Column(nextId, t, pos))]
    /\ disk' = tx'.cat
    /\ UNCHANGED <<up, pc, stmt, asked, acks>>

\* The next column gets its id, its slot in memory and its record.
AddColumn(c) ==
    /\ pc[c] = "columns" /\ tx.done < stmt[c].cols
    /\ LET pos == tx.done + 1
           t == stmt[c].table
       IN  /\ nextId' = nextId + 1
           /\ tables' = [tables EXCEPT ![t][pos] = nextId]
           /\ tx' = [tx EXCEPT !.done = pos,
                               !.cat.columns = PutColumn(@, Column(nextId, t, pos))]
    /\ UNCHANGED <<disk, up, pc, stmt, asked, acks>>

\* Faulty variant: the id after the next one is put in __sequences__.
PushEventsSkipping(c) ==
    /\ pc[c] = "columns" /\ tx.done = stmt[c].cols
    /\ tx' = [tx EXCEPT !.cat.next = nextId + 1]
    /\ pc' = [pc EXCEPT ![c] = "commit"]
    /\ UNCHANGED <<disk, memory, stmt, asked, acks>>

\* The new records are pushed to the event loops of __tables__ and __columns__,
\* and the next column id is put in __sequences__.
PushEvents(c) ==
    /\ pc[c] = "columns" /\ tx.done = stmt[c].cols
    /\ tx' = [tx EXCEPT !.cat.next = nextId]
    /\ pc' = [pc EXCEPT ![c] = "commit"]
    /\ UNCHANGED <<disk, memory, stmt, asked, acks>>

CommitCreate(c) ==
    /\ pc[c] = "commit"
    /\ disk' = tx.cat
    /\ tx' = NoTx
    /\ pc' = [pc EXCEPT ![c] = "ack"]
    /\ UNCHANGED <<memory, stmt, asked, acks>>

\* Faulty variant: the error of the commit is ignored.
FailCommitUnseen(c) ==
    /\ DiskFails /\ pc[c] = "commit"
    /\ tx' = NoTx
    /\ pc' = [pc EXCEPT ![c] = "ack"]
    /\ UNCHANGED <<disk, memory, stmt, asked, acks>>

\* The commit fails: bolt rolls back, and the schema in memory stays as it is.
FailCommit(c) ==
    /\ DiskFails /\ pc[c] = "commit"
    /\ tx' = NoTx
    /\ pc' = [pc EXCEPT ![c] = "error"]
    /\ UNCHANGED <<disk, memory, stmt, asked, acks>>

\* The client is told.
Reply(c) ==
    /\ pc[c] \in {"ack", "error"}
    /\ acks' = IF pc[c] = "ack" THEN [acks EXCEPT ![stmt[c].table] = @ + 1] ELSE acks
    /\ pc' = [pc EXCEPT ![c] = "idle"]
    /\ stmt' = [stmt EXCEPT ![c] = NoStatement]
    /\ UNCHANGED <<disk, tx, memory, asked>>

HandlerStep(c) ==
    \/ ValidateCreate(c) \/ BeginCreate(c) \/ AddColumn(c) \/ PushEvents(c)
    \/ CommitCreate(c) \/ FailCommit(c) \/ Reply(c)

Next == Start \/ Crash \/ \E c \in Conns : HandlerStep(c)
Spec == Init /\ [][Next]_vars

-----------------------------------------------------------------------------
(* Properties.                                                             *)

\* The variables hold what the program's data structures can hold.
TypeOK ==
    /\ disk \in Catalogs
    /\ tx \in [owner : Conns \cup {NoConn}, cat : Catalogs, done : 0..MaxColumns]
    /\ up \in BOOLEAN
    /\ tables \in [Names -> Seq(Nat)]
    /\ nextId \in Nat
    /\ pc \in [Conns -> {"idle", "begin", "columns", "commit", "ack", "error"}]
    /\ stmt \in [Conns -> Statements \cup {NoStatement}]
    /\ asked \in [Conns -> 0..MaxCreates]
    /\ acks \in [Names -> Nat]

\* No column gets an id that a column ever had, although the next id is counted
\* in memory by transactions that may fail and is read back after a crash: the
\* ids in the file are below the next id in the file, that is at most the next
\* id in memory, and no two columns of the file or of the transaction share one.
ColumnIdsFresh ==
    /\ \A q \in disk.columns : q.id < disk.next
    /\ up => disk.next <= nextId /\ \A q \in tx.cat.columns : q.id < nextId
    /\ \A cat \in {disk, tx.cat} : \A p, q \in cat.columns : p.id = q.id => p = q

\* A table whose creation was acknowledged is in the file from then on, with a
\* column for every position up to its last, whatever crashes and failed commits
\* there are.
AckedTablesSurvive ==
    \A t \in Names : acks[t] > 0 =>
        /\ t \in disk.tables
        /\ \E n \in 1..MaxColumns :
              {q.pos : q \in {p \in disk.columns : p.table = t}} = 1..n

\* CREATETABLE is atomic: the file goes from catalog to catalog as AtomicCatalog
\* says, in one step for all the columns of a table.
CreatesAtomically == Atomic!Spec

\* create_table.go:88, "put column spec in in-memory schema copy": while no table
\* is being created, the schema in memory is what the file would be loaded as.
SchemaIsCopy ==
    up /\ tx.owner = NoConn => \A t \in Names : tables[t] = LoadedColumns(disk, t)

=============================================================================
