-------------------------- MODULE CatalogUse_proofs --------------------------
(***************************************************************************)
(* Proofs about Catalog and CatalogUse, for every set of connections and   *)
(* tables, every number of statements and columns, every crash and failed  *)
(* commit.                                                                 *)
(*                                                                         *)
(* Of Catalog: column ids are fresh, what was acknowledged survives, and   *)
(* it implements AtomicCatalog.  Numerals differ and the order of bytes is *)
(* total, and so loading gives each column its place.                      *)
(*                                                                         *)
(* Of CatalogUse: the statements that use tables, their panics and those   *)
(* of the requeries leave the catalog to Catalog's steps, so what is       *)
(* proved of Catalog holds of it; a table that is in the file is never     *)
(* created again; and handlers and requeries die only of tables and ids    *)
(* that a creation under way, failed or doubled has left wrong.            *)
(***************************************************************************)
EXTENDS CatalogUse, Bytes_proofs

-----------------------------------------------------------------------------
(* Catalog: the inductive invariant.                                       *)

Pcs == {"idle", "begin", "columns", "commit", "ack", "error"}
Txs == [owner : Conns \cup {NoConn}, cat : Catalogs, done : 0..MaxColumns]

\* The part of TypeOK the proofs need: all but the columns in memory.
Typed ==
    /\ disk \in Catalogs
    /\ tx \in Txs
    /\ up \in BOOLEAN
    /\ nextId \in Nat
    /\ pc \in [Conns -> Pcs]
    /\ stmt \in [Conns -> Statements \cup {NoStatement}]
    /\ acks \in [Names -> Nat]

\* Only a running server has handlers at work, each on a statement.
Working ==
    /\ \A c \in Conns : pc[c] # "idle" => up /\ stmt[c] \in Statements
    /\ up => 0 < disk.next /\ disk.next <= nextId

\* The ids in the file are below the file's next id.
FileFresh ==
    /\ disk.next = 0 => disk.columns = {}
    /\ \A q \in disk.columns : q.id < disk.next
    /\ \A p, q \in disk.columns : p.id = q.id => p = q

\* The columns a transaction has put so far.
Added == Atomic!NewColumns(nextId - tx.done, stmt[tx.owner].table, tx.done)

\* An open transaction is the file and the columns of one new table, with ids
\* that end at the next id in memory.
TxIsFileAndNew ==
    /\ \A c \in Conns : pc[c] \in {"columns", "commit"} => tx.owner = c
    /\ tx.owner = NoConn => tx = NoTx
    /\ tx.owner # NoConn =>
         /\ pc[tx.owner] \in {"columns", "commit"}
         /\ tx.done <= stmt[tx.owner].cols
         /\ disk.next <= nextId - tx.done
         /\ tx.cat.tables = disk.tables \cup {stmt[tx.owner].table}
         /\ tx.cat.columns = disk.columns \cup Added
         /\ pc[tx.owner] = "commit" => tx.done = stmt[tx.owner].cols /\ tx.cat.next = nextId

Positions(t) == {q.pos : q \in {p \in disk.columns : p.table = t}}

\* The tables in the file, and those that were acknowledged, are complete.
TablesWhole ==
    /\ \A q \in disk.columns : q.table \in disk.tables
    /\ \A t \in disk.tables : \E n \in 1..MaxColumns : Positions(t) = 1..n
    /\ \A t \in Names : acks[t] > 0 => t \in disk.tables
    /\ \A c \in Conns : pc[c] = "ack" => stmt[c].table \in disk.tables

Inv == Typed /\ Working /\ FileFresh /\ TxIsFileAndNew /\ TablesWhole

-----------------------------------------------------------------------------
\* A statement's parts.
LEMMA StatementParts ==
    ASSUME NEW s \in Statements
    PROVE  s.table \in Names /\ s.cols \in 1..MaxColumns /\ s.cols \in Nat /\ 0 < s.cols
  BY ColumnsAssumption DEF Statements

\* The columns of a transaction are columns, with ids below the next one.
LEMMA NewColumnsType ==
    ASSUME NEW first \in Nat, NEW t \in Names, NEW n \in 0..MaxColumns
    PROVE  /\ Atomic!NewColumns(first, t, n) \subseteq Columns
           /\ \A q \in Atomic!NewColumns(first, t, n) :
                 q.table = t /\ first <= q.id /\ q.id < first + n
           /\ \A p, q \in Atomic!NewColumns(first, t, n) : p.id = q.id => p = q
           /\ {q.pos : q \in Atomic!NewColumns(first, t, n)} = 1..n
  <1> DEFINE new == Atomic!NewColumns(first, t, n)
  <1>1. new = {[id |-> first + i - 1, table |-> t, pos |-> i] : i \in 1..n}
    BY DEF Atomic!NewColumns, Atomic!Column
  <1>2. \A i \in 1..n : first + i - 1 \in Nat /\ i \in 1..MaxColumns
    BY ColumnsAssumption
  <1> HIDE DEF new
  <1>3. new \subseteq Columns
    BY <1>1, <1>2 DEF Columns
  <1>4. \A q \in new : q.table = t /\ first <= q.id /\ q.id < first + n
    BY <1>1, ColumnsAssumption
  <1>5. \A p, q \in new : p.id = q.id => p = q
    BY <1>1, ColumnsAssumption
  <1>6. {q.pos : q \in new} = 1..n
    <2> DEFINE f(i) == [id |-> first + i - 1, table |-> t, pos |-> i]
    <2>1. \A i \in 1..n : f(i) \in new /\ f(i).pos = i
      BY <1>1
    <2>2. \A q \in new : \E i \in 1..n : q.pos = i
      BY <1>1
    <2> HIDE DEF f
    <2> QED BY <2>1, <2>2
  <1> QED BY <1>3, <1>4, <1>5, <1>6 DEF new

\* One more column: the ids stay consecutive, the next one goes up.
LEMMA NewColumnsNext ==
    ASSUME NEW first \in Nat, NEW t, NEW n \in Nat
    PROVE  Atomic!NewColumns(first, t, n + 1)
             = Atomic!NewColumns(first, t, n) \cup {Column(first + n, t, n + 1)}
  <1>1. 1..(n + 1) = (1..n) \cup {n + 1}
    OBVIOUS
  <1>2. first + (n + 1) - 1 = first + n
    OBVIOUS
  <1> QED BY <1>1, <1>2 DEF Atomic!NewColumns, Atomic!Column, Column

\* No transaction is open.
LEMMA NoTxType == NoTx \in Txs /\ NoTx.owner = NoConn
  <1>1. 0 \in 0..MaxColumns
    BY ColumnsAssumption
  <1>2. [tables |-> {}, columns |-> {}, next |-> 0] \in Catalogs
    BY DEF Catalogs
  <1> QED BY <1>1, <1>2 DEF NoTx, Txs

\* The state of a new file, with no server, satisfies the invariant.
LEMMA InitInv == Init => Inv
  <1> SUFFICES ASSUME Init PROVE Inv
    OBVIOUS
  <1>1. Typed
    BY NoTxType DEF Init, Typed, Catalogs, Pcs
  <1>2. Working /\ FileFresh /\ TxIsFileAndNew
    BY ConnsAssumption DEF Init, Working, FileFresh, TxIsFileAndNew, NoTx
  <1>3. TablesWhole
    BY DEF Init, TablesWhole
  <1> QED BY <1>1, <1>2, <1>3 DEF Inv

-----------------------------------------------------------------------------
(* The steps.                                                              *)

\* The server starts: the next id comes from the file.
LEMMA StartInv == ASSUME Inv, Start  PROVE Inv'
  <1> USE DEF Inv
  <1>1. /\ up' = TRUE /\ nextId' = (IF disk.next = 0 THEN FirstId ELSE disk.next)
        /\ disk' = [disk EXCEPT !.next = nextId']
        /\ UNCHANGED <<tx, pc, stmt, acks>> /\ ~up
    BY DEF Start, EnsuredNextId
  <1>2. /\ nextId' \in Nat /\ 0 < nextId' /\ disk.next <= nextId'
        /\ disk' \in Catalogs /\ disk'.next = nextId'
        /\ disk'.tables = disk.tables /\ disk'.columns = disk.columns
    BY <1>1, IdAssumption DEF Typed, Catalogs, NoColumn
  <1>3. \A c \in Conns : pc[c] = "idle"
    BY <1>1 DEF Working, Typed
  <1>4. Typed'
    BY <1>1, <1>2 DEF Typed
  <1>5. Working'
    BY <1>1, <1>2, <1>3 DEF Working
  <1>6. FileFresh'
    BY <1>2 DEF FileFresh, Typed, Catalogs, Columns
  <1>7. TxIsFileAndNew'
    <2>1. tx.owner = NoConn
      BY <1>3 DEF TxIsFileAndNew, Typed, Txs
    <2> QED BY <1>1, <1>3, <2>1 DEF TxIsFileAndNew
  <1>8. TablesWhole'
    BY <1>1, <1>2 DEF TablesWhole, Positions
  <1> QED BY <1>4, <1>5, <1>6, <1>7, <1>8

\* The process dies: the file is what it was.
LEMMA CrashInv == ASSUME Inv, Crash  PROVE Inv'
  <1> USE DEF Inv
  <1>1. /\ up' = FALSE /\ nextId' = 0 /\ tx' = NoTx
        /\ pc' = [c \in Conns |-> "idle"] /\ stmt' = [c \in Conns |-> NoStatement]
        /\ UNCHANGED <<disk, acks>>
    BY DEF Crash
  <1>2. Typed'
    BY <1>1, NoTxType DEF Typed, Pcs
  <1>3. Working' /\ FileFresh' /\ TxIsFileAndNew'
    BY <1>1 DEF Working, FileFresh, TxIsFileAndNew, NoTx
  <1>4. TablesWhole'
    BY <1>1 DEF TablesWhole, Positions
  <1> QED BY <1>2, <1>3, <1>4

\* A statement arrives at an idle handler.
LEMMA ValidateCreateInv == ASSUME Inv, NEW c \in Conns, ValidateCreate(c)  PROVE Inv'
  <1> USE DEF Inv
  <1>1. /\ up /\ pc[c] = "idle"
        /\ UNCHANGED <<disk, tx, up, nextId, acks>>
    BY DEF ValidateCreate, memory
  <1>2. PICK s \in Requests[c] :
           /\ stmt' = [stmt EXCEPT ![c] = s]
           /\ pc' = [pc EXCEPT ![c] =
                       IF ~Known(s.table) /\ s.legal /\ \A t \in s.refs : Known(t)
                       THEN "begin" ELSE "error"]
    BY DEF ValidateCreate
  <1>3. s \in Statements
    BY RequestsAssumption
  <1>4. pc'[c] \in {"begin", "error"} /\ stmt'[c] = s
        /\ \A d \in Conns \ {c} : pc'[d] = pc[d] /\ stmt'[d] = stmt[d]
    BY <1>2 DEF Typed
  <1>5. Typed'
    BY <1>1, <1>2, <1>3 DEF Typed, Pcs
  <1>6. Working'
    BY <1>1, <1>3, <1>4 DEF Working
  <1>7. FileFresh'
    BY <1>1 DEF FileFresh
  <1>8. TxIsFileAndNew'
    <2>1. tx.owner # c
      BY <1>1, ConnsAssumption DEF TxIsFileAndNew
    <2>2. tx.owner \in Conns \cup {NoConn}
      BY DEF Typed, Txs
    <2> QED BY <1>1, <1>4, <2>1, <2>2 DEF TxIsFileAndNew, Added
  <1>9. TablesWhole'
    BY <1>1, <1>4 DEF TablesWhole, Positions
  <1> QED BY <1>5, <1>6, <1>7, <1>8, <1>9

\* A transaction begins: the file and the table, no column yet.
LEMMA BeginCreateInv == ASSUME Inv, NEW c \in Conns, BeginCreate(c)  PROVE Inv'
  <1> USE DEF Inv
  <1> DEFINE t == stmt[c].table
  <1>1. /\ pc[c] = "begin" /\ tx.owner = NoConn /\ pc' = [pc EXCEPT ![c] = "columns"]
        /\ tx' = [owner |-> c, done |-> 0, cat |-> [disk EXCEPT !.tables = @ \cup {t}]]
        /\ UNCHANGED <<disk, up, nextId, stmt, acks>>
    BY DEF BeginCreate
  <1>2. stmt[c] \in Statements /\ t \in Names /\ up
    BY <1>1, StatementParts DEF Working
  <1>3. /\ tx'.owner = c /\ tx'.done = 0 /\ tx'.cat \in Catalogs
        /\ tx'.cat.tables = disk.tables \cup {t} /\ tx'.cat.columns = disk.columns
    BY <1>1, <1>2 DEF Typed, Catalogs
  <1>4. pc'[c] = "columns" /\ \A d \in Conns \ {c} : pc'[d] = pc[d]
    BY <1>1 DEF Typed
  <1> HIDE DEF t
  <1>5. Typed'
    BY <1>1, <1>3, ColumnsAssumption DEF Typed, Txs, Pcs
  <1>6. Working' /\ FileFresh'
    BY <1>1, <1>2, <1>4 DEF Working, FileFresh
  <1>7. TxIsFileAndNew'
    <2>1. \A d \in Conns : pc[d] \notin {"columns", "commit"}
      BY <1>1, ConnsAssumption DEF TxIsFileAndNew
    <2>2. Added' = {}
      <3>1. Atomic!NewColumns(nextId - 0, t, 0) = {}
        BY DEF Atomic!NewColumns
      <3> QED BY <1>1, <1>3, <3>1 DEF Added, t
    <2>3. disk.next <= nextId - 0 /\ 0 <= stmt[c].cols
      BY <1>2, StatementParts DEF Working, Typed, Catalogs
    <2> QED BY <1>1, <1>3, <1>4, <2>1, <2>2, <2>3, ConnsAssumption DEF TxIsFileAndNew, t
  <1>8. TablesWhole'
    BY <1>1, <1>4 DEF TablesWhole, Positions
  <1> QED BY <1>5, <1>6, <1>7, <1>8

\* A column is put: its id ends the run of ids, and no column had it.
LEMMA AddColumnInv == ASSUME Inv, NEW c \in Conns, AddColumn(c)  PROVE Inv'
  <1> USE DEF Inv
  <1> DEFINE t == stmt[c].table
             first == nextId - tx.done
             q == Column(nextId, t, tx.done + 1)
  <1>1. /\ pc[c] = "columns" /\ tx.done < stmt[c].cols /\ nextId' = nextId + 1
        /\ tx' = [tx EXCEPT !.done = tx.done + 1,
                            !.cat.columns = PutColumn(@, q)]
        /\ UNCHANGED <<disk, up, pc, stmt, acks>>
    BY DEF AddColumn
  <1>2. /\ tx.owner = c /\ c # NoConn
        /\ stmt[c] \in Statements /\ t \in Names /\ stmt[c].cols \in 1..MaxColumns
    BY <1>1, ConnsAssumption, StatementParts DEF TxIsFileAndNew, Working
  <1>3. /\ tx.done \in Nat /\ tx.done + 1 \in 0..MaxColumns /\ tx.done \in 0..MaxColumns
        /\ nextId \in Nat /\ tx.cat \in Catalogs /\ disk \in Catalogs
    BY <1>1, <1>2, ColumnsAssumption DEF Typed, Txs
  <1>4. /\ disk.next \in Nat /\ disk.next <= first /\ first \in Nat
        /\ tx.cat.tables = disk.tables \cup {t}
        /\ tx.cat.columns = disk.columns \cup Atomic!NewColumns(first, t, tx.done)
    BY <1>2, <1>3 DEF TxIsFileAndNew, Added, Catalogs
  <1>5. q \in Columns
    BY <1>2, <1>3 DEF Column, Columns
  <1>6. \A p \in tx.cat.columns : p.id # nextId
    <2>1. \A p \in disk.columns : p.id < disk.next /\ p.id \in Nat
      BY <1>3 DEF FileFresh, Catalogs, Columns
    <2>2. \A p \in Atomic!NewColumns(first, t, tx.done) : p.id < first + tx.done /\ p.id \in Nat
      BY <1>2, <1>3, <1>4, NewColumnsType DEF Columns
    <2>3. first + tx.done = nextId /\ disk.next <= nextId
      BY <1>3, <1>4
    <2> HIDE DEF first
    <2> QED BY <1>3, <1>4, <2>1, <2>2, <2>3
  <1>7. PutColumn(tx.cat.columns, q) = tx.cat.columns \cup {q}
    <2>1. q.id = nextId
      BY DEF Column
    <2> HIDE DEF q
    <2> QED BY <1>6, <2>1 DEF PutColumn
  <1> HIDE DEF q
  <1>8. /\ tx'.owner = c /\ tx'.done = tx.done + 1 /\ tx' \in Txs
        /\ tx'.cat.tables = tx.cat.tables /\ tx'.cat.columns = tx.cat.columns \cup {q}
    BY <1>1, <1>2, <1>3, <1>5, <1>7 DEF Typed, Txs, Catalogs
  <1>9. Typed'
    BY <1>1, <1>3, <1>8 DEF Typed
  <1>10. Working'
    BY <1>1, <1>3, <1>4 DEF Working
  <1>11. FileFresh'
    BY <1>1 DEF FileFresh
  <1>12. TxIsFileAndNew'
    <2>1. nextId' - tx'.done = first
      BY <1>1, <1>3, <1>8
    <2>2. Added' = Atomic!NewColumns(first, t, tx.done + 1)
      BY <1>1, <1>8, <2>1 DEF Added
    <2>3. Added' = Atomic!NewColumns(first, t, tx.done) \cup {q}
      <3>1. first + tx.done = nextId
        BY <1>3
      <3> HIDE DEF first, t
      <3> QED BY <1>3, <1>4, <2>2, <3>1, NewColumnsNext DEF q
    <2>4. tx'.done <= stmt[c].cols
      BY <1>1, <1>2, <1>3, <1>8
    <2> HIDE DEF first
    <2> QED BY <1>1, <1>2, <1>4, <1>8, <2>1, <2>3, <2>4 DEF TxIsFileAndNew
  <1>13. TablesWhole'
    BY <1>1 DEF TablesWhole, Positions
  <1> QED BY <1>9, <1>10, <1>11, <1>12, <1>13

\* The events are pushed and the next column id is put.
LEMMA PushEventsInv == ASSUME Inv, NEW c \in Conns, PushEvents(c)  PROVE Inv'
  <1> USE DEF Inv
  <1>1. /\ pc[c] = "columns" /\ tx.done = stmt[c].cols /\ pc' = [pc EXCEPT ![c] = "commit"]
        /\ tx' = [tx EXCEPT !.cat.next = nextId]
        /\ UNCHANGED <<disk, up, nextId, stmt, acks>>
    BY DEF PushEvents, memory
  <1>2. tx.owner = c /\ c # NoConn
    BY <1>1, ConnsAssumption DEF TxIsFileAndNew
  <1>3. /\ tx'.owner = c /\ tx'.done = tx.done /\ tx' \in Txs /\ tx'.cat.next = nextId
        /\ tx'.cat.tables = tx.cat.tables /\ tx'.cat.columns = tx.cat.columns
    BY <1>1, <1>2 DEF Typed, Txs, Catalogs
  <1>4. pc'[c] = "commit" /\ \A d \in Conns \ {c} : pc'[d] = pc[d]
    BY <1>1 DEF Typed
  <1>5. Typed'
    BY <1>1, <1>3 DEF Typed, Pcs
  <1>6. Working' /\ FileFresh'
    BY <1>1, <1>4 DEF Working, FileFresh
  <1>7. TxIsFileAndNew'
    <2>1. Added' = Added
      BY <1>1, <1>2, <1>3 DEF Added
    <2> QED BY <1>1, <1>2, <1>3, <1>4, <2>1 DEF TxIsFileAndNew
  <1>8. TablesWhole'
    BY <1>1, <1>4 DEF TablesWhole, Positions
  <1> QED BY <1>5, <1>6, <1>7, <1>8

\* What the file holds once the transaction of connection c is committed.
LEMMA CommitCreates ==
    ASSUME Inv, NEW c \in Conns, CommitCreate(c)
    PROVE  LET s == stmt[c]  first == nextId - s.cols IN
           /\ tx.owner = c /\ s \in Statements /\ up
           /\ first \in Nat /\ 0 < disk.next /\ disk.next <= first /\ disk'.next = nextId
           /\ disk' = [tables |-> disk.tables \cup {s.table},
                       columns |-> disk.columns \cup Atomic!NewColumns(first, s.table, s.cols),
                       next |-> nextId]
  <1> USE DEF Inv
  <1>1. pc[c] = "commit" /\ disk' = tx.cat
    BY DEF CommitCreate
  <1>2. tx.owner = c /\ c # NoConn /\ stmt[c] \in Statements /\ up
    BY <1>1, ConnsAssumption DEF TxIsFileAndNew, Working
  <1>3. /\ tx.done = stmt[c].cols /\ tx.cat.next = nextId
        /\ tx.cat.tables = disk.tables \cup {stmt[c].table}
        /\ tx.cat.columns = disk.columns \cup Added /\ disk.next <= nextId - tx.done
    BY <1>1, <1>2 DEF TxIsFileAndNew
  <1>4. tx.cat \in Catalogs /\ disk.next \in Nat /\ nextId \in Nat /\ stmt[c].cols \in Nat
    BY <1>2, StatementParts DEF Typed, Txs, Catalogs
  <1>5. tx.cat = [tables |-> tx.cat.tables, columns |-> tx.cat.columns, next |-> tx.cat.next]
    BY <1>4 DEF Catalogs
  <1>6. 0 < disk.next
    BY <1>2 DEF Working
  <1> QED BY <1>1, <1>2, <1>3, <1>4, <1>5, <1>6 DEF Added

\* A transaction is committed: the new table is whole and its ids are fresh.
LEMMA CommitCreateInv == ASSUME Inv, NEW c \in Conns, CommitCreate(c)  PROVE Inv'
  <1> USE DEF Inv
  <1> DEFINE t == stmt[c].table
             n == stmt[c].cols
             first == nextId - n
             new == Atomic!NewColumns(first, t, n)
  <1>1. /\ pc[c] = "commit" /\ tx' = NoTx /\ pc' = [pc EXCEPT ![c] = "ack"]
        /\ UNCHANGED <<up, nextId, stmt, acks>>
    BY DEF CommitCreate, memory
  <1>2. /\ tx.owner = c /\ stmt[c] \in Statements /\ up
        /\ first \in Nat /\ 0 < disk.next /\ disk.next <= first
        /\ disk' = [tables |-> disk.tables \cup {t}, columns |-> disk.columns \cup new,
                    next |-> nextId]
    BY CommitCreates
  <1>3. /\ t \in Names /\ n \in 1..MaxColumns /\ n \in 0..MaxColumns /\ n \in Nat /\ 0 < n
        /\ nextId \in Nat /\ disk \in Catalogs
    BY <1>2, StatementParts, ColumnsAssumption DEF Typed
  <1>4. /\ new \subseteq Columns
        /\ \A q \in new : q.table = t /\ first <= q.id /\ q.id < first + n
        /\ \A p, q \in new : p.id = q.id => p = q
        /\ {q.pos : q \in new} = 1..n
    <2> HIDE DEF first, t, n
    <2> QED BY <1>2, <1>3, NewColumnsType
  <1>5. first + n = nextId
    BY <1>3
  <1> HIDE DEF t, n, first, new
  <1>6. pc'[c] = "ack" /\ \A d \in Conns \ {c} : pc'[d] = pc[d]
    BY <1>1 DEF Typed
  <1>7. Typed'
    <2>1. disk' \in Catalogs
      BY <1>2, <1>3, <1>4 DEF Catalogs
    <2> QED BY <1>1, <2>1, NoTxType DEF Typed, Pcs
  <1>8. Working'
    <2>1. disk'.next = nextId /\ 0 < nextId
      BY <1>2, <1>3, <1>5 DEF Catalogs
    <2> QED BY <1>1, <1>2, <1>3, <1>6, <2>1 DEF Working
  <1>9. FileFresh'
    <2>1. \A q \in disk.columns : q.id \in Nat /\ q.id < first
      BY <1>2, <1>3 DEF FileFresh, Catalogs, Columns
    <2>2. \A q \in new : q.id \in Nat /\ first <= q.id /\ q.id < nextId
      BY <1>4, <1>5 DEF Columns
    <2>3. first <= nextId /\ 0 < nextId
      BY <1>2, <1>3, <1>5 DEF Catalogs
    <2>4. \A p, q \in disk.columns \cup new : p.id = q.id => p = q
      BY <1>2, <1>4, <2>1, <2>2 DEF FileFresh
    <2> QED BY <1>2, <1>3, <2>1, <2>2, <2>3, <2>4 DEF FileFresh
  <1>10. TxIsFileAndNew'
    <2>1. \A d \in Conns \ {c} : pc[d] \notin {"columns", "commit"}
      BY <1>2 DEF TxIsFileAndNew
    <2> QED BY <1>1, <1>6, <2>1, NoTxType DEF TxIsFileAndNew
  <1>11. TablesWhole'
    <2>0. t' = t
      BY <1>1 DEF t
    <2>1. \A q \in new : q.table = t
      BY <1>4
    <2>2. disk'.tables = disk.tables \cup {t} /\ disk'.columns = disk.columns \cup new
      BY <1>2
    <2>3. \A u \in Names \ {t} : Positions(u)' = Positions(u)
      BY <2>1, <2>2 DEF Positions
    <2>4. Positions(t)' = Positions(t) \cup 1..n
      <3>1. {p \in disk'.columns : p.table = t} = {p \in disk.columns : p.table = t} \cup new
        BY <2>1, <2>2
      <3> DEFINE old == {p \in disk.columns : p.table = t}
      <3>2. Positions(t) = {q.pos : q \in old} /\ Positions(t)' = {q.pos : q \in old \cup new}
        BY <2>0, <3>1 DEF Positions
      <3> HIDE DEF old
      <3>3. {q.pos : q \in old \cup new} = {q.pos : q \in old} \cup {q.pos : q \in new}
        OBVIOUS
      <3> QED BY <1>4, <3>2, <3>3
    <2>5. \E m \in 1..MaxColumns : Positions(t)' = 1..m
      <3>1. CASE t \in disk.tables
        <4>1. PICK m \in 1..MaxColumns : Positions(t) = 1..m
          BY <3>1 DEF TablesWhole
        <4>2. (1..m) \cup (1..n) = IF m <= n THEN 1..n ELSE 1..m
          BY <1>3, ColumnsAssumption
        <4> QED BY <1>3, <2>4, <4>1, <4>2
      <3>2. CASE t \notin disk.tables
        <4>1. Positions(t) = {}
          BY <3>2 DEF TablesWhole, Positions
        <4> QED BY <1>3, <2>4, <4>1
      <3> QED BY <3>1, <3>2
    <2>6. \A u \in disk'.tables : \E m \in 1..MaxColumns : Positions(u)' = 1..m
      <3>1. \A u \in disk.tables \ {t} : Positions(u)' = Positions(u)
        BY <1>3, <2>3 DEF Catalogs
      <3>2. \A u \in disk.tables : \E m \in 1..MaxColumns : Positions(u) = 1..m
        BY DEF TablesWhole
      <3> HIDE DEF Inv
      <3>3. \A u \in disk.tables \ {t} : \E m \in 1..MaxColumns : Positions(u)' = 1..m
        BY <3>1, <3>2
      <3> QED BY <2>0, <2>2, <2>5, <3>3
    <2>7. \A q \in disk'.columns : q.table \in disk'.tables
      BY <2>1, <2>2 DEF TablesWhole
    <2>8. \A d \in Conns : pc'[d] = "ack" => stmt[d].table \in disk'.tables
      BY <1>6, <2>2 DEF TablesWhole, t
    <2> QED BY <1>1, <2>2, <2>6, <2>7, <2>8 DEF TablesWhole
  <1> QED BY <1>7, <1>8, <1>9, <1>10, <1>11

\* A commit fails: the file is what it was.
LEMMA FailCommitInv == ASSUME Inv, NEW c \in Conns, FailCommit(c)  PROVE Inv'
  <1> USE DEF Inv
  <1>1. /\ pc[c] = "commit" /\ tx' = NoTx /\ pc' = [pc EXCEPT ![c] = "error"]
        /\ UNCHANGED <<disk, up, nextId, stmt, acks>>
    BY DEF FailCommit, memory
  <1>2. pc'[c] = "error" /\ \A d \in Conns \ {c} : pc'[d] = pc[d]
    BY <1>1 DEF Typed
  <1>3. Typed'
    BY <1>1, NoTxType DEF Typed, Pcs
  <1>4. Working' /\ FileFresh'
    BY <1>1, <1>2 DEF Working, FileFresh
  <1>5. TxIsFileAndNew'
    <2>1. \A d \in Conns \ {c} : pc[d] \notin {"columns", "commit"}
      BY <1>1 DEF TxIsFileAndNew
    <2> QED BY <1>1, <1>2, <2>1, NoTxType DEF TxIsFileAndNew
  <1>6. TablesWhole'
    BY <1>1, <1>2 DEF TablesWhole, Positions
  <1> QED BY <1>3, <1>4, <1>5, <1>6

\* A client is told, of a table that is in the file if it is told "ack".
LEMMA ReplyInv == ASSUME Inv, NEW c \in Conns, Reply(c)  PROVE Inv'
  <1> USE DEF Inv
  <1> DEFINE t == stmt[c].table
  <1>1. /\ pc[c] \in {"ack", "error"} /\ pc' = [pc EXCEPT ![c] = "idle"]
        /\ acks' = (IF pc[c] = "ack" THEN [acks EXCEPT ![t] = @ + 1] ELSE acks)
        /\ stmt' = [stmt EXCEPT ![c] = NoStatement]
        /\ UNCHANGED <<disk, tx, up, nextId>>
    BY DEF Reply, memory
  <1>2. t \in Names
    BY <1>1, StatementParts DEF Working
  <1>3. pc[c] = "ack" => t \in disk.tables
    BY DEF TablesWhole
  <1> HIDE DEF t
  <1>4. pc'[c] = "idle" /\ \A d \in Conns \ {c} : pc'[d] = pc[d] /\ stmt'[d] = stmt[d]
    BY <1>1 DEF Typed
  <1>5. acks' \in [Names -> Nat] /\ \A u \in Names : acks'[u] > 0 => u \in disk.tables
    BY <1>1, <1>2, <1>3 DEF Typed, TablesWhole
  <1>6. Typed'
    BY <1>1, <1>5 DEF Typed, Pcs
  <1>7. Working' /\ FileFresh'
    BY <1>1, <1>4 DEF Working, FileFresh
  <1>8. TxIsFileAndNew'
    <2>1. tx.owner # c
      BY <1>1, ConnsAssumption DEF TxIsFileAndNew
    <2>2. tx.owner \in Conns \cup {NoConn}
      BY DEF Typed, Txs
    <2> QED BY <1>1, <1>4, <2>1, <2>2 DEF TxIsFileAndNew, Added
  <1>9. TablesWhole'
    BY <1>1, <1>4, <1>5 DEF TablesWhole, Positions
  <1> QED BY <1>6, <1>7, <1>8, <1>9

-----------------------------------------------------------------------------
(* The theorems.                                                           *)

\* Every step of every handler, a start and a crash preserve the invariant.
LEMMA NextInv == Inv /\ [Next]_vars => Inv'
  <1> SUFFICES ASSUME Inv, [Next]_vars  PROVE Inv'
    OBVIOUS
  <1>1. ASSUME NEW c \in Conns, HandlerStep(c)  PROVE Inv'
    BY <1>1, ValidateCreateInv, BeginCreateInv, AddColumnInv, PushEventsInv, CommitCreateInv,
       FailCommitInv, ReplyInv DEF HandlerStep
  <1>2. CASE UNCHANGED vars
    <2> USE <1>2 DEF Inv, vars, memory
    <2>1. Typed'
      BY DEF Typed
    <2>2. Working' /\ FileFresh' /\ TxIsFileAndNew' /\ TablesWhole'
      BY DEF Working, FileFresh, TxIsFileAndNew, Added, TablesWhole, Positions
    <2> QED BY <2>1, <2>2
  <1> QED BY <1>1, <1>2, StartInv, CrashInv DEF Next

\* The invariant keeps the ids apart.
LEMMA InvKeepsIdsFresh == Inv => ColumnIdsFresh
  <1> SUFFICES ASSUME Inv  PROVE ColumnIdsFresh
    OBVIOUS
  <1> USE DEF Inv
  <1>1. CASE tx.owner = NoConn
    <2>1. tx.cat.columns = {}
      BY <1>1 DEF TxIsFileAndNew, NoTx
    <2> QED BY <2>1 DEF ColumnIdsFresh, FileFresh, Working
  <1>2. CASE tx.owner # NoConn
    <2> DEFINE t == stmt[tx.owner].table
               first == nextId - tx.done
               new == Atomic!NewColumns(first, t, tx.done)
    <2>1. tx.owner \in Conns /\ tx.done \in 0..MaxColumns /\ tx.done \in Nat /\ nextId \in Nat
      BY <1>2, ColumnsAssumption DEF Typed, Txs
    <2>2. t \in Names
      BY <1>2, <2>1, StatementParts DEF TxIsFileAndNew, Working
    <2>3. /\ disk.next \in Nat /\ disk.next <= first /\ first \in Nat /\ first + tx.done = nextId
          /\ tx.cat.columns = disk.columns \cup new
      BY <1>2, <2>1 DEF TxIsFileAndNew, Added, Typed, Catalogs
    <2>4. /\ \A q \in new : q.id \in Nat /\ first <= q.id /\ q.id < nextId
          /\ \A p, q \in new : p.id = q.id => p = q
      <3> HIDE DEF first, t
      <3> QED BY <2>1, <2>2, <2>3, NewColumnsType DEF Columns
    <2>5. \A q \in disk.columns : q.id \in Nat /\ q.id < disk.next
      BY DEF FileFresh, Typed, Catalogs, Columns
    <2> HIDE DEF first, new
    <2>6. \A q \in tx.cat.columns : q.id < nextId
      BY <2>1, <2>3, <2>4, <2>5
    <2>7. \A p, q \in tx.cat.columns : p.id = q.id => p = q
      BY <2>3, <2>4, <2>5 DEF FileFresh
    <2> QED BY <2>5, <2>6, <2>7 DEF ColumnIdsFresh, FileFresh, Working
  <1> QED BY <1>1, <1>2

\* Column ids are never used twice, over any number of crashes and failures.
THEOREM IdsAreFresh == Spec => []ColumnIdsFresh
  BY InitInv, NextInv, InvKeepsIdsFresh, PTL DEF Spec

\* A table whose creation was acknowledged is in the file, whole, for ever.
THEOREM AckedSurvive == Spec => []AckedTablesSurvive
  <1>1. Inv => AckedTablesSurvive
    BY DEF Inv, TablesWhole, Positions, AckedTablesSurvive
  <1> QED BY InitInv, NextInv, <1>1, PTL DEF Spec

\* Every step of the server, seen in its file, is the creation of a whole table,
\* the opening of a new file, or nothing at all.
THEOREM Implements == Spec => CreatesAtomically
  <1>1. Init => Atomic!Init
    BY DEF Init, Atomic!Init, Atomic!Empty
  <1>2. Inv /\ [Next]_vars => [Atomic!Next]_disk
    <2> SUFFICES ASSUME Inv, [Next]_vars, disk' # disk  PROVE Atomic!Next
      OBVIOUS
    <2>1. CASE Start
      <3>1. disk.next = 0
        BY <2>1 DEF Inv, Typed, Catalogs, Start, EnsuredNextId
      <3>2. Atomic!Open
        BY <2>1, <3>1 DEF Start, EnsuredNextId, Atomic!Open
      <3> QED BY <3>2 DEF Atomic!Next
    <2>2. ASSUME NEW c \in Conns, CommitCreate(c)  PROVE Atomic!Next
      <3> DEFINE t == stmt[c].table
                 n == stmt[c].cols
      <3>1. Atomic!Create(t, n)
        <4>1. n \in Nat /\ nextId \in Nat
          BY <2>2, CommitCreates, StatementParts DEF Inv, Typed
        <4>2. nextId = (nextId - n) + n
          BY <4>1
        <4> QED BY <2>2, <4>1, <4>2, CommitCreates DEF Atomic!Create
      <3>2. t \in Names /\ n \in 1..MaxColumns
        BY <2>2, CommitCreates, StatementParts
      <3> QED BY <3>1, <3>2 DEF Atomic!Next
    <2>3. ASSUME NEW c \in Conns, HandlerStep(c), ~CommitCreate(c)  PROVE FALSE
      BY <2>3 DEF HandlerStep, ValidateCreate, BeginCreate, AddColumn, PushEvents, FailCommit, Reply
    <2> QED BY <2>1, <2>2, <2>3 DEF Next, vars, Crash
  <1> QED BY InitInv, NextInv, <1>1, <1>2, PTL DEF Spec, CreatesAtomically, Atomic!Spec

-----------------------------------------------------------------------------
(* Numerals and the order of bolt's keys.                                  *)

LEMMA RadixType == Radix \in Nat /\ 1 < Radix
  BY IdAssumption

\* The last digit of a number and the others.
LEMMA Division ==
    ASSUME NEW n \in Nat
    PROVE  /\ n \div Radix \in Nat /\ n % Radix \in Nat
           /\ n = Radix * (n \div Radix) + (n % Radix)
           /\ Radix <= n => n \div Radix < n
  <1>1. Radix \in Nat /\ 1 < Radix
    BY RadixType
  <1>2. n % Radix \in 0..Radix - 1
    BY <1>1
  <1>3. n = Radix * (n \div Radix) + (n % Radix)
    BY <1>1
  <1>4. n \div Radix \in Nat
    BY <1>1
  <1>5. Radix <= n => n \div Radix < n
    BY <1>1
  <1> QED BY <1>1, <1>2, <1>3, <1>4, <1>5

\* The digits of a number as a function f of the smaller ones gives them.
Digits(f, n) == IF n < Radix THEN <<n>> ELSE Append(f[n \div Radix], n % Radix)

\* f has the digits of the numbers up to n.
UpTo(f, n) == f = [m \in 0..n |-> Digits(f, m)]

\* For every n there is such a function.
LEMMA UpToExists == \A n \in Nat : \E f : UpTo(f, n)
  <1> DEFINE T == {n \in Nat : ~ \E f : UpTo(f, n)}
  <1> SUFFICES ASSUME T # {}  PROVE FALSE
    OBVIOUS
  <1>1. PICK n \in T : \A m \in T : n <= m
    BY LeastNumber
  <1>2. \E f : UpTo(f, n)
    <2>0. Radix \in Nat /\ 1 < Radix /\ n \in Nat
      BY IdAssumption
    <2>1. CASE n = 0
      <3> DEFINE f == [m \in 0..0 |-> <<m>>]
      <3>1. \A m \in 0..0 : Digits(f, m) = f[m]
        BY <2>0 DEF Digits
      <3>2. f = [m \in 0..0 |-> Digits(f, m)]
        BY <3>1
      <3> QED BY <2>1, <3>2 DEF UpTo
    <2>2. CASE n # 0
      <3>1. n - 1 \in Nat /\ n - 1 \notin T
        BY <1>1, <2>0, <2>2
      <3>2. PICK g : UpTo(g, n - 1)
        BY <3>1
      <3> DEFINE f == [m \in 0..n |-> Digits(g, m)]
      <3>3. \A m \in 0..n - 1 : f[m] = g[m]
        <4>1. g = [m \in 0..n - 1 |-> Digits(g, m)]
          BY <3>2 DEF UpTo
        <4>2. \A m \in 0..n - 1 : m \in 0..n
          BY <2>0
        <4> QED BY <4>1, <4>2
      <3> HIDE DEF f
      <3>4. ASSUME NEW m \in 0..n  PROVE Digits(g, m) = Digits(f, m)
        <4>1. Radix <= m => m \div Radix \in 0..n - 1
          BY <2>0, Division
        <4> QED BY <2>0, <3>3, <4>1 DEF Digits
      <3>5. f = [m \in 0..n |-> Digits(f, m)]
        BY <3>4 DEF f
      <3> QED BY <3>5 DEF UpTo
    <2> QED BY <2>1, <2>2
  <1> QED BY <1>2

\* Two such functions agree on the numbers they both have.
LEMMA UpToAgree ==
    ASSUME NEW n \in Nat, NEW k \in Nat, NEW f, NEW g, UpTo(f, n), UpTo(g, k)
    PROVE  \A m \in Nat : m <= n /\ m <= k => f[m] = g[m]
  <1> DEFINE T == {m \in Nat : m <= n /\ m <= k /\ f[m] # g[m]}
  <1> SUFFICES ASSUME T # {}  PROVE FALSE
    OBVIOUS
  <1>1. PICK m \in T : \A j \in T : m <= j
    BY LeastNumber
  <1>2. f[m] = Digits(f, m) /\ g[m] = Digits(g, m)
    <2>1. m \in 0..n /\ m \in 0..k
      OBVIOUS
    <2> QED BY <2>1 DEF UpTo
  <1>3. Radix <= m => f[m \div Radix] = g[m \div Radix]
    <2>1. Radix <= m => m \div Radix \in Nat /\ m \div Radix < m
      BY Division
    <2> QED BY <1>1, <2>1
  <1>4. Digits(f, m) = Digits(g, m)
    BY <1>3, IdAssumption DEF Digits
  <1> QED BY <1>2, <1>4

\* Numeral is what its definition says.
LEMMA NumeralIs ==
    Numeral = [n \in Nat |-> IF n < Radix THEN <<n>> ELSE Append(Numeral[n \div Radix], n % Radix)]
  <1> DEFINE a(n) == CHOOSE f : UpTo(f, n)
             F == [n \in Nat |-> a(n)[n]]
  <1>1. \A n \in Nat : UpTo(a(n), n)
    BY UpToExists
  <1> HIDE DEF a
  <1>2. ASSUME NEW n \in Nat  PROVE F[n] = Digits(F, n)
    <2>1. a(n)[n] = Digits(a(n), n)
      <3>1. UpTo(a(n), n) /\ n \in 0..n
        BY <1>1
      <3> QED BY <3>1 DEF UpTo
    <2>2. Radix <= n => a(n)[n \div Radix] = a(n \div Radix)[n \div Radix]
      <3> DEFINE m == n \div Radix
      <3>1. m \in Nat /\ (Radix <= n => m <= n) /\ m <= m
        BY Division
      <3> HIDE DEF m
      <3>2. UpTo(a(n), n) /\ UpTo(a(m), m)
        BY <1>1, <3>1
      <3>3. Radix <= n => a(n)[m] = a(m)[m]
        BY <3>1, <3>2, UpToAgree
      <3> QED BY <3>3 DEF m
    <2>3. Radix <= n => F[n \div Radix] = a(n \div Radix)[n \div Radix]
      BY Division
    <2>4. Digits(F, n) = Digits(a(n), n)
      BY <2>2, <2>3, IdAssumption DEF Digits
    <2> QED BY <2>1, <2>4
  <1>3. F = [n \in Nat |-> F[n]]
    OBVIOUS
  <1> HIDE DEF F
  <1>4. F = [n \in Nat |-> IF n < Radix THEN <<n>> ELSE Append(F[n \div Radix], n % Radix)]
    BY <1>2, <1>3 DEF Digits
  <1> QED BY <1>4 DEF Numeral

LEMMA NumeralOfLong ==
    ASSUME NEW n \in Nat, Radix <= n
    PROVE  Numeral[n] = Append(Numeral[n \div Radix], n % Radix)
  <1>1. Numeral[n] = IF n < Radix THEN <<n>> ELSE Append(Numeral[n \div Radix], n % Radix)
    BY NumeralIs, Zenon
  <1>2. ~(n < Radix)
    BY RadixType
  <1> QED BY <1>1, <1>2, Zenon

\* A numeral has a digit.
LEMMA NumeralType == \A n \in Nat : Numeral[n] \in Seq(Nat) /\ Len(Numeral[n]) \in Nat \ {0}
  <1> DEFINE OK(n) == Numeral[n] \in Seq(Nat) /\ Len(Numeral[n]) \in Nat \ {0}
             T == {n \in Nat : ~ OK(n)}
  <1> SUFFICES ASSUME T # {}  PROVE FALSE
    OBVIOUS
  <1>1. PICK n \in T : \A m \in T : n <= m
    BY LeastNumber
  <1>0. n \in Nat /\ ~ OK(n)
    OBVIOUS
  <1>2. CASE n < Radix
    <2>1. Numeral[n] = <<n>>
      BY <1>0, <1>2, NumeralIs
    <2>2. <<n>> \in Seq(Nat) /\ Len(<<n>>) = 1
      BY <1>0
    <2> QED BY <1>0, <2>1, <2>2
  <1>3. CASE Radix <= n
    <2>1. n \div Radix \in Nat /\ n % Radix \in Nat /\ n \div Radix < n
      BY <1>0, <1>3, Division
    <2>2. OK(n \div Radix)
      BY <1>1, <2>1
    <2>3. Numeral[n] = Append(Numeral[n \div Radix], n % Radix)
      BY <1>0, <1>3, NumeralOfLong
    <2> DEFINE s == Numeral[n \div Radix]
    <2>4. s \in Seq(Nat) /\ Len(s) \in Nat
      BY <2>2
    <2> HIDE DEF s
    <2>5. Append(s, n % Radix) \in Seq(Nat) /\ Len(Append(s, n % Radix)) = Len(s) + 1
      BY <2>1, <2>4
    <2>6. OK(n)
      BY <2>3, <2>4, <2>5 DEF s
    <2> QED BY <1>0, <2>6
  <1> QED BY <1>0, <1>2, <1>3, RadixType

LEMMA OneMore ==
    ASSUME NEW s \in Seq(Nat), NEW x \in Nat
    PROVE  /\ Len(s) \in Nat /\ Len(Append(s, x)) = Len(s) + 1 /\ DOMAIN s = 1..Len(s)
           /\ Append(s, x)[Len(s) + 1] = x /\ \A i \in 1..Len(s) : Append(s, x)[i] = s[i]
  OBVIOUS

\* A sequence with one more element gives back both.
LEMMA AppendInjective ==
    ASSUME NEW s \in Seq(Nat), NEW u \in Seq(Nat), NEW x \in Nat, NEW y \in Nat, Append(s, x) = Append(u, y)
    PROVE  s = u /\ x = y
  <1>1. /\ Len(s) \in Nat /\ Len(Append(s, x)) = Len(s) + 1 /\ DOMAIN s = 1..Len(s)
        /\ Append(s, x)[Len(s) + 1] = x /\ \A i \in 1..Len(s) : Append(s, x)[i] = s[i]
    BY OneMore
  <1>2. /\ Len(u) \in Nat /\ Len(Append(u, y)) = Len(u) + 1 /\ DOMAIN u = 1..Len(u)
        /\ Append(u, y)[Len(u) + 1] = y /\ \A i \in 1..Len(u) : Append(u, y)[i] = u[i]
    BY OneMore
  <1>3. Len(s) = Len(u)
    <2>1. Len(s) + 1 = Len(u) + 1 /\ Len(s) \in Nat /\ Len(u) \in Nat
      BY <1>1, <1>2
    <2> QED BY <2>1
  <1>4. x = y
    BY <1>1, <1>2, <1>3
  <1>5. \A i \in 1..Len(s) : s[i] = u[i]
    BY <1>1, <1>2, <1>3
  <1> QED BY <1>1, <1>2, <1>3, <1>4, <1>5

\* Different numbers have different numerals.
LEMMA NumeralsDiffer == \A m, n \in Nat : Numeral[m] = Numeral[n] => m = n
  <1> DEFINE T == {m \in Nat : \E n \in Nat : Numeral[m] = Numeral[n] /\ m # n}
  <1> SUFFICES ASSUME T # {}  PROVE FALSE
    OBVIOUS
  <1>1. PICK m \in T : \A k \in T : m <= k
    BY LeastNumber
  <1>2. PICK n \in Nat : Numeral[m] = Numeral[n] /\ m # n
    OBVIOUS
  <1>3. ASSUME NEW k \in Nat, k < Radix
        PROVE  Numeral[k] = <<k>> /\ Len(Numeral[k]) = 1
    BY <1>3, NumeralIs
  <1>4. ASSUME NEW k \in Nat, Radix <= k
        PROVE  /\ Numeral[k] = Append(Numeral[k \div Radix], k % Radix)
               /\ Len(Numeral[k]) # 1 /\ k \div Radix \in Nat /\ k \div Radix < k /\ k % Radix \in Nat
               /\ Numeral[k \div Radix] \in Seq(Nat)
    <2>1. k \div Radix \in Nat /\ k \div Radix < k /\ k % Radix \in Nat
      BY <1>4, Division
    <2>2. Numeral[k] = Append(Numeral[k \div Radix], k % Radix)
      BY <1>4, NumeralOfLong
    <2>3. Numeral[k \div Radix] \in Seq(Nat) /\ Len(Numeral[k \div Radix]) \in Nat \ {0}
      BY <2>1, NumeralType
    <2>4. Len(Numeral[k]) = Len(Numeral[k \div Radix]) + 1
      BY <2>1, <2>2, <2>3
    <2> QED BY <2>1, <2>2, <2>3, <2>4
  <1>5. m \in Nat /\ (m < Radix \/ Radix <= m)
    BY RadixType
  <1>6. n < Radix \/ Radix <= n
    BY RadixType
  <1>7. CASE m < Radix
    <2>1. n < Radix
      BY <1>2, <1>3, <1>4, <1>6, <1>7
    <2>2. <<m>> = <<n>>
      BY <1>2, <1>3, <1>7, <2>1
    <2> QED BY <1>2, <2>2
  <1>8. CASE Radix <= m
    <2>1. Radix <= n
      BY <1>2, <1>3, <1>4, <1>6, <1>8
    <2> DEFINE s == Numeral[m \div Radix]
               u == Numeral[n \div Radix]
               x == m % Radix
               y == n % Radix
    <2>2. Append(s, x) = Append(u, y) /\ s \in Seq(Nat) /\ u \in Seq(Nat) /\ x \in Nat /\ y \in Nat
      BY <1>2, <1>4, <1>8, <2>1
    <2> HIDE DEF s, u, x, y
    <2>3. s = u /\ x = y
      BY <2>2, AppendInjective
    <2>4. m \div Radix \in Nat /\ n \div Radix \in Nat /\ m \div Radix < m
      BY <1>4, <1>8, <2>1
    <2>5. m \div Radix = n \div Radix
      BY <1>1, <2>3, <2>4 DEF s, u
    <2>6. m = n
      BY <2>3, <2>5, Division DEF x, y
    <2> QED BY <1>2, <2>6
  <1> QED BY <1>5, <1>7, <1>8

\* Of a finite set of ids with the order of their keys, each has its place, and
\* each place its id.
LEMMA IdsPlaced ==
    ASSUME NEW ids \in SUBSET Nat, IsFiniteSet(ids), NEW n \in 1..Cardinality(ids)
    PROVE  \E i \in ids : Cardinality({j \in ids : BytesLess(Numeral[j], Numeral[i])}) = n - 1
  <1> DEFINE R == {p \in ids \X ids : BytesLess(Numeral[p[1]], Numeral[p[2]])}
  <1>1. \A i, j \in ids : <<i, j>> \in R <=> BytesLess(Numeral[i], Numeral[j])
    OBVIOUS
  <1>2. \A i \in ids : Numeral[i] \in Seq(Nat)
    BY NumeralType
  <1>3. \A i, j \in ids : i # j => Numeral[i] # Numeral[j]
    BY NumeralsDiffer
  <1> HIDE DEF R
  <1>4. \A i \in ids : <<i, i>> \notin R
    BY <1>1, <1>2, BytesLessIrreflexive
  <1>5. \A i, j, k \in ids : <<i, j>> \in R /\ <<j, k>> \in R => <<i, k>> \in R
    BY <1>1, <1>2, BytesLessTransitive
  <1>6. \A i, j \in ids : i # j => <<i, j>> \in R \/ <<j, i>> \in R
    BY <1>1, <1>2, <1>3, BytesLessTotal
  <1>7. n - 1 \in 0..Cardinality(ids) - 1
    BY FS_CardinalityType
  <1>8. \E i \in ids : Cardinality(Before(ids, R, i)) = n - 1
    <2>1. TotallyOrders(R, ids)
      BY <1>4, <1>5, <1>6 DEF TotallyOrders
    <2>2. IsFiniteSet(ids)
      OBVIOUS
    <2>3. Placed(R, ids)
      BY <2>1, <2>2, PlacesTaken
    <2> QED BY <1>7, <2>3 DEF Placed
  <1>9. \A i \in ids : Before(ids, R, i) = {j \in ids : BytesLess(Numeral[j], Numeral[i])}
    BY <1>1 DEF Before
  <1> QED BY <1>8, <1>9

\* Loading gives a table one column for each of its ids in the file, and no other.
LEMMA LoadedIs ==
    ASSUME NEW cat \in Catalogs, IsFiniteSet(cat.columns), NEW t
    PROVE  LET ids == {q.id : q \in {p \in cat.columns : p.table = t}}
           IN  /\ IsFiniteSet(ids) /\ ids \subseteq Nat /\ Cardinality(ids) \in Nat
               /\ LoadedColumns(cat, t) \in [1..Cardinality(ids) -> ids]
  <1> DEFINE C == {p \in cat.columns : p.table = t}
             ids == {q.id : q \in C}
             before(i) == {j \in ids : BytesLess(Numeral[j], Numeral[i])}
  <1>1. IsFiniteSet(C)
    BY FS_Subset
  <1>2. ids \subseteq Nat
    BY DEF Catalogs, Columns
  <1> HIDE DEF C
  <1>3. IsFiniteSet(ids)
    <2> DEFINE f == [q \in C |-> q.id]
    <2>1. f \in Surjection(C, ids)
      BY DEF Surjection
    <2> QED BY <1>1, <2>1, FS_Surjection
  <1>4. Cardinality(ids) \in Nat
    BY <1>3, FS_CardinalityType
  <1>5. LoadedColumns(cat, t) = [n \in 1..Cardinality(ids) |-> CHOOSE i \in ids : Cardinality(before(i)) = n - 1]
    BY DEF LoadedColumns, C
  <1> HIDE DEF ids
  <1>6. \A n \in 1..Cardinality(ids) : \E i \in ids : Cardinality(before(i)) = n - 1
    BY <1>2, <1>3, IdsPlaced
  <1> HIDE DEF before
  <1>7. LoadedColumns(cat, t) \in [1..Cardinality(ids) -> ids]
    BY <1>5, <1>6
  <1> QED BY <1>2, <1>3, <1>4, <1>7 DEF ids, C

-----------------------------------------------------------------------------
(* CatalogUse: its steps, seen by Catalog.                                 *)

\* Every step is a step of Catalog, or leaves the catalog and its creators alone.
LEMMA UseSteps == [UseNext]_allVars => [Next]_vars
  <1> SUFFICES ASSUME [UseNext]_allVars  PROVE [Next]_vars
    OBVIOUS
  <1>1. ASSUME NEW c \in Conns, CreateStep(c)  PROVE Next
    BY <1>1 DEF CreateStep, PushColumns, CreateOver, FailCreate, HandlerStep, Next
  <1>2. ASSUME NEW u \in Users, UserStep(u)  PROVE UNCHANGED vars
    BY <1>2 DEF UserStep, BeginUse, BuildRecord, PutRecord, BeginRead, ReadTable, WatchColumns
  <1>3. ASSUME NEW id \in requeries, RequeryColumn(id)  PROVE [Next]_vars
    BY <1>3 DEF RequeryColumn, Down, Next
  <1> QED BY <1>1, <1>2, <1>3 DEF UseNext, Next, Down, allVars

\* Whatever its users do, the catalog keeps Catalog's promises: fresh ids,
\* tables that survive, and changes of the file that are atomic.
THEOREM UseKeepsCatalog ==
    UseSpec => [](ColumnIdsFresh /\ AckedTablesSurvive) /\ CreatesAtomically
  <1>1. UseInit => Init
    BY DEF UseInit
  <1>2. UseSpec => Spec
    BY <1>1, UseSteps, PTL DEF UseSpec, Spec
  <1> QED BY <1>2, IdsAreFresh, AckedSurvive, Implements, PTL

-----------------------------------------------------------------------------
(* The schema in memory knows the tables of the file.                      *)

\* A table is known: it has a slot for a column at least.
HasSlots(t) == DOMAIN tables[t] # {}

\* A running server knows every table of the file, and the one in the making.
Knows ==
    /\ tables = [t \in Names |-> tables[t]]
    /\ IsFiniteSet(disk.columns) /\ IsFiniteSet(tx.cat.columns)
    /\ up => \A t \in disk.tables : HasSlots(t)
    /\ tx.owner # NoConn => HasSlots(stmt[tx.owner].table)

\* A table with slots is one that validateCreateTable refuses.
LEMMA SlotsMakeKnown == \A t : HasSlots(t) => Known(t)
  BY DEF HasSlots, Known, Unknown

\* A table of the file has columns to load.
LEMMA LoadedHasSlots ==
    ASSUME Inv, Knows, NEW t \in disk.tables
    PROVE  DOMAIN LoadedColumns(disk, t) # {}
  <1> DEFINE C == {p \in disk.columns : p.table = t}
             ids == {q.id : q \in C}
  <1>1. PICK n \in 1..MaxColumns : {q.pos : q \in C} = 1..n
    BY DEF Inv, TablesWhole, Positions
  <1>2. C # {}
    <2>1. 1 \in 1..n
      BY ColumnsAssumption
    <2> QED BY <1>1, <2>1
  <1>3. IsFiniteSet(C)
    BY FS_Subset DEF Knows
  <1> HIDE DEF C
  <1>4. IsFiniteSet(ids)
    <2> DEFINE f == [q \in C |-> q.id]
    <2>1. f \in Surjection(C, ids)
      BY DEF Surjection
    <2> QED BY <1>3, <2>1, FS_Surjection
  <1>5. ids # {}
    BY <1>2
  <1>6. Cardinality(ids) \in Nat \ {0}
    <2> HIDE DEF ids
    <2>1. Cardinality(ids) \in Nat /\ Cardinality(ids) # 0
      BY <1>4, <1>5, FS_CardinalityType, FS_EmptySet
    <2> QED BY <2>1
  <1>7. DOMAIN LoadedColumns(disk, t) = 1..Cardinality(ids)
    BY DEF LoadedColumns, C
  <1> HIDE DEF ids
  <1> QED BY <1>6, <1>7

\* A new file has no tables to know.
LEMMA InitKnows == Init => Knows
  BY FS_EmptySet DEF Init, Knows, NoTx, NoTables

\* Starting, creating and dying keep the knowledge.
LEMMA NextKnows == Inv /\ Knows /\ [Next]_vars => Knows'
  <1> SUFFICES ASSUME Inv, Knows, [Next]_vars  PROVE Knows'
    OBVIOUS
  <1>1. CASE Start
    <2>1. /\ tables' = [t \in Names |-> LoadedColumns(disk, t)]
          /\ disk' = [disk EXCEPT !.next = nextId'] /\ ~up /\ UNCHANGED <<tx, stmt>>
      BY <1>1 DEF Start
    <2>2. disk'.tables = disk.tables /\ disk'.columns = disk.columns
      BY <2>1 DEF Inv, Typed, Catalogs
    <2>3. tx.owner = NoConn
      BY <2>1 DEF Inv, TxIsFileAndNew, Working, Typed, Txs
    <2>4. disk.tables \subseteq Names
      BY DEF Inv, Typed, Catalogs
    <2>5. \A t \in disk.tables : HasSlots(t)'
      BY <2>1, <2>4, LoadedHasSlots DEF HasSlots
    <2> QED BY <2>1, <2>2, <2>3, <2>5 DEF Knows
  <1>2. CASE Crash
    <2>1. /\ ~up' /\ tables' = NoTables /\ tx' = NoTx /\ disk' = disk
      BY <1>2 DEF Crash
    <2> QED BY <2>1, FS_EmptySet DEF Knows, NoTables, NoTx
  <1>3. ASSUME NEW c \in Conns, ValidateCreate(c)  PROVE Knows'
    <2>1. UNCHANGED <<disk, tx, tables, up>>
      BY <1>3 DEF ValidateCreate, memory
    <2>2. tx.owner # NoConn => stmt'[tx.owner] = stmt[tx.owner]
      <3>1. tx.owner # NoConn => tx.owner # c
        BY <1>3 DEF ValidateCreate, Inv, TxIsFileAndNew
      <3> QED BY <1>3, <3>1 DEF ValidateCreate, Inv, Typed
    <2> QED BY <2>1, <2>2 DEF Knows, HasSlots
  <1>4. ASSUME NEW c \in Conns, BeginCreate(c)  PROVE Knows'
    <2> DEFINE t == stmt[c].table
               slots == AllNil(stmt[c].cols)
    <2>1. /\ tables' = [tables EXCEPT ![t] = slots]
          /\ tx'.owner = c /\ tx'.cat = [disk EXCEPT !.tables = @ \cup {t}]
          /\ UNCHANGED <<disk, up, stmt>>
      BY <1>4 DEF BeginCreate
    <2>2. t \in Names /\ stmt[c].cols \in Nat /\ 0 < stmt[c].cols
      BY <1>4, StatementParts DEF BeginCreate, Inv, Working
    <2>3. DOMAIN slots # {}
      BY <2>2 DEF AllNil
    <2>4. tx'.cat.columns = disk.columns
      BY <2>1 DEF Inv, Typed, Catalogs
    <2> HIDE DEF t, slots
    <2>5. \A u \in Names : tables'[u] = IF u = t THEN slots ELSE tables[u]
      BY <2>1, <2>2 DEF Knows
    <2>6. disk.tables \subseteq Names
      BY DEF Inv, Typed, Catalogs
    <2>7. tables' = [u \in Names |-> tables'[u]]
      BY <2>1 DEF Knows
    <2>8. HasSlots(stmt[c].table)'
      BY <2>1, <2>2, <2>3, <2>5 DEF HasSlots, t
    <2>9. up' => \A u \in disk'.tables : HasSlots(u)'
      BY <2>1, <2>3, <2>5, <2>6 DEF Knows, HasSlots
    <2> QED BY <2>1, <2>4, <2>7, <2>8, <2>9 DEF Knows
  <1>5. ASSUME NEW c \in Conns, AddColumn(c)  PROVE Knows'
    <2> DEFINE t == stmt[c].table
               pos == tx.done + 1
               q == Column(nextId, t, pos)
    <2>1. /\ tables' = [tables EXCEPT ![t][pos] = nextId]
          /\ tx' = [tx EXCEPT !.done = pos, !.cat.columns = PutColumn(@, q)]
          /\ UNCHANGED <<disk, up, stmt>>
      BY <1>5 DEF AddColumn
    <2>2. tx'.owner = tx.owner /\ tx'.cat.columns = PutColumn(tx.cat.columns, q)
      BY <2>1 DEF Inv, Typed, Txs, Catalogs
    <2>3. IsFiniteSet(tx'.cat.columns)
      <3> DEFINE kept == {p \in tx.cat.columns : p.id # q.id}
      <3>1. IsFiniteSet(kept)
        BY FS_Subset DEF Knows
      <3> HIDE DEF kept, q
      <3>2. IsFiniteSet(kept \cup {q})
        BY <3>1, FS_AddElement
      <3> QED BY <2>2, <3>2 DEF PutColumn, kept
    <2>4. DOMAIN tables = Names
      BY DEF Knows
    <2> HIDE DEF pos
    <2>5. \A u : DOMAIN tables'[u] = DOMAIN tables[u]
      BY <2>1, <2>4
    <2>6. tables' = [u \in Names |-> tables'[u]]
      BY <2>1, <2>4
    <2> QED BY <2>1, <2>2, <2>3, <2>5, <2>6 DEF Knows, HasSlots
  <1>6. ASSUME NEW c \in Conns, PushEvents(c)  PROVE Knows'
    <2>1. tx' = [tx EXCEPT !.cat.next = nextId] /\ UNCHANGED <<disk, up, tables, stmt>>
      BY <1>6 DEF PushEvents, memory
    <2>2. tx'.owner = tx.owner /\ tx'.cat.columns = tx.cat.columns
      BY <2>1 DEF Inv, Typed, Txs, Catalogs
    <2> QED BY <2>1, <2>2 DEF Knows, HasSlots
  <1>7. ASSUME NEW c \in Conns, CommitCreate(c)  PROVE Knows'
    <2>1. disk' = tx.cat /\ tx' = NoTx /\ UNCHANGED <<up, tables, stmt>>
      BY <1>7 DEF CommitCreate, memory
    <2>2. tx.owner = c /\ c # NoConn /\ disk'.tables = disk.tables \cup {stmt[c].table}
      BY <1>7, CommitCreates, ConnsAssumption
    <2> QED BY <2>1, <2>2, FS_EmptySet DEF Knows, HasSlots, NoTx
  <1>8. ASSUME NEW c \in Conns, FailCommit(c)  PROVE Knows'
    <2>1. tx' = NoTx /\ UNCHANGED <<disk, up, tables, stmt>>
      BY <1>8 DEF FailCommit, memory
    <2> QED BY <2>1, FS_EmptySet DEF Knows, HasSlots, NoTx
  <1>9. ASSUME NEW c \in Conns, Reply(c)  PROVE Knows'
    <2>1. UNCHANGED <<disk, tx, up, tables>> /\ stmt' = [stmt EXCEPT ![c] = NoStatement]
      BY <1>9 DEF Reply, memory
    <2>2. tx.owner # NoConn => tx.owner # c
      BY <1>9 DEF Reply, Inv, TxIsFileAndNew
    <2>3. tx.owner # NoConn => stmt'[tx.owner] = stmt[tx.owner]
      BY <2>1, <2>2 DEF Inv, Typed
    <2> QED BY <2>1, <2>3 DEF Knows, HasSlots
  <1>10. CASE UNCHANGED vars
    BY <1>10 DEF vars, memory, Knows, HasSlots
  <1> QED BY <1>1, <1>2, <1>3, <1>4, <1>5, <1>6, <1>7, <1>8, <1>9, <1>10 DEF Next, HandlerStep

\* validateCreateTable never lets a second CREATETABLE of a table pass once the
\* table is in the file, also after restarts: only statements that overlap can
\* both create it.
THEOREM CreatedTwiceByOverlap == UseSpec => TwiceOnlyByOverlap
  <1> DEFINE Accepts == \A c \in Conns :
                (pc[c] = "idle" /\ pc'[c] = "begin") => stmt'[c].table \notin disk.tables
  <1>1. UseInit => Inv /\ Knows
    BY InitInv, InitKnows DEF UseInit
  <1>2. Inv /\ Knows /\ [UseNext]_allVars => Inv' /\ Knows'
    BY UseSteps, NextInv, NextKnows
  <1>3. Inv /\ Knows /\ [UseNext]_allVars => Accepts
    <2> SUFFICES ASSUME Inv, Knows, [Next]_vars, NEW c \in Conns,
                        pc[c] = "idle", pc'[c] = "begin"
                 PROVE  stmt'[c].table \notin disk.tables
      BY UseSteps
    <2>1. pc \in [Conns -> Pcs] /\ stmt \in [Conns -> Statements \cup {NoStatement}]
      BY DEF Inv, Typed
    <2>2. ValidateCreate(c)
      <3>1. ~Start /\ ~Crash /\ ~UNCHANGED vars
        BY DEF Start, Crash, vars
      <3>2. PICK d \in Conns : HandlerStep(d)
        BY <3>1 DEF Next
      <3>3. ValidateCreate(d) /\ d = c
        BY <2>1, <3>2 DEF HandlerStep, ValidateCreate, BeginCreate, AddColumn, PushEvents,
           CommitCreate, FailCommit, Reply
      <3> QED BY <3>3
    <2>3. PICK s \in Requests[c] :
             /\ stmt' = [stmt EXCEPT ![c] = s]
             /\ pc' = [pc EXCEPT ![c] =
                          IF ~Known(s.table) /\ s.legal /\ \A t \in s.refs : Known(t)
                          THEN "begin" ELSE "error"]
      BY <2>2 DEF ValidateCreate
    <2>4. ~Known(s.table) /\ stmt'[c] = s
      BY <2>1, <2>3
    <2>5. up
      BY <2>2 DEF ValidateCreate
    <2> QED BY <2>4, <2>5, SlotsMakeKnown DEF Knows
  <1> QED BY <1>1, <1>2, <1>3, PTL DEF UseSpec, TwiceOnlyByOverlap

-----------------------------------------------------------------------------
(* What each step does to the schema in memory.                            *)

\* Types of the schema in memory and of the statements' count.
MemoryTyped ==
    /\ tables \in [Names -> Seq(Nat)]
    /\ asked \in [Conns -> 0..MaxCreates]

LEMMA NoColumns == DOMAIN Unknown = {} /\ Unknown \in Seq(Nat) /\ Len(Unknown) = 0
  BY DEF Unknown

LEMMA AllNilIs ==
    ASSUME NEW n \in Nat
    PROVE  AllNil(n) \in Seq(Nat) /\ Len(AllNil(n)) = n /\ DOMAIN AllNil(n) = 1..n
  <1>1. AllNil(n) \in [1..n -> Nat]
    BY DEF AllNil, NoColumn
  <1>2. AllNil(n) \in Seq(Nat)
    BY <1>1
  <1>3. DOMAIN AllNil(n) = 1..n
    BY DEF AllNil
  <1> QED BY <1>2, <1>3

\* Filling a slot leaves as many as there were.
LEMMA SlotSet ==
    ASSUME NEW s \in Seq(Nat), NEW i, NEW x \in Nat
    PROVE  /\ [s EXCEPT ![i] = x] \in Seq(Nat)
           /\ Len([s EXCEPT ![i] = x]) = Len(s) /\ DOMAIN [s EXCEPT ![i] = x] = DOMAIN s
  <1> DEFINE f == [s EXCEPT ![i] = x]
  <1>1. Len(s) \in Nat /\ s \in [1..Len(s) -> Nat]
    OBVIOUS
  <1>2. f \in [1..Len(s) -> Nat]
    BY <1>1
  <1> HIDE DEF f
  <1>3. f \in Seq(Nat) /\ Len(f) = Len(s) /\ DOMAIN f = 1..Len(s) /\ DOMAIN s = 1..Len(s)
    BY <1>1, <1>2
  <1> QED BY <1>3 DEF f

\* The schema and the open transaction stay as they are.
Quiet ==
    /\ UNCHANGED <<disk, up, tables, nextId>>
    /\ tx'.owner = tx.owner /\ tx'.done = tx.done
    /\ tx.owner # NoConn => stmt'[tx.owner] = stmt[tx.owner]

LEMMA QuietSteps ==
    ASSUME Inv, NEW c \in Conns,
           ValidateCreate(c) \/ PushEvents(c) \/ Reply(c)
    PROVE  Quiet
  <1>1. CASE ValidateCreate(c)
    <2>1. tx.owner # NoConn => tx.owner # c
      BY <1>1 DEF ValidateCreate, Inv, TxIsFileAndNew
    <2> QED BY <1>1, <2>1 DEF ValidateCreate, memory, Quiet, Inv, Typed
  <1>2. CASE PushEvents(c)
    BY <1>2 DEF PushEvents, memory, Quiet, Inv, Typed, Txs
  <1>3. CASE Reply(c)
    <2>1. tx.owner # NoConn => tx.owner # c
      BY <1>3 DEF Reply, Inv, TxIsFileAndNew
    <2> QED BY <1>3, <2>1 DEF Reply, memory, Quiet, Inv, Typed
  <1> QED BY <1>1, <1>2, <1>3

LEMMA StartEffect ==
    ASSUME Inv, Start
    PROVE  /\ ~up /\ up' /\ tx.owner = NoConn /\ tx = NoTx /\ UNCHANGED <<tx, stmt, asked>>
           /\ tables' = [t \in Names |-> LoadedColumns(disk, t)]
           /\ disk'.tables = disk.tables /\ disk'.columns = disk.columns
           /\ disk'.next = nextId' /\ nextId' = EnsuredNextId
  <1>1. /\ ~up /\ up' = TRUE /\ UNCHANGED <<tx, stmt, asked>>
        /\ tables' = [t \in Names |-> LoadedColumns(disk, t)]
        /\ nextId' = EnsuredNextId /\ disk' = [disk EXCEPT !.next = nextId']
    BY DEF Start
  <1>2. disk'.tables = disk.tables /\ disk'.columns = disk.columns /\ disk'.next = nextId'
    BY <1>1 DEF Inv, Typed, Catalogs
  <1>3. tx.owner = NoConn /\ tx = NoTx
    BY <1>1 DEF Inv, TxIsFileAndNew, Working, Typed, Txs
  <1> QED BY <1>1, <1>2, <1>3

LEMMA CrashEffect ==
    ASSUME Crash
    PROVE  /\ ~up' /\ tables' = [t \in Names |-> Unknown] /\ tx' = NoTx /\ tx'.owner = NoConn
           /\ disk' = disk /\ asked' = asked
  BY DEF Crash, NoTables, NoTx

LEMMA BeginEffect ==
    ASSUME Inv, MemoryTyped, NEW c \in Conns, BeginCreate(c)
    PROVE  LET t == stmt[c].table  n == stmt[c].cols IN
           /\ tx.owner = NoConn /\ c # NoConn /\ up /\ t \in Names /\ n \in 1..MaxColumns /\ n \in Nat
           /\ tables' = [tables EXCEPT ![t] = AllNil(n)]
           /\ tables'[t] = AllNil(n) /\ \A u \in Names \ {t} : tables'[u] = tables[u]
           /\ tx'.owner = c /\ tx'.done = 0 /\ UNCHANGED <<disk, up, nextId, stmt, asked>>
  <1>1. /\ pc[c] = "begin" /\ tx.owner = NoConn
        /\ tables' = [tables EXCEPT ![stmt[c].table] = AllNil(stmt[c].cols)]
        /\ tx'.owner = c /\ tx'.done = 0 /\ UNCHANGED <<disk, up, nextId, stmt, asked>>
    BY DEF BeginCreate
  <1>2. stmt[c] \in Statements /\ up /\ c # NoConn
    BY <1>1, ConnsAssumption DEF Inv, Working
  <1>3. stmt[c].table \in Names /\ stmt[c].cols \in 1..MaxColumns /\ stmt[c].cols \in Nat
    BY <1>2, StatementParts
  <1> QED BY <1>1, <1>2, <1>3 DEF MemoryTyped

LEMMA AddEffect ==
    ASSUME Inv, MemoryTyped, NEW c \in Conns, AddColumn(c)
    PROVE  LET t == stmt[c].table IN
           /\ tx.owner = c /\ c # NoConn /\ up /\ t \in Names
           /\ tx.done \in Nat /\ stmt[c].cols \in Nat /\ tx.done < stmt[c].cols
           /\ tables' = [tables EXCEPT ![t] = tables'[t]]
           /\ tables'[t] = [tables[t] EXCEPT ![tx.done + 1] = nextId]
           /\ \A u \in Names \ {t} : tables'[u] = tables[u]
           /\ nextId \in Nat /\ nextId # NoColumn /\ nextId' = nextId + 1
           /\ tx'.owner = c /\ tx'.done = tx.done + 1 /\ UNCHANGED <<disk, up, stmt, asked>>
  <1>1. /\ pc[c] = "columns" /\ tx.done < stmt[c].cols /\ nextId' = nextId + 1
        /\ tables' = [tables EXCEPT ![stmt[c].table][tx.done + 1] = nextId]
        /\ UNCHANGED <<disk, up, stmt, asked>>
    BY DEF AddColumn
  <1>2. tx'.owner = tx.owner /\ tx'.done = tx.done + 1
    BY DEF AddColumn, Inv, Typed, Txs
  <1>3. tx.owner = c /\ c # NoConn /\ stmt[c] \in Statements /\ up
    BY <1>1, ConnsAssumption DEF Inv, TxIsFileAndNew, Working
  <1>4. stmt[c].table \in Names /\ stmt[c].cols \in Nat
    BY <1>3, StatementParts
  <1>5. tx.done \in Nat /\ nextId \in Nat /\ nextId # NoColumn
    BY <1>3, ColumnsAssumption DEF Inv, Typed, Txs, Working, Catalogs, NoColumn
  <1> QED BY <1>1, <1>2, <1>3, <1>4, <1>5 DEF MemoryTyped

LEMMA EndEffect ==
    ASSUME Inv, NEW c \in Conns, CommitCreate(c) \/ FailCommit(c)
    PROVE  /\ tx.owner = c /\ c # NoConn /\ up /\ stmt[c].table \in Names
           /\ tx.done = stmt[c].cols /\ stmt[c].cols \in Nat
           /\ tx' = NoTx /\ tx'.owner = NoConn /\ tx'.done = 0
           /\ UNCHANGED <<tables, up, nextId, stmt, asked>>
  <1>1. pc[c] = "commit" /\ tx' = NoTx /\ UNCHANGED <<tables, up, nextId, stmt, asked>>
    BY DEF CommitCreate, FailCommit, memory
  <1>2. tx.owner = c /\ c # NoConn /\ stmt[c] \in Statements /\ up /\ tx.done = stmt[c].cols
    BY <1>1, ConnsAssumption DEF Inv, TxIsFileAndNew, Working
  <1>3. stmt[c].table \in Names /\ stmt[c].cols \in Nat
    BY <1>2, StatementParts
  <1>4. NoTx.owner = NoConn /\ NoTx.done = 0
    BY DEF NoTx
  <1> QED BY <1>1, <1>2, <1>3, <1>4

-----------------------------------------------------------------------------
(* The schema in memory has its type, and nil slots only in the making.    *)

\* A slot is nil only while its table is being created, from the first column
\* that is not yet put on; no column of the file has the id of a nil slot.
SlotsFilled ==
    /\ \A q \in disk.columns : q.id # NoColumn
    /\ \A t \in Names : HasNil(t) => InTheMaking(t)
    /\ tx.owner # NoConn =>
         LET t == stmt[tx.owner].table
         IN  Len(tables[t]) = stmt[tx.owner].cols /\ \A i \in 1..tx.done : tables[t][i] # NoColumn

LEMMA InitMemory == Init => MemoryTyped /\ SlotsFilled
  BY NoColumns, CreatesAssumption
     DEF Init, MemoryTyped, SlotsFilled, NoTables, NoTx, HasNil

\* Loading gives the columns of the file.
LEMMA LoadedSlots ==
    ASSUME Inv, Knows, NEW t
    PROVE  /\ LoadedColumns(disk, t) \in Seq(Nat)
           /\ \A i \in DOMAIN LoadedColumns(disk, t) :
                 \E q \in disk.columns : q.table = t /\ LoadedColumns(disk, t)[i] = q.id
  <1> DEFINE ids == {q.id : q \in {p \in disk.columns : p.table = t}}
             k == Cardinality(ids)
             loaded == LoadedColumns(disk, t)
  <1>1. disk \in Catalogs /\ IsFiniteSet(disk.columns)
    BY DEF Inv, Typed, Knows
  <1>2. k \in Nat /\ ids \subseteq Nat /\ loaded \in [1..k -> ids]
    BY <1>1, LoadedIs
  <1>3. \A i \in ids : \E q \in disk.columns : q.table = t /\ i = q.id
    OBVIOUS
  <1> HIDE DEF k, ids, loaded
  <1>4. loaded \in [1..k -> Nat]
    BY <1>2
  <1>5. loaded \in Seq(Nat)
    BY <1>2, <1>4
  <1>6. \A i \in DOMAIN loaded : loaded[i] \in ids
    BY <1>2
  <1> QED BY <1>3, <1>5, <1>6 DEF loaded

LEMMA NextMemoryTyped == Inv /\ Knows /\ MemoryTyped /\ [Next]_vars => MemoryTyped'
  <1> SUFFICES ASSUME Inv, Knows, MemoryTyped, [Next]_vars  PROVE MemoryTyped'
    OBVIOUS
  <1>1. CASE Start
    BY <1>1, StartEffect, LoadedSlots DEF MemoryTyped
  <1>2. CASE Crash
    BY <1>2, CrashEffect, NoColumns DEF MemoryTyped
  <1>3. ASSUME NEW c \in Conns, ValidateCreate(c)  PROVE MemoryTyped'
    <2>1. asked[c] < MaxCreates /\ asked' = [asked EXCEPT ![c] = @ + 1] /\ tables' = tables
      BY <1>3 DEF ValidateCreate, memory
    <2> QED BY <2>1, CreatesAssumption DEF MemoryTyped
  <1>4. ASSUME NEW c \in Conns, BeginCreate(c)  PROVE MemoryTyped'
    <2>1. AllNil(stmt[c].cols) \in Seq(Nat)
      BY <1>4, BeginEffect, AllNilIs
    <2> QED BY <1>4, <2>1, BeginEffect DEF MemoryTyped
  <1>5. ASSUME NEW c \in Conns, AddColumn(c)  PROVE MemoryTyped'
    <2> DEFINE t == stmt[c].table
    <2>0. /\ tx.owner = c /\ c # NoConn /\ up /\ t \in Names
          /\ tx.done \in Nat /\ stmt[c].cols \in Nat /\ tx.done < stmt[c].cols
          /\ tables' = [tables EXCEPT ![t] = tables'[t]]
          /\ tables'[t] = [tables[t] EXCEPT ![tx.done + 1] = nextId]
          /\ \A u \in Names \ {t} : tables'[u] = tables[u]
          /\ nextId \in Nat /\ nextId # NoColumn /\ nextId' = nextId + 1
          /\ tx'.owner = c /\ tx'.done = tx.done + 1 /\ UNCHANGED <<disk, up, stmt, asked>>
      BY <1>5, AddEffect, Zenon
    <2> HIDE DEF t
    <2>1. tables[t] \in Seq(Nat)
      BY <2>0 DEF MemoryTyped
    <2>2. tables'[t] \in Seq(Nat)
      <3> DEFINE s == tables[t]
                 i == tx.done + 1
      <3>1. s \in Seq(Nat) /\ nextId \in Nat /\ tables'[t] = [s EXCEPT ![i] = nextId]
        BY <2>0, <2>1
      <3> HIDE DEF s, i
      <3>2. [s EXCEPT ![i] = nextId] \in Seq(Nat)
        BY <3>1, SlotSet
      <3> QED BY <3>1, <3>2
    <2> QED BY <2>0, <2>2 DEF MemoryTyped
  <1>6. ASSUME NEW c \in Conns, CommitCreate(c) \/ FailCommit(c)  PROVE MemoryTyped'
    BY <1>6, EndEffect DEF MemoryTyped
  <1>7. ASSUME NEW c \in Conns, PushEvents(c) \/ Reply(c)  PROVE MemoryTyped'
    BY <1>7 DEF PushEvents, Reply, memory, MemoryTyped
  <1>8. CASE UNCHANGED vars
    BY <1>8 DEF vars, memory, MemoryTyped
  <1> QED BY <1>1, <1>2, <1>3, <1>4, <1>5, <1>6, <1>7, <1>8 DEF Next, HandlerStep

LEMMA NextSlotsFilled == Inv /\ Knows /\ MemoryTyped /\ SlotsFilled /\ [Next]_vars => SlotsFilled'
  <1> SUFFICES ASSUME Inv, Knows, MemoryTyped, SlotsFilled, [Next]_vars  PROVE SlotsFilled'
    OBVIOUS
  <1>1. CASE Start
    <2>1. \A t \in Names : ~HasNil(t)'
      <3> SUFFICES ASSUME NEW t \in Names, NEW i \in DOMAIN LoadedColumns(disk, t)
                   PROVE  LoadedColumns(disk, t)[i] # NoColumn
        BY <1>1, StartEffect DEF HasNil
      <3> QED BY LoadedSlots DEF SlotsFilled
    <2> QED BY <1>1, <2>1, StartEffect DEF SlotsFilled
  <1>2. CASE Crash
    <2>1. \A t \in Names : ~HasNil(t)'
      BY <1>2, CrashEffect, NoColumns DEF HasNil
    <2> QED BY <1>2, <2>1, CrashEffect DEF SlotsFilled
  <1>3. ASSUME Quiet  PROVE SlotsFilled'
    <2>1. \A t : HasNil(t)' = HasNil(t) /\ InTheMaking(t)' = InTheMaking(t)
      BY <1>3 DEF Quiet, HasNil, InTheMaking
    <2> QED BY <1>3, <2>1 DEF SlotsFilled, Quiet
  <1>4. ASSUME NEW c \in Conns, BeginCreate(c)  PROVE SlotsFilled'
    <2> DEFINE t == stmt[c].table
    <2>1. InTheMaking(t)' /\ \A u \in Names \ {t} : ~HasNil(u)
      BY <1>4, BeginEffect DEF InTheMaking, SlotsFilled
    <2>2. \A u \in Names \ {t} : ~HasNil(u)'
      BY <1>4, <2>1, BeginEffect DEF HasNil
    <2>3. Len(tables'[t]) = stmt'[c].cols
      BY <1>4, BeginEffect, AllNilIs
    <2>4. \A i \in 1..tx'.done : tables'[t][i] # NoColumn
      BY <1>4, BeginEffect
    <2> QED BY <1>4, <2>1, <2>2, <2>3, <2>4, BeginEffect DEF SlotsFilled
  <1>5. ASSUME NEW c \in Conns, AddColumn(c)  PROVE SlotsFilled'
    <2> DEFINE t == stmt[c].table
    <2>0. /\ tx.owner = c /\ c # NoConn /\ up /\ t \in Names
          /\ tx.done \in Nat /\ stmt[c].cols \in Nat /\ tx.done < stmt[c].cols
          /\ tables' = [tables EXCEPT ![t] = tables'[t]]
          /\ tables'[t] = [tables[t] EXCEPT ![tx.done + 1] = nextId]
          /\ \A u \in Names \ {t} : tables'[u] = tables[u]
          /\ nextId \in Nat /\ nextId # NoColumn /\ nextId' = nextId + 1
          /\ tx'.owner = c /\ tx'.done = tx.done + 1 /\ UNCHANGED <<disk, up, stmt, asked>>
      BY <1>5, AddEffect, Zenon
    <2>1. InTheMaking(t)' /\ \A u \in Names \ {t} : ~HasNil(u)
      BY <2>0 DEF InTheMaking, SlotsFilled
    <2>2. \A u \in Names \ {t} : ~HasNil(u)'
      BY <2>0, <2>1 DEF HasNil
    <2>3. /\ tables[t] \in Seq(Nat) /\ Len(tables[t]) = stmt[c].cols
          /\ \A i \in 1..tx.done : tables[t][i] # NoColumn
      BY <2>0 DEF SlotsFilled, MemoryTyped
    <2>4. Len(tables'[t]) = stmt[c].cols
      BY <2>0, <2>3
    <2>5. \A i \in 1..tx.done + 1 : tables'[t][i] # NoColumn
      <3>1. tx.done \in Nat /\ DOMAIN tables[t] = 1..stmt[c].cols
        BY <2>0, <2>3
      <3>2. \A i \in 1..tx.done + 1 : i \in DOMAIN tables[t] /\ (i = tx.done + 1 \/ i \in 1..tx.done)
        BY <2>0, <3>1
      <3> QED BY <2>0, <2>3, <3>2
    <2> QED BY <2>0, <2>1, <2>2, <2>4, <2>5 DEF SlotsFilled
  <1>6. ASSUME NEW c \in Conns, CommitCreate(c) \/ FailCommit(c)  PROVE SlotsFilled'
    <2> DEFINE t == stmt[c].table
    <2>1. \A u \in Names : HasNil(u) => u = t
      BY <1>6, EndEffect DEF SlotsFilled, InTheMaking
    <2>2. ~HasNil(t)
      <3>1. tables[t] \in Seq(Nat) /\ Len(tables[t]) = tx.done
        BY <1>6, EndEffect DEF SlotsFilled, MemoryTyped
      <3>2. DOMAIN tables[t] = 1..tx.done
        BY <3>1
      <3> QED BY <1>6, <3>2, EndEffect DEF SlotsFilled, HasNil
    <2>3. \A u \in Names : ~HasNil(u)'
      BY <1>6, <2>1, <2>2, EndEffect DEF HasNil
    <2>4. \A q \in disk'.columns : q.id # NoColumn
      <3>1. CASE FailCommit(c)
        BY <3>1 DEF FailCommit, SlotsFilled
      <3>2. CASE CommitCreate(c)
        <4> DEFINE n == stmt[c].cols
                   first == nextId - n
                   new == Atomic!NewColumns(first, t, n)
        <4>1. /\ disk'.columns = disk.columns \cup new /\ first \in Nat
              /\ 0 < disk.next /\ disk.next <= first
          BY <3>2, CommitCreates
        <4>2. disk.next \in Nat /\ t \in Names /\ n \in 0..MaxColumns
          BY <1>6, <3>2, CommitCreates, StatementParts, ColumnsAssumption DEF Inv, Typed, Catalogs
        <4> HIDE DEF first, t, n
        <4>3. \A q \in new : first <= q.id /\ q.id \in Nat
          BY <4>1, <4>2, NewColumnsType DEF Columns
        <4> QED BY <4>1, <4>2, <4>3 DEF SlotsFilled, NoColumn
      <3> QED BY <1>6, <3>1, <3>2
    <2> QED BY <1>6, <2>3, <2>4, EndEffect DEF SlotsFilled
  <1>7. ASSUME NEW c \in Conns, ValidateCreate(c) \/ PushEvents(c) \/ Reply(c)  PROVE SlotsFilled'
    BY <1>3, <1>7, QuietSteps
  <1>8. CASE UNCHANGED vars
    BY <1>3, <1>8 DEF Quiet, vars, memory
  <1> QED BY <1>1, <1>2, <1>4, <1>5, <1>6, <1>7, <1>8 DEF Next, HandlerStep

-----------------------------------------------------------------------------
(* The users and the requeries.                                            *)

UserStates ==
    [st : {"idle", "insert", "put", "select", "read", "columns", "dead"},
     stmt : Uses \cup {NoStatement}, snap : SUBSET Names]

UsersTyped ==
    /\ user \in [Users -> UserStates]
    /\ \A u \in Users : user[u] = Resting \/ (user[u].st # "idle" /\ user[u].stmt \in Uses)
    /\ used \in [Users -> 0..MaxUses]
    /\ watched \in BOOLEAN /\ panicked \in BOOLEAN /\ spoiled \subseteq Names

\* A table the schema knows is in the file, or in the making, or was disturbed.
KnownInFile ==
    \A t \in Names : Known(t) => up /\ (t \in spoiled \/ InTheMaking(t) \/ HasBucket(t))

\* Handlers at work are handlers of a running server, on tables it knows; an
\* INSERT was counted against the slots that its table has unless it was
\* created over since.
UsersMeetTables ==
    \A u \in Users : LET s == user[u].stmt IN
       /\ user[u].st # "idle" => up
       /\ user[u].st \in {"insert", "put"} => s.do = "insert"
       /\ user[u].st \in {"select", "columns"} => s.do = user[u].st
       /\ user[u].st = "read" => s.do = "select"
       /\ user[u].st \in {"insert", "put", "select", "read"} => Known(s.table)
       /\ user[u].st = "insert" => s.table \in spoiled \/ s.width = Len(tables[s.table])

\* The columns that a requery goroutine looks up have had their ids.
RequeriesBelow == requeries \subseteq Nat /\ \A id \in requeries : up /\ id < nextId

UseInv ==
    /\ Inv /\ Knows /\ MemoryTyped /\ SlotsFilled
    /\ UsersTyped /\ KnownInFile /\ UsersMeetTables /\ RequeriesBelow

LEMMA UseInitInv == UseInit => UseInv
  <1> SUFFICES ASSUME UseInit  PROVE UseInv
    OBVIOUS
  <1>1. Inv /\ Knows /\ MemoryTyped /\ SlotsFilled
    BY InitInv, InitKnows, InitMemory DEF UseInit
  <1>2. UsersTyped
    <2>1. Resting \in UserStates
      BY DEF Resting, UserStates
    <2>2. user = [u \in Users |-> Resting] /\ used = [u \in Users |-> 0] /\ 0 \in 0..MaxUses
          /\ watched = FALSE /\ panicked = FALSE /\ spoiled = {}
      BY UsesAssumption DEF UseInit
    <2> QED BY <2>1, <2>2 DEF UsersTyped
  <1>3. KnownInFile
    BY DEF UseInit, Init, NoTables, KnownInFile, Known
  <1>4. UsersMeetTables /\ RequeriesBelow
    BY DEF UseInit, UsersMeetTables, Resting, RequeriesBelow
  <1> QED BY <1>1, <1>2, <1>3, <1>4 DEF UseInv

\* What a step of a user does: its own state, nothing of the catalog.
LEMMA UserEffect ==
    ASSUME NEW u \in Users, UserStep(u)
    PROVE  /\ up /\ UNCHANGED <<vars, requeries, spoiled, panicked>>
           /\ \E r : user' = [user EXCEPT ![u] = r]
  <1>1. up /\ UNCHANGED <<vars, requeries, spoiled, panicked>>
    BY DEF UserStep, BeginUse, BuildRecord, PutRecord, BeginRead, ReadTable, WatchColumns
  <1>2. \E r : user' = [user EXCEPT ![u] = r]
    BY DEF UserStep, BeginUse, BuildRecord, PutRecord, BeginRead, ReadTable, WatchColumns, Answer, Die
  <1> QED BY <1>1, <1>2

LEMMA UserStepTyped ==
    ASSUME UsersTyped, disk.tables \in SUBSET Names, NEW u \in Users, UserStep(u)
    PROVE  UsersTyped'
  <1> USE DEF UsersTyped
  <1>1. ASSUME NEW r \in UserStates, user' = [user EXCEPT ![u] = r],
               r = Resting \/ (r.st # "idle" /\ r.stmt \in Uses)
        PROVE  /\ user' \in [Users -> UserStates]
               /\ \A v \in Users : user'[v] = Resting \/ (user'[v].st # "idle" /\ user'[v].stmt \in Uses)
    BY <1>1
  <1>2. Resting \in UserStates
    BY DEF Resting, UserStates
  <1>3. CASE BeginUse(u)
    <2>1. PICK s \in Uses :
             LET accepted == \/ s.do = "columns"
                             \/ Known(s.table) /\ (s.do = "insert" => s.width = Len(tables[s.table]))
             IN  user' = [user EXCEPT ![u] =
                    IF ~accepted THEN Resting
                    ELSE [st |-> IF s.do = "select" /\ HasNil(s.table) THEN "dead" ELSE s.do,
                             stmt |-> s, snap |-> {}]]
      BY <1>3 DEF BeginUse
    <2> DEFINE st == IF s.do = "select" /\ HasNil(s.table) THEN "dead" ELSE s.do
    <2>2. st \in {"insert", "select", "columns", "dead"}
      BY DEF Uses
    <2>3. user' = [user EXCEPT ![u] = Resting] \/ user' = [user EXCEPT ![u] = [st |-> st, stmt |-> s, snap |-> {}]]
      BY <2>1
    <2> HIDE DEF st
    <2>4. [st |-> st, stmt |-> s, snap |-> {}] \in UserStates
      BY <2>2 DEF UserStates
    <2>5. used' \in [Users -> 0..MaxUses] /\ UNCHANGED <<watched, spoiled, panicked>>
      BY <1>3, UsesAssumption DEF BeginUse
    <2>6. CASE user' = [user EXCEPT ![u] = Resting]
      BY <1>1, <1>2, <2>5, <2>6
    <2>7. CASE user' = [user EXCEPT ![u] = [st |-> st, stmt |-> s, snap |-> {}]]
      BY <1>1, <2>2, <2>4, <2>5, <2>7
    <2> QED BY <2>3, <2>6, <2>7
  <1>4. CASE BuildRecord(u) \/ PutRecord(u) \/ ReadTable(u) \/ WatchColumns(u)
    <2>1. user[u].st # "idle" /\ user[u].stmt \in Uses
      BY <1>4 DEF BuildRecord, PutRecord, ReadTable, WatchColumns, Resting
    <2>2. ASSUME Answer(u)
          PROVE  /\ user' \in [Users -> UserStates]
                 /\ \A v \in Users : user'[v] = Resting \/ (user'[v].st # "idle" /\ user'[v].stmt \in Uses)
      BY <1>1, <1>2, <2>2 DEF Answer
    <2>3. ASSUME NEW st \in {"put", "dead"}, user' = [user EXCEPT ![u].st = st]
          PROVE  /\ user' \in [Users -> UserStates]
                 /\ \A v \in Users : user'[v] = Resting \/ (user'[v].st # "idle" /\ user'[v].stmt \in Uses)
      <3> DEFINE r == [user[u] EXCEPT !.st = st]
      <3>1. r \in UserStates /\ r.st # "idle" /\ r.stmt \in Uses
        BY <2>1 DEF UserStates
      <3>2. user' = [user EXCEPT ![u] = r]
        BY <2>3
      <3> HIDE DEF r
      <3> QED BY <1>1, <3>1, <3>2
    <2>4. /\ user' \in [Users -> UserStates]
          /\ \A v \in Users : user'[v] = Resting \/ (user'[v].st # "idle" /\ user'[v].stmt \in Uses)
      <3> DEFINE Goal == /\ user' \in [Users -> UserStates]
                         /\ \A v \in Users : user'[v] = Resting \/ (user'[v].st # "idle" /\ user'[v].stmt \in Uses)
      <3>1. Die(u) => Goal
        BY <2>3 DEF Die
      <3>2. user' = [user EXCEPT ![u].st = "put"] => Goal
        BY <2>3
      <3>3. Answer(u) => Goal
        BY <2>2
      <3> HIDE DEF Goal
      <3>4. Goal
        BY <1>4, <3>1, <3>2, <3>3 DEF BuildRecord, PutRecord, ReadTable, WatchColumns
      <3> QED BY <3>4 DEF Goal
    <2>5. UNCHANGED <<used, spoiled, panicked>> /\ watched' \in BOOLEAN
      BY <1>4 DEF BuildRecord, PutRecord, ReadTable, WatchColumns
    <2> QED BY <2>4, <2>5
  <1>5. CASE BeginRead(u)
    <2> DEFINE r == [user[u] EXCEPT !.st = "read", !.snap = disk.tables]
    <2>1. user[u].st # "idle" /\ user[u].stmt \in Uses /\ UNCHANGED <<used, watched, spoiled, panicked>>
      BY <1>5 DEF BeginRead, Resting
    <2>2. r \in UserStates /\ r.st # "idle" /\ r.stmt \in Uses
      BY <2>1 DEF UserStates
    <2>3. user' = [user EXCEPT ![u] = r]
      BY <1>5 DEF BeginRead
    <2> HIDE DEF r
    <2> QED BY <1>1, <2>1, <2>2, <2>3
  <1> QED BY <1>3, <1>4, <1>5 DEF UserStep

LEMMA NextUsersTyped == Inv /\ UsersTyped /\ [UseNext]_allVars => UsersTyped'
  <1> SUFFICES ASSUME Inv, UsersTyped, [UseNext]_allVars  PROVE UsersTyped'
    OBVIOUS
  <1>1. ASSUME UNCHANGED <<user, used, watched, spoiled>>, panicked' \in BOOLEAN  PROVE UsersTyped'
    BY <1>1 DEF UsersTyped
  <1>2. ASSUME Down, panicked' \in BOOLEAN  PROVE UsersTyped'
    <2>1. Resting \in UserStates
      BY DEF Resting, UserStates
    <2> QED BY <1>2, <2>1 DEF Down, UsersTyped
  <1>3. ASSUME NEW c \in Conns, CreateStep(c)  PROVE UsersTyped'
    <2>1. UNCHANGED <<user, used, watched, panicked>>
      BY <1>3 DEF CreateStep, PushColumns, CreateOver, FailCreate, useVars
    <2>2. spoiled' \in {spoiled, spoiled \cup {stmt[c].table}}
      BY <1>3 DEF CreateStep, PushColumns, CreateOver, FailCreate, useVars
    <2>3. spoiled' # spoiled => stmt[c].table \in Names
      <3>1. spoiled' # spoiled => pc[c] # "idle"
        BY <1>3 DEF CreateStep, PushColumns, CreateOver, FailCreate, BeginCreate, FailCommit, useVars
      <3> QED BY <3>1, StatementParts DEF Inv, Working
    <2> QED BY <2>1, <2>2, <2>3 DEF UsersTyped
  <1>4. ASSUME NEW id \in requeries, RequeryColumn(id)  PROVE UsersTyped'
    BY <1>1, <1>2, <1>4 DEF RequeryColumn, UsersTyped
  <1>5. CASE Start /\ UNCHANGED useVars
    BY <1>1, <1>5 DEF useVars, UsersTyped
  <1>6. CASE Down /\ UNCHANGED panicked
    BY <1>2, <1>6 DEF UsersTyped
  <1>7. CASE UNCHANGED allVars
    BY <1>1, <1>7 DEF allVars, useVars, UsersTyped
  <1>8. disk.tables \in SUBSET Names
    BY DEF Inv, Typed, Catalogs
  <1> QED BY <1>3, <1>4, <1>5, <1>6, <1>7, <1>8, UserStepTyped DEF UseNext

\* The table in the making is known, and only a transaction makes one.
LEMMA InTheMakingIs ==
    ASSUME Knows, NEW t \in Names, InTheMaking(t)
    PROVE  Known(t) /\ tx.owner # NoConn
  BY SlotsMakeKnown DEF InTheMaking, Knows

\* A table that loading gives columns is in the file.
LEMMA LoadedInFile ==
    ASSUME Inv, Knows, NEW t, LoadedColumns(disk, t) # Unknown
    PROVE  t \in disk.tables
  <1> DEFINE loaded == LoadedColumns(disk, t)
  <1>1. loaded \in Seq(Nat)
    BY LoadedSlots
  <1> HIDE DEF loaded
  <1>2. \A s \in Seq(Nat) : s # << >> => 1 \in DOMAIN s
    OBVIOUS
  <1>3. 1 \in DOMAIN loaded
    BY <1>1, <1>2 DEF loaded, Unknown
  <1>4. PICK q \in disk.columns : q.table = t
    BY <1>3, LoadedSlots DEF loaded
  <1> QED BY <1>4 DEF Inv, TablesWhole

\* What Catalog's steps do to what is known of a table.
LEMMA NextKnownInFile == UseInv /\ [UseNext]_allVars => KnownInFile'
  <1> SUFFICES ASSUME UseInv, [UseNext]_allVars  PROVE KnownInFile'
    OBVIOUS
  <1> USE DEF UseInv
  <1>1. CASE Start /\ UNCHANGED useVars
    <2> SUFFICES ASSUME NEW t \in Names, Known(t)'  PROVE up' /\ HasBucket(t)'
      BY DEF KnownInFile
    <2>1. LoadedColumns(disk, t) # Unknown
      BY <1>1, StartEffect DEF Known, Unknown
    <2> QED BY <1>1, <2>1, StartEffect, LoadedInFile DEF HasBucket
  <1>2. CASE Crash
    BY <1>2, CrashEffect DEF KnownInFile, Known, Unknown
  <1>3. ASSUME Quiet, spoiled' = spoiled  PROVE KnownInFile'
    <2>1. \A t : Known(t)' = Known(t) /\ InTheMaking(t)' = InTheMaking(t) /\ HasBucket(t)' = HasBucket(t)
      BY <1>3 DEF Quiet, Known, Unknown, InTheMaking, HasBucket
    <2> QED BY <1>3, <2>1 DEF KnownInFile, Quiet
  <1>4. ASSUME NEW c \in Conns, CreateOver(c)  PROVE KnownInFile'
    <2> SUFFICES ASSUME NEW t \in Names, Known(t)'
                 PROVE  up' /\ (t \in spoiled' \/ InTheMaking(t)' \/ HasBucket(t)')
      BY DEF KnownInFile
    <2>1. BeginCreate(c) /\ spoiled \subseteq spoiled'
      BY <1>4 DEF CreateOver
    <2>2. CASE t = stmt[c].table
      BY <2>1, <2>2, BeginEffect DEF InTheMaking
    <2>3. CASE t # stmt[c].table
      <3>1. Known(t) /\ ~InTheMaking(t)
        BY <2>1, <2>3, BeginEffect DEF Known, Unknown, InTheMaking
      <3> QED BY <2>1, <3>1, BeginEffect DEF KnownInFile, HasBucket
    <2> QED BY <2>2, <2>3
  <1>5. ASSUME NEW c \in Conns, AddColumn(c), spoiled' = spoiled  PROVE KnownInFile'
    <2> SUFFICES ASSUME NEW t \in Names, Known(t)'
                 PROVE  up' /\ (t \in spoiled' \/ InTheMaking(t)' \/ HasBucket(t)')
      BY DEF KnownInFile
    <2>1. tx.owner = c /\ tx'.owner = c /\ c # NoConn /\ up /\ UNCHANGED <<disk, up, stmt>>
          /\ (t # stmt[c].table => tables'[t] = tables[t])
      BY <1>5, AddEffect, Zenon
    <2>2. CASE t = stmt[c].table
      BY <2>1, <2>2 DEF InTheMaking
    <2>3. CASE t # stmt[c].table
      <3>1. Known(t) /\ ~InTheMaking(t)
        BY <2>1, <2>3 DEF Known, Unknown, InTheMaking
      <3> QED BY <1>5, <2>1, <3>1 DEF KnownInFile, HasBucket
    <2> QED BY <2>2, <2>3
  <1>6. ASSUME NEW c \in Conns, CommitCreate(c), spoiled' = spoiled  PROVE KnownInFile'
    <2>1. disk'.tables = disk.tables \cup {stmt[c].table}
      BY <1>6, CommitCreates
    <2> QED BY <1>6, <2>1, EndEffect DEF KnownInFile, Known, Unknown, InTheMaking, HasBucket
  <1>7. ASSUME NEW c \in Conns, FailCreate(c)  PROVE KnownInFile'
    <2>1. FailCommit(c) /\ spoiled' = spoiled \cup {stmt[c].table} /\ disk' = disk
      BY <1>7 DEF FailCreate, FailCommit
    <2> QED BY <2>1, EndEffect DEF KnownInFile, Known, Unknown, InTheMaking, HasBucket
  <1>8. ASSUME UNCHANGED vars, spoiled' = spoiled  PROVE KnownInFile'
    BY <1>3, <1>8 DEF Quiet, vars, memory
  <1>9. ASSUME NEW c \in Conns, CreateStep(c)  PROVE KnownInFile'
    BY <1>3, <1>4, <1>5, <1>6, <1>7, <1>9, QuietSteps DEF CreateStep, PushColumns, useVars
  <1>10. ASSUME NEW u \in Users, UserStep(u)  PROVE KnownInFile'
    BY <1>8, <1>10, UserEffect
  <1>11. ASSUME NEW id \in requeries, RequeryColumn(id)  PROVE KnownInFile'
    BY <1>2, <1>8, <1>11 DEF RequeryColumn, Down
  <1>12. CASE UNCHANGED allVars
    BY <1>8, <1>12 DEF allVars, useVars
  <1> QED BY <1>1, <1>2, <1>9, <1>10, <1>11, <1>12 DEF UseNext, Down

\* Creating tables forgets no table, and gives other slots only to one that is
\* created over.
LEMMA CreatorsKeepTables ==
    ASSUME UseInv, NEW c \in Conns, CreateStep(c)
    PROVE  /\ UNCHANGED <<user, up>> /\ spoiled \subseteq spoiled'
           /\ \A t \in Names : Known(t) =>
                Known(t)' /\ (t \in spoiled' \/ Len(tables'[t]) = Len(tables[t]))
  <1> USE DEF UseInv
  <1>1. UNCHANGED user /\ spoiled \subseteq spoiled'
    BY DEF CreateStep, PushColumns, CreateOver, FailCreate, useVars
  <1>2. ASSUME Quiet \/ CommitCreate(c) \/ FailCreate(c)
        PROVE  UNCHANGED <<up, tables>>
    BY <1>2, EndEffect DEF Quiet, FailCreate
  <1>3. CASE CreateOver(c)
    <2> DEFINE t == stmt[c].table
    <2>1. BeginCreate(c) /\ (Known(t) => t \in spoiled')
      BY <1>3 DEF CreateOver
    <2>2. AllNil(stmt[c].cols) # Unknown
      <3>1. 1 \in DOMAIN AllNil(stmt[c].cols)
        BY <2>1, BeginEffect, AllNilIs
      <3> QED BY <3>1, NoColumns
    <2> QED BY <1>1, <2>1, <2>2, BeginEffect DEF Known, Unknown
  <1>4. CASE AddColumn(c)
    <2> DEFINE t == stmt[c].table
    <2>1. /\ t \in Names /\ nextId \in Nat /\ UNCHANGED <<up, stmt>>
          /\ tables'[t] = [tables[t] EXCEPT ![tx.done + 1] = nextId]
          /\ \A u \in Names \ {t} : tables'[u] = tables[u]
      BY <1>4, AddEffect, Zenon
    <2>2. tables[t] \in Seq(Nat)
      BY <2>1 DEF MemoryTyped
    <2>3. Len(tables'[t]) = Len(tables[t]) /\ DOMAIN tables'[t] = DOMAIN tables[t]
      BY <2>1, <2>2, SlotSet
    <2>4. Known(t) => Known(t)'
      <3>1. \A s \in Seq(Nat) : s # << >> => DOMAIN s # {}
        OBVIOUS
      <3>2. Known(t) => DOMAIN tables[t] # {}
        BY <2>2, <3>1 DEF Known, Unknown
      <3> QED BY <2>1, <2>3, <3>2, NoColumns DEF Known, Unknown
    <2> QED BY <1>1, <2>1, <2>3, <2>4 DEF Known, Unknown
  <1>5. Quiet \/ CommitCreate(c) \/ FailCreate(c) \/ CreateOver(c) \/ AddColumn(c)
    BY QuietSteps DEF CreateStep, PushColumns
  <1>6. ASSUME UNCHANGED tables, NEW t  PROVE Known(t)' = Known(t)
    BY <1>6 DEF Known, Unknown
  <1> QED BY <1>1, <1>2, <1>3, <1>4, <1>5, <1>6

\* What one user's state must be.
MeetsTable(u) ==
    LET s == user[u].stmt IN
    /\ user[u].st # "idle" => up
    /\ user[u].st \in {"insert", "put"} => s.do = "insert"
    /\ user[u].st \in {"select", "columns"} => s.do = user[u].st
    /\ user[u].st = "read" => s.do = "select"
    /\ user[u].st \in {"insert", "put", "select", "read"} => Known(s.table)
    /\ user[u].st = "insert" => s.table \in spoiled \/ s.width = Len(tables[s.table])

LEMMA NextUsersMeet == UseInv /\ [UseNext]_allVars => UsersMeetTables'
  <1> SUFFICES ASSUME UseInv, [UseNext]_allVars  PROVE UsersMeetTables'
    OBVIOUS
  <1> USE DEF UseInv
  <1>0. \A u \in Users : MeetsTable(u)
    BY DEF UsersMeetTables, MeetsTable
  <1> SUFFICES \A u \in Users : MeetsTable(u)'
    BY DEF UsersMeetTables, MeetsTable
  <1>1. ASSUME NEW u \in Users, user'[u].st \in {"idle", "dead"}, user'[u].st = "dead" => up'
        PROVE  MeetsTable(u)'
    BY <1>1 DEF MeetsTable
  <1>2. CASE Start /\ UNCHANGED useVars
    <2>1. \A u \in Users : user'[u].st = "idle"
      BY <1>0, <1>2, StartEffect DEF MeetsTable, useVars
    <2> QED BY <1>1, <2>1
  <1>3. CASE Down
    <2>1. \A u \in Users : user'[u].st = "idle"
      BY <1>3 DEF Down, Resting
    <2> QED BY <1>1, <2>1
  <1>4. ASSUME NEW c \in Conns, CreateStep(c), NEW u \in Users  PROVE MeetsTable(u)'
    <2>1. user[u].st # "idle" => user[u].stmt.table \in Names
      BY DEF UsersTyped, Resting, Uses
    <2> QED BY <1>0, <1>4, <2>1, CreatorsKeepTables DEF MeetsTable
  <1>5. ASSUME NEW u \in Users, UserStep(u), NEW v \in Users  PROVE MeetsTable(v)'
    <2>1. up /\ up' /\ UNCHANGED <<tables, spoiled>>
      BY <1>5, UserEffect DEF vars, memory
    <2>2. \A t : Known(t)' = Known(t)
      BY <2>1 DEF Known, Unknown
    <2>3. CASE v # u
      <3>1. user'[v] = user[v]
        BY <1>5, <2>3, UserEffect DEF UsersTyped
      <3> QED BY <1>0, <2>1, <2>2, <3>1 DEF MeetsTable
    <2>4. CASE v = u /\ (Answer(u) \/ Die(u))
      <3>1. user'[u].st \in {"idle", "dead"}
        BY <2>4 DEF Answer, Die, UsersTyped, UserStates, Resting
      <3> QED BY <1>1, <2>1, <2>4, <3>1
    <2>5. CASE v = u /\ BeginUse(u)
      <3>1. PICK s \in Uses :
               LET accepted == \/ s.do = "columns"
                               \/ Known(s.table) /\ (s.do = "insert" => s.width = Len(tables[s.table]))
               IN  user' = [user EXCEPT ![u] =
                      IF ~accepted THEN Resting
                      ELSE [st |-> IF s.do = "select" /\ HasNil(s.table) THEN "dead" ELSE s.do,
                             stmt |-> s, snap |-> {}]]
        BY <2>5 DEF BeginUse
      <3> DEFINE accepted == \/ s.do = "columns"
                             \/ Known(s.table) /\ (s.do = "insert" => s.width = Len(tables[s.table]))
                 st == IF s.do = "select" /\ HasNil(s.table) THEN "dead" ELSE s.do
      <3>2. user'[u] = IF ~accepted THEN Resting ELSE [st |-> st, stmt |-> s, snap |-> {}]
        BY <3>1 DEF UsersTyped
      <3>3. st = "dead" \/ st = s.do
        OBVIOUS
      <3> HIDE DEF st
      <3>4. s.do \in {"insert", "select", "columns"}
        BY DEF Uses
      <3> QED BY <2>1, <2>2, <2>5, <3>2, <3>3, <3>4 DEF MeetsTable, Resting
    <2>6. CASE v = u /\ BuildRecord(u) /\ ~Die(u)
      <3>1. user'[u].st = "put" /\ user'[u].stmt = user[u].stmt /\ user[u].st = "insert"
        BY <2>6 DEF BuildRecord, UsersTyped, UserStates
      <3> QED BY <1>0, <2>1, <2>2, <2>6, <3>1 DEF MeetsTable
    <2>7. CASE v = u /\ BeginRead(u)
      <3>1. user'[u].st = "read" /\ user'[u].stmt = user[u].stmt /\ user[u].st = "select"
        BY <2>7 DEF BeginRead, UsersTyped, UserStates
      <3> QED BY <1>0, <2>1, <2>2, <2>7, <3>1 DEF MeetsTable
    <2> QED BY <1>5, <2>3, <2>4, <2>5, <2>6, <2>7 DEF UserStep, PutRecord, ReadTable, WatchColumns
  <1>6. ASSUME NEW u \in Users, UNCHANGED <<user, vars, spoiled>>  PROVE MeetsTable(u)'
    BY <1>0, <1>6 DEF MeetsTable, Known, Unknown, vars, memory
  <1>7. ASSUME NEW id \in requeries, RequeryColumn(id), NEW u \in Users  PROVE MeetsTable(u)'
    BY <1>3, <1>6, <1>7 DEF RequeryColumn
  <1> QED BY <1>2, <1>3, <1>4, <1>5, <1>6, <1>7 DEF UseNext, allVars, useVars

\* Columns that are told of have ids below the next one.
LEMMA NextRequeriesBelow == UseInv /\ [UseNext]_allVars => RequeriesBelow'
  <1> SUFFICES ASSUME UseInv, [UseNext]_allVars  PROVE RequeriesBelow'
    OBVIOUS
  <1> USE DEF UseInv
  <1>1. ASSUME requeries' \subseteq requeries, up' = up, nextId' \in {nextId, nextId + 1}
        PROVE  RequeriesBelow'
    BY <1>1 DEF RequeriesBelow, Inv, Typed
  <1>2. CASE Start /\ UNCHANGED useVars
    BY <1>2 DEF Start, useVars, RequeriesBelow
  <1>3. CASE Down
    BY <1>3 DEF Down, RequeriesBelow
  <1>4. ASSUME NEW c \in Conns, PushColumns(c)  PROVE RequeriesBelow'
    <2>1. UNCHANGED <<up, nextId>> /\ pc[c] = "columns"
      BY <1>4 DEF PushColumns, PushEvents, memory
    <2>2. up /\ \A q \in tx.cat.columns : q.id < nextId
      BY <2>1, InvKeepsIdsFresh DEF Inv, Working, ColumnIdsFresh
    <2>3. \A q \in tx.cat.columns : q.id \in Nat
      BY DEF Inv, Typed, Txs, Catalogs, Columns
    <2>4. \A id \in requeries' : id \in requeries \/ \E q \in tx.cat.columns : id = q.id
      BY <1>4 DEF PushColumns
    <2> QED BY <2>1, <2>2, <2>3, <2>4 DEF RequeriesBelow
  <1>5. ASSUME NEW c \in Conns, CreateStep(c), ~PushColumns(c)  PROVE RequeriesBelow'
    BY <1>1, <1>5 DEF CreateStep, CreateOver, FailCreate, useVars, ValidateCreate, BeginCreate,
       AddColumn, CommitCreate, FailCommit, Reply, memory
  <1>6. ASSUME NEW u \in Users, UserStep(u)  PROVE RequeriesBelow'
    BY <1>1, <1>6, UserEffect DEF vars, memory
  <1>7. ASSUME NEW id \in requeries, RequeryColumn(id)  PROVE RequeriesBelow'
    BY <1>1, <1>3, <1>7 DEF RequeryColumn, vars, memory
  <1>8. CASE UNCHANGED allVars
    BY <1>1, <1>8 DEF allVars, vars, memory, useVars
  <1> QED BY <1>2, <1>3, <1>4, <1>5, <1>6, <1>7, <1>8 DEF UseNext

\* Every step keeps the invariant.
LEMMA UseNextInv == UseInv /\ [UseNext]_allVars => UseInv'
  <1> SUFFICES ASSUME UseInv, [UseNext]_allVars  PROVE UseInv'
    OBVIOUS
  <1>1. [Next]_vars
    BY UseSteps
  <1>2. Inv' /\ Knows' /\ MemoryTyped' /\ SlotsFilled'
    BY <1>1, NextInv, NextKnows, NextMemoryTyped, NextSlotsFilled DEF UseInv
  <1>3. UsersTyped'
    BY NextUsersTyped DEF UseInv
  <1> QED BY <1>2, <1>3, NextKnownInFile, NextUsersMeet, NextRequeriesBelow DEF UseInv

\* The variables always hold what the program's data structures can hold.
THEOREM UseTypes == UseSpec => []UseTypeOK
  <1>1. UseInv => UseTypeOK
    <2> SUFFICES ASSUME UseInv  PROVE UseTypeOK
      OBVIOUS
    <2>1. TypeOK
      BY DEF UseInv, Inv, Typed, MemoryTyped, TypeOK, Txs, Pcs
    <2>2. \A u \in Users :
             \/ user[u] = Resting
             \/ user[u] \in [st : {"insert", "put", "select", "read", "columns", "dead"},
                             stmt : Uses, snap : SUBSET Names]
      BY DEF UseInv, UsersTyped, UserStates
    <2> QED BY <2>1, <2>2 DEF UseInv, UsersTyped, RequeriesBelow, UseTypeOK
  <1> QED BY <1>1, UseInitInv, UseNextInv, PTL DEF UseSpec

\* A handler dies only of a table that is being created, whose creation was
\* disturbed, or that its snapshot is older than; and a snapshot lacks a table that
\* memory knows only while it is being created or if its creation failed: the table
\* of every other acknowledged creation has all its columns in memory and a bucket
\* in the file, at every moment between two steps.
THEOREM OnlySpoiledKill == UseSpec => OnlySpoiledTablesKill
  <1>1. UseInv /\ [UseNext]_allVars => \A u \in Users : Dies(u) => Excused(u)
    <2> SUFFICES ASSUME UseInv, [UseNext]_allVars, NEW u \in Users, Dies(u)  PROVE Excused(u)
      OBVIOUS
    <2> USE DEF UseInv, Dies, Excused
    <2>1. UserStep(u)
      <3>1. ~Down /\ ~UNCHANGED user
        BY DEF Down, Resting
      <3>2. PICK v \in Users : UserStep(v)
        BY <3>1 DEF UseNext, allVars, useVars, CreateStep, PushColumns, CreateOver, FailCreate,
           RequeryColumn
      <3>3. v = u
        BY <3>2, UserEffect DEF UsersTyped
      <3> QED BY <3>2, <3>3
    <2>2. user[u].st # "idle" => user[u].stmt \in Uses /\ user[u].stmt.table \in Names
      BY DEF UsersTyped, Resting, Uses
    <2>3. \A t \in Names : HasNil(t) => InTheMaking(t)
      BY DEF SlotsFilled
    <2>4. CASE BeginUse(u)
      <3>1. PICK s \in Uses :
               LET accepted == \/ s.do = "columns"
                               \/ Known(s.table) /\ (s.do = "insert" => s.width = Len(tables[s.table]))
               IN  user' = [user EXCEPT ![u] =
                      IF ~accepted THEN Resting
                      ELSE [st |-> IF s.do = "select" /\ HasNil(s.table) THEN "dead" ELSE s.do,
                             stmt |-> s, snap |-> {}]]
        BY <2>4 DEF BeginUse
      <3>2. user'[u].stmt = s /\ HasNil(s.table) /\ s.table \in Names
        BY <3>1 DEF Resting, UsersTyped, Uses
      <3> QED BY <2>3, <3>2
    <2>5. CASE (BuildRecord(u) \/ PutRecord(u) \/ ReadTable(u) \/ WatchColumns(u)) /\ Die(u)
      <3> DEFINE s == user[u].stmt
      <3>1. user'[u].stmt = s /\ user[u].st # "idle" /\ s.table \in Names
        BY <2>2, <2>5 DEF Die, UsersTyped, UserStates, BuildRecord, PutRecord, ReadTable, WatchColumns
      <3>2. CASE WatchColumns(u)
        BY <2>3, <2>5, <3>1, <3>2
           DEF WatchColumns, UsersMeetTables, Die, Answer, UsersTyped, Resting
      <3>3. CASE BuildRecord(u)
        <4>1. s.do = "insert" /\ Known(s.table) /\ (s.table \in spoiled \/ s.width = Len(tables[s.table]))
          BY <3>3 DEF BuildRecord, UsersMeetTables
        <4>2. HasNil(s.table) \/ s.width > Len(tables[s.table])
          BY <2>5, <3>3 DEF BuildRecord, Die, UsersTyped, UserStates
        <4> QED BY <2>3, <3>1, <4>1, <4>2
      <3>4. CASE PutRecord(u)
        <4>1. s.do # "columns" /\ Known(s.table)
          BY <3>4 DEF PutRecord, UsersMeetTables
        <4>2. ~HasBucket(s.table)
          BY <2>5, <3>4 DEF PutRecord, Die, Answer, UsersTyped, Resting
        <4> QED BY <3>1, <4>1, <4>2 DEF KnownInFile
      <3>5. CASE ReadTable(u)
        <4>1. user[u].st = "read"
          BY <3>5 DEF ReadTable
        <4>2. HasNil(s.table) \/ s.table \notin user[u].snap
          BY <2>5, <3>5 DEF ReadTable, Die, Answer, UsersTyped, Resting
        <4> QED BY <2>3, <3>1, <4>1, <4>2
      <3> QED BY <2>5, <3>2, <3>3, <3>4, <3>5
    <2>6. ~BeginRead(u) /\ (BeginUse(u) \/ Die(u))
      <3>1. ~Answer(u)
        BY DEF Answer, Resting, UsersTyped
      <3>2. user' # [user EXCEPT ![u].st = "put"] /\ ~BeginRead(u)
        BY DEF BeginRead, UsersTyped, UserStates
      <3> HIDE DEF UseInv
      <3> QED BY <2>1, <3>1, <3>2 DEF UserStep, BuildRecord, PutRecord, ReadTable, WatchColumns
    <2> QED BY <2>1, <2>4, <2>5, <2>6 DEF UserStep
  <1>2. UseInv /\ [UseNext]_allVars => \A u \in Users : BeginsReading(u) => Sees(u)
    <2> SUFFICES ASSUME UseInv, [UseNext]_allVars, NEW u \in Users, BeginsReading(u)  PROVE Sees(u)
      OBVIOUS
    <2> USE DEF UseInv, BeginsReading, Sees
    <2>1. PICK v \in Users : UserStep(v)
      <3>1. ~Down /\ ~UNCHANGED user
        BY DEF Down, Resting
      <3> QED BY <3>1 DEF UseNext, allVars, useVars, CreateStep, PushColumns, CreateOver, FailCreate,
           RequeryColumn
    <2>2. v = u
      BY <2>1, UserEffect DEF UsersTyped
    <2>3. ~BeginUse(u)
      <3>1. ASSUME NEW s \in Uses, NEW st \in {"dead", s.do},
                   user' = [user EXCEPT ![u] = [st |-> st, stmt |-> s, snap |-> {}]]
            PROVE  FALSE
        BY <3>1 DEF UsersTyped, Uses
      <3>2. user' # [user EXCEPT ![u] = Resting]
        BY DEF UsersTyped, Resting
      <3> QED BY <3>1, <3>2 DEF BeginUse
    <2>4. ~Answer(u) /\ ~Die(u) /\ user' # [user EXCEPT ![u].st = "put"]
      BY DEF Answer, Die, Resting, UsersTyped, UserStates
    <2>5. BeginRead(u)
      <3> HIDE DEF UseInv
      <3> QED BY <2>1, <2>2, <2>3, <2>4 DEF UserStep, BuildRecord, PutRecord, ReadTable, WatchColumns
    <2>6. user'[u].stmt = user[u].stmt /\ user'[u].snap = disk.tables
      BY <2>5 DEF BeginRead, UsersTyped, UserStates
    <2>7. user[u].st = "select" /\ user[u].stmt \in Uses /\ Known(user[u].stmt.table)
      BY <2>5 DEF BeginRead, UsersMeetTables, UsersTyped, Resting
    <2>8. user[u].stmt.table \in Names
      BY <2>7 DEF Uses
    <2> QED BY <2>6, <2>7, <2>8 DEF KnownInFile, HasBucket
  <1>3. UseInv /\ [UseNext]_allVars =>
          \A u \in Users : (Dies(u) => Excused(u)) /\ (BeginsReading(u) => Sees(u))
    BY <1>1, <1>2
  <1> QED BY <1>3, UseInitInv, UseNextInv, PTL DEF UseSpec, OnlySpoiledTablesKill

-----------------------------------------------------------------------------
(* Until a creation is disturbed, the next id counts the columns.          *)

\* Columns in memory that the open transaction has given no id yet.
Left == IF tx.owner = NoConn THEN 0 ELSE stmt[tx.owner].cols - tx.done

\* While no creation has failed or gone over another, a table is created once, no
\* two of its columns have one position, and the next column id, in the file and
\* in memory, is as many above the first one as there are columns.
IdsCountColumns ==
    spoiled = {} =>
      /\ \A p, q \in disk.columns : p.table = q.table /\ p.pos = q.pos => p = q
      /\ disk.next # 0 => disk.next = FirstId + Cardinality(disk.columns)
      /\ tx.owner # NoConn => stmt[tx.owner].table \notin disk.tables
      /\ up => /\ nextId = disk.next + tx.done
               /\ IsFiniteSet(Slots) /\ nextId + Left = FirstId + Cardinality(Slots)

\* What a set counts, its image under an injection counts as well.
LEMMA ImageCounts ==
    ASSUME NEW S, NEW T, NEW f \in [S -> T], IsFiniteSet(S),
           \A x, y \in S : f[x] = f[y] => x = y,
           \A y \in T : \E x \in S : f[x] = y
    PROVE  IsFiniteSet(T) /\ Cardinality(T) = Cardinality(S)
  <1>1. f \in Surjection(S, T)
    BY DEF Surjection
  <1>2. f \in Injection(S, T)
    BY DEF Injection, IsInjective
  <1> QED BY <1>1, <1>2, FS_Surjection

\* A table whose columns have different positions is loaded with a slot for each.
LEMMA LoadedPositions ==
    ASSUME Inv, Knows, NEW t,
           \A p, q \in disk.columns : p.table = q.table /\ p.pos = q.pos => p = q
    PROVE  DOMAIN LoadedColumns(disk, t) = Positions(t)
  <1> DEFINE C == {p \in disk.columns : p.table = t}
             ids == {q.id : q \in C}
             poss == {q.pos : q \in C}
  <1>1. IsFiniteSet(C)
    BY FS_Subset DEF Knows
  <1>2. /\ \A p, q \in C : p.id = q.id => p = q
        /\ \A p, q \in C : p.pos = q.pos => p = q
    BY DEF Inv, FileFresh
  <1>3. /\ \E n \in Nat : poss = 1..n
        /\ poss = Positions(t)
    <2>1. CASE t \in disk.tables
      BY <2>1, ColumnsAssumption DEF Inv, TablesWhole, Positions
    <2>2. CASE t \notin disk.tables
      <3>1. poss = {}
        BY <2>2 DEF Inv, TablesWhole
      <3>2. poss = 1..0
        BY <3>1
      <3> QED BY <3>2 DEF Positions
    <2> QED BY <2>1, <2>2
  <1> HIDE DEF C
  <1>4. IsFiniteSet(ids) /\ Cardinality(ids) = Cardinality(C)
    <2> DEFINE f == [q \in C |-> q.id]
    <2>1. f \in [C -> ids] /\ \A i \in ids : \E q \in C : f[q] = i
      OBVIOUS
    <2>2. \A p, q \in C : f[p] = f[q] => p = q
      BY <1>2
    <2> HIDE DEF f, ids
    <2> QED BY <1>1, <2>1, <2>2, ImageCounts
  <1>5. Cardinality(poss) = Cardinality(C)
    <2> DEFINE f == [q \in C |-> q.pos]
    <2>1. f \in [C -> poss] /\ \A i \in poss : \E q \in C : f[q] = i
      OBVIOUS
    <2>2. \A p, q \in C : f[p] = f[q] => p = q
      BY <1>2
    <2> HIDE DEF f, poss
    <2> QED BY <1>1, <2>1, <2>2, ImageCounts
  <1> HIDE DEF ids, poss
  <1>6. PICK n \in Nat : poss = 1..n
    BY <1>3
  <1>7. Cardinality(1..n) = n
    BY FS_Interval
  <1>8. Cardinality(ids) = n
    BY <1>4, <1>5, <1>6, <1>7
  <1>9. DOMAIN LoadedColumns(disk, t) = 1..Cardinality(ids)
    BY DEF LoadedColumns, ids, C
  <1> QED BY <1>3, <1>6, <1>8, <1>9

\* Then loading makes as many slots as the file has columns.
LEMMA LoadedSlotsCount ==
    ASSUME Inv, Knows,
           \A p, q \in disk.columns : p.table = q.table /\ p.pos = q.pos => p = q
    PROVE  LET S == {s \in Names \X (1..MaxColumns) : s[2] \in DOMAIN LoadedColumns(disk, s[1])}
           IN  IsFiniteSet(S) /\ Cardinality(S) = Cardinality(disk.columns)
  <1> DEFINE S == {s \in Names \X (1..MaxColumns) : s[2] \in DOMAIN LoadedColumns(disk, s[1])}
             f == [q \in disk.columns |-> <<q.table, q.pos>>]
  <1>1. IsFiniteSet(disk.columns) /\ \A q \in disk.columns : q.table \in Names /\ q.pos \in 1..MaxColumns
    BY DEF Knows, Inv, Typed, Catalogs, Columns
  <1>2. S = {s \in Names \X (1..MaxColumns) : s[2] \in Positions(s[1])}
    BY LoadedPositions
  <1>3. f \in [disk.columns -> S]
    BY <1>1, <1>2 DEF Positions
  <1>4. \A p, q \in disk.columns : f[p] = f[q] => p = q
    BY <1>1
  <1>5. ASSUME NEW s \in S  PROVE \E q \in disk.columns : f[q] = s
    <2>1. s = <<s[1], s[2]>> /\ s[2] \in Positions(s[1])
      BY <1>2
    <2>2. PICK q \in disk.columns : q.table = s[1] /\ q.pos = s[2]
      BY <2>1 DEF Positions
    <2>3. f[q] = s
      BY <2>1, <2>2
    <2> QED BY <2>3
  <1> HIDE DEF S, f
  <1>6. IsFiniteSet(S) /\ Cardinality(S) = Cardinality(disk.columns)
    BY <1>1, <1>3, <1>4, <1>5, ImageCounts
  <1> QED BY <1>6 DEF S

\* The columns of a new table have different positions, one each.
LEMMA NewColumnsCount ==
    ASSUME NEW first \in Nat, NEW t, NEW n \in Nat
    PROVE  LET new == Atomic!NewColumns(first, t, n)
           IN  /\ IsFiniteSet(new) /\ Cardinality(new) = n
               /\ \A q \in new : q.table = t
               /\ \A p, q \in new : p.pos = q.pos => p = q
  <1> DEFINE new == Atomic!NewColumns(first, t, n)
             f == [i \in 1..n |-> [id |-> first + i - 1, table |-> t, pos |-> i]]
  <1>1. new = {[id |-> first + i - 1, table |-> t, pos |-> i] : i \in 1..n}
    BY DEF Atomic!NewColumns, Atomic!Column
  <1>2. \A q \in new : \E i \in 1..n : f[i] = q
    BY <1>1
  <1>3. f \in [1..n -> new]
    BY <1>1
  <1>4. \A i \in 1..n : f[i].table = t /\ f[i].pos = i
    OBVIOUS
  <1>5. IsFiniteSet(1..n) /\ Cardinality(1..n) = n
    BY FS_Interval
  <1> HIDE DEF new, f
  <1>6. \A i, j \in 1..n : f[i] = f[j] => i = j
    <2> SUFFICES ASSUME NEW i \in 1..n, NEW j \in 1..n, f[i] = f[j]  PROVE i = j
      OBVIOUS
    <2>1. f[i].pos = i /\ f[j].pos = j
      BY <1>4
    <2> QED BY <2>1
  <1>7. IsFiniteSet(new) /\ Cardinality(new) = n
    BY <1>2, <1>3, <1>5, <1>6, ImageCounts
  <1>8. \A q \in new : q.table = t
    BY <1>2, <1>4
  <1>9. \A p, q \in new : p.pos = q.pos => p = q
    <2> SUFFICES ASSUME NEW p \in new, NEW q \in new, p.pos = q.pos  PROVE p = q
      OBVIOUS
    <2>1. PICK i \in 1..n : f[i] = p
      BY <1>2
    <2>2. PICK j \in 1..n : f[j] = q
      BY <1>2
    <2> QED BY <1>4, <2>1, <2>2
  <1> QED BY <1>7, <1>8, <1>9 DEF new

\* Creating a table adds its columns to the slots, once.
LEMMA BeginCounts ==
    ASSUME UseInv, IsFiniteSet(Slots), NEW c \in Conns, BeginCreate(c), ~Known(stmt[c].table)
    PROVE  IsFiniteSet(Slots') /\ Cardinality(Slots') = Cardinality(Slots) + stmt[c].cols
  <1> DEFINE t == stmt[c].table
             n == stmt[c].cols
             new == {t} \X (1..n)
  <1>1. /\ t \in Names /\ n \in Nat /\ n \in 1..MaxColumns
        /\ tables'[t] = AllNil(n) /\ \A u \in Names \ {t} : tables'[u] = tables[u]
    BY BeginEffect DEF UseInv
  <1>2. DOMAIN tables'[t] = 1..n /\ DOMAIN tables[t] = {}
    BY <1>1, AllNilIs, NoColumns DEF Known
  <1>3. Slots' = {s \in Names \X (1..MaxColumns) : s[2] \in DOMAIN tables'[s[1]]}
    BY DEF Slots
  <1>4. Slots = {s \in Names \X (1..MaxColumns) : s[2] \in DOMAIN tables[s[1]]}
    BY DEF Slots
  <1> HIDE DEF t, n
  <1>5. \A i \in 1..n : i \in 1..MaxColumns
    BY <1>1, ColumnsAssumption
  <1>6. Slots' = Slots \cup new
    BY <1>1, <1>2, <1>3, <1>4, <1>5
  <1>7. Slots \cap new = {}
    BY <1>2, <1>4
  <1>8. IsFiniteSet(new) /\ Cardinality(new) = n
    <2> DEFINE f == [i \in 1..n |-> <<t, i>>]
    <2>1. IsFiniteSet(1..n) /\ Cardinality(1..n) = n
      BY <1>1, FS_Interval
    <2>2. f \in [1..n -> new] /\ \A s \in new : \E i \in 1..n : f[i] = s
      OBVIOUS
    <2>3. \A i, j \in 1..n : f[i] = f[j] => i = j
      OBVIOUS
    <2> HIDE DEF f, new
    <2> QED BY <2>1, <2>2, <2>3, ImageCounts
  <1> HIDE DEF new
  <1>9. /\ IsFiniteSet(Slots \cup new)
        /\ Cardinality(Slots \cup new) = Cardinality(Slots) + Cardinality(new) - Cardinality({})
    BY <1>7, <1>8, FS_Union
  <1>10. Cardinality(Slots) \in Nat /\ Cardinality({}) = 0
    BY FS_CardinalityType, FS_EmptySet
  <1> QED BY <1>1, <1>6, <1>8, <1>9, <1>10 DEF n

LEMMA NextIdsCountColumns == UseInv /\ IdsCountColumns /\ [UseNext]_allVars => IdsCountColumns'
  <1> SUFFICES ASSUME UseInv, IdsCountColumns, [UseNext]_allVars, spoiled' = {}
               PROVE  IdsCountColumns'
    BY DEF IdsCountColumns
  <1>0. spoiled = {}
    BY UserEffect
       DEF UseNext, useVars, allVars, Down, RequeryColumn, CreateStep, PushColumns, CreateOver, FailCreate
  <1>1. /\ \A p, q \in disk.columns : p.table = q.table /\ p.pos = q.pos => p = q
        /\ disk.next # 0 => disk.next = FirstId + Cardinality(disk.columns)
        /\ tx.owner # NoConn => stmt[tx.owner].table \notin disk.tables
        /\ up => /\ nextId = disk.next + tx.done
                 /\ IsFiniteSet(Slots) /\ nextId + Left = FirstId + Cardinality(Slots)
    BY <1>0 DEF IdsCountColumns
  <1>2. NoTx.owner = NoConn /\ NoTx.done = 0
    BY DEF NoTx
  <1>3. disk.next \in Nat /\ nextId \in Nat /\ FirstId \in Nat /\ FirstId # 0
    BY IdAssumption DEF UseInv, Inv, Typed, Catalogs, NoColumn
  <1>4. Cardinality(disk.columns) \in Nat
    BY FS_CardinalityType DEF UseInv, Knows
  <1>5. CASE Start /\ UNCHANGED useVars
    <2>1. disk'.next = FirstId + Cardinality(disk.columns)
      <3>1. disk.next = 0 => Cardinality(disk.columns) = 0
        BY FS_EmptySet DEF UseInv, Inv, FileFresh
      <3> QED BY <1>1, <1>3, <1>5, <3>1, StartEffect DEF EnsuredNextId, UseInv
    <2>2. nextId' = disk'.next + tx'.done /\ Left' = 0
      BY <1>2, <1>3, <1>5, <2>1, <1>4, StartEffect DEF UseInv, Left
    <2>3. Slots' = {s \in Names \X (1..MaxColumns) : s[2] \in DOMAIN LoadedColumns(disk, s[1])}
      <3>1. Slots' = {s \in Names \X (1..MaxColumns) : s[2] \in DOMAIN tables'[s[1]]}
        BY DEF Slots
      <3>2. \A t \in Names : tables'[t] = LoadedColumns(disk, t)
        BY <1>5, StartEffect DEF UseInv
      <3> QED BY <3>1, <3>2
    <2>4. IsFiniteSet(Slots') /\ Cardinality(Slots') = Cardinality(disk.columns)
      BY <1>1, <2>3, LoadedSlotsCount DEF UseInv
    <2>5. nextId' + Left' = FirstId + Cardinality(Slots')
      BY <1>2, <1>3, <1>4, <1>5, <2>1, <2>2, <2>4, StartEffect DEF UseInv
    <2>6. disk'.columns = disk.columns /\ tx'.owner = NoConn
      BY <1>5, StartEffect DEF UseInv
    <2> QED BY <1>1, <2>1, <2>2, <2>4, <2>5, <2>6 DEF IdsCountColumns
  <1>6. CASE Crash
    BY <1>1, <1>6, CrashEffect DEF IdsCountColumns
  <1>7. ASSUME Quiet  PROVE IdsCountColumns'
    <2>1. Slots' = Slots /\ Left' = Left /\ UNCHANGED <<disk, up, nextId>>
          /\ tx'.done = tx.done /\ tx'.owner = tx.owner
          /\ (tx.owner # NoConn => stmt'[tx'.owner] = stmt[tx.owner])
      BY <1>7 DEF Quiet, Slots, Left
    <2> QED BY <1>1, <2>1 DEF IdsCountColumns
  <1>8. ASSUME NEW c \in Conns, CreateOver(c)  PROVE IdsCountColumns'
    <2> DEFINE t == stmt[c].table
    <2>1. BeginCreate(c) /\ ~Known(t)
      BY <1>8 DEF CreateOver
    <2>2. /\ tx.owner = NoConn /\ tx'.owner = c /\ tx'.done = 0 /\ c # NoConn /\ up
          /\ stmt[c].cols \in Nat /\ UNCHANGED <<disk, up, nextId, stmt>>
      BY <2>1, BeginEffect DEF UseInv
    <2>3. t \notin disk.tables
      BY <2>1, <2>2, SlotsMakeKnown DEF UseInv, Knows
    <2>4. tx.done = 0
      BY <1>2, <2>2 DEF UseInv, Inv, TxIsFileAndNew
    <2>5. IsFiniteSet(Slots') /\ Cardinality(Slots') = Cardinality(Slots) + stmt[c].cols
      BY <1>1, <2>1, <2>2, BeginCounts
    <2>6. Left = 0 /\ Left' = stmt[c].cols - 0
      BY <2>2 DEF Left
    <2>7. Cardinality(Slots) \in Nat
      BY <1>1, <2>2, FS_CardinalityType
    <2>8. nextId' + Left' = FirstId + Cardinality(Slots')
      BY <1>1, <1>3, <2>2, <2>5, <2>6, <2>7
    <2> QED BY <1>1, <2>2, <2>3, <2>4, <2>5, <2>8 DEF IdsCountColumns
  <1>9. ASSUME NEW c \in Conns, AddColumn(c)  PROVE IdsCountColumns'
    <2> DEFINE t == stmt[c].table
    <2>1. /\ tx.owner = c /\ tx'.owner = c /\ c # NoConn /\ up /\ t \in Names
          /\ tx.done \in Nat /\ stmt[c].cols \in Nat /\ tx'.done = tx.done + 1
          /\ tables'[t] = [tables[t] EXCEPT ![tx.done + 1] = nextId]
          /\ \A u \in Names \ {t} : tables'[u] = tables[u]
          /\ nextId' = nextId + 1 /\ UNCHANGED <<disk, up, stmt>>
      BY <1>9, AddEffect, Zenon DEF UseInv
    <2>2. Slots' = Slots
      <3>1. tables[t] \in Seq(Nat)
        BY <2>1 DEF UseInv, MemoryTyped
      <3>2. DOMAIN tables'[t] = DOMAIN tables[t]
        BY <1>3, <2>1, <3>1, SlotSet
      <3>3. Slots' = {s \in Names \X (1..MaxColumns) : s[2] \in DOMAIN tables'[s[1]]}
        BY DEF Slots
      <3> HIDE DEF t
      <3>4. \A u \in Names : DOMAIN tables'[u] = DOMAIN tables[u]
        BY <2>1, <3>2
      <3> QED BY <3>3, <3>4 DEF Slots
    <2>3. nextId' = disk'.next + tx'.done
      BY <1>1, <1>3, <2>1
    <2>4. nextId' + Left' = nextId + Left
      <3>1. Left = stmt[c].cols - tx.done /\ Left' = stmt[c].cols - (tx.done + 1)
        BY <2>1 DEF Left
      <3> QED BY <1>3, <2>1, <3>1
    <2> QED BY <1>1, <2>1, <2>2, <2>3, <2>4 DEF IdsCountColumns
  <1>10. ASSUME NEW c \in Conns, CommitCreate(c)  PROVE IdsCountColumns'
    <2> DEFINE t == stmt[c].table
               n == stmt[c].cols
               first == nextId - n
               new == Atomic!NewColumns(first, t, n)
    <2>1. /\ tx.owner = c /\ c # NoConn /\ up /\ tx.done = n /\ n \in Nat
          /\ tx'.owner = NoConn /\ tx'.done = 0 /\ UNCHANGED <<tables, up, nextId>>
      BY <1>10, EndEffect DEF UseInv
    <2>2. first \in Nat /\ disk'.columns = disk.columns \cup new /\ disk'.next = nextId /\ 0 < disk.next
      BY <1>10, CommitCreates DEF UseInv
    <2> HIDE DEF t, n, first, new
    <2>3. /\ IsFiniteSet(new) /\ Cardinality(new) = n /\ \A q \in new : q.table = t
          /\ \A p, q \in new : p.pos = q.pos => p = q
      BY <2>1, <2>2, NewColumnsCount DEF new
    <2>4. \A q \in disk.columns : q.table # t
      BY <1>1, <2>1 DEF UseInv, Inv, TablesWhole, t
    <2>5. \A p, q \in disk'.columns : p.table = q.table /\ p.pos = q.pos => p = q
      BY <1>1, <2>2, <2>3, <2>4
    <2>6. Cardinality(disk'.columns) = Cardinality(disk.columns) + n
      <3>1. disk.columns \cap new = {}
        BY <2>3, <2>4
      <3>2. IsFiniteSet(disk.columns)
        BY DEF UseInv, Knows
      <3>3. Cardinality(disk'.columns) = Cardinality(disk.columns) + Cardinality(new) - Cardinality({})
        BY <2>2, <2>3, <3>1, <3>2, FS_Union
      <3> QED BY <1>4, <2>1, <2>3, <3>3, FS_EmptySet
    <2>7. disk'.next = FirstId + Cardinality(disk'.columns)
      BY <1>1, <1>3, <1>4, <2>1, <2>2, <2>6
    <2>8. Left = 0 /\ Left' = 0 /\ Slots' = Slots
      BY <2>1 DEF Left, Slots, n
    <2>9. nextId' = disk'.next + tx'.done
      BY <1>3, <2>1, <2>2
    <2> QED BY <1>1, <2>1, <2>5, <2>7, <2>8, <2>9 DEF IdsCountColumns
  <1>11. ASSUME NEW c \in Conns, FailCreate(c)  PROVE FALSE
    BY <1>11 DEF FailCreate
  <1>12. ASSUME UNCHANGED vars  PROVE IdsCountColumns'
    BY <1>7, <1>12 DEF Quiet, vars, memory
  <1>13. ASSUME NEW c \in Conns, CreateStep(c)  PROVE IdsCountColumns'
    BY <1>7, <1>8, <1>9, <1>10, <1>11, <1>13, QuietSteps DEF CreateStep, PushColumns, UseInv
  <1>14. ASSUME NEW u \in Users, UserStep(u)  PROVE IdsCountColumns'
    BY <1>12, <1>14, UserEffect
  <1>15. ASSUME NEW id \in requeries, RequeryColumn(id)  PROVE IdsCountColumns'
    BY <1>6, <1>12, <1>15 DEF RequeryColumn, Down
  <1>16. CASE UNCHANGED allVars
    BY <1>12, <1>16 DEF allVars
  <1> QED BY <1>5, <1>6, <1>13, <1>14, <1>15, <1>16 DEF UseNext, Down

\* The process dies of a requery of __columns__ only while a table is being
\* created or once a creation was disturbed: until then the ids of the columns
\* are the indices of SchemaColumnsIterator's list, after any number of restarts.
THEOREM OnlySpoiledPanic == UseSpec => OnlySpoiledIdsPanic
  <1>1. UseInit => UseInv /\ IdsCountColumns
    <2>1. UseInit => IdsCountColumns
      BY DEF UseInit, Init, IdsCountColumns, NoTx
    <2> QED BY <2>1, UseInitInv
  <1>2. UseInv /\ IdsCountColumns /\ [UseNext]_allVars
          => (panicked' # panicked => spoiled # {} \/ \E t \in Names : InTheMaking(t))
    <2> SUFFICES ASSUME UseInv, IdsCountColumns, [UseNext]_allVars,
                        panicked' # panicked, spoiled = {}, \A t \in Names : ~InTheMaking(t)
                 PROVE  FALSE
      OBVIOUS
    <2>1. PICK id \in requeries : RequeryColumn(id) /\ panicked' # panicked
      BY UserEffect DEF UseNext, allVars, useVars, CreateStep, PushColumns, CreateOver, FailCreate
    <2>2. up /\ ((\E t \in Names : HasNil(t)) \/ id >= ListedColumns)
      BY <2>1 DEF RequeryColumn
    <2>3. id >= ListedColumns
      BY <2>2 DEF UseInv, SlotsFilled
    <2>4. tx.owner = NoConn
      <3>1. tx.owner # NoConn => stmt[tx.owner] \in Statements
        BY ConnsAssumption DEF UseInv, Inv, Typed, Txs, TxIsFileAndNew, Working
      <3> QED BY <3>1, StatementParts DEF InTheMaking
    <2>5. IsFiniteSet(Slots) /\ nextId + 0 = FirstId + Cardinality(Slots)
      BY <2>2, <2>4 DEF IdsCountColumns, Left
    <2>6. id \in Nat /\ id < nextId /\ nextId \in Nat
      BY DEF UseInv, RequeriesBelow, Inv, Typed
    <2>7. Cardinality(Slots) \in Nat /\ FirstId \in Nat
      BY <2>5, FS_CardinalityType, IdAssumption
    <2> QED BY <2>3, <2>5, <2>6, <2>7 DEF ListedColumns
  <1> QED BY <1>1, <1>2, UseNextInv, NextIdsCountColumns, PTL DEF UseSpec, OnlySpoiledIdsPanic

=============================================================================
