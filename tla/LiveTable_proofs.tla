-------------------------- MODULE LiveTable_proofs --------------------------
(***************************************************************************)
(* Proofs about LiveTable, for every set of connections, keys, values and  *)
(* statements: its type invariant, that a requery finds its record, and,   *)
(* in the second part, that it implements Conversation: each connection's  *)
(* statements and messages are those of a Conversation.                    *)
(***************************************************************************)
EXTENDS LiveTable, FiniteSetTheorems, SequenceTheorems, WellFoundedInduction, TLAPS

-----------------------------------------------------------------------------
(* The inductive invariant.                                                *)

\* A handler that is busy runs the connection's last statement, of its kind.
HandlerOK ==
    \A c \in Conns :
        /\ Current(c) <= MaxStatements
        /\ pc[c] \notin {"idle", "gone"} => 1 <= Current(c)
        /\ pc[c] \in {"insert", "push"} => Statement(c).type = "insert"
        /\ pc[c] \in {"update", "rows"} => Statement(c).type = "update"

\* Only the owner of the write transaction changes rows, and it removes none.
WriteTxOK ==
    /\ \A c \in Conns : pc[c] = "rows" => wtx.owner = c
    /\ wtx.owner # NoConn =>
          /\ \A k \in Keys : db[k] # NoValue => wtx.rows[k] # NoValue
          /\ \A k \in wtx.todo : wtx.rows[k] # NoValue

\* The event of an insert is pushed, received and sent after its commit.
InsertCommitted ==
    /\ \A c \in Conns : pc[c] = "push" => db[Statement(c).id] # NoValue
    /\ (loop.st \in {"event", "send"} /\ loop.old = NoValue) =>
          loop.new.id \in Keys /\ db[loop.new.id] # NoValue

\* Inserts go to query listeners and updates to record listeners.
TargetsOK ==
    /\ loop.st = "send" => \A l \in loop.left : l.list.on = "rec" <=> loop.old # NoValue
    /\ IsFiniteSet(listeners)

\* A requery looks up a committed record, and has it once it has read.
RequeryOK ==
    \A e \in exs : ~IsTop(e) =>
        /\ \E k \in Keys : e.where = WhereId(k) /\ db[k] # NoValue
        /\ e.st # "start" => \E r \in e.todo \cup e.rows : r.id = e.where.is

Inv == TypeOK /\ HandlerOK /\ WriteTxOK /\ InsertCommitted /\ TargetsOK /\ RequeryOK

-----------------------------------------------------------------------------
(* The smallest element of a set of natural numbers, and what reading a    *)
(* table returns.                                                          *)

\* Keys, and the key of an empty record, are natural numbers.
LEMMA KeysAreNaturals == Keys \cup {NoId} \subseteq Nat
  BY KeysAssumption DEF NoId

Below == {ss \in Nat \X Nat : ss[1] < ss[2]}

\* The order that Least minimises is well founded.
LEMMA BelowIsWellFounded == IsWellFoundedOn(Below, Nat)
  BY NatLessThanWellFounded DEF OpToRel, Below

\* A non-empty set of natural numbers has a least element, and Least is it.
LEMMA LeastIsLeast ==
    ASSUME NEW S, S \subseteq Nat, S # {}
    PROVE  Least(S) \in S /\ \A j \in S : Least(S) <= j
  <1>1. PICK k \in S : \A j \in S : ~ (<<j, k>> \in Below)
    BY BelowIsWellFounded, WFMin
  <1>2. \A j \in S : k <= j
    <2> SUFFICES ASSUME NEW j \in S, j < k  PROVE FALSE
      OBVIOUS
    <2>1. <<j, k>> \in Nat \X Nat /\ <<j, k>>[1] = j /\ <<j, k>>[2] = k
      OBVIOUS
    <2>2. <<j, k>> \in Below
      BY <2>1, Zenon DEF Below
    <2> QED BY <1>1, <2>2
  <1> QED BY <1>2 DEF Least

\* First picks one of the records it is given.
LEMMA FirstIsOne ==
    ASSUME NEW rows \in SUBSET Records, rows # {}
    PROVE  First(rows) \in rows
  <1> DEFINE ids == {r.id : r \in rows}
  <1>1. \A r \in Records : r.id \in Nat
    BY KeysAreNaturals DEF Records
  <1>2. ids \subseteq Nat /\ ids # {}
    BY <1>1
  <1> HIDE DEF ids
  <1>3. Least(ids) \in ids /\ \A j \in ids : Least(ids) <= j
    BY <1>2, LeastIsLeast
  <1>4. PICK r \in rows : r.id = Least(ids)
    BY <1>3 DEF ids
  <1>5. \A q \in rows : r.id <= q.id
    BY <1>3, <1>4 DEF ids
  <1> QED BY <1>5 DEF First

\* A lookup returns a record of the table or the empty one; the record asked
\* for, if it is there.
LEMMA SeekFinds ==
    ASSUME NEW tab \in Tables, NEW k \in Keys
    PROVE  /\ Seek(tab, k) \in Records
           /\ tab[k] # NoValue => Seek(tab, k).id = k
  <1> DEFINE later == {j \in Present(tab) : k <= j}
  <1>1. later \subseteq Nat /\ later \subseteq Keys /\ \A j \in later : tab[j] \in Values /\ k <= j
    BY KeysAssumption DEF Present, Tables
  <1>2. Seek(tab, k) = IF later = {} THEN EmptyRecord ELSE Record(Least(later), tab[Least(later)])
    BY DEF Seek
  <1>3. tab[k] # NoValue => k \in later
    BY KeysAssumption DEF Present
  <1> HIDE DEF later
  <1>4. CASE later = {}
    BY <1>2, <1>3, <1>4 DEF Records, EmptyRecord, Record
  <1>5. CASE later # {}
    <2> DEFINE m == Least(later)
    <2>1. m \in later /\ \A j \in later : m <= j
      BY <1>1, <1>5, LeastIsLeast
    <2>2. Seek(tab, k) = Record(m, tab[m])
      BY <1>2, <1>5
    <2> HIDE DEF m
    <2>3. Seek(tab, k) \in Records /\ Seek(tab, k).id = m
      BY <1>1, <2>1, <2>2 DEF Records, Record
    <2>4. k \in later => m = k
      BY <1>1, <2>1
    <2> QED BY <1>3, <2>3, <2>4
  <1> QED BY <1>4, <1>5

\* What a query reads in a snapshot is a set of records.
LEMMA ReadRowsType ==
    ASSUME NEW tab \in Tables, NEW w \in Filters
    PROVE  ReadRows(tab, w) \subseteq Records
  <1>1. Stored(tab) \subseteq Records
    BY DEF Stored, Present, Record, Records, Tables
  <1>2. CASE w.on = "id"
    <2>1. w.is \in Keys
      BY <1>2 DEF Filters, AllRows, WhereId, WhereVal
    <2> QED BY <1>2, <2>1, SeekFinds DEF ReadRows
  <1>3. CASE w.on # "id"
    BY <1>1, <1>3 DEF ReadRows
  <1> QED BY <1>2, <1>3

\* A query for the key of a stored record reads that record.
LEMMA ReadRowsFinds ==
    ASSUME NEW tab \in Tables, NEW k \in Keys, tab[k] # NoValue
    PROVE  \E r \in ReadRows(tab, WhereId(k)) : r.id = k
  BY SeekFinds DEF ReadRows, WhereId

\* The state the server starts in satisfies the invariant.
LEMMA InitInv == Init => Inv
  <1> SUFFICES ASSUME Init PROVE Inv
    OBVIOUS
  <1>1. TypeOK
    <2>1. db \in Tables
      BY InitialAssumption DEF Init
    <2>2. wtx \in WriteTxs
      BY DEF Init, NoTx, WriteTxs, Tables
    <2>3. asked \in [Conns -> Seq(Statements)] /\ writer \in [Conns -> Seq(Messages)]
          /\ wire \in [Conns -> Seq(Messages)]
      BY DEF Init
    <2>4. loop \in Loops
      BY DEF Init, Waiting, Loops, Records, EmptyRecord, Record
    <2> QED BY <2>1, <2>2, <2>3, <2>4 DEF Init, TypeOK
  <1>2. HandlerOK
    BY BoundAssumption DEF Init, HandlerOK, Current
  <1>3. WriteTxOK
    BY DEF Init, WriteTxOK, NoTx
  <1>4. InsertCommitted
    BY DEF Init, InsertCommitted, Waiting
  <1>5. TargetsOK
    BY FS_EmptySet DEF Init, TargetsOK, Waiting
  <1>6. RequeryOK
    BY DEF Init, RequeryOK
  <1> QED BY <1>1, <1>2, <1>3, <1>4, <1>5, <1>6 DEF Inv

-----------------------------------------------------------------------------
(* Steps of the executions of SELECT.                                      *)

\* A requery begins: its record is committed, so its snapshot has it.
LEMMA BeginRequeryInv ==
    ASSUME Inv, NEW e \in exs, BeginRequery(e)
    PROVE  Inv'
  <1> USE DEF Inv
  <1> DEFINE f == [e EXCEPT !.st = "subscribe", !.todo = ReadRows(db, e.where)]
  <1>1. f \in Executions
    <2>1. ReadRows(db, e.where) \subseteq Records
      BY ReadRowsType DEF TypeOK, Executions
    <2> QED BY <2>1 DEF TypeOK, Executions
  <1>2. exs' = (exs \ {e}) \cup {f}
    BY DEF BeginRequery, Replace
  <1>3. TypeOK'
    BY <1>1, <1>2 DEF TypeOK, BeginRequery, clientVars
  <1>4. HandlerOK' /\ WriteTxOK' /\ InsertCommitted' /\ TargetsOK'
    BY DEF HandlerOK, WriteTxOK, InsertCommitted, TargetsOK, Current, Statement, BeginRequery
  <1>5. RequeryOK'
    <2>1. ASSUME ~IsTop(e)
          PROVE  /\ \E k \in Keys : f.where = WhereId(k) /\ db[k] # NoValue
                 /\ \E r \in f.todo \cup f.rows : r.id = f.where.is
      <3>1. PICK k \in Keys : e.where = WhereId(k) /\ db[k] # NoValue
        BY <2>1 DEF RequeryOK
      <3>2. f.where = e.where /\ f.todo = ReadRows(db, WhereId(k))
        BY <3>1 DEF TypeOK, Executions
      <3>3. PICK r \in f.todo : r.id = k
        BY <3>1, <3>2, ReadRowsFinds DEF TypeOK
      <3> QED BY <3>1, <3>2, <3>3 DEF WhereId
    <2>2. f.id = e.id
      BY DEF TypeOK, Executions
    <2>3. db' = db
      BY DEF BeginRequery
    <2> HIDE DEF f
    <2> QED BY <1>2, <2>1, <2>2, <2>3 DEF RequeryOK, IsTop
  <1> QED BY <1>3, <1>4, <1>5

\* A live query hands the loop its table subscription.
LEMMA SubscribeToTableInv ==
    ASSUME Inv, NEW e \in exs, SubscribeToTable(e)
    PROVE  Inv'
  <1> USE DEF Inv
  <1> DEFINE f == [e EXCEPT !.st = "read"]
             l == [list |-> e.where, ex |-> e.id]
  <1>1. f \in Executions /\ f.id = e.id /\ f.where = e.where /\ f.todo = e.todo /\ f.rows = e.rows
    BY DEF TypeOK, Executions
  <1>2. exs' = (exs \ {e}) \cup {f} /\ loop' = Subscription(l)
    BY DEF SubscribeToTable, Replace, HandToLoop
  <1>3. Subscription(l) \in Loops
    <2>1. l \in Listeners
      BY DEF TypeOK, Executions, Listeners, Lists
    <2> HIDE DEF l
    <2> QED BY <2>1 DEF Subscription, Waiting, Loops, EmptyRecord, Record, Records
  <1>4. TypeOK'
    BY <1>1, <1>2, <1>3 DEF TypeOK, SubscribeToTable, clientVars
  <1>5. HandlerOK' /\ WriteTxOK'
    BY DEF HandlerOK, WriteTxOK, Current, Statement, SubscribeToTable
  <1>6. InsertCommitted' /\ TargetsOK'
    <2>1. loop'.st = "subscribe" /\ loop'.left = {l}
      BY <1>2 DEF Subscription, Waiting
    <2> HIDE DEF l
    <2> QED BY <2>1 DEF InsertCommitted, TargetsOK, Statement, Current, SubscribeToTable
  <1>7. RequeryOK'
    <2>1. e.st # "start" /\ db' = db
      BY DEF SubscribeToTable
    <2> HIDE DEF f
    <2> QED BY <1>1, <1>2, <2>1 DEF RequeryOK, IsTop
  <1> QED BY <1>4, <1>5, <1>6, <1>7

\* A live query hands the loop a record subscription.
LEMMA SubscribeToRecordInv ==
    ASSUME Inv, NEW e \in exs, SubscribeToRecord(e)
    PROVE  Inv'
  <1> USE DEF Inv
  <1> DEFINE r == First(e.todo)
             f == [e EXCEPT !.todo = @ \ {r}, !.rows = @ \cup {r}]
             l == [list |-> RecordList(r.id), ex |-> e.id]
  <1>0. r \in e.todo /\ r \in Records
    BY FirstIsOne DEF TypeOK, Executions, SubscribeToRecord, Finished
  <1>2. exs' = (exs \ {e}) \cup {f} /\ loop' = Subscription(l)
    BY DEF SubscribeToRecord, Replace, HandToLoop
  <1> HIDE DEF r
  <1>1. /\ f \in Executions /\ f.id = e.id /\ f.where = e.where /\ f.st = e.st
        /\ f.todo \cup f.rows = e.todo \cup e.rows
    BY <1>0 DEF TypeOK, Executions
  <1>3. Subscription(l) \in Loops
    <2>1. l \in Listeners
      BY <1>0 DEF TypeOK, Executions, Listeners, Lists, Records
    <2> HIDE DEF l
    <2> QED BY <2>1 DEF Subscription, Waiting, Loops, EmptyRecord, Record, Records
  <1>4. TypeOK'
    BY <1>1, <1>2, <1>3 DEF TypeOK, SubscribeToRecord, clientVars
  <1>5. HandlerOK' /\ WriteTxOK'
    BY DEF HandlerOK, WriteTxOK, Current, Statement, SubscribeToRecord
  <1>6. InsertCommitted' /\ TargetsOK'
    <2>1. loop'.st = "subscribe" /\ loop'.left = {l}
      BY <1>2 DEF Subscription, Waiting
    <2> HIDE DEF l
    <2> QED BY <2>1 DEF InsertCommitted, TargetsOK, Statement, Current, SubscribeToRecord
  <1>7. RequeryOK'
    <2>1. db' = db
      BY DEF SubscribeToRecord
    <2> HIDE DEF f
    <2> QED BY <1>1, <1>2, <2>1 DEF RequeryOK, IsTop
  <1> QED BY <1>4, <1>5, <1>6, <1>7

\* The writer is handed a message.
LEMMA WriteMessageType ==
    ASSUME TypeOK, NEW c \in Conns, NEW m \in Messages, WriteMessage(c, m)
    PROVE  writer' \in [Conns -> Seq(Messages)]
  <1>1. <<m>> \in Seq(Messages)
    OBVIOUS
  <1> QED BY <1>1 DEF TypeOK, WriteMessage

\* A channel leaves its connection.
LEMMA CloseChannelType ==
    ASSUME TypeOK, NEW c \in Conns, CloseChannel(c)
    PROVE  channels' \in [Conns -> SUBSET (1..MaxStatements)]
  <1>1. channels[c] \ {Current(c)} \in SUBSET (1..MaxStatements)
    BY DEF TypeOK
  <1> QED BY <1>1 DEF TypeOK, CloseChannel

\* The statement a busy handler runs, and its number.
LEMMA StatementType ==
    ASSUME Inv, NEW c \in Conns, pc[c] \notin {"idle", "gone"}
    PROVE  /\ Current(c) \in 1..MaxStatements
           /\ Statement(c) \in Statements
           /\ pc[c] \in {"insert", "push"} =>
                 Statement(c).type = "insert" /\ Statement(c).id \in Keys /\ Statement(c).val \in Values
           /\ pc[c] \in {"update", "rows"} =>
                 Statement(c).type = "update" /\ Statement(c).set \in Values
                 /\ Statement(c).where \in Filters \ {AllRows}
  <1>1. asked[c] \in Seq(Statements) /\ Current(c) = Len(asked[c])
    BY DEF Inv, TypeOK, Current
  <1>2. Current(c) \in Nat /\ 1 <= Current(c) /\ Current(c) <= MaxStatements
    BY <1>1 DEF Inv, HandlerOK
  <1>3. Current(c) \in 1..MaxStatements
    BY <1>2, BoundAssumption
  <1>4. Statement(c) \in Statements
    BY <1>1, <1>2 DEF Statement
  <1>5. /\ pc[c] \in {"insert", "push"} => Statement(c).type = "insert"
        /\ pc[c] \in {"update", "rows"} => Statement(c).type = "update"
    BY DEF Inv, HandlerOK
  <1> QED BY <1>3, <1>4, <1>5 DEF Statements

\* A top-level query answers.
LEMMA WriteInitialResultInv ==
    ASSUME Inv, NEW e \in exs, WriteInitialResult(e)
    PROVE  Inv'
  <1> USE DEF Inv
  <1> DEFINE c == e.id.conn
  <1>1. c \in Conns /\ e.id.chan \in 1..MaxStatements /\ e.todo \cup e.rows \subseteq Records
    BY DEF TypeOK, Executions, ExIds
  <1>2. writer' \in [Conns -> Seq(Messages)]
    <2> DEFINE m == IF Failed(e) THEN Message("error", e.id.chan, {}, NoValue)
                    ELSE Message("initial", e.id.chan, e.todo \cup e.rows, NoValue)
    <2>1. m \in Messages
      BY <1>1 DEF Message, Messages, ReplyTypes
    <2>2. WriteMessage(c, m)
      BY DEF WriteInitialResult
    <2> HIDE DEF m, c
    <2> QED BY <1>1, <2>1, <2>2, WriteMessageType
  <1> HIDE DEF c
  <1>3. pc' = [pc EXCEPT ![c] = "idle"] /\ exs' = exs \ {e}
    BY DEF WriteInitialResult, c
  <1>4. channels' \in [Conns -> SUBSET (1..MaxStatements)]
    <2>1. channels' = channels \/ CloseChannel(c)
      BY DEF WriteInitialResult, c
    <2> QED BY <1>1, <2>1, CloseChannelType DEF TypeOK
  <1>5. TypeOK'
    BY <1>2, <1>3, <1>4 DEF TypeOK, WriteInitialResult, clientVars
  <1>6. HandlerOK' /\ WriteTxOK' /\ InsertCommitted' /\ TargetsOK' /\ RequeryOK'
    <2>1. UNCHANGED <<db, wtx, asked, loop, listeners>>
      BY DEF WriteInitialResult
    <2>2. \A d \in Conns : pc'[d] = pc[d] \/ pc'[d] = "idle"
      BY <1>3 DEF TypeOK
    <2> QED BY <1>3, <2>1, <2>2
            DEF HandlerOK, WriteTxOK, InsertCommitted, TargetsOK, RequeryOK, Current, Statement
  <1> QED BY <1>5, <1>6

\* A requery sends its table update and ends.
LEMMA WriteTableUpdateInv ==
    ASSUME Inv, NEW e \in exs, WriteTableUpdate(e)
    PROVE  Inv'
  <1> USE DEF Inv
  <1> DEFINE m == Message("table", e.id.chan, e.todo \cup e.rows, NoValue)
  <1>1. e.id.conn \in Conns /\ e.id.chan \in 1..MaxStatements /\ e.todo \cup e.rows \subseteq Records
    BY DEF TypeOK, Executions, ExIds
  <1>2. m \in Messages
    BY <1>1 DEF Message, Messages, ReplyTypes
  <1>3. WriteMessage(e.id.conn, m)
    BY DEF WriteTableUpdate
  <1> HIDE DEF m
  <1>4. writer' \in [Conns -> Seq(Messages)]
    BY <1>1, <1>2, <1>3, WriteMessageType
  <1>5. TypeOK'
    BY <1>4 DEF TypeOK, WriteTableUpdate, clientVars
  <1>6. HandlerOK' /\ WriteTxOK' /\ InsertCommitted' /\ TargetsOK' /\ RequeryOK'
    BY DEF HandlerOK, WriteTxOK, InsertCommitted, TargetsOK, RequeryOK, Current, Statement,
           WriteTableUpdate
  <1> QED BY <1>5, <1>6

-----------------------------------------------------------------------------
(* Steps of a connection's handler.                                        *)

\* A statement arrives, and gets a channel that fits the bound.
LEMMA HandleStatementInv ==
    ASSUME Inv, NEW c \in Conns, HandleStatement(c)
    PROVE  Inv'
  <1> USE DEF Inv
  <1> DEFINE n == NextChannel(c)
  <1>1. PICK s \in Requests[c] :
           /\ asked' = [asked EXCEPT ![c] = Append(@, s)]
           /\ channels' = [channels EXCEPT ![c] = @ \cup {n}]
           /\ pc' = [pc EXCEPT ![c] = IF s.type = "invalid" THEN "error" ELSE s.type]
           /\ IF s.type = "select"
              THEN /\ exs' = exs \cup {TopExecution(c, n, s)}
                   /\ runs' = [runs EXCEPT ![c][n] = 1]
              ELSE UNCHANGED <<exs, runs>>
    BY DEF HandleStatement
  <1>2. s \in Statements
    BY RequestsAssumption
  <1>3. Current(c) \in Nat /\ n = Current(c) + 1 /\ n \in 1..MaxStatements
    <2>1. Current(c) \in Nat
      BY DEF TypeOK, Current
    <2>2. Current(c) < Budget[c] /\ Budget[c] \in 0..MaxStatements /\ MaxStatements \in Nat
      BY BoundAssumption DEF HandleStatement
    <2> QED BY <2>1, <2>2 DEF NextChannel
  <1> HIDE DEF n
  <1>4. s.type \in {"invalid", "insert", "update", "select"}
    BY <1>2 DEF Statements
  <1>5. UNCHANGED <<db, wtx, loop, listeners, num, writer, wire, open>>
    BY DEF HandleStatement, clientVars
  <1>6. /\ asked' \in [Conns -> Seq(Statements)]
        /\ channels' \in [Conns -> SUBSET (1..MaxStatements)]
        /\ pc' \in [Conns -> {"idle", "insert", "push", "update", "rows", "select",
                              "ack", "error", "gone"}]
    BY <1>1, <1>2, <1>3, <1>4 DEF TypeOK
  <1>7. exs' \subseteq Executions /\ runs' \in [Conns -> [1..MaxStatements -> Nat]]
    <2>1. CASE s.type = "select"
      <3>1. s.live \in BOOLEAN /\ s.one \in BOOLEAN /\ s.where \in Filters
        BY <1>2, <2>1 DEF Statements
      <3>2. ReadRows(db, s.where) \subseteq Records
        BY <3>1, ReadRowsType DEF TypeOK
      <3>3. TopExecution(c, n, s) \in Executions
        BY <1>3, <3>1, <3>2 DEF TopExecution, Executions, ExIds
      <3>4. runs' \in [Conns -> [1..MaxStatements -> Nat]]
        <4>1. runs[c] \in [1..MaxStatements -> Nat]
          BY DEF TypeOK
        <4>2. [runs[c] EXCEPT ![n] = 1] \in [1..MaxStatements -> Nat]
          BY <4>1
        <4>3. runs' = [runs EXCEPT ![c] = [runs[c] EXCEPT ![n] = 1]]
          BY <1>1, <2>1
        <4> QED BY <4>2, <4>3 DEF TypeOK
      <3> QED BY <1>1, <2>1, <3>3, <3>4 DEF TypeOK
    <2>2. CASE s.type # "select"
      BY <1>1, <2>2 DEF TypeOK
    <2> QED BY <2>1, <2>2
  <1>8. TypeOK'
    BY <1>5, <1>6, <1>7 DEF TypeOK
  <1>9. /\ Len(asked'[c]) = Current(c) + 1 /\ asked'[c][Len(asked'[c])] = s
        /\ \A d \in Conns \ {c} : asked'[d] = asked[d] /\ pc'[d] = pc[d]
        /\ pc'[c] \notin {"push", "rows", "idle", "gone"}
        /\ pc'[c] \in {"insert", "update", "select"} => s.type = pc'[c]
    BY <1>1, <1>2, <1>4 DEF TypeOK, Current
  <1>10. HandlerOK' /\ WriteTxOK' /\ InsertCommitted'
    <2>1. /\ Current(c)' = n /\ Statement(c)' = s
          /\ \A d \in Conns \ {c} : Current(d)' = Current(d) /\ Statement(d)' = Statement(d)
      BY <1>3, <1>9 DEF Current, Statement
    <2>2. HandlerOK'
      BY <1>3, <1>9, <2>1 DEF HandlerOK
    <2>3. WriteTxOK'
      BY <1>5, <1>9 DEF WriteTxOK
    <2>4. InsertCommitted'
      BY <1>5, <1>9, <2>1 DEF InsertCommitted
    <2> QED BY <2>2, <2>3, <2>4
  <1>11. TargetsOK'
    BY <1>5 DEF TargetsOK
  <1>12. RequeryOK'
    <2>1. IsTop(TopExecution(c, n, s))
      BY DEF IsTop, TopExecution
    <2> QED BY <1>1, <1>5, <2>1 DEF RequeryOK
  <1> QED BY <1>8, <1>10, <1>11, <1>12

\* An insert commits: no other transaction is open, and no record is lost.
LEMMA InsertRecordInv ==
    ASSUME Inv, NEW c \in Conns, InsertRecord(c)
    PROVE  Inv'
  <1> USE DEF Inv
  <1> DEFINE s == Statement(c)
  <1>1. s \in Statements /\ s.type = "insert" /\ s.id \in Keys /\ s.val \in Values
    <2>1. pc[c] = "insert"
      BY DEF InsertRecord
    <2> QED BY <2>1, StatementType
  <1>2. /\ UNCHANGED <<wtx, asked, channels, exs, runs, loop, listeners, num, writer, wire, open>>
        /\ wtx.owner = NoConn
        /\ pc[c] = "insert"
    BY DEF InsertRecord, clientVars
  <1>3. \/ pc' = [pc EXCEPT ![c] = "error"] /\ db' = db
        \/ /\ db' = [db EXCEPT ![s.id] = s.val]
           /\ pc' = [pc EXCEPT ![c] = "push"]
    BY DEF InsertRecord
  <1>4. \A d \in Conns : Statement(d)' = Statement(d) /\ Current(d)' = Current(d)
    BY <1>2 DEF Statement, Current
  <1> HIDE DEF s
  <1>5. TypeOK'
    BY <1>1, <1>2, <1>3 DEF TypeOK, Tables
  <1>6. /\ \A k \in Keys : db[k] # NoValue => db'[k] # NoValue
        /\ \A d \in Conns \ {c} : pc'[d] = pc[d]
        /\ pc'[c] \in {"error", "push"}
        /\ pc'[c] = "push" => db'[s.id] # NoValue
    BY <1>1, <1>3, ValuesAssumption DEF TypeOK, Tables
  <1>7. HandlerOK'
    BY <1>1, <1>2, <1>4, <1>6 DEF HandlerOK, s
  <1>8. WriteTxOK'
    BY <1>2, <1>6 DEF WriteTxOK
  <1>9. InsertCommitted'
    <2>1. ASSUME NEW d \in Conns, pc'[d] = "push"
          PROVE  db'[Statement(d)'.id] # NoValue
      <3>1. CASE d = c
        BY <1>4, <1>6, <2>1, <3>1 DEF s
      <3>2. CASE d # c
        <4>1. pc[d] = "push" /\ db[Statement(d).id] # NoValue
          BY <1>6, <2>1, <3>2 DEF InsertCommitted
        <4>2. Statement(d).id \in Keys
          BY <4>1, StatementType
        <4> QED BY <1>4, <1>6, <4>1, <4>2
      <3> QED BY <3>1, <3>2
    <2> QED BY <1>2, <1>6, <2>1 DEF InsertCommitted
  <1>10. TargetsOK'
    BY <1>2 DEF TargetsOK
  <1>11. RequeryOK'
    BY <1>2, <1>6 DEF RequeryOK, IsTop
  <1> QED BY <1>5, <1>7, <1>8, <1>9, <1>10, <1>11

\* The event a handler hands to the loop.
LEMMA TableEventType ==
    ASSUME NEW o \in Values \cup {NoValue}, NEW r \in Records
    PROVE  /\ TableEvent(o, r) \in Loops
           /\ TableEvent(o, r).st = "event"
           /\ TableEvent(o, r).old = o
           /\ TableEvent(o, r).new = r
  BY DEF TableEvent, Waiting, Loops, EmptyRecord, Record, Records

\* A step that receives no statement leaves the current ones alone.
LEMMA SameStatements ==
    ASSUME asked' = asked
    PROVE  \A d \in Conns : Current(d)' = Current(d) /\ Statement(d)' = Statement(d)
  BY DEF Current, Statement

\* An insert hands its event to the loop, with its record committed.
LEMMA PushInsertInv ==
    ASSUME Inv, NEW c \in Conns, PushInsert(c)
    PROVE  Inv'
  <1> USE DEF Inv
  <1> DEFINE r == Record(Statement(c).id, Statement(c).val)
  <1>1. pc[c] = "push" /\ pc' = [pc EXCEPT ![c] = "ack"] /\ loop' = TableEvent(NoValue, r)
    BY DEF PushInsert, HandToLoop
  <1>2. UNCHANGED <<db, wtx, asked, channels, exs, runs, listeners, num, writer, wire, open>>
    BY DEF PushInsert, clientVars
  <1>3. r \in Records /\ r.id \in Keys /\ db[r.id] # NoValue
    <2>1. Statement(c).id \in Keys /\ Statement(c).val \in Values
      BY <1>1, StatementType
    <2>2. db[Statement(c).id] # NoValue
      BY <1>1 DEF InsertCommitted
    <2> QED BY <2>1, <2>2 DEF Record, Records
  <1> HIDE DEF r
  <1>4. loop' \in Loops /\ loop'.st = "event" /\ loop'.new = r
    BY <1>1, <1>3, TableEventType
  <1>5. TypeOK'
    BY <1>1, <1>2, <1>4 DEF TypeOK
  <1>6. \A d \in Conns : /\ pc'[d] = pc[d] \/ (pc'[d] = "ack" /\ d = c)
                         /\ Current(d)' = Current(d) /\ Statement(d)' = Statement(d)
    <2>1. \A d \in Conns : pc'[d] = pc[d] \/ (pc'[d] = "ack" /\ d = c)
      BY <1>1, <1>2 DEF TypeOK
    <2> QED BY <1>1, <1>2, <2>1, SameStatements
  <1>7. HandlerOK'
    BY <1>1, <1>6 DEF HandlerOK
  <1>8. WriteTxOK' /\ TargetsOK' /\ RequeryOK'
    BY <1>2, <1>4, <1>6 DEF WriteTxOK, TargetsOK, RequeryOK
  <1>9. InsertCommitted'
    BY <1>2, <1>3, <1>4, <1>6 DEF InsertCommitted
  <1> QED BY <1>5, <1>7, <1>8, <1>9

\* An update's transaction begins on the committed table.
LEMMA BeginUpdateInv ==
    ASSUME Inv, NEW c \in Conns, BeginUpdate(c)
    PROVE  Inv'
  <1> USE DEF Inv
  <1>1. /\ pc[c] = "update" /\ pc' = [pc EXCEPT ![c] = "rows"] /\ wtx.owner = NoConn
        /\ UNCHANGED <<db, asked, channels, exs, runs, loop, listeners, num, writer, wire, open>>
    BY DEF BeginUpdate, clientVars
  <1>2. PICK todo \in SUBSET Present(db) : wtx' = [owner |-> c, rows |-> db, todo |-> todo]
    BY DEF BeginUpdate
  <1>3. wtx' \in WriteTxs
    BY <1>2 DEF TypeOK, WriteTxs, Present
  <1>4. TypeOK'
    BY <1>1, <1>3 DEF TypeOK
  <1>5. \A d \in Conns : /\ (pc'[d] = pc[d] /\ d # c) \/ (pc'[d] = "rows" /\ d = c)
                         /\ Current(d)' = Current(d) /\ Statement(d)' = Statement(d)
    <2>1. \A d \in Conns : (pc'[d] = pc[d] /\ d # c) \/ (pc'[d] = "rows" /\ d = c)
      BY <1>1 DEF TypeOK
    <2> QED BY <1>1, <2>1, SameStatements
  <1>6. HandlerOK'
    BY <1>1, <1>5 DEF HandlerOK
  <1>7. WriteTxOK'
    <2>1. \A d \in Conns : pc[d] # "rows"
      BY <1>1, ConnsAssumption DEF WriteTxOK
    <2> QED BY <1>1, <1>2, <1>5, <2>1 DEF WriteTxOK, Present
  <1>8. InsertCommitted' /\ TargetsOK' /\ RequeryOK'
    BY <1>1, <1>5 DEF InsertCommitted, TargetsOK, RequeryOK
  <1> QED BY <1>4, <1>6, <1>7, <1>8

\* An update changes a row of its transaction, and its event's old value is a value.
LEMMA UpdateRecordInv ==
    ASSUME Inv, NEW c \in Conns, UpdateRecord(c)
    PROVE  Inv'
  <1> USE DEF Inv
  <1> DEFINE k == Least(wtx.todo)
             v == Statement(c).set
  <1>1. /\ pc[c] = "rows" /\ wtx.todo # {}
        /\ UNCHANGED <<db, asked, pc, channels, exs, runs, listeners, num, writer, wire, open>>
    BY DEF UpdateRecord, clientVars
  <1>2. /\ wtx' = [wtx EXCEPT !.rows[k] = v, !.todo = @ \ {k}]
        /\ loop' = TableEvent(wtx.rows[k], Record(k, v))
    BY DEF UpdateRecord, HandToLoop
  <1>3. v \in Values
    BY <1>1, StatementType
  <1>4. k \in wtx.todo
    <2>1. wtx.todo \subseteq Nat
      BY KeysAreNaturals DEF TypeOK, WriteTxs
    <2> QED BY <1>1, <2>1, LeastIsLeast
  <1> HIDE DEF k, v
  <1>5. wtx.owner = c /\ wtx.owner # NoConn
    BY <1>1, ConnsAssumption DEF WriteTxOK
  <1>6. k \in Keys /\ wtx.rows \in Tables /\ wtx.todo \subseteq Keys /\ wtx.rows[k] # NoValue
    BY <1>4, <1>5 DEF TypeOK, WriteTxs, WriteTxOK
  <1>7. /\ wtx'.owner = wtx.owner /\ wtx'.todo = wtx.todo \ {k}
        /\ wtx'.rows = [wtx.rows EXCEPT ![k] = v] /\ wtx' \in WriteTxs
    BY <1>2, <1>3, <1>6 DEF TypeOK, WriteTxs, Tables
  <1>8. wtx.rows[k] \in Values /\ Record(k, v) \in Records
    BY <1>3, <1>6 DEF Tables, Record, Records
  <1>9. loop' \in Loops /\ loop'.st = "event" /\ loop'.old # NoValue
    BY <1>2, <1>6, <1>8, TableEventType
  <1>10. TypeOK'
    BY <1>1, <1>7, <1>9 DEF TypeOK
  <1>11. HandlerOK' /\ RequeryOK'
    BY <1>1 DEF HandlerOK, RequeryOK, Current, Statement
  <1>12. WriteTxOK'
    <2>1. \A j \in Keys : wtx'.rows[j] = IF j = k THEN v ELSE wtx.rows[j]
      BY <1>6, <1>7 DEF Tables
    <2>2. v # NoValue
      BY <1>3, ValuesAssumption
    <2> QED BY <1>1, <1>5, <1>6, <1>7, <2>1, <2>2 DEF WriteTxOK
  <1>13. InsertCommitted' /\ TargetsOK'
    BY <1>1, <1>9 DEF InsertCommitted, TargetsOK, Statement, Current
  <1> QED BY <1>10, <1>11, <1>12, <1>13

\* An update commits its transaction, which has every record there was.
LEMMA CommitUpdateInv ==
    ASSUME Inv, NEW c \in Conns, CommitUpdate(c)
    PROVE  Inv'
  <1> USE DEF Inv
  <1>1. /\ pc[c] = "rows" /\ pc' = [pc EXCEPT ![c] = "ack"] /\ db' = wtx.rows /\ wtx' = NoTx
        /\ UNCHANGED <<asked, channels, exs, runs, loop, listeners, num, writer, wire, open>>
    BY DEF CommitUpdate, clientVars
  <1>2. wtx.owner = c /\ wtx.owner # NoConn
    BY <1>1, ConnsAssumption DEF WriteTxOK
  <1>3. db' \in Tables /\ \A k \in Keys : db[k] # NoValue => db'[k] # NoValue
    BY <1>1, <1>2 DEF TypeOK, WriteTxs, WriteTxOK
  <1>4. NoTx \in WriteTxs /\ NoTx.owner = NoConn
    BY DEF NoTx, WriteTxs, Tables
  <1>5. TypeOK'
    BY <1>1, <1>3, <1>4 DEF TypeOK
  <1>6. \A d \in Conns : /\ (pc'[d] = pc[d] /\ d # c) \/ (pc'[d] = "ack" /\ d = c)
                         /\ Current(d)' = Current(d) /\ Statement(d)' = Statement(d)
    <2>1. \A d \in Conns : (pc'[d] = pc[d] /\ d # c) \/ (pc'[d] = "ack" /\ d = c)
      BY <1>1 DEF TypeOK
    <2> QED BY <1>1, <2>1, SameStatements
  <1>7. HandlerOK'
    BY <1>1, <1>6 DEF HandlerOK
  <1>8. WriteTxOK'
    BY <1>1, <1>2, <1>4, <1>6 DEF WriteTxOK
  <1>9. InsertCommitted'
    <2>1. \A d \in Conns : pc[d] = "push" => Statement(d).id \in Keys
      BY StatementType
    <2> QED BY <1>1, <1>3, <1>6, <2>1 DEF InsertCommitted
  <1>10. TargetsOK' /\ RequeryOK'
    BY <1>1, <1>3 DEF TargetsOK, RequeryOK, IsTop
  <1> QED BY <1>5, <1>7, <1>8, <1>9, <1>10

\* A statement is acknowledged or refused, and its channel closes.
LEMMA WriteReplyInv ==
    ASSUME Inv, NEW c \in Conns, WriteReply(c)
    PROVE  Inv'
  <1> USE DEF Inv
  <1>1. /\ pc[c] \in {"ack", "error"} /\ pc' = [pc EXCEPT ![c] = "idle"] /\ CloseChannel(c)
        /\ UNCHANGED <<db, wtx, asked, exs, runs, loop, listeners, num, wire, open>>
    BY DEF WriteReply, clientVars
  <1>2. writer' \in [Conns -> Seq(Messages)]
    <2> DEFINE m == Message(pc[c], Current(c), {}, NoValue)
    <2>1. WriteMessage(c, m)
      BY DEF WriteReply
    <2>2. m \in Messages
      BY <1>1, StatementType DEF Message, Messages, ReplyTypes
    <2> HIDE DEF m
    <2> QED BY <2>1, <2>2, WriteMessageType
  <1>3. TypeOK'
    BY <1>1, <1>2, CloseChannelType DEF TypeOK
  <1>4. \A d \in Conns : /\ pc'[d] = pc[d] \/ pc'[d] = "idle"
                         /\ Current(d)' = Current(d) /\ Statement(d)' = Statement(d)
    <2>1. \A d \in Conns : pc'[d] = pc[d] \/ pc'[d] = "idle"
      BY <1>1 DEF TypeOK
    <2> QED BY <1>1, <2>1, SameStatements
  <1>5. HandlerOK'
    BY <1>4 DEF HandlerOK
  <1>6. WriteTxOK' /\ InsertCommitted' /\ TargetsOK' /\ RequeryOK'
    BY <1>1, <1>4 DEF WriteTxOK, InsertCommitted, TargetsOK, RequeryOK
  <1> QED BY <1>3, <1>5, <1>6

\* A connection goes, with its listeners.
LEMMA RemoveConnInv ==
    ASSUME Inv, NEW c \in Conns, RemoveConn(c)
    PROVE  Inv'
  <1> USE DEF Inv
  <1>1. /\ pc' = [pc EXCEPT ![c] = "gone"] /\ listeners' = {l \in listeners : l.ex.conn # c}
        /\ num' = [l \in Lists |-> num[l] - Cardinality(InList(l))]
        /\ UNCHANGED <<db, wtx, asked, channels, exs, runs, loop, writer, wire, open>>
    BY DEF RemoveConn, RemoveListenersForConn, clientVars
  <1>2. num' \in [Lists -> Int]
    <2>1. \A l \in Lists : Cardinality(InList(l)) \in Nat
      BY FS_Subset, FS_CardinalityType DEF TargetsOK, InList
    <2>2. ASSUME NEW l \in Lists  PROVE num[l] - Cardinality(InList(l)) \in Int
      <3> DEFINE n == Cardinality(InList(l))
      <3>1. n \in Nat /\ num[l] \in Int
        BY <2>1 DEF TypeOK
      <3> HIDE DEF n
      <3>2. num[l] - n \in Int
        BY <3>1
      <3> QED BY <3>2 DEF n
    <2> QED BY <1>1, <2>2
  <1>3. TypeOK'
    BY <1>1, <1>2 DEF TypeOK
  <1>4. \A d \in Conns : /\ pc'[d] = pc[d] \/ pc'[d] = "gone"
                         /\ Current(d)' = Current(d) /\ Statement(d)' = Statement(d)
    <2>1. \A d \in Conns : pc'[d] = pc[d] \/ pc'[d] = "gone"
      BY <1>1 DEF TypeOK
    <2> QED BY <1>1, <2>1, SameStatements
  <1>5. HandlerOK' /\ WriteTxOK' /\ InsertCommitted' /\ RequeryOK'
    BY <1>1, <1>4 DEF HandlerOK, WriteTxOK, InsertCommitted, RequeryOK
  <1>6. TargetsOK'
    <2>1. IsFiniteSet(listeners')
      BY <1>1, FS_Subset DEF TargetsOK
    <2> QED BY <1>1, <2>1 DEF TargetsOK
  <1> QED BY <1>3, <1>5, <1>6

-----------------------------------------------------------------------------
(* Steps of the event loop.                                                *)

\* The loop may wait in its select.
LEMMA WaitingType == Waiting \in Loops /\ Waiting.st = "select" /\ Waiting.left = {}
  BY DEF Waiting, Loops, EmptyRecord, Record, Records

\* The loop adds a listener.
LEMMA HandleSubscriptionInv ==
    ASSUME Inv, HandleSubscription
    PROVE  Inv'
  <1> USE DEF Inv
  <1>1. PICK l \in loop.left : /\ listeners' = listeners \cup {l}
                               /\ num' = [num EXCEPT ![l.list] = @ + 1]
    BY DEF HandleSubscription, AddListener
  <1>2. /\ loop' = Waiting
        /\ UNCHANGED <<db, wtx, asked, pc, channels, exs, runs, writer, wire, open>>
    BY DEF HandleSubscription, clientVars
  <1>3. l \in Listeners /\ l.list \in Lists
    BY DEF TypeOK, Loops, Listeners
  <1>4. num' \in [Lists -> Int]
    BY <1>1, <1>3 DEF TypeOK
  <1>5. TypeOK'
    BY <1>1, <1>2, <1>3, <1>4, WaitingType DEF TypeOK
  <1>6. TargetsOK'
    <2>1. IsFiniteSet(listeners')
      BY <1>1, FS_AddElement DEF TargetsOK
    <2> QED BY <1>2, <2>1, WaitingType DEF TargetsOK
  <1>7. HandlerOK' /\ WriteTxOK' /\ InsertCommitted' /\ RequeryOK'
    BY <1>2, WaitingType DEF HandlerOK, WriteTxOK, InsertCommitted, RequeryOK, Current, Statement
  <1> QED BY <1>5, <1>6, <1>7

\* The lists an event goes to hold record listeners only if it is an update.
LEMMA TargetsAreOfItsKind ==
    ASSUME NEW o, NEW r, NEW l \in Targets(o, r)
    PROVE  l \in listeners /\ (l.list.on = "rec" <=> o # NoValue)
  <1>1. l \in listeners /\ l.list \in IF o = NoValue THEN {AllRows, WhereId(r.id), WhereVal(r.val)}
                                                    ELSE {RecordList(r.id)}
    BY DEF Targets
  <1>2. CASE o = NoValue
    BY <1>1, <1>2 DEF AllRows, WhereId, WhereVal
  <1>3. CASE o # NoValue
    BY <1>1, <1>3 DEF RecordList
  <1> QED BY <1>2, <1>3

\* The loop starts sending an event to listeners of its kind.
LEMMA HandleTableEventInv ==
    ASSUME Inv, HandleTableEvent
    PROVE  Inv'
  <1> USE DEF Inv
  <1> DEFINE to == Targets(loop.old, loop.new)
             send == [loop EXCEPT !.st = "send", !.left = to]
  <1>1. /\ loop.st = "event" /\ (loop' = Waiting \/ loop' = send)
        /\ UNCHANGED <<db, wtx, asked, pc, channels, exs, runs, listeners, num, writer, wire, open>>
    BY DEF HandleTableEvent, clientVars
  <1>2. to \subseteq Listeners /\ \A l \in to : l.list.on = "rec" <=> loop.old # NoValue
    BY TargetsAreOfItsKind DEF TypeOK
  <1> HIDE DEF to
  <1>3. /\ send \in Loops /\ send.st = "send" /\ send.left = to
        /\ send.old = loop.old /\ send.new = loop.new
    BY <1>2 DEF TypeOK, Loops
  <1> HIDE DEF send
  <1>4. TypeOK'
    BY <1>1, <1>3, WaitingType DEF TypeOK
  <1>5. TargetsOK'
    BY <1>1, <1>2, <1>3, WaitingType DEF TargetsOK
  <1>6. InsertCommitted'
    BY <1>1, <1>3, WaitingType DEF InsertCommitted, Statement, Current
  <1>7. HandlerOK' /\ WriteTxOK' /\ RequeryOK'
    BY <1>1 DEF HandlerOK, WriteTxOK, RequeryOK, Current, Statement
  <1> QED BY <1>4, <1>5, <1>6, <1>7

\* The loop sends an event to a listener: an insert starts a requery of its record.
LEMMA SendEventInv ==
    ASSUME Inv, NEW l \in loop.left, SendEvent(l)
    PROVE  Inv'
  <1> USE DEF Inv
  <1> DEFINE rest == [loop EXCEPT !.left = @ \ {l}]
             q == Requery(l.ex, loop.new)
             m == Message("record", l.ex.chan, {loop.new}, loop.old)
             c == l.ex.conn
             n == l.ex.chan
  <1>1. /\ loop.st = "send" /\ (loop' = Waiting \/ loop' = rest)
        /\ UNCHANGED <<db, wtx, asked, pc, channels, listeners, num, wire, open>>
    BY DEF SendEvent, clientVars
  <1>2. l \in Listeners /\ (l.list.on = "rec" <=> loop.old # NoValue)
    BY <1>1 DEF TypeOK, Loops, TargetsOK
  <1>3. c \in Conns /\ n \in 1..MaxStatements
    BY <1>2 DEF Listeners, ExIds
  <1>3a. runs[c] \in [1..MaxStatements -> Nat] /\ runs[c][n] \in Nat
    <2> HIDE DEF c, n
    <2>1. runs[c] \in [1..MaxStatements -> Nat]
      BY <1>3 DEF TypeOK
    <2> QED BY <1>3, <2>1, BoundAssumption
  <1>4. \/ /\ loop.old = NoValue /\ exs' = exs \cup {q} /\ writer' = writer
           /\ runs' = [runs EXCEPT ![c][n] = @ + 1]
        \/ exs' = exs /\ runs' = runs /\ WriteMessage(c, m)
    BY <1>1, <1>2 DEF SendEvent
  <1>5. /\ rest \in Loops /\ rest.st = "send" /\ rest.left \subseteq loop.left
        /\ rest.old = loop.old /\ rest.new = loop.new
    BY <1>1 DEF TypeOK, Loops
  <1> HIDE DEF rest
  <1>6. loop.old = NoValue => loop.new.id \in Keys /\ db[loop.new.id] # NoValue
    BY <1>1 DEF InsertCommitted
  <1>7. loop.old = NoValue =>
           /\ q \in Executions /\ q.st = "start"
           /\ \E k \in Keys : q.where = WhereId(k) /\ db[k] # NoValue
    <2> SUFFICES ASSUME loop.old = NoValue
                 PROVE  /\ q \in Executions /\ q.st = "start"
                        /\ \E k \in Keys : q.where = WhereId(k) /\ db[k] # NoValue
      OBVIOUS
    <2>1. runs[c][n] \in Nat
      BY <1>3a
    <2>2. WhereId(loop.new.id) \in Filters
      BY <1>6 DEF Filters
    <2> DEFINE id == [conn |-> c, chan |-> n, run |-> runs[c][n]]
               w == WhereId(loop.new.id)
    <2>3. id \in ExIds
      BY <1>3, <2>1 DEF ExIds
    <2>4. q = [id |-> id, live |-> TRUE, one |-> FALSE, where |-> w,
               st |-> "start", todo |-> {}, rows |-> {}]
      BY DEF Requery
    <2>5. \E k \in Keys : w = WhereId(k) /\ db[k] # NoValue
      BY <1>6
    <2> HIDE DEF id, w, q
    <2> QED BY <2>2, <2>3, <2>4, <2>5 DEF Executions, w
  <1>8. m \in Messages
    <2>1. loop.new \in Records /\ loop.old \in Values \cup {NoValue}
      BY DEF TypeOK, Loops
    <2> QED BY <1>3, <2>1 DEF Message, Messages, ReplyTypes
  <1> HIDE DEF m, q, c, n
  <1>9. exs' \subseteq Executions
    BY <1>4, <1>7 DEF TypeOK
  <1>10. writer' \in [Conns -> Seq(Messages)]
    BY <1>3, <1>4, <1>8, WriteMessageType DEF TypeOK
  <1>11. runs' \in [Conns -> [1..MaxStatements -> Nat]]
    <2>1. CASE runs' = [runs EXCEPT ![c][n] = @ + 1]
      <3>1. runs[c] \in [1..MaxStatements -> Nat]
        BY <1>3 DEF TypeOK
      <3> DEFINE k == runs[c][n] + 1
      <3>0. k \in Nat
        BY <1>3a
      <3> HIDE DEF k
      <3>2. [runs[c] EXCEPT ![n] = k] \in [1..MaxStatements -> Nat]
        BY <3>0, <3>1
      <3>3. runs' = [runs EXCEPT ![c] = [runs[c] EXCEPT ![n] = k]]
        BY <2>1 DEF k
      <3> QED BY <3>2, <3>3 DEF TypeOK
    <2>2. CASE runs' = runs
      BY <2>2 DEF TypeOK
    <2> QED BY <1>4, <2>1, <2>2
  <1>12. TypeOK'
    BY <1>1, <1>5, <1>9, <1>10, <1>11, WaitingType DEF TypeOK
  <1>13. HandlerOK' /\ WriteTxOK'
    BY <1>1 DEF HandlerOK, WriteTxOK, Current, Statement
  <1>14. InsertCommitted' /\ TargetsOK'
    BY <1>1, <1>5, WaitingType DEF InsertCommitted, TargetsOK, Statement, Current
  <1>15. RequeryOK'
    BY <1>1, <1>4, <1>7 DEF RequeryOK, IsTop
  <1> QED BY <1>12, <1>13, <1>14, <1>15

-----------------------------------------------------------------------------
(* Steps of a connection's writer and of its client.                       *)

\* A writer writes its message to the socket, or drops it.
LEMMA WriteToSocketInv ==
    ASSUME Inv, NEW c \in Conns, WriteToSocket(c)
    PROVE  Inv'
  <1> USE DEF Inv
  <1>1. /\ wire' = [wire EXCEPT ![c] = @ \o writer[c]] \/ wire' = wire
        /\ writer' = [writer EXCEPT ![c] = << >>]
        /\ UNCHANGED <<db, wtx, asked, pc, channels, exs, runs, loop, listeners, num, open>>
    BY DEF WriteToSocket
  <1>2. writer' \in [Conns -> Seq(Messages)]
    <2>1. << >> \in Seq(Messages)
      OBVIOUS
    <2> QED BY <1>1, <2>1 DEF TypeOK
  <1>3. wire' \in [Conns -> Seq(Messages)]
    <2>1. wire[c] \o writer[c] \in Seq(Messages)
      <3>1. wire[c] \in Seq(Messages) /\ writer[c] \in Seq(Messages)
        BY DEF TypeOK
      <3> QED BY <3>1
    <2> QED BY <1>1, <2>1 DEF TypeOK
  <1>4. TypeOK'
    BY <1>1, <1>2, <1>3 DEF TypeOK
  <1>5. HandlerOK' /\ WriteTxOK' /\ InsertCommitted' /\ TargetsOK' /\ RequeryOK'
    BY <1>1 DEF HandlerOK, WriteTxOK, InsertCommitted, TargetsOK, RequeryOK, Current, Statement
  <1> QED BY <1>4, <1>5

\* A client closes its socket.
LEMMA CloseSocketInv ==
    ASSUME Inv, NEW c \in Conns, CloseSocket(c)
    PROVE  Inv'
  <1> USE DEF Inv
  <1>1. TypeOK'
    BY DEF TypeOK, CloseSocket
  <1>2. HandlerOK' /\ WriteTxOK' /\ InsertCommitted' /\ TargetsOK' /\ RequeryOK'
    BY DEF HandlerOK, WriteTxOK, InsertCommitted, TargetsOK, RequeryOK, Current, Statement,
           CloseSocket
  <1> QED BY <1>1, <1>2

-----------------------------------------------------------------------------
(* The theorems.                                                           *)

\* A step that changes nothing preserves the invariant.
LEMMA StutterInv == ASSUME Inv, UNCHANGED vars  PROVE Inv'
  <1> USE DEF Inv, vars, clientVars
  <1>1. TypeOK'
    BY DEF TypeOK
  <1>2. HandlerOK' /\ WriteTxOK' /\ InsertCommitted' /\ TargetsOK' /\ RequeryOK'
    BY DEF HandlerOK, WriteTxOK, InsertCommitted, TargetsOK, RequeryOK, Current, Statement
  <1> QED BY <1>1, <1>2

\* Every step of every process preserves the invariant.
LEMMA NextInv == Inv /\ [Next]_vars => Inv'
  <1> SUFFICES ASSUME Inv, [Next]_vars  PROVE Inv'
    OBVIOUS
  <1>1. ASSUME NEW c \in Conns, HandleStatement(c)  PROVE Inv'
    BY <1>1, HandleStatementInv
  <1>2. ASSUME NEW c \in Conns, HandlerStep(c)  PROVE Inv'
    BY <1>2, InsertRecordInv, PushInsertInv, BeginUpdateInv, UpdateRecordInv, CommitUpdateInv,
       WriteReplyInv, RemoveConnInv DEF HandlerStep
  <1>3. ASSUME NEW c \in Conns, WriteToSocket(c)  PROVE Inv'
    BY <1>3, WriteToSocketInv
  <1>4. ASSUME NEW c \in Conns, CloseSocket(c)  PROVE Inv'
    BY <1>4, CloseSocketInv
  <1>5. ASSUME NEW e \in exs, ExecutionStep(e)  PROVE Inv'
    BY <1>5, BeginRequeryInv, SubscribeToTableInv, SubscribeToRecordInv, WriteInitialResultInv,
       WriteTableUpdateInv DEF ExecutionStep
  <1>6. CASE LoopStep
    BY <1>6, HandleSubscriptionInv, HandleTableEventInv, SendEventInv DEF LoopStep
  <1>7. CASE UNCHANGED vars
    BY <1>7, StutterInv
  <1> QED BY <1>1, <1>2, <1>3, <1>4, <1>5, <1>6, <1>7 DEF Next

\* In every behaviour of the server the variables keep their types: no channel
\* number, listener, execution or message is ever malformed.
THEOREM TypeCorrect == Spec => []TypeOK
  <1>1. Inv => TypeOK
    BY DEF Inv
  <1> QED BY InitInv, NextInv, <1>1, PTL DEF Spec

\* In every behaviour of the server a requery that has read finds the record of
\* its insert event: BoltIterator.Get never hands it a neighbour or no record.
THEOREM RequeryCorrect == Spec => []RequeryFindsItsRecord
  <1>1. Inv => RequeryFindsItsRecord
    BY DEF Inv, RequeryOK, RequeryFindsItsRecord
  <1> QED BY InitInv, NextInv, <1>1, PTL DEF Spec

-----------------------------------------------------------------------------
(* The conversations: the inductive invariant.                             *)

\* Channel n of connection c runs a live query.
LiveChannel(c, n) == n \in DOMAIN asked[c] /\ asked[c][n].type = "select" /\ asked[c][n].live

\* A writer holds one message at most.
WritersTakeOne == \A c \in Conns : Len(writer[c]) <= 1

\* The top-level execution of a connection is that of its last statement, a
\* SELECT its handler waits for, and there is one at most.
TopOK ==
    /\ \A e \in exs : IsTop(e) =>
          /\ pc[e.id.conn] = "select"
          /\ e.id.chan = Current(e.id.conn)
          /\ Statement(e.id.conn).type = "select"
    /\ \A e, f \in exs : IsTop(e) /\ IsTop(f) /\ e.id.conn = f.id.conn => e = f
    /\ \A c \in Conns : pc[c] = "ack" => Statement(c).type # "select"

\* Whatever may write updates to a channel runs on the channel of a live query:
\* live executions, requeries, listeners, and what the loop has in hand.
UpdatersLive ==
    /\ \A c \in Conns : \A n \in DOMAIN asked[c] : LiveChannel(c, n) => runs[c][n] # 0
    /\ \A e \in exs : e.live => LiveChannel(e.id.conn, e.id.chan)
    /\ \A e \in exs : ~e.live => IsTop(e) /\ e.st = "read"
    /\ \A l \in listeners \cup loop.left : LiveChannel(l.ex.conn, l.ex.chan)

TalkInv == Inv /\ WritersTakeOne /\ TopOK /\ UpdatersLive

-----------------------------------------------------------------------------
(* Messages as a Conversation has them.                                    *)

Utterance(m) == [chan |-> m.chan, type |-> m.type]
Heard(s) == [i \in DOMAIN s |-> Utterance(s[i])]
Named(r) == [kind |-> Kind(r)]
Said(s) == [n \in DOMAIN s |-> Named(s[n])]

\* The elements of a sequence with one more.
LEMMA OneMore ==
    ASSUME NEW S, NEW s \in Seq(S), NEW x \in S
    PROVE  /\ Append(s, x) \in Seq(S)
           /\ s \o <<x>> = Append(s, x)
           /\ Len(s) \in Nat /\ Len(Append(s, x)) = Len(s) + 1
           /\ DOMAIN s = 1..Len(s) /\ DOMAIN Append(s, x) = 1..Len(s) + 1
           /\ \A i \in 1..Len(s) : Append(s, x)[i] = s[i]
           /\ Append(s, x)[Len(s) + 1] = x
  BY AppendProperties, AppendIsConcat, LenProperties

\* A sequence mapped by a function, with one more element.
LEMMA MappedAppend ==
    ASSUME NEW S, NEW T, NEW F \in [S -> T], NEW s \in Seq(S), NEW x \in S
    PROVE  /\ [i \in DOMAIN s |-> F[s[i]]] \in Seq(T)
           /\ [i \in DOMAIN Append(s, x) |-> F[Append(s, x)[i]]]
                = Append([i \in DOMAIN s |-> F[s[i]]], F[x])
  <1> DEFINE Mapped(q) == [i \in DOMAIN q |-> F[q[i]]]
             n == Len(s)
  <1>1. ASSUME NEW q \in Seq(S)
        PROVE  Mapped(q) \in Seq(T) /\ Len(Mapped(q)) = Len(q)
               /\ \A i \in 1..Len(q) : Mapped(q)[i] = F[q[i]]
    <2>1. Len(q) \in Nat /\ DOMAIN q = 1..Len(q) /\ \A i \in 1..Len(q) : q[i] \in S
      BY LenProperties, ElementOfSeq
    <2>2. Mapped(q) \in [1..Len(q) -> T] /\ \A i \in 1..Len(q) : Mapped(q)[i] = F[q[i]]
      BY <2>1
    <2> QED BY <2>1, <2>2
  <1> HIDE DEF Mapped
  <1>2. /\ Append(s, x) \in Seq(S) /\ n \in Nat /\ Len(Append(s, x)) = n + 1
        /\ \A i \in 1..n : Append(s, x)[i] = s[i]
        /\ Append(s, x)[n + 1] = x
    BY OneMore
  <1>3. Mapped(s) \in Seq(T) /\ Len(Mapped(s)) = n /\ \A i \in 1..n : Mapped(s)[i] = F[s[i]]
    BY <1>1
  <1>4. /\ Mapped(Append(s, x)) \in Seq(T) /\ Len(Mapped(Append(s, x))) = n + 1
        /\ \A i \in 1..n+1 : Mapped(Append(s, x))[i] = F[Append(s, x)[i]]
    BY <1>1, <1>2
  <1>5. F[x] \in T
    OBVIOUS
  <1>6. /\ Append(Mapped(s), F[x]) \in Seq(T) /\ Len(Append(Mapped(s), F[x])) = n + 1
        /\ \A i \in 1..n : Append(Mapped(s), F[x])[i] = Mapped(s)[i]
        /\ Append(Mapped(s), F[x])[n + 1] = F[x]
    BY <1>3, <1>5, OneMore
  <1>7. ASSUME NEW i \in 1..n+1
        PROVE  Mapped(Append(s, x))[i] = Append(Mapped(s), F[x])[i]
    <2>1. i \in 1..n \/ i = n + 1
      BY <1>2
    <2>2. CASE i \in 1..n
      BY <1>2, <1>3, <1>4, <1>6, <2>2
    <2>3. CASE i = n + 1
      BY <1>2, <1>4, <1>6, <2>3
    <2> QED BY <2>1, <2>2, <2>3
  <1>8. Mapped(Append(s, x)) = Append(Mapped(s), F[x])
    BY <1>4, <1>6, <1>7, SeqEqual
  <1> QED BY <1>3, <1>8 DEF Mapped

Utterances == [chan : 1..MaxStatements, type : ReplyTypes \cup {"table", "record", "garbled"}]
Kinds == [kind : {"write", "live", "query"}]

\* A message more is heard as one more.
LEMMA HeardAppend ==
    ASSUME NEW s \in Seq(Messages), NEW m \in Messages
    PROVE  /\ Heard(s) \in Seq(Utterances)
           /\ Heard(Append(s, m)) = Append(Heard(s), Utterance(m))
           /\ Utterance(m) \in Utterances
  <1> DEFINE F == [x \in Messages |-> Utterance(x)]
  <1>1. F \in [Messages -> Utterances]
    BY DEF Messages, Utterances, Utterance
  <1>2. ASSUME NEW q \in Seq(Messages)  PROVE Heard(q) = [i \in DOMAIN q |-> F[q[i]]]
    BY LenProperties, ElementOfSeq DEF Heard
  <1>3. Append(s, m) \in Seq(Messages) /\ F[m] = Utterance(m) /\ F[m] \in Utterances
    BY <1>1, OneMore
  <1> HIDE DEF F
  <1>4. /\ [i \in DOMAIN s |-> F[s[i]]] \in Seq(Utterances)
        /\ [i \in DOMAIN Append(s, m) |-> F[Append(s, m)[i]]]
             = Append([i \in DOMAIN s |-> F[s[i]]], F[m])
    BY <1>1, MappedAppend
  <1> QED BY <1>2, <1>3, <1>4

\* A statement more is said as one more.
LEMMA SaidAppend ==
    ASSUME NEW s \in Seq(Statements), NEW r \in Statements
    PROVE  /\ Said(s) \in Seq(Kinds)
           /\ Said(Append(s, r)) = Append(Said(s), Named(r))
           /\ Named(r) \in Kinds
  <1> DEFINE F == [x \in Statements |-> Named(x)]
  <1>1. F \in [Statements -> Kinds]
    BY DEF Kinds, Named, Kind
  <1>2. ASSUME NEW q \in Seq(Statements)  PROVE Said(q) = [i \in DOMAIN q |-> F[q[i]]]
    BY LenProperties, ElementOfSeq DEF Said
  <1>3. Append(s, r) \in Seq(Statements) /\ F[r] = Named(r) /\ F[r] \in Kinds
    BY <1>1, OneMore
  <1> HIDE DEF F
  <1>4. /\ [i \in DOMAIN s |-> F[s[i]]] \in Seq(Kinds)
        /\ [i \in DOMAIN Append(s, r) |-> F[Append(s, r)[i]]]
             = Append([i \in DOMAIN s |-> F[s[i]]], F[r])
    BY <1>1, MappedAppend
  <1> QED BY <1>2, <1>3, <1>4

-----------------------------------------------------------------------------
(* Steps of a conversation.                                                *)

Busy(c) == pc[c] \notin {"idle", "gone"}

\* What a step leaves of conversation c when it changes nothing of it.
LEMMA TalkStutters ==
    ASSUME NEW c \in Conns, asked'[c] = asked[c], Busy(c)' <=> Busy(c),
           Sent(c)' = Sent(c), open'[c] = open[c]
    PROVE  UNCHANGED Talk(c)!vars
  <1>1. (pc[c] \notin {"idle", "gone"})' = (pc[c] \notin {"idle", "gone"})
    BY DEF Busy
  <1> QED BY <1>1 DEF Talk!vars

\* A statement arrives.
LEMMA TalkAsks ==
    ASSUME NEW c \in Conns, NEW s \in Statements, asked[c] \in Seq(Statements),
           asked'[c] = Append(asked[c], s), ~Busy(c), Busy(c)',
           Sent(c)' = Sent(c), open'[c] = open[c]
    PROVE  Talk(c)!Next
  <1>1. Said(asked'[c]) = Append(Said(asked[c]), Named(s)) /\ Named(s) \in Kinds
    BY SaidAppend
  <1>2. (pc[c] \notin {"idle", "gone"})' = TRUE
    BY DEF Busy
  <1>3. Talk(c)!Ask(Named(s))
    BY <1>1, <1>2 DEF Talk!Ask, Said, Named, Busy
  <1> QED BY <1>1, <1>3 DEF Talk!Next, Kinds

\* What a conversation's open socket is sent is written; a closed one's is lost.
Told(c, m) == Sent(c)' = IF open[c] THEN Append(Sent(c), m) ELSE Sent(c)

\* The statement in progress is answered.
LEMMA TalkAnswers ==
    ASSUME NEW c \in Conns, NEW m \in Messages, Sent(c) \in Seq(Messages),
           asked'[c] = asked[c], asked[c] \in Seq(Statements), open'[c] = open[c],
           Busy(c), ~Busy(c)', Told(c, m), m.chan = Current(c), 1 <= Current(c),
           m.type \in {"error", IF Statement(c).type # "select" THEN "ack" ELSE "initial"}
    PROVE  Talk(c)!Next
  <1> DEFINE n == Len(asked[c])
  <1>1. n \in 1..n /\ DOMAIN asked[c] = 1..n
    BY LenProperties DEF Current
  <1>2. Len(Said(asked[c])) = n
    <2>1. Said(asked[c]) \in [1..n -> Kinds]
      BY <1>1, ElementOfSeq DEF Said, Named, Kind, Kinds
    <2>2. \A h \in [1..n -> Kinds] : Len(h) = n
      BY <1>1
    <2> QED BY <2>1, <2>2
  <1>3. Said(asked'[c]) = Said(asked[c]) /\ Said(asked[c])[n].kind = Kind(Statement(c))
    BY <1>1 DEF Said, Named, Statement, Current
  <1>4. (pc[c] \notin {"idle", "gone"})' = FALSE
    BY DEF Busy
  <1>5. Heard(Sent(c)') = IF open[c] THEN Append(Heard(Sent(c)), Utterance(m)) ELSE Heard(Sent(c))
    BY HeardAppend DEF Told
  <1>6. m.type \in Talk(c)!Replies(Kind(Statement(c)))
    BY DEF Talk!Replies, Kind
  <1>7. Talk(c)!Answer(m.type)
    <2>1. Talk(c)!Write(n, m.type)
      BY <1>5 DEF Talk!Write, Heard, Utterance, Current
    <2> HIDE DEF n
    <2>2. m.type \in Talk(c)!Replies(Said(asked[c])[n].kind)
      BY <1>3, <1>6
    <2> QED BY <1>2, <1>3, <1>4, <2>1, <2>2 DEF Talk!Answer, Said, Named, Busy
  <1>8. m.type \in Talk(c)!ReplyTypes
    BY DEF Talk!ReplyTypes
  <1> QED BY <1>7, <1>8 DEF Talk!Next

\* A live query is told of a change.
LEMMA TalkUpdates ==
    ASSUME NEW c \in Conns, NEW m \in Messages, Sent(c) \in Seq(Messages),
           asked'[c] = asked[c], asked[c] \in Seq(Statements), open'[c] = open[c],
           Busy(c)' <=> Busy(c), Told(c, m), m.type \in {"table", "record"},
           LiveChannel(c, m.chan)
    PROVE  Talk(c)!Next
  <1> DEFINE n == m.chan
  <1>1. n \in DOMAIN asked[c] /\ DOMAIN Said(asked[c]) = DOMAIN asked[c]
    BY DEF LiveChannel, Said
  <1>2. Said(asked'[c]) = Said(asked[c]) /\ Said(asked[c])[n].kind = "live"
    BY <1>1 DEF Said, Named, Kind, LiveChannel
  <1>3. (pc[c] \notin {"idle", "gone"})' = (pc[c] \notin {"idle", "gone"})
    BY DEF Busy
  <1>4. Heard(Sent(c)') = IF open[c] THEN Append(Heard(Sent(c)), Utterance(m)) ELSE Heard(Sent(c))
    BY HeardAppend DEF Told
  <1>5. Talk(c)!Update(n, m.type)
    <2>1. Talk(c)!Write(n, m.type)
      BY <1>4 DEF Talk!Write, Heard, Utterance
    <2> QED BY <1>1, <1>2, <1>3, <2>1 DEF Talk!Update, Talk!Updates, Said, Named
  <1> QED BY <1>1, <1>5 DEF Talk!Next, Talk!Updates, Said, Named

\* The last message may be lost with the socket.
LEMMA TalkCloses ==
    ASSUME NEW c \in Conns, asked'[c] = asked[c], Busy(c)' <=> Busy(c), open[c], open'[c] = FALSE,
           \/ Sent(c)' = Sent(c)
           \/ \E s \in Seq(Messages), m \in Messages : Sent(c) = Append(s, m) /\ Sent(c)' = s
    PROVE  Talk(c)!Next
  <1>1. (pc[c] \notin {"idle", "gone"})' = (pc[c] \notin {"idle", "gone"})
    BY DEF Busy
  <1>2. CASE Sent(c)' = Sent(c)
    BY <1>1, <1>2 DEF Talk!Next, Talk!Close
  <1>3. ASSUME NEW s \in Seq(Messages), NEW m \in Messages, Sent(c) = Append(s, m), Sent(c)' = s
        PROVE  Talk(c)!Next
    <2> DEFINE h == Heard(s)
               t == Append(h, Utterance(m))
    <2>1. h \in Seq(Utterances) /\ Utterance(m) \in Utterances /\ Heard(Sent(c)) = t
      BY <1>3, HeardAppend
    <2> HIDE DEF h
    <2>2. t # << >> /\ SubSeq(t, 1, Len(t) - 1) = h
      BY <2>1
    <2>3. Talk(c)!Close
      BY <1>1, <1>3, <2>1, <2>2 DEF Talk!Close, Heard, Utterance, h
    <2> QED BY <2>3 DEF Talk!Next
  <1> QED BY <1>2, <1>3

-----------------------------------------------------------------------------
(* Steps of the server.                                                    *)

TalkStep(c) == Talk(c)!Next \/ UNCHANGED Talk(c)!vars
More == WritersTakeOne /\ TopOK /\ UpdatersLive

\* A step that sends nothing and leaves every handler as busy as it was.
LEMMA Quiet ==
    ASSUME asked' = asked, wire' = wire, writer' = writer, open' = open,
           \A d \in Conns : Busy(d)' <=> Busy(d)
    PROVE  \A d \in Conns : TalkStep(d)
  <1>1. \A d \in Conns : Sent(d)' = Sent(d)
    BY DEF Sent
  <1> QED BY <1>1, TalkStutters DEF TalkStep

\* A message given to a writer is told; the other connections are told nothing.
LEMMA Writes ==
    ASSUME TalkInv, NEW c \in Conns, NEW m \in Messages,
           WriteMessage(c, m), wire' = wire, open' = open
    PROVE  /\ Sent(c) \in Seq(Messages) /\ Told(c, m)
           /\ WritersTakeOne'
           /\ \A d \in Conns \ {c} : Sent(d)' = Sent(d)
  <1>1. /\ wire \in [Conns -> Seq(Messages)] /\ writer \in [Conns -> Seq(Messages)]
        /\ writer[c] = << >> /\ writer' = [writer EXCEPT ![c] = <<m>>]
    BY DEF TalkInv, Inv, TypeOK, WriteMessage
  <1>2. wire[c] \o writer[c] = wire[c] /\ wire[c] \o <<m>> = Append(wire[c], m)
    BY <1>1, ConcatEmptySeq, OneMore
  <1>3. Sent(c) = wire[c] /\ Sent(c)' = IF open[c] THEN Append(wire[c], m) ELSE wire[c]
    BY <1>1, <1>2 DEF Sent
  <1>4. \A d \in Conns \ {c} : Sent(d)' = Sent(d)
    BY <1>1 DEF Sent
  <1>5. WritersTakeOne'
    <2>1. Len(<<m>>) = 1
      OBVIOUS
    <2> QED BY <1>1, <2>1 DEF TalkInv, WritersTakeOne
  <1> QED BY <1>1, <1>3, <1>4, <1>5 DEF Told

\* Executions that go on or end, and listeners of live ones.
LEMMA UpdatersKept ==
    ASSUME TalkInv, asked' = asked, runs' = runs,
           \A f \in exs' : \E e \in exs : f.id = e.id /\ f.live = e.live /\ (e.st = "read" => f.st = "read"),
           \A l \in (listeners \cup loop.left)' :
              l \in listeners \cup loop.left \/ \E e \in exs : e.live /\ l.ex = e.id
    PROVE  UpdatersLive'
  <1>1. \A c, n : LiveChannel(c, n)' <=> LiveChannel(c, n)
    BY DEF LiveChannel
  <1> QED BY <1>1 DEF TalkInv, UpdatersLive, IsTop

\* Executions that go on in place.
LEMMA UpdatersSame ==
    ASSUME TalkInv, UNCHANGED <<asked, runs, exs, listeners, loop>>
    PROVE  UpdatersLive'
  BY UpdatersKept

\* A handler that waits for no SELECT goes on.
LEMMA TopKept ==
    ASSUME TalkInv, NEW c \in Conns, NEW v, pc[c] # "select", pc' = [pc EXCEPT ![c] = v],
           v = "ack" => Statement(c).type # "select", asked' = asked, exs' = exs
    PROVE  TopOK'
  <1>1. \A d \in Conns : Statement(d)' = Statement(d) /\ Current(d)' = Current(d)
    BY DEF Statement, Current
  <1>2. \A e \in exs : e.id.conn \in Conns
    BY DEF TalkInv, Inv, TypeOK, Executions, ExIds
  <1>3. pc \in [Conns -> {"idle", "insert", "push", "update", "rows", "select",
                          "ack", "error", "gone"}]
    BY DEF TalkInv, Inv, TypeOK
  <1> QED BY <1>1, <1>2, <1>3 DEF TalkInv, TopOK, IsTop

\* The handlers stand still; an execution goes on in place.
LEMMA TopSame ==
    ASSUME TalkInv, UNCHANGED <<pc, asked>>,
           \/ \E q : ~IsTop(q) /\ exs' \subseteq exs \cup {q}
           \/ \E e \in exs : \E f : f.id = e.id /\ exs' = (exs \ {e}) \cup {f}
    PROVE  TopOK'
  <1>1. \A d \in Conns : Statement(d)' = Statement(d) /\ Current(d)' = Current(d)
    BY DEF Statement, Current
  <1>2. \A e \in exs : e.id.conn \in Conns
    BY DEF TalkInv, Inv, TypeOK, Executions, ExIds
  <1>3. CASE \E q : ~IsTop(q) /\ exs' \subseteq exs \cup {q}
    BY <1>1, <1>2, <1>3 DEF TalkInv, TopOK, IsTop
  <1>4. CASE \E e \in exs : \E f : f.id = e.id /\ exs' = (exs \ {e}) \cup {f}
    <2>1. PICK e \in exs : \E f : f.id = e.id /\ exs' = (exs \ {e}) \cup {f}
      BY <1>4
    <2>2. PICK f : f.id = e.id /\ exs' = (exs \ {e}) \cup {f}
      BY <2>1
    <2> QED BY <1>1, <1>2, <2>2 DEF TalkInv, TopOK, IsTop
  <1> QED BY <1>3, <1>4

-----------------------------------------------------------------------------
\* A requery's read transaction begins.
LEMMA BeginRequeryTalks ==
    ASSUME TalkInv, NEW e \in exs, BeginRequery(e)
    PROVE  More' /\ \A d \in Conns : TalkStep(d)
  <1> DEFINE f == [e EXCEPT !.st = "subscribe", !.todo = ReadRows(db, e.where)]
  <1>1. /\ e.st = "start" /\ exs' = (exs \ {e}) \cup {f}
        /\ UNCHANGED <<asked, pc, runs, loop, listeners, writer, wire, open>>
    BY DEF BeginRequery, Replace, clientVars
  <1>2. f.id = e.id /\ f.live = e.live
    BY DEF TalkInv, Inv, TypeOK, Executions
  <1> HIDE DEF f
  <1>3. WritersTakeOne' /\ TopOK' /\ UpdatersLive'
    BY <1>1, <1>2, TopSame, UpdatersKept DEF TalkInv, WritersTakeOne
  <1> QED BY <1>1, <1>3, Quiet DEF More, Busy

\* A live execution subscribes to its table.
LEMMA SubscribeToTableTalks ==
    ASSUME TalkInv, NEW e \in exs, SubscribeToTable(e)
    PROVE  More' /\ \A d \in Conns : TalkStep(d)
  <1> DEFINE f == [e EXCEPT !.st = "read"]
             l == [list |-> e.where, ex |-> e.id]
  <1>1. /\ e.st = "subscribe" /\ exs' = (exs \ {e}) \cup {f} /\ loop'.left = {l}
        /\ UNCHANGED <<asked, pc, runs, listeners, writer, wire, open>>
    BY DEF SubscribeToTable, Replace, clientVars, HandToLoop, Subscription, Waiting
  <1>2. f.id = e.id /\ f.live = e.live /\ f.st = "read" /\ l.ex = e.id
    BY DEF TalkInv, Inv, TypeOK, Executions
  <1>3. e.live
    BY <1>1 DEF TalkInv, UpdatersLive
  <1> HIDE DEF f, l
  <1>4. WritersTakeOne' /\ TopOK' /\ UpdatersLive'
    BY <1>1, <1>2, <1>3, TopSame, UpdatersKept DEF TalkInv, WritersTakeOne
  <1> QED BY <1>1, <1>4, Quiet DEF More, Busy

\* A live execution subscribes to a record.
LEMMA SubscribeToRecordTalks ==
    ASSUME TalkInv, NEW e \in exs, SubscribeToRecord(e)
    PROVE  More' /\ \A d \in Conns : TalkStep(d)
  <1> DEFINE r == First(e.todo)
             f == [e EXCEPT !.todo = @ \ {r}, !.rows = @ \cup {r}]
             l == [list |-> RecordList(r.id), ex |-> e.id]
  <1>1. /\ e.st = "read" /\ e.live /\ exs' = (exs \ {e}) \cup {f} /\ loop'.left = {l}
        /\ UNCHANGED <<asked, pc, runs, listeners, writer, wire, open>>
    BY DEF SubscribeToRecord, Finished, Replace, clientVars, HandToLoop, Subscription, Waiting
  <1>2. f.id = e.id /\ f.live = e.live /\ f.st = e.st /\ l.ex = e.id
    BY DEF TalkInv, Inv, TypeOK, Executions
  <1> HIDE DEF f, l
  <1>3. WritersTakeOne' /\ TopOK' /\ UpdatersLive'
    BY <1>1, <1>2, TopSame, UpdatersKept DEF TalkInv, WritersTakeOne
  <1> QED BY <1>1, <1>3, Quiet DEF More, Busy

\* A top-level query answers.
LEMMA WriteInitialResultTalks ==
    ASSUME TalkInv, NEW e \in exs, WriteInitialResult(e)
    PROVE  More' /\ \A d \in Conns : TalkStep(d)
  <1> DEFINE c == e.id.conn
             m == IF Failed(e) THEN Message("error", e.id.chan, {}, NoValue)
                               ELSE Message("initial", e.id.chan, e.todo \cup e.rows, NoValue)
  <1>1. /\ IsTop(e) /\ WriteMessage(c, m) /\ pc' = [pc EXCEPT ![c] = "idle"] /\ exs' = exs \ {e}
        /\ UNCHANGED <<asked, runs, loop, listeners, wire, open>>
    BY DEF WriteInitialResult, clientVars
  <1>2. /\ c \in Conns /\ e.id.chan \in 1..MaxStatements /\ e.todo \cup e.rows \subseteq Records
        /\ pc \in [Conns -> {"idle", "insert", "push", "update", "rows", "select",
                             "ack", "error", "gone"}]
        /\ asked[c] \in Seq(Statements)
    BY DEF TalkInv, Inv, TypeOK, Executions, ExIds
  <1>3. pc[c] = "select" /\ e.id.chan = Current(c) /\ Statement(c).type = "select"
    BY <1>1 DEF TalkInv, TopOK
  <1>4. m \in Messages /\ m.chan = Current(c) /\ m.type \in {"error", "initial"}
    BY <1>2, <1>3 DEF Message, Messages, ReplyTypes
  <1> HIDE DEF m
  <1>5. /\ Sent(c) \in Seq(Messages) /\ Told(c, m) /\ WritersTakeOne'
        /\ \A d \in Conns \ {c} : Sent(d)' = Sent(d)
    BY <1>1, <1>2, <1>4, Writes
  <1>6. TopOK'
    <2>1. \A d \in Conns : Statement(d)' = Statement(d) /\ Current(d)' = Current(d)
      BY <1>1 DEF Statement, Current
    <2>2. \A x \in exs' : IsTop(x) => x.id.conn # c
      BY <1>1 DEF TalkInv, TopOK
    <2>3. \A x \in exs : x.id.conn \in Conns
      BY DEF TalkInv, Inv, TypeOK, Executions, ExIds
    <2> QED BY <1>1, <1>2, <2>1, <2>2, <2>3 DEF TalkInv, TopOK, IsTop
  <1>7. UpdatersLive'
    BY <1>1, UpdatersKept
  <1>8. Busy(c) /\ ~Busy(c)' /\ \A d \in Conns \ {c} : Busy(d)' <=> Busy(d)
    BY <1>1, <1>2, <1>3 DEF Busy
  <1>9. 1 <= Current(c)
    BY <1>2, <1>3 DEF TalkInv, Inv, HandlerOK
  <1>10. Talk(c)!Next
    BY <1>1, <1>2, <1>3, <1>4, <1>5, <1>8, <1>9, TalkAnswers
  <1>11. \A d \in Conns \ {c} : UNCHANGED Talk(d)!vars
    BY <1>1, <1>5, <1>8, TalkStutters
  <1> QED BY <1>5, <1>6, <1>7, <1>10, <1>11 DEF More, TalkStep

\* A message that updates a live query.
LEMMA UpdateTalks ==
    ASSUME TalkInv, NEW c \in Conns, NEW m \in Messages, WriteMessage(c, m),
           UNCHANGED <<asked, pc, wire, open>>, m.type \in {"table", "record"},
           LiveChannel(c, m.chan)
    PROVE  WritersTakeOne' /\ \A d \in Conns : TalkStep(d)
  <1>1. asked[c] \in Seq(Statements)
    BY DEF TalkInv, Inv, TypeOK
  <1>2. /\ Sent(c) \in Seq(Messages) /\ Told(c, m) /\ WritersTakeOne'
        /\ \A d \in Conns \ {c} : Sent(d)' = Sent(d)
    BY Writes
  <1>3. \A d \in Conns : Busy(d)' <=> Busy(d)
    BY DEF Busy
  <1>4. Talk(c)!Next
    BY <1>1, <1>2, <1>3, TalkUpdates
  <1>5. \A d \in Conns \ {c} : UNCHANGED Talk(d)!vars
    BY <1>2, <1>3, TalkStutters
  <1> QED BY <1>2, <1>4, <1>5 DEF TalkStep

\* A requery goroutine sends what it read.
LEMMA WriteTableUpdateTalks ==
    ASSUME TalkInv, NEW e \in exs, WriteTableUpdate(e)
    PROVE  More' /\ \A d \in Conns : TalkStep(d)
  <1> DEFINE c == e.id.conn
             m == Message("table", e.id.chan, e.todo \cup e.rows, NoValue)
  <1>1. /\ ~IsTop(e) /\ WriteMessage(c, m) /\ exs' = exs \ {e}
        /\ UNCHANGED <<asked, pc, runs, loop, listeners, wire, open>>
    BY DEF WriteTableUpdate, clientVars
  <1>2. c \in Conns /\ e.id.chan \in 1..MaxStatements /\ e.todo \cup e.rows \subseteq Records
    BY DEF TalkInv, Inv, TypeOK, Executions, ExIds
  <1>3. m \in Messages /\ m.chan = e.id.chan /\ m.type = "table"
    BY <1>2 DEF Message, Messages
  <1>4. LiveChannel(c, e.id.chan)
    BY <1>1 DEF TalkInv, UpdatersLive
  <1> HIDE DEF m
  <1>5. TopOK'
    BY <1>1, TopSame
  <1>6. UpdatersLive'
    BY <1>1, UpdatersKept
  <1>7. WritersTakeOne' /\ \A d \in Conns : TalkStep(d)
    BY <1>1, <1>2, <1>3, <1>4, UpdateTalks
  <1> QED BY <1>5, <1>6, <1>7 DEF More

-----------------------------------------------------------------------------
\* A handler that stays busy and sends nothing.
LEMMA BusyHandlerTalks ==
    ASSUME TalkInv, NEW c \in Conns, NEW v, pc[c] \notin {"idle", "gone", "select"},
           v \notin {"idle", "gone"}, v = "ack" => Statement(c).type # "select",
           pc' = [pc EXCEPT ![c] = v],
           UNCHANGED <<asked, exs, runs, listeners, writer, wire, open>>,
           loop'.left \subseteq loop.left
    PROVE  More' /\ \A d \in Conns : TalkStep(d)
  <1>1. TopOK'
    BY TopKept
  <1>2. UpdatersLive'
    BY UpdatersKept
  <1>3. \A d \in Conns : Busy(d)' <=> Busy(d)
    BY DEF Busy, TalkInv, Inv, TypeOK
  <1> QED BY <1>1, <1>2, <1>3, Quiet DEF More, WritersTakeOne, TalkInv

\* What is handed to the loop has no listeners yet.
LEMMA EventHasNoListeners ==
    ASSUME NEW o, NEW r, HandToLoop(TableEvent(o, r))
    PROVE  loop'.left = {}
  BY DEF HandToLoop, TableEvent, Waiting

\* An INSERT is written or refused.
LEMMA InsertRecordTalks ==
    ASSUME TalkInv, NEW c \in Conns, InsertRecord(c)
    PROVE  More' /\ \A d \in Conns : TalkStep(d)
  <1>1. /\ pc[c] = "insert"
        /\ pc' = [pc EXCEPT ![c] = "error"] \/ pc' = [pc EXCEPT ![c] = "push"]
        /\ UNCHANGED <<asked, exs, runs, loop, listeners, writer, wire, open>>
    BY DEF InsertRecord, clientVars
  <1> QED BY <1>1, BusyHandlerTalks

\* Its event is pushed.
LEMMA PushInsertTalks ==
    ASSUME TalkInv, NEW c \in Conns, PushInsert(c)
    PROVE  More' /\ \A d \in Conns : TalkStep(d)
  <1>1. /\ pc[c] = "push" /\ pc' = [pc EXCEPT ![c] = "ack"] /\ loop'.left = {}
        /\ UNCHANGED <<asked, exs, runs, listeners, writer, wire, open>>
    BY EventHasNoListeners DEF PushInsert, clientVars
  <1>2. Statement(c).type = "insert"
    BY <1>1 DEF TalkInv, Inv, HandlerOK
  <1> QED BY <1>1, <1>2, BusyHandlerTalks

\* An UPDATE begins its transaction.
LEMMA BeginUpdateTalks ==
    ASSUME TalkInv, NEW c \in Conns, BeginUpdate(c)
    PROVE  More' /\ \A d \in Conns : TalkStep(d)
  <1>1. /\ pc[c] = "update" /\ pc' = [pc EXCEPT ![c] = "rows"]
        /\ UNCHANGED <<asked, exs, runs, loop, listeners, writer, wire, open>>
    BY DEF BeginUpdate, clientVars
  <1> QED BY <1>1, BusyHandlerTalks

\* A row's event is pushed.
LEMMA UpdateRecordTalks ==
    ASSUME TalkInv, NEW c \in Conns, UpdateRecord(c)
    PROVE  More' /\ \A d \in Conns : TalkStep(d)
  <1>1. /\ loop'.left = {}
        /\ UNCHANGED <<pc, asked, exs, runs, listeners, writer, wire, open>>
    BY EventHasNoListeners DEF UpdateRecord, clientVars
  <1>2. TopOK'
    BY <1>1 DEF TalkInv, TopOK, IsTop, Statement, Current
  <1>3. UpdatersLive'
    BY <1>1, UpdatersKept
  <1> QED BY <1>1, <1>2, <1>3, Quiet DEF More, Busy, WritersTakeOne, TalkInv

\* The UPDATE commits.
LEMMA CommitUpdateTalks ==
    ASSUME TalkInv, NEW c \in Conns, CommitUpdate(c)
    PROVE  More' /\ \A d \in Conns : TalkStep(d)
  <1>1. /\ pc[c] = "rows" /\ pc' = [pc EXCEPT ![c] = "ack"]
        /\ UNCHANGED <<asked, exs, runs, loop, listeners, writer, wire, open>>
    BY DEF CommitUpdate, clientVars
  <1>2. Statement(c).type = "update"
    BY <1>1 DEF TalkInv, Inv, HandlerOK
  <1> QED BY <1>1, <1>2, BusyHandlerTalks

\* A statement other than a SELECT is answered.
LEMMA WriteReplyTalks ==
    ASSUME TalkInv, NEW c \in Conns, WriteReply(c)
    PROVE  More' /\ \A d \in Conns : TalkStep(d)
  <1> DEFINE m == Message(pc[c], Current(c), {}, NoValue)
  <1>1. /\ pc[c] \in {"ack", "error"} /\ WriteMessage(c, m) /\ pc' = [pc EXCEPT ![c] = "idle"]
        /\ UNCHANGED <<asked, exs, runs, loop, listeners, wire, open>>
    BY DEF WriteReply, clientVars
  <1>2. /\ Current(c) \in 1..MaxStatements /\ asked[c] \in Seq(Statements) /\ 1 <= Current(c)
        /\ pc \in [Conns -> {"idle", "insert", "push", "update", "rows", "select",
                             "ack", "error", "gone"}]
    <2>1. Inv
      BY DEF TalkInv
    <2>2. Current(c) \in 1..MaxStatements
      BY <1>1, <2>1, StatementType
    <2> QED BY <2>1, <2>2 DEF Inv, TypeOK
  <1>3. m \in Messages /\ m.chan = Current(c) /\ m.type = pc[c]
    BY <1>1, <1>2 DEF Message, Messages, ReplyTypes
  <1> HIDE DEF m
  <1>4. pc[c] = "ack" => Statement(c).type # "select"
    BY DEF TalkInv, TopOK
  <1>5. /\ Sent(c) \in Seq(Messages) /\ Told(c, m) /\ WritersTakeOne'
        /\ \A d \in Conns \ {c} : Sent(d)' = Sent(d)
    BY <1>1, <1>3, Writes
  <1>6. TopOK'
    BY <1>1, TopKept
  <1>7. UpdatersLive'
    BY <1>1, UpdatersKept
  <1>8. Busy(c) /\ ~Busy(c)' /\ \A d \in Conns \ {c} : Busy(d)' <=> Busy(d)
    BY <1>1, <1>2 DEF Busy
  <1>9. Talk(c)!Next
    BY <1>1, <1>2, <1>3, <1>4, <1>5, <1>8, TalkAnswers
  <1>10. \A d \in Conns \ {c} : UNCHANGED Talk(d)!vars
    BY <1>1, <1>5, <1>8, TalkStutters
  <1> QED BY <1>5, <1>6, <1>7, <1>9, <1>10 DEF More, TalkStep

\* A connection goes.
LEMMA RemoveConnTalks ==
    ASSUME TalkInv, NEW c \in Conns, RemoveConn(c)
    PROVE  More' /\ \A d \in Conns : TalkStep(d)
  <1>1. /\ pc[c] = "idle" /\ pc' = [pc EXCEPT ![c] = "gone"] /\ listeners' \subseteq listeners
        /\ UNCHANGED <<asked, exs, runs, loop, writer, wire, open>>
    BY DEF RemoveConn, RemoveListenersForConn, clientVars
  <1>2. TopOK'
    BY <1>1, TopKept
  <1>3. UpdatersLive'
    BY <1>1, UpdatersKept
  <1>4. \A d \in Conns : Busy(d)' <=> Busy(d)
    BY <1>1 DEF Busy, TalkInv, Inv, TypeOK
  <1> QED BY <1>1, <1>2, <1>3, <1>4, Quiet DEF More, WritersTakeOne, TalkInv

\* A subscription becomes a listener.
LEMMA HandleSubscriptionTalks ==
    ASSUME TalkInv, HandleSubscription
    PROVE  More' /\ \A d \in Conns : TalkStep(d)
  <1>1. /\ listeners' \subseteq listeners \cup loop.left /\ loop'.left = {}
        /\ UNCHANGED <<asked, pc, exs, runs, writer, wire, open>>
    BY DEF HandleSubscription, AddListener, Waiting, clientVars
  <1>2. TopOK'
    BY <1>1 DEF TalkInv, TopOK, IsTop, Statement, Current
  <1>3. UpdatersLive'
    BY <1>1, UpdatersKept
  <1> QED BY <1>1, <1>2, <1>3, Quiet DEF More, Busy, WritersTakeOne, TalkInv

\* The loop takes the listeners of an event.
LEMMA HandleTableEventTalks ==
    ASSUME TalkInv, HandleTableEvent
    PROVE  More' /\ \A d \in Conns : TalkStep(d)
  <1> DEFINE to == Targets(loop.old, loop.new)
  <1>1. to \subseteq listeners
    BY DEF Targets
  <1>2. /\ loop'.left = to \/ loop'.left = {}
        /\ UNCHANGED <<asked, pc, exs, runs, listeners, writer, wire, open>>
    <2>1. [loop EXCEPT !.st = "send", !.left = to].left = to
      BY DEF TalkInv, Inv, TypeOK, Loops
    <2> QED BY <2>1 DEF HandleTableEvent, Waiting, clientVars
  <1>3. TopOK'
    BY <1>2 DEF TalkInv, TopOK, IsTop, Statement, Current
  <1>4. UpdatersLive'
    BY <1>1, <1>2, UpdatersKept
  <1> QED BY <1>2, <1>3, <1>4, Quiet DEF More, Busy, WritersTakeOne, TalkInv

\* The loop sends an event to one listener.
LEMMA SendEventTalks ==
    ASSUME TalkInv, NEW l \in loop.left, SendEvent(l)
    PROVE  More' /\ \A d \in Conns : TalkStep(d)
  <1> DEFINE c == l.ex.conn
             n == l.ex.chan
             m == Message("record", n, {loop.new}, loop.old)
             q == Requery(l.ex, loop.new)
  <1>1. /\ loop'.left \subseteq loop.left
        /\ UNCHANGED <<asked, pc, listeners, wire, open>>
    <2>1. [loop EXCEPT !.left = @ \ {l}].left = loop.left \ {l}
      BY DEF TalkInv, Inv, TypeOK, Loops
    <2> QED BY <2>1 DEF SendEvent, Waiting, clientVars
  <1>2. /\ c \in Conns /\ n \in 1..MaxStatements /\ LiveChannel(c, n)
        /\ loop.new \in Records /\ loop.old \in Values \cup {NoValue}
        /\ runs \in [Conns -> [1..MaxStatements -> Nat]]
    BY DEF TalkInv, UpdatersLive, Inv, TypeOK, Loops, Listeners, ExIds
  <1>3. CASE l.list.on # "rec"
    <2>1. /\ exs' = exs \cup {q} /\ runs' = [runs EXCEPT ![c][n] = @ + 1] /\ writer' = writer
      BY <1>3 DEF SendEvent
    <2>2. q.id = [conn |-> c, chan |-> n, run |-> runs[c][n]] /\ q.live /\ q.st = "start"
      BY DEF Requery
    <2>3. runs[c][n] # 0
      BY <1>2 DEF TalkInv, UpdatersLive, LiveChannel
    <2>4. ~IsTop(q)
      BY <2>2, <2>3 DEF IsTop
    <2> HIDE DEF q
    <2>5. TopOK'
      BY <1>1, <2>1, <2>4, TopSame
    <2>6. UpdatersLive'
      <3>1. \A d, k : LiveChannel(d, k)' <=> LiveChannel(d, k)
        BY <1>1 DEF LiveChannel
      <3>2. \A d \in Conns : \A k \in DOMAIN asked[d] : LiveChannel(d, k) => runs'[d][k] # 0
        <4> SUFFICES ASSUME NEW d \in Conns, NEW k \in DOMAIN asked[d], LiveChannel(d, k)
                     PROVE  runs'[d][k] # 0
          OBVIOUS
        <4>1. k \in 1..MaxStatements
          <5>1. asked[d] \in Seq(Statements) /\ Len(asked[d]) <= MaxStatements
            BY DEF TalkInv, Inv, TypeOK, HandlerOK, Current
          <5> QED BY <5>1, BoundAssumption, LenProperties
        <4>2. runs[d][k] # 0 /\ runs[d][k] \in Nat
          BY <1>2, <4>1 DEF TalkInv, UpdatersLive
        <4>3. CASE d = c /\ k = n
          BY <1>2, <2>1, <4>2, <4>3
        <4>4. CASE ~(d = c /\ k = n)
          BY <1>2, <2>1, <4>1, <4>2, <4>4
        <4> QED BY <4>3, <4>4
      <3>3. \A e \in exs' : e.live => LiveChannel(e.id.conn, e.id.chan)
        BY <1>2, <2>1, <2>2 DEF TalkInv, UpdatersLive
      <3>4. \A e \in exs' : ~e.live => IsTop(e) /\ e.st = "read"
        BY <2>1, <2>2 DEF TalkInv, UpdatersLive
      <3>5. \A k \in (listeners \cup loop.left)' : LiveChannel(k.ex.conn, k.ex.chan)
        BY <1>1 DEF TalkInv, UpdatersLive
      <3> QED BY <1>1, <3>1, <3>2, <3>3, <3>4, <3>5 DEF UpdatersLive, IsTop
    <2> QED BY <1>1, <2>1, <2>5, <2>6, Quiet DEF More, Busy, WritersTakeOne, TalkInv
  <1>4. CASE l.list.on = "rec"
    <2>1. WriteMessage(c, m) /\ exs' = exs /\ runs' = runs
      BY <1>4 DEF SendEvent
    <2>2. m \in Messages /\ m.chan = n /\ m.type = "record"
      BY <1>2 DEF Message, Messages
    <2> HIDE DEF m
    <2>3. TopOK'
      BY <1>1, <2>1 DEF TalkInv, TopOK, IsTop, Statement, Current
    <2>4. UpdatersLive'
      BY <1>1, <2>1, UpdatersKept
    <2>5. WritersTakeOne' /\ \A d \in Conns : TalkStep(d)
      BY <1>1, <1>2, <2>1, <2>2, UpdateTalks
    <2> QED BY <2>3, <2>4, <2>5 DEF More
  <1> QED BY <1>3, <1>4

-----------------------------------------------------------------------------
\* A writer that has a message has one.
LEMMA WriterHasOne ==
    ASSUME TalkInv, NEW c \in Conns, writer[c] # << >>
    PROVE  \E m \in Messages : writer[c] = <<m>>
  <1>1. writer[c] \in Seq(Messages) /\ Len(writer[c]) = 1
    <2>1. writer[c] \in Seq(Messages) /\ Len(writer[c]) <= 1
      BY DEF TalkInv, Inv, TypeOK, WritersTakeOne
    <2> DEFINE w == writer[c]
    <2> HIDE DEF w
    <2>2. w \in Seq(Messages) /\ w # << >> => Len(w) \in Nat \ {0}
      BY EmptySeq
    <2>3. Len(w) \in Nat \ {0} /\ Len(w) <= 1
      BY <2>1, <2>2 DEF w
    <2>4. Len(w) = 1
      BY <2>3
    <2> QED BY <2>1, <2>4 DEF w
  <1>2. writer[c][1] \in Messages
    BY <1>1
  <1>3. writer[c] = <<writer[c][1]>>
    BY <1>1, <1>2, SeqEqual
  <1> QED BY <1>2, <1>3

\* The writer writes to its socket what it had been given: nothing new is said.
LEMMA WriteToSocketTalks ==
    ASSUME TalkInv, NEW c \in Conns, WriteToSocket(c)
    PROVE  More' /\ \A d \in Conns : TalkStep(d)
  <1>1. /\ wire' = IF open[c] THEN [wire EXCEPT ![c] = @ \o writer[c]] ELSE wire
        /\ writer' = [writer EXCEPT ![c] = << >>]
        /\ UNCHANGED <<asked, pc, exs, runs, loop, listeners, open>>
    BY DEF WriteToSocket
  <1>2. wire \in [Conns -> Seq(Messages)] /\ writer \in [Conns -> Seq(Messages)]
    BY DEF TalkInv, Inv, TypeOK
  <1>3. \A d \in Conns : Sent(d)' = Sent(d)
    <2> SUFFICES ASSUME NEW d \in Conns  PROVE Sent(d)' = Sent(d)
      OBVIOUS
    <2>1. CASE d = c /\ open[c]
      <3>1. wire[c] \o writer[c] \in Seq(Messages)
        BY <1>2, ConcatProperties
      <3>2. (wire[c] \o writer[c]) \o << >> = wire[c] \o writer[c]
        BY <3>1, ConcatEmptySeq
      <3> QED BY <1>1, <1>2, <2>1, <3>2 DEF Sent
    <2>2. CASE ~(d = c /\ open[c])
      BY <1>1, <1>2, <2>2 DEF Sent
    <2> QED BY <2>1, <2>2
  <1>4. \A d \in Conns : Busy(d)' <=> Busy(d)
    BY <1>1 DEF Busy
  <1>5. \A d \in Conns : TalkStep(d)
    BY <1>1, <1>3, <1>4, TalkStutters DEF TalkStep
  <1>6. WritersTakeOne'
    <2>1. Len(<< >>) = 0
      OBVIOUS
    <2> QED BY <1>1, <1>2, <2>1 DEF TalkInv, WritersTakeOne
  <1>7. TopOK'
    BY <1>1 DEF TalkInv, TopOK, IsTop, Statement, Current
  <1>8. UpdatersLive'
    BY <1>1, UpdatersSame
  <1> QED BY <1>5, <1>6, <1>7, <1>8 DEF More

\* The message in the writer goes with the socket.
LEMMA CloseSocketTalks ==
    ASSUME TalkInv, NEW c \in Conns, CloseSocket(c)
    PROVE  More' /\ \A d \in Conns : TalkStep(d)
  <1>1. /\ open[c] /\ open' = [open EXCEPT ![c] = FALSE]
        /\ UNCHANGED <<asked, pc, exs, runs, loop, listeners, writer, wire>>
    BY DEF CloseSocket
  <1>2. /\ wire \in [Conns -> Seq(Messages)] /\ writer \in [Conns -> Seq(Messages)]
        /\ open \in [Conns -> BOOLEAN]
    BY DEF TalkInv, Inv, TypeOK
  <1>3. Sent(c) = wire[c] \o writer[c] /\ Sent(c)' = wire[c]
    BY <1>1, <1>2 DEF Sent
  <1>4. \/ Sent(c)' = Sent(c)
        \/ \E s \in Seq(Messages), m \in Messages : Sent(c) = Append(s, m) /\ Sent(c)' = s
    <2>1. CASE writer[c] = << >>
      BY <1>2, <1>3, <2>1, ConcatEmptySeq
    <2>2. CASE writer[c] # << >>
      <3>1. PICK m \in Messages : writer[c] = <<m>>
        BY <2>2, WriterHasOne
      <3>2. wire[c] \o <<m>> = Append(wire[c], m)
        BY <1>2, OneMore
      <3> QED BY <1>2, <1>3, <3>1, <3>2
    <2> QED BY <2>1, <2>2
  <1>5. \A d \in Conns : Busy(d)' <=> Busy(d)
    BY <1>1 DEF Busy
  <1>6. Talk(c)!Next
    BY <1>1, <1>2, <1>4, <1>5, TalkCloses
  <1>7. \A d \in Conns \ {c} : UNCHANGED Talk(d)!vars
    <2>1. \A d \in Conns \ {c} : Sent(d)' = Sent(d) /\ open'[d] = open[d]
      BY <1>1, <1>2 DEF Sent
    <2> QED BY <1>1, <1>5, <2>1, TalkStutters
  <1>8. TopOK'
    BY <1>1 DEF TalkInv, TopOK, IsTop, Statement, Current
  <1>9. UpdatersLive'
    BY <1>1, UpdatersSame
  <1> QED BY <1>1, <1>6, <1>7, <1>8, <1>9 DEF More, TalkStep, WritersTakeOne, TalkInv

\* A statement arrives and its execution, if it is a SELECT, starts.
LEMMA HandleStatementTalks ==
    ASSUME TalkInv, NEW c \in Conns, HandleStatement(c)
    PROVE  More' /\ \A d \in Conns : TalkStep(d)
  <1>0. PICK n : n = Current(c)
    OBVIOUS
  <1>1. PICK s \in Requests[c] :
           /\ asked' = [asked EXCEPT ![c] = Append(@, s)]
           /\ pc' = [pc EXCEPT ![c] = IF s.type = "invalid" THEN "error" ELSE s.type]
           /\ IF s.type = "select"
              THEN /\ exs' = exs \cup {TopExecution(c, n + 1, s)}
                   /\ runs' = [runs EXCEPT ![c][n + 1] = 1]
              ELSE UNCHANGED <<exs, runs>>
    BY <1>0 DEF HandleStatement, NextChannel
  <1>2. pc[c] = "idle" /\ n < Budget[c] /\ UNCHANGED <<loop, listeners, writer, wire, open>>
    BY <1>0 DEF HandleStatement, clientVars
  <1>3. /\ s \in Statements
        /\ s.type \in {"invalid", "insert", "update", "select"}
        /\ s.type = "select" => s.live \in BOOLEAN
    <2>1. s \in Statements
      BY RequestsAssumption
    <2> QED BY <2>1 DEF Statements
  <1>4. /\ asked \in [Conns -> Seq(Statements)]
        /\ runs \in [Conns -> [1..MaxStatements -> Nat]]
        /\ pc \in [Conns -> {"idle", "insert", "push", "update", "rows", "select",
                             "ack", "error", "gone"}]
        /\ \A e \in exs : e.id.conn \in Conns /\ e.id.run \in Nat
    BY DEF TalkInv, Inv, TypeOK, Executions, ExIds
  <1>5. /\ n \in Nat /\ DOMAIN asked[c] = 1..n /\ DOMAIN asked'[c] = 1..n+1 /\ n + 1 \in 1..MaxStatements
        /\ \A k \in 1..n : asked'[c][k] = asked[c][k]
        /\ asked'[c][n + 1] = s /\ Len(asked'[c]) = n + 1
        /\ \A d \in Conns \ {c} : asked'[d] = asked[d]
        /\ asked'[c] = Append(asked[c], s)
    <2>1. asked[c] \in Seq(Statements) /\ asked'[c] = Append(asked[c], s)
      BY <1>1, <1>4
    <2>2. n \in Nat /\ n + 1 \in 1..MaxStatements
      BY <1>0, <1>2, <2>1, BoundAssumption, LenProperties DEF Current
    <2> QED BY <1>0, <1>1, <1>3, <1>4, <2>1, <2>2, OneMore DEF Current
  <1>6. ASSUME NEW d \in Conns, NEW k, LiveChannel(d, k)
        PROVE  LiveChannel(d, k)'
    <2>1. CASE d = c
      <3>1. k \in 1..n /\ k \in 1..n+1
        BY <1>5, <1>6, <2>1 DEF LiveChannel
      <3> QED BY <1>5, <1>6, <2>1, <3>1 DEF LiveChannel
    <2>2. CASE d # c
      BY <1>5, <1>6, <2>2 DEF LiveChannel
    <2> QED BY <2>1, <2>2
  <1>7. ASSUME NEW d \in Conns, NEW k, LiveChannel(d, k)'
        PROVE  LiveChannel(d, k) \/ (d = c /\ k = n + 1 /\ s.type = "select")
    <2>1. CASE d = c
      <3>1. k \in 1..n \/ k = n + 1
        BY <1>5, <1>7, <2>1 DEF LiveChannel
      <3> QED BY <1>5, <1>7, <2>1, <3>1 DEF LiveChannel
    <2>2. CASE d # c
      BY <1>5, <1>7, <2>2 DEF LiveChannel
    <2> QED BY <2>1, <2>2
  <1>7a. PICK e : e = TopExecution(c, n + 1, s)
    OBVIOUS
  <1>8. /\ e.id = [conn |-> c, chan |-> n + 1, run |-> 0] /\ e.live = s.live
        /\ e.st = IF s.live THEN "subscribe" ELSE "read"
    BY <1>7a DEF TopExecution
  <1>9. IsTop(e) /\ e.id.conn = c /\ e.id.chan = n + 1
    BY <1>8 DEF IsTop
  <1>10. exs' = IF s.type = "select" THEN exs \cup {e} ELSE exs
    BY <1>1, <1>7a
  <1>11. \A x \in exs : IsTop(x) => x.id.conn # c
    BY <1>2 DEF TalkInv, TopOK
  <1>12. /\ Current(c)' = n + 1 /\ Statement(c)' = s
         /\ \A d \in Conns \ {c} : Current(d)' = Current(d) /\ Statement(d)' = Statement(d)
    BY <1>0, <1>5 DEF Current, Statement
  <1>13. TopOK'
    <2>1. \A x \in exs' : IsTop(x) =>
             /\ pc'[x.id.conn] = "select"
             /\ x.id.chan = Current(x.id.conn)'
             /\ Statement(x.id.conn)'.type = "select"
      <3> SUFFICES ASSUME NEW x \in exs', IsTop(x)
                   PROVE  /\ pc'[x.id.conn] = "select"
                          /\ x.id.chan = Current(x.id.conn)'
                          /\ Statement(x.id.conn)'.type = "select"
        OBVIOUS
      <3>1. CASE x \in exs
        <4>1. x.id.conn \in Conns \ {c}
          BY <1>4, <1>11, <3>1
        <4> QED BY <1>1, <1>4, <1>12, <3>1, <4>1 DEF TalkInv, TopOK
      <3>2. CASE x = e /\ s.type = "select"
        BY <1>1, <1>4, <1>9, <1>12, <3>2
      <3> QED BY <1>10, <3>1, <3>2
    <2>2. \A x, y \in exs' : IsTop(x) /\ IsTop(y) /\ x.id.conn = y.id.conn => x = y
      BY <1>9, <1>10, <1>11 DEF TalkInv, TopOK
    <2>3. \A d \in Conns : pc'[d] = "ack" => Statement(d)'.type # "select"
      BY <1>1, <1>3, <1>4, <1>12 DEF TalkInv, TopOK
    <2>4. \A x : IsTop(x)' <=> IsTop(x)
      BY DEF IsTop
    <2> QED BY <2>1, <2>2, <2>3, <2>4 DEF TopOK
  <1>13a. ASSUME NEW d \in Conns, NEW k \in 1..MaxStatements, s.type = "select"
        PROVE  runs'[d][k] = IF d = c /\ k = n + 1 THEN 1 ELSE runs[d][k]
    <2>1. runs' = [runs EXCEPT ![c][n + 1] = 1]
      BY <1>1, <1>13a
    <2>2. runs \in [Conns -> [1..MaxStatements -> Nat]]
      BY <1>4
    <2>3. n + 1 \in 1..MaxStatements
      BY <1>5
    <2> QED BY <2>1, <2>2, <2>3
  <1>14. UpdatersLive'
    <2>1. \A d \in Conns : \A k \in DOMAIN asked'[d] : LiveChannel(d, k)' => runs'[d][k] # 0
      <3> SUFFICES ASSUME NEW d \in Conns, NEW k \in DOMAIN asked'[d], LiveChannel(d, k)'
                   PROVE  runs'[d][k] # 0
        OBVIOUS
      <3>1. CASE d = c /\ k = n + 1 /\ s.type = "select"
        BY <1>5, <1>13a, <3>1
      <3>2. CASE LiveChannel(d, k)
        <4>1. k \in DOMAIN asked[d] /\ runs[d][k] # 0
          BY <3>2 DEF TalkInv, UpdatersLive, LiveChannel
        <4>2. ~(d = c /\ k = n + 1)
          BY <1>5, <4>1
        <4>3. k \in 1..MaxStatements
          <5>1. asked[d] \in Seq(Statements) /\ Len(asked[d]) <= MaxStatements
            BY DEF TalkInv, Inv, TypeOK, HandlerOK, Current
          <5> QED BY <4>1, <5>1, BoundAssumption, LenProperties
        <4>4. runs'[d][k] = runs[d][k]
          <5>1. CASE s.type = "select"
            BY <1>13a, <4>2, <4>3, <5>1
          <5>2. CASE s.type # "select"
            BY <1>1, <5>2
          <5> QED BY <5>1, <5>2
        <4> QED BY <4>1, <4>4
      <3> QED BY <1>7, <3>1, <3>2
    <2>2. \A x \in exs' : x.live => LiveChannel(x.id.conn, x.id.chan)'
      <3>1. \A x \in exs : x.live => LiveChannel(x.id.conn, x.id.chan)'
        BY <1>4, <1>6 DEF TalkInv, UpdatersLive
      <3>2. s.type = "select" /\ e.live => LiveChannel(e.id.conn, e.id.chan)'
        <4>1. n + 1 \in 1..n+1
          BY <1>5
        <4>2. s.type = "select" /\ s.live => LiveChannel(c, n + 1)'
          BY <1>5, <4>1 DEF LiveChannel
        <4> QED BY <1>8, <1>9, <4>2
      <3> QED BY <1>10, <3>1, <3>2
    <2>3. \A x \in exs' : ~x.live => IsTop(x) /\ x.st = "read"
      BY <1>3, <1>8, <1>9, <1>10 DEF TalkInv, UpdatersLive
    <2>4. \A l \in listeners \cup loop.left : LiveChannel(l.ex.conn, l.ex.chan)'
      <3>1. \A l \in listeners \cup loop.left : l.ex.conn \in Conns
        BY DEF TalkInv, Inv, TypeOK, Loops, Listeners, ExIds
      <3> QED BY <1>6, <3>1 DEF TalkInv, UpdatersLive
    <2> QED BY <1>2, <2>1, <2>2, <2>3, <2>4 DEF UpdatersLive, IsTop
  <1>15. \A d \in Conns : Sent(d)' = Sent(d) /\ open'[d] = open[d]
    BY <1>2 DEF Sent
  <1>16. Talk(c)!Next
    <2>1. ~Busy(c) /\ Busy(c)'
      BY <1>1, <1>2, <1>3, <1>4 DEF Busy
    <2> QED BY <1>3, <1>4, <1>5, <1>15, <2>1, TalkAsks
  <1>17. \A d \in Conns \ {c} : UNCHANGED Talk(d)!vars
    <2>1. \A d \in Conns \ {c} : Busy(d)' <=> Busy(d)
      BY <1>1, <1>4 DEF Busy
    <2> QED BY <1>5, <1>15, <2>1, TalkStutters
  <1> QED BY <1>2, <1>13, <1>14, <1>16, <1>17 DEF More, TalkStep, WritersTakeOne, TalkInv

-----------------------------------------------------------------------------
\* Every step keeps the invariant and is a step of every conversation.
LEMMA NextTalks ==
    TalkInv /\ [Next]_vars => TalkInv' /\ \A d \in Conns : TalkStep(d)
  <1> SUFFICES ASSUME TalkInv, [Next]_vars
               PROVE  More' /\ \A d \in Conns : TalkStep(d)
    BY NextInv DEF TalkInv, More
  <1>1. ASSUME NEW c \in Conns,
               HandleStatement(c) \/ HandlerStep(c) \/ WriteToSocket(c) \/ CloseSocket(c)
        PROVE  More' /\ \A d \in Conns : TalkStep(d)
    BY <1>1, HandleStatementTalks, InsertRecordTalks, PushInsertTalks, BeginUpdateTalks,
       UpdateRecordTalks, CommitUpdateTalks, WriteReplyTalks, RemoveConnTalks,
       WriteToSocketTalks, CloseSocketTalks DEF HandlerStep
  <1>2. ASSUME NEW e \in exs, ExecutionStep(e)
        PROVE  More' /\ \A d \in Conns : TalkStep(d)
    BY <1>2, BeginRequeryTalks, SubscribeToTableTalks, SubscribeToRecordTalks,
       WriteInitialResultTalks, WriteTableUpdateTalks DEF ExecutionStep
  <1>3. ASSUME LoopStep
        PROVE  More' /\ \A d \in Conns : TalkStep(d)
    BY <1>3, HandleSubscriptionTalks, HandleTableEventTalks, SendEventTalks DEF LoopStep
  <1>4. ASSUME UNCHANGED vars
        PROVE  More' /\ \A d \in Conns : TalkStep(d)
    <2>1. UNCHANGED <<asked, pc, exs, runs, loop, listeners, writer, wire, open>>
      BY <1>4 DEF vars, clientVars
    <2>2. TopOK'
      BY <2>1 DEF TalkInv, TopOK, IsTop, Statement, Current
    <2>3. UpdatersLive'
      BY <2>1, UpdatersSame
    <2> QED BY <2>1, <2>2, <2>3, Quiet DEF More, Busy, WritersTakeOne, TalkInv
  <1> QED BY <1>1, <1>2, <1>3, <1>4 DEF Next

\* The server starts in the invariant, with every conversation at its start.
LEMMA InitTalks == Init => TalkInv /\ \A c \in Conns : Talk(c)!Init
  <1> SUFFICES ASSUME Init PROVE TalkInv /\ \A c \in Conns : Talk(c)!Init
    OBVIOUS
  <1>1. Inv
    BY InitInv
  <1>2. WritersTakeOne /\ TopOK /\ UpdatersLive
    BY DEF Init, WritersTakeOne, TopOK, UpdatersLive, Waiting, LiveChannel
  <1>3. ASSUME NEW c \in Conns  PROVE Talk(c)!Init
    <2>1. asked[c] = << >> /\ wire[c] = << >> /\ writer[c] = << >> /\ pc[c] = "idle" /\ open[c] = TRUE
      BY DEF Init
    <2>2. Sent(c) = << >>
      BY <2>1, ConcatEmptySeq DEF Sent
    <2>3. Said(asked[c]) = << >> /\ Heard(Sent(c)) = << >>
      BY <2>1, <2>2 DEF Said, Heard
    <2>4. (pc[c] \notin {"idle", "gone"}) = FALSE
      BY <2>1
    <2> QED BY <2>1, <2>3, <2>4 DEF Talk!Init, Said, Named, Heard, Utterance
  <1> QED BY <1>1, <1>2, <1>3 DEF TalkInv

\* Every connection's statements, and the messages the server sends it, are
\* those of a Conversation: HandleStatements, the executions it starts and the
\* table's event loop together keep the promise of the abstract specification,
\* whatever the connections, keys, values, statements and closings.
THEOREM ServerConverses == Spec => Converses
  <1>1. TalkInv /\ [Next]_vars => [\A c \in Conns : Talk(c)!Next \/ UNCHANGED Talk(c)!vars]_vars
    BY NextTalks DEF TalkStep
  <1>2. TalkInv /\ [Next]_vars => TalkInv'
    BY NextTalks
  <1>3. Init => TalkInv
    BY InitTalks
  <1>4. Init => \A c \in Conns : Talk(c)!Init
    BY InitTalks
  <1> QED BY <1>1, <1>2, <1>3, <1>4, PTL DEF Spec, Converses

-----------------------------------------------------------------------------
(* Replies in order.                                                       *)

\* Messages s about statements q, the first n of which have been answered.
Ordered(q, n, s) ==
    /\ \A k \in 1..n : \E i \in DOMAIN s : s[i].chan = k /\ s[i].type \in ReplyTypes
    /\ \A i \in DOMAIN s :
          IF s[i].type \in ReplyTypes
          THEN /\ s[i].chan \in 1..n
               /\ s[i].type \in {"error", IF q[s[i].chan].kind = "write" THEN "ack" ELSE "initial"}
               /\ \A j \in 1..i-1 : s[j].type \in ReplyTypes => s[j].chan < s[i].chan
          ELSE s[i].chan \in DOMAIN q /\ q[s[i].chan].kind = "live"

\* One more statement disturbs none of the messages.
LEMMA OrderedAsked ==
    ASSUME NEW q \in Seq(Kinds), NEW k \in Kinds, NEW s \in Seq(Utterances),
           Ordered(q, Len(q), s)
    PROVE  Ordered(Append(q, k), Len(q), s)
  <1>1. /\ Len(q) \in Nat /\ DOMAIN q = 1..Len(q) /\ DOMAIN Append(q, k) = 1..Len(q) + 1
        /\ \A i \in 1..Len(q) : Append(q, k)[i] = q[i]
    BY OneMore
  <1> QED BY <1>1 DEF Ordered

\* Neither does a message more: the reply to the statement in progress, or an
\* update of a live query.
LEMMA OrderedTold ==
    ASSUME NEW q \in Seq(Kinds), NEW n \in Nat, NEW n1 \in Nat, NEW s \in Seq(Utterances),
           NEW m \in Utterances, Ordered(q, n, s),
           IF m.type \in ReplyTypes
           THEN /\ n1 = n + 1 /\ m.chan = n1
                /\ m.type \in {"error", IF q[n1].kind = "write" THEN "ack" ELSE "initial"}
           ELSE n1 = n /\ m.chan \in DOMAIN q /\ q[m.chan].kind = "live"
    PROVE  Ordered(q, n1, Append(s, m))
  <1> DEFINE t == Append(s, m)
  <1>1. /\ Len(s) \in Nat /\ DOMAIN s = 1..Len(s) /\ DOMAIN t = 1..Len(s) + 1
        /\ \A i \in 1..Len(s) : t[i] = s[i]
        /\ t[Len(s) + 1] = m
    BY OneMore
  <1> HIDE DEF t
  <1>2. ASSUME NEW k \in 1..n1
        PROVE  \E i \in DOMAIN t : t[i].chan = k /\ t[i].type \in ReplyTypes
    <2>1. CASE k \in 1..n
      <3>1. PICK i \in DOMAIN s : s[i].chan = k /\ s[i].type \in ReplyTypes
        BY <2>1 DEF Ordered
      <3>2. i \in DOMAIN t /\ t[i] = s[i]
        BY <1>1
      <3> QED BY <3>1, <3>2
    <2>2. CASE k \notin 1..n
      <3>1. k = n1 /\ m.type \in ReplyTypes /\ m.chan = k
        BY <2>2
      <3> QED BY <1>1, <3>1
    <2> QED BY <2>1, <2>2
  <1>3. ASSUME NEW i \in DOMAIN t
        PROVE  IF t[i].type \in ReplyTypes
               THEN /\ t[i].chan \in 1..n1
                    /\ t[i].type \in {"error", IF q[t[i].chan].kind = "write" THEN "ack" ELSE "initial"}
                    /\ \A j \in 1..i-1 : t[j].type \in ReplyTypes => t[j].chan < t[i].chan
               ELSE t[i].chan \in DOMAIN q /\ q[t[i].chan].kind = "live"
    <2>1. CASE i = Len(s) + 1
      <3>1. \A j \in 1..i-1 : s[j].type \in ReplyTypes => s[j].chan \in 1..n
        BY <1>1, <2>1, SMTT(30) DEF Ordered
      <3>2. \A j \in 1..i-1 : t[j] = s[j]
        BY <1>1, <2>1
      <3>3. t[i] = m
        BY <1>1, <2>1
      <3>4. m.type \in ReplyTypes => \A j \in 1..i-1 : t[j].type \in ReplyTypes => t[j].chan < m.chan
        BY <3>1, <3>2
      <3> QED BY <3>3, <3>4
    <2>2. CASE i # Len(s) + 1
      <3>1. i \in DOMAIN s /\ t[i] = s[i] /\ \A j \in 1..i-1 : t[j] = s[j]
        BY <1>1, <2>2
      <3>2. 1..n \subseteq 1..n1
        OBVIOUS
      <3>3. IF s[i].type \in ReplyTypes
            THEN /\ s[i].chan \in 1..n
                 /\ s[i].type \in {"error", IF q[s[i].chan].kind = "write" THEN "ack" ELSE "initial"}
                 /\ \A j \in 1..i-1 : s[j].type \in ReplyTypes => s[j].chan < s[i].chan
            ELSE s[i].chan \in DOMAIN q /\ q[s[i].chan].kind = "live"
        BY <3>1 DEF Ordered
      <3> QED BY <3>1, <3>2, <3>3
    <2> QED BY <2>1, <2>2
  <1> QED BY <1>2, <1>3 DEF Ordered, t

\* The statements a connection has had answered: all but the one in progress.
AnsweredOf(c) == IF Busy(c) THEN Len(Said(asked[c])) - 1 ELSE Len(Said(asked[c]))

OrderedOf(c) == Ordered(Said(asked[c]), AnsweredOf(c), Heard(Sent(c)))

\* What is said, statement by statement.
LEMMA SaidAll ==
    ASSUME NEW s \in Seq(Statements)
    PROVE  Said(s) \in Seq(Kinds) /\ Len(Said(s)) = Len(s) /\ Len(s) \in Nat
  <1>1. Len(s) \in Nat /\ DOMAIN s = 1..Len(s) /\ \A i \in 1..Len(s) : s[i] \in Statements
    BY LenProperties, ElementOfSeq
  <1>2. Said(s) \in [1..Len(s) -> Kinds]
    BY <1>1 DEF Said, Named, Kind, Kinds
  <1> QED BY <1>1, <1>2

\* What is heard, message by message.
LEMMA HeardAll ==
    ASSUME NEW s \in Seq(Messages)
    PROVE  Heard(s) \in Seq(Utterances)
  <1>1. Len(s) \in Nat /\ DOMAIN s = 1..Len(s) /\ \A i \in 1..Len(s) : s[i] \in Messages
    BY LenProperties, ElementOfSeq
  <1>2. Heard(s) \in [1..Len(s) -> Utterances]
    BY <1>1 DEF Heard, Utterance, Utterances, Messages
  <1> QED BY <1>1, <1>2

LEMMA SentType ==
    ASSUME TypeOK, NEW c \in Conns
    PROVE  Sent(c) \in Seq(Messages) /\ asked[c] \in Seq(Statements)
  <1>1. wire[c] \in Seq(Messages) /\ writer[c] \in Seq(Messages) /\ asked[c] \in Seq(Statements)
    BY DEF TypeOK
  <1>2. wire[c] \o writer[c] \in Seq(Messages)
    BY <1>1, ConcatProperties
  <1> QED BY <1>1, <1>2 DEF Sent

\* What a Conversation calls in order, in these terms.
LEMMA OrderedMeans ==
    ASSUME NEW c \in Conns
    PROVE  Talk(c)!RepliesInOrder <=> (open[c] => OrderedOf(c))
  BY DEF Talk!RepliesInOrder, Talk!Answered, Talk!IsReply, Talk!Replies, Talk!ReplyTypes,
         Ordered, OrderedOf, AnsweredOf, Busy, Said, Heard, Named, Utterance, ReplyTypes

\* One step of a conversation that stays open keeps its replies in order.
LEMMA TalkKeepsOrder ==
    ASSUME TypeOK, TypeOK', HandlerOK, NEW c \in Conns, TalkStep(c), open'[c], OrderedOf(c)
    PROVE  OrderedOf(c)'
  <1> DEFINE q == Said(asked[c])
             s == Heard(Sent(c))
             k == Current(c)
  <1>1. /\ q \in Seq(Kinds) /\ Len(q) = k /\ k \in Nat /\ s \in Seq(Utterances)
        /\ Len(q)' = k'
    <2>1. Sent(c) \in Seq(Messages) /\ asked[c] \in Seq(Statements) /\ asked'[c] \in Seq(Statements)
      BY SentType DEF TypeOK
    <2> QED BY <2>1, SaidAll, HeardAll DEF Current
  <1>2. /\ Busy(c) => 1 <= k
        /\ 1..k \subseteq 1..MaxStatements /\ DOMAIN q = 1..k
        /\ AnsweredOf(c) = IF Busy(c) THEN k - 1 ELSE k
        /\ AnsweredOf(c)' = IF Busy(c)' THEN k' - 1 ELSE k'
    BY <1>1, BoundAssumption DEF HandlerOK, Busy, AnsweredOf
  <1>3. Ordered(q, AnsweredOf(c), s)
    BY DEF OrderedOf
  <1>4. Ordered(q', AnsweredOf(c)', s') => OrderedOf(c)'
    BY DEF OrderedOf
  <1>5. CASE UNCHANGED Talk(c)!vars
    <2>1. q' = q /\ s' = s /\ (Busy(c)' <=> Busy(c))
      BY <1>5 DEF Talk!vars, Said, Heard, Named, Utterance, Busy
    <2> QED BY <1>1, <1>2, <1>3, <1>4, <2>1
  <1>6. ASSUME NEW r \in Kinds, Talk(c)!Ask(r)  PROVE OrderedOf(c)'
    <2>1. q' = Append(q, r) /\ s' = s /\ Busy(c)' /\ ~Busy(c)
      BY <1>6 DEF Talk!Ask, Said, Heard, Named, Utterance, Busy
    <2>2. Len(Append(q, r)) = k + 1
      BY <1>1
    <2>3. k' = k + 1 /\ AnsweredOf(c) = k /\ AnsweredOf(c)' = k
      BY <1>1, <1>2, <2>1, <2>2
    <2>4. Ordered(Append(q, r), k, s)
      BY <1>1, <1>3, <2>3, OrderedAsked
    <2> QED BY <1>4, <2>1, <2>3, <2>4
  <1>7. ASSUME NEW type \in ReplyTypes, Talk(c)!Answer(type)  PROVE OrderedOf(c)'
    <2> DEFINE m == [chan |-> k, type |-> type]
    <2>1. /\ q' = q /\ Busy(c) /\ ~Busy(c)' /\ open[c]
          /\ type \in {"error", IF q[k].kind = "write" THEN "ack" ELSE "initial"}
          /\ s' = Append(s, m)
      BY <1>1, <1>7 DEF Talk!Answer, Talk!Write, Talk!Replies, Said, Heard, Named, Utterance, Busy
    <2>2. k' = k /\ AnsweredOf(c) = k - 1 /\ AnsweredOf(c)' = k /\ k - 1 \in Nat /\ k = (k - 1) + 1
      BY <1>1, <1>2, <2>1
    <2>3. m \in Utterances /\ m.type = type /\ m.chan = k
      BY <1>1, <1>2, <2>1 DEF Utterances
    <2> HIDE DEF m
    <2>4. Ordered(q, k, Append(s, m))
      BY <1>1, <1>3, <2>1, <2>2, <2>3, OrderedTold
    <2> QED BY <1>4, <2>1, <2>2, <2>4
  <1>8. ASSUME NEW n \in DOMAIN q, NEW type \in {"table", "record", "garbled"}, Talk(c)!Update(n, type)
        PROVE  OrderedOf(c)'
    <2> DEFINE m == [chan |-> n, type |-> type]
    <2>1. /\ q' = q /\ (Busy(c)' <=> Busy(c)) /\ open[c] /\ q[n].kind = "live"
          /\ s' = Append(s, m)
      BY <1>8 DEF Talk!Update, Talk!Write, Said, Heard, Named, Utterance, Busy
    <2>2. k' = k /\ AnsweredOf(c)' = AnsweredOf(c) /\ AnsweredOf(c) \in Nat
      BY <1>1, <1>2, <2>1
    <2>3. m \in Utterances /\ m.type \notin ReplyTypes /\ m.chan = n
      BY <1>2 DEF Utterances, ReplyTypes
    <2> HIDE DEF m
    <2>4. Ordered(q, AnsweredOf(c), Append(s, m))
      BY <1>1, <1>3, <2>1, <2>2, <2>3, OrderedTold
    <2> QED BY <1>4, <2>1, <2>2, <2>4
  <1>9. ~Talk(c)!Close
    BY DEF Talk!Close
  <1> QED BY <1>5, <1>6, <1>7, <1>8, <1>9
          DEF TalkStep, Talk!Next, Talk!ReplyTypes, Talk!Updates, ReplyTypes, Kinds, Said, Named

\* A socket that is open was open before.
LEMMA OpenBefore ==
    ASSUME NEW c \in Conns, TalkStep(c), open'[c]
    PROVE  open[c]
  BY DEF TalkStep, Talk!Next, Talk!Ask, Talk!Answer, Talk!Update, Talk!Close, Talk!vars

\* While a connection lasts, its statements are answered once each and in the
\* order they were sent, with a reply of their kind, whatever updates the loop
\* and the requeries write in between: the promise of every Conversation, kept
\* by HandleStatements, the executions it starts and the event loop.
THEOREM ServerRepliesInOrder == Spec => []RepliesInOrder
  <1> DEFINE J == TalkInv /\ RepliesInOrder
             OpenOrdered == \A c \in Conns : open[c] => OrderedOf(c)
  <1>0. RepliesInOrder <=> OpenOrdered
    BY OrderedMeans DEF RepliesInOrder
  <1>0a. (RepliesInOrder <=> OpenOrdered)'
    BY <1>0, PTL
  <1>1. Init => J
    <2> SUFFICES ASSUME Init  PROVE J
      OBVIOUS
    <2>1. TalkInv
      BY InitTalks
    <2>2. ASSUME NEW c \in Conns  PROVE OrderedOf(c)
      <3>1. asked[c] = << >> /\ wire[c] = << >> /\ writer[c] = << >> /\ pc[c] = "idle"
        BY DEF Init
      <3>2. Heard(Sent(c)) = << >> /\ Said(asked[c]) = << >> /\ AnsweredOf(c) = 0
        BY <3>1, ConcatEmptySeq DEF Sent, Heard, Said, AnsweredOf, Busy
      <3> QED BY <3>2 DEF OrderedOf, Ordered
    <2> QED BY <1>0, <2>1, <2>2 DEF TalkInv, Inv
  <1>2. J /\ [Next]_vars => J'
    <2> SUFFICES ASSUME J, [Next]_vars  PROVE J'
      OBVIOUS
    <2>1. TalkInv' /\ \A d \in Conns : TalkStep(d)
      BY NextTalks
    <2>2. TypeOK /\ HandlerOK /\ TypeOK' /\ OpenOrdered
      BY <1>0, <2>1 DEF TalkInv, Inv
    <2>3. ASSUME NEW c \in Conns, open'[c]  PROVE OrderedOf(c)'
      BY <2>1, <2>2, <2>3, OpenBefore, TalkKeepsOrder
    <2> QED BY <1>0a, <2>1, <2>2, <2>3
  <1>3. J => RepliesInOrder
    OBVIOUS
  <1> QED BY <1>1, <1>2, <1>3, PTL DEF Spec

=============================================================================
