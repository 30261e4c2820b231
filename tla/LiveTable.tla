----------------------------- MODULE LiveTable -----------------------------
(***************************************************************************)
(* One TreeSQL table, the clients that write it, and the clients that hold *)
(* live queries on it.                                                     *)
(*                                                                         *)
(* Processes, as in the Go program:                                        *)
(*   - a handler per connection (Connection.HandleStatements), which runs  *)
(*     one statement at a time;                                            *)
(*   - a writer per connection (writeMessagesToSocket), fed by the         *)
(*     unbuffered channel conn.Messages;                                   *)
(*   - the event loop of the table (TableDescriptor.HandleEvents), fed by  *)
(*     three unbuffered channels;                                          *)
(*   - one goroutine per inserted record and matching listener, which      *)
(*     queries that record again (the `go func` of ListenerList.SendEvent).*)
(*                                                                         *)
(* Queries here are flat (no nested selections).  A record has a primary   *)
(* key `id` and one other column `val`; UPDATE sets `val`.                 *)
(*                                                                         *)
(* A definition commented "Faulty variant" is no part of the specification:*)
(* it is the definition after it with a plausible bug, and shows which     *)
(* property such a bug breaks.                                             *)
(***************************************************************************)
EXTENDS Integers, Sequences, FiniteSets

CONSTANTS
    Conns,          \* client connections
    NoConn,         \* "nobody" as the owner of bolt's writer lock
    Keys,           \* primary key values, ordered as their bytes are
    Values,         \* values of the other column
    NoValue,        \* no record, or the empty string of an empty record
    InitialTables,  \* what the bolt file may hold when the server starts
    Requests,       \* the statements each connection may send
    MaxStatements,  \* bound: statements of any connection
    Budget,         \* bound: statements of each connection
    Closers,        \* connections whose client may close its socket
    Slow            \* connections whose client may stop reading

\* bolt refuses an empty key, so the key of an empty record is no record's key.
NoId == 0

ASSUME ConnsAssumption == NoConn \notin Conns
ASSUME KeysAssumption == Keys \subseteq Nat \ {NoId}
ASSUME ValuesAssumption == NoValue \notin Values
ASSUME BoundAssumption == MaxStatements \in Nat /\ Budget \in [Conns -> 0..MaxStatements]

-----------------------------------------------------------------------------
(* Data: records, WHERE clauses, statements and messages.                  *)

\* What a query selects, and the lists its listeners are kept in.
AllRows == [on |-> "all", is |-> NoValue]
WhereId(k) == [on |-> "id", is |-> k]
WhereVal(v) == [on |-> "val", is |-> v]
RecordList(k) == [on |-> "rec", is |-> k]

Filters == {AllRows} \cup {WhereId(k) : k \in Keys} \cup {WhereVal(v) : v \in Values}
Lists == Filters \cup {RecordList(k) : k \in Keys \cup {NoId}}

Record(k, v) == [id |-> k, val |-> v]
EmptyRecord == Record(NoId, NoValue)
Records == [id : Keys \cup {NoId}, val : Values \cup {NoValue}]
Tables == [Keys -> Values \cup {NoValue}]

Statements ==
    [type : {"invalid"}]
    \cup [type : {"insert"}, id : Keys, val : Values]
    \cup [type : {"update"}, set : Values, where : Filters \ {AllRows}]
    \cup [type : {"select"}, live : BOOLEAN, one : BOOLEAN, where : Filters]

ASSUME InitialAssumption == InitialTables \subseteq Tables
ASSUME RequestsAssumption == Requests \in [Conns -> SUBSET Statements]

Message(type, chan, rows, old) ==
    [type |-> type, chan |-> chan, rows |-> rows, old |-> old]
ReplyTypes == {"error", "ack", "initial"}
Messages == [type : ReplyTypes \cup {"table", "record"}, chan : 1..MaxStatements,
             rows : SUBSET Records, old : Values \cup {NoValue}]

\* A SelectExecution: the channel it runs for, and its number on that channel
\* (0 is the statement itself, the others are requeries of inserted records).
ExIds == [conn : Conns, chan : 1..MaxStatements, run : Nat]
Executions == [id : ExIds, live : BOOLEAN, one : BOOLEAN, where : Filters,
               st : {"start", "subscribe", "read"},
               todo : SUBSET Records, rows : SUBSET Records]
Listeners == [list : Lists, ex : ExIds]

-----------------------------------------------------------------------------
VARIABLES
    db,         \* the committed table in bolt
    wtx,        \* the open bolt write transaction of an UPDATE, if any
    asked,      \* per connection, the statements received; channel n runs asked[c][n]
    pc,         \* per connection, where its handler is
    channels,   \* per connection, Connection.Channels
    exs,        \* the SelectExecutions that are running
    runs,       \* per channel, how many executions it has started
    loop,       \* the table's event loop
    listeners,  \* all the listeners in LiveQueryInfo
    num,        \* per list, ListenerList.numListeners
    writer,     \* per connection, the message its writer has taken (at most one)
    wire,       \* per connection, the messages written to its socket
    open        \* per connection, whether its socket is open

clientVars == <<wire, open>>
vars == <<db, wtx, asked, pc, channels, exs, runs, loop, listeners, num, writer, clientVars>>

Present(tab) == {k \in Keys : tab[k] # NoValue}
Stored(tab) == {Record(k, tab[k]) : k \in Present(tab)}
Least(S) == CHOOSE k \in S : \A j \in S : k <= j
First(rows) == CHOOSE r \in rows : \A q \in rows : r.id <= q.id

NoTx == [owner |-> NoConn, rows |-> [k \in Keys |-> NoValue], todo |-> {}]
WriteTxs == [owner : Conns \cup {NoConn}, rows : Tables, todo : SUBSET Keys]

\* The loop waits in its select, holds a subscription or an event it has
\* received, or sends an event to the listeners `left` while holding mu.
Waiting == [st |-> "select", old |-> NoValue, new |-> EmptyRecord, left |-> {}]
Subscription(l) == [Waiting EXCEPT !.st = "subscribe", !.left = {l}]
TableEvent(o, r) == [Waiting EXCEPT !.st = "event", !.old = o, !.new = r]
Loops == [st : {"select", "subscribe", "event", "send"}, old : Values \cup {NoValue},
          new : Records, left : SUBSET Listeners]

Init ==
    /\ db \in InitialTables
    /\ wtx = NoTx
    /\ asked = [c \in Conns |-> << >>]
    /\ pc = [c \in Conns |-> "idle"]
    /\ channels = [c \in Conns |-> {}]
    /\ exs = {}
    /\ runs = [c \in Conns |-> [n \in 1..MaxStatements |-> 0]]
    /\ loop = Waiting
    /\ listeners = {}
    /\ num = [l \in Lists |-> 0]
    /\ writer = [c \in Conns |-> << >>]
    /\ wire = [c \in Conns |-> << >>]
    /\ open = [c \in Conns |-> TRUE]

-----------------------------------------------------------------------------
(* Rendezvous on the unbuffered Go channels: a send happens only together  *)
(* with its receive.                                                       *)

\* conn.Messages: Channel.writeMessage meets writeMessagesToSocket.
WriteMessage(c, m) ==
    /\ writer[c] = << >>
    /\ writer' = [writer EXCEPT ![c] = <<m>>]

\* LiveQueryInfo's three channels meet the select of HandleEvents.
HandToLoop(x) == loop.st = "select" /\ loop' = x

Current(c) == Len(asked[c])
Statement(c) == asked[c][Current(c)]
CloseChannel(c) == channels' = [channels EXCEPT ![c] = @ \ {Current(c)}]

-----------------------------------------------------------------------------
(* SELECT.                                                                 *)

\* Faulty variant: a seek that skips the key itself.
SeekPast(tab, k) ==
    LET later == {j \in Present(tab) : k < j}
    IN  IF later = {} THEN EmptyRecord ELSE Record(Least(later), tab[Least(later)])

\* BoltIterator.Get: Cursor.Seek stops at the key or at the next one after it;
\* past the last key it yields no bytes, which decode to an empty record.
Seek(tab, k) ==
    LET later == {j \in Present(tab) : k <= j}
    IN  IF later = {} THEN EmptyRecord ELSE Record(Least(later), tab[Least(later)])

\* The records a query's lookup or scan reads in snapshot tab.
ReadRows(tab, where) ==
    CASE where.on = "id"  -> {Seek(tab, where.is)}
      [] where.on = "val" -> {r \in Stored(tab) : r.val = where.is}
      [] OTHER            -> Stored(tab)

\* Faulty variant: a plain SELECT that subscribes like a live one.
SubscribedExecution(c, n, s) ==
    [id |-> [conn |-> c, chan |-> n, run |-> 0],
     live |-> s.live, one |-> s.one, where |-> s.where, st |-> "subscribe",
     todo |-> ReadRows(db, s.where), rows |-> {}]

\* The execution of a top-level SELECT, its read transaction begun: the
\* snapshot is fixed before any subscription is sent.
TopExecution(c, n, s) ==
    [id |-> [conn |-> c, chan |-> n, run |-> 0],
     live |-> s.live, one |-> s.one, where |-> s.where,
     st |-> IF s.live THEN "subscribe" ELSE "read",
     todo |-> ReadRows(db, s.where), rows |-> {}]

\* The execution ListenerList.SendEvent starts for a listener and a new
\* record.  (The query's ONE is copied too, but a lookup never looks at it; and a
\* later listener of the channel, captured instead, differs in its path only.)
Requery(x, r) ==
    [id |-> [conn |-> x.conn, chan |-> x.chan, run |-> runs[x.conn][x.chan]],
     live |-> TRUE, one |-> FALSE, where |-> WhereId(r.id),
     st |-> "start", todo |-> {}, rows |-> {}]

IsTop(e) == e.id.run = 0
Scans(e) == e.where.on # "id"
\* A scan for ONE row gives up when it meets a second one.
Finished(e) ==
    /\ e.st = "read"
    /\ e.todo = {} \/ ~e.live \/ (e.one /\ Scans(e) /\ e.rows # {})
Failed(e) == e.one /\ Scans(e) /\ Cardinality(e.todo \cup e.rows) # 1

Replace(e, f) == exs' = (exs \ {e}) \cup {f}

\* executeQuery of a requery goroutine: its read transaction begins.
BeginRequery(e) ==
    /\ e.st = "start"
    /\ Replace(e, [e EXCEPT !.st = "subscribe", !.todo = ReadRows(db, e.where)])
    /\ UNCHANGED <<db, wtx, asked, pc, channels, runs, loop, listeners, num, writer, clientVars>>

\* executeSelect: a live query sends its table subscription, then reads.
SubscribeToTable(e) ==
    /\ e.st = "subscribe"
    /\ HandToLoop(Subscription([list |-> e.where, ex |-> e.id]))
    /\ Replace(e, [e EXCEPT !.st = "read"])
    /\ UNCHANGED <<db, wtx, asked, pc, channels, runs, listeners, num, writer, clientVars>>

\* scanTable, lookupRecord: a live query subscribes to each record it returns.
SubscribeToRecord(e) ==
    /\ e.st = "read" /\ ~Finished(e)
    /\ LET r == First(e.todo)
       IN  /\ HandToLoop(Subscription([list |-> RecordList(r.id), ex |-> e.id]))
           /\ Replace(e, [e EXCEPT !.todo = @ \ {r}, !.rows = @ \cup {r}])
    /\ UNCHANGED <<db, wtx, asked, pc, channels, runs, listeners, num, writer, clientVars>>

\* A top-level query answers; the channel of a live one stays, even if it failed.
WriteInitialResult(e) ==
    /\ IsTop(e) /\ Finished(e)
    /\ LET c == e.id.conn IN
       /\ WriteMessage(c, IF Failed(e)
                          THEN Message("error", e.id.chan, {}, NoValue)
                          ELSE Message("initial", e.id.chan, e.todo \cup e.rows, NoValue))
       /\ pc' = [pc EXCEPT ![c] = "idle"]
       /\ IF e.live THEN UNCHANGED channels ELSE CloseChannel(c)
    /\ exs' = exs \ {e}
    /\ UNCHANGED <<db, wtx, asked, runs, loop, listeners, num, clientVars>>

\* A requery goroutine sends what it read and ends.
WriteTableUpdate(e) ==
    /\ ~IsTop(e) /\ Finished(e)
    /\ WriteMessage(e.id.conn, Message("table", e.id.chan, e.todo \cup e.rows, NoValue))
    /\ exs' = exs \ {e}
    /\ UNCHANGED <<db, wtx, asked, pc, channels, runs, loop, listeners, num, clientVars>>

ExecutionStep(e) ==
    \/ BeginRequery(e) \/ SubscribeToTable(e) \/ SubscribeToRecord(e)
    \/ WriteInitialResult(e) \/ WriteTableUpdate(e)

-----------------------------------------------------------------------------
(* The connection's handler: statements, INSERT, UPDATE.                   *)

\* Channels of a connection are numbered from 1 (from 0 in the code), one per
\* statement received.
\* Faulty variant: NextChannelID incremented too late.
ReusedChannel(c) == Current(c)
NextChannel(c) == Current(c) + 1

\* HandleStatements, addChannel, HandleStatement: a statement gets the next
\* channel, is parsed and validated, and starts.
HandleStatement(c) ==
    /\ pc[c] = "idle" /\ Current(c) < Budget[c]
    /\ \E s \in Requests[c] :
       LET n == NextChannel(c) IN
       /\ asked' = [asked EXCEPT ![c] = Append(@, s)]
       /\ channels' = [channels EXCEPT ![c] = @ \cup {n}]
       /\ pc' = [pc EXCEPT ![c] = IF s.type = "invalid" THEN "error" ELSE s.type]
       /\ IF s.type = "select"
          THEN /\ exs' = exs \cup {TopExecution(c, n, s)}
               /\ runs' = [runs EXCEPT ![c][n] = 1]
          ELSE UNCHANGED <<exs, runs>>
    /\ UNCHANGED <<db, wtx, loop, listeners, num, writer, clientVars>>

\* ExecuteInsert's bolt transaction: refuse a key that exists, else put.
InsertRecord(c) ==
    /\ pc[c] = "insert" /\ wtx.owner = NoConn
    /\ LET s == Statement(c) IN
       IF db[s.id] # NoValue
       THEN /\ pc' = [pc EXCEPT ![c] = "error"]
            /\ UNCHANGED db
       ELSE /\ db' = [db EXCEPT ![s.id] = s.val]
            /\ pc' = [pc EXCEPT ![c] = "push"]
    /\ UNCHANGED <<wtx, asked, channels, exs, runs, loop, listeners, num, writer, clientVars>>

\* PushTableEvent after the commit.
PushInsert(c) ==
    /\ pc[c] = "push"
    /\ HandToLoop(TableEvent(NoValue, Record(Statement(c).id, Statement(c).val)))
    /\ pc' = [pc EXCEPT ![c] = "ack"]
    /\ UNCHANGED <<db, wtx, asked, channels, exs, runs, listeners, num, writer, clientVars>>

\* ExecuteUpdate takes bolt's writer lock; the rows ForEach will change are the
\* ones that match now, since a row's change touches no other row.
BeginUpdate(c) ==
    /\ pc[c] = "update" /\ wtx.owner = NoConn
    /\ LET w == Statement(c).where IN
       wtx' = [owner |-> c, rows |-> db,
               todo |-> {k \in Present(db) : IF w.on = "id" THEN k = w.is ELSE db[k] = w.is}]
    /\ pc' = [pc EXCEPT ![c] = "rows"]
    /\ UNCHANGED <<db, asked, channels, exs, runs, loop, listeners, num, writer, clientVars>>

\* Faulty variant: the old record not cloned, so that SetString changes it too.
UpdateUncloned(c) ==
    /\ pc[c] = "rows" /\ wtx.todo # {}
    /\ LET k == Least(wtx.todo)
           v == Statement(c).set
       IN  /\ wtx' = [wtx EXCEPT !.rows[k] = v, !.todo = @ \ {k}]
           /\ HandToLoop(TableEvent(v, Record(k, v)))
    /\ UNCHANGED <<db, asked, pc, channels, exs, runs, listeners, num, writer, clientVars>>

\* One matching row: put it in the transaction and push its event, before the commit.
UpdateRecord(c) ==
    /\ pc[c] = "rows" /\ wtx.todo # {}
    /\ LET k == Least(wtx.todo)
           v == Statement(c).set
       IN  /\ wtx' = [wtx EXCEPT !.rows[k] = v, !.todo = @ \ {k}]
           /\ HandToLoop(TableEvent(wtx.rows[k], Record(k, v)))
    /\ UNCHANGED <<db, asked, pc, channels, exs, runs, listeners, num, writer, clientVars>>

CommitUpdate(c) ==
    /\ pc[c] = "rows" /\ wtx.todo = {}
    /\ db' = wtx.rows
    /\ wtx' = NoTx
    /\ pc' = [pc EXCEPT ![c] = "ack"]
    /\ UNCHANGED <<asked, channels, exs, runs, loop, listeners, num, writer, clientVars>>

\* Faulty variant: no return after a refused statement's error.
ErrorThenAck(c) ==
    /\ pc[c] \in {"ack", "error"}
    /\ WriteMessage(c, Message(pc[c], Current(c), {}, NoValue))
    /\ pc' = [pc EXCEPT ![c] = IF @ = "error" THEN "ack" ELSE "idle"]
    /\ CloseChannel(c)
    /\ UNCHANGED <<db, wtx, asked, exs, runs, loop, listeners, num, clientVars>>

\* The ack or the error of any statement but a SELECT; then the channel goes.
WriteReply(c) ==
    /\ pc[c] \in {"ack", "error"}
    /\ WriteMessage(c, Message(pc[c], Current(c), {}, NoValue))
    /\ pc' = [pc EXCEPT ![c] = "idle"]
    /\ CloseChannel(c)
    /\ UNCHANGED <<db, wtx, asked, exs, runs, loop, listeners, num, clientVars>>

InList(list) == {l \in listeners : l.list = list}

\* Faulty variant: the listeners of every connection deleted.
RemoveEveryListener(c) ==
    /\ listeners' = {}
    /\ num' = [list \in Lists |-> num[list] - Cardinality(InList(list))]

\* removeListenersForConn drops a connection's listeners from every list; each
\* list's counter loses its listeners of all the connections.
RemoveListenersForConn(c) ==
    /\ listeners' = {l \in listeners : l.ex.conn # c}
    /\ num' = [list \in Lists |-> num[list] - Cardinality(InList(list))]

\* The handler's read fails and removeConn runs, under the lock the loop holds
\* while it sends.
RemoveConn(c) ==
    /\ pc[c] = "idle" /\ ~open[c] /\ loop.st # "send"
    /\ RemoveListenersForConn(c)
    /\ pc' = [pc EXCEPT ![c] = "gone"]
    /\ UNCHANGED <<db, wtx, asked, channels, exs, runs, loop, writer, clientVars>>

HandlerStep(c) ==
    \/ InsertRecord(c) \/ PushInsert(c)
    \/ BeginUpdate(c) \/ UpdateRecord(c) \/ CommitUpdate(c)
    \/ WriteReply(c) \/ RemoveConn(c)

-----------------------------------------------------------------------------
(* The table's event loop.                                                 *)

AddListener(l) ==
    /\ listeners' = listeners \cup {l}
    /\ num' = [num EXCEPT ![l.list] = @ + 1]

\* handleTableSub, handleRecordSub: the subscription becomes a listener.
HandleSubscription ==
    /\ loop.st = "subscribe"
    /\ \E l \in loop.left : AddListener(l)
    /\ loop' = Waiting
    /\ UNCHANGED <<db, wtx, asked, pc, channels, exs, runs, writer, clientVars>>

\* Faulty variant: updates and inserts go to all the lists of their record.
TargetsOfAnyEvent(o, r) ==
    {l \in listeners : l.list \in {AllRows, WhereId(r.id), WhereVal(r.val), RecordList(r.id)}}
\* Faulty variant: inserts forget the whole-table list.
FilteredTargets(o, r) ==
    LET lists == IF o = NoValue THEN {WhereId(r.id), WhereVal(r.val)} ELSE {RecordList(r.id)}
    IN  {l \in listeners : l.list \in lists}

\* The listeners an event goes to: an insert to the whole-table list and the
\* lists of the record's values, an update to the record's own list.
Targets(o, r) ==
    LET lists == IF o = NoValue THEN {AllRows, WhereId(r.id), WhereVal(r.val)}
                                ELSE {RecordList(r.id)}
    IN  {l \in listeners : l.list \in lists}

\* handleTableEvent takes mu and starts sending.
HandleTableEvent ==
    /\ loop.st = "event"
    /\ LET to == Targets(loop.old, loop.new)
       IN  loop' = IF to = {} THEN Waiting ELSE [loop EXCEPT !.st = "send", !.left = to]
    /\ UNCHANGED <<db, wtx, asked, pc, channels, exs, runs, listeners, num, writer, clientVars>>

\* Faulty variant: a record update is dropped when the writer is busy.
SendOrDrop(l) ==
    /\ loop.st = "send" /\ l \in loop.left
    /\ loop' = IF loop.left = {l} THEN Waiting ELSE [loop EXCEPT !.left = @ \ {l}]
    /\ IF l.list.on # "rec"
       THEN /\ exs' = exs \cup {Requery(l.ex, loop.new)}
            /\ runs' = [runs EXCEPT ![l.ex.conn][l.ex.chan] = @ + 1]
            /\ UNCHANGED writer
       ELSE /\ \/ WriteMessage(l.ex.conn, Message("record", l.ex.chan, {loop.new}, loop.old))
               \/ writer[l.ex.conn] # << >> /\ UNCHANGED writer
            /\ UNCHANGED <<exs, runs>>
    /\ UNCHANGED <<db, wtx, asked, pc, channels, listeners, num, clientVars>>

\* ListenerList.SendEvent, one listener: a query listener gets a goroutine that
\* queries the new record; a record listener's message is written here and now.
SendEvent(l) ==
    /\ loop.st = "send" /\ l \in loop.left
    /\ loop' = IF loop.left = {l} THEN Waiting ELSE [loop EXCEPT !.left = @ \ {l}]
    /\ IF l.list.on # "rec"
       THEN /\ exs' = exs \cup {Requery(l.ex, loop.new)}
            /\ runs' = [runs EXCEPT ![l.ex.conn][l.ex.chan] = @ + 1]
            /\ UNCHANGED writer
       ELSE /\ WriteMessage(l.ex.conn, Message("record", l.ex.chan, {loop.new}, loop.old))
            /\ UNCHANGED <<exs, runs>>
    /\ UNCHANGED <<db, wtx, asked, pc, channels, listeners, num, clientVars>>

LoopStep == HandleSubscription \/ HandleTableEvent \/ \E l \in loop.left : SendEvent(l)

-----------------------------------------------------------------------------
(* The connection's writer and the client's end of the socket.             *)

\* Faulty variant: the writer goroutine ends at its first failed write.
WriterEndsOnError(c) ==
    /\ writer[c] # << >> /\ open[c]
    /\ wire' = [wire EXCEPT ![c] = @ \o writer[c]]
    /\ writer' = [writer EXCEPT ![c] = << >>]
    /\ UNCHANGED <<db, wtx, asked, pc, channels, exs, runs, loop, listeners, num, open>>

\* A write to a socket that is closed fails, is logged, and the writer goes on.
WriteToSocket(c) ==
    /\ writer[c] # << >>
    /\ wire' = IF open[c] THEN [wire EXCEPT ![c] = @ \o writer[c]] ELSE wire
    /\ writer' = [writer EXCEPT ![c] = << >>]
    /\ UNCHANGED <<db, wtx, asked, pc, channels, exs, runs, loop, listeners, num, open>>

CloseSocket(c) ==
    /\ c \in Closers /\ open[c]
    /\ open' = [open EXCEPT ![c] = FALSE]
    /\ UNCHANGED <<db, wtx, asked, pc, channels, exs, runs, loop, listeners, num, writer, wire>>

\* Nothing is left to do, and no client may send another statement.
AtRest == exs = {} /\ loop.st = "select" /\ \A c \in Conns : writer[c] = << >>
Terminated ==
    /\ AtRest
    /\ \A c \in Conns :
       pc[c] = "gone" \/ (pc[c] = "idle" /\ open[c] /\ (Requests[c] = {} \/ Current(c) = Budget[c]))

Next ==
    \/ \E c \in Conns : HandleStatement(c) \/ HandlerStep(c) \/ WriteToSocket(c) \/ CloseSocket(c)
    \/ \E e \in exs : ExecutionStep(e)
    \/ LoopStep
    \/ Terminated /\ UNCHANGED vars

\* The Go scheduler runs every goroutine that can run, and a channel serves its
\* senders in order.  Nothing obliges a client to send, to close, or (Slow) to read.
Fairness ==
    /\ WF_vars(LoopStep)
    /\ \A c \in Conns :
       /\ WF_vars(HandlerStep(c))
       /\ WF_vars(\E e \in exs : e.id.conn = c /\ ExecutionStep(e))
       /\ WF_vars((c \notin Slow \/ ~open[c]) /\ WriteToSocket(c))

Spec == Init /\ [][Next]_vars
FairSpec == Spec /\ Fairness

-----------------------------------------------------------------------------
(* Properties of the protocol's state.                                     *)

\* The variables hold what the program's data structures can hold.
TypeOK ==
    /\ db \in Tables
    /\ wtx \in WriteTxs
    /\ asked \in [Conns -> Seq(Statements)]
    /\ pc \in [Conns -> {"idle", "insert", "push", "update", "rows", "select",
                         "ack", "error", "gone"}]
    /\ channels \in [Conns -> SUBSET (1..MaxStatements)]
    /\ exs \subseteq Executions
    /\ runs \in [Conns -> [1..MaxStatements -> Nat]]
    /\ loop \in Loops
    /\ listeners \subseteq Listeners
    /\ num \in [Lists -> Int]
    /\ writer \in [Conns -> Seq(Messages)]
    /\ wire \in [Conns -> Seq(Messages)]
    /\ open \in [Conns -> BOOLEAN]

\* The goroutine that queries an inserted record again finds that record: its
\* lookup never runs into the neighbouring record or the empty one, although
\* BoltIterator.Get would return those, because the insert was committed before
\* its event was pushed and no statement removes a record.
RequeryFindsItsRecord ==
    \A e \in exs : (~IsTop(e) /\ e.st # "start") =>
        \E r \in e.todo \cup e.rows : r.id = e.where.is

-----------------------------------------------------------------------------
(* What a connection sees of this is a conversation.                       *)

\* The messages connection c has been sent, or will be if its socket stays open.
Sent(c) == IF open[c] THEN wire[c] \o writer[c] ELSE wire[c]

Kind(s) == IF s.type # "select" THEN "write" ELSE IF s.live THEN "live" ELSE "query"
Talk(c) == INSTANCE Conversation WITH
    Statements <- [kind : {"write", "live", "query"}],
    asked <- [n \in DOMAIN asked[c] |-> [kind |-> Kind(asked[c][n])]],
    busy <- pc[c] \notin {"idle", "gone"},
    sent <- [i \in DOMAIN Sent(c) |-> [chan |-> Sent(c)[i].chan, type |-> Sent(c)[i].type]],
    open <- open[c]

\* A connection's statements are answered once each, in the order they were
\* sent, with one reply (ack, error or initial result), whatever updates the
\* table's loop and the requeries put between the replies; and updates come on
\* the channels of live queries only.
RepliesInOrder == \A c \in Conns : Talk(c)!RepliesInOrder

\* Every connection's messages are those of a Conversation.
Converses ==
    /\ \A c \in Conns : Talk(c)!Init
    /\ [][\A c \in Conns : Talk(c)!Next \/ UNCHANGED Talk(c)!vars]_vars

=============================================================================
