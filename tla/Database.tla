------------------------------ MODULE Database ------------------------------
(***************************************************************************)
(* What the connections of a TreeSQL server share: the Database struct with *)
(* its registry of connections, the lock (LiveQueryInfo.mu) and the loop of *)
(* every table, bolt's two locks, the gauges and the scans of               *)
(* __record_listeners__ that lock every table, and the server's shutdown.   *)
(*                                                                         *)
(* LiveTable has what one table's records, queries and messages hold; here  *)
(* a record, a message and a row are not told apart, only who waits for     *)
(* whom and whose listeners are whose.                                      *)
(*                                                                         *)
(* A definition commented "Faulty variant" is no part of the specification: *)
(* it is the definition after it with a plausible bug, and shows which      *)
(* property such a bug breaks.                                              *)
(***************************************************************************)
EXTENDS Integers, Sequences, FiniteSets

CONSTANTS
    Conns,      \* client connections
    Tables,     \* tables
    Gauges,     \* the gauges of metrics.go that count listeners
    NoOne,      \* holds no lock
    Requests,   \* the statements each connection may send
    Budget,     \* bound: statements of each connection
    Overlap,    \* whether connections may be added at the same time
    Closers,    \* connections whose client may close its socket
    Slow,       \* connections whose client may stop reading
    MapGrows,   \* whether bolt may have to grow its memory map
    Stops       \* whether the server may be told to stop

ASSUME NoOneAssumption == NoOne \notin Conns \cup Tables \cup Gauges
ASSUME ProcessesAssumption ==
    Conns \cap Tables = {} /\ Conns \cap Gauges = {} /\ Tables \cap Gauges = {}

\* A SELECT may be live and may fail, after it read a row; "scan" is a SELECT of
\* __record_listeners__.
Statements ==
    [do : {"select"}, table : Tables, live : BOOLEAN, fails : BOOLEAN]
    \cup [do : {"scan"}]
    \cup [do : {"insert", "update"}, table : Tables]
Failing(s) == s.do = "select" /\ s.fails
ASSUME RequestsAssumption == Requests \in [Conns -> SUBSET Statements]
ASSUME BudgetAssumption == Budget \in [Conns -> Nat]

\* Executions of queries: run 0 is that of the channel's statement, the others
\* are requeries of inserted records.
ExIds == [conn : Conns, chan : Nat \ {0}, run : Nat]
\* The lists of a table: those whose listeners run a query again for an inserted
\* record, and those that are told of an updated one.
Kinds == {"query", "record"}
Listeners == [table : Tables, kind : Kinds, ex : ExIds]

\* A sync.RWMutex: one goroutine may have announced that it will write, and
\* does so once the readers there are have gone; new readers wait for it.
Locks(R) == [writer : Conns \cup Tables \cup {NoOne}, readers : SUBSET R]
Free == [writer |-> NoOne, readers |-> {}]
Owns(p, lock) == lock.writer = p /\ lock.readers = {}

VARIABLES
    nextId,      \* Database.NextConnectionID
    id,          \* per connection, Connection.ID (-1 before it has one)
    loaded,      \* per connection, the value its NextConnectionID++ has loaded
    connections, \* Database.Connections, as pairs of an id and a connection
    pc,          \* per connection, where its handler is
    asked,       \* per connection, the statements it received
    open,        \* per connection, whether its socket is open
    todo,        \* per connection, the tables removeConn has still to visit
    exs,         \* the executions of queries
    runs,        \* per connection, how many requeries were started for it
    writer,      \* per connection, whether its writer has a message in hand
    mu,          \* per table, LiveQueryInfo.mu
    loop,        \* per table, its event loop
    listeners,   \* the listeners in LiveQueryInfo of all tables
    num,         \* per table and kind, the sum of its lists' numListeners
    bolt,        \* who holds bolt's writer lock
    map,         \* bolt's lock of its memory map, read by open read transactions
    scans,       \* per gauge or connection, its count in each table it has locked
    main         \* the server's main goroutine and its signal handler: once bolt
                 \* is "closed" the process exits

registryVars == <<nextId, id, loaded, connections>>
clientVars == <<asked, open, todo>>
queryVars == <<exs, runs, writer>>
tableVars == <<mu, loop, listeners, num>>
boltVars == <<bolt, map>>
vars == <<registryVars, pc, clientVars, queryVars, tableVars, boltVars, scans, main>>

Scanners == Gauges \cup Conns
NoScan == [t \in {} |-> 0]

\* The loop of a table is in its select, has received a subscription (to add the
\* listener `left`) or an event, or sends the event to the listeners `left`.
Waiting == [st |-> "select", job |-> "none", left |-> {}]
Received(job, left) == [st |-> "received", job |-> job, left |-> left]

Init ==
    /\ nextId = 0
    /\ id = [c \in Conns |-> -1]
    /\ loaded = [c \in Conns |-> -1]
    /\ connections = {}
    /\ pc = [c \in Conns |-> "new"]
    /\ asked = [c \in Conns |-> << >>]
    /\ open = [c \in Conns |-> TRUE]
    /\ todo = [c \in Conns |-> {}]
    /\ exs = {}
    /\ runs = [c \in Conns |-> 0]
    /\ writer = [c \in Conns |-> FALSE]
    /\ mu = [t \in Tables |-> Free]
    /\ loop = [t \in Tables |-> Waiting]
    /\ listeners = {}
    /\ num = [t \in Tables |-> [k \in Kinds |-> 0]]
    /\ bolt = NoOne
    /\ map = Free
    /\ scans = [p \in Scanners |-> NoScan]
    /\ main = "serving"

-----------------------------------------------------------------------------
(* The registry of connections.                                            *)

\* AddConnection, in the HTTP handler's goroutine: NextConnectionID is read for
\* the connection's id, then incremented by a load and a store, with no lock.
ReadNextId(c) ==
    /\ pc[c] = "new"
    /\ Overlap \/ \A d \in Conns : pc[d] \notin {"load", "store", "register"}
    /\ id' = [id EXCEPT ![c] = nextId]
    /\ pc' = [pc EXCEPT ![c] = "load"]
    /\ UNCHANGED <<nextId, loaded, connections, clientVars, queryVars, tableVars, boltVars, scans, main>>

LoadNextId(c) ==
    /\ pc[c] = "load"
    /\ loaded' = [loaded EXCEPT ![c] = nextId]
    /\ pc' = [pc EXCEPT ![c] = "store"]
    /\ UNCHANGED <<nextId, id, connections, clientVars, queryVars, tableVars, boltVars, scans, main>>

StoreNextId(c) ==
    /\ pc[c] = "store"
    /\ nextId' = loaded[c] + 1
    /\ loaded' = [loaded EXCEPT ![c] = -1]
    /\ pc' = [pc EXCEPT ![c] = "register"]
    /\ UNCHANGED <<id, connections, clientVars, queryVars, tableVars, boltVars, scans, main>>

\* db.Connections[conn.ID] = conn replaces whoever had that id.
Register(c) ==
    /\ pc[c] = "register"
    /\ connections' = {r \in connections : r.id # id[c]} \cup {[id |-> id[c], conn |-> c]}
    /\ pc' = [pc EXCEPT ![c] = "idle"]
    /\ UNCHANGED <<nextId, id, loaded, clientVars, queryVars, tableVars, boltVars, scans, main>>

AddConnection(c) == ReadNextId(c) \/ LoadNextId(c) \/ StoreNextId(c) \/ Register(c)

CloseSocket(c) ==
    /\ c \in Closers /\ open[c] /\ pc[c] # "new"
    /\ open' = [open EXCEPT ![c] = FALSE]
    /\ UNCHANGED <<registryVars, pc, asked, todo, queryVars, tableVars, boltVars, scans, main>>

\* The handler's read fails: removeConn deletes whoever has the connection's id.
BeginRemove(c) ==
    /\ pc[c] = "idle" /\ ~open[c]
    /\ connections' = {r \in connections : r.id # id[c]}
    /\ todo' = [todo EXCEPT ![c] = Tables]
    /\ pc' = [pc EXCEPT ![c] = "remove"]
    /\ UNCHANGED <<nextId, id, loaded, asked, open, queryVars, tableVars, boltVars, scans, main>>

\* removeListenersForConn, for the tables in any order: mu.Lock ...
LockToRemove(c, t) ==
    /\ pc[c] = "remove" /\ t \in todo[c] /\ mu[t].writer = NoOne
    /\ \A u \in Tables : mu[u].writer # c
    /\ mu' = [mu EXCEPT ![t].writer = c]
    /\ UNCHANGED <<registryVars, pc, clientVars, queryVars, loop, listeners, num, boltVars, scans, main>>

InList(t, k) == {l \in listeners : l.table = t /\ l.kind = k}

\* The listeners with the connection's id, of each of the table's lists ...
GoneQueries(c, t) == {l \in InList(t, "query") : id[l.ex.conn] = id[c]} \* Faulty variant: record lists forgotten.
GoneEveryones(c, t) == {l \in listeners : l.table = t}  \* Faulty variant: the lists emptied for everyone.
Gone(c, t) == {l \in listeners : l.table = t /\ id[l.ex.conn] = id[c]}

\* ... and the counters, from which every listener is taken off, whoever's it is.
CountersKept(t) == num[t]   \* Faulty variant: not changed.
CountersLeft(t) == [k \in Kinds |-> num[t][k] - Cardinality(InList(t, k))]

\* ... then the listeners go.
RemoveListeners(c, t) ==
    /\ pc[c] = "remove" /\ Owns(c, mu[t])
    /\ listeners' = listeners \ Gone(c, t)
    /\ num' = [num EXCEPT ![t] = CountersLeft(t)]
    /\ mu' = [mu EXCEPT ![t].writer = NoOne]
    /\ todo' = [todo EXCEPT ![c] = @ \ {t}]
    /\ pc' = [pc EXCEPT ![c] = IF todo[c] = {t} THEN "gone" ELSE "remove"]
    /\ UNCHANGED <<registryVars, asked, open, queryVars, loop, boltVars, scans, main>>

RemoveConn(c) ==
    BeginRemove(c) \/ \E t \in Tables : LockToRemove(c, t) \/ RemoveListeners(c, t)

-----------------------------------------------------------------------------
(* Queries.                                                                *)

\* conn.Messages meets writeMessagesToSocket; a table's channels meet its loop.
WriteMessage(c) == ~writer[c] /\ writer' = [writer EXCEPT ![c] = TRUE]
HandToLoop(t, job, left) ==
    /\ loop[t].st = "select"
    /\ loop' = [loop EXCEPT ![t] = Received(job, left)]

\* Faulty variant: channels numbered before NextChannelID is incremented.
EarlyId(c, n, run) == [conn |-> c, chan |-> n - 1, run |-> run]
ExId(c, n, run) == [conn |-> c, chan |-> n, run |-> run]
Execution(c, n, run, s) == [id |-> ExId(c, n, run), stmt |-> s, st |-> "begin"]
Listener(e, k) == [table |-> e.stmt.table, kind |-> k, ex |-> e.id]

GoTo(e, st) == (exs \ {e}) \cup {[e EXCEPT !.st = st]}

\* Where a query's execution goes from its transaction's beginning.
FirstSubscribed(s) == IF s.do = "scan" THEN "scan" ELSE "table" \* Faulty variant: a plain SELECT subscribes.
First(s) == IF s.do = "scan" THEN "scan" ELSE IF s.live THEN "table" ELSE "read"

\* executeQuery begins a read transaction, which waits while bolt grows its map.
BeginQuery(e) ==
    /\ e.st = "begin" /\ map.writer = NoOne /\ main # "closed"
    /\ map' = [map EXCEPT !.readers = @ \cup {e.id}]
    /\ exs' = GoTo(e, First(e.stmt))
    /\ UNCHANGED <<registryVars, pc, clientVars, runs, writer, tableVars, bolt, scans, main>>

\* A live query waits for the table's loop, inside its transaction.
SubscribeToTable(e) ==
    /\ e.st = "table"
    /\ HandToLoop(e.stmt.table, "listen", {Listener(e, "query")})
    /\ exs' = GoTo(e, "record")
    /\ UNCHANGED <<registryVars, pc, clientVars, runs, writer, mu, listeners, num, boltVars, scans, main>>

\* A query that fails never rolls its transaction back.
StaysReaderLive(s) == s.do = "select" /\ s.live  \* Faulty variant: nor does a live one.
StaysReader(s) == Failing(s)
EndQuery(e) ==
    /\ exs' = GoTo(e, "reply")
    /\ map' = IF StaysReader(e.stmt) THEN map ELSE [map EXCEPT !.readers = @ \ {e.id}]

SubscribeToRecord(e) ==
    /\ e.st = "record"
    /\ HandToLoop(e.stmt.table, "listen", {Listener(e, "record")})
    /\ EndQuery(e)
    /\ UNCHANGED <<registryVars, pc, clientVars, runs, writer, mu, listeners, num, bolt, scans, main>>

ReadRows(e) ==
    /\ e.st = "read"
    /\ EndQuery(e)
    /\ UNCHANGED <<registryVars, pc, clientVars, runs, writer, tableVars, bolt, scans, main>>

\* The initial result or the error of a statement, or a requery's table update.
WriteResult(e) ==
    /\ e.st = "reply"
    /\ WriteMessage(e.id.conn)
    /\ exs' = exs \ {e}
    /\ pc' = IF e.id.run = 0 THEN [pc EXCEPT ![e.id.conn] = "idle"] ELSE pc
    /\ UNCHANGED <<registryVars, clientVars, runs, tableVars, boltVars, scans, main>>

ExecutionStep(e) ==
    \/ BeginQuery(e) \/ SubscribeToTable(e) \/ SubscribeToRecord(e)
    \/ ReadRows(e) \/ WriteResult(e)

-----------------------------------------------------------------------------
(* Those who lock every table: the gauges that count listeners and         *)
(* newRecordListenersIterator.                                             *)

Scanning(p) == p \in Gauges \/ \E e \in exs : e.id.conn = p /\ e.st = "scan"

\* A gauge adds up the counters, a scan of __record_listeners__ lists listeners.
Counted(p, t) == IF p \in Gauges THEN num[t]["record"] ELSE Cardinality(InList(t, "record"))

\* The tables are locked for reading one after the other, in any order, ...
NoLock(p, t) == UNCHANGED mu    \* Faulty variant: each unlocked before the next is locked.
ReadLock(p, t) == mu' = [mu EXCEPT ![t].readers = @ \cup {p}]
LockToCount(p, t) ==
    /\ Scanning(p) /\ t \notin DOMAIN scans[p] /\ mu[t].writer = NoOne
    /\ ReadLock(p, t)
    /\ scans' = [scans EXCEPT ![p] = [u \in DOMAIN @ \cup {t} |-> IF u = t THEN Counted(p, t) ELSE @[u]]]
    /\ UNCHANGED <<registryVars, pc, clientVars, queryVars, loop, listeners, num, boltVars, main>>

\* ... and all unlocked by the deferred calls at the end.
EndCount(p) ==
    /\ DOMAIN scans[p] = Tables
    /\ mu' = [t \in Tables |-> [mu[t] EXCEPT !.readers = @ \ {p}]]
    /\ scans' = [scans EXCEPT ![p] = NoScan]
    /\ IF p \in Gauges THEN UNCHANGED <<exs, map>>
       ELSE \E e \in exs : e.id.conn = p /\ e.st = "scan" /\ EndQuery(e)
    /\ UNCHANGED <<registryVars, pc, clientVars, runs, writer, loop, listeners, num, bolt, main>>

CountStep(p) == EndCount(p) \/ \E t \in Tables : LockToCount(p, t)

-----------------------------------------------------------------------------
(* The handler: statements that write, and bolt.                           *)

Statement(c) == asked[c][Len(asked[c])]

HandleStatement(c) ==
    /\ pc[c] = "idle" /\ open[c] /\ Len(asked[c]) < Budget[c]
    /\ \E s \in Requests[c] :
       /\ asked' = [asked EXCEPT ![c] = Append(@, s)]
       /\ IF s.do \in {"insert", "update"}
          THEN /\ pc' = [pc EXCEPT ![c] = "write"]
               /\ UNCHANGED exs
          ELSE /\ pc' = [pc EXCEPT ![c] = "query"]
               /\ exs' = exs \cup {Execution(c, Len(asked'[c]), 0, s)}
    /\ UNCHANGED <<registryVars, open, todo, runs, writer, tableVars, boltVars, scans, main>>

\* An INSERT may find its key taken; an UPDATE may match no record, or one whose
\* event it pushes before it commits.
Outcomes(s) == IF s.do = "insert" THEN {"commit", "reply"} ELSE {"push", "commit"}

\* bolt's writer lock.  An INSERT that fails has closed its transaction.
BeginWrite(c) ==
    /\ pc[c] = "write" /\ bolt = NoOne /\ main # "closed"
    /\ \E next \in Outcomes(Statement(c)) :
       /\ pc' = [pc EXCEPT ![c] = next]
       /\ bolt' = IF next = "reply" THEN NoOne ELSE c
    /\ UNCHANGED <<registryVars, clientVars, queryVars, tableVars, map, scans, main>>

\* PushTableEvent, after an INSERT's commit but before an UPDATE's.
PushEvent(c) ==
    /\ pc[c] = "push"
    /\ HandToLoop(Statement(c).table, Statement(c).do, {})
    /\ pc' = [pc EXCEPT ![c] = IF Statement(c).do = "insert" THEN "reply" ELSE "commit"]
    /\ UNCHANGED <<registryVars, clientVars, queryVars, mu, listeners, num, boltVars, scans, main>>

\* Faulty variant: the transaction of an UPDATE left open.
CommittedOpen(c) ==
    /\ bolt' = IF Statement(c).do = "insert" THEN NoOne ELSE c
    /\ pc' = [pc EXCEPT ![c] = IF Statement(c).do = "insert" THEN "push" ELSE "reply"]
Committed(c) ==
    /\ bolt' = NoOne
    /\ pc' = [pc EXCEPT ![c] = IF Statement(c).do = "insert" THEN "push" ELSE "reply"]

CommitInPlace(c) ==
    /\ pc[c] = "commit" /\ Committed(c)
    /\ UNCHANGED <<registryVars, clientVars, queryVars, tableVars, map, scans, main>>

\* The commit needs more pages than are mapped: bolt must map the file anew ...
LockMap(c) ==
    /\ MapGrows /\ pc[c] = "commit"
    /\ map' = [map EXCEPT !.writer = c]
    /\ pc' = [pc EXCEPT ![c] = "grow"]
    /\ UNCHANGED <<registryVars, clientVars, queryVars, tableVars, bolt, scans, main>>

\* ... once every read transaction has ended.
GrowMap(c) ==
    /\ pc[c] = "grow" /\ Owns(c, map)
    /\ map' = [map EXCEPT !.writer = NoOne]
    /\ Committed(c)
    /\ UNCHANGED <<registryVars, clientVars, queryVars, tableVars, scans, main>>

WriteReply(c) ==
    /\ pc[c] = "reply"
    /\ WriteMessage(c)
    /\ pc' = [pc EXCEPT ![c] = "idle"]
    /\ UNCHANGED <<registryVars, clientVars, exs, runs, tableVars, boltVars, scans, main>>

HandlerStep(c) ==
    \/ BeginWrite(c) \/ PushEvent(c) \/ CommitInPlace(c) \/ LockMap(c) \/ GrowMap(c)
    \/ WriteReply(c) \/ RemoveConn(c)

\* The writer; a write to a closed socket fails and is logged.
WriteToSocket(c) ==
    /\ writer[c]
    /\ writer' = [writer EXCEPT ![c] = FALSE]
    /\ UNCHANGED <<registryVars, pc, clientVars, exs, runs, tableVars, boltVars, scans, main>>

-----------------------------------------------------------------------------
(* The event loop of a table.                                              *)

LockToHandle(t) ==
    /\ loop[t].st = "received" /\ mu[t].writer = NoOne
    /\ mu' = [mu EXCEPT ![t].writer = t]
    /\ UNCHANGED <<registryVars, pc, clientVars, queryVars, loop, listeners, num, boltVars, scans, main>>

Unlocked(t) ==
    /\ mu' = [mu EXCEPT ![t].writer = NoOne]
    /\ loop' = [loop EXCEPT ![t] = Waiting]

HandleSubscription(t) ==
    /\ loop[t].st = "received" /\ loop[t].job = "listen" /\ Owns(t, mu[t])
    /\ \E l \in loop[t].left :
       /\ listeners' = listeners \cup {l}
       /\ num' = [num EXCEPT ![t][l.kind] = @ + 1]
    /\ Unlocked(t)
    /\ UNCHANGED <<registryVars, pc, clientVars, queryVars, boltVars, scans, main>>

Send(t, left) ==
    IF left = {} THEN Unlocked(t)
    ELSE loop' = [loop EXCEPT ![t].st = "send", ![t].left = left] /\ UNCHANGED mu

HandleTableEvent(t) ==
    /\ loop[t].st = "received" /\ loop[t].job # "listen" /\ Owns(t, mu[t])
    /\ Send(t, InList(t, IF loop[t].job = "insert" THEN "query" ELSE "record"))
    /\ UNCHANGED <<registryVars, pc, clientVars, queryVars, listeners, num, boltVars, scans, main>>

\* ListenerList.SendEvent: a goroutine that queries the new record, or a message.
SendEvent(t, l) ==
    /\ loop[t].st = "send" /\ l \in loop[t].left
    /\ Send(t, loop[t].left \ {l})
    /\ IF l.kind = "query"
       THEN LET c == l.ex.conn
                s == [do |-> "select", table |-> t, live |-> TRUE, fails |-> FALSE]
            IN  /\ exs' = exs \cup {Execution(c, l.ex.chan, runs[c] + 1, s)}
                /\ runs' = [runs EXCEPT ![c] = @ + 1]
                /\ UNCHANGED writer
       ELSE WriteMessage(l.ex.conn) /\ UNCHANGED <<exs, runs>>
    /\ UNCHANGED <<registryVars, pc, clientVars, listeners, num, boltVars, scans, main>>

LoopStep(t) ==
    \/ LockToHandle(t) \/ HandleSubscription(t) \/ HandleTableEvent(t)
    \/ \E l \in loop[t].left : SendEvent(t, l)

-----------------------------------------------------------------------------
(* Shutdown: a signal makes a goroutine close bolt, which waits for its     *)
(* writer and its map, and exit; a transaction begun in between fails.      *)

Signal ==
    /\ Stops /\ main = "serving"
    /\ main' = "closing"
    /\ UNCHANGED <<registryVars, pc, clientVars, queryVars, tableVars, boltVars, scans>>

CloseBolt ==
    /\ main = "closing" /\ bolt = NoOne /\ map.writer = NoOne
    /\ main' = "closed"
    /\ UNCHANGED <<registryVars, pc, clientVars, queryVars, tableVars, boltVars, scans>>

Next ==
    \/ \E c \in Conns : \/ AddConnection(c) \/ HandleStatement(c) \/ HandlerStep(c)
                        \/ WriteToSocket(c) \/ CloseSocket(c)
    \/ \E e \in exs : ExecutionStep(e)
    \/ \E p \in Scanners : CountStep(p)
    \/ \E t \in Tables : LoopStep(t)
    \/ Signal \/ CloseBolt

\* The Go scheduler runs every goroutine that can run, and a lock or a channel
\* serves its waiters in order.  Nothing obliges a client to connect, send, close
\* or (Slow) read, a scrape to begin, or an operator to stop the server.
Fairness ==
    /\ \A c \in Conns :
       /\ WF_vars(pc[c] # "new" /\ AddConnection(c))
       /\ WF_vars(HandlerStep(c))
       /\ WF_vars(\E e \in exs : e.id.conn = c /\ ExecutionStep(e))
       /\ WF_vars((c \notin Slow \/ ~open[c]) /\ WriteToSocket(c))
       /\ WF_vars(CountStep(c))
    /\ \A g \in Gauges : WF_vars(scans[g] # NoScan /\ CountStep(g))
    /\ \A t \in Tables : WF_vars(LoopStep(t))
    /\ WF_vars(CloseBolt)

Spec == Init /\ [][Next]_vars
FairSpec == Spec /\ Fairness

-----------------------------------------------------------------------------
(* Safety.                                                                 *)

\* The variables hold what the program's data structures can hold.
TypeOK ==
    /\ nextId \in Nat
    /\ id \in [Conns -> Nat \cup {-1}] /\ loaded \in [Conns -> Nat \cup {-1}]
    /\ connections \subseteq [id : Nat, conn : Conns]
    /\ pc \in [Conns -> {"new", "load", "store", "register", "idle", "query", "write", "push",
                         "commit", "grow", "reply", "remove", "gone"}]
    /\ asked \in [Conns -> Seq(Statements)]
    /\ open \in [Conns -> BOOLEAN]
    /\ todo \in [Conns -> SUBSET Tables]
    /\ exs \subseteq [id : ExIds, stmt : Statements,
                      st : {"begin", "table", "record", "read", "scan", "reply"}]
    /\ runs \in [Conns -> Nat]
    /\ writer \in [Conns -> BOOLEAN]
    /\ mu \in [Tables -> Locks(Scanners)]
    /\ loop \in [Tables -> [st : {"select", "received", "send"},
                            job : {"none", "listen", "insert", "update"},
                            left : SUBSET Listeners]]
    /\ listeners \subseteq Listeners
    /\ num \in [Tables -> [Kinds -> Int]]
    /\ bolt \in Conns \cup {NoOne}
    /\ map \in Locks(ExIds)
    /\ DOMAIN scans = Scanners
    /\ \A p \in Scanners : DOMAIN scans[p] \subseteq Tables /\ scans[p] \in [DOMAIN scans[p] -> Int]
    /\ main \in {"serving", "closing", "closed"}

\* A gauge and a scan of __record_listeners__ report a number that was true at
\* one moment, in all the tables at once, while statements and removals go on.
ScanIsSnapshot ==
    \A p \in Scanners, t \in Tables : t \in DOMAIN scans[p] => scans[p][t] = Counted(p, t)

\* A listener is in its list, or in the hands of the loop that will add it.
Subscribed(l) == l \in listeners \/ l \in {x \in loop[l.table].left : loop[l.table].job = "listen"}

\* A connection that nobody shares its id with is in db.Connections, and its live
\* queries keep their listeners, from their answers until it closes, whatever
\* connections come and go meanwhile.
OnlySharedIdsInterfere ==
    \A c \in Conns :
    (/\ pc[c] \in {"idle", "query", "write", "push", "commit", "grow", "reply"}
     /\ \A d \in Conns \ {c} : id[d] # id[c])
    => /\ [id |-> id[c], conn |-> c] \in connections
       /\ \A n \in DOMAIN asked[c] :
             (asked[c][n].do = "select" /\ asked[c][n].live /\ (n < Len(asked[c]) \/ pc[c] = "idle"))
             => \A k \in Kinds :
                  Subscribed([table |-> asked[c][n].table, kind |-> k,
                              ex |-> [conn |-> c, chan |-> n, run |-> 0]])

\* A connection that has gone leaves at most the one listener of each table
\* that its loop had in hand, besides what requeries still running subscribe.
LittleLeftBehind ==
    \A c \in Conns, t \in Tables : pc[c] = "gone" =>
        Cardinality({l \in listeners : l.table = t /\ l.ex.conn = c /\ l.ex.run = 0}) <= 1

\* The counters of a table's lists are never too high, and right until a
\* connection's listeners have been removed from that table.
CountersNeverHigh ==
    \A t \in Tables, k \in Kinds :
        /\ num[t][k] <= Cardinality(InList(t, k))
        /\ (\A c \in Conns : pc[c] \in {"remove", "gone"} => t \in todo[c])
              => num[t][k] = Cardinality(InList(t, k))

-----------------------------------------------------------------------------
(* Liveness, under Fairness.                                               *)

\* Bolt waits to grow its map for the transaction of a query that failed.
MapStuck ==
    /\ map.writer # NoOne
    /\ \E x \in map.readers : x.run = 0 /\ Failing(asked[x.conn][x.chan])

\* Two have each locked a table that the other wants, behind someone who waits
\* to lock it for writing.
Entangled ==
    \E p, q \in Scanners :
    \E t \in DOMAIN scans[p] \ DOMAIN scans[q], u \in DOMAIN scans[q] \ DOMAIN scans[p] :
        mu[t].writer # NoOne /\ mu[u].writer # NoOne

\* A message waits for a client that has stopped reading and has not closed.
Unread == \E c \in Slow : open[c] /\ writer[c]

Busy(c) == pc[c] \notin {"new", "idle", "gone"}

\* Every statement is answered and every removal completes, with three exceptions:
\* bolt, two scans, or a client that does not read, are stuck for good.
StatementsEnd ==
    \A c \in Conns :
        [](Busy(c) => <>(~Busy(c) \/ main = "closed" \/ []MapStuck \/ []Entangled \/ []Unread))

\* A plain SELECT of a client that reads is answered even if another client has
\* stopped reading, unless bolt waits for ever to grow its map.
PlainQueriesEnd ==
    \A c \in Conns \ Slow :
        []((pc[c] = "query" /\ Statement(c).do = "select" /\ ~Statement(c).live)
            => <>(~Busy(c) \/ main = "closed" \/ [](map.writer # NoOne)))

\* A server that is told to stop stops, with the same exceptions: it waits for
\* bolt's writer, who may wait for a table's loop.
ShutdownEnds ==
    [](main = "closing" => <>(main = "closed" \/ []MapStuck \/ []Entangled \/ []Unread))

\* metrics.go:70, "record_listeners": a scrape of the gauges ends, and the gauge
\* reports, if every client reads.
ScrapesEnd == \A g \in Gauges : scans[g] # NoScan ~> scans[g] = NoScan \/ main = "closed"

=============================================================================
