-------------------------- MODULE Database_proofs --------------------------
(***************************************************************************)
(* Proofs about Database, for every set of connections, tables, gauges and *)
(* statements: its type invariant, the sums that gauges and scans report,  *)
(* the counters, what a connection that has gone leaves behind, and that a *)
(* connection with an id of its own keeps its place and its listeners.     *)
(***************************************************************************)
EXTENDS Database, FiniteSetTheorems, SequenceTheorems, TLAPS

-----------------------------------------------------------------------------
(* The inductive invariant.                                                *)

Adding == {"new", "load", "store", "register"}
Writing == {"write", "push", "commit", "grow", "reply"}
Leaving == {"remove", "gone"}

\* A handler has an id from the start of AddConnection, has received nothing
\* before its end, writes for its last statement and has removed all when gone.
HandlersOK ==
    \A c \in Conns :
        /\ pc[c] = "new" <=> id[c] = -1
        /\ pc[c] = "store" => loaded[c] # -1
        /\ pc[c] \in Adding => asked[c] = << >>
        /\ pc[c] \in Writing =>
              asked[c] # << >> /\ Statement(c).do \in {"insert", "update"}
        /\ pc[c] = "gone" => todo[c] = {}

IsLive(s) == s.do = "select" /\ s.live

\* Every execution has an id of its own, and goes where its statement leads it;
\* that of a statement has the statement's channel, and its handler waits.
ExecutionsOK ==
    \A e \in exs :
        /\ e.st \in {"table", "record"} => IsLive(e.stmt)
        /\ e.st = "read" => e.stmt.do = "select" /\ ~e.stmt.live
        /\ e.st = "scan" => e.stmt.do = "scan"
        /\ e.stmt.do \in {"select", "scan"}
        /\ e.id.run = 0 =>
              /\ pc[e.id.conn] = "query"
              /\ e.id.chan = Len(asked[e.id.conn])
              /\ e.stmt = Statement(e.id.conn)
        /\ \A f \in exs : f.id = e.id => f = e

\* Ids that have been given to executions.
Used(x) == x.chan <= Len(asked[x.conn]) /\ x.run <= runs[x.conn]
IdsUsed ==
    /\ \A e \in exs : Used(e.id)
    /\ \A l \in listeners : Used(l.ex)
    /\ \A t \in Tables : \A l \in loop[t].left : Used(l.ex)

\* A loop in its select has nothing in hand; one that has a subscription has one
\* listener, of its table, that is in no list.
LoopsOK ==
    \A t \in Tables :
        /\ loop[t].st = "select" => loop[t] = Waiting
        /\ loop[t].st = "send" => loop[t].job # "listen"
        /\ loop[t].job = "listen" =>
              \E l \in Listeners : loop[t].left = {l} /\ l.table = t /\ l \notin listeners

\* An execution has not subscribed what it has still to subscribe.
NotYetSubscribed ==
    \A e \in exs : e.stmt.do = "select" =>
        /\ e.st \in {"begin", "table"} => ~Subscribed(Listener(e, "query"))
        /\ e.st \in {"begin", "table", "record"} => ~Subscribed(Listener(e, "record"))

\* Whoever has counted a table holds its lock.
CountersHold == \A p \in Scanners : \A t \in DOMAIN scans[p] : p \in mu[t].readers

\* A connection leaves one listener of its own statements on a table at most,
\* once it has visited it.
OwnOn(l, c, t) == l.table = t /\ l.ex.conn = c /\ l.ex.run = 0
LeavesOne ==
    \A c \in Conns, t \in Tables : (pc[c] \in Leaving /\ t \notin todo[c]) =>
        \A l, m \in Listeners : 
            Subscribed(l) /\ Subscribed(m) /\ OwnOn(l, c, t) /\ OwnOn(m, c, t) => l = m

\* The connection nobody shares its id with ...
Alone(c) == \A d \in Conns \ {c} : id[d] # id[c]
Active == {"idle", "query", "write", "push", "commit", "grow", "reply"}
Due(c, n) == n < Len(asked[c]) \/ pc[c] = "idle"
ListenerOf(c, n, k) ==
    [table |-> asked[c][n].table, kind |-> k, ex |-> [conn |-> c, chan |-> n, run |-> 0]]

\* ... has what it has subscribed, while its statement runs too.
OwnKept ==
    \A e \in exs : e.id.run = 0 /\ Alone(e.id.conn) /\ IsLive(e.stmt) =>
        /\ e.st \in {"record", "reply"} => Subscribed(Listener(e, "query"))
        /\ e.st = "reply" => Subscribed(Listener(e, "record"))

Protocol == HandlersOK /\ ExecutionsOK /\ IdsUsed /\ LoopsOK /\ IsFiniteSet(listeners)

Inv ==
    /\ TypeOK /\ Protocol
    /\ NotYetSubscribed /\ CountersHold /\ LeavesOne /\ OwnKept
    /\ ScanIsSnapshot /\ CountersNeverHigh /\ OnlySharedIdsInterfere

-----------------------------------------------------------------------------
(* Types.                                                                  *)

\* What the kinds of statements have.
LEMMA StatementKinds ==
    ASSUME NEW s \in Statements
    PROVE  /\ s.do \in {"select", "scan", "insert", "update"}
           /\ s.do = "select" => s.table \in Tables /\ s.live \in BOOLEAN /\ s.fails \in BOOLEAN
           /\ s.do \in {"insert", "update"} => s.table \in Tables
  BY DEF Statements

\* The last of a connection's statements is one.
LEMMA LastStatement ==
    ASSUME TypeOK, NEW c \in Conns, asked[c] # << >>
    PROVE  Statement(c) \in Statements /\ Len(asked[c]) \in Nat \ {0}
  <1>1. asked[c] \in Seq(Statements)
    BY DEF TypeOK
  <1> QED BY <1>1 DEF Statement

\* The variables of the types that executions change.
LEMMA GoToType ==
    ASSUME TypeOK, NEW e \in exs, NEW st \in {"table", "record", "read", "scan", "reply"}
    PROVE  GoTo(e, st) \subseteq [id : ExIds, stmt : Statements,
                                  st : {"begin", "table", "record", "read", "scan", "reply"}]
  BY DEF TypeOK, GoTo

\* A connection is added, or removed from the registry.
LEMMA RegistryTypes ==
    ASSUME TypeOK, HandlersOK, NEW c \in Conns, AddConnection(c) \/ BeginRemove(c)
    PROVE  TypeOK'
  <1> USE DEF TypeOK, registryVars, clientVars, queryVars, tableVars, boltVars
  <1>1. CASE ReadNextId(c)
    BY <1>1 DEF ReadNextId
  <1>2. CASE LoadNextId(c)
    BY <1>2 DEF LoadNextId
  <1>3. CASE StoreNextId(c)
    BY <1>3 DEF StoreNextId, HandlersOK
  <1>4. CASE Register(c)
    BY <1>4 DEF Register, HandlersOK
  <1>5. CASE BeginRemove(c)
    BY <1>5 DEF BeginRemove
  <1> QED BY <1>1, <1>2, <1>3, <1>4, <1>5 DEF AddConnection

\* A lock taken for writing is a lock.
LEMMA WriterTypes ==
    ASSUME TypeOK, NEW t \in Tables, NEW p,
           mu[t] \in Locks(Scanners) => [mu[t] EXCEPT !.writer = p] \in Locks(Scanners),
           mu' = [mu EXCEPT ![t].writer = p]
    PROVE  mu' \in [Tables -> Locks(Scanners)]
  <1>1. mu \in [Tables -> Locks(Scanners)]
    BY DEF TypeOK
  <1>2. mu' = [mu EXCEPT ![t] = [mu[t] EXCEPT !.writer = p]]
    OBVIOUS
  <1> QED BY <1>1, <1>2

\* A connection's listeners are removed.
LEMMA RemoveTypes ==
    ASSUME TypeOK, IsFiniteSet(listeners), NEW c \in Conns, NEW t \in Tables,
           LockToRemove(c, t) \/ RemoveListeners(c, t)
    PROVE  TypeOK'
  <1>1. CASE LockToRemove(c, t)
    <2>1. mu[t] \in Locks(Scanners) => [mu[t] EXCEPT !.writer = c] \in Locks(Scanners)
      BY DEF Locks
    <2>2. mu' \in [Tables -> Locks(Scanners)]
      BY <1>1, <2>1, WriterTypes DEF LockToRemove
    <2> QED BY <1>1, <2>2 DEF LockToRemove, TypeOK, registryVars, clientVars, queryVars, boltVars
  <1> USE DEF TypeOK, registryVars, clientVars, queryVars, tableVars, boltVars, Locks
  <1>2. CASE RemoveListeners(c, t)
    <2>1. CountersLeft(t) \in [Kinds -> Int]
      <3>1. \A k \in Kinds : Cardinality(InList(t, k)) \in Nat
        BY FS_Subset, FS_CardinalityType DEF InList
      <3> QED BY <3>1 DEF CountersLeft
    <2> QED BY <1>2, <2>1 DEF RemoveListeners
  <1> QED BY <1>1, <1>2

\* A query's execution takes a step.
LEMMA ExecutionTypes ==
    ASSUME TypeOK, ExecutionsOK, NEW e \in exs, ExecutionStep(e)
    PROVE  TypeOK'
  <1>0. e.id \in ExIds /\ e.stmt \in Statements
    BY DEF TypeOK
  <1> USE DEF TypeOK, registryVars, clientVars, queryVars, tableVars, boltVars
  <1>1. CASE BeginQuery(e)
    <2>1. First(e.stmt) \in {"table", "record", "read", "scan", "reply"}
      BY DEF First
    <2> QED BY <1>0, <1>1, <2>1, GoToType DEF BeginQuery, Locks
  <1>2. ASSUME NEW k \in Kinds, e.st \in {"table", "record"}
        PROVE  Listener(e, k) \in Listeners /\ e.stmt.table \in Tables
    BY <1>0, <1>2, StatementKinds DEF ExecutionsOK, IsLive, Listener, Listeners
  <1>3. CASE SubscribeToTable(e)
    BY <1>0, <1>2, <1>3, GoToType DEF SubscribeToTable, HandToLoop, Received, Kinds
  <1>4. CASE SubscribeToRecord(e)
    BY <1>0, <1>2, <1>4, GoToType DEF SubscribeToRecord, HandToLoop, Received, Kinds, EndQuery, Locks
  <1>5. CASE ReadRows(e)
    BY <1>5, GoToType DEF ReadRows, EndQuery, Locks
  <1>6. CASE WriteResult(e)
    BY <1>0, <1>6 DEF WriteResult, WriteMessage, ExIds
  <1> QED BY <1>1, <1>3, <1>4, <1>5, <1>6 DEF ExecutionStep

\* A gauge or a scan counts.
LEMMA CountTypes ==
    ASSUME TypeOK, IsFiniteSet(listeners), NEW p \in Scanners, CountStep(p)
    PROVE  TypeOK'
  <1> USE DEF TypeOK, registryVars, clientVars, queryVars, tableVars, boltVars
  <1>1. ASSUME NEW t \in Tables, LockToCount(p, t)
        PROVE  TypeOK'
    <2>1. Counted(p, t) \in Int
      BY FS_Subset, FS_CardinalityType DEF InList, Counted, Kinds
    <2>2. mu' \in [Tables -> Locks(Scanners)]
      BY <1>1 DEF LockToCount, ReadLock, Locks
    <2>3. /\ DOMAIN scans' = Scanners
          /\ \A q \in Scanners : DOMAIN scans'[q] \subseteq Tables /\ scans'[q] \in [DOMAIN scans'[q] -> Int]
      BY <1>1, <2>1 DEF LockToCount
    <2> QED BY <1>1, <2>2, <2>3 DEF LockToCount
  <1>2. CASE EndCount(p)
    <2>1. mu' \in [Tables -> Locks(Scanners)]
      <3>1. \A u \in Tables : mu[u] \in Locks(Scanners)
        OBVIOUS
      <3>2. \A u \in Tables : [mu[u] EXCEPT !.readers = @ \ {p}] \in Locks(Scanners)
        BY <3>1 DEF Locks
      <3>3. mu' = [u \in Tables |-> [mu[u] EXCEPT !.readers = @ \ {p}]]
        BY <1>2 DEF EndCount
      <3> QED BY <3>2, <3>3
    <2>2. /\ DOMAIN scans' = Scanners
          /\ \A q \in Scanners : DOMAIN scans'[q] \subseteq Tables /\ scans'[q] \in [DOMAIN scans'[q] -> Int]
      BY <1>2 DEF EndCount, NoScan
    <2>3. exs' \subseteq [id : ExIds, stmt : Statements,
                          st : {"begin", "table", "record", "read", "scan", "reply"}]
          /\ map' \in Locks(ExIds)
      <3>1. CASE p \in Gauges
        BY <1>2, <3>1 DEF EndCount
      <3>2. CASE p \notin Gauges
        <4>1. PICK e \in exs : EndQuery(e)
          BY <1>2, <3>2 DEF EndCount
        <4> QED BY <4>1, GoToType DEF EndQuery, Locks
      <3> QED BY <3>1, <3>2
    <2> QED BY <1>2, <2>1, <2>2, <2>3 DEF EndCount
  <1> QED BY <1>1, <1>2 DEF CountStep

\* The handler reads a statement.
LEMMA StatementTypes ==
    ASSUME TypeOK, NEW c \in Conns, HandleStatement(c)
    PROVE  TypeOK'
  <1> USE DEF TypeOK, registryVars, clientVars, queryVars, tableVars, boltVars
  <1>1. PICK s \in Requests[c] :
           /\ asked' = [asked EXCEPT ![c] = Append(@, s)]
           /\ IF s.do \in {"insert", "update"}
              THEN /\ pc' = [pc EXCEPT ![c] = "write"]
                   /\ UNCHANGED exs
              ELSE /\ pc' = [pc EXCEPT ![c] = "query"]
                   /\ exs' = exs \cup {Execution(c, Len(asked'[c]), 0, s)}
    BY DEF HandleStatement
  <1>2. s \in Statements /\ asked[c] \in Seq(Statements)
    BY RequestsAssumption
  <1>3. Append(asked[c], s) \in Seq(Statements) /\ Len(Append(asked[c], s)) \in Nat \ {0}
    BY <1>2
  <1>4. asked' \in [Conns -> Seq(Statements)] /\ asked'[c] = Append(asked[c], s)
    BY <1>1, <1>3
  <1>5. Execution(c, Len(asked'[c]), 0, s) \in
           [id : ExIds, stmt : Statements, st : {"begin", "table", "record", "read", "scan", "reply"}]
    BY <1>2, <1>3, <1>4 DEF Execution, ExId, ExIds
  <1>6. pc' \in [Conns -> {"new", "load", "store", "register", "idle", "query", "write", "push",
                            "commit", "grow", "reply", "remove", "gone"}]
    BY <1>1
  <1>7. exs' \subseteq [id : ExIds, stmt : Statements, st : {"begin", "table", "record", "read", "scan", "reply"}]
    BY <1>1, <1>5
  <1> QED BY <1>4, <1>6, <1>7 DEF HandleStatement

\* The handler of a statement that writes goes on.
LEMMA WriteTypes ==
    ASSUME TypeOK, HandlersOK, NEW c \in Conns,
           BeginWrite(c) \/ PushEvent(c) \/ CommitInPlace(c) \/ LockMap(c) \/ GrowMap(c) \/ WriteReply(c)
    PROVE  TypeOK'
  <1> USE DEF TypeOK, registryVars, clientVars, queryVars, tableVars, boltVars
  <1>1. CASE BeginWrite(c)
    BY <1>1 DEF BeginWrite, Outcomes
  <1>2. CASE PushEvent(c)
    <2>1. Statement(c).table \in Tables /\ Statement(c).do \in {"insert", "update"}
      BY <1>2, LastStatement, StatementKinds DEF PushEvent, HandlersOK, Writing
    <2> QED BY <1>2, <2>1 DEF PushEvent, HandToLoop, Received
  <1>3. CASE CommitInPlace(c)
    BY <1>3 DEF CommitInPlace, Committed
  <1>4. CASE LockMap(c)
    BY <1>4 DEF LockMap, Locks
  <1>5. CASE GrowMap(c)
    BY <1>5 DEF GrowMap, Committed, Locks
  <1>6. CASE WriteReply(c)
    BY <1>6 DEF WriteReply, WriteMessage
  <1> QED BY <1>1, <1>2, <1>3, <1>4, <1>5, <1>6

\* A table's loop takes a step.
LEMMA LoopTypes ==
    ASSUME TypeOK, NEW t \in Tables, LoopStep(t)
    PROVE  TypeOK'
  <1>1. CASE LockToHandle(t)
    <2>1. mu[t] \in Locks(Scanners) => [mu[t] EXCEPT !.writer = t] \in Locks(Scanners)
      BY DEF Locks
    <2>2. mu' \in [Tables -> Locks(Scanners)]
      BY <1>1, <2>1, WriterTypes DEF LockToHandle
    <2> QED BY <1>1, <2>2 DEF LockToHandle, TypeOK, registryVars, clientVars, queryVars, boltVars
  <1> USE DEF TypeOK, registryVars, clientVars, queryVars, tableVars, boltVars
  <1>2. ASSUME Unlocked(t)
        PROVE  /\ mu' \in [Tables -> Locks(Scanners)]
               /\ loop' \in [Tables -> [st : {"select", "received", "send"},
                                        job : {"none", "listen", "insert", "update"},
                                        left : SUBSET Listeners]]
    BY <1>2 DEF Unlocked, Waiting, Locks
  <1>3. CASE HandleSubscription(t)
    <2>1. PICK l \in loop[t].left :
             listeners' = listeners \cup {l} /\ num' = [num EXCEPT ![t][l.kind] = @ + 1]
      BY <1>3 DEF HandleSubscription
    <2>2. l \in Listeners /\ l.kind \in Kinds
      BY DEF Listeners
    <2>3. num' \in [Tables -> [Kinds -> Int]]
      BY <2>1, <2>2
    <2>4. listeners' \subseteq Listeners
      BY <2>1, <2>2
    <2> QED BY <1>2, <1>3, <2>3, <2>4 DEF HandleSubscription
  <1>4. ASSUME NEW left \in SUBSET Listeners, Send(t, left)
        PROVE  /\ mu' \in [Tables -> Locks(Scanners)]
               /\ loop' \in [Tables -> [st : {"select", "received", "send"},
                                        job : {"none", "listen", "insert", "update"},
                                        left : SUBSET Listeners]]
    <2>1. CASE left = {}
      BY <1>2, <1>4, <2>1 DEF Send
    <2>2. CASE left # {}
      <3>1. mu' = mu /\ loop' = [loop EXCEPT ![t] = [st |-> "send", job |-> loop[t].job, left |-> left]]
        BY <1>4, <2>2 DEF Send
      <3> QED BY <3>1
    <2> QED BY <2>1, <2>2
  <1>5. CASE HandleTableEvent(t)
    <2>1. \A k : InList(t, k) \in SUBSET Listeners
      BY DEF InList
    <2> QED BY <1>4, <1>5, <2>1 DEF HandleTableEvent
  <1>6. ASSUME NEW l \in loop[t].left, SendEvent(t, l)
        PROVE  TypeOK'
    <2>1. l \in Listeners /\ l.ex \in ExIds /\ l.ex.conn \in Conns /\ l.ex.chan \in Nat \ {0}
      BY DEF Listeners, ExIds
    <2>2. loop[t].left \ {l} \in SUBSET Listeners
      OBVIOUS
    <2>3. CASE l.kind = "query"
      <3> DEFINE s == [do |-> "select", table |-> t, live |-> TRUE, fails |-> FALSE]
                 x == Execution(l.ex.conn, l.ex.chan, runs[l.ex.conn] + 1, s)
      <3>1. s \in Statements
        BY DEF Statements
      <3>2. x \in [id : ExIds, stmt : Statements, st : {"begin", "table", "record", "read", "scan", "reply"}]
        BY <2>1, <3>1 DEF Execution, ExId, ExIds
      <3>3. exs' = exs \cup {x} /\ runs' = [runs EXCEPT ![l.ex.conn] = @ + 1] /\ writer' = writer
        BY <1>6, <2>3 DEF SendEvent
      <3> HIDE DEF x
      <3> QED BY <1>4, <1>6, <2>1, <2>2, <3>2, <3>3 DEF SendEvent
    <2>4. CASE l.kind # "query"
      BY <1>4, <1>6, <2>1, <2>2, <2>4 DEF SendEvent, WriteMessage
    <2> QED BY <2>3, <2>4
  <1> QED BY <1>1, <1>3, <1>5, <1>6 DEF LoopStep

\* Every step keeps the types.
LEMMA TypeStep ==
    TypeOK /\ Protocol /\ [Next]_vars => TypeOK'
  <1> SUFFICES ASSUME TypeOK, Protocol, [Next]_vars  PROVE TypeOK'
    OBVIOUS
  <1>1. ASSUME NEW c \in Conns,
               AddConnection(c) \/ HandleStatement(c) \/ HandlerStep(c)
        PROVE  TypeOK'
    BY <1>1, RegistryTypes, RemoveTypes, StatementTypes, WriteTypes
       DEF HandlerStep, RemoveConn, Protocol
  <1>2. ASSUME NEW c \in Conns, WriteToSocket(c) \/ CloseSocket(c)
        PROVE  TypeOK'
    BY <1>2 DEF WriteToSocket, CloseSocket, TypeOK, registryVars, clientVars, tableVars, boltVars, queryVars
  <1>3. CASE Signal \/ CloseBolt \/ UNCHANGED vars
    BY <1>3 DEF Signal, CloseBolt, vars, TypeOK, registryVars, clientVars, queryVars, tableVars, boltVars
  <1> QED BY <1>1, <1>2, <1>3, ExecutionTypes, CountTypes, LoopTypes DEF Next, Protocol

-----------------------------------------------------------------------------
(* The protocol's state.                                                   *)

\* Who changes what.
LEMMA WhoChanges ==
    ASSUME Next
    PROVE  /\ UNCHANGED <<id, loaded>> \/ \E c \in Conns : AddConnection(c)
           /\ UNCHANGED connections \/ \E c \in Conns : Register(c) \/ BeginRemove(c)
           /\ \/ UNCHANGED pc
              \/ \E c \in Conns : AddConnection(c) \/ HandleStatement(c) \/ HandlerStep(c)
              \/ \E e \in exs : WriteResult(e)
           /\ UNCHANGED asked \/ \E c \in Conns : HandleStatement(c)
           /\ \/ UNCHANGED todo
              \/ \E c \in Conns : BeginRemove(c) \/ \E t \in Tables : RemoveListeners(c, t)
           /\ \/ UNCHANGED exs
              \/ \E c \in Conns : HandleStatement(c)
              \/ \E e \in exs : ExecutionStep(e)
              \/ \E p \in Scanners : EndCount(p)
              \/ \E t \in Tables : \E l \in loop[t].left : SendEvent(t, l)
           /\ UNCHANGED runs \/ \E t \in Tables : \E l \in loop[t].left : SendEvent(t, l)
           /\ \/ UNCHANGED mu
              \/ \E c \in Conns, t \in Tables : LockToRemove(c, t) \/ RemoveListeners(c, t)
              \/ \E p \in Scanners : CountStep(p)
              \/ \E t \in Tables : LoopStep(t)
           /\ \/ UNCHANGED loop
              \/ \E c \in Conns : PushEvent(c)
              \/ \E e \in exs : SubscribeToTable(e) \/ SubscribeToRecord(e)
              \/ \E t \in Tables : LoopStep(t)
           /\ \/ UNCHANGED <<listeners, num>>
              \/ \E c \in Conns, t \in Tables : RemoveListeners(c, t)
              \/ \E t \in Tables : HandleSubscription(t)
           /\ UNCHANGED scans \/ \E p \in Scanners : CountStep(p)
  <1> USE DEF registryVars, clientVars, queryVars, tableVars, boltVars
  <1>1. ASSUME NEW c \in Conns, AddConnection(c) \/ CloseSocket(c)
        PROVE  UNCHANGED <<asked, todo, exs, runs, mu, loop, listeners, num, scans>>
               /\ (UNCHANGED <<id, loaded, pc>> \/ AddConnection(c))
               /\ (UNCHANGED connections \/ Register(c))
    BY <1>1 DEF AddConnection, ReadNextId, LoadNextId, StoreNextId, Register, CloseSocket
  <1>2. ASSUME NEW c \in Conns, RemoveConn(c)
        PROVE  UNCHANGED <<id, loaded, asked, exs, runs, loop, scans>>
               /\ (UNCHANGED connections \/ BeginRemove(c))
               /\ (UNCHANGED <<todo, listeners, num, mu>> \/ BeginRemove(c)
                   \/ \E t \in Tables : LockToRemove(c, t) \/ RemoveListeners(c, t))
               /\ (UNCHANGED todo \/ BeginRemove(c) \/ \E t \in Tables : RemoveListeners(c, t))
               /\ (UNCHANGED mu \/ \E t \in Tables : LockToRemove(c, t) \/ RemoveListeners(c, t))
               /\ (UNCHANGED <<listeners, num>> \/ \E t \in Tables : RemoveListeners(c, t))
    BY <1>2 DEF RemoveConn, BeginRemove, LockToRemove, RemoveListeners
  <1>3. ASSUME NEW c \in Conns,
               BeginWrite(c) \/ PushEvent(c) \/ CommitInPlace(c) \/ LockMap(c) \/ GrowMap(c) \/ WriteReply(c)
        PROVE  UNCHANGED <<id, loaded, connections, asked, todo, exs, runs, mu, listeners, num, scans>>
               /\ (UNCHANGED loop \/ PushEvent(c))
    BY <1>3 DEF BeginWrite, PushEvent, CommitInPlace, LockMap, GrowMap, WriteReply
  <1>4. ASSUME NEW c \in Conns, HandleStatement(c)
        PROVE  UNCHANGED <<id, loaded, connections, todo, runs, mu, loop, listeners, num, scans>>
    BY <1>4 DEF HandleStatement
  <1>5. ASSUME NEW e \in exs, ExecutionStep(e)
        PROVE  UNCHANGED <<id, loaded, connections, asked, todo, runs, mu, listeners, num, scans>>
               /\ (UNCHANGED pc \/ WriteResult(e))
               /\ (UNCHANGED loop \/ SubscribeToTable(e) \/ SubscribeToRecord(e))
    BY <1>5 DEF ExecutionStep, BeginQuery, SubscribeToTable, SubscribeToRecord, ReadRows, WriteResult
  <1>6. ASSUME NEW p \in Scanners, CountStep(p)
        PROVE  UNCHANGED <<id, loaded, connections, pc, asked, todo, runs, loop, listeners, num>>
               /\ (UNCHANGED exs \/ EndCount(p))
    BY <1>6 DEF CountStep, LockToCount, EndCount
  <1>7. ASSUME NEW t \in Tables, LoopStep(t)
        PROVE  UNCHANGED <<id, loaded, connections, pc, asked, todo, scans>>
               /\ (UNCHANGED <<exs, runs>> \/ \E l \in loop[t].left : SendEvent(t, l))
               /\ (UNCHANGED <<listeners, num>> \/ HandleSubscription(t))
    BY <1>7 DEF LoopStep, LockToHandle, HandleSubscription, HandleTableEvent, SendEvent
  <1>8. ASSUME NEW c \in Conns, WriteToSocket(c)
        PROVE  UNCHANGED <<id, loaded, connections, pc, asked, todo, exs, runs, mu, loop, listeners, num, scans>>
    BY <1>8 DEF WriteToSocket
  <1>9. ASSUME Signal \/ CloseBolt
        PROVE  UNCHANGED <<id, loaded, connections, pc, asked, todo, exs, runs, mu, loop, listeners, num, scans>>
    BY <1>9 DEF Signal, CloseBolt
  <1>10. CASE \E c \in Conns : AddConnection(c) \/ CloseSocket(c)
    BY <1>1, <1>10
  <1>11. CASE \E c \in Conns : RemoveConn(c)
    BY <1>2, <1>11 DEF HandlerStep
  <1>12. CASE \E c \in Conns : \/ BeginWrite(c) \/ PushEvent(c) \/ CommitInPlace(c)
                               \/ LockMap(c) \/ GrowMap(c) \/ WriteReply(c)
    BY <1>3, <1>12 DEF HandlerStep
  <1>13. CASE \E c \in Conns : HandleStatement(c) \/ WriteToSocket(c)
    BY <1>4, <1>8, <1>13
  <1>14. CASE \E e \in exs : ExecutionStep(e)
    BY <1>5, <1>14
  <1>15. CASE \E p \in Scanners : CountStep(p)
    BY <1>6, <1>15
  <1>16. CASE \E t \in Tables : LoopStep(t)
    BY <1>7, <1>16
  <1> QED BY <1>9, <1>10, <1>11, <1>12, <1>13, <1>14, <1>15, <1>16 DEF Next, HandlerStep

\* The handlers go from one place to the next.
LEMMA HandlersStep ==
    ASSUME TypeOK, ExecutionsOK, HandlersOK, [Next]_vars
    PROVE  HandlersOK'
  <1> USE DEF HandlersOK, TypeOK, registryVars, clientVars, queryVars, tableVars, boltVars
  <1>1. ASSUME NEW c \in Conns, AddConnection(c)  PROVE HandlersOK'
    <2>1. CASE ReadNextId(c)
      BY <2>1 DEF ReadNextId, Adding, Writing, Statement
    <2>2. CASE LoadNextId(c)
      BY <2>2 DEF LoadNextId, Adding, Writing, Statement
    <2>3. CASE StoreNextId(c)
      BY <2>3 DEF StoreNextId, Adding, Writing, Statement
    <2>4. CASE Register(c)
      BY <2>4 DEF Register, Adding, Writing, Statement
    <2> QED BY <1>1, <2>1, <2>2, <2>3, <2>4 DEF AddConnection
  <1>2. ASSUME NEW c \in Conns, HandleStatement(c)  PROVE HandlersOK'
    <2>1. PICK s \in Requests[c] :
             /\ asked' = [asked EXCEPT ![c] = Append(@, s)]
             /\ pc' = [pc EXCEPT ![c] = IF s.do \in {"insert", "update"} THEN "write" ELSE "query"]
      BY <1>2 DEF HandleStatement
    <2>2. s \in Statements /\ asked[c] \in Seq(Statements)
      BY RequestsAssumption
    <2>3. asked'[c] # << >> /\ Statement(c)' = s
      BY <2>1, <2>2 DEF Statement
    <2>4. \A d \in Conns \ {c} : asked'[d] = asked[d] /\ Statement(d)' = Statement(d) /\ pc'[d] = pc[d]
      BY <2>1 DEF Statement
    <2>5. UNCHANGED <<id, loaded, todo>> /\ pc[c] = "idle"
          /\ pc'[c] = IF s.do \in {"insert", "update"} THEN "write" ELSE "query"
      BY <1>2, <2>1 DEF HandleStatement
    <2>6. ASSUME NEW d \in Conns
          PROVE  /\ pc'[d] = "new" <=> id'[d] = -1
                 /\ pc'[d] = "store" => loaded'[d] # -1
                 /\ pc'[d] \in Adding => asked'[d] = << >>
                 /\ pc'[d] \in Writing => asked'[d] # << >> /\ Statement(d)'.do \in {"insert", "update"}
                 /\ pc'[d] = "gone" => todo'[d] = {}
      <3>1. CASE d = c
        BY <2>3, <2>5, <3>1 DEF Adding, Writing
      <3>2. CASE d # c
        BY <2>4, <2>5, <3>2
      <3> QED BY <3>1, <3>2
    <2> QED BY <2>6
  <1>3. ASSUME NEW c \in Conns, RemoveConn(c)  PROVE HandlersOK'
    <2>1. CASE BeginRemove(c)
      BY <2>1 DEF BeginRemove, Adding, Writing, Statement
    <2>2. ASSUME NEW t \in Tables, LockToRemove(c, t)  PROVE HandlersOK'
      BY <2>2 DEF LockToRemove, Statement
    <2>3. ASSUME NEW t \in Tables, RemoveListeners(c, t)  PROVE HandlersOK'
      BY <2>3 DEF RemoveListeners, Adding, Writing, Statement
    <2> QED BY <1>3, <2>1, <2>2, <2>3 DEF RemoveConn
  <1>4. ASSUME NEW c \in Conns,
               BeginWrite(c) \/ PushEvent(c) \/ CommitInPlace(c) \/ LockMap(c) \/ GrowMap(c) \/ WriteReply(c)
        PROVE  HandlersOK'
    <2>1. \E v \in Writing \cup {"idle"} : pc' = [pc EXCEPT ![c] = v]
      BY <1>4 DEF BeginWrite, PushEvent, CommitInPlace, LockMap, GrowMap, WriteReply,
                  Committed, Outcomes, Writing
    <2>2. pc[c] \in Writing /\ UNCHANGED <<id, loaded, asked, todo>>
      BY <1>4 DEF BeginWrite, PushEvent, CommitInPlace, LockMap, GrowMap, WriteReply, Writing
    <2> QED BY <2>1, <2>2 DEF Writing, Adding, Statement
  <1>5. ASSUME NEW e \in exs, WriteResult(e)  PROVE HandlersOK'
    <2>1. e.id.conn \in Conns /\ (e.id.run = 0 => pc[e.id.conn] = "query")
      BY DEF ExecutionsOK, ExIds
    <2> QED BY <1>5, <2>1 DEF WriteResult, Adding, Writing, Statement
  <1>6. CASE UNCHANGED <<pc, id, loaded, asked, todo>>
    BY <1>6 DEF Statement
  <1> QED BY <1>1, <1>2, <1>3, <1>4, <1>5, <1>6, WhoChanges DEF HandlerStep, RemoveConn, vars

\* Every execution there is goes to a place of its own, or one more begins.
LEMMA ExecutionsStep ==
    ASSUME TypeOK, HandlersOK, IdsUsed, ExecutionsOK, [Next]_vars
    PROVE  ExecutionsOK'
  <1> USE DEF ExecutionsOK
  <1>1. ASSUME NEW e \in exs, NEW st, exs' = GoTo(e, st), UNCHANGED <<pc, asked>>,
               st \in {"table", "record"} => IsLive(e.stmt),
               st = "read" => e.stmt.do = "select" /\ ~e.stmt.live,
               st = "scan" => e.stmt.do = "scan"
        PROVE  ExecutionsOK'
    <2>1. PICK x : x = [e EXCEPT !.st = st]
      OBVIOUS
    <2>2. x.id = e.id /\ x.stmt = e.stmt /\ x.st = st
      BY <2>1 DEF TypeOK
    <2>3. exs' = (exs \ {e}) \cup {x}
      BY <1>1, <2>1 DEF GoTo
    <2> QED BY <1>1, <2>2, <2>3 DEF Statement
  <1>2. ASSUME NEW x \in [id : ExIds, stmt : Statements, st : {"begin"}],
               exs' = exs \cup {x}, \A e \in exs : e.id # x.id, x.stmt.do \in {"select", "scan"},
               \A e \in exs : e.id.run = 0 =>
                  /\ pc'[e.id.conn] = pc[e.id.conn] /\ asked'[e.id.conn] = asked[e.id.conn],
               x.id.run = 0 =>
                  /\ pc'[x.id.conn] = "query" /\ x.id.chan = Len(asked'[x.id.conn])
                  /\ x.stmt = Statement(x.id.conn)'
        PROVE  ExecutionsOK'
    BY <1>2 DEF Statement
  <1>3. ASSUME NEW c \in Conns, NEW v, pc[c] # "query", UNCHANGED <<exs, asked>>,
               pc' = [pc EXCEPT ![c] = v]
        PROVE  ExecutionsOK'
    BY <1>3 DEF Statement, TypeOK
  <1> USE DEF registryVars, clientVars, queryVars, tableVars, boltVars
  <1>4. ASSUME NEW e \in exs, ExecutionStep(e)
        PROVE  ExecutionsOK'
    <2>1. CASE BeginQuery(e)
      <3>1. First(e.stmt) \in {"table", "record"} => IsLive(e.stmt)
        <4>1. e.stmt \in Statements
          BY DEF TypeOK
        <4> QED BY <4>1, StatementKinds DEF First, IsLive
      <3>2. First(e.stmt) = "read" => e.stmt.do = "select" /\ ~e.stmt.live
        BY DEF First
      <3>3. First(e.stmt) = "scan" => e.stmt.do = "scan"
        BY DEF First
      <3>4. exs' = GoTo(e, First(e.stmt)) /\ UNCHANGED <<pc, asked>>
        BY <2>1 DEF BeginQuery
      <3> QED BY <1>1, <3>1, <3>2, <3>3, <3>4
    <2>2. CASE SubscribeToTable(e)
      <3>1. exs' = GoTo(e, "record") /\ UNCHANGED <<pc, asked>> /\ IsLive(e.stmt)
        BY <2>2 DEF SubscribeToTable
      <3> QED BY <1>1, <3>1
    <2>3. CASE SubscribeToRecord(e) \/ ReadRows(e)
      <3>1. exs' = GoTo(e, "reply") /\ UNCHANGED <<pc, asked>>
        BY <2>3 DEF SubscribeToRecord, ReadRows, EndQuery
      <3> QED BY <1>1, <3>1
    <2>4. CASE WriteResult(e)
      <3>1. exs' = exs \ {e} /\ UNCHANGED asked
            /\ pc' = IF e.id.run = 0 THEN [pc EXCEPT ![e.id.conn] = "idle"] ELSE pc
        BY <2>4 DEF WriteResult
      <3>2. ASSUME NEW f \in exs, f # e, f.id.run = 0, e.id.run = 0
            PROVE  f.id.conn # e.id.conn
        <4>1. f.id \in ExIds /\ e.id \in ExIds
          BY DEF TypeOK
        <4>2. f.id.conn = e.id.conn => f.id = e.id
          BY <3>2, <4>1 DEF ExIds
        <4> QED BY <3>2, <4>2
      <3>3. \A f \in exs' : f.id.run = 0 => pc'[f.id.conn] = pc[f.id.conn]
        BY <3>1, <3>2 DEF TypeOK
      <3> QED BY <3>1, <3>3 DEF Statement
    <2> QED BY <1>4, <2>1, <2>2, <2>3, <2>4 DEF ExecutionStep
  <1>5. ASSUME NEW p \in Scanners, EndCount(p)
        PROVE  ExecutionsOK'
    <2>1. UNCHANGED <<pc, asked>>
      BY <1>5 DEF EndCount
    <2>2. CASE p \in Gauges
      BY <1>5, <2>1, <2>2 DEF EndCount, Statement
    <2>3. CASE p \notin Gauges
      <3>1. PICK e \in exs : exs' = GoTo(e, "reply")
        BY <1>5, <2>3 DEF EndCount, EndQuery
      <3> QED BY <1>1, <2>1, <3>1
    <2> QED BY <2>2, <2>3
  <1>6. ASSUME NEW c \in Conns, HandleStatement(c)
        PROVE  ExecutionsOK'
    <2>1. PICK s \in Requests[c] :
             /\ asked' = [asked EXCEPT ![c] = Append(@, s)]
             /\ IF s.do \in {"insert", "update"}
                THEN pc' = [pc EXCEPT ![c] = "write"] /\ UNCHANGED exs
                ELSE pc' = [pc EXCEPT ![c] = "query"]
                     /\ exs' = exs \cup {Execution(c, Len(asked'[c]), 0, s)}
      BY <1>6 DEF HandleStatement
    <2>2. s \in Statements /\ asked[c] \in Seq(Statements) /\ pc[c] = "idle"
      BY <1>6, RequestsAssumption DEF HandleStatement, TypeOK
    <2>3. /\ asked'[c] = Append(asked[c], s) /\ Len(asked'[c]) \in Nat \ {0} /\ Statement(c)' = s
          /\ \A d \in Conns \ {c} : asked'[d] = asked[d] /\ pc'[d] = pc[d]
      BY <2>1, <2>2 DEF TypeOK, Statement
    <2>4. \A e \in exs : e.id.run = 0 => e.id.conn \in Conns \ {c}
      BY <2>2 DEF TypeOK, ExIds
    <2>5. CASE s.do \in {"insert", "update"}
      BY <2>1, <2>3, <2>4, <2>5 DEF Statement
    <2>6. CASE s.do \notin {"insert", "update"}
      <3> DEFINE x == Execution(c, Len(asked'[c]), 0, s)
      <3>1. /\ x \in [id : ExIds, stmt : Statements, st : {"begin"}]
            /\ x.id.conn = c /\ x.id.run = 0 /\ x.id.chan = Len(asked'[c]) /\ x.stmt = s
        BY <2>2, <2>3 DEF Execution, ExId, ExIds
      <3>2. s.do \in {"select", "scan"}
        BY <2>2, <2>6, StatementKinds
      <3>3. exs' = exs \cup {x} /\ pc'[c] = "query"
        BY <2>1, <2>6 DEF TypeOK
      <3> HIDE DEF x
      <3>4. \A e \in exs : e.id # x.id
        BY <2>4, <3>1
      <3> QED BY <1>2, <2>3, <2>4, <3>1, <3>2, <3>3, <3>4
    <2> QED BY <2>5, <2>6
  <1>7. ASSUME NEW t \in Tables, NEW l \in loop[t].left, SendEvent(t, l)
        PROVE  ExecutionsOK'
    <2>1. UNCHANGED <<pc, asked>>
      BY <1>7 DEF SendEvent
    <2>2. CASE l.kind # "query"
      BY <1>7, <2>1, <2>2 DEF SendEvent, Statement
    <2>3. CASE l.kind = "query"
      <3> DEFINE n == runs[l.ex.conn] + 1
                 s == [do |-> "select", table |-> t, live |-> TRUE, fails |-> FALSE]
                 x == Execution(l.ex.conn, l.ex.chan, n, s)
      <3>1. l.ex \in ExIds /\ n \in Nat \ {0} /\ s \in Statements
        BY DEF TypeOK, Listeners, ExIds, Statements
      <3>2. /\ x \in [id : ExIds, stmt : Statements, st : {"begin"}]
            /\ x.id.conn = l.ex.conn /\ x.id.run = n /\ x.stmt.do = "select"
        BY <3>1 DEF Execution, ExId, ExIds
      <3>3. exs' = exs \cup {x}
        BY <1>7, <2>3 DEF SendEvent
      <3> HIDE DEF x
      <3>4. \A e \in exs : e.id # x.id
        <4>1. \A e \in exs : e.id.conn = l.ex.conn => e.id.run <= runs[l.ex.conn]
          BY DEF IdsUsed, Used
        <4>2. runs[l.ex.conn] \in Nat
          BY <3>1 DEF TypeOK, ExIds
        <4> QED BY <3>2, <4>1, <4>2
      <3> QED BY <1>2, <2>1, <3>1, <3>2, <3>3, <3>4
    <2> QED BY <2>2, <2>3
  <1>8. ASSUME NEW c \in Conns, AddConnection(c) \/ HandlerStep(c), UNCHANGED <<exs, asked>>
        PROVE  ExecutionsOK'
    <2>1. pc[c] # "query"
      BY <1>8 DEF AddConnection, ReadNextId, LoadNextId, StoreNextId, Register, HandlerStep, RemoveConn,
         BeginRemove, LockToRemove, RemoveListeners, BeginWrite, PushEvent, CommitInPlace, LockMap, GrowMap,
         WriteReply
    <2>2. pc' = pc \/ \E v : pc' = [pc EXCEPT ![c] = v]
      BY <1>8 DEF AddConnection, ReadNextId, LoadNextId, StoreNextId, Register, HandlerStep, RemoveConn,
         BeginRemove, LockToRemove, RemoveListeners, BeginWrite, PushEvent, CommitInPlace, LockMap, GrowMap,
         WriteReply, Committed
    <2>3. CASE pc' = pc
      BY <1>8, <2>3 DEF Statement
    <2> QED BY <1>3, <1>8, <2>1, <2>2, <2>3
  <1>9. CASE UNCHANGED <<exs, pc, asked>>
    BY <1>9 DEF Statement
  <1> QED BY <1>4, <1>5, <1>6, <1>7, <1>8, <1>9, WhoChanges DEF vars, ExecutionStep

-----------------------------------------------------------------------------
(* Listeners and the loops.                                                *)

\* The next subscription of an execution, and where it is then.
Subscribes(e, k) ==
    \/ k = "query" /\ e.st = "table" /\ exs' = GoTo(e, "record")
    \/ k = "record" /\ e.st = "record" /\ exs' = GoTo(e, "reply")

\* The listener that an execution subscribes is one, of its statement's table.
LEMMA ListenerType ==
    ASSUME TypeOK, ExecutionsOK, NEW e \in exs, e.stmt.do = "select", NEW k \in Kinds
    PROVE  /\ Listener(e, k) \in Listeners /\ e.stmt.table \in Tables /\ e.id \in ExIds
           /\ Listener(e, k).table = e.stmt.table
           /\ Listener(e, k).ex = e.id /\ Listener(e, k).kind = k
  <1>1. e.stmt \in Statements /\ e.id \in ExIds
    BY DEF TypeOK
  <1> QED BY <1>1, StatementKinds DEF Listener, Listeners

\* What is handed to a loop is what it has then.
LEMMA Handed ==
    ASSUME TypeOK, NEW t \in Tables, NEW job, NEW left, HandToLoop(t, job, left)
    PROVE  /\ loop[t].st = "select"
           /\ loop'[t] = [st |-> "received", job |-> job, left |-> left]
           /\ \A u \in Tables \ {t} : loop'[u] = loop[u]
  BY DEF TypeOK, HandToLoop, Received

\* An execution hands its loop a subscription.
LEMMA SubscribeHands ==
    ASSUME TypeOK, ExecutionsOK, NEW e \in exs, SubscribeToTable(e) \/ SubscribeToRecord(e)
    PROVE  \E k \in Kinds : /\ Subscribes(e, k) /\ IsLive(e.stmt)
                            /\ HandToLoop(e.stmt.table, "listen", {Listener(e, k)})
  <1>1. IsLive(e.stmt)
    BY DEF ExecutionsOK, SubscribeToTable, SubscribeToRecord
  <1>2. CASE SubscribeToTable(e)
    BY <1>1, <1>2 DEF SubscribeToTable, Subscribes, Kinds
  <1>3. CASE SubscribeToRecord(e)
    BY <1>1, <1>3 DEF SubscribeToRecord, EndQuery, Subscribes, Kinds
  <1> QED BY <1>2, <1>3

\* What each step of a loop makes of what it has in hand.
LEMMA LoopGoesOn ==
    ASSUME TypeOK, LoopsOK, NEW t \in Tables, LoopStep(t)
    PROVE  /\ \A u \in Tables \ {t} : loop'[u] = loop[u]
           /\ \/ loop' = loop /\ listeners' = listeners
              \/ /\ loop'[t] = Waiting
                 /\ \E l \in Listeners : /\ loop[t].left = {l} /\ loop[t].job = "listen"
                                         /\ l.table = t /\ l \notin listeners
                                         /\ listeners' = listeners \cup {l}
                                         /\ num' = [num EXCEPT ![t][l.kind] = @ + 1]
              \/ /\ loop[t].job # "listen" /\ listeners' = listeners
                 /\ \/ loop'[t] = Waiting
                    \/ \E left \in SUBSET (listeners \cup loop[t].left) :
                          loop'[t] = [st |-> "send", job |-> loop[t].job, left |-> left]
  <1> USE DEF TypeOK
  <1>1. CASE LockToHandle(t)
    BY <1>1 DEF LockToHandle
  <1>2. CASE HandleSubscription(t)
    <2>1. PICK l \in loop[t].left :
             listeners' = listeners \cup {l} /\ num' = [num EXCEPT ![t][l.kind] = @ + 1]
      BY <1>2 DEF HandleSubscription
    <2>2. loop[t].job = "listen" /\ loop' = [loop EXCEPT ![t] = Waiting]
      BY <1>2 DEF HandleSubscription, Unlocked
    <2>3. loop[t].left = {l} /\ l.table = t /\ l \notin listeners /\ l \in Listeners
      BY <2>2 DEF LoopsOK
    <2> QED BY <2>1, <2>2, <2>3
  <1>3. ASSUME NEW left, Send(t, left)
        PROVE  /\ \A u \in Tables \ {t} : loop'[u] = loop[u]
               /\ \/ loop'[t] = Waiting
                  \/ loop'[t] = [st |-> "send", job |-> loop[t].job, left |-> left]
    <2>1. CASE left = {}
      BY <1>3, <2>1 DEF Send, Unlocked
    <2>2. CASE left # {}
      BY <1>3, <2>2 DEF Send
    <2> QED BY <2>1, <2>2
  <1>4. CASE HandleTableEvent(t)
    <2>1. \A k : InList(t, k) \in SUBSET (listeners \cup loop[t].left)
      BY DEF InList
    <2> QED BY <1>3, <1>4, <2>1 DEF HandleTableEvent
  <1>5. ASSUME NEW l \in loop[t].left, SendEvent(t, l)
        PROVE  /\ loop[t].job # "listen" /\ listeners' = listeners
               /\ \A u \in Tables \ {t} : loop'[u] = loop[u]
               /\ \/ loop'[t] = Waiting
                  \/ \E left \in SUBSET (listeners \cup loop[t].left) :
                        loop'[t] = [st |-> "send", job |-> loop[t].job, left |-> left]
    <2>1. loop[t].left \ {l} \in SUBSET (listeners \cup loop[t].left)
      OBVIOUS
    <2> QED BY <1>3, <1>5, <2>1 DEF SendEvent, LoopsOK
  <1> QED BY <1>1, <1>2, <1>4, <1>5 DEF LoopStep

\* The push of an event hands the loop no listeners.
LEMMA PushHands ==
    ASSUME TypeOK, HandlersOK, NEW c \in Conns, PushEvent(c)
    PROVE  /\ Statement(c).table \in Tables /\ Statement(c).do \in {"insert", "update"}
           /\ HandToLoop(Statement(c).table, Statement(c).do, {})
           /\ listeners' = listeners
  <1>1. asked[c] # << >> /\ Statement(c).do \in {"insert", "update"}
    BY DEF PushEvent, HandlersOK, Writing
  <1> QED BY <1>1, LastStatement, StatementKinds DEF PushEvent, tableVars

\* The loops and the listeners change in these ways only.
LEMMA ListenersStep ==
    ASSUME TypeOK, HandlersOK, ExecutionsOK, [Next]_vars
    PROVE  \/ UNCHANGED <<loop, listeners>>
           \/ listeners' = listeners /\ \E t \in Tables, job \in {"insert", "update"} : HandToLoop(t, job, {})
           \/ /\ listeners' = listeners
              /\ \E e \in exs, k \in Kinds :
                    /\ Subscribes(e, k) /\ IsLive(e.stmt)
                    /\ HandToLoop(e.stmt.table, "listen", {Listener(e, k)})
           \/ \E c \in Conns, t \in Tables : RemoveListeners(c, t) /\ loop' = loop
           \/ \E t \in Tables : LoopStep(t)
  <1>1. CASE UNCHANGED loop /\ ~UNCHANGED listeners
    <2>1. ASSUME NEW c \in Conns, NEW t \in Tables, RemoveListeners(c, t)  PROVE loop' = loop
      BY <2>1 DEF RemoveListeners
    <2> QED BY <1>1, <2>1, WhoChanges DEF vars, tableVars, LoopStep
  <1>2. ASSUME NEW c \in Conns, PushEvent(c)
        PROVE  listeners' = listeners /\ \E t \in Tables, job \in {"insert", "update"} : HandToLoop(t, job, {})
    BY <1>2, PushHands
  <1>3. ASSUME NEW e \in exs, SubscribeToTable(e) \/ SubscribeToRecord(e)
        PROVE  /\ listeners' = listeners
               /\ \E k \in Kinds : /\ Subscribes(e, k) /\ IsLive(e.stmt)
                                   /\ HandToLoop(e.stmt.table, "listen", {Listener(e, k)})
    BY <1>3, SubscribeHands DEF SubscribeToTable, SubscribeToRecord
  <1> QED BY <1>1, <1>2, <1>3, WhoChanges DEF vars, tableVars

\* A loop's hands hold one subscription of its table, or an event and those it
\* is sent to.
LEMMA LoopsStep ==
    ASSUME TypeOK, HandlersOK, ExecutionsOK, LoopsOK, NotYetSubscribed, [Next]_vars
    PROVE  LoopsOK'
  <1>1. CASE UNCHANGED <<loop, listeners>>
    BY <1>1 DEF LoopsOK
  <1>2. ASSUME listeners' = listeners, NEW t \in Tables, NEW job, NEW left, HandToLoop(t, job, left),
               job = "listen" => \E l \in Listeners : left = {l} /\ l.table = t /\ l \notin listeners
        PROVE  LoopsOK'
    <2>1. ASSUME NEW u \in Tables
          PROVE  /\ loop'[u].st = "select" => loop'[u] = Waiting
                 /\ loop'[u].st = "send" => loop'[u].job # "listen"
                 /\ loop'[u].job = "listen" =>
                       \E l \in Listeners : loop'[u].left = {l} /\ l.table = u /\ l \notin listeners'
      <3>1. CASE u = t
        <4>1. loop'[u] = [st |-> "received", job |-> job, left |-> left]
          BY <1>2, <3>1, Handed
        <4> QED BY <1>2, <3>1, <4>1
      <3>2. CASE u # t
        <4>0. u \in Tables \ {t}
          BY <3>2
        <4>1. loop'[u] = loop[u]
          BY <1>2, <4>0, Handed
        <4> QED BY <1>2, <4>1 DEF LoopsOK
      <3> QED BY <3>1, <3>2
    <2> QED BY <2>1 DEF LoopsOK
  <1>3. ASSUME NEW t \in Tables, NEW job \in {"insert", "update"}, HandToLoop(t, job, {}), listeners' = listeners
        PROVE  LoopsOK'
    BY <1>2, <1>3
  <1>4. ASSUME NEW e \in exs, NEW k \in Kinds, Subscribes(e, k), IsLive(e.stmt), listeners' = listeners,
               HandToLoop(e.stmt.table, "listen", {Listener(e, k)})
        PROVE  LoopsOK'
    <2>1. /\ Listener(e, k) \in Listeners /\ Listener(e, k).table = e.stmt.table /\ e.stmt.table \in Tables
      BY <1>4, ListenerType DEF IsLive
    <2>2. Listener(e, k) \notin listeners
      BY <1>4 DEF IsLive, Subscribes, NotYetSubscribed, Subscribed
    <2> QED BY <1>2, <1>4, <2>1, <2>2
  <1>5. ASSUME NEW c \in Conns, NEW t \in Tables, RemoveListeners(c, t), loop' = loop
        PROVE  LoopsOK'
    <2>1. listeners' \subseteq listeners
      BY <1>5 DEF RemoveListeners
    <2> QED BY <1>5, <2>1 DEF LoopsOK
  <1>6. ASSUME NEW t \in Tables, LoopStep(t)
        PROVE  LoopsOK'
    <2>1. \A u \in Tables \ {t} : loop'[u] = loop[u]
      BY <1>6, LoopGoesOn
    <2>2. ASSUME NEW u \in Tables \ {t}
          PROVE  loop[u].job = "listen" =>
                    \E l \in Listeners : loop[u].left = {l} /\ l.table = u /\ l \notin listeners'
      <3> SUFFICES ASSUME loop[u].job = "listen"
                   PROVE  \E l \in Listeners : loop[u].left = {l} /\ l.table = u /\ l \notin listeners'
        OBVIOUS
      <3>1. PICK l \in Listeners : loop[u].left = {l} /\ l.table = u /\ l \notin listeners
        BY DEF LoopsOK
      <3>2. \A m \in listeners' : m \in listeners \/ m.table = t
        BY <1>6, LoopGoesOn
      <3> QED BY <3>1, <3>2
    <2>3. /\ loop'[t].st = "select" => loop'[t] = Waiting
          /\ loop'[t].st = "send" => loop'[t].job # "listen"
          /\ loop'[t].job = "listen" =>
                \E l \in Listeners : loop'[t].left = {l} /\ l.table = t /\ l \notin listeners'
      <3>1. CASE loop' = loop /\ listeners' = listeners
        BY <3>1 DEF LoopsOK
      <3>2. CASE loop'[t] = Waiting
        BY <3>2 DEF Waiting
      <3>3. CASE /\ loop[t].job # "listen"
                 /\ \E left : loop'[t] = [st |-> "send", job |-> loop[t].job, left |-> left]
        BY <3>3
      <3> QED BY <1>6, <3>1, <3>2, <3>3, LoopGoesOn
    <2> QED BY <2>1, <2>2, <2>3 DEF LoopsOK
  <1> QED BY <1>1, <1>3, <1>4, <1>5, <1>6, ListenersStep

\* The lists stay finite.
LEMMA FiniteStep ==
    ASSUME TypeOK, LoopsOK, IsFiniteSet(listeners), [Next]_vars
    PROVE  IsFiniteSet(listeners)'
  <1>1. ASSUME NEW c \in Conns, NEW t \in Tables, RemoveListeners(c, t)
        PROVE  IsFiniteSet(listeners)'
    <2>1. listeners' \subseteq listeners
      BY <1>1 DEF RemoveListeners
    <2> QED BY <2>1, FS_Subset
  <1>2. ASSUME NEW t \in Tables, HandleSubscription(t)
        PROVE  IsFiniteSet(listeners)'
    <2>1. PICK l : listeners' = listeners \cup {l}
      BY <1>2 DEF HandleSubscription
    <2> QED BY <2>1, FS_AddElement
  <1> QED BY <1>1, <1>2, WhoChanges DEF vars, tableVars

\* What becomes subscribed is what an execution subscribes; what ceases to be
\* is removed with a connection.
LEMMA SubscribedStep ==
    ASSUME TypeOK, HandlersOK, ExecutionsOK, LoopsOK, [Next]_vars, NEW l \in Listeners
    PROVE  /\ Subscribed(l)' =>
                 Subscribed(l) \/ \E e \in exs, k \in Kinds :
                                     Subscribes(e, k) /\ IsLive(e.stmt) /\ l = Listener(e, k)
           /\ Subscribed(l) =>
                 Subscribed(l)' \/ \E c \in Conns, t \in Tables : RemoveListeners(c, t) /\ l \in Gone(c, t)
  <1> DEFINE Conclusion ==
           /\ Subscribed(l)' =>
                 Subscribed(l) \/ \E e \in exs, k \in Kinds :
                                     Subscribes(e, k) /\ IsLive(e.stmt) /\ l = Listener(e, k)
           /\ Subscribed(l) =>
                 Subscribed(l)' \/ \E c \in Conns, t \in Tables : RemoveListeners(c, t) /\ l \in Gone(c, t)
  <1>0. l.table \in Tables
    BY DEF Listeners
  <1>1. CASE UNCHANGED <<loop, listeners>>
    BY <1>1 DEF Subscribed
  <1>2. ASSUME listeners' = listeners, NEW t \in Tables, NEW job \in {"insert", "update"}, HandToLoop(t, job, {})
        PROVE  Subscribed(l)' <=> Subscribed(l)
    <2>1. loop[t] = Waiting /\ loop'[t] = [st |-> "received", job |-> job, left |-> {}]
          /\ \A u \in Tables \ {t} : loop'[u] = loop[u]
      BY <1>2, Handed DEF LoopsOK
    <2> QED BY <1>0, <1>2, <2>1 DEF Subscribed, Waiting
  <1>3. ASSUME listeners' = listeners, NEW e \in exs, NEW k \in Kinds, Subscribes(e, k), IsLive(e.stmt),
               HandToLoop(e.stmt.table, "listen", {Listener(e, k)})
        PROVE  Conclusion
    <2>1. e.stmt.table \in Tables
      BY <1>3, ListenerType DEF IsLive
    <2> DEFINE t == e.stmt.table
    <2>2. loop[t] = Waiting /\ loop'[t] = [st |-> "received", job |-> "listen", left |-> {Listener(e, k)}]
          /\ \A u \in Tables \ {t} : loop'[u] = loop[u]
      BY <1>3, <2>1, Handed DEF LoopsOK
    <2>3. Subscribed(l) => Subscribed(l)'
      BY <1>0, <1>3, <2>2 DEF Subscribed, Waiting
    <2>4. Subscribed(l)' => Subscribed(l) \/ l = Listener(e, k)
      BY <1>0, <1>3, <2>2 DEF Subscribed, Waiting
    <2> QED BY <1>3, <2>3, <2>4
  <1>4. ASSUME NEW c \in Conns, NEW t \in Tables, RemoveListeners(c, t), loop' = loop
        PROVE  Conclusion
    <2>1. listeners' = listeners \ Gone(c, t)
      BY <1>4 DEF RemoveListeners
    <2>2. Subscribed(l)' => Subscribed(l)
      BY <1>4, <2>1 DEF Subscribed
    <2>3. Subscribed(l) => Subscribed(l)' \/ l \in Gone(c, t)
      BY <1>4, <2>1 DEF Subscribed
    <2> QED BY <1>4, <2>2, <2>3
  <1>5. ASSUME NEW t \in Tables, LoopStep(t)
        PROVE  Subscribed(l)' <=> Subscribed(l)
    <2>1. \A u \in Tables \ {t} : loop'[u] = loop[u]
      BY <1>5, LoopGoesOn
    <2>2. CASE loop' = loop /\ listeners' = listeners
      BY <2>2 DEF Subscribed
    <2>3. CASE /\ loop'[t] = Waiting
               /\ \E m \in Listeners : /\ loop[t].left = {m} /\ loop[t].job = "listen"
                                       /\ m.table = t /\ m \notin listeners
                                       /\ listeners' = listeners \cup {m}
      BY <1>0, <2>1, <2>3 DEF Subscribed, Waiting
    <2>4. CASE /\ loop[t].job # "listen" /\ listeners' = listeners
               /\ \/ loop'[t] = Waiting
                  \/ \E left : loop'[t] = [st |-> "send", job |-> loop[t].job, left |-> left]
      <3>1. loop'[t].job # "listen"
        <4>1. CASE loop'[t] = Waiting
          BY <4>1 DEF Waiting
        <4>2. ASSUME NEW left, loop'[t] = [st |-> "send", job |-> loop[t].job, left |-> left]
              PROVE  loop'[t].job # "listen"
          BY <2>4, <4>2
        <4> QED BY <2>4, <4>1, <4>2
      <3>2. CASE l.table = t
        BY <2>4, <3>1, <3>2 DEF Subscribed
      <3>3. CASE l.table # t
        BY <1>0, <2>1, <2>4, <3>3 DEF Subscribed
      <3> QED BY <3>2, <3>3
    <2> QED BY <1>5, <2>2, <2>3, <2>4, LoopGoesOn
  <1> QED BY <1>1, <1>2, <1>3, <1>4, <1>5, ListenersStep

\* Once it has been handed over, a listener is subscribed.
LEMMA HandedIsSubscribed ==
    ASSUME TypeOK, ExecutionsOK, NEW e \in exs
    PROVE  /\ SubscribeToTable(e) => Subscribed(Listener(e, "query"))'
           /\ SubscribeToRecord(e) => Subscribed(Listener(e, "record"))'
  <1>1. ASSUME NEW k \in Kinds, IsLive(e.stmt), HandToLoop(e.stmt.table, "listen", {Listener(e, k)})
        PROVE  Subscribed(Listener(e, k))'
    <2>1. Listener(e, k).table = e.stmt.table /\ e.stmt.table \in Tables
      BY <1>1, ListenerType DEF IsLive
    <2>2. loop'[e.stmt.table] = [st |-> "received", job |-> "listen", left |-> {Listener(e, k)}]
      BY <1>1, <2>1, Handed
    <2>3. Listener(e, k)' = Listener(e, k)
      BY DEF Listener
    <2> QED BY <2>1, <2>2 DEF Subscribed
  <1>2. e.st \in {"table", "record"} => IsLive(e.stmt)
    BY DEF ExecutionsOK
  <1> QED BY <1>1, <1>2 DEF SubscribeToTable, SubscribeToRecord, Kinds

\* The ids of listeners and executions are ids that have been given.
LEMMA IdsStep ==
    ASSUME TypeOK, HandlersOK, ExecutionsOK, LoopsOK, IdsUsed, [Next]_vars
    PROVE  IdsUsed'
  <1>1. ASSUME NEW x \in ExIds, Used(x)  PROVE Used(x)'
    <2>1. CASE UNCHANGED <<asked, runs>>
      BY <1>1, <2>1 DEF Used
    <2>2. ASSUME NEW c \in Conns, HandleStatement(c)  PROVE Used(x)'
      <3>1. PICK s \in Requests[c] : asked' = [asked EXCEPT ![c] = Append(@, s)]
        BY <2>2 DEF HandleStatement
      <3>2. s \in Statements /\ asked[c] \in Seq(Statements) /\ runs' = runs
        BY <2>2, RequestsAssumption DEF TypeOK, HandleStatement
      <3>3. Len(Append(asked[c], s)) = Len(asked[c]) + 1 /\ Len(asked[c]) \in Nat
        BY <3>2
      <3> QED BY <1>1, <3>1, <3>2, <3>3 DEF Used, TypeOK, ExIds
    <2>3. ASSUME NEW t \in Tables, NEW l \in loop[t].left, SendEvent(t, l)  PROVE Used(x)'
      <3>1. asked' = asked /\ (runs' = runs \/ runs' = [runs EXCEPT ![l.ex.conn] = @ + 1])
        BY <2>3 DEF SendEvent, clientVars
      <3>2. x.conn \in Conns /\ x.run \in Nat /\ runs[x.conn] \in Nat
        BY DEF TypeOK, ExIds
      <3>3. runs'[x.conn] = runs[x.conn] \/ runs'[x.conn] = runs[x.conn] + 1
        BY <3>1, <3>2 DEF TypeOK
      <3> QED BY <1>1, <3>1, <3>2, <3>3 DEF Used
    <2> QED BY <2>1, <2>2, <2>3, WhoChanges DEF vars, clientVars, queryVars
  <1>2. ASSUME NEW l \in listeners'  PROVE Used(l.ex)'
    <2>1. l \in listeners \/ \E t \in Tables : l \in loop[t].left
      BY ListenersStep, LoopGoesOn DEF RemoveListeners
    <2>2. l.ex \in ExIds /\ Used(l.ex)
      BY <2>1 DEF TypeOK, Listeners, IdsUsed
    <2> QED BY <1>1, <2>2
  <1>3. ASSUME NEW t \in Tables, NEW l \in loop'[t].left  PROVE Used(l.ex)'
    <2>1. CASE l \in listeners \/ l \in loop[t].left
      <3>1. l.ex \in ExIds /\ Used(l.ex)
        BY <2>1 DEF TypeOK, Listeners, IdsUsed
      <3> QED BY <1>1, <3>1
    <2>2. CASE \E e \in exs, k \in Kinds : IsLive(e.stmt) /\ l = Listener(e, k)
      <3>1. l.ex \in ExIds /\ Used(l.ex)
        BY <2>2, ListenerType DEF IdsUsed, IsLive
      <3> QED BY <1>1, <3>1
    <2>3. l \in listeners \/ l \in loop[t].left \/ \E e \in exs, k \in Kinds : IsLive(e.stmt) /\ l = Listener(e, k)
      <3>1. ASSUME NEW u \in Tables, NEW job, NEW left, HandToLoop(u, job, left)
            PROVE  l \in loop[t].left \/ l \in left
        <4>1. CASE u = t
          <5>1. loop'[u] = [st |-> "received", job |-> job, left |-> left]
            BY <3>1, Handed
          <5> QED BY <1>3, <4>1, <5>1
        <4>2. CASE u # t
          <5>1. loop'[t] = loop[t]
            BY <3>1, <4>2, Handed
          <5> QED BY <5>1
        <4> QED BY <4>1, <4>2
      <3>2. ASSUME NEW u \in Tables, LoopStep(u)
            PROVE  l \in loop[t].left \/ l \in listeners
        <4>1. CASE u # t
          <5>1. loop'[t] = loop[t]
            BY <3>2, <4>1, LoopGoesOn
          <5> QED BY <5>1
        <4>2. CASE u = t
          <5>1. \/ loop' = loop
                \/ loop'[t] = Waiting
                \/ \E left \in SUBSET (listeners \cup loop[t].left) :
                      loop'[t] = [st |-> "send", job |-> loop[t].job, left |-> left]
            BY <3>2, <4>2, LoopGoesOn
          <5>2. ASSUME NEW left \in SUBSET (listeners \cup loop[t].left),
                       loop'[t] = [st |-> "send", job |-> loop[t].job, left |-> left]
                PROVE  loop'[t].left \subseteq listeners \cup loop[t].left
            BY <5>2
          <5>3. loop'[t] = Waiting => loop'[t].left = {}
            BY DEF Waiting
          <5> QED BY <1>3, <5>1, <5>2, <5>3
        <4> QED BY <4>1, <4>2
      <3>3. ASSUME NEW e \in exs, NEW k \in Kinds, IsLive(e.stmt), HandToLoop(e.stmt.table, "listen", {Listener(e, k)})
            PROVE  l \in loop[t].left \/ l = Listener(e, k)
        BY <3>1, <3>3, ListenerType DEF IsLive
      <3> QED BY <1>3, <3>1, <3>2, <3>3, ListenersStep
    <2> QED BY <2>1, <2>2, <2>3
  <1>4. ASSUME NEW e \in exs'  PROVE Used(e.id)'
    <2>1. ASSUME NEW f \in exs, e.id = f.id  PROVE Used(e.id)'
      BY <1>1, <2>1 DEF IdsUsed, TypeOK
    <2>2. ASSUME NEW f \in exs, NEW st, exs' = GoTo(f, st)  PROVE Used(e.id)'
      <3>1. e \in exs \/ e = [f EXCEPT !.st = st]
        BY <1>4, <2>2 DEF GoTo
      <3> QED BY <2>1, <3>1 DEF TypeOK
    <2>3. ASSUME NEW c \in Conns, HandleStatement(c)  PROVE Used(e.id)'
      <3>1. CASE e \in exs
        BY <2>1, <3>1
      <3>2. CASE e \notin exs
        <4>1. \E s : e = Execution(c, Len(asked'[c]), 0, s)
          BY <1>4, <2>3, <3>2 DEF HandleStatement
        <4>2. e.id.conn = c /\ e.id.chan = Len(asked'[c]) /\ e.id.run = 0 /\ runs'[c] \in Nat
          BY <2>3, <4>1 DEF Execution, ExId, TypeOK, HandleStatement
        <4>3. Len(asked'[c]) \in Nat
          BY TypeStep, <2>3 DEF TypeOK
        <4> QED BY <4>2, <4>3 DEF Used
      <3> QED BY <3>1, <3>2
    <2>4. ASSUME NEW t \in Tables, NEW l \in loop[t].left, SendEvent(t, l)  PROVE Used(e.id)'
      <3>1. CASE e \in exs
        BY <2>1, <3>1
      <3>2. CASE e \notin exs
        <4>1. \E s : e = Execution(l.ex.conn, l.ex.chan, runs[l.ex.conn] + 1, s)
          BY <1>4, <2>4, <3>2 DEF SendEvent
        <4>2. runs' = [runs EXCEPT ![l.ex.conn] = @ + 1] /\ asked' = asked
          BY <1>4, <2>4, <3>2 DEF SendEvent, clientVars
        <4>3. l.ex \in ExIds /\ Used(l.ex)
          BY DEF TypeOK, Listeners, IdsUsed
        <4>4. e.id.conn = l.ex.conn /\ e.id.chan = l.ex.chan /\ e.id.run = runs[l.ex.conn] + 1
          BY <4>1 DEF Execution, ExId
        <4>5. runs'[l.ex.conn] = runs[l.ex.conn] + 1 /\ runs[l.ex.conn] + 1 \in Nat
          BY <4>2, <4>3 DEF TypeOK, ExIds
        <4> QED BY <4>2, <4>3, <4>4, <4>5 DEF Used
      <3> QED BY <3>1, <3>2
    <2>5. ASSUME NEW f \in exs, ExecutionStep(f)  PROVE Used(e.id)'
      <3>1. exs' = exs \ {f} \/ \E st : exs' = GoTo(f, st)
        BY <2>5 DEF ExecutionStep, BeginQuery, SubscribeToTable, SubscribeToRecord, ReadRows, WriteResult, EndQuery
      <3> QED BY <1>4, <2>1, <2>2, <3>1
    <2>6. ASSUME NEW p \in Scanners, EndCount(p)  PROVE Used(e.id)'
      <3>1. exs' = exs \/ \E f \in exs : exs' = GoTo(f, "reply")
        BY <2>6 DEF EndCount, EndQuery
      <3> QED BY <1>4, <2>1, <2>2, <3>1
    <2> QED BY <1>4, <2>1, <2>3, <2>4, <2>5, <2>6, WhoChanges DEF vars, queryVars
  <1> QED BY <1>2, <1>3, <1>4 DEF IdsUsed

\* Every execution comes from one there was, or has an id that nobody has used.
LEMMA Origin ==
    ASSUME TypeOK, HandlersOK, ExecutionsOK, IdsUsed, [Next]_vars, NEW e \in exs'
    PROVE  \/ \E f \in exs : /\ f.id = e.id /\ f.stmt = e.stmt
                             /\ \/ f = e
                                \/ f.st = "begin" /\ e.st = First(f.stmt)
                                \/ SubscribeToTable(f) /\ e.st = "record"
                                \/ SubscribeToRecord(f) /\ e.st = "reply"
                                \/ ~IsLive(f.stmt) /\ f.st \in {"read", "scan"} /\ e.st = "reply"
           \/ ~Used(e.id) /\ e.st = "begin"
  <1> DEFINE Goes(f) == /\ f.id = e.id /\ f.stmt = e.stmt
                        /\ \/ f = e
                           \/ f.st = "begin" /\ e.st = First(f.stmt)
                           \/ SubscribeToTable(f) /\ e.st = "record"
                           \/ SubscribeToRecord(f) /\ e.st = "reply"
                           \/ ~IsLive(f.stmt) /\ f.st \in {"read", "scan"} /\ e.st = "reply"
  <1>1. CASE e \in exs
    BY <1>1
  <1>2. ASSUME e \notin exs, NEW f \in exs, NEW st, exs' = GoTo(f, st)
        PROVE  e.id = f.id /\ e.stmt = f.stmt /\ e.st = st
    <2>1. e = [f EXCEPT !.st = st]
      BY <1>2 DEF GoTo
    <2> QED BY <2>1 DEF TypeOK
  <1>3. ASSUME e \notin exs, NEW f \in exs, ExecutionStep(f)
        PROVE  Goes(f)
    <2>1. CASE BeginQuery(f)
      <3>1. f.st = "begin" /\ exs' = GoTo(f, First(f.stmt))
        BY <2>1 DEF BeginQuery
      <3> QED BY <1>2, <1>3, <3>1
    <2>2. CASE SubscribeToTable(f)
      <3>1. exs' = GoTo(f, "record")
        BY <2>2 DEF SubscribeToTable
      <3> QED BY <1>2, <1>3, <2>2, <3>1
    <2>3. CASE SubscribeToRecord(f)
      <3>1. exs' = GoTo(f, "reply")
        BY <2>3 DEF SubscribeToRecord, EndQuery
      <3> QED BY <1>2, <1>3, <2>3, <3>1
    <2>4. CASE ReadRows(f)
      <3>1. exs' = GoTo(f, "reply") /\ f.st = "read" /\ ~IsLive(f.stmt)
        BY <2>4 DEF ReadRows, EndQuery, ExecutionsOK, IsLive
      <3> QED BY <1>2, <1>3, <3>1
    <2>5. CASE WriteResult(f)
      <3>1. exs' = exs \ {f}
        BY <2>5 DEF WriteResult
      <3> QED BY <1>3, <3>1
    <2> QED BY <1>3, <2>1, <2>2, <2>3, <2>4, <2>5 DEF ExecutionStep
  <1>4. ASSUME e \notin exs, NEW p \in Scanners, EndCount(p)
        PROVE  \E f \in exs : Goes(f)
    <2>1. PICK f \in exs : f.st = "scan" /\ exs' = GoTo(f, "reply")
      BY <1>4 DEF EndCount, EndQuery
    <2>2. ~IsLive(f.stmt)
      BY <2>1 DEF ExecutionsOK, IsLive
    <2> QED BY <1>2, <1>4, <2>1, <2>2
  <1>5. ASSUME e \notin exs, NEW c \in Conns, HandleStatement(c)
        PROVE  ~Used(e.id) /\ e.st = "begin"
    <2>1. PICK s \in Requests[c] : asked' = [asked EXCEPT ![c] = Append(@, s)]
                                   /\ e = Execution(c, Len(asked'[c]), 0, s)
      BY <1>5 DEF HandleStatement
    <2>2. s \in Statements /\ asked[c] \in Seq(Statements)
      BY RequestsAssumption DEF TypeOK
    <2>3. asked'[c] = Append(asked[c], s)
      BY <2>1 DEF TypeOK
    <2>4. Len(asked'[c]) = Len(asked[c]) + 1 /\ Len(asked[c]) \in Nat
      BY <2>2, <2>3
    <2>5. e.id.conn = c /\ e.id.chan = Len(asked'[c]) /\ e.st = "begin"
      BY <2>1 DEF Execution, ExId
    <2> QED BY <2>4, <2>5 DEF Used
  <1>6. ASSUME e \notin exs, NEW t \in Tables, NEW l \in loop[t].left, SendEvent(t, l)
        PROVE  ~Used(e.id) /\ e.st = "begin"
    <2>1. \E s : e = Execution(l.ex.conn, l.ex.chan, runs[l.ex.conn] + 1, s)
      BY <1>6 DEF SendEvent
    <2>2. e.id.conn = l.ex.conn /\ e.id.run = runs[l.ex.conn] + 1 /\ e.st = "begin"
      BY <2>1 DEF Execution, ExId
    <2>3. runs[l.ex.conn] \in Nat
      BY DEF TypeOK, Listeners, ExIds
    <2> QED BY <2>2, <2>3 DEF Used
  <1> QED BY <1>1, <1>3, <1>4, <1>5, <1>6, WhoChanges DEF vars, queryVars

\* An execution has still to subscribe what it had to before, unless it does so.
LEMMA NotYetStep ==
    ASSUME TypeOK, Protocol, NotYetSubscribed, [Next]_vars
    PROVE  NotYetSubscribed'
  <1> DEFINE Before(e, k) == e.st \in {"begin", "table"} \/ (k = "record" /\ e.st = "record")
  <1>0. TypeOK' /\ ExecutionsOK'
    BY TypeStep, ExecutionsStep DEF Protocol
  <1>1. SUFFICES ASSUME NEW e \in exs', e.stmt.do = "select", NEW k \in Kinds, Before(e, k)
                 PROVE  ~Subscribed(Listener(e, k))'
    BY DEF NotYetSubscribed, Kinds
  <1>2. /\ Listener(e, k) \in Listeners /\ Listener(e, k).ex = e.id /\ Listener(e, k).kind = k
        /\ Listener(e, k).table \in Tables
    <2>1. e.stmt \in Statements /\ e.id \in ExIds
      BY <1>0 DEF TypeOK
    <2> QED BY <1>1, <2>1, StatementKinds DEF Listener, Listeners
  <1>3. ASSUME NEW g \in exs, NEW j \in Kinds, Subscribes(g, j), IsLive(g.stmt), Listener(e, k) = Listener(g, j)
        PROVE  g.id = e.id /\ j = k
    BY <1>2, <1>3 DEF Listener
  <1>4. ASSUME NEW f \in exs, f.id = e.id, f.stmt = e.stmt, Before(f, k), ~Subscribes(f, k)
        PROVE  ~Subscribed(Listener(e, k))'
    <2>1. ~Subscribed(Listener(f, k))
      BY <1>1, <1>4 DEF NotYetSubscribed, Kinds
    <2>2. ~Subscribed(Listener(e, k))
      BY <1>4, <2>1 DEF Listener
    <2>3. \A g \in exs : g.id = e.id => g = f
      BY <1>4 DEF Protocol, ExecutionsOK
    <2> QED BY <1>2, <1>3, <1>4, <2>2, <2>3, SubscribedStep DEF Protocol
  <1>5. ASSUME ~Used(e.id)
        PROVE  ~Subscribed(Listener(e, k))'
    <2>1. ~Subscribed(Listener(e, k))
      BY <1>2, <1>5 DEF Subscribed, Protocol, IdsUsed
    <2>2. \A g \in exs : g.id # e.id
      BY <1>5 DEF Protocol, IdsUsed
    <2> QED BY <1>2, <1>3, <2>1, <2>2, SubscribedStep DEF Protocol
  <1>6. ASSUME NEW f \in exs, f.id = e.id, f.stmt = e.stmt, 
               \/ f = e
               \/ f.st = "begin" /\ e.st = First(f.stmt)
               \/ SubscribeToTable(f) /\ e.st = "record"
        PROVE  Before(f, k) /\ ~Subscribes(f, k)
    <2>1. CASE f = e
      <3>1. ASSUME NEW st, exs' = GoTo(f, st), st # f.st  PROVE FALSE
        <4>1. [f EXCEPT !.st = st].st = st
          BY DEF TypeOK
        <4>2. f = [f EXCEPT !.st = st]
          BY <2>1, <3>1 DEF GoTo
        <4> QED BY <3>1, <4>1, <4>2
      <3> QED BY <1>1, <2>1, <3>1 DEF Subscribes
    <2>2. CASE f.st = "begin" /\ e.st = First(f.stmt)
      BY <2>2 DEF Subscribes
    <2>3. CASE SubscribeToTable(f) /\ e.st = "record"
      BY <1>1, <2>3 DEF Subscribes, SubscribeToTable
    <2> QED BY <1>6, <2>1, <2>2, <2>3
  <1> QED
    <2>1. e.st # "reply"
      BY <1>1
    <2> QED BY <1>4, <1>5, <1>6, <2>1, Origin DEF Protocol

-----------------------------------------------------------------------------
(* Who counts holds the locks of what it has counted.                      *)

\* A list and its counter change only for one who has the table to himself.
LEMMA CountsStep ==
    ASSUME TypeOK, LoopsOK, [Next]_vars, NEW t \in Tables
    PROVE  \/ num'[t] = num[t] /\ \A k \in Kinds : InList(t, k)' = InList(t, k)
           \/ mu[t].readers = {}
  <1>1. CASE UNCHANGED <<listeners, num>>
    BY <1>1 DEF InList
  <1>2. ASSUME NEW c \in Conns, NEW u \in Tables, RemoveListeners(c, u)
        PROVE  \/ num'[t] = num[t] /\ \A k \in Kinds : InList(t, k)' = InList(t, k)
               \/ mu[t].readers = {}
    <2>1. /\ listeners' = listeners \ Gone(c, u) /\ num' = [num EXCEPT ![u] = CountersLeft(u)]
          /\ \A l \in Gone(c, u) : l.table = u
          /\ mu[u].readers = {}
      BY <1>2 DEF RemoveListeners, Gone, Owns
    <2>2. CASE t # u
      BY <2>1, <2>2 DEF InList, TypeOK
    <2> QED BY <2>1, <2>2
  <1>3. ASSUME NEW u \in Tables, HandleSubscription(u)
        PROVE  \/ num'[t] = num[t] /\ \A k \in Kinds : InList(t, k)' = InList(t, k)
               \/ mu[t].readers = {}
    <2>1. mu[u].readers = {}
      BY <1>3 DEF HandleSubscription, Owns
    <2>2. PICK l \in loop[u].left : /\ listeners' = listeners \cup {l}
                                    /\ num' = [num EXCEPT ![u][l.kind] = @ + 1]
      BY <1>3 DEF HandleSubscription
    <2>4. l.table = u
      <3>1. loop[u].job = "listen"
        BY <1>3 DEF HandleSubscription
      <3> QED BY <2>2, <3>1 DEF LoopsOK
    <2>3. CASE t # u
      BY <2>2, <2>3, <2>4 DEF InList, TypeOK
    <2> QED BY <2>1, <2>3
  <1> QED BY <1>1, <1>2, <1>3, WhoChanges DEF vars, tableVars

\* Only counting changes who reads a table.
LEMMA ReadersStep ==
    ASSUME TypeOK, [Next]_vars, \A p \in Scanners : ~CountStep(p), NEW t \in Tables
    PROVE  mu'[t].readers = mu[t].readers
  <1>1. ASSUME NEW u \in Tables, NEW w, mu' = [mu EXCEPT ![u].writer = w]
        PROVE  mu'[t].readers = mu[t].readers
    BY <1>1 DEF TypeOK, Locks
  <1>2. ASSUME NEW u \in Tables, LoopStep(u)
        PROVE  mu' = mu \/ \E w : mu' = [mu EXCEPT ![u].writer = w]
    BY <1>2 DEF LoopStep, LockToHandle, HandleSubscription, HandleTableEvent, SendEvent, Send, Unlocked
  <1>3. ASSUME NEW c \in Conns, NEW u \in Tables, LockToRemove(c, u) \/ RemoveListeners(c, u)
        PROVE  \E w : mu' = [mu EXCEPT ![u].writer = w]
    BY <1>3 DEF LockToRemove, RemoveListeners
  <1> QED BY <1>1, <1>2, <1>3, WhoChanges DEF vars, tableVars

\* So what it has counted stays true.
LEMMA ScansStep ==
    ASSUME TypeOK, LoopsOK, CountersHold, ScanIsSnapshot, [Next]_vars
    PROVE  CountersHold' /\ ScanIsSnapshot'
  <1>1. CASE \A p \in Scanners : ~CountStep(p)
    <2>1. scans' = scans
      BY <1>1, WhoChanges DEF vars
    <2>2. ASSUME NEW p \in Scanners, NEW t \in DOMAIN scans[p]
          PROVE  /\ t \in Tables /\ p \in mu[t].readers
                 /\ num'[t] = num[t] /\ \A k \in Kinds : InList(t, k)' = InList(t, k)
      BY CountsStep DEF CountersHold, TypeOK
    <2>3. CountersHold'
      BY <1>1, <2>1, <2>2, ReadersStep DEF CountersHold
    <2>4. ScanIsSnapshot'
      BY <2>1, <2>2 DEF ScanIsSnapshot, Counted, Kinds
    <2> QED BY <2>3, <2>4
  <1>2. ASSUME NEW p \in Scanners, CountStep(p)
        PROVE  \A q \in Scanners, t \in Tables : Counted(q, t)' = Counted(q, t)
    BY <1>2 DEF CountStep, LockToCount, EndCount, Counted, InList
  <1>3. ASSUME NEW p \in Scanners, NEW u \in Tables, LockToCount(p, u)
        PROVE  CountersHold' /\ ScanIsSnapshot'
    <2>1. /\ mu'[u].readers = mu[u].readers \cup {p}
          /\ \A t \in Tables \ {u} : mu'[t] = mu[t]
      BY <1>3 DEF LockToCount, ReadLock, TypeOK, Locks
    <2>2. /\ scans'[p] = [t \in DOMAIN scans[p] \cup {u} |-> IF t = u THEN Counted(p, t) ELSE scans[p][t]]
          /\ \A q \in Scanners \ {p} : scans'[q] = scans[q]
      BY <1>3 DEF LockToCount, TypeOK
    <2>3. CountersHold'
      <3>1. ASSUME NEW q \in Scanners, NEW t \in DOMAIN scans'[q]  PROVE q \in mu'[t].readers
        <4>1. t \in DOMAIN scans[q] \/ (q = p /\ t = u)
          BY <2>2
        <4>2. t \in DOMAIN scans[q] => t \in Tables /\ q \in mu[t].readers
          BY DEF CountersHold, TypeOK
        <4> QED BY <2>1, <4>1, <4>2
      <3> QED BY <3>1 DEF CountersHold
    <2>4. ScanIsSnapshot'
      <3>1. ASSUME NEW q \in Scanners, NEW t \in Tables, t \in DOMAIN scans'[q]
            PROVE  scans'[q][t] = Counted(q, t)'
        BY <1>2, <1>3, <2>2, <3>1 DEF CountStep, ScanIsSnapshot
      <3> QED BY <3>1 DEF ScanIsSnapshot
    <2> QED BY <2>3, <2>4
  <1>4. ASSUME NEW p \in Scanners, EndCount(p)
        PROVE  CountersHold' /\ ScanIsSnapshot'
    <2>1. \A t \in Tables : mu'[t].readers = mu[t].readers \ {p}
      BY <1>4 DEF EndCount, TypeOK, Locks
    <2>2. DOMAIN scans'[p] = {} /\ \A q \in Scanners \ {p} : scans'[q] = scans[q]
      BY <1>4 DEF EndCount, TypeOK, NoScan
    <2>3. CountersHold'
      BY <2>1, <2>2 DEF CountersHold, TypeOK
    <2>4. ScanIsSnapshot'
      BY <1>2, <1>4, <2>2 DEF ScanIsSnapshot, CountStep
    <2> QED BY <2>3, <2>4
  <1> QED BY <1>1, <1>3, <1>4 DEF CountStep

\* The handler enters and leaves these places by these steps.
LEMMA PlacesStep ==
    ASSUME TypeOK, HandlersOK, ExecutionsOK, [Next]_vars, NEW c \in Conns
    PROVE  /\ pc[c] \in Leaving => pc'[c] \in Leaving
           /\ pc'[c] \in Leaving => pc[c] \in Leaving \/ BeginRemove(c)
           /\ pc'[c] \in Active => pc[c] \in Active \/ Register(c)
           /\ pc'[c] = "idle" => \/ pc[c] = "idle" \/ Register(c) \/ WriteReply(c)
                                 \/ \E e \in exs : e.id.conn = c /\ e.id.run = 0 /\ WriteResult(e)
  <1> USE DEF Leaving, Active, TypeOK, registryVars, clientVars, queryVars, tableVars, boltVars
  <1> DEFINE Conclusion ==
           /\ pc[c] \in Leaving => pc'[c] \in Leaving
           /\ pc'[c] \in Leaving => pc[c] \in Leaving \/ BeginRemove(c)
           /\ pc'[c] \in Active => pc[c] \in Active \/ Register(c)
           /\ pc'[c] = "idle" => \/ pc[c] = "idle" \/ Register(c) \/ WriteReply(c)
                                 \/ \E e \in exs : e.id.conn = c /\ e.id.run = 0 /\ WriteResult(e)
  <1>1. ASSUME pc'[c] = pc[c]  PROVE Conclusion
    BY <1>1
  <1>2. ASSUME NEW d \in Conns, AddConnection(d)  PROVE Conclusion
    BY <1>2 DEF AddConnection, ReadNextId, LoadNextId, StoreNextId, Register
  <1>3. ASSUME NEW d \in Conns, HandleStatement(d)  PROVE Conclusion
    BY <1>3 DEF HandleStatement
  <1>4. ASSUME NEW d \in Conns, RemoveConn(d)  PROVE Conclusion
    BY <1>4 DEF RemoveConn, BeginRemove, LockToRemove, RemoveListeners
  <1>5. ASSUME NEW d \in Conns,
               BeginWrite(d) \/ PushEvent(d) \/ CommitInPlace(d) \/ LockMap(d) \/ GrowMap(d)
        PROVE  Conclusion
    <2>1. /\ pc[d] \in {"write", "push", "commit", "grow"}
          /\ \E v \in {"push", "commit", "grow", "reply"} : pc' = [pc EXCEPT ![d] = v]
      BY <1>5 DEF BeginWrite, PushEvent, CommitInPlace, LockMap, GrowMap, Committed, Outcomes
    <2> QED BY <2>1
  <1>6. ASSUME NEW d \in Conns, WriteReply(d)  PROVE Conclusion
    BY <1>6 DEF WriteReply
  <1>7. ASSUME NEW e \in exs, WriteResult(e)  PROVE Conclusion
    <2>1. e.id.run = 0 => pc[e.id.conn] = "query"
      BY DEF ExecutionsOK
    <2>2. pc'[c] = pc[c] \/ (e.id.conn = c /\ e.id.run = 0 /\ pc'[c] = "idle")
      BY <1>7 DEF WriteResult
    <2>3. pc[c] \in Leaving => pc[c] # "query"
      OBVIOUS
    <2>4. pc[c] = "query" => pc[c] \in Active
      OBVIOUS
    <2> HIDE DEF TypeOK
    <2> QED BY <1>7, <2>1, <2>2, <2>3, <2>4
  <1> HIDE DEF Conclusion, TypeOK
  <1>8. Conclusion
    <2>1. \/ pc' = pc \/ \E e \in exs : WriteResult(e)
          \/ \E d \in Conns : AddConnection(d) \/ HandleStatement(d) \/ HandlerStep(d)
      BY WhoChanges DEF vars
    <2> QED BY <1>1, <1>2, <1>3, <1>4, <1>5, <1>6, <1>7, <2>1 DEF HandlerStep
  <1> QED BY <1>8 DEF Conclusion

\* The counters, while listeners come and connections go.
LEMMA NumbersStep ==
    ASSUME TypeOK, Protocol, CountersNeverHigh, [Next]_vars
    PROVE  CountersNeverHigh'
  <1>0. \A t, k : IsFiniteSet(InList(t, k)) /\ Cardinality(InList(t, k)) \in Nat
    BY FS_Subset, FS_CardinalityType DEF InList, Protocol
  <1>1. \A t, k : IsFiniteSet(InList(t, k)') /\ Cardinality(InList(t, k)') \in Nat
    BY FiniteStep, FS_Subset, FS_CardinalityType DEF InList, Protocol
  <1> DEFINE Nobody(t) == \A c \in Conns : pc[c] \in {"remove", "gone"} => t \in todo[c]
  <1>2. ASSUME NEW c \in Conns, NEW u \in Tables, RemoveListeners(c, u)
        PROVE  CountersNeverHigh'
    <2>1. /\ listeners' = listeners \ Gone(c, u) /\ num' = [num EXCEPT ![u] = CountersLeft(u)]
          /\ \A l \in Gone(c, u) : l.table = u
          /\ pc[c] = "remove" /\ pc'[c] \in {"remove", "gone"} /\ todo'[c] = todo[c] \ {u}
          /\ \A d \in Conns \ {c} : pc'[d] = pc[d] /\ todo'[d] = todo[d]
      BY <1>2 DEF RemoveListeners, Gone, TypeOK
    <2>2. ASSUME NEW t \in Tables, NEW k \in Kinds
          PROVE  /\ num'[t][k] <= Cardinality(InList(t, k)')
                 /\ Nobody(t)' => num'[t][k] = Cardinality(InList(t, k)')
      <3>1. CASE t = u
        <4>1. num'[t][k] = num[t][k] - Cardinality(InList(t, k))
          BY <2>1, <3>1 DEF CountersLeft, TypeOK
        <4>2. num[t][k] \in Int /\ num[t][k] <= Cardinality(InList(t, k))
          BY DEF TypeOK, CountersNeverHigh
        <4>3. ~Nobody(t)'
          BY <2>1, <3>1
        <4> QED BY <1>0, <1>1, <4>1, <4>2, <4>3
      <3>2. CASE t # u
        <4>1. num'[t] = num[t] /\ InList(t, k)' = InList(t, k)
          BY <2>1, <3>2 DEF InList, TypeOK
        <4>2. Nobody(t)' => Nobody(t)
          BY <2>1
        <4> QED BY <4>1, <4>2 DEF CountersNeverHigh
      <3> QED BY <3>1, <3>2
    <2> QED BY <2>2 DEF CountersNeverHigh
  <1>3. ASSUME NEW u \in Tables, HandleSubscription(u)
        PROVE  CountersNeverHigh'
    <2>1. PICK l \in Listeners : /\ l.table = u /\ l \notin listeners /\ listeners' = listeners \cup {l}
                                 /\ num' = [num EXCEPT ![u][l.kind] = @ + 1]
      <3>1. PICK l \in loop[u].left : /\ listeners' = listeners \cup {l}
                                      /\ num' = [num EXCEPT ![u][l.kind] = @ + 1]
        BY <1>3 DEF HandleSubscription
      <3>2. PICK m \in Listeners : loop[u].left = {m} /\ m.table = u /\ m \notin listeners
        BY <1>3 DEF HandleSubscription, Protocol, LoopsOK
      <3> QED BY <3>1, <3>2
    <2>2. UNCHANGED <<pc, todo>>
      BY <1>3 DEF HandleSubscription, clientVars
    <2>3. ASSUME NEW t \in Tables, NEW k \in Kinds
          PROVE  /\ num'[t][k] <= Cardinality(InList(t, k)')
                 /\ Nobody(t)' => num'[t][k] = Cardinality(InList(t, k)')
      <3>1. CASE t = u /\ k = l.kind
        <4>1. InList(t, k)' = InList(t, k) \cup {l} /\ l \notin InList(t, k)
          BY <2>1, <3>1 DEF InList
        <4>2. Cardinality(InList(t, k)') = Cardinality(InList(t, k)) + 1
          BY <1>0, <4>1, FS_AddElement
        <4>3. num'[t][k] = num[t][k] + 1 /\ num[t][k] \in Int
          BY <2>1, <3>1 DEF TypeOK
        <4> QED BY <1>0, <2>2, <4>2, <4>3 DEF CountersNeverHigh
      <3>2. CASE ~(t = u /\ k = l.kind)
        <4>1. InList(t, k)' = InList(t, k) /\ num'[t][k] = num[t][k]
          BY <2>1, <3>2 DEF InList, TypeOK
        <4> QED BY <2>2, <4>1 DEF CountersNeverHigh
      <3> QED BY <3>1, <3>2
    <2> QED BY <2>3 DEF CountersNeverHigh
  <1>4. CASE /\ UNCHANGED <<listeners, num>>
             /\ UNCHANGED todo \/ \E c \in Conns : BeginRemove(c)
    <2>1. ASSUME NEW t \in Tables, NEW d \in Conns, Nobody(t)', pc[d] \in {"remove", "gone"}
          PROVE  t \in todo[d]
      <3>1. pc'[d] \in {"remove", "gone"}
        BY <2>1, PlacesStep DEF Leaving, Protocol
      <3>2. ASSUME NEW c \in Conns, BeginRemove(c)
            PROVE  todo'[d] = todo[d]
        BY <2>1, <3>2 DEF BeginRemove, TypeOK
      <3> QED BY <1>4, <2>1, <3>1, <3>2
    <2> QED BY <1>4, <2>1 DEF CountersNeverHigh, InList
  <1>5. \/ \E c \in Conns, u \in Tables : RemoveListeners(c, u)
        \/ \E u \in Tables : HandleSubscription(u)
        \/ /\ UNCHANGED <<listeners, num>>
           /\ UNCHANGED todo \/ \E c \in Conns : BeginRemove(c)
    BY WhoChanges DEF vars, tableVars, clientVars
  <1> QED BY <1>2, <1>3, <1>4, <1>5

-----------------------------------------------------------------------------
(* Connections that go and connections that stay.                          *)

\* What an execution subscribes, it subscribes while its handler waits.
LEMMA SubscriberWaits ==
    ASSUME TypeOK, HandlersOK, ExecutionsOK, LoopsOK, [Next]_vars,
           NEW l \in Listeners, l.ex.run = 0, Subscribed(l)', ~Subscribed(l)
    PROVE  pc[l.ex.conn] = "query"
  <1>1. PICK e \in exs, k \in Kinds : IsLive(e.stmt) /\ l = Listener(e, k)
    BY SubscribedStep
  <1>2. l.ex = e.id
    BY <1>1 DEF Listener
  <1> QED BY <1>2 DEF ExecutionsOK

\* A connection that goes leaves a table no listener but that in its loop's hand.
LEMMA LeavesStep ==
    ASSUME TypeOK, Protocol, LeavesOne, [Next]_vars
    PROVE  LeavesOne'
  <1>1. SUFFICES ASSUME NEW c \in Conns, NEW t \in Tables, pc'[c] \in Leaving, t \notin todo'[c],
                        NEW l \in Listeners, NEW m \in Listeners,
                        Subscribed(l)', Subscribed(m)', OwnOn(l, c, t), OwnOn(m, c, t)
                 PROVE  l = m
    BY DEF LeavesOne, OwnOn
  <1>2. pc[c] \in Leaving \/ BeginRemove(c)
    BY <1>1, PlacesStep DEF Protocol
  <1>3. pc[c] # "query"
    BY <1>2 DEF Leaving, BeginRemove
  <1>4. Subscribed(l) /\ Subscribed(m)
    BY <1>1, <1>3, SubscriberWaits DEF Protocol, OwnOn
  <1>5. CASE pc[c] \in Leaving /\ t \notin todo[c]
    BY <1>1, <1>4, <1>5 DEF LeavesOne
  <1>6. ~BeginRemove(c)
    BY <1>1 DEF BeginRemove, TypeOK
  <1>7. CASE t \in todo[c]
    <2>1. PICK d \in Conns, u \in Tables : RemoveListeners(d, u)
      <3>1. \A d \in Conns : BeginRemove(d) => t \in todo'[c]
        BY <1>7 DEF BeginRemove, TypeOK
      <3> QED BY <1>1, <1>7, <3>1, WhoChanges DEF vars, clientVars
    <2>2. d = c /\ u = t
      BY <1>1, <1>7, <2>1 DEF RemoveListeners, TypeOK
    <2>3. listeners' = listeners \ Gone(c, t) /\ loop' = loop
      BY <2>1, <2>2 DEF RemoveListeners
    <2>4. l \notin listeners' /\ m \notin listeners'
      BY <1>1, <2>3 DEF Gone, OwnOn
    <2>5. loop[t].job = "listen" /\ l \in loop[t].left /\ m \in loop[t].left
      BY <1>1, <2>3, <2>4 DEF Subscribed, OwnOn
    <2>6. PICK x : loop[t].left = {x}
      BY <2>5 DEF Protocol, LoopsOK
    <2> QED BY <2>5, <2>6
  <1> QED BY <1>2, <1>5, <1>6, <1>7

\* Who has an id keeps it, and shares it later if he shares it now.
LEMMA AloneBefore ==
    ASSUME TypeOK, HandlersOK, [Next]_vars, NEW c \in Conns, pc[c] # "new", Alone(c)'
    PROVE  Alone(c) /\ id'[c] = id[c]
  <1>1. ASSUME NEW d \in Conns, id[d] # -1
        PROVE  id'[d] = id[d]
    <2>1. ASSUME NEW b \in Conns, AddConnection(b)
          PROVE  id'[d] = id[d]
      BY <1>1, <2>1
         DEF AddConnection, ReadNextId, LoadNextId, StoreNextId, Register, HandlersOK, TypeOK
    <2> QED BY <2>1, WhoChanges DEF vars, registryVars
  <1>2. id[c] # -1
    BY DEF HandlersOK
  <1> QED BY <1>1, <1>2 DEF Alone

\* Nobody else removes its listeners.
LEMMA KeptWhileAlone ==
    ASSUME TypeOK, Protocol, [Next]_vars, NEW c \in Conns, Alone(c), pc[c] \in Active,
           NEW l \in Listeners, l.ex.conn = c, Subscribed(l)
    PROVE  Subscribed(l)'
  <1>1. ASSUME NEW d \in Conns, NEW t \in Tables, RemoveListeners(d, t)
        PROVE  l \notin Gone(d, t)
    <2>1. d # c
      BY <1>1 DEF RemoveListeners, Active
    <2> QED BY <2>1 DEF Gone, Alone
  <1> QED BY <1>1, SubscribedStep DEF Protocol

\* A statement that has come to its answer has subscribed its listeners.
LEMMA OwnStep ==
    ASSUME TypeOK, Protocol, OwnKept, [Next]_vars
    PROVE  OwnKept'
  <1>0. TypeOK' /\ ExecutionsOK'
    BY TypeStep, ExecutionsStep DEF Protocol
  <1>1. SUFFICES ASSUME NEW e \in exs', e.id.run = 0, Alone(e.id.conn)', IsLive(e.stmt),
                        NEW k \in Kinds, \/ k = "query" /\ e.st \in {"record", "reply"}
                                         \/ k = "record" /\ e.st = "reply"
                 PROVE  Subscribed(Listener(e, k))'
    BY DEF OwnKept, Kinds
  <1>2. PICK f \in exs : /\ f.id = e.id /\ f.stmt = e.stmt
                         /\ \/ f = e
                            \/ f.st = "begin" /\ e.st = First(f.stmt)
                            \/ SubscribeToTable(f) /\ e.st = "record"
                            \/ SubscribeToRecord(f) /\ e.st = "reply"
                            \/ ~IsLive(f.stmt) /\ f.st \in {"read", "scan"} /\ e.st = "reply"
    BY <1>1, Origin DEF Protocol
  <1>3. Listener(e, k) = Listener(f, k) /\ f.id.conn \in Conns /\ pc[f.id.conn] = "query"
    BY <1>1, <1>2 DEF Listener, TypeOK, ExIds, Protocol, ExecutionsOK
  <1>4. Alone(f.id.conn) /\ pc[f.id.conn] \in Active
    BY <1>1, <1>2, <1>3, AloneBefore DEF Protocol, Active
  <1>5. Listener(f, k) \in Listeners /\ Listener(f, k).ex = f.id
    BY <1>1, <1>2, ListenerType DEF Protocol, IsLive
  <1>6. ASSUME Subscribed(Listener(f, k))  PROVE Subscribed(Listener(e, k))'
    BY <1>3, <1>4, <1>5, <1>6, KeptWhileAlone
  <1>7. CASE f = e
    BY <1>1, <1>4, <1>6, <1>7 DEF OwnKept
  <1>8. CASE f.st = "begin" /\ e.st = First(f.stmt)
    BY <1>1, <1>2, <1>8 DEF First, IsLive
  <1>9. CASE SubscribeToTable(f) /\ e.st = "record"
    BY <1>1, <1>3, <1>9, HandedIsSubscribed DEF Protocol
  <1>10. CASE SubscribeToRecord(f) /\ e.st = "reply"
    <2>1. CASE k = "record"
      BY <1>3, <1>10, <2>1, HandedIsSubscribed DEF Protocol
    <2>2. CASE k = "query"
      BY <1>1, <1>2, <1>4, <1>6, <1>10, <2>2 DEF OwnKept, SubscribeToRecord
    <2> QED BY <2>1, <2>2 DEF Kinds
  <1> QED BY <1>1, <1>2, <1>7, <1>8, <1>9, <1>10

\* A connection with an id of its own keeps its place and its listeners.
LEMMA InterfereStep ==
    ASSUME TypeOK, Protocol, OwnKept, OnlySharedIdsInterfere, [Next]_vars
    PROVE  OnlySharedIdsInterfere'
  <1>0. TypeOK'
    BY TypeStep
  <1>1. SUFFICES ASSUME NEW c \in Conns, pc'[c] \in Active, Alone(c)'
                 PROVE  /\ [id |-> id'[c], conn |-> c] \in connections'
                        /\ \A n \in DOMAIN asked'[c] :
                              (asked'[c][n].do = "select" /\ asked'[c][n].live
                               /\ (n < Len(asked'[c]) \/ pc'[c] = "idle"))
                              => \A k \in Kinds, l \in Listeners :
                                   l = [table |-> asked'[c][n].table, kind |-> k,
                                        ex |-> [conn |-> c, chan |-> n, run |-> 0]]
                                   => Subscribed(l)'
    <2>1. ASSUME NEW c \in Conns, NEW n \in DOMAIN asked'[c], NEW k \in Kinds, asked'[c][n].do = "select"
          PROVE  [table |-> asked'[c][n].table, kind |-> k, ex |-> [conn |-> c, chan |-> n, run |-> 0]]
                    \in Listeners
      <3>1. asked'[c] \in Seq(Statements) /\ asked'[c][n] \in Statements /\ n \in Nat \ {0}
        BY <1>0, SMTT(30) DEF TypeOK
      <3>2. asked'[c][n].table \in Tables /\ [conn |-> c, chan |-> n, run |-> 0] \in ExIds
        BY <2>1, <3>1, StatementKinds DEF ExIds
      <3> QED BY <3>2 DEF Listeners
    <2> QED BY <2>1 DEF OnlySharedIdsInterfere, Active, Alone, Subscribed
  <1>2. pc[c] \in Active \/ Register(c)
    BY <1>1, PlacesStep DEF Protocol
  <1>3. pc[c] # "new"
    BY <1>2 DEF Active, Register
  <1>4. Alone(c) /\ id'[c] = id[c]
    BY <1>1, <1>3, AloneBefore DEF Protocol
  <1>5. [id |-> id'[c], conn |-> c] \in connections'
    <2>1. CASE Register(c)
      BY <1>4, <2>1 DEF Register
    <2>2. CASE pc[c] \in Active /\ ~Register(c)
      <3>1. [id |-> id[c], conn |-> c] \in connections
        BY <1>4, <2>2 DEF OnlySharedIdsInterfere, Active, Alone
      <3>2. ASSUME NEW d \in Conns, Register(d) \/ BeginRemove(d)
            PROVE  [id |-> id[c], conn |-> c] \in connections'
        <4>1. d # c
          BY <1>1, <2>2, <3>2 DEF BeginRemove, Active, TypeOK
        <4>2. id[d] # id[c]
          BY <1>4, <4>1 DEF Alone
        <4>3. {r \in connections : r.id # id[d]} \subseteq connections'
          BY <3>2 DEF Register, BeginRemove
        <4> QED BY <3>1, <4>2, <4>3
      <3> QED BY <1>4, <3>1, <3>2, WhoChanges DEF vars, registryVars
    <2> QED BY <1>2, <2>1, <2>2
  <1>6. ASSUME NEW n \in DOMAIN asked'[c], asked'[c][n].do = "select", asked'[c][n].live,
               n < Len(asked'[c]) \/ pc'[c] = "idle", NEW k \in Kinds, NEW l \in Listeners,
               l = [table |-> asked'[c][n].table, kind |-> k, ex |-> [conn |-> c, chan |-> n, run |-> 0]]
        PROVE  Subscribed(l)'
    <2>0. /\ asked[c] \in Seq(Statements) /\ asked'[c] \in Seq(Statements)
          /\ n \in 1..Len(asked'[c]) /\ Len(asked'[c]) \in Nat /\ asked'[c][n] \in Statements
      BY <1>0, <1>6, SMTT(30) DEF TypeOK
    <2>1. l.ex.conn = c
      BY <1>6
    <2>2. pc[c] \in Active
      <3>1. ASSUME Register(c)  PROVE FALSE
        <4>1. asked[c] = << >> /\ asked' = asked
          BY <3>1 DEF Register, Protocol, HandlersOK, Adding, clientVars
        <4> QED BY <2>0, <4>1
      <3> QED BY <1>2, <3>1
    <2>3. ASSUME n \in 1..Len(asked[c]), asked'[c][n] = asked[c][n],
                 n < Len(asked[c]) \/ pc[c] = "idle"
          PROVE  Subscribed(l)
      <3>1. l = [table |-> asked[c][n].table, kind |-> k, ex |-> [conn |-> c, chan |-> n, run |-> 0]]
        BY <1>6, <2>3
      <3>2. Subscribed([table |-> asked[c][n].table, kind |-> k, ex |-> [conn |-> c, chan |-> n, run |-> 0]])
        <4>1. n \in DOMAIN asked[c] /\ asked[c][n].do = "select" /\ asked[c][n].live
          BY <1>6, <2>0, <2>3
        <4> QED BY <1>4, <2>2, <2>3, <4>1 DEF OnlySharedIdsInterfere, Active, Alone
      <3> QED BY <3>1, <3>2
    <2>4. Subscribed(l)
      <3>1. CASE asked'[c] # asked[c]
        <4>1. PICK d \in Conns : HandleStatement(d)
          BY <3>1, WhoChanges DEF vars, clientVars
        <4>2. PICK s \in Requests[d] :
                 /\ asked' = [asked EXCEPT ![d] = Append(@, s)]
                 /\ pc' = [pc EXCEPT ![d] = IF s.do \in {"insert", "update"} THEN "write" ELSE "query"]
          BY <4>1 DEF HandleStatement
        <4>3. d = c
          BY <3>1, <4>2 DEF TypeOK
        <4>4. pc[c] = "idle" /\ pc'[c] # "idle" /\ asked'[c] = Append(asked[c], s) /\ s \in Statements
          BY <4>1, <4>2, <4>3, RequestsAssumption DEF HandleStatement, TypeOK
        <4>5. n \in 1..Len(asked[c]) /\ asked'[c][n] = asked[c][n]
          BY <1>6, <2>0, <4>4
        <4> QED BY <2>3, <4>4, <4>5
      <3>2. CASE asked'[c] = asked[c] /\ (n < Len(asked[c]) \/ pc[c] = "idle")
        BY <2>0, <2>3, <3>2
      <3>3. CASE asked'[c] = asked[c] /\ n = Len(asked[c]) /\ pc[c] # "idle" /\ pc'[c] = "idle"
        <4>1. Statement(c) = asked[c][n]
          BY <3>3 DEF Statement
        <4>2. ~WriteReply(c)
          BY <1>6, <3>3, <4>1 DEF WriteReply, Protocol, HandlersOK, Writing
        <4>3. ~Register(c)
          BY <2>2 DEF Register, Active
        <4>4. PICK e \in exs : e.id.conn = c /\ e.id.run = 0 /\ WriteResult(e)
          BY <3>3, <4>2, <4>3, PlacesStep DEF Protocol
        <4>5. e.stmt = asked[c][n] /\ e.id.chan = n /\ e.id \in ExIds
          BY <3>3, <4>1, <4>4 DEF Protocol, ExecutionsOK, TypeOK
        <4>6. e.id = [conn |-> c, chan |-> n, run |-> 0]
          BY <4>4, <4>5 DEF ExIds
        <4>7. l = Listener(e, k)
          BY <1>6, <3>3, <4>5, <4>6 DEF Listener
        <4>8. Subscribed(Listener(e, k))
          BY <1>4, <1>6, <3>3, <4>4, <4>5 DEF OwnKept, IsLive, WriteResult, Kinds
        <4> QED BY <4>7, <4>8
      <3> QED BY <1>6, <2>0, <3>1, <3>2, <3>3
    <2>5. Subscribed(l)'
      BY <1>4, <1>6, <2>1, <2>2, <2>4, KeptWhileAlone
    <2> QED BY <2>5
  <1> QED BY <1>5, <1>6

-----------------------------------------------------------------------------
(* The theorems.                                                           *)

LEMMA InitInv ==
    Init => Inv
  <1> SUFFICES ASSUME Init  PROVE Inv
    OBVIOUS
  <1> USE DEF Init, NoScan, Waiting, Free
  <1>1. TypeOK
    BY DEF TypeOK, Locks
  <1>2. Protocol
    <2>1. HandlersOK
      BY DEF HandlersOK, Adding, Writing
    <2>2. ExecutionsOK /\ IdsUsed /\ LoopsOK
      BY DEF ExecutionsOK, IdsUsed, LoopsOK
    <2>3. IsFiniteSet(listeners)
      BY FS_EmptySet
    <2> QED BY <2>1, <2>2, <2>3 DEF Protocol
  <1>3. NotYetSubscribed /\ CountersHold /\ LeavesOne /\ OwnKept
    BY DEF NotYetSubscribed, CountersHold, LeavesOne, OwnKept, Leaving
  <1>4. ScanIsSnapshot
    BY DEF ScanIsSnapshot
  <1>5. CountersNeverHigh
    <2>1. \A t, k : InList(t, k) = {}
      BY DEF InList
    <2>2. Cardinality({}) = 0
      BY FS_EmptySet
    <2>3. \A t \in Tables, k \in Kinds : num[t][k] = 0
      OBVIOUS
    <2>4. \A t, k : Cardinality(InList(t, k)) = 0
      BY <2>1, <2>2, Zenon
    <2> QED BY <2>3, <2>4 DEF CountersNeverHigh
  <1>6. OnlySharedIdsInterfere
    BY DEF OnlySharedIdsInterfere
  <1> QED BY <1>1, <1>2, <1>3, <1>4, <1>5, <1>6 DEF Inv

LEMMA StepInv ==
    Inv /\ [Next]_vars => Inv'
  <1> SUFFICES ASSUME Inv, [Next]_vars  PROVE Inv'
    OBVIOUS
  <1>1. TypeOK' /\ Protocol'
    BY TypeStep, HandlersStep, ExecutionsStep, IdsStep, LoopsStep, FiniteStep DEF Inv, Protocol
  <1>2. NotYetSubscribed' /\ LeavesOne' /\ OwnKept'
    BY NotYetStep, LeavesStep, OwnStep DEF Inv
  <1>3. CountersHold' /\ ScanIsSnapshot' /\ CountersNeverHigh'
    BY ScansStep, NumbersStep DEF Inv, Protocol
  <1>4. OnlySharedIdsInterfere'
    BY InterfereStep DEF Inv
  <1> QED BY <1>1, <1>2, <1>3, <1>4 DEF Inv

\* The protocol of locks, loops, executions and connections.
THEOREM Invariance == Spec => []Inv
  BY InitInv, StepInv, PTL DEF Spec

\* The variables hold what the program's data structures can hold.
THEOREM DatabaseTypes == Spec => []TypeOK
  <1>1. Inv => TypeOK
    BY DEF Inv
  <1> QED BY <1>1, Invariance, PTL

\* Whatever a gauge or a scan of __record_listeners__ has counted is true of all
\* the tables it has locked, as long as it goes on: it reports one moment.
THEOREM ScansAreSnapshots == Spec => []ScanIsSnapshot
  <1>1. Inv => ScanIsSnapshot
    BY DEF Inv
  <1> QED BY <1>1, Invariance, PTL

\* numListeners is never above the number of listeners of a list, and is that
\* number until a connection's listeners are removed from the table.
THEOREM CountersAreNeverHigh == Spec => []CountersNeverHigh
  <1>1. Inv => CountersNeverHigh
    BY DEF Inv
  <1> QED BY <1>1, Invariance, PTL

\* A connection that nobody shares its id with is in db.Connections, and keeps
\* the listeners of its live queries until it closes.
THEOREM OwnIdIsEnough == Spec => []OnlySharedIdsInterfere
  <1>1. Inv => OnlySharedIdsInterfere
    BY DEF Inv
  <1> QED BY <1>1, Invariance, PTL

\* After removeConn a connection has one listener of its statements at most on
\* each table: that which the table's loop had in hand.
THEOREM GoneLeavesLittle == Spec => []LittleLeftBehind
  <1>1. Inv => LittleLeftBehind
    <2> SUFFICES ASSUME Inv, NEW c \in Conns, NEW t \in Tables, pc[c] = "gone"
                 PROVE  Cardinality({l \in listeners : l.table = t /\ l.ex.conn = c /\ l.ex.run = 0}) <= 1
      BY DEF LittleLeftBehind
    <2> DEFINE S == {l \in listeners : l.table = t /\ l.ex.conn = c /\ l.ex.run = 0}
    <2>1. t \notin todo[c] /\ pc[c] \in Leaving
      BY DEF Inv, Protocol, HandlersOK, Leaving
    <2>2. \A l, m \in S : l = m
      BY <2>1 DEF Inv, LeavesOne, OwnOn, Subscribed, TypeOK
    <2> HIDE DEF S
    <2>3. Cardinality(S) <= 1
      <3>1. CASE S = {}
        BY <3>1, FS_EmptySet
      <3>2. CASE S # {}
        <4>1. PICK l : S = {l}
          BY <2>2, <3>2
        <4>2. Cardinality({l}) = 1
          BY FS_Singleton
        <4>3. Cardinality(S) = Cardinality({l})
          BY <4>1, Zenon
        <4> QED BY <4>2, <4>3
      <3> QED BY <3>1, <3>2
    <2> QED BY <2>3 DEF S
  <1> QED BY <1>1, Invariance, PTL

=============================================================================
