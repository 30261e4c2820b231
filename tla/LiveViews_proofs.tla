-------------------------- MODULE LiveViews_proofs --------------------------
(***************************************************************************)
(* Proofs about LiveViews, for every set of connections, keys, values and  *)
(* statements: a live query hears of an inserted record once, the updates  *)
(* it gets of a record follow each other, and a client that is in step on  *)
(* a record stays in step.                                                 *)
(***************************************************************************)
EXTENDS LiveViews, LiveTable_proofs

-----------------------------------------------------------------------------
(* The inductive invariant.                                                *)

\* Message m tells channel n of the insert of record k.
TellsInsert(m, n, k) == m.type = "table" /\ m.chan = n /\ \E r \in m.rows : r.id = k

\* The loop has in hand the insert of record k, or an update of it.
Inserting(k) == loop.st \in {"event", "send"} /\ loop.old = NoValue /\ loop.new.id = k
Due(k) == loop.st \in {"event", "send"} /\ loop.old # NoValue /\ loop.new.id = k

\* Record k is stored and the loop has begun to tell the listeners of its insert,
\* if it ever had to.
Announced(k) ==
    /\ k \in Keys /\ db[k] # NoValue
    /\ \A d \in Conns : pc[d] = "push" => Statement(d).id # k
    /\ ~(loop.st = "event" /\ Inserting(k))

\* Requeries read the one record they were started for.
RequeriesRead == \A e \in exs : ~IsTop(e) => \A r \in e.todo \cup e.rows : r.id = e.where.is

\* One handler announces an insert, once.
OneAnnouncer ==
    \A d \in Conns : pc[d] = "push" =>
        /\ \A x \in Conns : pc[x] = "push" /\ Statement(x).id = Statement(d).id => x = d
        /\ ~Inserting(Statement(d).id)

\* Whatever is due to an insert comes after its announcement: requeries, their
\* messages, and their own listeners.
ToldAnnounced ==
    /\ \A e \in exs : ~IsTop(e) => Announced(e.where.is)
    /\ \A c \in Conns : \A i \in DOMAIN Sent(c) : \A n, k :
          TellsInsert(Sent(c)[i], n, k) => Announced(k)
    /\ \A l \in listeners \cup loop.left : l.ex.run # 0 /\ l.list.on # "rec" =>
          \E k \in Keys : l.list = WhereId(k) /\ Announced(k)

\* A statement has one query listener, on what it asked for.
TopListeners ==
    /\ \A e \in exs : IsTop(e) => e.where = asked[e.id.conn][e.id.chan].where
    /\ \A l \in listeners \cup loop.left : l.ex.run = 0 /\ l.list.on # "rec" =>
          l.list = asked[l.ex.conn][l.ex.chan].where

\* Channel n of connection c has not begun to be told of record k.
Untold(c, n, k) ==
    /\ \A e \in exs : ~IsTop(e) /\ OfChannel(e.id, c, n) => e.where # WhereId(k)
    /\ \A i \in DOMAIN Sent(c) : ~TellsInsert(Sent(c)[i], n, k)

\* The listeners an insert has still to be sent to are statements', and untold.
SendingOnce ==
    (loop.st = "send" /\ loop.old = NoValue) => \A l \in loop.left :
        l.ex.run = 0 /\ Untold(l.ex.conn, l.ex.chan, loop.new.id)

\* One requery or one message tells a channel of a record.
OneRequery ==
    \A e \in exs : ~IsTop(e) =>
        /\ \A f \in exs : ~IsTop(f) /\ OfChannel(f.id, e.id.conn, e.id.chan) /\ f.where = e.where => f = e
        /\ \A i \in DOMAIN Sent(e.id.conn) : ~TellsInsert(Sent(e.id.conn)[i], e.id.chan, e.where.is)

Once == RequeriesRead /\ OneAnnouncer /\ ToldAnnounced /\ TopListeners /\ SendingOnce /\ OneRequery

\* The loop sends its event to listeners that are in its lists.
LoopSends == loop.st = "send" => loop.left \subseteq Targets(loop.old, loop.new)

\* The update the loop has in hand is the latest of its record.
EventLatest ==
    \A k \in Keys : Due(k) => loop.new = Record(k, Latest(k)) /\ loop.new.val \in Values

\* What queries read and listen to is stored.
ReadCommitted ==
    /\ \A e \in exs : \A r \in e.todo \cup e.rows : r.id \in Keys => db[r.id] # NoValue
    /\ \A k \in Keys : \A l \in listeners \cup loop.left : l.list = RecordList(k) => db[k] # NoValue

\* The i-th message to connection c is the last that tells n of an update of k.
LastTold(c, n, k, i) ==
    /\ i \in DOMAIN Sent(c) /\ TellsUpdate(Sent(c)[i], n, k)
    /\ \A h \in i+1..Len(Sent(c)) : ~TellsUpdate(Sent(c)[h], n, k)

\* It ends with the latest value of the record, unless the loop has an update of
\* the record in hand: then it is that update, or ends with its old value and a
\* listener is still to be sent the new one.
UpToDate(c, n, k, m) ==
    IF ~Due(k) THEN m.rows = {Record(k, Latest(k))}
    ELSE \/ /\ loop.st = "send"
            /\ m = Message("record", n, {loop.new}, loop.old)
         \/ /\ m.rows = {Record(k, loop.old)}
            /\ loop.st = "send" => \E l \in loop.left : OfChannel(l.ex, c, n)
LastUpdate ==
    \A c \in Conns, n \in ChannelIds, k \in Keys, i \in Nat :
        open[c] /\ LastTold(c, n, k, i) =>
            Subscribed(c, n, RecordList(k)) /\ UpToDate(c, n, k, Sent(c)[i])

ViewInv ==
    /\ TalkInv /\ Once /\ InsertToldOnce
    /\ LoopSends /\ EventLatest /\ ReadCommitted /\ LastUpdate /\ RecordUpdatesChain

-----------------------------------------------------------------------------
(* What each step changes.                                                 *)

LEMMA WhoChanges ==
    ASSUME [Next]_vars
    PROVE  /\ UNCHANGED db \/ \E c \in Conns : InsertRecord(c) \/ CommitUpdate(c)
           /\ UNCHANGED wtx \/ \E c \in Conns : BeginUpdate(c) \/ UpdateRecord(c) \/ CommitUpdate(c)
           /\ UNCHANGED asked \/ \E c \in Conns : HandleStatement(c)
           /\ \/ UNCHANGED pc
              \/ \E c \in Conns : HandleStatement(c) \/ HandlerStep(c)
              \/ \E e \in exs : WriteInitialResult(e)
           /\ \/ UNCHANGED exs
              \/ \E c \in Conns : HandleStatement(c)
              \/ \E e \in exs : ExecutionStep(e)
              \/ \E l \in loop.left : SendEvent(l)
           /\ \/ UNCHANGED loop
              \/ \E c \in Conns : PushInsert(c) \/ UpdateRecord(c)
              \/ \E e \in exs : SubscribeToTable(e) \/ SubscribeToRecord(e)
              \/ HandleSubscription \/ HandleTableEvent \/ \E l \in loop.left : SendEvent(l)
           /\ UNCHANGED listeners \/ HandleSubscription \/ \E c \in Conns : RemoveConn(c)
           /\ \/ UNCHANGED writer
              \/ \E e \in exs : WriteInitialResult(e) \/ WriteTableUpdate(e)
              \/ \E c \in Conns : WriteReply(c) \/ WriteToSocket(c)
              \/ \E l \in loop.left : SendEvent(l)
           /\ UNCHANGED wire \/ \E c \in Conns : WriteToSocket(c)
           /\ UNCHANGED open \/ \E c \in Conns : CloseSocket(c)
  <1> USE DEF clientVars
  <1>1. ASSUME NEW c \in Conns, HandleStatement(c)
        PROVE  UNCHANGED <<db, wtx, loop, listeners, writer, wire, open>>
    BY <1>1 DEF HandleStatement
  <1>2. ASSUME NEW c \in Conns, HandlerStep(c)
        PROVE  /\ UNCHANGED <<asked, exs, wire, open>>
               /\ UNCHANGED db \/ InsertRecord(c) \/ CommitUpdate(c)
               /\ UNCHANGED wtx \/ BeginUpdate(c) \/ UpdateRecord(c) \/ CommitUpdate(c)
               /\ UNCHANGED loop \/ PushInsert(c) \/ UpdateRecord(c)
               /\ UNCHANGED listeners \/ RemoveConn(c)
               /\ UNCHANGED writer \/ WriteReply(c)
    BY <1>2 DEF HandlerStep, InsertRecord, PushInsert, BeginUpdate, UpdateRecord, CommitUpdate,
                WriteReply, RemoveConn
  <1>3. ASSUME NEW c \in Conns, WriteToSocket(c)
        PROVE  UNCHANGED <<db, wtx, asked, pc, exs, loop, listeners, open>>
    BY <1>3 DEF WriteToSocket
  <1>4. ASSUME NEW c \in Conns, CloseSocket(c)
        PROVE  UNCHANGED <<db, wtx, asked, pc, exs, loop, listeners, writer, wire>>
    BY <1>4 DEF CloseSocket
  <1>5. ASSUME NEW e \in exs, ExecutionStep(e)
        PROVE  /\ UNCHANGED <<db, wtx, asked, listeners, wire, open>>
               /\ UNCHANGED pc \/ WriteInitialResult(e)
               /\ UNCHANGED loop \/ SubscribeToTable(e) \/ SubscribeToRecord(e)
               /\ UNCHANGED writer \/ WriteInitialResult(e) \/ WriteTableUpdate(e)
    BY <1>5 DEF ExecutionStep, BeginRequery, SubscribeToTable, SubscribeToRecord,
                WriteInitialResult, WriteTableUpdate
  <1>6. ASSUME LoopStep
        PROVE  /\ UNCHANGED <<db, wtx, asked, pc, wire, open>>
               /\ HandleSubscription \/ HandleTableEvent \/ \E l \in loop.left : SendEvent(l)
               /\ UNCHANGED exs \/ \E l \in loop.left : SendEvent(l)
               /\ UNCHANGED listeners \/ HandleSubscription
               /\ UNCHANGED writer \/ \E l \in loop.left : SendEvent(l)
    BY <1>6 DEF LoopStep, HandleSubscription, HandleTableEvent, SendEvent
  <1>7. CASE UNCHANGED vars
    BY <1>7 DEF vars
  <1>8. CASE \E c \in Conns : HandleStatement(c)
    BY <1>8, <1>1
  <1>9. CASE \E c \in Conns : HandlerStep(c)
    BY <1>9, <1>2
  <1>10. CASE \E c \in Conns : WriteToSocket(c) \/ CloseSocket(c)
    BY <1>10, <1>3, <1>4
  <1>11. CASE \E e \in exs : ExecutionStep(e)
    BY <1>11, <1>5
  <1>12. CASE LoopStep
    BY <1>12, <1>6
  <1> QED BY <1>7, <1>8, <1>9, <1>10, <1>11, <1>12 DEF Next

\* The types of what the proofs below look at.
LEMMA ViewTypes ==
    ASSUME TalkInv
    PROVE  /\ db \in Tables /\ wtx \in WriteTxs /\ loop \in Loops
           /\ pc \in [Conns -> {"idle", "insert", "push", "update", "rows", "select",
                                "ack", "error", "gone"}]
           /\ asked \in [Conns -> Seq(Statements)] /\ open \in [Conns -> BOOLEAN]
           /\ \A e \in exs : /\ e.id.conn \in Conns /\ e.id.chan \in ChannelIds /\ e.id.run \in Nat
                             /\ e.where \in Filters /\ e.todo \subseteq Records /\ e.rows \subseteq Records
           /\ \A l \in listeners \cup loop.left :
                 /\ l \in Listeners
                 /\ l.ex.conn \in Conns /\ l.ex.chan \in ChannelIds /\ l.ex.run \in Nat
           /\ loop.new \in Records /\ loop.old \in Values \cup {NoValue}
  <1>1. TypeOK
    BY DEF TalkInv, Inv
  <1>2. \A e \in exs : e \in Executions
    BY <1>1 DEF TypeOK
  <1>3. \A l \in listeners \cup loop.left : l \in Listeners
    BY <1>1 DEF TypeOK, Loops
  <1> QED BY <1>1, <1>2, <1>3 DEF TypeOK, Executions, ExIds, Listeners, Loops, ChannelIds

\* No statement removes a record.
LEMMA StaysStored ==
    ASSUME TalkInv, [Next]_vars, NEW k \in Keys, db[k] # NoValue
    PROVE  db'[k] # NoValue
  <1>1. ASSUME NEW c \in Conns, InsertRecord(c)  PROVE db'[k] # NoValue
    <2>1. Statement(c).id \in Keys /\ Statement(c).val \in Values
      BY <1>1, StatementType DEF InsertRecord, TalkInv
    <2> QED BY <1>1, <2>1, ViewTypes, ValuesAssumption DEF InsertRecord, Tables
  <1>2. ASSUME NEW c \in Conns, CommitUpdate(c)  PROVE db'[k] # NoValue
    BY <1>2, ConnsAssumption DEF CommitUpdate, TalkInv, Inv, WriteTxOK
  <1> QED BY <1>1, <1>2, WhoChanges

\* The announcement of an insert begins in its handler, and goes on in the loop.
LEMMA PushSteps ==
    ASSUME TalkInv, [Next]_vars
    PROVE  \/ \E c \in Conns :
                 /\ pc[c] = "insert" /\ Statement(c).id \in Keys /\ db[Statement(c).id] = NoValue
                 /\ pc' = [pc EXCEPT ![c] = "push"]
                 /\ loop' = loop /\ asked' = asked
           \/ \E c \in Conns :
                 /\ pc[c] = "push" /\ pc' = [pc EXCEPT ![c] = "ack"]
                 /\ loop' = TableEvent(NoValue, Record(Statement(c).id, Statement(c).val))
                 /\ loop.st = "select" /\ asked' = asked
           \/ /\ \A d \in Conns : pc'[d] = "push" => pc[d] = "push" /\ Statement(d)' = Statement(d)
              /\ \A k : Inserting(k)' => Inserting(k)
              /\ (loop'.st = "event" /\ loop'.old = NoValue) => loop' = loop
  <1> DEFINE PcOK == \A d \in Conns : pc'[d] = "push" => pc[d] = "push" /\ Statement(d)' = Statement(d)
             LoopOK == /\ \A k : Inserting(k)' => Inserting(k)
                       /\ (loop'.st = "event" /\ loop'.old = NoValue) => loop' = loop
  <1>0. pc \in [Conns -> {"idle", "insert", "push", "update", "rows", "select",
                                "ack", "error", "gone"}]
        /\ asked \in [Conns -> Seq(Statements)] /\ loop \in Loops
    BY ViewTypes
  <1>1. CASE \E c \in Conns : InsertRecord(c) /\ db[Statement(c).id] = NoValue
    <2>1. PICK c \in Conns : InsertRecord(c) /\ db[Statement(c).id] = NoValue
      BY <1>1
    <2>2. Statement(c).id \in Keys
      BY <2>1, StatementType DEF InsertRecord, TalkInv
    <2> QED BY <2>1, <2>2 DEF InsertRecord
  <1>2. CASE \E c \in Conns : PushInsert(c)
    BY <1>2 DEF PushInsert, HandToLoop
  <1>3. ASSUME ~ \E c \in Conns : InsertRecord(c) /\ db[Statement(c).id] = NoValue,
               ~ \E c \in Conns : PushInsert(c)
        PROVE  PcOK
    <2>1. ASSUME NEW c \in Conns, HandleStatement(c)  PROVE PcOK
      <3>1. PICK s \in Requests[c] :
               /\ asked' = [asked EXCEPT ![c] = Append(@, s)]
               /\ pc' = [pc EXCEPT ![c] = IF s.type = "invalid" THEN "error" ELSE s.type]
        BY <2>1 DEF HandleStatement
      <3>2. s \in Statements
        BY RequestsAssumption
      <3>3. pc'[c] # "push"
        BY <1>0, <3>1, <3>2 DEF Statements
      <3>4. \A d \in Conns \ {c} : pc'[d] = pc[d] /\ asked'[d] = asked[d]
        BY <1>0, <3>1
      <3> QED BY <3>3, <3>4 DEF Statement, Current
    <2>2. ASSUME NEW c \in Conns, HandlerStep(c)  PROVE PcOK
      <3>1. asked' = asked
        BY <2>2 DEF HandlerStep, InsertRecord, PushInsert, BeginUpdate, UpdateRecord, CommitUpdate,
                    WriteReply, RemoveConn
      <3>2. \/ \E v \in {"error", "rows", "ack", "idle", "gone"} : pc' = [pc EXCEPT ![c] = v]
            \/ pc' = pc
        BY <1>3, <2>2 DEF HandlerStep, InsertRecord, BeginUpdate, UpdateRecord, CommitUpdate,
                    WriteReply, RemoveConn
      <3> QED BY <1>0, <3>1, <3>2 DEF Statement, Current
    <2>3. ASSUME NEW e \in exs, WriteInitialResult(e)  PROVE PcOK
      BY <2>3, <1>0, ViewTypes DEF WriteInitialResult, Statement, Current
    <2>4. CASE pc' = pc /\ asked' = asked
      BY <2>4 DEF Statement, Current
    <2> HIDE DEF PcOK
    <2> QED BY <2>1, <2>2, <2>3, <2>4, WhoChanges
  <1>4. ASSUME ~ \E c \in Conns : PushInsert(c)
        PROVE  LoopOK
    <2>1. ASSUME NEW c \in Conns, UpdateRecord(c)  PROVE LoopOK
      <3>1. wtx.rows[Least(wtx.todo)] # NoValue
        <4>1. wtx.todo \subseteq Keys /\ wtx.todo # {} /\ Keys \subseteq Nat
          BY <2>1, ViewTypes, KeysAssumption DEF UpdateRecord, WriteTxs
        <4>2. Least(wtx.todo) \in wtx.todo
          BY <4>1, LeastIsLeast
        <4>3. wtx.owner # NoConn
          BY <2>1, ConnsAssumption DEF UpdateRecord, TalkInv, Inv, WriteTxOK
        <4> QED BY <4>2, <4>3 DEF TalkInv, Inv, WriteTxOK
      <3>2. loop'.old # NoValue
        BY <2>1, <3>1 DEF UpdateRecord, HandToLoop, TableEvent, Waiting
      <3> QED BY <3>2 DEF Inserting
    <2>2. ASSUME NEW e \in exs, SubscribeToTable(e) \/ SubscribeToRecord(e)  PROVE LoopOK
      <3>1. loop'.st = "subscribe"
        BY <2>2 DEF SubscribeToTable, SubscribeToRecord, HandToLoop, Subscription, Waiting
      <3> QED BY <3>1 DEF Inserting
    <2>3. ASSUME loop' = Waiting  PROVE LoopOK
      BY <2>3 DEF Inserting, Waiting
    <2>4. ASSUME HandleTableEvent  PROVE LoopOK
      <3>1. \/ loop' = Waiting
            \/ loop.st = "event" /\ loop'.st = "send" /\ loop'.old = loop.old /\ loop'.new = loop.new
        BY <2>4, <1>0 DEF HandleTableEvent, Loops
      <3> QED BY <2>3, <3>1 DEF Inserting
    <2>5. ASSUME NEW l \in loop.left, SendEvent(l)  PROVE LoopOK
      <3>1. \/ loop' = Waiting
            \/ loop.st = "send" /\ loop'.st = "send" /\ loop'.old = loop.old /\ loop'.new = loop.new
        BY <2>5, <1>0 DEF SendEvent, Loops
      <3> QED BY <2>3, <3>1 DEF Inserting
    <2>6. CASE loop' = loop
      BY <2>6 DEF Inserting
    <2> HIDE DEF LoopOK
    <2>7. HandleSubscription => loop' = Waiting
      BY DEF HandleSubscription
    <2> QED BY <1>4, <2>1, <2>2, <2>3, <2>4, <2>5, <2>6, <2>7, WhoChanges
  <1> QED BY <1>1, <1>2, <1>3, <1>4

\* The loop sends its event to one listener.
LEMMA SendEventSteps ==
    ASSUME TalkInv, NEW l \in loop.left, SendEvent(l)
    PROVE  /\ loop.st = "send" /\ UNCHANGED <<db, wtx, asked, pc, listeners, open>>
           /\ \/ loop.left = {l} /\ loop' = Waiting
              \/ /\ loop'.st = "send" /\ loop'.old = loop.old /\ loop'.new = loop.new
                 /\ loop'.left = loop.left \ {l} /\ loop.left # {l}
           /\ l.list.on = "rec" <=> loop.old # NoValue
           /\ loop.old = NoValue => /\ exs' = exs \cup {Requery(l.ex, loop.new)}
                                    /\ \A c \in Conns : Sent(c)' = Sent(c)
           /\ loop.old # NoValue =>
                 /\ exs' = exs
                 /\ Message("record", l.ex.chan, {loop.new}, loop.old) \in Messages
                 /\ Told(l.ex.conn, Message("record", l.ex.chan, {loop.new}, loop.old))
                 /\ \A c \in Conns \ {l.ex.conn} : Sent(c)' = Sent(c)
  <1> DEFINE m == Message("record", l.ex.chan, {loop.new}, loop.old)
  <1>1. /\ loop.st = "send" /\ UNCHANGED <<db, wtx, asked, pc, listeners, wire, open>>
        /\ loop' = IF loop.left = {l} THEN Waiting ELSE [loop EXCEPT !.left = @ \ {l}]
    BY DEF SendEvent, clientVars
  <1>2. \/ loop.left = {l} /\ loop' = Waiting
        \/ /\ loop'.st = "send" /\ loop'.old = loop.old /\ loop'.new = loop.new
           /\ loop'.left = loop.left \ {l} /\ loop.left # {l}
    BY <1>1, ViewTypes DEF Loops
  <1>3. l.list.on = "rec" <=> loop.old # NoValue
    BY <1>1 DEF TalkInv, Inv, TargetsOK
  <1>4. ASSUME loop.old = NoValue
        PROVE  exs' = exs \cup {Requery(l.ex, loop.new)} /\ \A c \in Conns : Sent(c)' = Sent(c)
    <2>1. exs' = exs \cup {Requery(l.ex, loop.new)} /\ writer' = writer
      BY <1>3, <1>4 DEF SendEvent
    <2> QED BY <1>1, <2>1 DEF Sent
  <1>5. ASSUME loop.old # NoValue
        PROVE  /\ exs' = exs /\ m \in Messages
               /\ Told(l.ex.conn, m) /\ \A c \in Conns \ {l.ex.conn} : Sent(c)' = Sent(c)
    <2>1. exs' = exs /\ WriteMessage(l.ex.conn, m)
      BY <1>3, <1>5 DEF SendEvent
    <2>2. m \in Messages /\ l.ex.conn \in Conns
      BY ViewTypes DEF Message, Messages, ChannelIds
    <2> HIDE DEF m
    <2> QED BY <1>1, <2>1, <2>2, Writes
  <1> QED BY <1>1, <1>2, <1>3, <1>4, <1>5

\* Where the messages to a connection come from.
LEMMA MessageSteps ==
    ASSUME TalkInv, [Next]_vars, NEW c \in Conns
    PROVE  \/ Sent(c)' = Sent(c)
           \/ \E s \in Seq(Messages), m \in Messages :
                 ~open'[c] /\ Sent(c) = Append(s, m) /\ Sent(c)' = s
           \/ \E m \in Messages :
                 /\ open[c] /\ Sent(c)' = Append(Sent(c), m)
                 /\ \/ m.type \in ReplyTypes /\ Busy(c) /\ m.chan = Current(c)
                    \/ \E e \in exs : /\ WriteTableUpdate(e) /\ c = e.id.conn
                                      /\ m = Message("table", e.id.chan, e.todo \cup e.rows, NoValue)
                    \/ \E l \in loop.left :
                          /\ SendEvent(l) /\ loop.old # NoValue /\ c = l.ex.conn
                          /\ m = Message("record", l.ex.chan, {loop.new}, loop.old)
  <1> DEFINE Replied == \E m \in Messages :
                 /\ open[c] /\ Sent(c)' = Append(Sent(c), m)
                 /\ m.type \in ReplyTypes /\ Busy(c) /\ m.chan = Current(c)
             Listed == \E m \in Messages, e \in exs :
                 /\ open[c] /\ Sent(c)' = Append(Sent(c), m)
                 /\ WriteTableUpdate(e) /\ c = e.id.conn
                 /\ m = Message("table", e.id.chan, e.todo \cup e.rows, NoValue)
             Followed == \E m \in Messages, l \in loop.left :
                 /\ open[c] /\ Sent(c)' = Append(Sent(c), m)
                 /\ SendEvent(l) /\ loop.old # NoValue /\ c = l.ex.conn
                 /\ m = Message("record", l.ex.chan, {loop.new}, loop.old)
             Lost == \E s \in Seq(Messages), m \in Messages :
                 ~open'[c] /\ Sent(c) = Append(s, m) /\ Sent(c)' = s
             Any == Sent(c)' = Sent(c) \/ Lost \/ Replied \/ Listed \/ Followed
  <1>1. ASSUME NEW e \in exs, WriteInitialResult(e)  PROVE Any
    <2> DEFINE d == e.id.conn
               m == IF Failed(e) THEN Message("error", e.id.chan, {}, NoValue)
                                 ELSE Message("initial", e.id.chan, e.todo \cup e.rows, NoValue)
    <2>1. IsTop(e) /\ WriteMessage(d, m) /\ wire' = wire /\ open' = open
      BY <1>1 DEF WriteInitialResult, clientVars
    <2>2. pc[d] = "select" /\ e.id.chan = Current(d)
      BY <2>1 DEF TalkInv, TopOK
    <2>3. m \in Messages /\ m.chan = Current(d) /\ m.type \in ReplyTypes
      BY <2>2, ViewTypes DEF Message, Messages, ReplyTypes, ChannelIds
    <2> HIDE DEF m
    <2>4. Told(d, m) /\ \A x \in Conns \ {d} : Sent(x)' = Sent(x)
      BY <2>1, <2>3, ViewTypes, Writes
    <2>5. CASE c = d
      BY <2>2, <2>3, <2>4, <2>5 DEF Told, Busy
    <2> QED BY <2>4, <2>5
  <1>2. ASSUME NEW e \in exs, WriteTableUpdate(e)  PROVE Any
    <2> DEFINE d == e.id.conn
               m == Message("table", e.id.chan, e.todo \cup e.rows, NoValue)
    <2>1. WriteMessage(d, m) /\ wire' = wire /\ open' = open
      BY <1>2 DEF WriteTableUpdate, clientVars
    <2>2. m \in Messages
      <3>1. e.id.chan \in 1..MaxStatements /\ e.todo \cup e.rows \in SUBSET Records
        BY ViewTypes DEF ChannelIds
      <3> QED BY <3>1 DEF Message, Messages
    <2> HIDE DEF m
    <2>3. Told(d, m) /\ \A x \in Conns \ {d} : Sent(x)' = Sent(x)
      BY <2>1, <2>2, ViewTypes, Writes
    <2>4. CASE c = d
      BY <1>2, <2>2, <2>3, <2>4 DEF Told, m
    <2> QED BY <2>3, <2>4
  <1>3. ASSUME NEW d \in Conns, WriteReply(d)  PROVE Any
    <2> DEFINE m == Message(pc[d], Current(d), {}, NoValue)
    <2>1. pc[d] \in {"ack", "error"} /\ WriteMessage(d, m) /\ wire' = wire /\ open' = open
      BY <1>3 DEF WriteReply, clientVars
    <2>2. m \in Messages /\ m.chan = Current(d) /\ m.type \in ReplyTypes
      <3>1. Current(d) \in 1..MaxStatements
        BY <2>1, StatementType DEF TalkInv
      <3> QED BY <2>1, <3>1 DEF Message, Messages, ReplyTypes
    <2> HIDE DEF m
    <2>3. Told(d, m) /\ \A x \in Conns \ {d} : Sent(x)' = Sent(x)
      BY <2>1, <2>2, Writes
    <2>4. CASE c = d
      BY <2>1, <2>2, <2>3, <2>4 DEF Told, Busy
    <2> QED BY <2>3, <2>4
  <1>4. ASSUME NEW l \in loop.left, SendEvent(l)  PROVE Any
    <2>1. CASE loop.old = NoValue
      BY <1>4, <2>1, SendEventSteps
    <2>2. CASE loop.old # NoValue
      <3> DEFINE m == Message("record", l.ex.chan, {loop.new}, loop.old)
      <3>1. m \in Messages /\ Told(l.ex.conn, m) /\ \A x \in Conns \ {l.ex.conn} : Sent(x)' = Sent(x)
        BY <1>4, <2>2, SendEventSteps
      <3> HIDE DEF m
      <3>2. CASE c = l.ex.conn
        BY <1>4, <2>2, <3>1, <3>2 DEF Told, m
      <3> QED BY <3>1, <3>2
    <2> QED BY <2>1, <2>2
  <1>5. ASSUME NEW d \in Conns, WriteToSocket(d)  PROVE Sent(c)' = Sent(c)
    <2>1. /\ wire' = IF open[d] THEN [wire EXCEPT ![d] = @ \o writer[d]] ELSE wire
          /\ writer' = [writer EXCEPT ![d] = << >>] /\ open' = open
      BY <1>5 DEF WriteToSocket
    <2>2. wire \in [Conns -> Seq(Messages)] /\ writer \in [Conns -> Seq(Messages)]
      BY DEF TalkInv, Inv, TypeOK
    <2>3. CASE d = c /\ open[c]
      <3>1. wire[c] \o writer[c] \in Seq(Messages)
        BY <2>2, ConcatProperties
      <3>2. (wire[c] \o writer[c]) \o << >> = wire[c] \o writer[c]
        BY <3>1, ConcatEmptySeq
      <3> QED BY <2>1, <2>2, <2>3, <3>2 DEF Sent
    <2>4. CASE ~(d = c /\ open[c])
      BY <2>1, <2>2, <2>4 DEF Sent
    <2> QED BY <2>3, <2>4
  <1>6. ASSUME NEW d \in Conns, CloseSocket(d)  PROVE Sent(c)' = Sent(c) \/ Lost
    <2>1. open' = [open EXCEPT ![d] = FALSE] /\ writer' = writer /\ wire' = wire /\ open[d]
      BY <1>6 DEF CloseSocket
    <2>2. wire[c] \in Seq(Messages) /\ open \in [Conns -> BOOLEAN]
      BY DEF TalkInv, Inv, TypeOK
    <2>3. CASE c # d
      BY <2>1, <2>2, <2>3 DEF Sent
    <2>4. CASE c = d
      <3>1. Sent(c) = wire[c] \o writer[c] /\ Sent(c)' = wire[c] /\ ~open'[c]
        BY <2>1, <2>2, <2>4 DEF Sent
      <3>2. CASE writer[c] = << >>
        BY <2>2, <3>1, <3>2, ConcatEmptySeq
      <3>3. CASE writer[c] # << >>
        <4>1. PICK m \in Messages : writer[c] = <<m>>
          BY <3>3, WriterHasOne
        <4>2. wire[c] \o <<m>> = Append(wire[c], m)
          BY <2>2, OneMore
        <4> QED BY <2>2, <3>1, <4>1, <4>2
      <3> QED BY <3>2, <3>3
    <2> QED BY <2>3, <2>4
  <1>7. ASSUME UNCHANGED <<writer, wire, open>>  PROVE Sent(c)' = Sent(c)
    BY <1>7 DEF Sent
  <1>8. Any
    <2> HIDE DEF Replied, Listed, Followed, Lost
    <2> QED BY <1>1, <1>2, <1>3, <1>4, <1>5, <1>6, <1>7, WhoChanges
  <1> QED BY <1>8

\* Execution e goes on as f.
Continues(e, f) ==
    /\ f.id = e.id /\ f.where = e.where
    /\ \/ f.todo \cup f.rows = e.todo \cup e.rows
       \/ f.todo = ReadRows(db, e.where) /\ f.rows = e.rows

LEMMA ExecutionSteps ==
    ASSUME TalkInv, [Next]_vars
    PROVE  \/ exs' \subseteq exs
           \/ \E e \in exs : \E f : Continues(e, f) /\ exs' = (exs \ {e}) \cup {f}
           \/ \E c \in Conns, s \in Statements :
                 /\ s.type = "select" /\ asked' = [asked EXCEPT ![c] = Append(@, s)]
                 /\ exs' = exs \cup {TopExecution(c, Current(c) + 1, s)}
           \/ \E l \in loop.left :
                 SendEvent(l) /\ loop.old = NoValue /\ exs' = exs \cup {Requery(l.ex, loop.new)}
  <1> DEFINE Went == \E e \in exs : \E f : Continues(e, f) /\ exs' = (exs \ {e}) \cup {f}
             Came == \E c \in Conns, s \in Statements :
                        /\ s.type = "select" /\ asked' = [asked EXCEPT ![c] = Append(@, s)]
                        /\ exs' = exs \cup {TopExecution(c, Current(c) + 1, s)}
             Again == \E l \in loop.left :
                        SendEvent(l) /\ loop.old = NoValue /\ exs' = exs \cup {Requery(l.ex, loop.new)}
             Any == exs' \subseteq exs \/ Went \/ Came \/ Again
  <1>0. \A e \in exs : e \in Executions
    BY DEF TalkInv, Inv, TypeOK
  <1>1. ASSUME NEW e \in exs, BeginRequery(e)  PROVE Any
    <2> DEFINE f == [e EXCEPT !.st = "subscribe", !.todo = ReadRows(db, e.where)]
    <2>1. exs' = (exs \ {e}) \cup {f}
      BY <1>1 DEF BeginRequery, Replace
    <2>2. Continues(e, f)
      BY <1>0 DEF Continues, Executions
    <2> QED BY <2>1, <2>2
  <1>2. ASSUME NEW e \in exs, SubscribeToTable(e)  PROVE Any
    <2> DEFINE f == [e EXCEPT !.st = "read"]
    <2>1. exs' = (exs \ {e}) \cup {f}
      BY <1>2 DEF SubscribeToTable, Replace
    <2>2. Continues(e, f)
      BY <1>0 DEF Continues, Executions
    <2> QED BY <2>1, <2>2
  <1>3. ASSUME NEW e \in exs, SubscribeToRecord(e)  PROVE Any
    <2> DEFINE r == First(e.todo)
               f == [e EXCEPT !.todo = @ \ {r}, !.rows = @ \cup {r}]
    <2>1. exs' = (exs \ {e}) \cup {f}
      BY <1>3 DEF SubscribeToRecord, Replace
    <2>2. r \in e.todo
      BY <1>3, ViewTypes, FirstIsOne DEF SubscribeToRecord, Finished
    <2> HIDE DEF r
    <2>3. Continues(e, f)
      BY <1>0, <2>2 DEF Continues, Executions
    <2> QED BY <2>1, <2>3
  <1>4. ASSUME NEW e \in exs, WriteInitialResult(e) \/ WriteTableUpdate(e)  PROVE Any
    BY <1>4 DEF WriteInitialResult, WriteTableUpdate
  <1>5. ASSUME NEW c \in Conns, HandleStatement(c)  PROVE Any
    <2>1. PICK s \in Requests[c] :
             /\ asked' = [asked EXCEPT ![c] = Append(@, s)]
             /\ IF s.type = "select"
                THEN exs' = exs \cup {TopExecution(c, NextChannel(c), s)}
                ELSE UNCHANGED exs
      BY <1>5 DEF HandleStatement
    <2>2. s \in Statements
      BY RequestsAssumption
    <2> QED BY <2>1, <2>2 DEF NextChannel
  <1>6. ASSUME NEW l \in loop.left, SendEvent(l)  PROVE Any
    BY <1>6, SendEventSteps
  <1>7. Any
    <2> HIDE DEF Went, Came, Again
    <2> QED BY <1>1, <1>2, <1>3, <1>4, <1>5, <1>6, WhoChanges DEF ExecutionStep
  <1> QED BY <1>7

\* Listeners are those there were, and what an execution subscribes.
LEMMA ListenerSteps ==
    ASSUME TalkInv, [Next]_vars, NEW l \in (listeners \cup loop.left)'
    PROVE  \/ l \in listeners \cup loop.left
           \/ \E e \in exs : /\ l.ex = e.id
                             /\ \/ l.list = e.where
                                \/ \E r \in e.todo : l.list = RecordList(r.id)
  <1>1. ASSUME NEW e \in exs, SubscribeToTable(e) \/ SubscribeToRecord(e), l \in loop'.left
        PROVE  l.ex = e.id /\ (l.list = e.where \/ \E r \in e.todo : l.list = RecordList(r.id))
    <2>1. CASE SubscribeToTable(e)
      BY <1>1, <2>1 DEF SubscribeToTable, HandToLoop, Subscription, Waiting
    <2>2. CASE SubscribeToRecord(e)
      <3> DEFINE r == First(e.todo)
      <3>1. r \in e.todo
        BY <2>2, ViewTypes, FirstIsOne DEF SubscribeToRecord, Finished
      <3>2. loop'.left = {[list |-> RecordList(r.id), ex |-> e.id]}
        BY <2>2 DEF SubscribeToRecord, HandToLoop, Subscription, Waiting
      <3> HIDE DEF r
      <3> QED BY <1>1, <3>1, <3>2
    <2> QED BY <1>1, <2>1, <2>2
  <1>2. ASSUME NEW c \in Conns, PushInsert(c) \/ UpdateRecord(c)  PROVE loop'.left = {}
    BY <1>2 DEF PushInsert, UpdateRecord, HandToLoop, TableEvent, Waiting
  <1>3. ASSUME HandleTableEvent  PROVE loop'.left \subseteq listeners
    <2> DEFINE to == Targets(loop.old, loop.new)
    <2>1. to \subseteq listeners
      BY DEF Targets
    <2>2. loop' = Waiting \/ loop' = [loop EXCEPT !.st = "send", !.left = to]
      BY <1>3 DEF HandleTableEvent
    <2>3. [loop EXCEPT !.st = "send", !.left = to].left = to /\ Waiting.left = {}
      BY ViewTypes DEF Waiting, Loops
    <2> HIDE DEF to
    <2> QED BY <2>1, <2>2, <2>3
  <1>4. ASSUME NEW x \in loop.left, SendEvent(x)  PROVE loop'.left \subseteq loop.left
    BY <1>4, SendEventSteps DEF Waiting
  <1>5. ASSUME HandleSubscription
        PROVE  loop'.left = {} /\ listeners' \subseteq listeners \cup loop.left
    BY <1>5 DEF HandleSubscription, AddListener, Waiting
  <1>6. ASSUME NEW c \in Conns, RemoveConn(c)  PROVE listeners' \subseteq listeners
    BY <1>6 DEF RemoveConn, RemoveListenersForConn
  <1>7. CASE l \in loop'.left
    BY <1>1, <1>2, <1>3, <1>4, <1>5, <1>7, WhoChanges
  <1>8. CASE l \in listeners'
    BY <1>5, <1>6, <1>8, WhoChanges
  <1> QED BY <1>7, <1>8

\* The messages to a connection, one by one: those that were, and one more.
LEMMA IndexSteps ==
    ASSUME TalkInv, [Next]_vars, NEW c \in Conns
    PROVE  /\ Sent(c) \in Seq(Messages) /\ Sent(c)' \in Seq(Messages)
           /\ Len(Sent(c)) \in Nat /\ DOMAIN Sent(c) = 1..Len(Sent(c))
           /\ Len(Sent(c))' \in Nat /\ (DOMAIN Sent(c))' = 1..Len(Sent(c))'
           /\ \/ /\ Len(Sent(c))' = Len(Sent(c)) \/ (Len(Sent(c))' < Len(Sent(c)) /\ ~open'[c])
                 /\ \A i \in 1..Len(Sent(c))' : Sent(c)'[i] = Sent(c)[i]
              \/ /\ Len(Sent(c))' = Len(Sent(c)) + 1
                 /\ \A i \in 1..Len(Sent(c)) : Sent(c)'[i] = Sent(c)[i]
                 /\ Sent(c)' = Append(Sent(c), Sent(c)'[Len(Sent(c)) + 1])
                 /\ LET m == Sent(c)'[Len(Sent(c)) + 1]
                    IN  /\ m \in Messages /\ open[c]
                        /\ \/ m.type \in ReplyTypes /\ Busy(c) /\ m.chan = Current(c)
                           \/ \E e \in exs : /\ WriteTableUpdate(e) /\ c = e.id.conn
                                             /\ m = Message("table", e.id.chan, e.todo \cup e.rows, NoValue)
                           \/ \E l \in loop.left :
                                 /\ SendEvent(l) /\ loop.old # NoValue /\ c = l.ex.conn
                                 /\ m = Message("record", l.ex.chan, {loop.new}, loop.old)
  <1>1. TalkInv'
    BY NextTalks
  <1>2. Sent(c) \in Seq(Messages) /\ Sent(c)' \in Seq(Messages)
    <2>1. TypeOK /\ TypeOK'
      BY <1>1 DEF TalkInv, Inv
    <2>2. Sent(c) \in Seq(Messages)
      BY <2>1, SentType
    <2>3. wire'[c] \in Seq(Messages) /\ writer'[c] \in Seq(Messages)
      BY <2>1 DEF TypeOK
    <2>4. wire'[c] \o writer'[c] \in Seq(Messages)
      BY <2>3, ConcatProperties
    <2> QED BY <2>2, <2>3, <2>4 DEF Sent
  <1> DEFINE s == Sent(c)
             t == Sent(c)'
             Cause(m) == \/ m.type \in ReplyTypes /\ Busy(c) /\ m.chan = Current(c)
                         \/ \E e \in exs : /\ WriteTableUpdate(e) /\ c = e.id.conn
                                           /\ m = Message("table", e.id.chan, e.todo \cup e.rows, NoValue)
                         \/ \E l \in loop.left :
                               /\ SendEvent(l) /\ loop.old # NoValue /\ c = l.ex.conn
                               /\ m = Message("record", l.ex.chan, {loop.new}, loop.old)
  <1>3. \/ t = s
        \/ \E u \in Seq(Messages), m \in Messages : ~open'[c] /\ s = Append(u, m) /\ t = u
        \/ \E m \in Messages : open[c] /\ t = Append(s, m) /\ Cause(m)
    BY MessageSteps
  <1>4. s \in Seq(Messages) /\ t \in Seq(Messages)
    BY <1>2
  <1> HIDE DEF s, t, Cause
  <1>5. /\ Len(s) \in Nat /\ DOMAIN s = 1..Len(s) /\ Len(t) \in Nat /\ DOMAIN t = 1..Len(t)
    BY <1>4
  <1>6. CASE t = s
    BY <1>2, <1>5, <1>6 DEF s, t
  <1>7. ASSUME NEW u \in Seq(Messages), NEW m \in Messages, ~open'[c], s = Append(u, m), t = u
        PROVE  /\ Len(t) < Len(s) /\ \A i \in 1..Len(t) : t[i] = s[i]
    BY <1>7, OneMore
  <1>8. ASSUME NEW m \in Messages, open[c], t = Append(s, m), Cause(m)
        PROVE  /\ Len(t) = Len(s) + 1 /\ \A i \in 1..Len(s) : t[i] = s[i]
               /\ t[Len(s) + 1] = m
    BY <1>4, <1>8, OneMore
  <1>9. \/ /\ Len(t) = Len(s) \/ (Len(t) < Len(s) /\ ~open'[c])
           /\ \A i \in 1..Len(t) : t[i] = s[i]
        \/ /\ Len(t) = Len(s) + 1 /\ \A i \in 1..Len(s) : t[i] = s[i]
           /\ t = Append(s, t[Len(s) + 1]) /\ t[Len(s) + 1] \in Messages /\ open[c]
           /\ Cause(t[Len(s) + 1])
    BY <1>3, <1>6, <1>7, <1>8
  <1> QED BY <1>4, <1>5, <1>9 DEF s, t, Cause

\* A message of an insert is there already, or a requery writes it now.
LEMMA InsertTold ==
    ASSUME TalkInv, RequeriesRead, [Next]_vars, NEW c \in Conns, NEW i \in (DOMAIN Sent(c))',
           NEW n, NEW k, TellsInsert(Sent(c)'[i], n, k)
    PROVE  \/ i \in DOMAIN Sent(c) /\ TellsInsert(Sent(c)[i], n, k)
           \/ /\ i = Len(Sent(c)) + 1
              /\ \E e \in exs : /\ WriteTableUpdate(e) /\ exs' = exs \ {e} /\ ~IsTop(e)
                                /\ e.id.conn = c /\ e.id.chan = n /\ e.where = WhereId(k)
  <1>0. /\ Len(Sent(c)) \in Nat /\ DOMAIN Sent(c) = 1..Len(Sent(c))
        /\ Len(Sent(c))' \in Nat /\ i \in 1..Len(Sent(c))'
    BY IndexSteps
  <1>1. i \in DOMAIN Sent(c) => Sent(c)'[i] = Sent(c)[i]
    BY <1>0, IndexSteps
  <1>2. CASE i \notin DOMAIN Sent(c)
    <2> DEFINE m == Sent(c)'[i]
               Cause(q) == \/ q.type \in ReplyTypes
                           \/ \E e \in exs : /\ WriteTableUpdate(e) /\ c = e.id.conn
                                             /\ q = Message("table", e.id.chan, e.todo \cup e.rows, NoValue)
                           \/ \E l \in loop.left : q = Message("record", l.ex.chan, {loop.new}, loop.old)
    <2>0. \/ Len(Sent(c))' <= Len(Sent(c))
          \/ Len(Sent(c))' = Len(Sent(c)) + 1 /\ Cause(Sent(c)'[Len(Sent(c)) + 1])
      <3>1. \/ Len(Sent(c))' = Len(Sent(c)) \/ Len(Sent(c))' < Len(Sent(c))
            \/ Len(Sent(c))' = Len(Sent(c)) + 1 /\ Cause(Sent(c)'[Len(Sent(c)) + 1])
        BY IndexSteps
      <3> HIDE DEF Cause
      <3> QED BY <1>0, <3>1
    <2>1. i = Len(Sent(c)) + 1 /\ Cause(m)
      <3> HIDE DEF Cause
      <3>1. i = Len(Sent(c)) + 1 /\ Len(Sent(c))' = Len(Sent(c)) + 1
        BY <1>0, <1>2, <2>0
      <3> QED BY <1>0, <2>0, <3>1
    <2>2. m.type = "table" /\ m.chan = n /\ \E r \in m.rows : r.id = k
      BY DEF TellsInsert
    <2> HIDE DEF m
    <2>3. PICK e \in exs : /\ WriteTableUpdate(e) /\ c = e.id.conn
                           /\ m = Message("table", e.id.chan, e.todo \cup e.rows, NoValue)
      BY <2>1, <2>2 DEF Message, ReplyTypes
    <2>4. e.id.chan = n /\ \E r \in e.todo \cup e.rows : r.id = k
      BY <2>2, <2>3 DEF Message
    <2>5. ~IsTop(e) /\ exs' = exs \ {e}
      BY <2>3 DEF WriteTableUpdate
    <2>6. e.where.is = k
      BY <2>4, <2>5 DEF RequeriesRead
    <2>7. PICK j \in Keys : e.where = WhereId(j)
      BY <2>5 DEF TalkInv, Inv, RequeryOK
    <2>8. e.where = WhereId(k)
      BY <2>6, <2>7 DEF WhereId
    <2> QED BY <2>1, <2>3, <2>4, <2>5, <2>8
  <1> QED BY <1>1, <1>2

\* An execution for a new record is a requery, whatever it is for.
LEMMA RequeryIs ==
    ASSUME TalkInv, NEW l \in loop.left
    PROVE  LET q == Requery(l.ex, loop.new)
           IN  /\ ~IsTop(q) /\ q.where = WhereId(loop.new.id) /\ q.todo = {} /\ q.rows = {}
               /\ q.id.conn = l.ex.conn /\ q.id.chan = l.ex.chan
  <1>1. runs[l.ex.conn][l.ex.chan] # 0
    BY ViewTypes DEF TalkInv, UpdatersLive, LiveChannel
  <1> QED BY <1>1 DEF Requery, IsTop

-----------------------------------------------------------------------------
(* A live query is told of an insert once.                                 *)

LEMMA AnnouncedStays ==
    ASSUME TalkInv, [Next]_vars, NEW k, Announced(k)
    PROVE  Announced(k)'
  <1>1. k \in Keys /\ db'[k] # NoValue
    BY StaysStored DEF Announced
  <1> DEFINE After == /\ \A d \in Conns : pc'[d] = "push" => Statement(d)'.id # k
                      /\ ~(loop'.st = "event" /\ Inserting(k)')
  <1>0. /\ \A d \in Conns : pc[d] = "push" => Statement(d).id # k
        /\ ~(loop.st = "event" /\ Inserting(k))
    BY DEF Announced
  <1>2. ASSUME NEW c \in Conns, Statement(c).id \in Keys, db[Statement(c).id] = NoValue,
               pc' = [pc EXCEPT ![c] = "push"], loop' = loop, asked' = asked
        PROVE  After
    <2>1. \A d \in Conns : Statement(d)' = Statement(d) /\ (d # c => pc'[d] = pc[d])
      BY <1>2, ViewTypes DEF Statement, Current
    <2>2. Statement(c).id # k
      BY <1>2 DEF Announced
    <2> QED BY <1>0, <1>2, <2>1, <2>2 DEF Inserting
  <1>3. ASSUME NEW c \in Conns, pc[c] = "push", pc' = [pc EXCEPT ![c] = "ack"], asked' = asked,
               loop' = TableEvent(NoValue, Record(Statement(c).id, Statement(c).val))
        PROVE  After
    <2>1. \A d \in Conns : Statement(d)' = Statement(d) /\ (d # c => pc'[d] = pc[d]) /\ pc'[c] # "push"
      BY <1>3, ViewTypes DEF Statement, Current
    <2>2. loop'.new.id = Statement(c).id
      BY <1>3 DEF TableEvent, Waiting, Record
    <2> QED BY <1>0, <1>3, <2>1, <2>2 DEF Inserting
  <1>4. ASSUME \A d \in Conns : pc'[d] = "push" => pc[d] = "push" /\ Statement(d)' = Statement(d),
               (loop'.st = "event" /\ loop'.old = NoValue) => loop' = loop
        PROVE  After
    BY <1>0, <1>4 DEF Inserting
  <1>5. After
    <2> HIDE DEF After
    <2> QED BY <1>2, <1>3, <1>4, PushSteps
  <1> QED BY <1>1, <1>5 DEF Announced

LEMMA NextOneAnnouncer ==
    ASSUME TalkInv, OneAnnouncer, [Next]_vars
    PROVE  OneAnnouncer'
  <1>0. \A d \in Conns : pc[d] = "push" => db[Statement(d).id] # NoValue
    BY DEF TalkInv, Inv, InsertCommitted
  <1>1. \A k : Inserting(k) => db[k] # NoValue
    BY DEF TalkInv, Inv, InsertCommitted, Inserting
  <1>2. ASSUME NEW c \in Conns, Statement(c).id \in Keys, db[Statement(c).id] = NoValue,
               pc' = [pc EXCEPT ![c] = "push"], loop' = loop, asked' = asked
        PROVE  OneAnnouncer'
    <2>1. \A d \in Conns : Statement(d)' = Statement(d) /\ (d # c => pc'[d] = pc[d]) /\ pc'[c] = "push"
      BY <1>2, ViewTypes DEF Statement, Current
    <2>2. \A k : Inserting(k)' <=> Inserting(k)
      BY <1>2 DEF Inserting
    <2> QED BY <1>0, <1>1, <1>2, <2>1, <2>2 DEF OneAnnouncer
  <1>3. ASSUME NEW c \in Conns, pc[c] = "push", pc' = [pc EXCEPT ![c] = "ack"], asked' = asked,
               loop' = TableEvent(NoValue, Record(Statement(c).id, Statement(c).val))
        PROVE  OneAnnouncer'
    <2>1. \A d \in Conns : Statement(d)' = Statement(d) /\ (d # c => pc'[d] = pc[d]) /\ pc'[c] # "push"
      BY <1>3, ViewTypes DEF Statement, Current
    <2>2. loop'.new.id = Statement(c).id
      BY <1>3 DEF TableEvent, Waiting, Record
    <2> QED BY <1>3, <2>1, <2>2 DEF OneAnnouncer, Inserting
  <1>4. ASSUME \A d \in Conns : pc'[d] = "push" => pc[d] = "push" /\ Statement(d)' = Statement(d),
               \A k : Inserting(k)' => Inserting(k)
        PROVE  OneAnnouncer'
    BY <1>4 DEF OneAnnouncer
  <1> QED BY <1>2, <1>3, <1>4, PushSteps

LEMMA NextRequeriesRead ==
    ASSUME TalkInv, RequeriesRead, [Next]_vars
    PROVE  RequeriesRead'
  <1>1. ASSUME exs' \subseteq exs  PROVE RequeriesRead'
    BY <1>1 DEF RequeriesRead, IsTop
  <1>2. ASSUME NEW e \in exs, NEW f, Continues(e, f), exs' = (exs \ {e}) \cup {f}
        PROVE  RequeriesRead'
    <2>1. ~IsTop(e) => \A r \in f.todo \cup f.rows : r.id = f.where.is
      <3> SUFFICES ASSUME ~IsTop(e)  PROVE \A r \in f.todo \cup f.rows : r.id = f.where.is
        OBVIOUS
      <3>1. f.where = e.where /\ \A r \in e.todo \cup e.rows : r.id = e.where.is
        BY <1>2 DEF Continues, RequeriesRead
      <3>2. PICK k \in Keys : e.where = WhereId(k) /\ db[k] # NoValue
        BY DEF TalkInv, Inv, RequeryOK
      <3>3. \A r \in ReadRows(db, e.where) : r.id = k
        BY <3>2, SeekFinds, ViewTypes DEF ReadRows, WhereId
      <3> QED BY <1>2, <3>1, <3>2, <3>3 DEF Continues, WhereId
    <2>2. f.id = e.id
      BY <1>2 DEF Continues
    <2> QED BY <1>2, <2>1, <2>2 DEF RequeriesRead, IsTop
  <1>3. ASSUME NEW q, exs' = exs \cup {q}, IsTop(q) \/ (q.todo = {} /\ q.rows = {})
        PROVE  RequeriesRead'
    BY <1>3 DEF RequeriesRead, IsTop
  <1>4. \A c \in Conns, s \in Statements : IsTop(TopExecution(c, Current(c) + 1, s))
    BY DEF IsTop, TopExecution
  <1> QED BY <1>1, <1>2, <1>3, <1>4, ExecutionSteps, RequeryIs

LEMMA NextTopListeners ==
    ASSUME TalkInv, TopListeners, [Next]_vars
    PROVE  TopListeners'
  <1> DEFINE Asks(c, n) == asked[c][n].where
  <1>1. ASSUME NEW c \in Conns, NEW n \in DOMAIN asked[c]
        PROVE  asked'[c][n] = asked[c][n]
    <2>1. ASSUME NEW d \in Conns, HandleStatement(d)  PROVE asked'[c][n] = asked[c][n]
      <3>1. PICK s \in Requests[d] : asked' = [asked EXCEPT ![d] = Append(@, s)]
        BY <2>1 DEF HandleStatement
      <3>2. asked[c] \in Seq(Statements) /\ asked[d] \in Seq(Statements) /\ s \in Statements
        BY RequestsAssumption, ViewTypes
      <3>3. n \in 1..Len(asked[c])
        BY <3>2
      <3>4. Append(asked[c], s)[n] = asked[c][n]
        BY <3>2, <3>3, OneMore
      <3> QED BY <3>1, <3>4, ViewTypes
    <2> QED BY <2>1, WhoChanges
  <1>2. /\ \A e \in exs : IsTop(e) => e.id.chan \in DOMAIN asked[e.id.conn]
        /\ \A l \in listeners \cup loop.left : l.ex.chan \in DOMAIN asked[l.ex.conn]
    <2>1. ASSUME NEW e \in exs, IsTop(e)  PROVE e.id.chan \in DOMAIN asked[e.id.conn]
      <3>1. e.id.chan = Current(e.id.conn) /\ pc[e.id.conn] = "select" /\ e.id.conn \in Conns
        BY <2>1, ViewTypes DEF TalkInv, TopOK
      <3>2. 1 <= Current(e.id.conn) /\ asked[e.id.conn] \in Seq(Statements)
        BY <3>1, ViewTypes DEF TalkInv, Inv, HandlerOK
      <3> QED BY <3>1, <3>2 DEF Current
    <2> QED BY <2>1 DEF TalkInv, UpdatersLive, LiveChannel
  <1>3. \A e \in exs : IsTop(e) => e.where = asked'[e.id.conn][e.id.chan].where
    BY <1>1, <1>2, ViewTypes DEF TopListeners
  <1>4. \A e \in exs' : IsTop(e) => e.where = asked'[e.id.conn][e.id.chan].where
    <2> DEFINE Good(f) == IsTop(f) => f.where = asked'[f.id.conn][f.id.chan].where
    <2>1. ASSUME NEW e \in exs, NEW f, Continues(e, f)  PROVE Good(f)
      BY <1>3, <2>1 DEF Continues, IsTop
    <2>2. ASSUME NEW c \in Conns, NEW s \in Statements, s.type = "select",
                 asked' = [asked EXCEPT ![c] = Append(@, s)]
          PROVE  Good(TopExecution(c, Current(c) + 1, s))
      <3>1. asked'[c] = Append(asked[c], s)
        BY <2>2, ViewTypes
      <3>2. Append(asked[c], s)[Current(c) + 1] = s
        BY OneMore, ViewTypes DEF Current
      <3> QED BY <3>1, <3>2 DEF TopExecution
    <2>3. ASSUME NEW l \in loop.left  PROVE Good(Requery(l.ex, loop.new))
      BY RequeryIs
    <2>4. \A e \in exs : Good(e)
      BY <1>3
    <2> HIDE DEF Good
    <2>5. \A e \in exs' : Good(e)
      BY <2>1, <2>2, <2>3, <2>4, ExecutionSteps
    <2> QED BY <2>5 DEF Good
  <1>5. \A l \in (listeners \cup loop.left)' : l.ex.run = 0 /\ l.list.on # "rec" =>
            l.list = asked'[l.ex.conn][l.ex.chan].where
    <2> SUFFICES ASSUME NEW l \in (listeners \cup loop.left)', l.ex.run = 0, l.list.on # "rec"
                 PROVE  l.list = asked'[l.ex.conn][l.ex.chan].where
      OBVIOUS
    <2>1. CASE l \in listeners \cup loop.left
      BY <1>1, <1>2, <2>1, ViewTypes DEF TopListeners
    <2>2. CASE \E e \in exs : l.ex = e.id /\ l.list = e.where
      BY <1>3, <2>2 DEF IsTop
    <2>3. \A k : RecordList(k).on = "rec"
      BY DEF RecordList
    <2> QED BY <2>1, <2>2, <2>3, ListenerSteps
  <1> QED BY <1>4, <1>5 DEF TopListeners, IsTop
\* An insert that the loop is sending is announced.
LEMMA SendingAnnounced ==
    ASSUME TalkInv, OneAnnouncer, loop.st = "send", loop.old = NoValue
    PROVE  Announced(loop.new.id)
  <1>1. loop.new.id \in Keys /\ db[loop.new.id] # NoValue
    BY DEF TalkInv, Inv, InsertCommitted
  <1>2. \A d \in Conns : pc[d] = "push" => Statement(d).id # loop.new.id
    BY DEF OneAnnouncer, Inserting
  <1> QED BY <1>1, <1>2 DEF Announced

\* What an execution that is a requery looks up.
LEMMA RequeryWhere ==
    ASSUME TalkInv, NEW e \in exs, ~IsTop(e)
    PROVE  e.where.is \in Keys /\ e.where = WhereId(e.where.is)
  <1>1. PICK k \in Keys : e.where = WhereId(k)
    BY DEF TalkInv, Inv, RequeryOK
  <1>2. WhereId(k).is = k
    BY DEF WhereId
  <1> QED BY <1>1, <1>2

LEMMA NextToldAnnounced ==
    ASSUME TalkInv, RequeriesRead, OneAnnouncer, ToldAnnounced, [Next]_vars
    PROVE  ToldAnnounced'
  <1>1. ASSUME NEW f \in exs', ~IsTop(f)  PROVE Announced(f.where.is)'
    <2>1. CASE f \in exs
      BY <1>1, <2>1, AnnouncedStays DEF ToldAnnounced
    <2>2. ASSUME NEW e \in exs, Continues(e, f)  PROVE Announced(f.where.is)'
      <3>1. f.where = e.where /\ ~IsTop(e)
        BY <1>1, <2>2 DEF Continues, IsTop
      <3>2. Announced(e.where.is)
        BY <3>1 DEF ToldAnnounced
      <3> QED BY <3>1, <3>2, AnnouncedStays
    <2>3. ASSUME NEW c \in Conns, NEW s \in Statements, f = TopExecution(c, Current(c) + 1, s)
          PROVE  FALSE
      BY <1>1, <2>3 DEF IsTop, TopExecution
    <2>4. ASSUME NEW l \in loop.left, SendEvent(l), loop.old = NoValue, f = Requery(l.ex, loop.new)
          PROVE  Announced(f.where.is)'
      <3>1. f.where.is = loop.new.id
        BY <2>4, RequeryIs DEF WhereId
      <3>2. loop.st = "send"
        BY <2>4 DEF SendEvent
      <3>3. Announced(loop.new.id)
        BY <2>4, <3>2, SendingAnnounced
      <3> QED BY <3>1, <3>3, AnnouncedStays
    <2> QED BY <1>1, <2>1, <2>2, <2>3, <2>4, ExecutionSteps
  <1>2. ASSUME NEW c \in Conns, NEW i \in (DOMAIN Sent(c))', NEW n, NEW k, TellsInsert(Sent(c)'[i], n, k)
        PROVE  Announced(k)'
    <2>1. CASE i \in DOMAIN Sent(c) /\ TellsInsert(Sent(c)[i], n, k)
      <3>1. Announced(k)
        BY <2>1 DEF ToldAnnounced
      <3> QED BY <3>1, AnnouncedStays
    <2>2. ASSUME NEW e \in exs, ~IsTop(e), e.where = WhereId(k)  PROVE Announced(k)'
      <3>1. Announced(k)
        BY <2>2 DEF ToldAnnounced, WhereId
      <3> QED BY <3>1, AnnouncedStays
    <2> QED BY <1>2, <2>1, <2>2, InsertTold
  <1>3. ASSUME NEW l \in (listeners \cup loop.left)', l.ex.run # 0, l.list.on # "rec"
        PROVE  \E k \in Keys : l.list = WhereId(k) /\ Announced(k)'
    <2>1. CASE l \in listeners \cup loop.left
      <3>1. PICK k \in Keys : l.list = WhereId(k) /\ Announced(k)
        BY <1>3, <2>1 DEF ToldAnnounced
      <3> QED BY <3>1, AnnouncedStays
    <2>2. ASSUME NEW e \in exs, l.ex = e.id, l.list = e.where
          PROVE  \E k \in Keys : l.list = WhereId(k) /\ Announced(k)'
      <3>1. ~IsTop(e)
        BY <1>3, <2>2 DEF IsTop
      <3>2. e.where.is \in Keys /\ e.where = WhereId(e.where.is) /\ Announced(e.where.is)
        BY <3>1, RequeryWhere DEF ToldAnnounced
      <3>3. Announced(e.where.is)'
        BY <3>2, AnnouncedStays
      <3> QED BY <2>2, <3>2, <3>3
    <2>3. \A k : RecordList(k).on = "rec"
      BY DEF RecordList
    <2> QED BY <1>3, <2>1, <2>2, <2>3, ListenerSteps
  <1>4. \A f \in exs' : ~IsTop(f) => Announced(f.where.is)'
    BY <1>1
  <1>5. \A c \in Conns : \A i \in (DOMAIN Sent(c))' : \A n, k :
            TellsInsert(Sent(c)'[i], n, k) => Announced(k)'
    BY <1>2
  <1>6. \A l \in (listeners \cup loop.left)' : l.ex.run # 0 /\ l.list.on # "rec" =>
            \E k \in Keys : l.list = WhereId(k) /\ Announced(k)'
    BY <1>3
  <1> QED BY <1>4, <1>5, <1>6 DEF ToldAnnounced, IsTop, TellsInsert

\* Nobody is told of an insert before it is announced.
LEMMA UntoldBefore ==
    ASSUME TalkInv, ToldAnnounced, NEW k, ~Announced(k), NEW c \in Conns, NEW n
    PROVE  Untold(c, n, k)
  BY DEF ToldAnnounced, Untold, WhereId

\* A channel untold of a record stays so until a requery of the record starts.
LEMMA UntoldStays ==
    ASSUME TalkInv, RequeriesRead, [Next]_vars, NEW c \in Conns, NEW n, NEW k, Untold(c, n, k),
           \A l \in loop.left : (SendEvent(l) /\ loop.old = NoValue) =>
              ~(loop.new.id = k /\ OfChannel(l.ex, c, n))
    PROVE  Untold(c, n, k)'
  <1>1. ASSUME NEW f \in exs', ~IsTop(f), OfChannel(f.id, c, n)  PROVE f.where # WhereId(k)
    <2>1. CASE f \in exs
      BY <1>1, <2>1 DEF Untold
    <2>2. ASSUME NEW e \in exs, Continues(e, f)  PROVE f.where # WhereId(k)
      BY <1>1, <2>2 DEF Untold, Continues, IsTop
    <2>3. ASSUME NEW d \in Conns, NEW s \in Statements, f = TopExecution(d, Current(d) + 1, s)
          PROVE  FALSE
      BY <1>1, <2>3 DEF IsTop, TopExecution
    <2>4. ASSUME NEW l \in loop.left, SendEvent(l), loop.old = NoValue, f = Requery(l.ex, loop.new)
          PROVE  f.where # WhereId(k)
      <3>1. f.where = WhereId(loop.new.id) /\ f.id.conn = l.ex.conn /\ f.id.chan = l.ex.chan
        BY <2>4, RequeryIs
      <3> QED BY <1>1, <2>4, <3>1 DEF OfChannel, WhereId
    <2> QED BY <1>1, <2>1, <2>2, <2>3, <2>4, ExecutionSteps
  <1>2. ASSUME NEW i \in (DOMAIN Sent(c))', TellsInsert(Sent(c)'[i], n, k)  PROVE FALSE
    <2>1. ASSUME NEW e \in exs, ~IsTop(e), e.where = WhereId(k), e.id.conn = c, e.id.chan = n
          PROVE  FALSE
      BY <2>1 DEF Untold, OfChannel
    <2>2. CASE i \in DOMAIN Sent(c) /\ TellsInsert(Sent(c)[i], n, k)
      BY <2>2 DEF Untold
    <2> QED BY <1>2, <2>1, <2>2, InsertTold
  <1>3. \A f \in exs' : ~IsTop(f) /\ OfChannel(f.id, c, n) => f.where # WhereId(k)
    BY <1>1
  <1>4. \A i \in (DOMAIN Sent(c))' : ~TellsInsert(Sent(c)'[i], n, k)
    BY <1>2
  <1> QED BY <1>3, <1>4 DEF Untold, IsTop, OfChannel, TellsInsert, WhereId

\* The loop begins to send an event, sends it on, or does neither.
LEMMA SendingSteps ==
    ASSUME TalkInv, [Next]_vars, loop'.st = "send"
    PROVE  \/ /\ loop' = loop /\ \A l \in loop.left : ~SendEvent(l)
           \/ /\ HandleTableEvent /\ loop'.old = loop.old /\ loop'.new = loop.new
              /\ loop'.left = Targets(loop.old, loop.new) /\ loop.st = "event"
              /\ exs' = exs /\ \A l \in loop.left : ~SendEvent(l)
           \/ \E l \in loop.left :
                 /\ SendEvent(l) /\ loop.st = "send" /\ loop'.left = loop.left \ {l}
                 /\ loop'.old = loop.old /\ loop'.new = loop.new
                 /\ \A x \in loop.left : SendEvent(x) => x = l
  <1>1. ASSUME NEW c \in Conns, PushInsert(c) \/ UpdateRecord(c)  PROVE FALSE
    BY <1>1 DEF PushInsert, UpdateRecord, HandToLoop, TableEvent, Waiting
  <1>2. ASSUME NEW e \in exs, SubscribeToTable(e) \/ SubscribeToRecord(e)  PROVE FALSE
    BY <1>2 DEF SubscribeToTable, SubscribeToRecord, HandToLoop, Subscription, Waiting
  <1>3. Waiting.st # "send"
    BY DEF Waiting
  <1>4. HandleSubscription => FALSE
    BY <1>3 DEF HandleSubscription
  <1>5. ASSUME HandleTableEvent
        PROVE  /\ loop'.old = loop.old /\ loop'.new = loop.new /\ exs' = exs
               /\ loop'.left = Targets(loop.old, loop.new) /\ loop.st = "event"
               /\ \A l \in loop.left : ~SendEvent(l)
    <2> DEFINE to == Targets(loop.old, loop.new)
    <2>1. /\ loop.st = "event" /\ exs' = exs
          /\ loop' = IF to = {} THEN Waiting ELSE [loop EXCEPT !.st = "send", !.left = to]
      BY <1>5 DEF HandleTableEvent
    <2> HIDE DEF to
    <2>2. loop'.old = loop.old /\ loop'.new = loop.new /\ loop'.left = to
      BY <1>3, <2>1, ViewTypes DEF Loops
    <2> QED BY <2>1, <2>2 DEF SendEvent, to
  <1>6. ASSUME NEW l \in loop.left, SendEvent(l)
        PROVE  /\ loop.st = "send" /\ loop'.left = loop.left \ {l}
               /\ loop'.old = loop.old /\ loop'.new = loop.new
    BY <1>3, <1>6, SendEventSteps
  <1>7. ASSUME NEW l \in loop.left, SendEvent(l), NEW x \in loop.left, SendEvent(x)
        PROVE  x = l
    BY <1>6, <1>7
  <1>8. ASSUME loop' = loop  PROVE \A l \in loop.left : ~SendEvent(l)
    BY <1>6, <1>8
  <1> QED BY <1>1, <1>2, <1>4, <1>5, <1>6, <1>7, <1>8, WhoChanges

LEMMA NextSendingOnce ==
    ASSUME TalkInv, RequeriesRead, ToldAnnounced, TopListeners, SendingOnce, [Next]_vars
    PROVE  SendingOnce'
  <1> SUFFICES ASSUME loop'.st = "send", loop'.old = NoValue, NEW l \in loop'.left,
                      NEW k, k = loop'.new.id
               PROVE  l.ex.run = 0 /\ Untold(l.ex.conn, l.ex.chan, k)'
    BY DEF SendingOnce, Untold
  <1>1. CASE loop' = loop /\ \A x \in loop.left : ~SendEvent(x)
    <2>1. l.ex.conn \in Conns /\ l.ex.run = 0 /\ Untold(l.ex.conn, l.ex.chan, k)
      BY <1>1, ViewTypes DEF SendingOnce
    <2> QED BY <1>1, <2>1, UntoldStays
  <1>2. CASE /\ HandleTableEvent /\ loop'.old = loop.old /\ loop'.new = loop.new
             /\ loop'.left = Targets(loop.old, loop.new) /\ loop.st = "event"
             /\ \A x \in loop.left : ~SendEvent(x)
    <2>0. k = loop.new.id
      BY <1>2
    <2>1. ~Announced(k)
      BY <1>2, <2>0 DEF Announced, Inserting
    <2>2. l \in listeners /\ l.list \in {AllRows, WhereId(k), WhereVal(loop.new.val)}
      BY <1>2, <2>0 DEF Targets
    <2>3. l.ex.conn \in Conns
      BY <2>2, ViewTypes
    <2>4. l.ex.run = 0
      <3>1. l.list.on # "rec" /\ \A j \in Keys : l.list = WhereId(j) => j = k
        BY <2>2 DEF AllRows, WhereId, WhereVal
      <3> QED BY <2>1, <2>2, <3>1 DEF ToldAnnounced
    <2>5. Untold(l.ex.conn, l.ex.chan, k)
      BY <2>1, <2>3, UntoldBefore
    <2>6. Untold(l.ex.conn, l.ex.chan, k)'
      BY <1>2, <2>3, <2>5, UntoldStays
    <2> QED BY <2>4, <2>6
  <1>3. ASSUME NEW x \in loop.left, SendEvent(x), loop.st = "send", loop'.left = loop.left \ {x},
               loop'.old = loop.old, loop'.new = loop.new,
               \A y \in loop.left : SendEvent(y) => y = x
        PROVE  l.ex.run = 0 /\ Untold(l.ex.conn, l.ex.chan, k)'
    <2>1. l \in loop.left /\ l # x /\ loop.old = NoValue /\ k = loop.new.id
      BY <1>3
    <2>2. l.ex.conn \in Conns /\ l.ex.run = 0 /\ Untold(l.ex.conn, l.ex.chan, k)
          /\ x.ex.run = 0
      BY <1>3, <2>1, ViewTypes DEF SendingOnce
    <2>3. ~OfChannel(x.ex, l.ex.conn, l.ex.chan)
      <3> SUFFICES ASSUME OfChannel(x.ex, l.ex.conn, l.ex.chan)  PROVE l = x
        BY <2>1
      <3>1. l \in Listeners /\ x \in Listeners
        BY <2>1, ViewTypes
      <3>2. l.ex = x.ex
        BY <2>2, <3>1 DEF OfChannel, Listeners, ExIds
      <3>3. l.list.on # "rec" /\ x.list.on # "rec"
        BY <1>3, <2>1 DEF TalkInv, Inv, TargetsOK
      <3>4. l.list = x.list
        BY <2>1, <2>2, <3>2, <3>3 DEF TopListeners
      <3> QED BY <3>1, <3>2, <3>4 DEF Listeners
    <2>4. Untold(l.ex.conn, l.ex.chan, k)'
      BY <1>3, <2>1, <2>2, <2>3, UntoldStays
    <2> QED BY <2>2, <2>4
  <1> QED BY <1>1, <1>2, <1>3, SendingSteps
\* A message is on the wire of a requery, or no requery writes one.
LEMMA InsertsTold ==
    ASSUME TalkInv, RequeriesRead, [Next]_vars
    PROVE  \/ \E g \in exs : /\ WriteTableUpdate(g) /\ exs' = exs \ {g} /\ ~IsTop(g)
                             /\ \A c \in Conns : \A i \in (DOMAIN Sent(c))' : \A n, k :
                                   TellsInsert(Sent(c)'[i], n, k) =>
                                      \/ i \in DOMAIN Sent(c) /\ TellsInsert(Sent(c)[i], n, k)
                                      \/ g.id.conn = c /\ g.id.chan = n /\ g.where = WhereId(k)
           \/ \A c \in Conns : \A i \in (DOMAIN Sent(c))' : \A n, k :
                 TellsInsert(Sent(c)'[i], n, k) =>
                    i \in DOMAIN Sent(c) /\ TellsInsert(Sent(c)[i], n, k)
  <1>1. ASSUME NEW g \in exs, WriteTableUpdate(g), NEW f \in exs, WriteTableUpdate(f)  PROVE f = g
    BY <1>1 DEF WriteTableUpdate
  <1>2. ASSUME NEW g \in exs, WriteTableUpdate(g)  PROVE exs' = exs \ {g} /\ ~IsTop(g)
    BY <1>2 DEF WriteTableUpdate
  <1>3. CASE \E g \in exs : WriteTableUpdate(g)
    BY <1>1, <1>2, <1>3, InsertTold
  <1>4. CASE ~ \E g \in exs : WriteTableUpdate(g)
    BY <1>4, InsertTold
  <1> QED BY <1>3, <1>4

LEMMA NextOneRequery ==
    ASSUME TalkInv, RequeriesRead, SendingOnce, OneRequery, [Next]_vars
    PROVE  OneRequery'
  <1> DEFINE Alone(f) == \A g \in exs' : ~IsTop(g) /\ OfChannel(g.id, f.id.conn, f.id.chan)
                                           /\ g.where = f.where => g = f
             Unsaid(f) == \A i \in (DOMAIN Sent(f.id.conn))' :
                             ~TellsInsert(Sent(f.id.conn)'[i], f.id.chan, f.where.is)
  <1>1. \A e \in exs : ~IsTop(e) =>
            /\ \A f \in exs : ~IsTop(f) /\ OfChannel(f.id, e.id.conn, e.id.chan) /\ f.where = e.where => f = e
            /\ \A i \in DOMAIN Sent(e.id.conn) : ~TellsInsert(Sent(e.id.conn)[i], e.id.chan, e.where.is)
    BY DEF OneRequery
  <1>2. ASSUME NEW g \in exs, exs' = exs \ {g}, ~IsTop(g),
               \A c \in Conns : \A i \in (DOMAIN Sent(c))' : \A n, k :
                  TellsInsert(Sent(c)'[i], n, k) =>
                     \/ i \in DOMAIN Sent(c) /\ TellsInsert(Sent(c)[i], n, k)
                     \/ g.id.conn = c /\ g.id.chan = n /\ g.where = WhereId(k),
               NEW f \in exs', ~IsTop(f)
        PROVE  Alone(f) /\ Unsaid(f)
    <2>1. f \in exs /\ f # g /\ f.id.conn \in Conns /\ f.where = WhereId(f.where.is)
      BY <1>2, RequeryWhere, ViewTypes
    <2>2. Alone(f)
      BY <1>1, <1>2, <2>1
    <2>3. ~(g.id.conn = f.id.conn /\ g.id.chan = f.id.chan /\ g.where = WhereId(f.where.is))
      BY <1>1, <1>2, <2>1 DEF OfChannel
    <2>4. Unsaid(f)
      BY <1>1, <1>2, <2>1, <2>3
    <2> QED BY <2>2, <2>4
  <1>3. ASSUME \A c \in Conns : \A i \in (DOMAIN Sent(c))' : \A n, k :
                  TellsInsert(Sent(c)'[i], n, k) =>
                     i \in DOMAIN Sent(c) /\ TellsInsert(Sent(c)[i], n, k),
               NEW f \in exs', ~IsTop(f)
        PROVE  Alone(f) /\ Unsaid(f)
    <2>1. CASE exs' \subseteq exs
      <3>1. f.id.conn \in Conns /\ f \in exs
        BY <1>3, <2>1, ViewTypes
      <3> QED BY <1>1, <1>3, <2>1, <3>1
    <2>2. ASSUME NEW e \in exs, NEW h, Continues(e, h), exs' = (exs \ {e}) \cup {h}
          PROVE  Alone(f) /\ Unsaid(f)
      <3>1. h.id = e.id /\ h.where = e.where /\ e.id.conn \in Conns
        BY <2>2, ViewTypes DEF Continues
      <3>2. CASE f = h
        BY <1>1, <1>3, <2>2, <3>1, <3>2 DEF IsTop
      <3>3. CASE f # h
        <4>1. f \in exs /\ f # e /\ f.id.conn \in Conns
          BY <2>2, <3>3, ViewTypes
        <4>2. ~(~IsTop(h) /\ OfChannel(h.id, f.id.conn, f.id.chan) /\ h.where = f.where)
          BY <1>1, <1>3, <3>1, <4>1 DEF IsTop
        <4> QED BY <1>1, <1>3, <2>2, <4>1, <4>2
      <3> QED BY <3>2, <3>3
    <2>3. ASSUME NEW q, IsTop(q), exs' = exs \cup {q}  PROVE Alone(f) /\ Unsaid(f)
      <3>1. f \in exs /\ f.id.conn \in Conns
        BY <1>3, <2>3, ViewTypes
      <3> QED BY <1>1, <1>3, <2>3, <3>1
    <2>4. ASSUME NEW l \in loop.left, SendEvent(l), loop.old = NoValue,
                 exs' = exs \cup {Requery(l.ex, loop.new)}
          PROVE  Alone(f) /\ Unsaid(f)
      <3> DEFINE q == Requery(l.ex, loop.new)
      <3>1. ~IsTop(q) /\ q.where = WhereId(loop.new.id) /\ q.id.conn = l.ex.conn /\ q.id.chan = l.ex.chan
        BY RequeryIs
      <3>2. Untold(l.ex.conn, l.ex.chan, loop.new.id) /\ l.ex.conn \in Conns
        BY <2>4, ViewTypes DEF SendingOnce, SendEvent
      <3>3. exs' = exs \cup {q}
        BY <2>4
      <3> HIDE DEF q
      <3>4. q.where.is = loop.new.id
        BY <3>1 DEF WhereId
      <3>5. /\ \A e \in exs : ~(~IsTop(e) /\ OfChannel(e.id, q.id.conn, q.id.chan) /\ e.where = q.where)
            /\ \A i \in DOMAIN Sent(q.id.conn) : ~TellsInsert(Sent(q.id.conn)[i], q.id.chan, q.where.is)
        BY <3>1, <3>2, <3>4 DEF Untold
      <3>6. CASE f = q
        BY <1>3, <3>1, <3>2, <3>3, <3>5, <3>6
      <3>7. CASE f # q
        <4>1. f \in exs /\ f.id.conn \in Conns
          BY <3>3, <3>7, ViewTypes
        <4>2. ~(OfChannel(q.id, f.id.conn, f.id.chan) /\ q.where = f.where)
          BY <1>3, <3>5, <4>1 DEF OfChannel
        <4> QED BY <1>1, <1>3, <3>3, <4>1, <4>2
      <3> QED BY <3>6, <3>7
    <2>5. \A c \in Conns, s \in Statements : IsTop(TopExecution(c, Current(c) + 1, s))
      BY DEF IsTop, TopExecution
    <2> HIDE DEF Alone, Unsaid
    <2> QED BY <2>1, <2>2, <2>3, <2>4, <2>5, ExecutionSteps
  <1>4. \A f \in exs' : ~IsTop(f) => Alone(f) /\ Unsaid(f)
    <2> HIDE DEF Alone, Unsaid
    <2> QED BY <1>2, <1>3, InsertsTold
  <1> QED BY <1>4 DEF OneRequery, IsTop, OfChannel, TellsInsert

LEMMA NextInsertToldOnce ==
    ASSUME TalkInv, RequeriesRead, OneRequery, InsertToldOnce, [Next]_vars
    PROVE  InsertToldOnce'
  <1> SUFFICES ASSUME NEW c \in Conns, NEW i \in (DOMAIN Sent(c))', NEW j \in (DOMAIN Sent(c))',
                      NEW n, NEW k,
                      TellsInsert(Sent(c)'[i], n, k), TellsInsert(Sent(c)'[j], n, k)
               PROVE  i = j
    BY DEF InsertToldOnce, TellsInsert
  <1>1. \A h \in (DOMAIN Sent(c))' : TellsInsert(Sent(c)'[h], n, k) =>
           \/ h \in DOMAIN Sent(c) /\ TellsInsert(Sent(c)[h], n, k)
           \/ /\ h = Len(Sent(c)) + 1
              /\ \E e \in exs : ~IsTop(e) /\ e.id.conn = c /\ e.id.chan = n /\ e.where = WhereId(k)
    BY InsertTold
  <1>2. ASSUME NEW g \in DOMAIN Sent(c), NEW h \in DOMAIN Sent(c),
               TellsInsert(Sent(c)[g], n, k), TellsInsert(Sent(c)[h], n, k)
        PROVE  g = h
    BY <1>2 DEF InsertToldOnce, TellsInsert
  <1>3. ASSUME NEW e \in exs, ~IsTop(e), e.id.conn = c, e.id.chan = n, e.where = WhereId(k)
        PROVE  \A h \in DOMAIN Sent(c) : ~TellsInsert(Sent(c)[h], n, k)
    <2>1. e.where.is = k
      BY <1>3 DEF WhereId
    <2> QED BY <1>3, <2>1 DEF OneRequery
  <1> QED BY <1>1, <1>2, <1>3

LEMMA NextOnce ==
    ASSUME TalkInv, Once, InsertToldOnce, [Next]_vars
    PROVE  Once' /\ InsertToldOnce'
  BY NextRequeriesRead, NextOneAnnouncer, NextToldAnnounced, NextTopListeners,
     NextSendingOnce, NextOneRequery, NextInsertToldOnce DEF Once
-----------------------------------------------------------------------------
(* The updates a live query gets of a record follow each other.            *)

LEMMA NextLoopSends ==
    ASSUME TalkInv, LoopSends, [Next]_vars
    PROVE  LoopSends'
  <1> SUFFICES ASSUME loop'.st = "send"
               PROVE  loop'.left \subseteq Targets(loop.old, loop.new)'
    BY DEF LoopSends
  <1>1. ASSUME listeners' = listeners, loop'.old = loop.old, loop'.new = loop.new
        PROVE  Targets(loop.old, loop.new)' = Targets(loop.old, loop.new)
    BY <1>1 DEF Targets
  <1>2. CASE loop' = loop /\ \A l \in loop.left : ~SendEvent(l)
    <2>1. ASSUME NEW c \in Conns, RemoveConn(c)  PROVE FALSE
      BY <1>2, <2>1 DEF RemoveConn
    <2>2. HandleSubscription => FALSE
      BY <1>2 DEF HandleSubscription
    <2>3. listeners' = listeners
      BY <2>1, <2>2, WhoChanges
    <2> QED BY <1>1, <1>2, <2>3 DEF LoopSends
  <1>3. CASE /\ HandleTableEvent /\ loop'.old = loop.old /\ loop'.new = loop.new
             /\ loop'.left = Targets(loop.old, loop.new)
    <2>1. listeners' = listeners
      BY <1>3 DEF HandleTableEvent
    <2> QED BY <1>1, <1>3, <2>1
  <1>4. ASSUME NEW l \in loop.left, SendEvent(l), loop.st = "send", loop'.left = loop.left \ {l},
               loop'.old = loop.old, loop'.new = loop.new
        PROVE  loop'.left \subseteq Targets(loop.old, loop.new)'
    <2>1. listeners' = listeners
      BY <1>4 DEF SendEvent
    <2> QED BY <1>1, <1>4, <2>1 DEF LoopSends
  <1> QED BY <1>2, <1>3, <1>4, SendingSteps

\* The latest value of a record changes when it is inserted, and when an UPDATE
\* puts a new one and pushes its event.
LEMMA LatestSteps ==
    ASSUME TalkInv, [Next]_vars, NEW k \in Keys
    PROVE  \/ Latest(k)' = Latest(k)
           \/ db[k] = NoValue /\ Latest(k) = NoValue /\ wtx.owner = NoConn /\ loop' = loop
           \/ /\ loop.st = "select" /\ loop'.st = "event" /\ loop'.old = Latest(k)
              /\ loop'.new = Record(k, Latest(k)') /\ Latest(k)' \in Values
              /\ Latest(k) # NoValue /\ db' = db
              /\ \E c \in Conns : UpdateRecord(c)
  <1> DEFINE Put == /\ loop.st = "select" /\ loop'.st = "event" /\ loop'.old = Latest(k)
                    /\ loop'.new = Record(k, Latest(k)') /\ Latest(k)' \in Values
                    /\ Latest(k) # NoValue /\ db' = db
  <1>1. ASSUME NEW c \in Conns, InsertRecord(c)
        PROVE  Latest(k)' = Latest(k) \/ (/\ db[k] = NoValue /\ Latest(k) = NoValue
                                          /\ wtx.owner = NoConn /\ loop' = loop)
    BY <1>1, ViewTypes DEF InsertRecord, Latest, Tables
  <1>2. ASSUME NEW c \in Conns, BeginUpdate(c)  PROVE Latest(k)' = Latest(k)
    BY <1>2, ConnsAssumption DEF BeginUpdate, Latest
  <1>3. ASSUME NEW c \in Conns, CommitUpdate(c)  PROVE Latest(k)' = Latest(k)
    BY <1>3, ConnsAssumption DEF CommitUpdate, Latest, NoTx, TalkInv, Inv, WriteTxOK
  <1>4. ASSUME NEW c \in Conns, UpdateRecord(c)  PROVE Latest(k)' = Latest(k) \/ Put
    <2> DEFINE j == Least(wtx.todo)
               v == Statement(c).set
    <2>0. wtx.todo \subseteq Keys /\ wtx.todo # {} /\ Keys \subseteq Nat /\ wtx \in WriteTxs
      BY <1>4, ViewTypes, KeysAssumption DEF UpdateRecord, WriteTxs
    <2>1. j \in wtx.todo /\ j \in Keys
      BY <2>0, LeastIsLeast
    <2>2. wtx.owner # NoConn /\ pc[c] = "rows"
      BY <1>4, ConnsAssumption DEF UpdateRecord, TalkInv, Inv, WriteTxOK
    <2>3. wtx.rows[j] # NoValue
      BY <2>1, <2>2 DEF TalkInv, Inv, WriteTxOK
    <2>4. v \in Values
      BY <2>2, StatementType DEF TalkInv
    <2>5. /\ loop.st = "select" /\ loop' = TableEvent(wtx.rows[j], Record(j, v)) /\ db' = db
          /\ wtx' = [wtx EXCEPT !.rows[j] = v, !.todo = @ \ {j}]
      BY <1>4 DEF UpdateRecord, HandToLoop
    <2> HIDE DEF j, v
    <2>6. /\ wtx'.owner = wtx.owner /\ wtx'.rows[j] = v
          /\ k # j => wtx'.rows[k] = wtx.rows[k]
      BY <2>0, <2>1, <2>5 DEF WriteTxs, Tables
    <2>7. loop'.st = "event" /\ loop'.old = wtx.rows[j] /\ loop'.new = Record(j, v)
      BY <2>5 DEF TableEvent, Waiting
    <2> QED BY <2>2, <2>3, <2>4, <2>5, <2>6, <2>7 DEF Latest
  <1>5. CASE UNCHANGED <<db, wtx>>
    BY <1>5 DEF Latest
  <1> HIDE DEF Put
  <1>6. \/ Latest(k)' = Latest(k)
        \/ /\ db[k] = NoValue /\ Latest(k) = NoValue /\ wtx.owner = NoConn /\ loop' = loop
        \/ Put /\ \E c \in Conns : UpdateRecord(c)
    BY <1>1, <1>2, <1>3, <1>4, <1>5, WhoChanges
  <1> QED BY <1>6 DEF Put

\* The update the loop has in hand comes from an UPDATE's row, and goes when all
\* the listeners of the record have been sent it.
LEMMA DueSteps ==
    ASSUME TalkInv, [Next]_vars, NEW k \in Keys
    PROVE  \/ ~Due(k) /\ ~Due(k)'
           \/ Due(k) /\ Due(k)' /\ loop' = loop /\ \A l \in loop.left : ~SendEvent(l)
           \/ /\ Due(k) /\ Due(k)' /\ loop'.old = loop.old /\ loop'.new = loop.new
              /\ HandleTableEvent /\ loop.st = "event" /\ loop'.st = "send"
              /\ loop'.left = Targets(loop.old, loop.new) /\ listeners' = listeners
           \/ /\ Due(k) /\ Due(k)' /\ loop'.old = loop.old /\ loop'.new = loop.new
              /\ loop.st = "send" /\ loop'.st = "send"
              /\ \E l \in loop.left : SendEvent(l) /\ loop'.left = loop.left \ {l}
           \/ /\ ~Due(k) /\ Due(k)' /\ loop'.st = "event" /\ loop'.old = Latest(k)
              /\ loop'.new = Record(k, Latest(k)') /\ Latest(k)' \in Values
           \/ /\ Due(k) /\ ~Due(k)' /\ loop.st = "event" /\ HandleTableEvent
              /\ Targets(loop.old, loop.new) = {}
           \/ /\ Due(k) /\ ~Due(k)' /\ loop.st = "send"
              /\ \E l \in loop.left : SendEvent(l) /\ loop.left = {l}
  <1> DEFINE Stays == ~Due(k) /\ ~Due(k)'
             Same == Due(k) /\ Due(k)' /\ loop' = loop /\ \A l \in loop.left : ~SendEvent(l)
             Begins == /\ Due(k) /\ Due(k)' /\ loop'.old = loop.old /\ loop'.new = loop.new
                       /\ HandleTableEvent /\ loop.st = "event" /\ loop'.st = "send"
                       /\ loop'.left = Targets(loop.old, loop.new) /\ listeners' = listeners
             Goes == /\ Due(k) /\ Due(k)' /\ loop'.old = loop.old /\ loop'.new = loop.new
                     /\ loop.st = "send" /\ loop'.st = "send"
                     /\ \E l \in loop.left : SendEvent(l) /\ loop'.left = loop.left \ {l}
             Comes == /\ ~Due(k) /\ Due(k)' /\ loop'.st = "event" /\ loop'.old = Latest(k)
                      /\ loop'.new = Record(k, Latest(k)') /\ Latest(k)' \in Values
             Dropped == /\ Due(k) /\ ~Due(k)' /\ loop.st = "event" /\ HandleTableEvent
                        /\ Targets(loop.old, loop.new) = {}
             Ends == /\ Due(k) /\ ~Due(k)' /\ loop.st = "send"
                     /\ \E l \in loop.left : SendEvent(l) /\ loop.left = {l}
             Any == Stays \/ Same \/ Begins \/ Goes \/ Comes \/ Dropped \/ Ends
  <1>0. Waiting.st = "select"
    BY DEF Waiting
  <1>1. ASSUME NEW c \in Conns, PushInsert(c)  PROVE Stays
    <2>1. loop.st = "select" /\ loop'.old = NoValue
      BY <1>1 DEF PushInsert, HandToLoop, TableEvent, Waiting
    <2> QED BY <2>1 DEF Due
  <1>2. ASSUME NEW e \in exs, SubscribeToTable(e) \/ SubscribeToRecord(e)  PROVE Stays
    <2>1. loop.st = "select" /\ loop'.st = "subscribe"
      BY <1>2 DEF SubscribeToTable, SubscribeToRecord, HandToLoop, Subscription, Waiting
    <2> QED BY <2>1 DEF Due
  <1>3. ASSUME HandleSubscription  PROVE Stays
    BY <1>0, <1>3 DEF HandleSubscription, Due
  <1>4. ASSUME NEW c \in Conns, UpdateRecord(c)  PROVE Stays \/ Comes
    <2> DEFINE j == Least(wtx.todo)
               v == Statement(c).set
    <2>0. wtx.todo \subseteq Keys /\ wtx.todo # {} /\ Keys \subseteq Nat /\ wtx \in WriteTxs
      BY <1>4, ViewTypes, KeysAssumption DEF UpdateRecord, WriteTxs
    <2>1. j \in Keys
      BY <2>0, LeastIsLeast
    <2>2. wtx.owner # NoConn /\ pc[c] = "rows"
      BY <1>4, ConnsAssumption DEF UpdateRecord, TalkInv, Inv, WriteTxOK
    <2>4. v \in Values
      BY <2>2, StatementType DEF TalkInv
    <2>5. /\ loop.st = "select" /\ loop' = TableEvent(wtx.rows[j], Record(j, v))
          /\ wtx' = [wtx EXCEPT !.rows[j] = v, !.todo = @ \ {j}]
      BY <1>4 DEF UpdateRecord, HandToLoop
    <2> HIDE DEF j, v
    <2>6. wtx'.owner = wtx.owner /\ wtx'.rows[j] = v
      BY <2>0, <2>1, <2>5 DEF WriteTxs, Tables
    <2>7. /\ loop'.st = "event" /\ loop'.old = wtx.rows[j] /\ loop'.new = Record(j, v)
          /\ loop'.new.id = j
      BY <2>5 DEF TableEvent, Waiting, Record
    <2> QED BY <2>2, <2>4, <2>5, <2>6, <2>7 DEF Latest, Due
  <1>5. ASSUME HandleTableEvent  PROVE Stays \/ Begins \/ Dropped
    <2> DEFINE to == Targets(loop.old, loop.new)
    <2>1. /\ loop.st = "event" /\ listeners' = listeners
          /\ loop' = IF to = {} THEN Waiting ELSE [loop EXCEPT !.st = "send", !.left = to]
      BY <1>5 DEF HandleTableEvent
    <2> HIDE DEF to
    <2>2. CASE to = {}
      BY <1>0, <1>5, <2>1, <2>2 DEF Due, to
    <2>3. CASE to # {}
      <3>1. loop'.st = "send" /\ loop'.left = to /\ loop'.old = loop.old /\ loop'.new = loop.new
        BY <2>1, <2>3, ViewTypes DEF Loops
      <3> QED BY <1>5, <2>1, <3>1 DEF Due, to
    <2> QED BY <2>2, <2>3
  <1>6. ASSUME NEW l \in loop.left, SendEvent(l)  PROVE Stays \/ Goes \/ Ends
    <2>1. /\ loop.st = "send"
          /\ \/ loop.left = {l} /\ loop' = Waiting
             \/ /\ loop'.st = "send" /\ loop'.old = loop.old /\ loop'.new = loop.new
                /\ loop'.left = loop.left \ {l} /\ loop.left # {l}
      BY <1>6, SendEventSteps
    <2> QED BY <1>0, <1>6, <2>1 DEF Due
  <1>7. ASSUME loop' = loop  PROVE Stays \/ Same
    <2>1. ASSUME NEW l \in loop.left, SendEvent(l)  PROVE FALSE
      BY <1>0, <1>7, <2>1, SendEventSteps
    <2> QED BY <1>7, <2>1 DEF Due
  <1>8. Any
    <2> HIDE DEF Stays, Same, Begins, Goes, Comes, Dropped, Ends
    <2> QED BY <1>1, <1>2, <1>3, <1>4, <1>5, <1>6, <1>7, WhoChanges
  <1> QED BY <1>8

LEMMA NextEventLatest ==
    ASSUME TalkInv, EventLatest, [Next]_vars
    PROVE  EventLatest'
  <1> SUFFICES ASSUME NEW k \in Keys, Due(k)'
               PROVE  loop'.new = Record(k, Latest(k)') /\ loop'.new.val \in Values
    BY DEF EventLatest, Record
  <1>1. CASE Due(k) /\ loop'.new = loop.new
    <2>1. loop.new = Record(k, Latest(k)) /\ loop.new.val \in Values /\ loop.st # "select"
      BY <1>1 DEF EventLatest, Due
    <2>2. Latest(k) # NoValue
      BY <2>1, ValuesAssumption DEF Record
    <2>3. Latest(k)' = Latest(k)
      BY <2>1, <2>2, LatestSteps
    <2> QED BY <1>1, <2>1, <2>3
  <1>2. CASE loop'.new = Record(k, Latest(k)') /\ Latest(k)' \in Values
    BY <1>2 DEF Record
  <1> QED BY <1>1, <1>2, DueSteps

\* What a query reads is stored, or the empty record of no key.
LEMMA ReadsStored ==
    ASSUME NEW tab \in Tables, NEW w \in Filters, NEW r \in ReadRows(tab, w), r.id \in Keys
    PROVE  tab[r.id] # NoValue
  <1>1. \A q \in Stored(tab) : tab[q.id] # NoValue
    BY DEF Stored, Present, Record
  <1>2. CASE w.on = "id"
    <2>1. w.is \in Keys /\ r = Seek(tab, w.is)
      BY <1>2 DEF ReadRows, Filters, AllRows, WhereId, WhereVal
    <2> DEFINE later == {j \in Present(tab) : w.is <= j}
    <2>2. later \subseteq Nat /\ later \subseteq Present(tab)
      BY KeysAssumption DEF Present
    <2>3. r = IF later = {} THEN EmptyRecord ELSE Record(Least(later), tab[Least(later)])
      BY <2>1 DEF Seek
    <2> HIDE DEF later
    <2>4. later # {} => Least(later) \in later
      BY <2>2, LeastIsLeast
    <2>5. EmptyRecord.id \notin Keys
      BY KeysAssumption DEF EmptyRecord, Record
    <2> QED BY <2>2, <2>3, <2>4, <2>5 DEF Record, Present
  <1>3. CASE w.on # "id"
    BY <1>1, <1>3 DEF ReadRows
  <1> QED BY <1>2, <1>3

LEMMA NextReadCommitted ==
    ASSUME TalkInv, ReadCommitted, [Next]_vars
    PROVE  ReadCommitted'
  <1>0. \A k \in Keys : db[k] # NoValue => db'[k] # NoValue
    BY StaysStored
  <1>1. ASSUME NEW e \in exs', NEW r \in e.todo \cup e.rows, r.id \in Keys
        PROVE  db'[r.id] # NoValue
    <2>1. CASE e \in exs
      BY <1>0, <1>1, <2>1 DEF ReadCommitted
    <2>2. ASSUME NEW f \in exs, Continues(f, e)  PROVE db'[r.id] # NoValue
      <3>1. f.where \in Filters /\ db \in Tables
        BY ViewTypes
      <3>2. r \in f.todo \cup f.rows \/ r \in ReadRows(db, f.where)
        BY <1>1, <2>2 DEF Continues
      <3> QED BY <1>0, <1>1, <3>1, <3>2, ReadsStored DEF ReadCommitted
    <2>3. ASSUME NEW c \in Conns, NEW s \in Statements, s.type = "select",
                 e = TopExecution(c, Current(c) + 1, s)
          PROVE  db'[r.id] # NoValue
      <3>1. s.where \in Filters /\ db \in Tables
        BY <2>3, ViewTypes DEF Statements
      <3>2. r \in ReadRows(db, s.where)
        BY <1>1, <2>3 DEF TopExecution
      <3> QED BY <1>0, <1>1, <3>1, <3>2, ReadsStored
    <2>4. ASSUME NEW l \in loop.left, e = Requery(l.ex, loop.new)  PROVE FALSE
      BY <1>1, <2>4, RequeryIs
    <2> QED BY <2>1, <2>2, <2>3, <2>4, ExecutionSteps
  <1>2. ASSUME NEW k \in Keys, NEW l \in (listeners \cup loop.left)', l.list = RecordList(k)
        PROVE  db'[k] # NoValue
    <2>1. CASE l \in listeners \cup loop.left
      BY <1>0, <1>2, <2>1 DEF ReadCommitted
    <2>2. ASSUME NEW e \in exs  PROVE e.where # RecordList(k)
      <3>1. e.where \in Filters
        BY ViewTypes
      <3>2. e.where.on # "rec"
        BY <3>1 DEF Filters, AllRows, WhereId, WhereVal
      <3> QED BY <3>2 DEF RecordList
    <2>3. ASSUME NEW e \in exs, NEW r \in e.todo, l.list = RecordList(r.id)  PROVE db'[k] # NoValue
      <3>1. r.id = k
        BY <1>2, <2>3 DEF RecordList
      <3> QED BY <1>0, <3>1 DEF ReadCommitted
    <2> QED BY <1>2, <2>1, <2>2, <2>3, ListenerSteps
  <1>3. \A e \in exs' : \A r \in e.todo \cup e.rows : r.id \in Keys => db'[r.id] # NoValue
    BY <1>1
  <1>4. \A k \in Keys : \A l \in (listeners \cup loop.left)' : l.list = RecordList(k) => db'[k] # NoValue
    BY <1>2
  <1> QED BY <1>3, <1>4 DEF ReadCommitted, RecordList
\* The loop writes connection c its i-th message, of an update of record k.
TellsNow(c, i, n, k) ==
    /\ i = Len(Sent(c)) + 1 /\ Len(Sent(c))' = Len(Sent(c)) + 1 /\ open[c]
    /\ \A h \in 1..Len(Sent(c)) : Sent(c)'[h] = Sent(c)[h]
    /\ \E l \in loop.left :
          /\ SendEvent(l) /\ loop.old # NoValue /\ loop.new.id = k
          /\ l.ex.conn = c /\ l.ex.chan = n
          /\ Sent(c)'[i] = Message("record", n, {loop.new}, loop.old)

\* A message of an update is there already, or the loop writes it now.
LEMMA UpdateTold ==
    ASSUME TalkInv, [Next]_vars, NEW c \in Conns, NEW i \in (DOMAIN Sent(c))',
           NEW n, NEW k, TellsUpdate(Sent(c)'[i], n, k)
    PROVE  (i \in DOMAIN Sent(c) /\ Sent(c)'[i] = Sent(c)[i]) \/ TellsNow(c, i, n, k)
  <1>0. /\ Len(Sent(c)) \in Nat /\ DOMAIN Sent(c) = 1..Len(Sent(c))
        /\ Len(Sent(c))' \in Nat /\ i \in 1..Len(Sent(c))'
    BY IndexSteps
  <1>1. i \in DOMAIN Sent(c) => Sent(c)'[i] = Sent(c)[i]
    BY <1>0, IndexSteps
  <1>2. CASE i \notin DOMAIN Sent(c)
    <2> DEFINE m == Sent(c)'[i]
               Cause(q) == \/ q.type \in ReplyTypes
                           \/ \E e \in exs : q = Message("table", e.id.chan, e.todo \cup e.rows, NoValue)
                           \/ \E l \in loop.left :
                                 /\ SendEvent(l) /\ loop.old # NoValue /\ c = l.ex.conn
                                 /\ q = Message("record", l.ex.chan, {loop.new}, loop.old)
               Rest == open[c] /\ \A h \in 1..Len(Sent(c)) : Sent(c)'[h] = Sent(c)[h]
    <2>0. \/ Len(Sent(c))' <= Len(Sent(c))
          \/ Len(Sent(c))' = Len(Sent(c)) + 1 /\ Rest /\ Cause(Sent(c)'[Len(Sent(c)) + 1])
      <3>1. \/ Len(Sent(c))' = Len(Sent(c)) \/ Len(Sent(c))' < Len(Sent(c))
            \/ Len(Sent(c))' = Len(Sent(c)) + 1 /\ Rest /\ Cause(Sent(c)'[Len(Sent(c)) + 1])
        BY IndexSteps
      <3> HIDE DEF Cause, Rest
      <3> QED BY <1>0, <3>1
    <2>1. i = Len(Sent(c)) + 1 /\ Len(Sent(c))' = Len(Sent(c)) + 1 /\ Rest /\ Cause(m)
      <3> HIDE DEF Cause, Rest
      <3>1. i = Len(Sent(c)) + 1 /\ Len(Sent(c))' = Len(Sent(c)) + 1
        BY <1>0, <1>2, <2>0
      <3> QED BY <1>0, <2>0, <3>1
    <2>2. m.type = "record" /\ m.chan = n /\ \E r \in m.rows : r.id = k
      BY DEF TellsUpdate
    <2> HIDE DEF m, Rest
    <2>3. PICK l \in loop.left : /\ SendEvent(l) /\ loop.old # NoValue /\ c = l.ex.conn
                                 /\ m = Message("record", l.ex.chan, {loop.new}, loop.old)
      BY <2>1, <2>2 DEF Message, ReplyTypes
    <2>4. l.ex.chan = n /\ loop.new.id = k
      BY <2>2, <2>3 DEF Message
    <2>5. m = Message("record", n, {loop.new}, loop.old)
      BY <2>3, <2>4
    <2> QED BY <2>1, <2>3, <2>4, <2>5 DEF m, Rest, TellsNow
  <1> QED BY <1>1, <1>2

\* What the loop sends a connection of an update is its last message.
LEMMA UpdateSent ==
    ASSUME TalkInv, NEW l \in loop.left, SendEvent(l), loop.old # NoValue,
           NEW c \in Conns, l.ex.conn = c, open[c], NEW n, l.ex.chan = n, NEW k, loop.new.id = k
    PROVE  /\ Len(Sent(c)) \in Nat /\ Len(Sent(c))' = Len(Sent(c)) + 1
           /\ TellsUpdate(Sent(c)'[Len(Sent(c)) + 1], n, k)
  <1> DEFINE m == Message("record", n, {loop.new}, loop.old)
             s == Sent(c)
             t == Sent(c)'
  <1>1. m \in Messages /\ t = Append(s, m)
    BY SendEventSteps DEF Told
  <1>2. s \in Seq(Messages)
    BY SentType DEF TalkInv, Inv
  <1>3. TellsUpdate(m, n, k)
    BY DEF TellsUpdate, Message
  <1>4. Len(s) \in Nat /\ Len(t) = Len(s) + 1 /\ t[Len(s) + 1] = m
    <2> HIDE DEF m, s, t
    <2> QED BY <1>1, <1>2, OneMore
  <1> QED BY <1>3, <1>4

\* The last update a channel was told of was the last before, or is told now.
LEMMA LastToldBefore ==
    ASSUME TalkInv, [Next]_vars, NEW c \in Conns, NEW n, NEW k, NEW i,
           open'[c], LastTold(c, n, k, i)', i \in DOMAIN Sent(c)
    PROVE  /\ LastTold(c, n, k, i) /\ Sent(c)'[i] = Sent(c)[i]
           /\ \A l \in loop.left : ~(/\ SendEvent(l) /\ loop.old # NoValue /\ loop.new.id = k
                                     /\ l.ex.conn = c /\ l.ex.chan = n)
  <1> DEFINE a == Len(Sent(c))
             b == Len(Sent(c))'
  <1>1. /\ a \in Nat /\ b \in Nat /\ a <= b /\ DOMAIN Sent(c) = 1..a
        /\ \A j \in 1..a : Sent(c)'[j] = Sent(c)[j]
    BY IndexSteps
  <1>2. /\ TellsUpdate(Sent(c)'[i], n, k)
        /\ \A h \in i+1..b : ~TellsUpdate(Sent(c)'[h], n, k)
    BY DEF LastTold, TellsUpdate
  <1>3. \A l \in loop.left : ~(/\ SendEvent(l) /\ loop.old # NoValue /\ loop.new.id = k
                               /\ l.ex.conn = c /\ l.ex.chan = n)
    <2> SUFFICES ASSUME NEW l \in loop.left, SendEvent(l), loop.old # NoValue, loop.new.id = k,
                        l.ex.conn = c, l.ex.chan = n
                 PROVE  FALSE
      OBVIOUS
    <2>1. open[c]
      BY SendEventSteps
    <2>2. b = a + 1 /\ TellsUpdate(Sent(c)'[a + 1], n, k)
      BY <2>1, UpdateSent
    <2> HIDE DEF a, b
    <2>3. a + 1 \in i+1..b
      BY <1>1, <2>2
    <2> QED BY <1>2, <2>2, <2>3
  <1> HIDE DEF a, b
  <1>4. \A h \in i+1..a : ~TellsUpdate(Sent(c)[h], n, k)
    <2> SUFFICES ASSUME NEW h \in i+1..a  PROVE ~TellsUpdate(Sent(c)[h], n, k)
      OBVIOUS
    <2>1. h \in i+1..b /\ h \in 1..a
      BY <1>1
    <2> QED BY <1>1, <1>2, <2>1
  <1>5. Sent(c)'[i] = Sent(c)[i] /\ TellsUpdate(Sent(c)[i], n, k)
    BY <1>1, <1>2
  <1> QED BY <1>3, <1>4, <1>5 DEF LastTold, a

\* A listener stays while its connection's socket is open.
LEMMA StaysSubscribed ==
    ASSUME TalkInv, [Next]_vars, NEW c \in Conns, open'[c], NEW n, NEW list, Subscribed(c, n, list)
    PROVE  Subscribed(c, n, list)'
  <1>1. PICK l \in listeners : l.list = list /\ OfChannel(l.ex, c, n)
    BY DEF Subscribed
  <1>2. open[c]
    BY NextTalks, OpenBefore
  <1>3. l \in listeners'
    <2>1. ASSUME NEW d \in Conns, RemoveConn(d)  PROVE l \in listeners'
      BY <1>1, <1>2, <2>1 DEF RemoveConn, RemoveListenersForConn, OfChannel
    <2>2. HandleSubscription => l \in listeners'
      BY <1>1 DEF HandleSubscription, AddListener
    <2> QED BY <2>1, <2>2, WhoChanges
  <1> QED BY <1>1, <1>3 DEF Subscribed, OfChannel

\* A record somebody listens to is stored, so no INSERT changes it.
LEMMA LatestKept ==
    ASSUME TalkInv, ReadCommitted, [Next]_vars, NEW k \in Keys,
           NEW l \in listeners, l.list = RecordList(k), ~(loop.st = "select" /\ Due(k)')
    PROVE  Latest(k)' = Latest(k)
  <1>1. db[k] # NoValue
    BY DEF ReadCommitted
  <1>2. loop'.new = Record(k, Latest(k)') => loop'.new.id = k
    BY DEF Record
  <1>3. Latest(k) # NoValue /\ loop.st = "select" /\ loop'.st = "event" /\ loop'.old = Latest(k)
        /\ loop'.new = Record(k, Latest(k)') => Due(k)'
    BY <1>2 DEF Due
  <1> QED BY <1>1, <1>3, LatestSteps
LEMMA NextLastUpdate ==
    ASSUME TalkInv, LoopSends, EventLatest, ReadCommitted, LastUpdate, [Next]_vars
    PROVE  LastUpdate'
  <1> SUFFICES ASSUME NEW c \in Conns, NEW n \in ChannelIds, NEW k \in Keys, NEW i \in Nat,
                      open'[c], LastTold(c, n, k, i)', NEW m, m = Sent(c)'[i]
               PROVE  Subscribed(c, n, RecordList(k))' /\ UpToDate(c, n, k, m)'
    BY DEF LastUpdate, UpToDate
  <1>1. i \in (DOMAIN Sent(c))' /\ TellsUpdate(Sent(c)'[i], n, k)
    BY DEF LastTold, TellsUpdate
  <1>2. CASE i \in DOMAIN Sent(c)
    <2>1. /\ open[c] /\ LastTold(c, n, k, i) /\ Sent(c)[i] = m
          /\ \A l \in loop.left : ~(/\ SendEvent(l) /\ loop.old # NoValue /\ loop.new.id = k
                                    /\ l.ex.conn = c /\ l.ex.chan = n)
      BY <1>2, LastToldBefore, NextTalks, OpenBefore
    <2>2. Subscribed(c, n, RecordList(k)) /\ UpToDate(c, n, k, m)
      BY <2>1 DEF LastUpdate
    <2>3. Subscribed(c, n, RecordList(k))'
      BY <2>2, StaysSubscribed
    <2>4. PICK l \in listeners : l.list = RecordList(k) /\ OfChannel(l.ex, c, n)
      BY <2>2 DEF Subscribed
    <2>5. Due(k) => l \in Targets(loop.old, loop.new)
      BY <2>4 DEF Targets, Due
    <2>6. Due(k) => /\ loop.new = Record(k, Latest(k)) /\ loop.st # "select"
                    /\ \A x \in loop.left : SendEvent(x) => ~OfChannel(x.ex, c, n)
      BY <2>1 DEF EventLatest, Due, OfChannel
    <2>7. (Due(k) \/ ~Due(k)') => Latest(k)' = Latest(k)
      BY <2>4, <2>6, LatestKept
    <2>8. ASSUME ~Due(k) /\ ~Due(k)'
          PROVE  UpToDate(c, n, k, m)'
      BY <2>2, <2>7, <2>8 DEF UpToDate
    <2>9. ASSUME Due(k) /\ Due(k)' /\ loop' = loop
          PROVE  UpToDate(c, n, k, m)'
      BY <2>2, <2>9 DEF UpToDate
    <2>10. ASSUME /\ Due(k) /\ Due(k)' /\ loop'.old = loop.old /\ loop'.new = loop.new
                  /\ loop.st = "event" /\ loop'.st = "send" /\ loop'.left = Targets(loop.old, loop.new)
          PROVE  UpToDate(c, n, k, m)'
      <3>1. m.rows = {Record(k, loop'.old)}
        BY <2>2, <2>10 DEF UpToDate
      <3> QED BY <2>4, <2>5, <2>10, <3>1 DEF UpToDate
    <2>11. ASSUME /\ Due(k) /\ Due(k)' /\ loop'.old = loop.old /\ loop'.new = loop.new
                  /\ loop.st = "send" /\ loop'.st = "send"
                  /\ \E x \in loop.left : SendEvent(x) /\ loop'.left = loop.left \ {x}
          PROVE  UpToDate(c, n, k, m)'
      <3>1. \/ m = Message("record", n, {loop.new}, loop.old)
            \/ m.rows = {Record(k, loop.old)} /\ \E x \in loop.left : OfChannel(x.ex, c, n)
        BY <2>2, <2>11 DEF UpToDate
      <3>2. (\E x \in loop.left : OfChannel(x.ex, c, n)) => \E x \in loop'.left : OfChannel(x.ex, c, n)
        BY <2>6, <2>11
      <3> QED BY <2>11, <3>1, <3>2 DEF UpToDate
    <2>12. ASSUME /\ ~Due(k) /\ Due(k)' /\ loop'.st = "event" /\ loop'.old = Latest(k)
          PROVE  UpToDate(c, n, k, m)'
      <3>1. m.rows = {Record(k, Latest(k))}
        BY <2>2, <2>12 DEF UpToDate
      <3> QED BY <2>12, <3>1 DEF UpToDate
    <2>13. ASSUME Due(k) /\ Targets(loop.old, loop.new) = {}
          PROVE  UpToDate(c, n, k, m)'
      BY <2>5, <2>13
    <2>14. ASSUME /\ Due(k) /\ ~Due(k)' /\ loop.st = "send"
                  /\ \E x \in loop.left : SendEvent(x) /\ loop.left = {x}
          PROVE  UpToDate(c, n, k, m)'
      <3>1. m = Message("record", n, {loop.new}, loop.old)
        BY <2>2, <2>6, <2>14 DEF UpToDate
      <3>2. m.rows = {loop.new}
        BY <3>1 DEF Message
      <3> QED BY <2>6, <2>7, <2>14, <3>2 DEF UpToDate
    <2>15. UpToDate(c, n, k, m)'
      BY <2>8, <2>9, <2>10, <2>11, <2>12, <2>13, <2>14, DueSteps
    <2> QED BY <2>3, <2>15
  <1>3. CASE i \notin DOMAIN Sent(c)
    <2>1. PICK l \in loop.left :
             /\ SendEvent(l) /\ loop.old # NoValue /\ loop.new.id = k
             /\ l.ex.conn = c /\ l.ex.chan = n
             /\ m = Message("record", n, {loop.new}, loop.old)
      <3>1. TellsNow(c, i, n, k)
        BY <1>1, <1>3, UpdateTold
      <3> QED BY <3>1 DEF TellsNow
    <2>2. /\ loop.st = "send"
          /\ \/ loop' = Waiting
             \/ loop'.st = "send" /\ loop'.old = loop.old /\ loop'.new = loop.new
      BY <2>1, SendEventSteps
    <2>3. Due(k) /\ loop.new = Record(k, Latest(k))
      BY <2>1, <2>2 DEF Due, EventLatest
    <2>4. l \in listeners /\ l.list = RecordList(k) /\ OfChannel(l.ex, c, n)
      BY <2>1, <2>2 DEF LoopSends, Targets, OfChannel
    <2>5. Subscribed(c, n, RecordList(k))'
      <3>1. Subscribed(c, n, RecordList(k))
        BY <2>4 DEF Subscribed
      <3> QED BY <3>1, StaysSubscribed
    <2>6. Latest(k)' = Latest(k)
      BY <2>2, <2>4, LatestKept
    <2>7. m.rows = {loop.new}
      BY <2>1 DEF Message
    <2>8. CASE loop' = Waiting
      <3>1. ~Due(k)'
        BY <2>8 DEF Due, Waiting
      <3> QED BY <2>3, <2>5, <2>6, <2>7, <3>1 DEF UpToDate
    <2>9. CASE loop'.st = "send" /\ loop'.old = loop.old /\ loop'.new = loop.new
      <3>1. Due(k)'
        BY <2>3, <2>9 DEF Due
      <3> QED BY <2>1, <2>5, <2>9, <3>1 DEF UpToDate
    <2> QED BY <2>2, <2>8, <2>9
  <1> QED BY <1>2, <1>3

LEMMA NextRecordUpdatesChain ==
    ASSUME TalkInv, LastUpdate, RecordUpdatesChain, [Next]_vars
    PROVE  RecordUpdatesChain'
  <1> SUFFICES ASSUME NEW c \in Conns, NEW n \in ChannelIds, NEW k \in Keys,
                      NEW i \in (DOMAIN Sent(c))', NEW j \in (DOMAIN Sent(c))', i < j,
                      TellsUpdate(Sent(c)'[i], n, k), TellsUpdate(Sent(c)'[j], n, k),
                      \A h \in i+1..j-1 : ~TellsUpdate(Sent(c)'[h], n, k)
               PROVE  \/ Sent(c)'[j] = Sent(c)'[i]
                      \/ Sent(c)'[i].rows = {Record(k, Sent(c)'[j].old)}
    BY DEF RecordUpdatesChain, TellsUpdate
  <1>0. /\ Len(Sent(c)) \in Nat /\ DOMAIN Sent(c) = 1..Len(Sent(c))
        /\ Len(Sent(c))' \in Nat /\ i \in 1..Len(Sent(c))' /\ j \in 1..Len(Sent(c))'
    BY IndexSteps
  <1>1. CASE j \in DOMAIN Sent(c)
    <2>1. \A h \in 1..j : Sent(c)'[h] = Sent(c)[h]
      <3>1. \/ /\ Len(Sent(c))' <= Len(Sent(c))
               /\ \A h \in 1..Len(Sent(c))' : Sent(c)'[h] = Sent(c)[h]
            \/ /\ Len(Sent(c))' = Len(Sent(c)) + 1
               /\ \A h \in 1..Len(Sent(c)) : Sent(c)'[h] = Sent(c)[h]
        BY <1>0, IndexSteps
      <3> QED BY <1>0, <1>1, <3>1
    <2>2. /\ Sent(c)'[i] = Sent(c)[i] /\ Sent(c)'[j] = Sent(c)[j] /\ i \in DOMAIN Sent(c)
          /\ \A h \in i+1..j-1 : Sent(c)'[h] = Sent(c)[h]
      BY <1>0, <1>1, <2>1
    <2>3. \A h \in i+1..j-1 : ~TellsUpdate(Sent(c)[h], n, k)
      BY <2>2
    <2> QED BY <1>1, <2>2, <2>3 DEF RecordUpdatesChain
  <1>2. CASE j \notin DOMAIN Sent(c)
    <2>1. /\ j = Len(Sent(c)) + 1 /\ open[c]
          /\ \A h \in 1..Len(Sent(c)) : Sent(c)'[h] = Sent(c)[h]
          /\ \E l \in loop.left :
                /\ SendEvent(l) /\ loop.old # NoValue /\ loop.new.id = k
                /\ Sent(c)'[j] = Message("record", n, {loop.new}, loop.old)
      <3>1. TellsNow(c, j, n, k)
        BY <1>2, UpdateTold
      <3> QED BY <3>1 DEF TellsNow
    <2>2. Due(k) /\ loop.st = "send"
      BY <2>1 DEF Due, SendEvent
    <2>3. i \in DOMAIN Sent(c) /\ Sent(c)'[i] = Sent(c)[i] /\ i \in Nat
      BY <1>0, <2>1
    <2>4. \A h \in i+1..Len(Sent(c)) : ~TellsUpdate(Sent(c)[h], n, k)
      <3> SUFFICES ASSUME NEW h \in i+1..Len(Sent(c))  PROVE ~TellsUpdate(Sent(c)[h], n, k)
        OBVIOUS
      <3>1. h \in i+1..j-1 /\ h \in 1..Len(Sent(c))
        BY <1>0, <2>1
      <3> QED BY <2>1, <3>1
    <2>5. LastTold(c, n, k, i)
      BY <2>3, <2>4 DEF LastTold
    <2>6. UpToDate(c, n, k, Sent(c)[i])
      BY <2>1, <2>3, <2>5 DEF LastUpdate
    <2>7. Sent(c)'[j].old = loop.old
      BY <2>1 DEF Message
    <2> QED BY <2>1, <2>2, <2>3, <2>6, <2>7 DEF UpToDate
  <1> QED BY <1>1, <1>2

LEMMA InitViews == Init => ViewInv
  <1> SUFFICES ASSUME Init  PROVE ViewInv
    OBVIOUS
  <1>1. TalkInv
    BY InitTalks
  <1>2. /\ exs = {} /\ listeners = {} /\ loop = Waiting
        /\ \A c \in Conns : wire[c] = << >> /\ writer[c] = << >> /\ pc[c] = "idle"
    BY DEF Init
  <1>3. loop.st = "select" /\ loop.left = {}
    BY <1>2 DEF Waiting
  <1>4. \A c \in Conns : Sent(c) = << >> /\ DOMAIN Sent(c) = {}
    <2> SUFFICES ASSUME NEW c \in Conns  PROVE Sent(c) = << >>
      OBVIOUS
    <2>1. << >> \in Seq(Messages) /\ << >> \o << >> = << >>
      BY ConcatEmptySeq
    <2>2. wire[c] \o writer[c] = << >> \o << >> /\ wire[c] = << >>
      BY <1>2
    <2> QED BY <2>1, <2>2 DEF Sent
  <1>5. Once
    BY <1>2, <1>3, <1>4 DEF Once, RequeriesRead, OneAnnouncer, ToldAnnounced, TopListeners,
                            SendingOnce, OneRequery
  <1>6. InsertToldOnce /\ RecordUpdatesChain
    BY <1>4 DEF InsertToldOnce, RecordUpdatesChain
  <1>7. LastUpdate
    BY <1>4 DEF LastUpdate, LastTold
  <1>8. LoopSends /\ EventLatest /\ ReadCommitted
    BY <1>2, <1>3 DEF LoopSends, EventLatest, Due, ReadCommitted
  <1> QED BY <1>1, <1>5, <1>6, <1>7, <1>8 DEF ViewInv

LEMMA NextViews == ViewInv /\ [Next]_vars => ViewInv'
  <1> SUFFICES ASSUME ViewInv, [Next]_vars  PROVE ViewInv'
    OBVIOUS
  <1>1. TalkInv'
    BY NextTalks DEF ViewInv
  <1>2. Once' /\ InsertToldOnce'
    BY NextOnce DEF ViewInv
  <1>3. LoopSends' /\ EventLatest' /\ ReadCommitted'
    BY NextLoopSends, NextEventLatest, NextReadCommitted DEF ViewInv
  <1>4. LastUpdate' /\ RecordUpdatesChain'
    BY NextLastUpdate, NextRecordUpdatesChain DEF ViewInv
  <1> QED BY <1>1, <1>2, <1>3, <1>4 DEF ViewInv

\* The invariant of what the clients of a table are told.
LEMMA ViewsInvariant == Spec => []ViewInv
  BY InitViews, NextViews, PTL DEF Spec

\* A live query is told of an insert once: of the handlers' events, the loop's
\* sends and the requeries (ExecuteInsert, HandleEvents, ListenerList.SendEvent),
\* only one ever concerns a given channel and record, although each requery
\* subscribes the channel again to the record's own key.
THEOREM InsertsToldOnce == Spec => []InsertToldOnce
  <1>1. ViewInv => InsertToldOnce
    BY DEF ViewInv
  <1> QED BY <1>1, ViewsInvariant, PTL

\* The updates a live query gets of one record form a chain from value to value,
\* with repetitions and without gaps: ExecuteUpdate pushes each row's event while
\* it holds bolt's writer lock, and the loop sends one event at a time.
THEOREM UpdatesChain == Spec => []RecordUpdatesChain
  <1>1. ViewInv => RecordUpdatesChain
    BY DEF ViewInv
  <1> QED BY <1>1, ViewsInvariant, PTL
-----------------------------------------------------------------------------
(* What a client shows, message by message.                                *)

\* The tree of channel n after message i, if f has the trees after those before.
Shown(f, msgs, n, i) ==
    IF i = 0 THEN {} ELSE IF msgs[i].chan = n THEN Reduce(f[i-1], msgs[i]) ELSE f[i-1]

\* f has the trees after the first b messages.
Shows(f, msgs, n, b) == f = [i \in 0..b |-> Shown(f, msgs, n, i)]

\* A non-empty set of numbers has a least one.
LEMMA HasLeast ==
    ASSUME NEW T, T \subseteq Nat, T # {}
    PROVE  \E x \in T : \A y \in T : x <= y
  BY LeastIsLeast

\* There are such trees, for any number of messages.
LEMMA ShowsExists == \A msgs, n : \A b \in Nat : \E f : Shows(f, msgs, n, b)
  <1> SUFFICES ASSUME NEW msgs, NEW n, {b \in Nat : ~ \E f : Shows(f, msgs, n, b)} # {}
               PROVE  FALSE
    OBVIOUS
  <1> DEFINE T == {b \in Nat : ~ \E f : Shows(f, msgs, n, b)}
  <1>1. PICK b \in T : \A y \in T : b <= y
    BY HasLeast
  <1>2. \E f : Shows(f, msgs, n, b)
    <2>1. CASE b = 0
      <3> DEFINE f == [i \in 0..0 |-> {}]
      <3>1. \A i \in 0..0 : Shown(f, msgs, n, i) = {}
        BY DEF Shown
      <3>2. f = [i \in 0..0 |-> Shown(f, msgs, n, i)]
        BY <3>1
      <3> QED BY <2>1, <3>2 DEF Shows
    <2>2. CASE b # 0
      <3>0. b \in Nat
        OBVIOUS
      <3>1. b - 1 \in Nat /\ b - 1 \notin T
        BY <1>1, <2>2
      <3>2. PICK g : Shows(g, msgs, n, b - 1)
        BY <3>1
      <3> DEFINE f == [i \in 0..b |-> Shown(g, msgs, n, i)]
      <3>3. \A i \in 0..b - 1 : f[i] = g[i]
        <4>1. g = [i \in 0..b - 1 |-> Shown(g, msgs, n, i)]
          BY <3>2 DEF Shows
        <4>2. \A i \in 0..b - 1 : i \in 0..b
          BY <3>0
        <4> QED BY <4>1, <4>2
      <3> HIDE DEF f
      <3>4. ASSUME NEW i \in 0..b  PROVE Shown(g, msgs, n, i) = Shown(f, msgs, n, i)
        <4>1. i # 0 => i - 1 \in 0..b - 1
          BY <3>0
        <4> QED BY <3>3, <4>1 DEF Shown
      <3>5. f = [i \in 0..b |-> Shown(f, msgs, n, i)]
        BY <3>4 DEF f
      <3> QED BY <3>5 DEF Shows
    <2> QED BY <2>1, <2>2
  <1> QED BY <1>1, <1>2

\* The first a messages of s and of t are the same.
Begin(s, t, a) == \A i \in 1..a : s[i] = t[i]

\* They depend on the messages so far only.
LEMMA ShowsAgree ==
    ASSUME NEW s, NEW t, NEW n, NEW a \in Nat, NEW b \in Nat, a <= b,
           NEW f, NEW g, Shows(f, s, n, a), Shows(g, t, n, b), Begin(s, t, a)
    PROVE  f[a] = g[a]
  <1> DEFINE T == {i \in 0..a : f[i] # g[i]}
  <1> SUFFICES ASSUME T # {}  PROVE FALSE
    OBVIOUS
  <1>1. PICK i \in T : \A j \in T : i <= j
    <2>1. T \subseteq Nat
      OBVIOUS
    <2> QED BY <2>1, HasLeast
  <1>2. f[i] = Shown(f, s, n, i) /\ g[i] = Shown(g, t, n, i)
    <2>1. i \in 0..a /\ i \in 0..b
      OBVIOUS
    <2> QED BY <2>1 DEF Shows
  <1>3. i # 0 => f[i-1] = g[i-1] /\ s[i] = t[i]
    <2>1. i # 0 => i - 1 \in 0..a /\ i \in 1..a /\ ~(i <= i - 1)
      OBVIOUS
    <2> QED BY <1>1, <2>1 DEF Begin
  <1>4. Shown(f, s, n, i) = Shown(g, t, n, i)
    BY <1>3 DEF Shown
  <1> QED BY <1>2, <1>4

\* Trees is what its definition says.
LEMMA TreesAre ==
    ASSUME NEW s, Len(s) \in Nat, NEW n
    PROVE  Shows(Trees(s, n), s, n, Len(s))
  <1> DEFINE f == CHOOSE f : Shows(f, s, n, Len(s))
  <1>1. Shows(f, s, n, Len(s))
    BY ShowsExists
  <1>2. Trees(s, n) = f
    BY DEF Trees, Shows, Shown
  <1> QED BY <1>1, <1>2

\* What a client shows after one more message.
LEMMA ViewAppend ==
    ASSUME NEW s \in Seq(Messages), NEW m \in Messages, NEW n
    PROVE  View(Append(s, m), n) = IF m.chan = n THEN Reduce(View(s, n), m) ELSE View(s, n)
  <1> DEFINE t == Append(s, m)
             a == Len(s)
             f == Trees(s, n)
             g == Trees(t, n)
  <1>1. a \in Nat /\ Len(t) = a + 1 /\ t[a + 1] = m /\ \A i \in 1..a : s[i] = t[i]
    BY OneMore
  <1> HIDE DEF t, a
  <1>2. Shows(f, s, n, a) /\ Shows(g, t, n, a + 1)
    <2>1. Len(s) \in Nat /\ Len(t) \in Nat
      BY <1>1 DEF a
    <2> QED BY <1>1, <2>1, TreesAre DEF a
  <1> HIDE DEF f, g
  <1>3. f[a] = g[a]
    <2>1. a + 1 \in Nat /\ a <= a + 1
      BY <1>1
    <2> DEFINE b == a + 1
    <2>2. b \in Nat /\ a <= b
      BY <2>1
    <2>3. Shows(f, s, n, a) /\ Shows(g, t, n, b)
      BY <1>2
    <2>4. a \in Nat /\ Begin(s, t, a)
      BY <1>1 DEF Begin
    <2> HIDE DEF b
    <2> QED BY <2>2, <2>3, <2>4, ShowsAgree
  <1>4. g[a + 1] = Shown(g, t, n, a + 1)
    <2>1. a + 1 \in 0..a + 1
      BY <1>1
    <2> QED BY <1>2, <2>1 DEF Shows
  <1>5. g[a + 1] = IF m.chan = n THEN Reduce(f[a], m) ELSE f[a]
    <2>1. a + 1 # 0 /\ (a + 1) - 1 = a
      BY <1>1
    <2>2. g[a + 1] = IF t[a + 1].chan = n THEN Reduce(g[a], t[a + 1]) ELSE g[a]
      BY <1>4, <2>1 DEF Shown
    <2> QED BY <1>1, <1>3, <2>2
  <1> QED BY <1>1, <1>5 DEF View, f, g, t, a

\* What tree shows of record k.
Of(tree, k) == {r \in tree : r.id = k}

\* Only what concerns a record changes what a client shows of it.
LEMMA ReduceOthers ==
    ASSUME NEW tree, NEW m, NEW k, m.type # "initial", \A r \in m.rows : r.id # k
    PROVE  Of(Reduce(tree, m), k) = Of(tree, k)
  <1>1. CASE m.type = "table"
    BY <1>1 DEF Of, Reduce
  <1>2. CASE m.type = "record"
    BY <1>2 DEF Of, Reduce
  <1>3. CASE m.type \notin {"table", "record"}
    BY <1>3 DEF Of, Reduce
  <1> QED BY <1>1, <1>2, <1>3

\* An update of a record a client shows replaces it.
LEMMA ReduceUpdate ==
    ASSUME NEW tree, NEW m, NEW k, NEW r, m.type = "record", m.rows = {r}, r.id = k, Of(tree, k) # {}
    PROVE  Of(Reduce(tree, m), k) = {r}
  <1>1. \E q \in tree : q.id = k
    BY DEF Of
  <1>2. Reduce(tree, m) = {q \in tree : \A p \in {r} : p.id # q.id}
                              \cup {p \in {r} : \E q \in tree : q.id = p.id}
    BY DEF Reduce
  <1> QED BY <1>1, <1>2 DEF Of
LEMMA ReduceUnknown ==
    ASSUME NEW tree, NEW m, NEW k, m.type = "record", Of(tree, k) = {}
    PROVE  Of(Reduce(tree, m), k) = {}
  <1>1. \A q \in tree : q.id # k
    BY DEF Of
  <1>2. Reduce(tree, m) = {q \in tree : \A p \in m.rows : p.id # q.id}
                              \cup {p \in m.rows : \E q \in tree : q.id = p.id}
    BY DEF Reduce
  <1> QED BY <1>1, <1>2 DEF Of
-----------------------------------------------------------------------------
(* A client in step stays in step.                                         *)

\* What client c shows of record k on channel n, once it has all it was sent.
ShownOf(c, n, k) == Of(View(Sent(c), n), k)

\* The update the loop has in hand is of record k, and due to channel n.
DueTo(c, n, k) ==
    /\ Due(k)
    /\ \E l \in (IF loop.st = "send" THEN loop.left ELSE Targets(loop.old, loop.new)) :
          OfChannel(l.ex, c, n)

\* The channel shows the latest value, or shows the record and is due its latest.
Latestly(c, n, k) ==
    IF DueTo(c, n, k) THEN ShownOf(c, n, k) # {} ELSE ShownOf(c, n, k) = {Record(k, Latest(k))}

\* That is how InStep says it.
LEMMA ComingMeans ==
    TalkInv /\ EventLatest =>
        \A c \in Conns, n \in ChannelIds, k \in Keys :
            {r \in Coming(c, n) : r.id = k} = {Record(k, Latest(k))} <=> Latestly(c, n, k)
  <1> SUFFICES ASSUME TalkInv, EventLatest, NEW c \in Conns, NEW n \in ChannelIds, NEW k \in Keys
               PROVE  Of(Coming(c, n), k) = {Record(k, Latest(k))} <=> Latestly(c, n, k)
    BY DEF Of
  <1> DEFINE event == Message("record", n, {loop.new}, loop.old)
             due == /\ loop.st \in {"event", "send"} /\ loop.old # NoValue
                    /\ \E l \in (IF loop.st = "send" THEN loop.left ELSE Targets(loop.old, loop.new)) :
                          OfChannel(l.ex, c, n)
             tree == View(Sent(c), n)
  <1>1. Coming(c, n) = View(IF due THEN Append(Sent(c), event) ELSE Sent(c), n)
    BY DEF Coming
  <1>2. DueTo(c, n, k) <=> due /\ loop.new.id = k
    BY DEF DueTo, Due
  <1>3. Sent(c) \in Seq(Messages)
    BY SentType DEF TalkInv, Inv
  <1>4. event \in Messages
    <2>1. loop.new \in Records /\ loop.old \in Values \cup {NoValue} /\ n \in 1..MaxStatements
      BY ViewTypes DEF ChannelIds
    <2> QED BY <2>1 DEF Message, Messages
  <1>5. /\ event.chan = n /\ event.type = "record" /\ event.rows = {loop.new}
    BY DEF Message
  <1>6. Due(k) => loop.new = Record(k, Latest(k))
    BY DEF EventLatest
  <1> HIDE DEF event, due, tree
  <1>7. View(Append(Sent(c), event), n) = Reduce(tree, event)
    BY <1>3, <1>4, <1>5, ViewAppend DEF tree
  <1>8. CASE ~due
    BY <1>1, <1>2, <1>8 DEF Latestly, ShownOf
  <1>9. CASE due /\ loop.new.id # k
    <2>1. Of(Reduce(tree, event), k) = Of(tree, k)
      BY <1>5, <1>9, ReduceOthers
    <2> QED BY <1>1, <1>2, <1>7, <1>9, <2>1 DEF Latestly, ShownOf, tree
  <1>10. CASE due /\ loop.new.id = k
    <2>1. Due(k) /\ Coming(c, n) = Reduce(tree, event) /\ DueTo(c, n, k)
      BY <1>1, <1>2, <1>7, <1>10 DEF DueTo
    <2>2. CASE Of(tree, k) # {}
      <3>1. Of(Reduce(tree, event), k) = {loop.new}
        BY <1>5, <1>10, <2>2, ReduceUpdate
      <3> QED BY <1>6, <2>1, <2>2, <3>1 DEF Latestly, ShownOf, tree
    <2>3. CASE Of(tree, k) = {}
      <3>1. Of(Reduce(tree, event), k) = {}
        BY <1>5, <2>3, ReduceUnknown
      <3> QED BY <2>1, <2>3, <3>1 DEF Latestly, ShownOf, tree
    <2> QED BY <2>2, <2>3
  <1> QED BY <1>8, <1>9, <1>10

\* A channel that has its initial result is not that of a statement in progress.
LEMMA InitialAnswered ==
    ASSUME TalkInv, RepliesInOrder, NEW c \in Conns, open[c], NEW n, HasInitial(Sent(c), n)
    PROVE  n \in Nat /\ n <= Current(c) /\ (Busy(c) => n # Current(c))
  <1>1. PICK i \in DOMAIN Sent(c) : Sent(c)[i].chan = n /\ Sent(c)[i].type = "initial"
    BY DEF HasInitial, Holds
  <1>2. OrderedOf(c)
    BY OrderedMeans DEF RepliesInOrder
  <1>3. i \in DOMAIN Heard(Sent(c)) /\ Heard(Sent(c))[i].chan = n /\ Heard(Sent(c))[i].type \in ReplyTypes
    BY <1>1 DEF Heard, Utterance, ReplyTypes
  <1>4. n \in 1..AnsweredOf(c)
    BY <1>2, <1>3 DEF OrderedOf, Ordered
  <1>5. Len(Said(asked[c])) = Current(c) /\ Current(c) \in Nat
    BY SaidAll, ViewTypes DEF Current
  <1> QED BY <1>4, <1>5 DEF AnsweredOf

\* What is left to send of what was read is of other records.
LEMMA StaysUnread ==
    ASSUME TalkInv, RepliesInOrder, ReadCommitted, RequeriesRead, [Next]_vars,
           NEW c \in Conns, NEW n \in ChannelIds, NEW k \in Keys, InStep(c, n, k), NEW f \in exs',
           OfChannel(f.id, c, n)
    PROVE  ~(f.where = WhereId(k) \/ \E r \in f.todo \cup f.rows : r.id = k)
  <1>0. /\ open[c] /\ HasInitial(Sent(c), n)
        /\ \A e \in exs : OfChannel(e.id, c, n) =>
              ~(e.where = WhereId(k) \/ \E r \in e.todo \cup e.rows : r.id = k)
        /\ ~Inserting(k)
    BY DEF InStep, Inserting
  <1>1. n <= Current(c) /\ Current(c) \in Nat /\ (Busy(c) => n # Current(c))
    BY <1>0, InitialAnswered, ViewTypes DEF Current
  <1>2. CASE f \in exs
    BY <1>0, <1>2
  <1>3. ASSUME NEW e \in exs, Continues(e, f)
        PROVE  ~(f.where = WhereId(k) \/ \E r \in f.todo \cup f.rows : r.id = k)
    <2>1. f.where = e.where /\ OfChannel(e.id, c, n)
      BY <1>3 DEF Continues, OfChannel
    <2>2. ~IsTop(e)
      BY <1>1, <2>1 DEF TalkInv, TopOK, OfChannel, Busy
    <2>3. e.where.is \in Keys /\ e.where = WhereId(e.where.is) /\ e.where # WhereId(k)
      BY <1>0, <2>1, <2>2, RequeryWhere
    <2>4. \A r \in ReadRows(db, e.where) : r.id = e.where.is
      <3>1. db[e.where.is] # NoValue
        <4>1. PICK j \in Keys : e.where = WhereId(j) /\ db[j] # NoValue
          BY <2>2 DEF TalkInv, Inv, RequeryOK
        <4> QED BY <4>1 DEF WhereId
      <3>2. ReadRows(db, WhereId(e.where.is)) = {Seek(db, e.where.is)}
        BY DEF ReadRows, WhereId
      <3> QED BY <2>3, <3>1, <3>2, SeekFinds, ViewTypes
    <2>5. e.where.is # k
      BY <2>3
    <2> QED BY <1>0, <1>3, <2>1, <2>3, <2>4, <2>5 DEF Continues
  <1>4. ASSUME NEW d \in Conns, NEW s \in Statements, f = TopExecution(d, Current(d) + 1, s)
        PROVE  FALSE
    <2>1. d = c /\ n = Current(c) + 1
      BY <1>4 DEF TopExecution, OfChannel
    <2> QED BY <1>1, <2>1
  <1>5. ASSUME NEW l \in loop.left, SendEvent(l), loop.old = NoValue, f = Requery(l.ex, loop.new)
        PROVE  ~(f.where = WhereId(k) \/ \E r \in f.todo \cup f.rows : r.id = k)
    <2>1. f.where = WhereId(loop.new.id) /\ f.todo = {} /\ f.rows = {}
      BY <1>5, RequeryIs
    <2>2. loop.new.id # k
      BY <1>0, <1>5 DEF Inserting, SendEvent
    <2> QED BY <2>1, <2>2 DEF WhereId
  <1> QED BY <1>2, <1>3, <1>4, <1>5, ExecutionSteps

\* No insert of a record that is stored is announced again.
LEMMA StaysAnnounced ==
    ASSUME TalkInv, [Next]_vars, NEW k, db[k] # NoValue, ~Inserting(k),
           \A d \in Conns : pc[d] = "push" => Statement(d).id # k
    PROVE  ~Inserting(k)' /\ \A d \in Conns : pc'[d] = "push" => Statement(d)'.id # k
  <1> DEFINE After == ~Inserting(k)' /\ \A d \in Conns : pc'[d] = "push" => Statement(d)'.id # k
  <1>2. ASSUME NEW c \in Conns, Statement(c).id \in Keys, db[Statement(c).id] = NoValue,
               pc' = [pc EXCEPT ![c] = "push"], loop' = loop, asked' = asked
        PROVE  After
    <2>1. \A d \in Conns : Statement(d)' = Statement(d) /\ (d # c => pc'[d] = pc[d])
      BY <1>2, ViewTypes DEF Statement, Current
    <2>2. Statement(c).id # k
      BY <1>2
    <2> QED BY <1>2, <2>1, <2>2 DEF Inserting
  <1>3. ASSUME NEW c \in Conns, pc[c] = "push", pc' = [pc EXCEPT ![c] = "ack"], asked' = asked,
               loop' = TableEvent(NoValue, Record(Statement(c).id, Statement(c).val))
        PROVE  After
    <2>1. \A d \in Conns : Statement(d)' = Statement(d) /\ (d # c => pc'[d] = pc[d]) /\ pc'[c] # "push"
      BY <1>3, ViewTypes DEF Statement, Current
    <2>2. loop'.new.id = Statement(c).id
      BY <1>3 DEF TableEvent, Waiting, Record
    <2> QED BY <1>3, <2>1, <2>2 DEF Inserting
  <1>4. ASSUME \A d \in Conns : pc'[d] = "push" => pc[d] = "push" /\ Statement(d)' = Statement(d),
               \A j : Inserting(j)' => Inserting(j)
        PROVE  After
    BY <1>4
  <1>5. After
    <2> HIDE DEF After
    <2> QED BY <1>2, <1>3, <1>4, PushSteps
  <1> QED BY <1>5

\* An initial result stays in the past.
LEMMA StaysInitial ==
    ASSUME TalkInv, [Next]_vars, NEW c \in Conns, open'[c], NEW n, HasInitial(Sent(c), n)
    PROVE  HasInitial(Sent(c), n)'
  <1>1. PICK i \in DOMAIN Sent(c) : Sent(c)[i].chan = n /\ Sent(c)[i].type = "initial"
    BY DEF HasInitial, Holds
  <1> DEFINE a == Len(Sent(c))
             b == Len(Sent(c))'
  <1>2. /\ a \in Nat /\ b \in Nat /\ a <= b /\ DOMAIN Sent(c) = 1..a /\ (DOMAIN Sent(c))' = 1..b
        /\ \A j \in 1..a : Sent(c)'[j] = Sent(c)[j]
    BY IndexSteps
  <1> HIDE DEF a, b
  <1>3. i \in (DOMAIN Sent(c))' /\ Sent(c)'[i] = Sent(c)[i]
    BY <1>1, <1>2
  <1> QED BY <1>1, <1>3 DEF HasInitial, Holds
\* A step changes what the client shows of a record in step by sending it the
\* latest update, or not at all.
LEMMA ShownSteps ==
    ASSUME TalkInv, RepliesInOrder, EventLatest, ReadCommitted, [Next]_vars,
           NEW c \in Conns, NEW n \in ChannelIds, NEW k \in Keys, open'[c],
           InStep(c, n, k), Latestly(c, n, k)
    PROVE  \/ /\ ShownOf(c, n, k)' = ShownOf(c, n, k)
              /\ \A l \in loop.left : ~(SendEvent(l) /\ Due(k) /\ OfChannel(l.ex, c, n))
           \/ ShownOf(c, n, k)' = {Record(k, Latest(k)')}
  <1>0. /\ open[c] /\ HasInitial(Sent(c), n) /\ Subscribed(c, n, RecordList(k))
        /\ \A e \in exs : OfChannel(e.id, c, n) =>
              ~(e.where = WhereId(k) \/ \E r \in e.todo \cup e.rows : r.id = k)
    BY DEF InStep
  <1> DEFINE s == Sent(c)
             t == Sent(c)'
             tree == View(s, n)
  <1>1. s \in Seq(Messages)
    BY SentType DEF TalkInv, Inv
  <1>2. ShownOf(c, n, k) = Of(tree, k) /\ ShownOf(c, n, k)' = Of(View(t, n), k)
    BY DEF ShownOf
  <1>3. ASSUME NEW m \in Messages, t = Append(s, m)
        PROVE  View(t, n) = IF m.chan = n THEN Reduce(tree, m) ELSE tree
    <2> HIDE DEF s, t
    <2> QED BY <1>1, <1>3, ViewAppend
  <1>4. ASSUME NEW l \in loop.left, SendEvent(l), Due(k), OfChannel(l.ex, c, n)
        PROVE  ShownOf(c, n, k)' = {Record(k, Latest(k)')}
    <2> DEFINE m == Message("record", n, {loop.new}, loop.old)
    <2>1. loop.old # NoValue /\ loop.new.id = k /\ loop.new = Record(k, Latest(k))
      BY <1>4 DEF Due, EventLatest
    <2>2. m \in Messages /\ t = Append(s, m) /\ loop.st = "send"
      BY <1>0, <1>4, <2>1, SendEventSteps DEF Told, OfChannel
    <2>3. m.chan = n /\ m.type = "record" /\ m.rows = {loop.new}
      BY DEF Message
    <2>4. Of(tree, k) # {}
      <3>1. DueTo(c, n, k)
        BY <1>4, <2>2 DEF DueTo
      <3> QED BY <1>2, <3>1 DEF Latestly
    <2> HIDE DEF m, s, t, tree
    <2>5. Of(Reduce(tree, m), k) = {loop.new}
      BY <2>1, <2>3, <2>4, ReduceUpdate
    <2>6. View(t, n) = Reduce(tree, m)
      BY <1>3, <2>2, <2>3
    <2>7. Latest(k)' = Latest(k)
      <3>1. PICK x \in listeners : x.list = RecordList(k)
        BY <1>0 DEF Subscribed
      <3> QED BY <2>2, <3>1, LatestKept
    <2> QED BY <1>2, <2>1, <2>5, <2>6, <2>7
  <1>5. ASSUME \A l \in loop.left : ~(SendEvent(l) /\ Due(k) /\ OfChannel(l.ex, c, n))
        PROVE  Of(View(t, n), k) = Of(tree, k)
    <2>1. CASE t = s
      BY <2>1
    <2>2. ASSUME NEW m \in Messages, t = Append(s, m), m.type \in ReplyTypes, Busy(c), m.chan = Current(c)
          PROVE  Of(View(t, n), k) = Of(tree, k)
      <3>1. m.chan # n
        BY <1>0, <2>2, InitialAnswered
      <3> QED BY <1>3, <2>2, <3>1
    <2>3. ASSUME NEW m \in Messages, t = Append(s, m), NEW e \in exs, c = e.id.conn,
                 m = Message("table", e.id.chan, e.todo \cup e.rows, NoValue)
          PROVE  Of(View(t, n), k) = Of(tree, k)
      <3>1. m.chan = e.id.chan /\ m.type = "table" /\ m.rows = e.todo \cup e.rows
        BY <2>3 DEF Message
      <3>2. m.chan = n => \A r \in m.rows : r.id # k
        BY <1>0, <2>3, <3>1 DEF OfChannel
      <3> HIDE DEF t, s, tree
      <3>3. m.chan = n => Of(Reduce(tree, m), k) = Of(tree, k)
        BY <3>1, <3>2, ReduceOthers
      <3> QED BY <1>3, <2>3, <3>3
    <2>4. ASSUME NEW m \in Messages, t = Append(s, m), NEW l \in loop.left, SendEvent(l),
                 loop.old # NoValue, c = l.ex.conn,
                 m = Message("record", l.ex.chan, {loop.new}, loop.old)
          PROVE  Of(View(t, n), k) = Of(tree, k)
      <3>1. m.chan = l.ex.chan /\ m.type = "record" /\ m.rows = {loop.new}
        BY <2>4 DEF Message
      <3>2. m.chan = n => loop.new.id # k
        BY <1>5, <2>4, <3>1 DEF OfChannel, Due, SendEvent
      <3> HIDE DEF t, s, tree
      <3>3. m.chan = n => Of(Reduce(tree, m), k) = Of(tree, k)
        BY <3>1, <3>2, ReduceOthers
      <3> QED BY <1>3, <2>4, <3>3
    <2> DEFINE Cause(m) == \/ m.type \in ReplyTypes /\ Busy(c) /\ m.chan = Current(c)
                           \/ \E e \in exs : /\ WriteTableUpdate(e) /\ c = e.id.conn
                                             /\ m = Message("table", e.id.chan, e.todo \cup e.rows, NoValue)
                           \/ \E l \in loop.left :
                                 /\ SendEvent(l) /\ loop.old # NoValue /\ c = l.ex.conn
                                 /\ m = Message("record", l.ex.chan, {loop.new}, loop.old)
    <2>5. \/ t = s
          \/ \E u \in Seq(Messages), m \in Messages : ~open'[c] /\ s = Append(u, m) /\ t = u
          \/ \E m \in Messages : open[c] /\ t = Append(s, m) /\ Cause(m)
      BY MessageSteps
    <2> HIDE DEF s, t, tree
    <2>6. ASSUME NEW m \in Messages, t = Append(s, m), Cause(m)
          PROVE  Of(View(t, n), k) = Of(tree, k)
      BY <2>2, <2>3, <2>4, <2>6
    <2> HIDE DEF Cause
    <2> QED BY <2>1, <2>5, <2>6
  <1> QED BY <1>2, <1>4, <1>5

\* What the client shows of a record, or is due, stays the latest.
LEMMA StaysLatest ==
    ASSUME TalkInv, RepliesInOrder, LoopSends, EventLatest, ReadCommitted, [Next]_vars,
           NEW c \in Conns, NEW n \in ChannelIds, NEW k \in Keys, open'[c],
           InStep(c, n, k), Latestly(c, n, k)
    PROVE  Latestly(c, n, k)'
  <1> DEFINE o == ShownOf(c, n, k)
             v == Record(k, Latest(k))
  <1>0. Latestly(c, n, k)' <=> IF DueTo(c, n, k)' THEN o' # {} ELSE o' = {v'}
    BY DEF Latestly, Record
  <1>1. Latestly(c, n, k) <=> IF DueTo(c, n, k) THEN o # {} ELSE o = {v}
    BY DEF Latestly
  <1>2. PICK x \in listeners : x.list = RecordList(k) /\ OfChannel(x.ex, c, n)
    BY DEF InStep, Subscribed
  <1>3. Subscribed(c, n, RecordList(k))'
    BY StaysSubscribed DEF InStep
  <1>4. ~(loop.st = "select" /\ Due(k)') => Latest(k)' = Latest(k)
    BY <1>2, LatestKept
  <1>5. CASE o' = {v'}
    <2> HIDE DEF o, v
    <2> QED BY <1>0, <1>5
  <1>6. ASSUME o' = o,
               \A l \in loop.left : ~(SendEvent(l) /\ Due(k) /\ OfChannel(l.ex, c, n))
        PROVE  Latestly(c, n, k)'
    <2>0. Latest(k)' = Latest(k) => v' = v
      BY DEF Record
    <2>1. o # {}
      <3> HIDE DEF o, v
      <3> QED BY <1>1
    <2>2. ASSUME DueTo(c, n, k)'  PROVE Latestly(c, n, k)'
      <3> HIDE DEF o, v
      <3> QED BY <1>0, <1>6, <2>1, <2>2
    <2>3. ASSUME ~DueTo(c, n, k), Latest(k)' = Latest(k)  PROVE Latestly(c, n, k)'
      <3> HIDE DEF o, v
      <3> QED BY <1>0, <1>1, <1>6, <2>0, <2>2, <2>3
    <2>4. CASE ~Due(k) /\ ~Due(k)'
      BY <1>4, <2>3, <2>4 DEF DueTo
    <2>5. CASE Due(k) /\ Due(k)' /\ loop' = loop
      <3>1. Latest(k)' = Latest(k)
        BY <1>4, <2>5 DEF Due
      <3>2. CASE loop.st = "send"
        <4>1. DueTo(c, n, k) => DueTo(c, n, k)'
          BY <2>5, <3>2 DEF DueTo
        <4> QED BY <2>2, <2>3, <3>1, <4>1
      <3>3. CASE loop.st # "send"
        <4>1. PICK y \in listeners' : y.list = RecordList(k) /\ OfChannel(y.ex, c, n)
          BY <1>3 DEF Subscribed, RecordList, OfChannel
        <4>2. y \in Targets(loop.old, loop.new)'
          BY <2>5, <4>1 DEF Targets, Due, RecordList
        <4>3. DueTo(c, n, k)'
          BY <2>5, <3>3, <4>1, <4>2 DEF DueTo, OfChannel
        <4> QED BY <2>2, <4>3
      <3> QED BY <3>2, <3>3
    <2>6. CASE /\ Due(k) /\ Due(k)' /\ loop'.st = "send" /\ loop'.left = Targets(loop.old, loop.new)
      <3>1. x \in Targets(loop.old, loop.new)
        BY <1>2, <2>6 DEF Targets, Due
      <3>2. DueTo(c, n, k)'
        BY <1>2, <2>6, <3>1 DEF DueTo, OfChannel
      <3> QED BY <2>2, <3>2
    <2>7. CASE /\ Due(k) /\ Due(k)' /\ loop.st = "send" /\ loop'.st = "send"
               /\ \E l \in loop.left : SendEvent(l) /\ loop'.left = loop.left \ {l}
      <3>1. Latest(k)' = Latest(k)
        BY <1>4, <2>7
      <3>2. DueTo(c, n, k) => DueTo(c, n, k)'
        BY <1>6, <2>7 DEF DueTo, OfChannel
      <3> QED BY <2>2, <2>3, <3>1, <3>2
    <2>8. CASE ~Due(k) /\ Due(k)' /\ loop'.st = "event" /\ loop'.old = Latest(k)
      <3>1. PICK y \in listeners' : y.list = RecordList(k) /\ OfChannel(y.ex, c, n)
        BY <1>3 DEF Subscribed, RecordList, OfChannel
      <3>2. y \in Targets(loop.old, loop.new)'
        BY <2>8, <3>1 DEF Targets, Due, RecordList
      <3>3. DueTo(c, n, k)'
        BY <2>8, <3>1, <3>2 DEF DueTo, OfChannel
      <3> QED BY <2>2, <3>3
    <2>9. CASE Due(k) /\ Targets(loop.old, loop.new) = {}
      BY <1>2, <2>9 DEF Targets, Due
    <2>10. CASE /\ Due(k) /\ ~Due(k)' /\ loop.st = "send"
                /\ \E l \in loop.left : SendEvent(l) /\ loop.left = {l}
      <3>1. Latest(k)' = Latest(k) /\ ~DueTo(c, n, k)
        BY <1>4, <1>6, <2>10 DEF DueTo
      <3> QED BY <2>3, <3>1
    <2> QED BY <2>4, <2>5, <2>6, <2>7, <2>8, <2>9, <2>10, DueSteps
  <1> QED
    <2>1. o' = {v'} <=> ShownOf(c, n, k)' = {Record(k, Latest(k)')}
      BY DEF Record
    <2> QED BY <1>5, <1>6, <2>1, ShownSteps

\* A live query that has its result and listens to a record shows the record's
\* latest value from then on, but for what the loop has in hand: no INSERT, UPDATE,
\* requery or subscription, in whatever order the goroutines run, makes it miss an
\* update or go back to an older one (executeSelect's subscriptions, ExecuteUpdate's
\* events before its commit, ListenerList.SendEvent, liveQueryReducer).
THEOREM StepKept == Spec => StaysInStep
  <1> DEFINE Same(c, n, k) == {r \in Coming(c, n) : r.id = k} = {Record(k, Latest(k))} <=> Latestly(c, n, k)
             AllSame == \A c \in Conns, n \in ChannelIds, k \in Keys : Same(c, n, k)
             Keeps == \A c \in Conns, n \in ChannelIds, k \in Keys :
                          InStep(c, n, k) => (InStep(c, n, k)' \/ ~open'[c])
  <1>1. ViewInv => AllSame
    BY ComingMeans DEF ViewInv
  <1>2. (ViewInv => AllSame)'
    BY <1>1, PTL
  <1>3. ViewInv /\ ViewInv' /\ RepliesInOrder /\ [Next]_vars => Keeps
    <2> SUFFICES ASSUME ViewInv, ViewInv', RepliesInOrder, [Next]_vars,
                        NEW c \in Conns, NEW n \in ChannelIds, NEW k \in Keys,
                        InStep(c, n, k), open'[c]
                 PROVE  InStep(c, n, k)'
      OBVIOUS
    <2>0. TalkInv /\ Once /\ LoopSends /\ EventLatest /\ ReadCommitted
      BY DEF ViewInv
    <2>1. Same(c, n, k) /\ Same(c, n, k)'
      BY <1>1, <1>2
    <2>2. Subscribed(c, n, RecordList(k)) /\ HasInitial(Sent(c), n)
          /\ (\A d \in Conns : pc[d] = "push" => Statement(d).id # k)
          /\ ~Inserting(k) /\ {r \in Coming(c, n) : r.id = k} = {Record(k, Latest(k))}
      BY DEF InStep, Inserting
    <2>3. Subscribed(c, n, RecordList(k))' /\ HasInitial(Sent(c), n)'
      BY <2>0, <2>2, StaysSubscribed, StaysInitial
    <2>4. \A e \in exs' : OfChannel(e.id, c, n) =>
              ~(e.where = WhereId(k) \/ \E r \in e.todo \cup e.rows : r.id = k)
      BY <2>0, StaysUnread DEF Once
    <2>5. ~Inserting(k)' /\ \A d \in Conns : pc'[d] = "push" => Statement(d)'.id # k
      <3>1. db[k] # NoValue
        BY <2>0, <2>2 DEF Subscribed, ReadCommitted
      <3> QED BY <2>0, <2>2, <3>1, StaysAnnounced
    <2>6. Latestly(c, n, k)'
      BY <2>0, <2>1, <2>2, StaysLatest
    <2>7. ({r \in Coming(c, n) : r.id = k} = {Record(k, Latest(k))})'
      BY <2>1, <2>6
    <2> QED BY <2>3, <2>4, <2>5, <2>7 DEF InStep, Inserting, OfChannel, WhereId
  <1>4. Keeps <=> \A c \in Conns, n \in ChannelIds, k \in Keys :
                      InStep(c, n, k) => (InStep(c, n, k)' \/ ~open'[c])
    OBVIOUS
  <1> HIDE DEF Keeps
  <1>5. Spec => [][Keeps]_vars
    BY <1>3, ViewsInvariant, ServerRepliesInOrder, PTL DEF Spec
  <1> QED BY <1>5, PTL DEF StaysInStep, Keeps
=============================================================================
