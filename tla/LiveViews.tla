----------------------------- MODULE LiveViews -----------------------------
(***************************************************************************)
(* What the clients of a table make of the messages they get, and how that *)
(* relates to the table: the properties of LiveTable a client can see.     *)
(***************************************************************************)
EXTENDS LiveTable

ChannelIds == 1..MaxStatements

\* Among messages msgs there is such a one on channel n.
Holds(msgs, n, P(_)) == \E i \in DOMAIN msgs : msgs[i].chan = n /\ P(msgs[i])

\* liveQueryReducer: the web client's tree after one more message.  The rows of
\* a flat query are kept as a set: two copies that differ are both in it.
Reduce(tree, m) ==
    CASE m.type = "initial" -> m.rows
      [] m.type = "table"   -> tree \cup m.rows
      [] m.type = "record"  -> {r \in tree : \A q \in m.rows : q.id # r.id}
                                \cup {q \in m.rows : \E r \in tree : r.id = q.id}
      [] OTHER              -> tree

\* The trees of channel n after each of the messages, and after the last.
Trees(msgs, n) ==
    LET tree[i \in 0..Len(msgs)] ==
            IF i = 0 THEN {}
            ELSE IF msgs[i].chan = n THEN Reduce(tree[i-1], msgs[i]) ELSE tree[i-1]
    IN  tree
View(msgs, n) == Trees(msgs, n)[Len(msgs)]

IsLive(c, n) ==
    /\ n <= Current(c)
    /\ asked[c][n].type = "select"
    /\ asked[c][n].live
Answered(msgs, n) == Holds(msgs, n, LAMBDA m : m.type \in ReplyTypes)
HasInitial(msgs, n) == Holds(msgs, n, LAMBDA m : m.type = "initial")
OfChannel(id, c, n) == id.conn = c /\ id.chan = n
Subscribed(c, n, list) == \E l \in listeners : l.list = list /\ OfChannel(l.ex, c, n)

-----------------------------------------------------------------------------
(* Safety.                                                                 *)

\* A live query is told of an inserted record at most once, although its
\* requeries subscribe again, to that very record's key.
InsertToldOnce ==
    \A c \in Conns : \A i, j \in DOMAIN Sent(c) :
    LET m == Sent(c)[i]
        q == Sent(c)[j]
    IN  (/\ m.type = "table" /\ q.type = "table" /\ m.chan = q.chan
         /\ \E r \in m.rows, s \in q.rows : r.id = s.id) => i = j

\* Message m tells channel n of an update of record k.
TellsUpdate(m, n, k) == m.type = "record" /\ m.chan = n /\ \E r \in m.rows : r.id = k

\* The record updates a live query gets for one record follow each other: each
\* starts from the value the one before it ended with, or repeats it for a
\* second listener of the same query; none is lost or overtaken in between.
RecordUpdatesChain ==
    \A c \in Conns, n \in ChannelIds, k \in Keys : \A i, j \in DOMAIN Sent(c) :
        (/\ i < j
         /\ TellsUpdate(Sent(c)[i], n, k) /\ TellsUpdate(Sent(c)[j], n, k)
         /\ \A h \in i+1..j-1 : ~TellsUpdate(Sent(c)[h], n, k))
        => \/ Sent(c)[j] = Sent(c)[i]
           \/ Sent(c)[i].rows = {Record(k, Sent(c)[j].old)}

\* The value a record has, or will have once the open UPDATE commits.
Latest(k) == IF wtx.owner = NoConn THEN db[k] ELSE wtx.rows[k]

\* What the client will show once it has got everything already on its way:
\* the messages sent, and the update event the loop has in hand.
Coming(c, n) ==
    LET event == Message("record", n, {loop.new}, loop.old)
        due == /\ loop.st \in {"event", "send"} /\ loop.old # NoValue
               /\ \E l \in (IF loop.st = "send" THEN loop.left ELSE Targets(loop.old, loop.new)) :
                     OfChannel(l.ex, c, n)
    IN  View(IF due THEN Append(Sent(c), event) ELSE Sent(c), n)

\* Live query (c, n) is in step on record k: it has its initial result and a
\* listener on k, nothing that read k earlier is still to be sent, and what it
\* shows of k, or will show once the events in hand arrive, is k's latest value.
InStep(c, n, k) ==
    /\ open[c] /\ Subscribed(c, n, RecordList(k)) /\ HasInitial(Sent(c), n)
    /\ \A e \in exs : OfChannel(e.id, c, n) =>
          ~(e.where = WhereId(k) \/ \E r \in e.todo \cup e.rows : r.id = k)
    /\ \A d \in Conns : pc[d] = "push" => Statement(d).id # k
    /\ ~(loop.st \in {"event", "send"} /\ loop.old = NoValue /\ loop.new.id = k)
    /\ {r \in Coming(c, n) : r.id = k} = {Record(k, Latest(k))}

\* A live query that is in step on a record stays in step, whatever is inserted,
\* updated or subscribed to next, and in whatever order the goroutines run,
\* until its client closes the connection.
StaysInStep ==
    [][\A c \in Conns, n \in ChannelIds, k \in Keys :
          InStep(c, n, k) => (InStep(c, n, k)' \/ ~open'[c])]_vars

-----------------------------------------------------------------------------
(* Liveness, under Fairness.                                               *)

\* A message waits for a client that has stopped reading and has not closed.
Unread == \E c \in Slow : open[c] /\ writer[c] # << >>

\* Every statement is answered, unless the client closes its socket or another
\* client stops reading for good: nobody else waits for ever on the table's loop,
\* on bolt's writer lock or on a writer.
StatementsAnswered ==
    \A c \in Conns : \A n \in 1..Budget[c] :
        [](n <= Current(c) => <>(Answered(wire[c], n) \/ ~open[c] \/ []Unread))

\* Clients that read get the answers to their plain SELECTs even if another
\* client stops reading and holds up the table's loop and every writer with it.
PlainSelectsAnswered ==
    \A c \in Conns \ Slow, n \in ChannelIds :
        (n <= Current(c) /\ pc[c] = "select" /\ ~IsLive(c, n))
            ~> Answered(wire[c], n) \/ ~open[c]

\* A record whose insert commits after a live query's table listener is in place
\* reaches that query's client, with the same exceptions.
InsertsReachSubscribers ==
    \A c \in Conns, n \in ChannelIds, k \in Keys :
        []((\E d \in Conns :
              /\ pc[d] = "push" /\ Statement(d).id = k
              /\ \E list \in {AllRows, WhereId(k), WhereVal(Statement(d).val)} : Subscribed(c, n, list))
        => <>(\/ Holds(wire[c], n, LAMBDA m : m.type = "table" /\ \E r \in m.rows : r.id = k)
              \/ ~open[c] \/ []Unread))

-----------------------------------------------------------------------------
(* What the docs and comments promise and the code does not keep.          *)

\* README.md:9, "Can push live updates to those result trees": once all is at
\* rest, the tree of a live query of the whole table is the table.
TreeIsCurrent ==
    AtRest /\ (\A c \in Conns : pc[c] = "idle") =>
    \A c \in Conns, n \in ChannelIds :
        (IsLive(c, n) /\ asked[c][n].where = AllRows /\ HasInitial(wire[c], n))
            => View(wire[c], n) = Stored(db)

=============================================================================
