------------------------------ MODULE GoClient ------------------------------
(***************************************************************************)
(* The Go client and its connection.  One goroutine (handleStatements)     *)
(* sends statements and hands each message to the channel of its statement,*)
(* another (handleIncoming) reads the socket.  Statement ids are not sent: *)
(* client and server each count statements.  The server's half is a        *)
(* Conversation; between the two are the socket's two directions.          *)
(*                                                                         *)
(* A definition commented "Faulty variant" is no part of the specification:*)
(* it is the definition after it with a plausible bug, and shows which     *)
(* property such a bug breaks.                                             *)
(***************************************************************************)
EXTENDS Naturals, Sequences

CONSTANTS
    Callers,        \* goroutines that use the client
    Calls,          \* the methods each caller may call
    Budget,         \* bound: calls of each caller
    MaxMessages,    \* bound: messages of the server, after which it sends no updates
    MaxReads,       \* the failed reads of one socket that gorilla/websocket allows
    MayClose        \* whether the connection may be lost

\* Exec for a statement that writes, Query for a SELECT, LiveQuery for a live one;
\* the shell uses Statement for anything.
Methods == {"Exec", "Query", "LiveQuery"}
ASSUME CallsAssumption ==
    Calls \in [Callers -> SUBSET (Methods \cup {"Statement"})] /\ Budget \in [Callers -> Nat]
ASSUME ReadsAssumption == MaxReads \in Nat

Kinds(method) ==
    CASE method = "Exec"      -> {"write"}
      [] method = "Query"     -> {"query"}
      [] method = "LiveQuery" -> {"live"}
      [] OTHER                -> {"write", "live"}
Requests == [kind : {"write", "query", "live"}, chan : Nat \ {0}]

VARIABLES
    asked, busy, sent, open,    \* the Conversation
    toServer,   \* statements on their way to the server
    taken,      \* how many of `sent` handleIncoming has read
    failed,     \* how many of its reads have failed
    incoming,   \* the message handleIncoming has for the loop (at most one)
    loop,       \* the loop of handleStatements
    channels,   \* Client.Channels, the statements in the order of their ids
    call,       \* per caller, what it is doing
    results,    \* per caller, what its calls have returned
    reading,    \* channels with a goroutine that reads their updates
    alive       \* whether the client's process runs

serverVars == <<asked, busy, sent, open>>
callVars == <<channels, call, results, reading>>
vars == <<serverVars, toServer, taken, failed, incoming, loop, callVars, alive>>

Server == INSTANCE Conversation WITH Statements <- Requests

Idle == [st |-> "idle", method |-> "none", kind |-> "none", chan |-> 0]
Selecting == [st |-> "select", chan |-> 0, type |-> "none"]

\* The ChannelMessage that ReadJSON leaves if the read or the decoding fails: its
\* statement id is 0, the first statement's, and it has no message.  The type says
\* which of the two failed.
Nothing == [chan |-> 1, type |-> "nothing"]
Parsed(m) == IF m.type = "garbled" THEN [m EXCEPT !.chan = 1] ELSE m
IsEmpty(m) == m.type \in {"nothing", "garbled"}
\* A message for statement `n` that can be read.
For(m, n) == m.chan = n /\ ~IsEmpty(m)

Init ==
    /\ Server!Init
    /\ toServer = << >>
    /\ taken = 0
    /\ failed = 0
    /\ incoming = << >>
    /\ loop = Selecting
    /\ channels = << >>
    /\ call = [p \in Callers |-> Idle]
    /\ results = [p \in Callers |-> << >>]
    /\ reading = {}
    /\ alive = TRUE

-----------------------------------------------------------------------------
(* The server's half and the socket.                                       *)

ServerAsks ==
    /\ toServer # << >>
    /\ Server!Ask(Head(toServer))
    /\ toServer' = Tail(toServer)
    /\ UNCHANGED <<taken, failed, incoming, loop, callVars, alive>>

\* The client treats all updates alike that it can read.
ServerWrites ==
    /\ \/ \E type \in Server!ReplyTypes : Server!Answer(type)
       \/ /\ Len(sent) < MaxMessages
          /\ \E n \in DOMAIN asked, type \in {"record", "garbled"} : Server!Update(n, type)
    /\ UNCHANGED <<toServer, taken, failed, incoming, loop, callVars, alive>>

\* The connection is lost, or Client.Close is called.
LoseConnection ==
    /\ MayClose
    /\ Server!Close /\ taken <= Len(sent')
    /\ UNCHANGED <<toServer, taken, failed, incoming, loop, callVars, alive>>

-----------------------------------------------------------------------------
(* handleIncoming.                                                         *)

\* A message is read.  One that is no JSON is logged as an error, and the empty
\* message goes to the loop in its place.
ReadMessage ==
    /\ alive /\ incoming = << >> /\ failed = 0 /\ taken < Len(sent)
    /\ incoming' = <<Parsed(sent[taken + 1])>>
    /\ taken' = taken + 1
    /\ UNCHANGED <<serverVars, toServer, failed, loop, callVars, alive>>

\* A read of the socket fails once the connection is lost, then all the later ones
\* do.  Again the error is logged and the empty message goes to the loop.
ReadNothing ==
    /\ alive /\ incoming = << >> /\ ~open /\ failed < MaxReads
    /\ incoming' = <<Nothing>>
    /\ failed' = failed + 1
    /\ UNCHANGED <<serverVars, toServer, taken, loop, callVars, alive>>

\* gorilla/websocket panics at a read that comes after too many failed ones.
ReadTooOften ==
    /\ alive /\ incoming = << >> /\ failed = MaxReads
    /\ alive' = FALSE
    /\ UNCHANGED <<serverVars, toServer, taken, failed, incoming, loop, callVars>>

-----------------------------------------------------------------------------
(* handleStatements.                                                       *)

\* Client.Statement offers a request to the loop.
BeginCall(p) ==
    /\ alive /\ call[p] = Idle /\ Len(results[p]) < Budget[p]
    /\ \E method \in Calls[p] : \E kind \in Kinds(method) :
       call' = [call EXCEPT ![p] = [st |-> "offer", method |-> method, kind |-> kind, chan |-> 0]]
    /\ UNCHANGED <<serverVars, toServer, taken, failed, incoming, loop, channels, results, reading, alive>>

Forgotten(s) == channels            \* Faulty variant: not put in Client.Channels.
Stored(s) == Append(channels, s)

\* The loop takes a request, gives it the next id and hands its caller the channel.
TakeRequest(p) ==
    /\ alive /\ loop.st = "select" /\ call[p].st = "offer"
    /\ LET n == Len(channels) + 1 IN
       /\ channels' = Stored([kind |-> call[p].kind, chan |-> n])
       /\ call' = [call EXCEPT ![p].st = "receive", ![p].chan = n]
       /\ loop' = [Selecting EXCEPT !.st = "write", !.chan = n]
    /\ UNCHANGED <<serverVars, toServer, taken, failed, incoming, results, reading, alive>>

\* Faulty variant: a goroutine for each write, which may overtake an earlier one.
Overtakes(s) == toServer' \in {Append(toServer, s), <<s>> \o toServer}
Writes(s) == toServer' = Append(toServer, s)

\* Then it writes the statement; an error of the write is ignored.
WriteStatement ==
    /\ alive /\ loop.st = "write"
    /\ IF open THEN Writes(channels[loop.chan]) ELSE UNCHANGED toServer
    /\ loop' = Selecting
    /\ UNCHANGED <<serverVars, taken, failed, incoming, callVars, alive>>

\* The loop takes a message and looks its channel up; there is none for the empty
\* message before the first statement, and the process dies.
TakeMessage ==
    /\ alive /\ loop.st = "select" /\ incoming # << >>
    /\ incoming' = << >>
    /\ IF incoming[1].chan \in DOMAIN channels
       THEN /\ loop' = [st |-> "deliver", chan |-> incoming[1].chan, type |-> incoming[1].type]
            /\ UNCHANGED alive
       ELSE /\ alive' = FALSE
            /\ UNCHANGED loop
    /\ UNCHANGED <<serverVars, toServer, taken, failed, callVars>>

Wanted(method) ==
    CASE method = "Exec"                   -> {"ack"}
      [] method \in {"Query", "LiveQuery"} -> {"initial"}
      [] OTHER                             -> {"ack", "initial", "table", "record"}
Outcome(method, type) ==
    IF type \in Wanted(method) THEN "ok" ELSE IF type = "error" THEN "error" ELSE "neither"

\* A message meets the caller that waits on its channel.
MeetsAny(p) == call[p].st = "receive"   \* Faulty variant: one channel for all statements.
Meets(p) == call[p].st = "receive" /\ call[p].chan = loop.chan

\* A goroutine goes on reading the channel of a LiveQuery that succeeded or of a
\* shell's statement.
ReadsOnlyLive(p, outcome) ==            \* Faulty variant: not of a shell's statement.
    call[p].method = "LiveQuery" /\ outcome = "ok"
ReadsOn(p, outcome) ==
    call[p].method = "Statement" \/ (call[p].method = "LiveQuery" /\ outcome = "ok")

\* A caller gets the first message of its channel and returns.  An empty message
\* is dereferenced by every method, and the process dies.
Receive(p) ==
    /\ alive /\ loop.st = "deliver" /\ Meets(p)
    /\ IF IsEmpty(loop)
       THEN /\ alive' = FALSE
            /\ UNCHANGED <<call, results, reading>>
       ELSE LET outcome == Outcome(call[p].method, loop.type) IN
            /\ call' = [call EXCEPT ![p] = Idle]
            /\ results' = [results EXCEPT ![p] =
                  Append(@, [call |-> call[p], got |-> loop.type, outcome |-> outcome])]
            /\ reading' = reading \cup (IF ReadsOn(p, outcome) THEN {loop.chan} ELSE {})
            /\ UNCHANGED alive
    /\ loop' = Selecting
    /\ UNCHANGED <<serverVars, toServer, taken, failed, incoming, channels>>

\* A goroutine that reads a channel takes an update; the shell's prints it, and
\* dies of the empty message, the workload's drops it.
ReadUpdate ==
    /\ alive /\ loop.st = "deliver" /\ loop.chan \in reading
    /\ loop' = Selecting
    /\ alive' \in IF IsEmpty(loop) THEN BOOLEAN ELSE {TRUE}
    /\ UNCHANGED <<serverVars, toServer, taken, failed, incoming, callVars>>

ServerStep == ServerAsks \/ ServerWrites
ReaderStep == ReadMessage \/ ReadNothing \/ ReadTooOften
LoopStep == (\E p \in Callers : TakeRequest(p) \/ Receive(p)) \/ WriteStatement \/ TakeMessage \/ ReadUpdate

Next ==
    \/ ServerAsks \/ ServerWrites \/ LoseConnection
    \/ ReaderStep
    \/ \E p \in Callers : BeginCall(p)
    \/ LoopStep

\* The goroutines run when they can, select picks no case for ever over another
\* that stays ready, and the server answers (StatementsAnswered of LiveViews).
\* Nothing obliges a caller to call.
Fairness ==
    /\ WF_vars(ServerAsks)
    /\ WF_vars(\E type \in Server!ReplyTypes : Server!Answer(type) /\ ServerWrites)
    /\ WF_vars(ReaderStep)
    /\ WF_vars(WriteStatement \/ ReadUpdate)
    /\ SF_vars(TakeMessage)
    /\ \A p \in Callers : SF_vars(TakeRequest(p)) /\ WF_vars(Receive(p))

Spec == Init /\ [][Next]_vars
FairSpec == Spec /\ Fairness

-----------------------------------------------------------------------------
\* The variables hold what the program's data structures can hold.
Types == Server!ReplyTypes \cup Server!Updates \cup {"nothing"}
CallStates == [st : {"idle", "offer", "receive"}, method : Methods \cup {"Statement", "none"},
               kind : {"write", "query", "live", "none"}, chan : Nat]
TypeOK ==
    /\ asked \in Seq(Requests) /\ busy \in BOOLEAN /\ open \in BOOLEAN /\ alive \in BOOLEAN
    /\ sent \in Seq([chan : Nat \ {0}, type : Types \ {"nothing"}])
    /\ toServer \in Seq(Requests)
    /\ taken \in 0..Len(sent) /\ failed \in 0..MaxReads
    /\ incoming \in Seq([chan : Nat \ {0}, type : Types])
    /\ loop \in [st : {"select", "write", "deliver"}, chan : Nat, type : Types \cup {"none"}]
    /\ channels \in Seq(Requests)
    /\ call \in [Callers -> CallStates] /\ \A p \in Callers : call[p].chan <= Len(channels)
    /\ results \in [Callers -> Seq([call : CallStates, got : Types, outcome : {"ok", "error", "neither"}])]
    /\ reading \subseteq DOMAIN channels

\* Client and server, who each count the statements for themselves, give every
\* statement the same number, whoever calls and however the goroutines run.
SameNumbers == \A n \in DOMAIN asked : asked[n].chan = n

\* A call returns the first message that the server sent for its own statement and
\* that can be read.  Exec and Query return its reply; LiveQuery does too, unless an
\* update came first: then it fails with "neither error nor initial result"
\* (client.go:112).
OwnReplies ==
    \A p \in Callers : \A i \in DOMAIN results[p] :
    LET r == results[p][i]
    IN  /\ \E j \in DOMAIN sent : /\ sent[j] = [chan |-> r.call.chan, type |-> r.got]
                                 /\ \A k \in 1..j-1 : ~For(sent[k], r.call.chan)
        /\ r.call.kind = asked[r.call.chan].kind
        /\ r.outcome = "neither" => r.call.method = "LiveQuery" /\ r.got \in Server!Updates \ {"garbled"}

\* The loop has a message that nobody will take: the call on its channel has
\* returned, and no goroutine reads on.  It is a message for a live query whose
\* LiveQuery call has failed, or an empty message, which goes to the first
\* statement whichever it was meant for.
Unheard ==
    /\ loop.st = "deliver" /\ loop.chan \notin reading
    /\ \E p \in Callers : \E i \in DOMAIN results[p] :
       LET r == results[p][i]
       IN  /\ r.call.chan = loop.chan
           /\ IsEmpty(loop) \/ (r.call.method = "LiveQuery" /\ r.outcome # "ok")

\* The process has died after an update that was no JSON.
Poisoned == ~alive /\ \E i \in 1..taken : IsEmpty(sent[i])

\* Every call returns, unless the connection is lost, the process dies of an update
\* that is no JSON, or the loop waits for ever to deliver such an update, or a
\* message to a live query that has failed.
CallsReturn ==
    \A p \in Callers :
        [](call[p] # Idle => <>(call[p] = Idle \/ ~open \/ Poisoned \/ []Unheard))

=============================================================================
