---------------------------- MODULE Conversation ----------------------------
(***************************************************************************)
(* What the server promises one client: the abstract specification that    *)
(* LiveTable implements for each of its connections, and on which GoClient *)
(* relies.                                                                 *)
(*                                                                         *)
(* The n-th statement of a connection has channel n.  It gets one reply on *)
(* it.  A live query's channel may also get updates, from the moment the   *)
(* statement arrives: before its reply, between the replies of later       *)
(* statements, and after an error too.                                     *)
(***************************************************************************)
EXTENDS Naturals, Sequences

CONSTANT Statements     \* records with a kind: "write", "query" or "live"

VARIABLES
    asked,  \* the statements that arrived
    busy,   \* whether the last of them is still to be answered
    sent,   \* the messages written for the client
    open    \* whether the socket is open

vars == <<asked, busy, sent, open>>

Replies(kind) == {"error", IF kind = "write" THEN "ack" ELSE "initial"}
ReplyTypes == {"error", "ack", "initial"}
\* A record update whose record is no JSON is "garbled": WriteJSON fails once the
\* frame has begun, so the client gets an empty frame, and the connection goes on.
Updates == {"table", "record", "garbled"}
IsReply(m) == m.type \in ReplyTypes

Init ==
    /\ asked = << >>
    /\ busy = FALSE
    /\ sent = << >>
    /\ open = TRUE

\* What is written to a closed socket is lost.
Write(n, type) ==
    sent' = IF open THEN Append(sent, [chan |-> n, type |-> type]) ELSE sent

\* HandleStatements reads a statement when the one before it has been answered.
Ask(s) ==
    /\ ~busy
    /\ asked' = Append(asked, s)
    /\ busy' = TRUE
    /\ UNCHANGED <<sent, open>>

Answer(type) ==
    /\ busy /\ type \in Replies(asked[Len(asked)].kind)
    /\ Write(Len(asked), type)
    /\ busy' = FALSE
    /\ UNCHANGED <<asked, open>>

Update(n, type) ==
    /\ asked[n].kind = "live" /\ type \in Updates
    /\ Write(n, type)
    /\ UNCHANGED <<asked, busy, open>>

\* The connection goes; the message that was being written may go with it.
Close ==
    /\ open
    /\ open' = FALSE
    /\ \/ UNCHANGED sent
       \/ sent # << >> /\ sent' = SubSeq(sent, 1, Len(sent) - 1)
    /\ UNCHANGED <<asked, busy>>

Next ==
    \/ \E s \in Statements : Ask(s)
    \/ \E type \in ReplyTypes : Answer(type)
    \/ \E n \in DOMAIN asked, type \in Updates : Update(n, type)
    \/ Close

Spec == Init /\ [][Next]_vars

-----------------------------------------------------------------------------
\* The statements that have been answered: all but one in progress.
Answered == IF busy THEN Len(asked) - 1 ELSE Len(asked)

\* While the connection lasts its statements are answered once each and in the
\* order they were sent, whatever updates come between the replies, and only
\* live queries get updates.
RepliesInOrder ==
    open => /\ \A n \in 1..Answered : \E i \in DOMAIN sent : sent[i].chan = n /\ IsReply(sent[i])
            /\ \A i \in DOMAIN sent :
                  IF IsReply(sent[i])
                  THEN /\ sent[i].chan \in 1..Answered
                       /\ sent[i].type \in Replies(asked[sent[i].chan].kind)
                       /\ \A j \in 1..i-1 : IsReply(sent[j]) => sent[j].chan < sent[i].chan
                  ELSE sent[i].chan \in DOMAIN asked /\ asked[sent[i].chan].kind = "live"
=============================================================================
