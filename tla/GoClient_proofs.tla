-------------------------- MODULE GoClient_proofs --------------------------
(***************************************************************************)
(* Proofs about GoClient, for any goroutines, calls and bounds: client and *)
(* server number the statements alike, and a call returns what the server  *)
(* first sent for its own statement.                                       *)
(***************************************************************************)
EXTENDS GoClient, SequenceTheorems, TLAPS

-----------------------------------------------------------------------------
(* The inductive invariant.                                                *)

\* The statement that the loop is about to write.
Pending == IF loop.st = "write" THEN 1 ELSE 0

\* The server has, and the socket holds, the first of the client's statements,
\* and all of them but that while the connection lasts.
PipelineOK ==
    /\ \A n \in DOMAIN channels : channels[n].chan = n
    /\ \A n \in DOMAIN asked : asked[n] = channels[n]
    /\ \A k \in DOMAIN toServer : toServer[k] = channels[Len(asked) + k]
    /\ Len(asked) + Len(toServer) + Pending <= Len(channels)
    /\ open => Len(asked) + Len(toServer) + Pending = Len(channels)
    /\ loop.st = "write" => loop.chan = Len(channels)
    /\ loop.st = "deliver" => loop.chan \in DOMAIN channels

\* What the server has sent answers or updates a statement that arrived.
Fits(m) ==
    /\ m.chan \in DOMAIN asked
    /\ \/ m.type \in Server!Replies(asked[m.chan].kind)
       \/ m.type \in Server!Updates /\ asked[m.chan].kind = "live"
SentOK == (busy => asked # << >>) /\ \A i \in DOMAIN sent : Fits(sent[i])

\* Messages in the hands of handleIncoming and of the loop, and how many of those
\* read have been delivered.
InIncoming == incoming # << >> /\ incoming[1].type # "nothing"
InLoop == loop.st = "deliver" /\ loop.type # "nothing"
Delivered == taken - (IF InIncoming THEN 1 ELSE 0) - (IF InLoop THEN 1 ELSE 0)
HandsOK ==
    /\ Delivered \in Nat
    /\ Len(incoming) <= 1
    /\ InIncoming => incoming[1] = Parsed(sent[taken])
    /\ InLoop => Parsed(sent[Delivered + 1]) = [chan |-> loop.chan, type |-> loop.type]

\* A caller that waits has a channel of its own, of which no message that can be
\* read has been delivered to anyone.
Waits(p) == call[p].st = "receive"
CallsOK ==
    \A p \in Callers :
        /\ call[p].st # "idle" => /\ call[p].method \in Methods \cup {"Statement"}
                                  /\ call[p].kind \in Kinds(call[p].method)
        /\ Waits(p) =>
              /\ call[p].chan \in DOMAIN channels \ reading
              /\ channels[call[p].chan].kind = call[p].kind
              /\ \A i \in 1..Delivered : ~For(sent[i], call[p].chan)
              /\ \A q \in Callers : Waits(q) /\ call[q].chan = call[p].chan => q = p

\* A call that has returned has the first message delivered for its statement.
Returned(r) ==
    /\ \E j \in 1..Delivered : /\ sent[j] = [chan |-> r.call.chan, type |-> r.got]
                               /\ \A k \in 1..j-1 : ~For(sent[k], r.call.chan)
    /\ r.call.chan \in DOMAIN asked
    /\ r.call.kind = asked[r.call.chan].kind
    /\ r.outcome = "neither" => r.call.method = "LiveQuery" /\ r.got \in Server!Updates \ {"garbled"}
ResultsOK == \A p \in Callers : \A i \in DOMAIN results[p] : Returned(results[p][i])

Inv == TypeOK /\ PipelineOK /\ SentOK /\ HandsOK /\ CallsOK /\ ResultsOK
-----------------------------------------------------------------------------
(* Lemmas.                                                                 *)

LEMMA Element ==
    ASSUME NEW S, NEW s \in Seq(S), NEW i \in DOMAIN s
    PROVE  s[i] \in S
  OBVIOUS

\* A sequence with one more element, element by element.
LEMMA Longer ==
    ASSUME NEW S, NEW s \in Seq(S), NEW x \in S
    PROVE  /\ Append(s, x) \in Seq(S)
           /\ Len(s) \in Nat /\ Len(Append(s, x)) = Len(s) + 1
           /\ DOMAIN s = 1..Len(s) /\ DOMAIN Append(s, x) = 1..Len(s) + 1
           /\ \A i \in 1..Len(s) : Append(s, x)[i] = s[i]
           /\ Append(s, x)[Len(s) + 1] = x
  OBVIOUS

\* A sequence without its first or its last element.
LEMMA Shorter ==
    ASSUME NEW S, NEW s \in Seq(S), s # << >>
    PROVE  /\ Head(s) \in S /\ Head(s) = s[1] /\ Len(s) \in Nat \ {0}
           /\ Tail(s) \in Seq(S) /\ Len(Tail(s)) = Len(s) - 1
           /\ DOMAIN Tail(s) = 1..Len(s) - 1 /\ DOMAIN s = 1..Len(s)
           /\ \A i \in 1..Len(s) - 1 : Tail(s)[i] = s[i + 1]
           /\ SubSeq(s, 1, Len(s) - 1) \in Seq(S) /\ Len(SubSeq(s, 1, Len(s) - 1)) = Len(s) - 1
           /\ \A i \in 1..Len(s) - 1 : SubSeq(s, 1, Len(s) - 1)[i] = s[i]
  <1> DEFINE n == Len(s) - 1  t == SubSeq(s, 1, n)
  <1>1. Len(s) \in Nat \ {0} /\ DOMAIN s = 1..Len(s) /\ \A i \in 1..Len(s) : s[i] \in S
    OBVIOUS
  <1>2. /\ Head(s) \in S /\ Head(s) = s[1] /\ Tail(s) \in Seq(S) /\ Len(Tail(s)) = Len(s) - 1
        /\ DOMAIN Tail(s) = 1..Len(s) - 1 /\ \A i \in 1..Len(s) - 1 : Tail(s)[i] = s[i + 1]
    BY <1>1
  <1>3. n \in Nat /\ \A i \in 1..n : s[i] \in S
    BY <1>1
  <1>4. t = [i \in 1..n |-> s[i]]
    BY <1>1, <1>3
  <1>5. t \in Seq(S) /\ Len(t) = n /\ \A i \in 1..n : t[i] = s[i]
    <2>1. n \in Nat /\ t \in [1..n -> S] /\ \A i \in 1..n : t[i] = s[i]
      BY <1>3, <1>4
    <2> HIDE DEF n, t
    <2> QED BY <2>1
  <1> QED BY <1>1, <1>2, <1>5

\* The types of the server's messages.
LEMMA MessageTypes ==
    /\ Server!ReplyTypes = {"error", "ack", "initial"} /\ Server!Updates = {"table", "record", "garbled"}
    /\ \A kind : Server!Replies(kind) \subseteq Server!ReplyTypes
    /\ Types = {"error", "ack", "initial", "table", "record", "garbled", "nothing"}
  BY DEF Server!ReplyTypes, Server!Updates, Server!Replies, Types

\* How long the sequences are.
LEMMA Lengths ==
    ASSUME TypeOK
    PROVE  /\ Len(asked) \in Nat /\ Len(sent) \in Nat /\ Len(toServer) \in Nat
           /\ Len(channels) \in Nat /\ Len(incoming) \in Nat /\ taken \in Nat /\ taken <= Len(sent)
           /\ DOMAIN asked = 1..Len(asked) /\ DOMAIN sent = 1..Len(sent)
           /\ DOMAIN toServer = 1..Len(toServer) /\ DOMAIN channels = 1..Len(channels)
           /\ Pending \in {0, 1} /\ Delivered \in Int /\ Delivered <= taken
           /\ InIncoming => Delivered < taken
           /\ InLoop => Delivered < taken
  BY DEF TypeOK, Pending, Delivered

\* What the server has and the socket holds, among the client's statements.
LEMMA Room ==
    ASSUME TypeOK, PipelineOK
    PROVE  /\ Len(asked) + Len(toServer) <= Len(channels)
           /\ Pending = 1 => /\ Len(asked) + Len(toServer) + 1 <= Len(channels)
                             /\ Len(channels) \in DOMAIN channels
           /\ open /\ Pending = 0 => Len(asked) + Len(toServer) = Len(channels)
           /\ open /\ Pending = 1 => Len(asked) + Len(toServer) + 1 = Len(channels)
           /\ DOMAIN asked \subseteq DOMAIN channels
           /\ \A k \in DOMAIN toServer : Len(asked) + k \in DOMAIN channels
  <1>1. /\ Len(asked) + Len(toServer) + Pending <= Len(channels)
        /\ open => Len(asked) + Len(toServer) + Pending = Len(channels)
    BY DEF PipelineOK
  <1>2. /\ Len(asked) \in Nat /\ Len(toServer) \in Nat /\ Len(channels) \in Nat /\ Pending \in {0, 1}
        /\ DOMAIN asked = 1..Len(asked) /\ DOMAIN toServer = 1..Len(toServer)
        /\ DOMAIN channels = 1..Len(channels)
    BY Lengths
  <1> DEFINE a == Len(asked)  b == Len(toServer)  c == Len(channels)
  <1> HIDE DEF a, b, c
  <1>3. /\ a \in Nat /\ b \in Nat /\ c \in Nat /\ a + b + Pending <= c /\ Pending \in {0, 1}
        /\ open => a + b + Pending = c
    BY <1>1, <1>2 DEF a, b, c
  <1>4. /\ a + b <= c /\ (Pending = 1 => a + b + 1 <= c /\ c \in 1..c)
        /\ (open /\ Pending = 0 => a + b = c) /\ (open /\ Pending = 1 => a + b + 1 = c)
    BY <1>3
  <1>5. 1..a \subseteq 1..c /\ \A k \in 1..b : a + k \in 1..c
    BY <1>3
  <1> QED BY <1>2, <1>4, <1>5 DEF a, b, c

\* What callers and results know of the messages that have been read depends on
\* those only.
LEMMA ReadKept ==
    ASSUME TypeOK, HandsOK, CallsOK, ResultsOK, \A i \in 1..taken : sent'[i] = sent[i],
           UNCHANGED <<asked, taken, incoming, loop, callVars>>
    PROVE  HandsOK' /\ CallsOK' /\ ResultsOK'
  <1> USE DEF callVars
  <1>1. Delivered' = Delivered /\ InIncoming' = InIncoming /\ InLoop' = InLoop
    BY DEF Delivered, InIncoming, InLoop
  <1>2. Delivered \in Nat /\ Delivered <= taken /\ (InIncoming => taken \in 1..taken)
        /\ (InLoop => Delivered + 1 \in 1..taken) /\ \A i \in 1..Delivered : i \in 1..taken
    BY Lengths DEF HandsOK
  <1>3. HandsOK'
    BY <1>1, <1>2 DEF HandsOK
  <1>4. CallsOK'
    BY <1>1, <1>2 DEF CallsOK, Waits
  <1>5. ASSUME NEW p \in Callers, NEW i \in DOMAIN results[p]
        PROVE  Returned(results[p][i])'
    <2> DEFINE r == results[p][i]
    <2>1. Returned(r)
      BY DEF ResultsOK
    <2>2. PICK j \in 1..Delivered : /\ sent[j] = [chan |-> r.call.chan, type |-> r.got]
                                    /\ \A k \in 1..j-1 : ~For(sent[k], r.call.chan)
      BY <2>1 DEF Returned
    <2>3. \A k \in 1..j-1 : k \in 1..taken
      BY <1>2
    <2>4. r' = r
      OBVIOUS
    <2> HIDE DEF r
    <2>5. j \in 1..Delivered' /\ sent'[j] = [chan |-> r.call.chan, type |-> r.got]
          /\ \A k \in 1..j-1 : ~For(sent'[k], r.call.chan)
      BY <1>1, <1>2, <2>2, <2>3
    <2>6. Returned(r)'
      BY <2>1, <2>4, <2>5 DEF Returned
    <2> QED BY <2>6 DEF r
  <1> QED BY <1>3, <1>4, <1>5 DEF ResultsOK

\* A call that has returned stays so when more is delivered.
LEMMA ReturnedKept ==
    ASSUME NEW r, Returned(r), Delivered \in Int, Delivered' \in Int, Delivered <= Delivered',
           UNCHANGED <<asked, sent>>
    PROVE  Returned(r)'
  <1>1. \A j \in 1..Delivered : j \in 1..Delivered'
    OBVIOUS
  <1> QED BY <1>1 DEF Returned

\* A step by which nothing is delivered and nothing said tells the callers nothing.
LEMMA NoneDelivered ==
    ASSUME TypeOK, CallsOK, ResultsOK, Delivered' = Delivered, UNCHANGED <<asked, sent, callVars>>
    PROVE  CallsOK' /\ ResultsOK'
  <1> USE DEF callVars
  <1>1. CallsOK'
    BY DEF CallsOK, Waits
  <1>2. ASSUME NEW p \in Callers, NEW i \in DOMAIN results[p], NEW r, r = results[p][i]
        PROVE  Returned(r)'
    BY <1>2, Lengths, ReturnedKept DEF ResultsOK
  <1> QED BY <1>1, <1>2 DEF ResultsOK

-----------------------------------------------------------------------------
(* The server and the socket.                                              *)

LEMMA AsksInv ==
    ASSUME Inv, ServerAsks
    PROVE  Inv'
  <1> USE DEF Inv, callVars
  <1> DEFINE s == Head(toServer)
  <1>1. /\ toServer # << >> /\ toServer' = Tail(toServer) /\ asked' = Append(asked, s) /\ busy' = TRUE
        /\ UNCHANGED <<sent, open, taken, failed, incoming, loop, callVars, alive>>
    BY DEF ServerAsks, Server!Ask
  <1>2. asked \in Seq(Requests) /\ toServer \in Seq(Requests)
    BY DEF TypeOK
  <1>3. /\ s \in Requests /\ s = toServer[1] /\ Len(toServer) \in Nat \ {0}
        /\ toServer' \in Seq(Requests) /\ Len(toServer') = Len(toServer) - 1
        /\ DOMAIN toServer' = 1..Len(toServer) - 1 /\ DOMAIN toServer = 1..Len(toServer)
        /\ \A i \in 1..Len(toServer) - 1 : toServer'[i] = toServer[i + 1]
    BY <1>1, <1>2, Shorter
  <1> HIDE DEF s
  <1>4. /\ asked' \in Seq(Requests) /\ Len(asked) \in Nat /\ Len(asked') = Len(asked) + 1
        /\ DOMAIN asked = 1..Len(asked) /\ DOMAIN asked' = 1..Len(asked) + 1
        /\ \A i \in 1..Len(asked) : asked'[i] = asked[i]
        /\ asked'[Len(asked) + 1] = s
    BY <1>1, <1>2, <1>3, Longer
  <1>5. TypeOK'
    BY <1>1, <1>3, <1>4 DEF TypeOK
  <1>6. PipelineOK'
    <2>1. Pending' = Pending /\ Pending \in {0, 1} /\ Len(channels) \in Nat
      BY <1>1, Lengths DEF Pending
    <2>2. Len(asked') + Len(toServer') = Len(asked) + Len(toServer)
      BY <1>3, <1>4
    <2>3. ASSUME NEW n \in DOMAIN asked'  PROVE asked'[n] = channels[n]
      <3>1. CASE n \in DOMAIN asked
        BY <1>4, <3>1 DEF PipelineOK
      <3>2. CASE n = Len(asked) + 1
        BY <1>3, <1>4, <3>2 DEF PipelineOK
      <3> QED BY <1>4, <3>1, <3>2
    <2>4. ASSUME NEW k \in DOMAIN toServer'  PROVE toServer'[k] = channels[Len(asked') + k]
      <3>1. k + 1 \in DOMAIN toServer /\ toServer'[k] = toServer[k + 1]
            /\ Len(asked') + k = Len(asked) + (k + 1)
        BY <1>3, <1>4
      <3> QED BY <3>1 DEF PipelineOK
    <2> QED BY <1>1, <2>1, <2>2, <2>3, <2>4 DEF PipelineOK
  <1>7. SentOK'
    <2>1. ASSUME NEW i \in DOMAIN sent  PROVE Fits(sent[i])'
      BY <1>1, <1>4 DEF SentOK, Fits
    <2> QED BY <1>1, <1>4, <2>1 DEF SentOK
  <1>8. Delivered' = Delivered /\ InIncoming' = InIncoming /\ InLoop' = InLoop
    BY <1>1 DEF Delivered, InIncoming, InLoop
  <1>9. HandsOK' /\ CallsOK'
    BY <1>1, <1>8 DEF HandsOK, CallsOK, Waits
  <1>10. ResultsOK'
    <2>1. ASSUME NEW p \in Callers, NEW i \in DOMAIN results[p]
          PROVE  Returned(results[p][i])'
      <3> DEFINE r == results[p][i]
      <3>1. Returned(r) /\ r' = r /\ sent' = sent
        BY <1>1 DEF ResultsOK
      <3> HIDE DEF r
      <3>2. Returned(r)'
        BY <1>4, <1>8, <3>1 DEF Returned
      <3> QED BY <3>2 DEF r
    <2> QED BY <1>1, <2>1 DEF ResultsOK
  <1> QED BY <1>5, <1>6, <1>7, <1>9, <1>10

\* The server writes a message that fits its statement.
LEMMA WritesInv ==
    ASSUME Inv, ServerWrites
    PROVE  Inv'
  <1> USE DEF Inv
  <1> DEFINE Written(n, type) ==
           /\ Fits([chan |-> n, type |-> type])
           /\ sent' = IF open THEN Append(sent, [chan |-> n, type |-> type]) ELSE sent
           /\ busy' \in BOOLEAN /\ (busy' => busy)
           /\ UNCHANGED <<asked, open, toServer, taken, failed, incoming, loop, callVars, alive>>
  <1>1. PICK n \in DOMAIN asked, type \in Types \ {"nothing"} : Written(n, type)
    <2>1. ASSUME NEW type \in Server!ReplyTypes, Server!Answer(type)
          PROVE  /\ Len(asked) \in DOMAIN asked /\ Fits([chan |-> Len(asked), type |-> type])
                 /\ sent' = IF open THEN Append(sent, [chan |-> Len(asked), type |-> type]) ELSE sent
                 /\ busy' \in BOOLEAN /\ (busy' => busy) /\ UNCHANGED <<asked, open>>
      <3>1. Len(asked) \in DOMAIN asked
        BY <2>1, Lengths DEF Server!Answer, SentOK, TypeOK
      <3> QED BY <2>1, <3>1 DEF Server!Answer, Server!Write, Fits
    <2>2. ASSUME NEW n \in DOMAIN asked, NEW type \in {"record", "garbled"}, Server!Update(n, type)
          PROVE  /\ Fits([chan |-> n, type |-> type])
                 /\ sent' = IF open THEN Append(sent, [chan |-> n, type |-> type]) ELSE sent
                 /\ UNCHANGED <<busy, asked, open>>
      BY <2>2, MessageTypes DEF Server!Update, Server!Write, Fits
    <2>3. UNCHANGED <<toServer, taken, failed, incoming, loop, callVars, alive>>
      BY DEF ServerWrites
    <2>4. ASSUME NEW type \in Server!ReplyTypes, Server!Answer(type)
          PROVE  Len(asked) \in DOMAIN asked /\ type \in Types \ {"nothing"} /\ Written(Len(asked), type)
      <3>1. type \in Types \ {"nothing"}
        BY <2>4, MessageTypes
      <3> QED BY <2>1, <2>3, <2>4, <3>1
    <2>5. ASSUME NEW n \in DOMAIN asked, NEW type \in {"record", "garbled"}, Server!Update(n, type)
          PROVE  type \in Types \ {"nothing"} /\ Written(n, type)
      <3>1. type \in Types \ {"nothing"}
        BY MessageTypes
      <3>2. busy' \in BOOLEAN /\ (busy' => busy)
        BY <2>2, <2>5 DEF TypeOK
      <3> QED BY <2>2, <2>3, <2>5, <3>1, <3>2
    <2> HIDE DEF Written
    <2> QED BY <2>4, <2>5 DEF ServerWrites
  <1> DEFINE m == [chan |-> n, type |-> type]
  <1>2. m \in [chan : Nat \ {0}, type : Types \ {"nothing"}] /\ Fits(m)
    BY <1>1, Lengths
  <1> HIDE DEF m
  <1>3. /\ sent' \in Seq([chan : Nat \ {0}, type : Types \ {"nothing"}]) /\ Len(sent) <= Len(sent')
        /\ Len(sent') \in Nat /\ DOMAIN sent' = 1..Len(sent')
        /\ \A i \in 1..Len(sent) : sent'[i] = sent[i]
        /\ \A i \in DOMAIN sent' : i \in DOMAIN sent \/ sent'[i] = m
    <2>1. sent \in Seq([chan : Nat \ {0}, type : Types \ {"nothing"}])
      BY DEF TypeOK
    <2>2. sent' = IF open THEN Append(sent, m) ELSE sent
      BY <1>1 DEF m
    <2>3. CASE open
      <3>1. sent' = Append(sent, m)
        BY <2>2, <2>3
      <3> QED BY <1>2, <2>1, <3>1, Longer
    <2>4. CASE ~open
      BY <2>1, <2>2, <2>4
    <2> QED BY <2>3, <2>4
  <1>4. TypeOK'
    <2>1. taken' \in 0..Len(sent')
      BY <1>1, <1>3, Lengths
    <2> QED BY <1>1, <1>3, <2>1 DEF TypeOK, callVars
  <1>5. PipelineOK'
    BY <1>1 DEF PipelineOK, Pending, callVars
  <1>6. SentOK'
    <2>1. ASSUME NEW i \in DOMAIN sent'  PROVE Fits(sent'[i])
      BY <1>2, <1>3, Lengths DEF SentOK
    <2> QED BY <1>1, <2>1 DEF SentOK, Fits
  <1> QED BY <1>1, <1>3, <1>4, <1>5, <1>6, Lengths, ReadKept

\* The connection is lost, with what handleIncoming has not read.
LEMMA LoseInv ==
    ASSUME Inv, LoseConnection
    PROVE  Inv'
  <1> USE DEF Inv
  <1>1. /\ open' = FALSE /\ taken <= Len(sent')
        /\ sent' = sent \/ (sent # << >> /\ sent' = SubSeq(sent, 1, Len(sent) - 1))
        /\ UNCHANGED <<asked, busy, toServer, taken, failed, incoming, loop, callVars, alive>>
    BY DEF LoseConnection, Server!Close
  <1>2. /\ sent' \in Seq([chan : Nat \ {0}, type : Types \ {"nothing"}])
        /\ Len(sent') \in Nat /\ Len(sent') <= Len(sent) /\ DOMAIN sent' = 1..Len(sent')
        /\ \A i \in 1..Len(sent') : sent'[i] = sent[i]
    <2>1. sent \in Seq([chan : Nat \ {0}, type : Types \ {"nothing"}])
      BY DEF TypeOK
    <2>2. CASE sent' = sent
      BY <2>1, <2>2
    <2>3. CASE sent # << >> /\ sent' = SubSeq(sent, 1, Len(sent) - 1)
      <3>1. /\ sent' \in Seq([chan : Nat \ {0}, type : Types \ {"nothing"}])
            /\ Len(sent') = Len(sent) - 1 /\ Len(sent) \in Nat \ {0}
            /\ \A i \in 1..Len(sent) - 1 : sent'[i] = sent[i]
        BY <2>1, <2>3, Shorter
      <3> QED BY <3>1
    <2> QED BY <1>1, <2>2, <2>3
  <1>3. TypeOK'
    <2>1. taken' \in 0..Len(sent')
      <3>1. taken' = taken /\ taken \in Nat /\ taken <= Len(sent') /\ Len(sent') \in Nat
        BY <1>1, <1>2, Lengths
      <3> QED BY <3>1
    <2> QED BY <1>1, <1>2, <2>1 DEF TypeOK, callVars
  <1>4. PipelineOK'
    BY <1>1 DEF PipelineOK, Pending, callVars
  <1>5. SentOK'
    <2>1. ASSUME NEW i \in DOMAIN sent'  PROVE Fits(sent'[i])
      <3>1. i \in DOMAIN sent /\ sent'[i] = sent[i]
        BY <1>2, Lengths
      <3> QED BY <3>1 DEF SentOK
    <2> QED BY <1>1, <2>1 DEF SentOK, Fits
  <1>6. \A i \in 1..taken : sent'[i] = sent[i]
    <2>1. taken \in Nat /\ taken <= Len(sent') /\ Len(sent') \in Nat
      BY <1>1, <1>2, Lengths
    <2> QED BY <1>2, <2>1
  <1> QED BY <1>1, <1>3, <1>4, <1>5, <1>6, ReadKept

-----------------------------------------------------------------------------
(* handleIncoming.                                                         *)

LEMMA ReadMessageInv ==
    ASSUME Inv, ReadMessage
    PROVE  Inv'
  <1> USE DEF Inv
  <1> DEFINE m == Parsed(sent[taken + 1])
  <1>1. /\ incoming = << >> /\ taken < Len(sent) /\ taken' = taken + 1
        /\ incoming' = <<m>>
        /\ UNCHANGED <<asked, busy, sent, open, toServer, failed, loop, callVars, alive>>
    BY DEF ReadMessage, serverVars
  <1>2. /\ m \in [chan : Nat \ {0}, type : Types \ {"nothing"}] /\ m.type # "nothing"
        /\ taken' \in 0..Len(sent)
    <2>1. taken + 1 \in DOMAIN sent /\ taken + 1 \in 0..Len(sent)
      BY <1>1, Lengths
    <2>2. sent \in Seq([chan : Nat \ {0}, type : Types \ {"nothing"}])
      BY DEF TypeOK
    <2>3. sent[taken + 1] \in [chan : Nat \ {0}, type : Types \ {"nothing"}]
      BY <2>1, <2>2, Element
    <2>4. \A x \in [chan : Nat \ {0}, type : Types \ {"nothing"}] :
             Parsed(x) \in [chan : Nat \ {0}, type : Types \ {"nothing"}]
      BY DEF Parsed
    <2> QED BY <1>1, <2>1, <2>3, <2>4
  <1>3. Parsed(sent'[taken']) = m
    <2>1. sent' = sent /\ taken' = taken + 1
      BY <1>1
    <2> QED BY <2>1
  <1> HIDE DEF m
  <1>4. /\ incoming' \in Seq([chan : Nat \ {0}, type : Types]) /\ Len(incoming') = 1
        /\ incoming'[1] = m /\ incoming' # << >>
    BY <1>1, <1>2
  <1>5. TypeOK'
    BY <1>1, <1>2, <1>4 DEF TypeOK, callVars
  <1>6. PipelineOK' /\ SentOK'
    BY <1>1 DEF PipelineOK, Pending, callVars, SentOK, Fits
  <1>7. InIncoming' /\ ~InIncoming /\ InLoop' = InLoop
    BY <1>1, <1>2, <1>4 DEF InIncoming, InLoop
  <1>8. Delivered' = Delivered
    BY <1>1, <1>7, Lengths DEF Delivered
  <1>9. HandsOK'
    BY <1>1, <1>3, <1>4, <1>7, <1>8 DEF HandsOK
  <1> QED BY <1>1, <1>5, <1>6, <1>8, <1>9, NoneDelivered

LEMMA ReadNothingInv ==
    ASSUME Inv, ReadNothing
    PROVE  Inv'
  <1> USE DEF Inv
  <1>1. /\ incoming = << >> /\ incoming' = <<Nothing>> /\ failed < MaxReads /\ failed' = failed + 1
        /\ UNCHANGED <<asked, busy, sent, open, toServer, taken, loop, callVars, alive>>
    BY DEF ReadNothing, serverVars
  <1>2. /\ incoming' \in Seq([chan : Nat \ {0}, type : Types]) /\ Len(incoming') = 1
        /\ incoming'[1].type = "nothing"
    BY <1>1, MessageTypes DEF Nothing
  <1>3. failed' \in 0..MaxReads
    BY <1>1, ReadsAssumption DEF TypeOK
  <1>4. TypeOK'
    BY <1>1, <1>2, <1>3 DEF TypeOK, callVars
  <1>5. PipelineOK' /\ SentOK'
    BY <1>1 DEF PipelineOK, Pending, callVars, SentOK, Fits
  <1>6. ~InIncoming' /\ ~InIncoming /\ InLoop' = InLoop
    BY <1>1, <1>2 DEF InIncoming, InLoop
  <1>7. Delivered' = Delivered
    BY <1>1, <1>6 DEF Delivered
  <1>8. HandsOK'
    BY <1>1, <1>2, <1>6, <1>7 DEF HandsOK
  <1> QED BY <1>1, <1>4, <1>5, <1>7, <1>8, NoneDelivered

LEMMA ReadTooOftenInv ==
    ASSUME Inv, ReadTooOften
    PROVE  Inv'
  <1> USE DEF Inv
  <1>1. /\ alive' = FALSE
        /\ UNCHANGED <<asked, busy, sent, open, toServer, taken, failed, incoming, loop, callVars>>
    BY DEF ReadTooOften, serverVars
  <1>2. TypeOK'
    BY <1>1 DEF TypeOK, callVars
  <1>3. PipelineOK' /\ SentOK'
    BY <1>1 DEF PipelineOK, Pending, callVars, SentOK, Fits
  <1>4. Delivered' = Delivered /\ InIncoming' = InIncoming /\ InLoop' = InLoop
    BY <1>1 DEF Delivered, InIncoming, InLoop
  <1>5. HandsOK'
    BY <1>1, <1>4 DEF HandsOK
  <1> QED BY <1>1, <1>2, <1>3, <1>4, <1>5, NoneDelivered

-----------------------------------------------------------------------------
(* handleStatements.                                                       *)

LEMMA BeginCallInv ==
    ASSUME Inv, NEW p \in Callers, BeginCall(p)
    PROVE  Inv'
  <1> USE DEF Inv
  <1>0. PICK method \in Calls[p] : \E kind \in Kinds(method) :
           call' = [call EXCEPT ![p] = [st |-> "offer", method |-> method, kind |-> kind, chan |-> 0]]
    BY DEF BeginCall
  <1>1. PICK kind \in Kinds(method) :
           call' = [call EXCEPT ![p] = [st |-> "offer", method |-> method, kind |-> kind, chan |-> 0]]
    BY <1>0
  <1>2. /\ call[p] = Idle
        /\ UNCHANGED <<asked, busy, sent, open, toServer, taken, failed, incoming, loop, channels, results, reading, alive>>
    BY DEF BeginCall, serverVars
  <1> DEFINE c == [st |-> "offer", method |-> method, kind |-> kind, chan |-> 0]
  <1>3. method \in Methods \cup {"Statement"} /\ kind \in {"write", "query", "live"}
    BY CallsAssumption DEF Kinds, Methods
  <1>4. c \in CallStates /\ c.chan = 0 /\ c.st = "offer" /\ c.method = method /\ c.kind = kind
    BY <1>3 DEF CallStates
  <1> HIDE DEF c
  <1>5. call' = [call EXCEPT ![p] = c] /\ call \in [Callers -> CallStates]
    BY <1>1 DEF c, TypeOK
  <1>6. /\ call' \in [Callers -> CallStates] /\ call'[p] = c
        /\ \A q \in Callers \ {p} : call'[q] = call[q]
    BY <1>4, <1>5
  <1>7. TypeOK'
    <2>1. \A q \in Callers : call'[q].chan <= Len(channels)
      <3>1. Len(channels) \in Nat /\ \A q \in Callers : call[q].chan <= Len(channels)
        BY Lengths DEF TypeOK
      <3> QED BY <1>4, <1>6, <3>1
    <2> QED BY <1>2, <1>6, <2>1 DEF TypeOK
  <1>8. PipelineOK' /\ SentOK'
    BY <1>2 DEF PipelineOK, Pending, SentOK, Fits
  <1>9. Delivered' = Delivered /\ InIncoming' = InIncoming /\ InLoop' = InLoop
    BY <1>2 DEF Delivered, InIncoming, InLoop
  <1>10. HandsOK'
    BY <1>2, <1>9 DEF HandsOK
  <1>11. CallsOK'
    <2>1. ~Waits(p)' /\ \A q \in Callers \ {p} : Waits(q)' = Waits(q)
      BY <1>4, <1>6 DEF Waits
    <2>2. ASSUME NEW q \in Callers, call'[q].st # "idle"
          PROVE  call'[q].method \in Methods \cup {"Statement"} /\ call'[q].kind \in Kinds(call'[q].method)
      BY <1>3, <1>4, <1>6, <2>2 DEF CallsOK
    <2>3. ASSUME NEW q \in Callers, Waits(q)'
          PROVE  /\ call'[q].chan \in DOMAIN channels' \ reading'
                 /\ channels'[call'[q].chan].kind = call'[q].kind
                 /\ \A i \in 1..Delivered' : ~For(sent'[i], call'[q].chan)
                 /\ \A o \in Callers : Waits(o)' /\ call'[o].chan = call'[q].chan => o = q
      BY <1>2, <1>6, <1>9, <2>1, <2>3 DEF CallsOK
    <2> QED BY <2>2, <2>3 DEF CallsOK
  <1>12. ResultsOK'
    <2>1. ASSUME NEW q \in Callers, NEW i \in DOMAIN results[q], NEW r, r = results[q][i]
          PROVE  Returned(r)'
      BY <1>2, <1>9, <2>1, Lengths, ReturnedKept DEF ResultsOK
    <2> QED BY <1>2, <2>1 DEF ResultsOK
  <1> QED BY <1>7, <1>8, <1>10, <1>11, <1>12

\* The channel of a new statement is no other caller's, and no message was for it.
LEMMA TakeRequestInv ==
    ASSUME Inv, NEW p \in Callers, TakeRequest(p)
    PROVE  Inv'
  <1> USE DEF Inv
  <1> DEFINE n == Len(channels) + 1
             s == [kind |-> call[p].kind, chan |-> n]
             c == [call[p] EXCEPT !.st = "receive", !.chan = n]
  <1>1. /\ loop.st = "select" /\ call[p].st = "offer"
        /\ channels' = Append(channels, s)
        /\ call' = [call EXCEPT ![p] = c]
        /\ loop' = [Selecting EXCEPT !.st = "write", !.chan = n]
        /\ UNCHANGED <<asked, busy, sent, open, toServer, taken, failed, incoming, results, reading, alive>>
    BY DEF TakeRequest, Stored, serverVars
  <1>2. n \in Nat \ {0} /\ call \in [Callers -> CallStates] /\ channels \in Seq(Requests)
    BY Lengths DEF TypeOK
  <1>3. call[p].method \in Methods \cup {"Statement"} /\ call[p].kind \in Kinds(call[p].method)
    BY <1>1 DEF CallsOK
  <1>4. call[p].kind \in {"write", "query", "live"}
    BY <1>3 DEF Kinds, Methods
  <1>5. s \in Requests /\ s.chan = n /\ s.kind = call[p].kind
    BY <1>2, <1>4 DEF Requests
  <1>6. c \in CallStates /\ c.st = "receive" /\ c.chan = n /\ c.kind = call[p].kind /\ c.method = call[p].method
    BY <1>2 DEF CallStates
  <1>7. loop' = [st |-> "write", chan |-> n, type |-> "none"]
    BY <1>1 DEF Selecting
  <1>8. n = Len(channels) + 1
    OBVIOUS
  <1> HIDE DEF n, s, c
  <1>9. /\ call' \in [Callers -> CallStates] /\ call'[p] = c
        /\ \A q \in Callers \ {p} : call'[q] = call[q]
    BY <1>1, <1>2, <1>6
  <1>10. /\ channels' \in Seq(Requests) /\ Len(channels') = n /\ Len(channels) \in Nat
         /\ DOMAIN channels = 1..Len(channels) /\ DOMAIN channels' = 1..n
         /\ \A i \in 1..Len(channels) : channels'[i] = channels[i]
         /\ channels'[n] = s
    BY <1>1, <1>2, <1>5, <1>8, Longer
  <1>11. TypeOK'
    <2>1. \A q \in Callers : call'[q].chan <= Len(channels')
      <3>1. \A q \in Callers : call[q].chan \in Nat /\ call[q].chan <= Len(channels)
        BY DEF TypeOK, CallStates
      <3> QED BY <1>6, <1>8, <1>9, <1>10, <1>2, <3>1
    <2>2. reading' \subseteq DOMAIN channels'
      BY <1>1, <1>8, <1>10 DEF TypeOK
    <2>3. loop' \in [st : {"select", "write", "deliver"}, chan : Nat, type : Types \cup {"none"}]
      BY <1>2, <1>7
    <2> QED BY <1>1, <1>9, <1>10, <2>1, <2>2, <2>3 DEF TypeOK
  <1>12. PipelineOK'
    <2>1. Pending' = 1 /\ Pending = 0 /\ loop'.st = "write" /\ loop'.chan = n
      BY <1>1, <1>7 DEF Pending
    <2>2. /\ Len(asked) \in Nat /\ Len(toServer) \in Nat /\ Len(channels) \in Nat
          /\ Len(asked) + Len(toServer) <= Len(channels)
          /\ open => Len(asked) + Len(toServer) = Len(channels)
      BY <2>1, Lengths, Room
    <2>3. ASSUME NEW i \in DOMAIN channels'  PROVE channels'[i].chan = i
      <3>1. CASE i \in DOMAIN channels
        BY <1>10, <3>1 DEF PipelineOK
      <3>2. CASE i = n
        BY <1>5, <1>10, <3>2
      <3> QED BY <1>8, <1>10, <3>1, <3>2
    <2>4. ASSUME NEW i \in DOMAIN asked  PROVE asked[i] = channels'[i]
      <3>1. i \in 1..Len(channels)
        BY Lengths, Room
      <3>2. asked[i] = channels[i]
        BY DEF PipelineOK
      <3> QED BY <1>10, <3>1, <3>2
    <2>5. ASSUME NEW k \in DOMAIN toServer  PROVE toServer[k] = channels'[Len(asked) + k]
      <3>1. Len(asked) + k \in 1..Len(channels)
        BY Lengths, Room
      <3>2. toServer[k] = channels[Len(asked) + k]
        BY DEF PipelineOK
      <3> QED BY <1>10, <3>1, <3>2
    <2>6. Len(asked) + Len(toServer) + 1 <= n /\ (open => Len(asked) + Len(toServer) + 1 = n)
      BY <1>8, <2>2
    <2> QED BY <1>1, <1>10, <2>1, <2>3, <2>4, <2>5, <2>6 DEF PipelineOK
  <1>13. SentOK'
    BY <1>1 DEF SentOK, Fits
  <1>14. Delivered' = Delivered /\ InIncoming' = InIncoming /\ ~InLoop /\ ~InLoop'
    BY <1>1, <1>7 DEF Delivered, InIncoming, InLoop
  <1>15. HandsOK'
    BY <1>1, <1>14 DEF HandsOK
  <1>16. CallsOK'
    <2>1. Waits(p)' /\ \A q \in Callers \ {p} : Waits(q)' = Waits(q)
      BY <1>6, <1>9 DEF Waits
    <2>2. \A i \in 1..Delivered : ~For(sent[i], n)
      <3>1. ASSUME NEW i \in 1..Delivered  PROVE sent[i].chan \in DOMAIN asked
        <4>1. i \in DOMAIN sent
          BY Lengths
        <4> QED BY <4>1 DEF SentOK, Fits
      <3>2. n \notin DOMAIN asked
        BY <1>8, <1>10, Lengths DEF PipelineOK
      <3> QED BY <3>1, <3>2 DEF For
    <2>3. \A q \in Callers : Waits(q) => call[q].chan \in DOMAIN channels /\ call[q].chan # n
      BY <1>8, <1>10 DEF CallsOK
    <2>4. ASSUME NEW q \in Callers, call'[q].st # "idle"
          PROVE  call'[q].method \in Methods \cup {"Statement"} /\ call'[q].kind \in Kinds(call'[q].method)
      BY <1>3, <1>6, <1>9, <2>4 DEF CallsOK
    <2>5. ASSUME NEW q \in Callers, Waits(q)'
          PROVE  /\ call'[q].chan \in DOMAIN channels' \ reading'
                 /\ channels'[call'[q].chan].kind = call'[q].kind
                 /\ \A i \in 1..Delivered' : ~For(sent'[i], call'[q].chan)
                 /\ \A o \in Callers : Waits(o)' /\ call'[o].chan = call'[q].chan => o = q
      <3>1. CASE q = p
        <4>1. n \notin reading
          BY <1>8, <1>10 DEF TypeOK
        <4> QED BY <1>1, <1>2, <1>5, <1>6, <1>9, <1>10, <1>14, <2>1, <2>2, <2>3, <3>1, <4>1
      <3>2. CASE q # p
        <4>1. Waits(q) /\ call'[q] = call[q] /\ call[q].chan # n /\ call[q].chan \in DOMAIN channels
          BY <1>9, <2>1, <2>3, <2>5, <3>2
        <4>2. channels'[call[q].chan] = channels[call[q].chan] /\ call[q].chan \in DOMAIN channels'
          BY <1>8, <1>10, <4>1
        <4> QED BY <1>1, <1>6, <1>9, <1>14, <2>1, <4>1, <4>2 DEF CallsOK
      <3> QED BY <3>1, <3>2
    <2> QED BY <2>4, <2>5 DEF CallsOK
  <1>17. ResultsOK'
    <2>1. ASSUME NEW q \in Callers, NEW i \in DOMAIN results[q], NEW r, r = results[q][i]
          PROVE  Returned(r)'
      BY <1>1, <1>14, <2>1, Lengths, ReturnedKept DEF ResultsOK
    <2> QED BY <1>1, <2>1 DEF ResultsOK
  <1> QED BY <1>11, <1>12, <1>13, <1>15, <1>16, <1>17

\* While the connection lasts, the statement written is the one after those the
\* server has and the socket holds.
LEMMA WriteStatementInv ==
    ASSUME Inv, WriteStatement
    PROVE  Inv'
  <1> USE DEF Inv
  <1>1. /\ loop.st = "write"
        /\ IF open THEN toServer' = Append(toServer, channels[loop.chan]) ELSE toServer' = toServer
        /\ loop' = Selecting
        /\ UNCHANGED <<asked, busy, sent, open, taken, failed, incoming, callVars, alive>>
    BY DEF WriteStatement, Writes, serverVars
  <1>2. /\ Len(asked) \in Nat /\ Len(toServer) \in Nat /\ Len(channels) \in Nat
        /\ DOMAIN toServer = 1..Len(toServer) /\ DOMAIN channels = 1..Len(channels)
        /\ Len(asked) + Len(toServer) + 1 <= Len(channels)
        /\ open => Len(asked) + Len(toServer) + 1 = Len(channels)
        /\ loop.chan = Len(channels)
    <2>1. Pending = 1
      BY <1>1 DEF Pending
    <2>2. loop.chan = Len(channels)
      BY <1>1 DEF PipelineOK
    <2> QED BY <2>1, <2>2, Lengths, Room
  <1>3. loop' = [st |-> "select", chan |-> 0, type |-> "none"]
    BY <1>1 DEF Selecting
  <1>4. /\ toServer' \in Seq(Requests) /\ Len(toServer') \in Nat
        /\ DOMAIN toServer' = 1..Len(toServer')
        /\ Len(asked) + Len(toServer') <= Len(channels)
        /\ open => Len(asked) + Len(toServer') = Len(channels)
        /\ \A k \in DOMAIN toServer' : toServer'[k] = channels[Len(asked) + k]
    <2>1. toServer \in Seq(Requests) /\ channels \in Seq(Requests)
      BY DEF TypeOK
    <2>2. \A k \in DOMAIN toServer : toServer[k] = channels[Len(asked) + k]
      BY DEF PipelineOK
    <2>3. CASE open
      <3> DEFINE s == channels[Len(channels)]
      <3>1. s \in Requests
        <4>1. Len(channels) \in DOMAIN channels
          BY <1>1, Room DEF Pending
        <4> QED BY <2>1, <4>1, Element
      <3>2. toServer' = Append(toServer, s)
        BY <1>1, <1>2, <2>3
      <3>3. Len(asked) + (Len(toServer) + 1) = Len(channels)
        BY <1>2, <2>3
      <3>4. s = channels[Len(asked) + (Len(toServer) + 1)]
        BY <3>3
      <3> HIDE DEF s
      <3>5. /\ toServer' \in Seq(Requests) /\ Len(toServer') = Len(toServer) + 1
            /\ DOMAIN toServer' = 1..Len(toServer) + 1
            /\ \A i \in 1..Len(toServer) : toServer'[i] = toServer[i]
            /\ toServer'[Len(toServer) + 1] = s
        BY <2>1, <3>1, <3>2, Longer
      <3>6. ASSUME NEW k \in DOMAIN toServer'  PROVE toServer'[k] = channels[Len(asked) + k]
        <4>1. CASE k \in DOMAIN toServer
          BY <1>2, <2>2, <3>5, <4>1
        <4>2. CASE k = Len(toServer) + 1
          BY <3>4, <3>5, <4>2
        <4>3. k \in DOMAIN toServer \/ k = Len(toServer) + 1
          <5>1. Len(toServer) \in Nat /\ DOMAIN toServer = 1..Len(toServer) /\ k \in 1..Len(toServer) + 1
            BY <3>5, Lengths
          <5> QED BY <5>1
        <4> QED BY <4>1, <4>2, <4>3
      <3> QED BY <1>2, <2>3, <3>3, <3>5, <3>6
    <2>4. CASE ~open
      <3>1. toServer' = toServer
        BY <1>1, <2>4
      <3>2. Len(asked) + Len(toServer) <= Len(channels)
        BY Room
      <3> QED BY <1>2, <2>1, <2>2, <2>4, <3>1, <3>2
    <2> QED BY <2>3, <2>4
  <1>5. TypeOK'
    <2>1. loop' \in [st : {"select", "write", "deliver"}, chan : Nat, type : Types \cup {"none"}]
      BY <1>3
    <2> QED BY <1>1, <1>4, <2>1 DEF TypeOK, callVars
  <1>6. PipelineOK'
    <2>1. Pending' = 0 /\ loop'.st = "select"
      BY <1>3 DEF Pending
    <2>2. Len(asked) + Len(toServer') + Pending' = Len(asked) + Len(toServer')
      <3>1. Len(asked) \in Nat /\ Len(toServer') \in Nat
        BY <1>4, Lengths
      <3> QED BY <2>1, <3>1
    <2> QED BY <1>1, <1>4, <2>1, <2>2 DEF PipelineOK, callVars
  <1>7. SentOK'
    BY <1>1 DEF SentOK, Fits
  <1>8. Delivered' = Delivered /\ InIncoming' = InIncoming /\ ~InLoop /\ ~InLoop'
    BY <1>1, <1>3 DEF Delivered, InIncoming, InLoop
  <1>9. HandsOK'
    BY <1>1, <1>8 DEF HandsOK
  <1> QED BY <1>1, <1>5, <1>6, <1>7, <1>8, <1>9, NoneDelivered

\* Only the empty message may have no channel: any other is for a statement that
\* the server has, hence the client too.
LEMMA TakeMessageInv ==
    ASSUME Inv, TakeMessage
    PROVE  Inv'
  <1> USE DEF Inv
  <1> DEFINE m == incoming[1]
  <1>1. /\ loop.st = "select" /\ incoming # << >> /\ incoming' = << >>
        /\ \/ m.chan \in DOMAIN channels /\ loop' = [st |-> "deliver", chan |-> m.chan, type |-> m.type]
              /\ alive' = alive
           \/ m.chan \notin DOMAIN channels /\ loop' = loop /\ alive' = FALSE
        /\ UNCHANGED <<asked, busy, sent, open, toServer, taken, failed, callVars>>
    BY DEF TakeMessage, serverVars
  <1>2. m \in [chan : Nat \ {0}, type : Types] /\ (InIncoming <=> m.type # "nothing")
    <2>1. incoming \in Seq([chan : Nat \ {0}, type : Types]) /\ 1 \in DOMAIN incoming
      BY <1>1 DEF TypeOK
    <2>2. m \in [chan : Nat \ {0}, type : Types]
      BY <2>1, Element
    <2> QED BY <1>1, <2>2 DEF InIncoming
  <1>3. InIncoming => /\ m = Parsed(sent[taken]) /\ taken \in DOMAIN sent /\ Fits(sent[taken])
    <2>1. InIncoming => m = Parsed(sent[taken]) /\ taken \in DOMAIN sent
      BY Lengths DEF HandsOK
    <2> QED BY <2>1 DEF SentOK
  <1>4. DOMAIN asked \subseteq DOMAIN channels
    BY Room
  <1>5. InIncoming => m.chan \in DOMAIN channels
    <2>1. SUFFICES ASSUME InIncoming  PROVE m.chan \in DOMAIN channels
      OBVIOUS
    <2>2. sent[taken].chan \in DOMAIN asked /\ m = Parsed(sent[taken])
      BY <1>3, <2>1 DEF Fits
    <2>3. m.chan = sent[taken].chan \/ m.chan = 1
      <3>1. \A x \in [chan : Nat \ {0}, type : Types \ {"nothing"}] : Parsed(x).chan \in {x.chan, 1}
        BY DEF Parsed
      <3>2. sent[taken] \in [chan : Nat \ {0}, type : Types \ {"nothing"}]
        <4>1. sent \in Seq([chan : Nat \ {0}, type : Types \ {"nothing"}])
          BY DEF TypeOK
        <4> QED BY <1>3, <2>1, <4>1, Element
      <3> QED BY <2>2, <3>1, <3>2
    <2>4. 1 \in DOMAIN asked
      BY <2>2, Lengths
    <2> QED BY <1>4, <2>2, <2>3, <2>4
  <1>6. ~InIncoming' /\ ~InLoop /\ Pending = 0 /\ Pending' = 0
        /\ (InLoop' <=> InIncoming)
    BY <1>1, <1>2, <1>5 DEF InIncoming, InLoop, Pending
  <1>7. Delivered' = Delivered
    BY <1>1, <1>6, Lengths DEF Delivered
  <1>8. TypeOK'
    <2>1. loop' \in [st : {"select", "write", "deliver"}, chan : Nat, type : Types \cup {"none"}]
      <3>1. loop \in [st : {"select", "write", "deliver"}, chan : Nat, type : Types \cup {"none"}]
        BY DEF TypeOK
      <3>2. m.chan \in Nat /\ m.type \in Types
        BY <1>2
      <3> HIDE DEF m
      <3> QED BY <1>1, <3>1, <3>2
    <2>2. incoming' \in Seq([chan : Nat \ {0}, type : Types]) /\ alive' \in BOOLEAN
      <3>1. alive \in BOOLEAN
        BY DEF TypeOK
      <3>2. incoming' = << >> /\ alive' \in BOOLEAN
        BY <1>1, <3>1
      <3> QED BY <3>2
    <2> QED BY <1>1, <2>1, <2>2 DEF TypeOK, callVars
  <1>9. PipelineOK'
    <2>1. loop'.st # "write" /\ (loop'.st = "deliver" => loop'.chan \in DOMAIN channels)
      BY <1>1
    <2> QED BY <1>1, <1>6, <2>1 DEF PipelineOK, callVars
  <1>10. SentOK'
    BY <1>1 DEF SentOK, Fits
  <1>11. HandsOK'
    <2>1. InLoop' => Parsed(sent[Delivered + 1]) = [chan |-> loop'.chan, type |-> loop'.type]
      <3>1. SUFFICES ASSUME InLoop'
                     PROVE  Parsed(sent[Delivered + 1]) = [chan |-> loop'.chan, type |-> loop'.type]
        OBVIOUS
      <3>2. Delivered + 1 = taken
        BY <1>6, <3>1, Lengths DEF Delivered
      <3>3. loop'.chan = m.chan /\ loop'.type = m.type
        BY <1>1, <1>5, <1>6, <3>1
      <3>4. Parsed(sent[taken]) = m
        BY <1>3, <1>6, <3>1
      <3> HIDE DEF m
      <3> QED BY <1>2, <3>2, <3>3, <3>4
    <2>2. Len(incoming') = 0 /\ Delivered' \in Nat
      BY <1>1, <1>7 DEF HandsOK
    <2> QED BY <1>1, <1>6, <1>7, <2>1, <2>2 DEF HandsOK
  <1> QED BY <1>1, <1>7, <1>8, <1>9, <1>10, <1>11, NoneDelivered

\* What the loop delivers is the first message that has not been delivered, and an
\* empty one is for nobody.
LEMMA TakenByOther ==
    ASSUME Inv, InLoop, ~InLoop', UNCHANGED <<asked, sent, taken, incoming>>
    PROVE  /\ Delivered' = Delivered + 1 /\ Delivered \in Nat
           /\ Delivered + 1 \in DOMAIN sent
           /\ Parsed(sent[Delivered + 1]) = [chan |-> loop.chan, type |-> loop.type]
           /\ Fits(sent[Delivered + 1])
           /\ \A n : For(sent[Delivered + 1], n) => n = loop.chan /\ ~IsEmpty(loop)
           /\ ~IsEmpty(loop) => sent[Delivered + 1] = [chan |-> loop.chan, type |-> loop.type]
  <1> USE DEF Inv
  <1> DEFINE m == sent[Delivered + 1]
  <1>1. InIncoming' = InIncoming
    BY DEF InIncoming
  <1>2. Delivered' = Delivered + 1 /\ Delivered \in Nat
    BY <1>1, Lengths DEF Delivered, HandsOK
  <1>3. Delivered + 1 \in DOMAIN sent
    BY <1>2, Lengths
  <1>4. Parsed(m) = [chan |-> loop.chan, type |-> loop.type] /\ Fits(m)
    BY <1>3 DEF HandsOK, SentOK
  <1>5. m \in [chan : Nat \ {0}, type : Types \ {"nothing"}]
    <2>1. sent \in Seq([chan : Nat \ {0}, type : Types \ {"nothing"}])
      BY DEF TypeOK
    <2> QED BY <1>3, <2>1, Element
  <1> HIDE DEF m
  <1>6. m.type = loop.type /\ (m.type # "garbled" => m = [chan |-> loop.chan, type |-> loop.type])
    BY <1>4, <1>5 DEF Parsed
  <1>7. /\ \A n : For(m, n) => n = loop.chan /\ ~IsEmpty(loop)
        /\ ~IsEmpty(loop) => m = [chan |-> loop.chan, type |-> loop.type]
    BY <1>6 DEF For, IsEmpty
  <1> QED BY <1>2, <1>3, <1>4, <1>7 DEF m

\* A message delivered to nobody whose call waits for it.
LEMMA OneDelivered ==
    ASSUME Inv, InLoop, ~InLoop', UNCHANGED <<asked, sent, taken, incoming, callVars>>,
           \A q \in Callers : Waits(q) => ~For(sent[Delivered + 1], call[q].chan)
    PROVE  HandsOK' /\ CallsOK' /\ ResultsOK'
  <1> USE DEF Inv
  <1>1. Delivered' = Delivered + 1 /\ Delivered \in Nat /\ Delivered' \in Nat
    BY TakenByOther
  <1>2. HandsOK'
    <2>1. InIncoming' = InIncoming
      BY DEF InIncoming
    <2> QED BY <1>1, <2>1 DEF HandsOK
  <1>3. \A i \in 1..Delivered' : i \in 1..Delivered \/ i = Delivered + 1
    BY <1>1
  <1>4. CallsOK'
    <2>1. ASSUME NEW q \in Callers, Waits(q)
          PROVE  \A i \in 1..Delivered' : ~For(sent[i], call[q].chan)
      BY <1>3, <2>1 DEF CallsOK
    <2>2. \A q \in Callers : Waits(q)' = Waits(q)
      BY DEF Waits, callVars
    <2> QED BY <2>1, <2>2 DEF CallsOK, callVars
  <1>5. ResultsOK'
    <2>1. ASSUME NEW q \in Callers, NEW i \in DOMAIN results[q], NEW r, r = results[q][i]
          PROVE  Returned(r)'
      BY <1>1, <2>1, ReturnedKept DEF ResultsOK
    <2> QED BY <2>1 DEF ResultsOK, callVars
  <1> QED BY <1>2, <1>4, <1>5

LEMMA ReadUpdateInv ==
    ASSUME Inv, ReadUpdate
    PROVE  Inv'
  <1> USE DEF Inv
  <1>1. /\ loop.st = "deliver" /\ loop.chan \in reading
        /\ loop' = [st |-> "select", chan |-> 0, type |-> "none"]
        /\ alive' \in BOOLEAN
        /\ UNCHANGED <<asked, busy, sent, open, toServer, taken, failed, incoming, callVars>>
    BY DEF ReadUpdate, Selecting, serverVars
  <1>2. TypeOK'
    <2>1. loop' \in [st : {"select", "write", "deliver"}, chan : Nat, type : Types \cup {"none"}]
      BY <1>1
    <2> QED BY <1>1, <2>1 DEF TypeOK, callVars
  <1>3. PipelineOK'
    <2>1. Pending' = Pending /\ loop'.st = "select"
      BY <1>1 DEF Pending
    <2> QED BY <1>1, <2>1 DEF PipelineOK, callVars
  <1>4. SentOK'
    BY <1>1 DEF SentOK, Fits
  <1>5. InIncoming' = InIncoming /\ ~InLoop'
    BY <1>1 DEF InIncoming, InLoop
  <1>6. CASE InLoop
    <2>1. \A q \in Callers : Waits(q) => call[q].chan # loop.chan
      BY <1>1 DEF CallsOK
    <2>2. HandsOK' /\ CallsOK' /\ ResultsOK'
      BY <1>1, <1>5, <1>6, <2>1, TakenByOther, OneDelivered
    <2> QED BY <1>2, <1>3, <1>4, <2>2
  <1>7. CASE ~InLoop
    <2>1. Delivered' = Delivered
      BY <1>1, <1>5, <1>7 DEF Delivered
    <2>2. HandsOK'
      BY <1>1, <1>5, <1>7, <2>1 DEF HandsOK
    <2> QED BY <1>1, <1>2, <1>3, <1>4, <2>1, <2>2, NoneDelivered
  <1> QED BY <1>6, <1>7

\* The first message delivered on its channel is the caller's result, and of a type
\* that its method expects, unless the call is a LiveQuery and the message an update.
LEMMA ReceiveInv ==
    ASSUME Inv, NEW p \in Callers, Receive(p)
    PROVE  Inv'
  <1> USE DEF Inv
  <1>1. /\ loop.st = "deliver" /\ Waits(p) /\ call[p].chan = loop.chan
        /\ loop' = [st |-> "select", chan |-> 0, type |-> "none"]
        /\ UNCHANGED <<asked, busy, sent, open, toServer, taken, failed, incoming, channels>>
    BY DEF Receive, Meets, Waits, Selecting, serverVars
  <1>2. loop' \in [st : {"select", "write", "deliver"}, chan : Nat, type : Types \cup {"none"}]
    BY <1>1
  <1>3. PipelineOK'
    <2>1. Pending' = Pending /\ loop'.st = "select"
      BY <1>1 DEF Pending
    <2> QED BY <1>1, <2>1 DEF PipelineOK
  <1>4. SentOK'
    BY <1>1 DEF SentOK, Fits
  <1>5. InIncoming' = InIncoming /\ ~InLoop'
    BY <1>1 DEF InIncoming, InLoop
  <1>6. CASE loop.type = "nothing"
    <2>1. alive' = FALSE /\ UNCHANGED callVars
      BY <1>1, <1>6 DEF Receive, IsEmpty, callVars
    <2>2. Delivered' = Delivered /\ ~InLoop
      BY <1>1, <1>5, <1>6 DEF Delivered, InLoop
    <2>3. TypeOK'
      BY <1>1, <1>2, <2>1 DEF TypeOK, callVars
    <2>4. HandsOK'
      BY <1>1, <1>5, <2>2 DEF HandsOK
    <2> QED BY <1>1, <1>3, <1>4, <2>1, <2>2, <2>3, <2>4, NoneDelivered
  <1>7. CASE loop.type = "garbled"
    <2>1. alive' = FALSE /\ UNCHANGED callVars
      BY <1>1, <1>7 DEF Receive, IsEmpty, callVars
    <2>2. InLoop /\ IsEmpty(loop)
      BY <1>1, <1>7 DEF InLoop, IsEmpty
    <2>3. TypeOK'
      BY <1>1, <1>2, <2>1 DEF TypeOK, callVars
    <2>4. HandsOK' /\ CallsOK' /\ ResultsOK'
      BY <1>1, <1>5, <2>1, <2>2, TakenByOther, OneDelivered
    <2> QED BY <1>3, <1>4, <2>3, <2>4
  <1>8. CASE ~IsEmpty(loop)
    <2> DEFINE c == call[p]
               outcome == Outcome(call[p].method, loop.type)
    <2>0. PICK r : r = [call |-> c, got |-> loop.type, outcome |-> outcome]
      OBVIOUS
    <2>1. /\ call' = [call EXCEPT ![p] = Idle]
          /\ results' = [results EXCEPT ![p] = Append(results[p], r)]
          /\ reading' \subseteq reading \cup {loop.chan}
          /\ alive' = alive
      BY <1>1, <1>8, <2>0 DEF Receive
    <2>2. /\ Delivered' = Delivered + 1 /\ Delivered \in Nat
          /\ sent[Delivered + 1] = [chan |-> loop.chan, type |-> loop.type]
          /\ Fits([chan |-> loop.chan, type |-> loop.type])
          /\ \A n : For(sent[Delivered + 1], n) => n = loop.chan
      <3>1. InLoop
        BY <1>1, <1>8 DEF InLoop, IsEmpty
      <3>2. /\ Delivered' = Delivered + 1 /\ Delivered \in Nat
            /\ sent[Delivered + 1] = [chan |-> loop.chan, type |-> loop.type]
            /\ \A n : For(sent[Delivered + 1], n) => n = loop.chan
            /\ Fits(sent[Delivered + 1])
        BY <1>1, <1>5, <1>8, <3>1, TakenByOther
      <3> QED BY <3>2
    <2>3. c \in CallStates /\ c.chan = loop.chan /\ c.chan \in DOMAIN channels /\ Idle \in CallStates
      BY <1>1 DEF TypeOK, CallsOK, Idle, CallStates
    <2>4. loop.type \in Types /\ loop.chan \in DOMAIN asked
      <3>1. loop.chan \in DOMAIN asked
        BY <2>2 DEF Fits
      <3>2. loop.type \in Server!ReplyTypes \cup Server!Updates
        BY <2>2, MessageTypes DEF Fits
      <3> QED BY <3>1, <3>2 DEF Types
    <2>5. c.method \in Methods \cup {"Statement"} /\ c.kind \in Kinds(c.method)
          /\ channels[c.chan].kind = c.kind
          /\ \A i \in 1..Delivered : ~For(sent[i], c.chan)
      BY <1>1 DEF CallsOK, Waits
    <2>6. c.kind = asked[c.chan].kind
      BY <2>3, <2>4, <2>5 DEF PipelineOK
    <2>7. outcome \in {"ok", "error", "neither"}
      BY DEF Outcome
    <2>8. outcome = "neither" => c.method = "LiveQuery" /\ loop.type \in Server!Updates \ {"garbled"}
      <3>1. \/ loop.type = "error" \/ loop.type = (IF c.kind = "write" THEN "ack" ELSE "initial")
            \/ loop.type \in {"table", "record", "garbled"} /\ c.kind = "live"
        BY <2>2, <2>3, <2>6, MessageTypes DEF Fits, Server!Replies
      <3>2. \/ c.method = "Exec" /\ c.kind = "write"
            \/ c.method = "Query" /\ c.kind = "query"
            \/ c.method = "LiveQuery" /\ c.kind = "live"
            \/ c.method = "Statement"
        BY <2>5 DEF Methods, Kinds
      <3> HIDE DEF c
      <3>3. outcome = Outcome(c.method, loop.type)
        BY DEF c
      <3> QED BY <1>8, <3>1, <3>2, <3>3, MessageTypes DEF Outcome, Wanted, IsEmpty
    <2>9. /\ r \in [call : CallStates, got : Types, outcome : {"ok", "error", "neither"}]
          /\ r.call = c /\ r.got = loop.type /\ r.outcome = outcome
      BY <2>0, <2>3, <2>4, <2>7
    <2> HIDE DEF c, outcome
    <2>10. /\ call' \in [Callers -> CallStates] /\ call'[p] = Idle
           /\ \A q \in Callers \ {p} : call'[q] = call[q]
      BY <2>1, <2>3 DEF TypeOK
    <2> DEFINE R == [call : CallStates, got : Types, outcome : {"ok", "error", "neither"}]
    <2>11. results \in [Callers -> Seq(R)] /\ results[p] \in Seq(R) /\ r \in R
      BY <2>9 DEF TypeOK
    <2> HIDE DEF R
    <2>12. /\ Append(results[p], r) \in Seq(R) /\ Len(results[p]) \in Nat
           /\ DOMAIN results[p] = 1..Len(results[p])
           /\ DOMAIN Append(results[p], r) = 1..Len(results[p]) + 1
           /\ \A i \in 1..Len(results[p]) : Append(results[p], r)[i] = results[p][i]
           /\ Append(results[p], r)[Len(results[p]) + 1] = r
      BY <2>11, Longer
    <2>13. /\ results' \in [Callers -> Seq(R)] /\ results'[p] = Append(results[p], r)
           /\ \A q \in Callers \ {p} : results'[q] = results[q]
      BY <2>1, <2>11, <2>12
    <2>14. TypeOK'
      <3>1. \A q \in Callers : call'[q].chan <= Len(channels')
        <4>1. Len(channels) \in Nat /\ \A q \in Callers : call[q].chan <= Len(channels)
          BY Lengths DEF TypeOK
        <4> QED BY <1>1, <2>10, <4>1 DEF Idle
      <3>2. reading' \subseteq DOMAIN channels'
        BY <1>1, <2>1, <2>3 DEF TypeOK
      <3> QED BY <1>1, <1>2, <2>1, <2>10, <2>13, <3>1, <3>2 DEF TypeOK, R
    <2>15. HandsOK'
      BY <1>1, <1>5, <2>2 DEF HandsOK
    <2>16. \A i \in 1..Delivered' : i \in 1..Delivered \/ i = Delivered + 1
      BY <2>2
    <2>17. CallsOK'
      <3>1. ~Waits(p)' /\ \A q \in Callers \ {p} : Waits(q)' = Waits(q)
        BY <2>10 DEF Waits, Idle
      <3>2. ASSUME NEW q \in Callers, call'[q].st # "idle"
            PROVE  call'[q].method \in Methods \cup {"Statement"} /\ call'[q].kind \in Kinds(call'[q].method)
        BY <2>10, <3>2 DEF CallsOK, Idle
      <3>3. ASSUME NEW q \in Callers, Waits(q)'
            PROVE  /\ call'[q].chan \in DOMAIN channels' \ reading'
                   /\ channels'[call'[q].chan].kind = call'[q].kind
                   /\ \A i \in 1..Delivered' : ~For(sent'[i], call'[q].chan)
                   /\ \A o \in Callers : Waits(o)' /\ call'[o].chan = call'[q].chan => o = q
        <4>1. q # p /\ Waits(q) /\ call'[q] = call[q]
          BY <2>10, <3>1, <3>3
        <4>2. call[q].chan # loop.chan
          <5>1. Waits(p) /\ call[p].chan = loop.chan
            BY <1>1
          <5>2. \A o \in Callers : Waits(o) /\ call[o].chan = call[q].chan => o = q
            BY <4>1 DEF CallsOK
          <5> QED BY <4>1, <5>1, <5>2
        <4>3. call'[q].chan \in DOMAIN channels' \ reading' /\ channels'[call'[q].chan].kind = call'[q].kind
          BY <1>1, <2>1, <4>1, <4>2 DEF CallsOK
        <4>4. \A i \in 1..Delivered' : ~For(sent'[i], call'[q].chan)
          <5>1. \A i \in 1..Delivered : ~For(sent[i], call[q].chan)
            BY <4>1 DEF CallsOK
          <5> QED BY <1>1, <2>2, <2>16, <4>1, <4>2, <5>1
        <4>5. \A o \in Callers : Waits(o)' /\ call'[o].chan = call'[q].chan => o = q
          BY <2>10, <3>1, <4>1 DEF CallsOK
        <4> QED BY <4>3, <4>4, <4>5
      <3> QED BY <3>2, <3>3 DEF CallsOK
    <2>18. ResultsOK'
      <3>1. Returned(r)'
        <4>1. /\ Delivered + 1 \in 1..Delivered'
              /\ sent'[Delivered + 1] = [chan |-> r.call.chan, type |-> r.got]
          BY <1>1, <2>2, <2>3, <2>9
        <4>2. \A k \in 1..(Delivered + 1) - 1 : ~For(sent'[k], r.call.chan)
          BY <1>1, <2>2, <2>5, <2>9
        <4>3. /\ r.call.chan \in DOMAIN asked' /\ r.call.kind = asked'[r.call.chan].kind
              /\ r.outcome = "neither" => r.call.method = "LiveQuery" /\ r.got \in Server!Updates \ {"garbled"}
          BY <1>1, <2>3, <2>4, <2>6, <2>8, <2>9
        <4> QED BY <4>1, <4>2, <4>3 DEF Returned
      <3>2. ASSUME NEW q \in Callers, NEW i \in DOMAIN results[q], NEW o, o = results[q][i]
            PROVE  Returned(o)'
        BY <1>1, <2>2, <3>2, ReturnedKept DEF ResultsOK
      <3>3. ASSUME NEW q \in Callers, NEW i \in DOMAIN results'[q], NEW o, o = results'[q][i]
            PROVE  Returned(o)'
        <4>1. CASE q # p
          BY <2>13, <3>2, <3>3, <4>1
        <4>2. CASE q = p /\ i \in DOMAIN results[p]
          BY <2>12, <2>13, <3>2, <3>3, <4>2
        <4>3. CASE q = p /\ i = Len(results[p]) + 1
          BY <2>12, <2>13, <3>1, <3>3, <4>3
        <4>4. q = p => i \in DOMAIN results[p] \/ i = Len(results[p]) + 1
          BY <2>12, <2>13
        <4> QED BY <4>1, <4>2, <4>3, <4>4
      <3> QED BY <3>3 DEF ResultsOK
    <2> QED BY <1>3, <1>4, <2>14, <2>15, <2>17, <2>18
  <1> QED BY <1>6, <1>8, <1>7 DEF IsEmpty

-----------------------------------------------------------------------------
(* The theorems.                                                           *)

LEMMA InitInv == Init => Inv
  <1> SUFFICES ASSUME Init  PROVE Inv
    OBVIOUS
  <1> USE DEF Init, Server!Init
  <1>1. TypeOK
    <2>1. loop \in [st : {"select", "write", "deliver"}, chan : Nat, type : Types \cup {"none"}]
      BY DEF Selecting
    <2>2. call \in [Callers -> CallStates] /\ \A p \in Callers : call[p].chan <= Len(channels)
      BY DEF Idle, CallStates
    <2>3. failed \in 0..MaxReads /\ taken \in 0..Len(sent)
      BY ReadsAssumption
    <2>4. results \in [Callers -> Seq([call : CallStates, got : Types, outcome : {"ok", "error", "neither"}])]
      OBVIOUS
    <2>5. /\ asked \in Seq(Requests) /\ toServer \in Seq(Requests) /\ channels \in Seq(Requests)
          /\ sent \in Seq([chan : Nat \ {0}, type : Types \ {"nothing"}])
          /\ incoming \in Seq([chan : Nat \ {0}, type : Types])
      OBVIOUS
    <2>6. busy \in BOOLEAN /\ open \in BOOLEAN /\ alive \in BOOLEAN /\ reading \subseteq DOMAIN channels
      OBVIOUS
    <2> QED BY <2>1, <2>2, <2>3, <2>4, <2>5, <2>6 DEF TypeOK
  <1>2. PipelineOK
    BY DEF PipelineOK, Pending, Selecting
  <1>3. SentOK
    BY DEF SentOK
  <1>4. ~InIncoming /\ ~InLoop /\ Delivered = 0
    <2>1. ~InIncoming
      BY DEF InIncoming
    <2>2. ~InLoop
      BY DEF InLoop, Selecting
    <2>3. Delivered = taken - 0 - 0
      BY <2>1, <2>2 DEF Delivered
    <2> QED BY <2>1, <2>2, <2>3
  <1>5. HandsOK
    BY <1>4 DEF HandsOK
  <1>6. CallsOK
    BY DEF CallsOK, Waits, Idle
  <1>7. ResultsOK
    BY DEF ResultsOK
  <1> QED BY <1>1, <1>2, <1>3, <1>5, <1>6, <1>7 DEF Inv

LEMMA StepInv == Inv /\ [Next]_vars => Inv'
  <1> SUFFICES ASSUME Inv, [Next]_vars  PROVE Inv'
    OBVIOUS
  <1>1. CASE ServerAsks
    BY <1>1, AsksInv
  <1>2. CASE ServerWrites
    BY <1>2, WritesInv
  <1>3. CASE LoseConnection
    BY <1>3, LoseInv
  <1>4. CASE ReaderStep
    BY <1>4, ReadMessageInv, ReadNothingInv, ReadTooOftenInv DEF ReaderStep
  <1>5. CASE \E p \in Callers : BeginCall(p)
    BY <1>5, BeginCallInv
  <1>6. CASE LoopStep
    <2>1. CASE \E p \in Callers : TakeRequest(p) \/ Receive(p)
      BY <2>1, TakeRequestInv, ReceiveInv
    <2>2. CASE WriteStatement
      BY <2>2, WriteStatementInv
    <2>3. CASE TakeMessage
      BY <2>3, TakeMessageInv
    <2>4. CASE ReadUpdate
      BY <2>4, ReadUpdateInv
    <2> QED BY <1>6, <2>1, <2>2, <2>3, <2>4 DEF LoopStep
  <1>7. CASE UNCHANGED vars
    <2> USE <1>7 DEF Inv, vars, serverVars, callVars
    <2>1. TypeOK'
      BY DEF TypeOK
    <2>2. PipelineOK' /\ SentOK'
      BY DEF PipelineOK, Pending, SentOK, Fits
    <2>3. Delivered' = Delivered /\ InIncoming' = InIncoming /\ InLoop' = InLoop
      BY DEF Delivered, InIncoming, InLoop
    <2>4. HandsOK'
      BY <2>3 DEF HandsOK
    <2> QED BY <2>1, <2>2, <2>3, <2>4, NoneDelivered
  <1> QED BY <1>1, <1>2, <1>3, <1>4, <1>5, <1>6, <1>7 DEF Next

\* The inductive invariant holds of every run of the client.
THEOREM Invariance == Spec => []Inv
  BY InitInv, StepInv, PTL DEF Spec

\* The variables hold what the program's data structures can hold.
THEOREM ClientTypes == Spec => []TypeOK
  <1>1. Inv => TypeOK
    BY DEF Inv
  <1> QED BY <1>1, Invariance, PTL

\* Client and server give every statement the same number, whoever calls and
\* however the goroutines run (client.go:52-63 and connection.go's channels).
THEOREM NumbersAgree == Spec => []SameNumbers
  <1>1. Inv => SameNumbers
    BY Room DEF Inv, PipelineOK, SameNumbers
  <1> QED BY <1>1, Invariance, PTL

\* A call returns the first message the server sent for its own statement, and only
\* a LiveQuery may find it neither an error nor its reply (client.go:103-134).
THEOREM CallsGetTheirReply == Spec => []OwnReplies
  <1>1. Inv => OwnReplies
    <2> SUFFICES ASSUME Inv, NEW p \in Callers, NEW i \in DOMAIN results[p], NEW r, r = results[p][i]
                 PROVE  /\ \E j \in DOMAIN sent : /\ sent[j] = [chan |-> r.call.chan, type |-> r.got]
                                                   /\ \A k \in 1..j-1 : ~For(sent[k], r.call.chan)
                        /\ r.call.kind = asked[r.call.chan].kind
                        /\ r.outcome = "neither" => r.call.method = "LiveQuery" /\ r.got \in Server!Updates \ {"garbled"}
      BY DEF OwnReplies
    <2>1. Returned(r)
      BY DEF Inv, ResultsOK
    <2>2. \A j \in 1..Delivered : j \in DOMAIN sent
      BY Lengths DEF Inv
    <2> QED BY <2>1, <2>2 DEF Returned
  <1> QED BY <1>1, Invariance, PTL

=============================================================================
