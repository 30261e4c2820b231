------------------------ MODULE Conversation_proofs ------------------------
(***************************************************************************)
(* Proof, for every set of statements, that a Conversation answers its     *)
(* statements once each and in order.                                      *)
(***************************************************************************)
EXTENDS Conversation, SequenceTheorems, TLAPS

\* A message: its channel, and its type.
Sendable == [chan : Nat, type : ReplyTypes \cup Updates]

\* The variables' types, and that a busy conversation has a statement.
Typed ==
    /\ asked \in Seq(Statements)
    /\ busy \in BOOLEAN
    /\ sent \in Seq(Sendable)
    /\ open \in BOOLEAN
    /\ busy => asked # << >>

Inv == Typed /\ RepliesInOrder

-----------------------------------------------------------------------------
\* The sequence with one more element, element by element.
LEMMA Appended ==
    ASSUME NEW S, NEW s \in Seq(S), NEW x \in S
    PROVE  /\ Append(s, x) \in Seq(S)
           /\ Len(Append(s, x)) = Len(s) + 1
           /\ DOMAIN s = 1..Len(s) /\ Len(s) \in Nat
           /\ DOMAIN Append(s, x) = 1..Len(s) + 1
           /\ \A i \in 1..Len(s) : Append(s, x)[i] = s[i]
           /\ Append(s, x)[Len(s) + 1] = x
  OBVIOUS

\* Replies and updates are different types, and kinds of replies are replies.
LEMMA ReplyKinds ==
    /\ \A t \in ReplyTypes : t \notin Updates
    /\ \A kind : Replies(kind) \subseteq ReplyTypes
  BY DEF ReplyTypes, Updates, Replies

\* A statement arrives: it is not answered yet, and no message is of it.
LEMMA AskInv ==
    ASSUME Inv, NEW s \in Statements, Ask(s)
    PROVE  Inv'
  <1> USE DEF Inv
  <1>1. asked' = Append(asked, s) /\ sent' = sent /\ open' = open /\ ~busy /\ busy'
    BY DEF Ask
  <1>2. /\ asked' \in Seq(Statements) /\ Len(asked') = Len(asked) + 1 /\ Len(asked) \in Nat
        /\ DOMAIN asked = 1..Len(asked) /\ DOMAIN asked' = 1..Len(asked) + 1
        /\ \A n \in 1..Len(asked) : asked'[n] = asked[n]
    BY <1>1, Appended DEF Typed
  <1>3. Typed'
    <2>1. busy' \in BOOLEAN
      BY DEF Ask
    <2> QED BY <1>1, <1>2, <2>1 DEF Typed
  <1>4. Answered' = Answered /\ Answered = Len(asked)
    BY <1>1, <1>2 DEF Answered
  <1>5. RepliesInOrder'
    <2> SUFFICES ASSUME open PROVE RepliesInOrder'
      BY <1>1 DEF RepliesInOrder
    <2> QED BY <1>1, <1>2, <1>4 DEF RepliesInOrder, IsReply
  <1> QED BY <1>3, <1>5

\* The statement in progress is answered.
LEMMA AnswerInv ==
    ASSUME Inv, NEW type \in ReplyTypes, Answer(type)
    PROVE  Inv'
  <1> USE DEF Inv
  <1> DEFINE n == Len(asked)
             m == [chan |-> n, type |-> type]
  <1>1. /\ asked' = asked /\ open' = open /\ busy /\ ~busy' /\ busy' \in BOOLEAN
        /\ type \in Replies(asked[n].kind)
        /\ sent' = IF open THEN Append(sent, m) ELSE sent
    BY DEF Answer, Write
  <1>2. n \in Nat /\ 1 <= n /\ DOMAIN asked = 1..n
    BY <1>1 DEF Typed
  <1>3. m \in Sendable /\ m.chan = n /\ m.type = type /\ IsReply(m)
    BY <1>2 DEF Sendable, IsReply
  <1> HIDE DEF m
  <1>4. Typed'
    BY <1>1, <1>3, Appended DEF Typed
  <1>5. Answered = n - 1 /\ Answered' = n
    BY <1>1 DEF Answered
  <1> HIDE DEF n
  <1>6. RepliesInOrder'
    <2> SUFFICES ASSUME open PROVE RepliesInOrder'
      BY <1>1 DEF RepliesInOrder
    <2>1. /\ Len(sent) \in Nat /\ DOMAIN sent = 1..Len(sent) /\ DOMAIN sent' = 1..Len(sent) + 1
          /\ \A i \in 1..Len(sent) : sent'[i] = sent[i]
          /\ sent'[Len(sent) + 1] = m
      BY <1>1, <1>3, Appended DEF Typed
    <2>2. \A k \in 1..n : \E i \in DOMAIN sent' : sent'[i].chan = k /\ IsReply(sent'[i])
      <3> SUFFICES ASSUME NEW k \in 1..n
                   PROVE  \E i \in DOMAIN sent' : sent'[i].chan = k /\ IsReply(sent'[i])
        OBVIOUS
      <3>1. CASE k = n
        BY <1>3, <2>1, <3>1
      <3>2. CASE k # n
        <4>1. k \in 1..Answered
          BY <1>2, <1>5, <3>2, k \in 1..n
        <4>2. PICK i \in DOMAIN sent : sent[i].chan = k /\ IsReply(sent[i])
          BY <4>1 DEF RepliesInOrder
        <4> QED BY <2>1, <4>2
      <3> QED BY <3>1, <3>2
    <2>3. ASSUME NEW i \in DOMAIN sent'
          PROVE  IF IsReply(sent'[i])
                 THEN /\ sent'[i].chan \in 1..n
                      /\ sent'[i].type \in Replies(asked[sent'[i].chan].kind)
                      /\ \A j \in 1..i-1 : IsReply(sent'[j]) => sent'[j].chan < sent'[i].chan
                 ELSE sent'[i].chan \in DOMAIN asked /\ asked[sent'[i].chan].kind = "live"
      <3>1. CASE i = Len(sent) + 1
        <4>1. \A j \in 1..i-1 : IsReply(sent[j]) => sent[j].chan \in 1..n-1
          BY <1>5, <2>1, <3>1 DEF RepliesInOrder
        <4>2. \A j \in 1..i-1 : IsReply(sent'[j]) => sent'[j].chan < n
          BY <1>2, <2>1, <3>1, <4>1
        <4> QED BY <1>1, <1>2, <1>3, <2>1, <3>1, <4>2
      <3>2. CASE i # Len(sent) + 1
        <4>1. i \in DOMAIN sent /\ \A j \in 1..i : sent'[j] = sent[j]
          BY <2>1, <3>2
        <4>2. 1..n-1 \subseteq 1..n
          BY <1>2
        <4>3. \A j \in 1..i-1 : j \in 1..i
          BY <2>1
        <4>4. i \in 1..i
          BY <2>1
        <4> QED BY <1>5, <4>1, <4>2, <4>3, <4>4 DEF RepliesInOrder
      <3> QED BY <3>1, <3>2
    <2> QED BY <1>1, <1>5, <2>2, <2>3 DEF RepliesInOrder
  <1> QED BY <1>4, <1>6

\* A live query's update is no reply, so the replies keep their places.
LEMMA UpdateInv ==
    ASSUME Inv, NEW n \in DOMAIN asked, NEW type \in Updates, Update(n, type)
    PROVE  Inv'
  <1> USE DEF Inv
  <1> DEFINE m == [chan |-> n, type |-> type]
  <1>1. /\ asked' = asked /\ open' = open /\ busy' = busy /\ asked[n].kind = "live"
        /\ sent' = IF open THEN Append(sent, m) ELSE sent
    BY DEF Update, Write
  <1>2. n \in Nat
    BY DEF Typed
  <1>3. m \in Sendable /\ m.chan = n /\ ~IsReply(m)
    BY <1>2, ReplyKinds DEF Sendable, IsReply
  <1> HIDE DEF m
  <1>4. Typed'
    BY <1>1, <1>3, Appended DEF Typed
  <1>5. Answered' = Answered
    BY <1>1 DEF Answered
  <1>6. RepliesInOrder'
    <2> SUFFICES ASSUME open PROVE RepliesInOrder'
      BY <1>1 DEF RepliesInOrder
    <2>1. /\ Len(sent) \in Nat /\ DOMAIN sent = 1..Len(sent) /\ DOMAIN sent' = 1..Len(sent) + 1
          /\ \A i \in 1..Len(sent) : sent'[i] = sent[i]
          /\ sent'[Len(sent) + 1] = m
      BY <1>1, <1>3, Appended DEF Typed
    <2>2. \A k \in 1..Answered : \E i \in DOMAIN sent' : sent'[i].chan = k /\ IsReply(sent'[i])
      BY <2>1 DEF RepliesInOrder
    <2>3. ASSUME NEW i \in DOMAIN sent'
          PROVE  IF IsReply(sent'[i])
                 THEN /\ sent'[i].chan \in 1..Answered
                      /\ sent'[i].type \in Replies(asked[sent'[i].chan].kind)
                      /\ \A j \in 1..i-1 : IsReply(sent'[j]) => sent'[j].chan < sent'[i].chan
                 ELSE sent'[i].chan \in DOMAIN asked /\ asked[sent'[i].chan].kind = "live"
      <3>1. CASE i = Len(sent) + 1
        BY <1>1, <1>3, <2>1, <3>1
      <3>2. CASE i # Len(sent) + 1
        <4>1. i \in DOMAIN sent /\ \A j \in 1..i : sent'[j] = sent[j]
          BY <2>1, <3>2
        <4>2. \A j \in 1..i-1 : j \in 1..i
          BY <2>1
        <4>3. i \in 1..i
          BY <2>1
        <4> QED BY <4>1, <4>2, <4>3 DEF RepliesInOrder
      <3> QED BY <3>1, <3>2
    <2> QED BY <1>1, <1>5, <2>2, <2>3 DEF RepliesInOrder
  <1> QED BY <1>4, <1>6

\* Nothing is promised of a connection that has gone.
LEMMA CloseInv ==
    ASSUME Inv, Close
    PROVE  Inv'
  <1> USE DEF Inv
  <1>1. asked' = asked /\ busy' = busy /\ open' = FALSE
    BY DEF Close
  <1>2. sent' \in Seq(Sendable)
    <2>1. CASE sent' = sent
      BY <2>1 DEF Typed
    <2>2. CASE sent # << >> /\ sent' = SubSeq(sent, 1, Len(sent) - 1)
      BY <2>2 DEF Typed
    <2> QED BY <2>1, <2>2 DEF Close
  <1> QED BY <1>1, <1>2 DEF Typed, RepliesInOrder

\* In every conversation the statements are answered once each and in order,
\* whatever updates come between the replies.
THEOREM InOrder == Spec => []RepliesInOrder
  <1>1. Init => Inv
    <2> SUFFICES ASSUME Init  PROVE Inv
      OBVIOUS
    <2>1. Typed
      <3>1. << >> \in Seq(Statements) /\ << >> \in Seq(Sendable)
        OBVIOUS
      <3> QED BY <3>1 DEF Init, Typed
    <2>2. Answered = 0 /\ DOMAIN sent = {}
      BY DEF Init, Answered
    <2> QED BY <2>1, <2>2 DEF Inv, RepliesInOrder
  <1>2. Inv /\ [Next]_vars => Inv'
    <2> SUFFICES ASSUME Inv, [Next]_vars  PROVE Inv'
      OBVIOUS
    <2>1. CASE UNCHANGED vars
      BY <2>1 DEF vars, Inv, Typed, RepliesInOrder, Answered
    <2> QED BY <2>1, AskInv, AnswerInv, UpdateInv, CloseInv DEF Next
  <1>3. Inv => RepliesInOrder
    BY DEF Inv
  <1> QED BY <1>1, <1>2, <1>3, PTL DEF Spec
=============================================================================
