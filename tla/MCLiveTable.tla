---------------------------- MODULE MCLiveTable ----------------------------
(* Small instances of LiveViews for TLC. *)
EXTENDS LiveViews, TLC

CONSTANTS reader, writerA, writerB, a, b

Insert(k, v) == [type |-> "insert", id |-> k, val |-> v]
Update(w, v) == [type |-> "update", set |-> v, where |-> w]
Select(w) == [type |-> "select", live |-> FALSE, one |-> FALSE, where |-> w]
Live(w) == [type |-> "select", live |-> TRUE, one |-> FALSE, where |-> w]
LiveOne(w) == [type |-> "select", live |-> TRUE, one |-> TRUE, where |-> w]
SelectOne(w) == [type |-> "select", live |-> FALSE, one |-> TRUE, where |-> w]
Invalid == [type |-> "invalid"]

TwoKeys == {1, 2}

\* One client watches the table while another writes it.
WatchRequests == (reader :> {Live(AllRows)}) @@
                 (writerA :> {Insert(1, a), Insert(2, b), Update(WhereVal(a), b), Update(WhereId(1), a)})
WatchBudget == (reader :> 1) @@ (writerA :> 3)

\* One client watches the whole table and may leave; two others write it, one of
\* them watching a record that both update.
MixRequests == (reader :> {Live(AllRows)}) @@
               (writerA :> {Live(WhereId(1)), Insert(2, a), Update(WhereVal(a), b)}) @@
               (writerB :> {Update(WhereId(1), a)})
MixBudget == (reader :> 1) @@ (writerA :> 2) @@ (writerB :> 1)

\* Statements of every kind, those that fail among them; one client may leave or
\* stop reading.
AnswerRequests == (reader :> {LiveOne(AllRows), Live(WhereVal(a)), Invalid}) @@
                  (writerA :> {Insert(2, a), Update(WhereVal(a), b)}) @@
                  (writerB :> {Insert(2, b), SelectOne(AllRows)})
AnswerBudget == (reader :> 1) @@ (writerA :> 1) @@ (writerB :> 1)

NoRows == {[k \in Keys |-> NoValue]}
RowA == {[k \in Keys |-> IF k = 1 THEN a ELSE NoValue]}

=============================================================================
