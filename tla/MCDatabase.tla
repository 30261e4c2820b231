----------------------------- MODULE MCDatabase -----------------------------
(* Small instances of Database for TLC. *)
EXTENDS Database, TLC

CONSTANTS reader, client, gauge, columns, posts, comments

Live(t) == [do |-> "select", table |-> t, live |-> TRUE, fails |-> FALSE]
LiveFailing(t) == [Live(t) EXCEPT !.fails = TRUE]
Plain(t) == [Live(t) EXCEPT !.live = FALSE]
Scan == [do |-> "scan"]
Insert(t) == [do |-> "insert", table |-> t]
Update(t) == [do |-> "update", table |-> t]

\* Two clients with live queries on the same table, whose connections are added
\* at the same time; one may leave.
ShareRequests ==
    (reader :> {Live(posts)}) @@ (client :> {Live(posts), Insert(posts), Scan})
ShareBudget == (reader :> 2) @@ (client :> 1)

\* A client with a live query, that may fail, and that may stop reading; another
\* that writes, reads and scans.
EndRequests ==
    (reader :> {Live(posts), LiveFailing(posts)}) @@
    (client :> {Update(posts), Plain(posts), Scan})
EndBudget == (reader :> 1) @@ (client :> 2)

\* Two clients with live queries on different tables.
ApartRequests == (reader :> {Live(posts)}) @@ (client :> {Live(comments)})
OneEach == [c \in Conns |-> 1]
=============================================================================
