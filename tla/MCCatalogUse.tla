---------------------------- MODULE MCCatalogUse ----------------------------
(* A small instance of CatalogUse for TLC. *)
EXTENDS CatalogUse, TLC

CONSTANTS clientA, clientB, user1, posts, comments

Create(t, n, refs) == [table |-> t, cols |-> n, refs |-> refs, legal |-> TRUE]
Illegal(t) == [table |-> t, cols |-> 1, refs |-> {}, legal |-> FALSE]

\* Two clients race for the same names; one table may reference the other.
RaceRequests ==
    (clientA :> {Create(posts, 2, {}), Illegal(comments)}) @@
    (clientB :> {Create(posts, 1, {}), Create(comments, 2, {posts})})

=============================================================================
