----------------------------- MODULE MCCatalog -----------------------------
(* A small instance of Catalog for TLC. *)
EXTENDS Catalog, TLC

CONSTANTS clientA, clientB, posts, comments

Create(t, n, refs) == [table |-> t, cols |-> n, refs |-> refs, legal |-> TRUE]

\* One client creates a table whose columns get the ids 13 to 100.
WideRequests == clientA :> {Create(posts, 88, {})}

=============================================================================
