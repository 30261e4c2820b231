--------------------------- MODULE AtomicCatalog ---------------------------
(***************************************************************************)
(* What TreeSQL promises of the catalog it keeps in its bolt file: a       *)
(* CREATETABLE happens entirely or not at all, its columns get ids that no *)
(* column ever had, and nothing in the catalog is changed or forgotten.    *)
(***************************************************************************)
EXTENDS Integers

CONSTANTS Names,       \* table names
          MaxColumns,  \* the most columns a table has
          FirstId      \* the id of the first column that is not built in

VARIABLE catalog

\* The table records, the column records, and the next column id (0 in a new
\* file): the buckets __tables__, __columns__ and __sequences__.
Empty == [tables |-> {}, columns |-> {}, next |-> 0]

Column(id, t, pos) == [id |-> id, table |-> t, pos |-> pos]
NewColumns(first, t, n) == {Column(first + i - 1, t, i) : i \in 1..n}

\* A server opens a new file.
Open ==
    /\ catalog.next = 0
    /\ catalog' = [catalog EXCEPT !.next = FirstId]

\* A table of n columns is created.  Its ids are consecutive and end below the
\* next id; some may have been skipped.
Create(t, n) ==
    LET first == catalog'.next - n IN
    /\ 0 < catalog.next /\ catalog.next <= first
    /\ catalog' = [tables |-> catalog.tables \cup {t},
                   columns |-> catalog.columns \cup NewColumns(first, t, n),
                   next |-> first + n]

Init == catalog = Empty
Next == Open \/ \E t \in Names, n \in 1..MaxColumns : Create(t, n)
Spec == Init /\ [][Next]_catalog

=============================================================================
