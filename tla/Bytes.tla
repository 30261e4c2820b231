------------------------------- MODULE Bytes -------------------------------
(* The order of bolt's keys, which are sequences of bytes.                 *)
EXTENDS Integers, Sequences, FiniteSets

\* bytes.Compare: the first byte that differs decides, else the shorter is less.
BytesLess(s, t) ==
    \/ \E i \in DOMAIN s \cap DOMAIN t : s[i] < t[i] /\ \A j \in 1..i-1 : s[j] = t[j]
    \/ Len(s) < Len(t) /\ \A j \in DOMAIN s : s[j] = t[j]

\* The keys of a finite set in the order in which Bucket.ForEach visits them.
Ordered(keys) ==
    [n \in 1..Cardinality(keys) |->
        CHOOSE k \in keys : Cardinality({j \in keys : BytesLess(j, k)}) = n - 1]

=============================================================================
