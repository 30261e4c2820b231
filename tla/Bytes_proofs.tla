---------------------------- MODULE Bytes_proofs ----------------------------
(***************************************************************************)
(* Proofs about Bytes: the order of bolt's keys is total, so that every    *)
(* key of a finite set has its place in it; with what the proofs about     *)
(* recursive definitions need, induction over numbers and the existence of *)
(* functions that are defined by iteration.                                *)
(***************************************************************************)
EXTENDS Bytes, WellFoundedInduction, FiniteSetTheorems, TLAPS

\* Induction over numbers, as the library's theorems about sets give it: a set of
\* numbers has a least one.
LEMMA LeastNumber ==
    ASSUME NEW T, T \subseteq Nat, T # {}
    PROVE  \E x \in T : \A y \in T : x <= y
  <1> DEFINE R == OpToRel(<, Nat)
  <1>1. R = {ss \in Nat \X Nat : ss[1] < ss[2]}
    BY DEF OpToRel
  <1>2. IsWellFoundedOn(R, Nat)
    BY NatLessThanWellFounded
  <1>3. \A x, y \in Nat : x < y => <<x, y>> \in R
    BY <1>1
  <1> HIDE DEF R
  <1>4. PICK x \in T : \A y \in T : ~ (<<y, x>> \in R)
    BY <1>2, WFMin
  <1>5. ASSUME NEW y \in T  PROVE x <= y
    <2>1. x \in Nat /\ y \in Nat /\ <<y, x>> \notin R
      BY <1>4
    <2>2. ~(y < x)
      BY <1>3, <2>1
    <2> QED BY <2>1, <2>2
  <1> QED BY <1>5

\* What holds of zero and is passed on holds of the numbers up to n.
LEMMA FromZero ==
    ASSUME NEW n \in Nat, NEW T, 0 \in T, \A i \in 0..n - 1 : i \in T => i + 1 \in T
    PROVE  \A i \in 0..n : i \in T
  <1> DEFINE F == {i \in 0..n : i \notin T}
  <1> SUFFICES ASSUME F # {}  PROVE FALSE
    OBVIOUS
  <1>1. PICK i \in F : \A j \in F : i <= j
    <2>1. F \subseteq Nat
      OBVIOUS
    <2> HIDE DEF F
    <2> QED BY <2>1, LeastNumber
  <1>2. i - 1 \in 0..n - 1 /\ i - 1 \in 0..n /\ ~(i <= i - 1)
    OBVIOUS
  <1>3. i - 1 \in T
    BY <1>1, <1>2
  <1>4. (i - 1) + 1 \in T
    BY <1>2, <1>3
  <1> QED BY <1>4

\* f iterates the steps g from x.
Iterates(f, n, x, g) == f[0] = x /\ \A i \in 1..n : f[i] = g[i][f[i - 1]]

\* A function that is defined by iteration exists.
LEMMA Iterated ==
    ASSUME NEW n \in Nat, NEW S, NEW x \in S, NEW g \in [1..n -> [S -> S]]
    PROVE  \E f \in [0..n -> S] : Iterates(f, n, x, g)
  <1> DEFINE T == {m \in 0..n : \E f \in [0..m -> S] : Iterates(f, m, x, g)}
  <1>1. 0 \in T
    <2> DEFINE f == [i \in 0..0 |-> x]
    <2>1. f \in [0..0 -> S] /\ Iterates(f, 0, x, g)
      BY DEF Iterates
    <2> HIDE DEF f
    <2> QED BY <2>1
  <1>2. ASSUME NEW m \in 0..n - 1, m \in T  PROVE m + 1 \in T
    <2>1. PICK f \in [0..m -> S] : Iterates(f, m, x, g)
      BY <1>2
    <2> DEFINE h == [i \in 0..m + 1 |-> IF i = m + 1 THEN g[m + 1][f[m]] ELSE f[i]]
    <2>2. m + 1 \in 1..n /\ m \in 0..m /\ m \in Nat
      OBVIOUS
    <2>3. g[m + 1] \in [S -> S] /\ f[m] \in S
      BY <2>1, <2>2
    <2>4. h \in [0..m + 1 -> S]
      BY <2>1, <2>2, <2>3
    <2>5. \A i \in 0..m : h[i] = f[i]
      BY <2>2
    <2>6. h[m + 1] = g[m + 1][f[m]]
      BY <2>2
    <2> HIDE DEF h
    <2>7. \A i \in 1..m + 1 : h[i] = g[i][h[i - 1]]
      BY <2>1, <2>2, <2>5, <2>6 DEF Iterates
    <2>8. h[0] = x
      BY <2>1, <2>2, <2>5 DEF Iterates
    <2>9. Iterates(h, m + 1, x, g)
      BY <2>7, <2>8 DEF Iterates
    <2> QED BY <2>2, <2>4, <2>9
  <1>3. n \in T
    <2> HIDE DEF T
    <2>1. \A i \in 0..n : i \in T
      BY <1>1, <1>2, FromZero
    <2> QED BY <2>1
  <1> QED BY <1>3

-----------------------------------------------------------------------------
\* The order of bytes is a strict total order of the sequences.
LEMMA BytesLessIrreflexive == ASSUME NEW s \in Seq(Nat)  PROVE ~BytesLess(s, s)
  BY DEF BytesLess

LEMMA BytesLessTransitive ==
    ASSUME NEW s \in Seq(Nat), NEW t \in Seq(Nat), NEW u \in Seq(Nat), BytesLess(s, t), BytesLess(t, u)
    PROVE  BytesLess(s, u)
  <1>1. /\ Len(s) \in Nat /\ Len(t) \in Nat /\ Len(u) \in Nat
        /\ DOMAIN s = 1..Len(s) /\ DOMAIN t = 1..Len(t) /\ DOMAIN u = 1..Len(u)
        /\ \A i \in 1..Len(s) : s[i] \in Nat
        /\ \A i \in 1..Len(t) : t[i] \in Nat
        /\ \A i \in 1..Len(u) : u[i] \in Nat
    OBVIOUS
  <1> DEFINE D(a, b, i) == i \in DOMAIN a \cap DOMAIN b /\ a[i] < b[i] /\ \A j \in 1..i-1 : a[j] = b[j]
             P(a, b) == Len(a) < Len(b) /\ \A j \in DOMAIN a : a[j] = b[j]
  <1>2. \A a, b : BytesLess(a, b) <=> (\E i : D(a, b, i)) \/ P(a, b)
    BY DEF BytesLess
  <1>3. ASSUME NEW i, NEW k, D(s, t, i), D(t, u, k)  PROVE BytesLess(s, u)
    <2>1. i \in Nat /\ k \in Nat
      BY <1>1, <1>3
    <2>2. CASE i <= k
      <3>1. i \in DOMAIN s \cap DOMAIN u /\ s[i] < u[i]
        <4>1. CASE i = k
          BY <1>1, <1>3, <4>1
        <4>2. CASE i < k
          <5>1. t[i] = u[i]
            BY <1>1, <1>3, <2>1, <4>2
          <5> QED BY <1>1, <1>3, <2>1, <4>2, <5>1
        <4> QED BY <2>1, <2>2, <4>1, <4>2
      <3>2. \A j \in 1..i-1 : s[j] = u[j]
        BY <1>3, <2>1, <2>2
      <3> QED BY <1>2, <3>1, <3>2
    <2>3. CASE k < i
      <3>1. k \in DOMAIN s \cap DOMAIN u /\ s[k] < u[k]
        <4>1. s[k] = t[k]
          BY <1>1, <1>3, <2>1, <2>3
        <4> QED BY <1>1, <1>3, <2>1, <2>3, <4>1
      <3>2. \A j \in 1..k-1 : s[j] = u[j]
        BY <1>3, <2>1, <2>3
      <3> QED BY <1>2, <3>1, <3>2
    <2> QED BY <2>1, <2>2, <2>3
  <1>4. ASSUME NEW i, D(s, t, i), P(t, u)  PROVE BytesLess(s, u)
    <2>1. i \in 1..Len(s) /\ i \in 1..Len(t) /\ i \in Nat
      BY <1>1, <1>4
    <2>2. Len(t) < Len(u) /\ \A j \in 1..Len(t) : t[j] = u[j]
      BY <1>1, <1>4
    <2>3. i \in DOMAIN s \cap DOMAIN u /\ s[i] < u[i]
      BY <1>1, <1>4, <2>1, <2>2
    <2>4. \A j \in 1..i-1 : s[j] = u[j]
      <3>1. \A j \in 1..i-1 : j \in 1..Len(t)
        BY <1>1, <2>1
      <3> QED BY <1>4, <2>2, <3>1
    <2> QED BY <1>2, <2>3, <2>4
  <1>5. ASSUME NEW k, P(s, t), D(t, u, k)  PROVE BytesLess(s, u)
    <2>1. k \in 1..Len(t) /\ k \in 1..Len(u)
      BY <1>1, <1>5
    <2>2. k \in Nat
      BY <1>1, <2>1
    <2>3. Len(s) < Len(t) /\ \A j \in 1..Len(s) : s[j] = t[j]
      BY <1>1, <1>5
    <2>4. \A j \in 1..k-1 : t[j] = u[j]
      BY <1>5
    <2>5. CASE k <= Len(s)
      <3>1. k \in 1..Len(s) /\ \A j \in 1..k-1 : j \in 1..Len(s)
        BY <1>1, <2>1, <2>2, <2>3, <2>4, <2>5
      <3>2. k \in DOMAIN s \cap DOMAIN u /\ s[k] < u[k]
        BY <1>1, <1>5, <2>1, <2>2, <2>3, <2>4, <3>1
      <3>3. \A j \in 1..k-1 : s[j] = u[j]
        BY <2>1, <2>2, <2>3, <2>4, <3>1
      <3> QED BY <1>2, <3>2, <3>3
    <2>6. CASE Len(s) < k
      <3>1. Len(s) < Len(u) /\ \A j \in 1..Len(s) : j \in 1..k-1
        BY <1>1, <2>1, <2>2, <2>3, <2>4, <2>6
      <3>2. \A j \in DOMAIN s : s[j] = u[j]
        BY <1>1, <2>1, <2>2, <2>3, <2>4, <3>1
      <3> QED BY <1>2, <3>1, <3>2
    <2>7. k <= Len(s) \/ Len(s) < k
      BY <1>1, <2>1, <2>2, <2>3, <2>4
    <2> QED BY <2>5, <2>6, <2>7
  <1>6. ASSUME P(s, t), P(t, u)  PROVE BytesLess(s, u)
    <2>1. P(s, u)
      BY <1>1, <1>6
    <2> QED BY <1>2, <2>1
  <1> HIDE DEF D, P
  <1> QED BY <1>2, <1>3, <1>4, <1>5, <1>6

LEMMA BytesLessTotal ==
    ASSUME NEW s \in Seq(Nat), NEW t \in Seq(Nat), s # t
    PROVE  BytesLess(s, t) \/ BytesLess(t, s)
  <1>1. /\ Len(s) \in Nat /\ Len(t) \in Nat /\ DOMAIN s = 1..Len(s) /\ DOMAIN t = 1..Len(t)
        /\ \A i \in 1..Len(s) : s[i] \in Nat
        /\ \A i \in 1..Len(t) : t[i] \in Nat
    OBVIOUS
  <1> DEFINE T == {i \in DOMAIN s \cap DOMAIN t : s[i] # t[i]}
  <1>2. CASE T = {}
    <2>1. \A i \in DOMAIN s \cap DOMAIN t : s[i] = t[i]
      BY <1>2
    <2>2. Len(s) # Len(t)
      <3>1. SUFFICES ASSUME Len(s) = Len(t)  PROVE FALSE
        OBVIOUS
      <3>2. \A i \in 1..Len(s) : s[i] = t[i]
        BY <1>1, <2>1, <3>1
      <3> QED BY <3>1, <3>2
    <2>3. CASE Len(s) < Len(t)
      <3>1. \A j \in DOMAIN s : s[j] = t[j]
        BY <1>1, <2>1, <2>3
      <3> QED BY <2>3, <3>1 DEF BytesLess
    <2>4. CASE Len(t) < Len(s)
      <3>1. \A j \in DOMAIN t : t[j] = s[j]
        BY <1>1, <2>1, <2>4
      <3> QED BY <2>4, <3>1 DEF BytesLess
    <2>5. Len(s) < Len(t) \/ Len(t) < Len(s)
      <3>1. \A m, n \in Nat : m # n => m < n \/ n < m
        OBVIOUS
      <3> QED BY <1>1, <2>2, <3>1, Zenon
    <2> QED BY <2>3, <2>4, <2>5
  <1>3. CASE T # {}
    <2>1. PICK i \in T : \A j \in T : i <= j
      <3>1. T \subseteq Nat
        BY <1>1
      <3> HIDE DEF T
      <3> QED BY <1>3, <3>1, LeastNumber
    <2>2. i \in DOMAIN s \cap DOMAIN t /\ i \in Nat /\ s[i] \in Nat /\ t[i] \in Nat /\ s[i] # t[i]
      BY <1>1
    <2>3. ASSUME NEW j \in 1..i-1  PROVE s[j] = t[j]
      <3>1. j \in DOMAIN s \cap DOMAIN t /\ j \in Nat /\ ~(i <= j)
        BY <1>1, <2>2
      <3>2. j \notin T
        BY <2>1, <3>1
      <3> QED BY <3>1, <3>2
    <2> HIDE DEF T
    <2>4. CASE s[i] < t[i]
      BY <2>2, <2>3, <2>4 DEF BytesLess
    <2>5. CASE t[i] < s[i]
      <3>1. i \in DOMAIN t \cap DOMAIN s /\ \A j \in 1..i-1 : t[j] = s[j]
        BY <2>2, <2>3
      <3> QED BY <2>5, <3>1 DEF BytesLess
    <2> QED BY <2>2, <2>4, <2>5
  <1> QED BY <1>2, <1>3

\* The elements of S before i, in the order R.
Before(S, R, i) == {j \in S : <<j, i>> \in R}

\* R orders the elements of S, each two of them.
TotallyOrders(R, S) ==
    /\ \A i \in S : <<i, i>> \notin R
    /\ \A i, j, k \in S : <<i, j>> \in R /\ <<j, k>> \in R => <<i, k>> \in R
    /\ \A i, j \in S : i # j => <<i, j>> \in R \/ <<j, i>> \in R

\* Each element of S has its place in the order R, the count of those before it,
\* and each place its element.
Placed(R, S) ==
    /\ \A i, j \in S : Cardinality(Before(S, R, i)) = Cardinality(Before(S, R, j)) => i = j
    /\ \A i \in S : Cardinality(Before(S, R, i)) \in 0..Cardinality(S) - 1
    /\ \A n \in 0..Cardinality(S) - 1 : \E i \in S : Cardinality(Before(S, R, i)) = n

\* A strict total order of a finite set gives its elements their places.
LEMMA PlacesTaken ==
    ASSUME NEW S, IsFiniteSet(S), NEW R, TotallyOrders(R, S)
    PROVE  Placed(R, S)
  <1> DEFINE before(i) == Before(S, R, i)
             c == Cardinality(S)
             rank == [i \in S |-> Cardinality(before(i))]
  <1>2. c \in Nat
    BY FS_CardinalityType
  <1>3. \A i \in S : IsFiniteSet(before(i)) /\ Cardinality(before(i)) \in 0..c - 1
    <2> SUFFICES ASSUME NEW i \in S
                 PROVE  IsFiniteSet(before(i)) /\ Cardinality(before(i)) \in 0..c - 1
      OBVIOUS
    <2>1. before(i) \in SUBSET S /\ before(i) # S
      BY DEF Before, TotallyOrders
    <2> HIDE DEF before
    <2>2. IsFiniteSet(before(i)) /\ Cardinality(before(i)) <= c /\ Cardinality(before(i)) # c
      BY <2>1, FS_Subset
    <2>3. Cardinality(before(i)) \in Nat
      BY <2>2, FS_CardinalityType
    <2> HIDE DEF c
    <2> QED BY <1>2, <2>2, <2>3
  <1>4. \A i, j \in S : <<i, j>> \in R => Cardinality(before(i)) # Cardinality(before(j))
    <2> SUFFICES ASSUME NEW i \in S, NEW j \in S, <<i, j>> \in R
                 PROVE  Cardinality(before(i)) # Cardinality(before(j))
      OBVIOUS
    <2>1. before(i) \in SUBSET before(j)
      BY DEF Before, TotallyOrders
    <2>2. before(i) # before(j)
      BY DEF Before, TotallyOrders
    <2>3. IsFiniteSet(before(j))
      BY <1>3
    <2> HIDE DEF before
    <2> QED BY <2>1, <2>2, <2>3, FS_Subset
  <1>5. \A i, j \in S : rank[i] = rank[j] => i = j
    <2> HIDE DEF before
    <2> QED BY <1>4 DEF TotallyOrders
  <1>6. rank \in Injection(S, 0..c - 1)
    <2>1. rank \in [S -> 0..c - 1]
      BY <1>3
    <2> HIDE DEF rank
    <2> QED BY <1>5, <2>1 DEF Injection, IsInjective
  <1>7. IsFiniteSet(0..c - 1) /\ Cardinality(0..c - 1) = c
    <2> HIDE DEF c
    <2> QED BY <1>2, FS_Interval
  <1>8. rank \in Surjection(S, 0..c - 1)
    <2> HIDE DEF rank
    <2> QED BY <1>6, <1>7, FS_Injection
  <1>9. \A n \in 0..c - 1 : \E i \in S : rank[i] = n
    <2> HIDE DEF rank
    <2> QED BY <1>8 DEF Surjection
  <1> HIDE DEF before
  <1>10. \A i \in S : rank[i] = Cardinality(before(i))
    OBVIOUS
  <1> HIDE DEF rank
  <1>11. /\ \A i, j \in S : Cardinality(before(i)) = Cardinality(before(j)) => i = j
         /\ \A n \in 0..c - 1 : \E i \in S : Cardinality(before(i)) = n
    BY <1>5, <1>9, <1>10
  <1> QED BY <1>3, <1>11 DEF before, Placed

\* The places of keys in their order.
LEMMA KeysPlaced ==
    ASSUME NEW keys \in SUBSET Seq(Nat), IsFiniteSet(keys)
    PROVE  LET place(k) == Cardinality({j \in keys : BytesLess(j, k)})
           IN  /\ \A i, j \in keys : place(i) = place(j) => i = j
               /\ \A i \in keys : place(i) \in 0..Cardinality(keys) - 1
               /\ \A n \in 0..Cardinality(keys) - 1 : \E i \in keys : place(i) = n
  <1> DEFINE R == {p \in keys \X keys : BytesLess(p[1], p[2])}
  <1>1. \A i, j \in keys : <<i, j>> \in R <=> BytesLess(i, j)
    OBVIOUS
  <1>2. \A k \in keys : k \in Seq(Nat)
    OBVIOUS
  <1> HIDE DEF R
  <1>3. \A i \in keys : <<i, i>> \notin R
    BY <1>1, <1>2, BytesLessIrreflexive
  <1>4. \A i, j, k \in keys : <<i, j>> \in R /\ <<j, k>> \in R => <<i, k>> \in R
    BY <1>1, <1>2, BytesLessTransitive
  <1>5. \A i, j \in keys : i # j => <<i, j>> \in R \/ <<j, i>> \in R
    BY <1>1, <1>2, BytesLessTotal
  <1>6. \A k \in keys : Before(keys, R, k) = {j \in keys : BytesLess(j, k)}
    BY <1>1 DEF Before
  <1> DEFINE at(k) == Cardinality(Before(keys, R, k))
             place(k) == Cardinality({j \in keys : BytesLess(j, k)})
  <1>7. /\ \A i, j \in keys : at(i) = at(j) => i = j
        /\ \A i \in keys : at(i) \in 0..Cardinality(keys) - 1
        /\ \A n \in 0..Cardinality(keys) - 1 : \E i \in keys : at(i) = n
    <2>1. TotallyOrders(R, keys)
      BY <1>3, <1>4, <1>5 DEF TotallyOrders
    <2>2. Placed(R, keys)
      BY <2>1, PlacesTaken
    <2> QED BY <2>2 DEF Placed
  <1>8. \A k \in keys : at(k) = place(k)
    BY <1>6
  <1> HIDE DEF at, place
  <1>9. /\ \A i, j \in keys : place(i) = place(j) => i = j
        /\ \A i \in keys : place(i) \in 0..Cardinality(keys) - 1
        /\ \A n \in 0..Cardinality(keys) - 1 : \E i \in keys : place(i) = n
    BY <1>7, <1>8
  <1> QED BY <1>9 DEF place

\* Visiting keys in their order visits each of them, and no other.
LEMMA OrderedVisits ==
    ASSUME NEW keys \in SUBSET Seq(Nat), IsFiniteSet(keys)
    PROVE  /\ Ordered(keys) \in [1..Cardinality(keys) -> keys]
           /\ \A k \in keys : \E n \in 1..Cardinality(keys) : Ordered(keys)[n] = k
  <1> DEFINE place(k) == Cardinality({j \in keys : BytesLess(j, k)})
             c == Cardinality(keys)
  <1>0. c \in Nat
    BY FS_CardinalityType
  <1>1. /\ \A i, j \in keys : place(i) = place(j) => i = j
        /\ \A i \in keys : place(i) \in 0..c - 1
        /\ \A n \in 0..c - 1 : \E i \in keys : place(i) = n
    BY KeysPlaced
  <1>2. Ordered(keys) = [n \in 1..c |-> CHOOSE k \in keys : place(k) = n - 1]
    BY DEF Ordered
  <1> HIDE DEF place, c
  <1>3. ASSUME NEW n \in 1..c  PROVE Ordered(keys)[n] \in keys /\ place(Ordered(keys)[n]) = n - 1
    <2>1. n - 1 \in 0..c - 1
      BY <1>0
    <2>2. \E k \in keys : place(k) = n - 1
      BY <1>1, <2>1
    <2> QED BY <1>2, <2>2
  <1>4. Ordered(keys) \in [1..c -> keys]
    BY <1>2, <1>3
  <1>5. ASSUME NEW k \in keys  PROVE \E n \in 1..c : Ordered(keys)[n] = k
    <2>1. place(k) + 1 \in 1..c /\ (place(k) + 1) - 1 = place(k)
      BY <1>0, <1>1
    <2>2. Ordered(keys)[place(k) + 1] \in keys /\ place(Ordered(keys)[place(k) + 1]) = place(k)
      BY <1>3, <2>1
    <2> QED BY <1>1, <2>1, <2>2
  <1> QED BY <1>4, <1>5 DEF c

\* A finite set with a key has a first one.
LEMMA FirstKey ==
    ASSUME NEW keys \in SUBSET Seq(Nat), IsFiniteSet(keys), keys # {}
    PROVE  \E k \in keys : \A j \in keys : ~BytesLess(j, k)
  <1>1. Cardinality(keys) \in Nat /\ Cardinality(keys) # 0
    BY FS_CardinalityType, FS_EmptySet
  <1>2. 0 \in 0..Cardinality(keys) - 1
    BY <1>1
  <1>3. PICK k \in keys : Cardinality({j \in keys : BytesLess(j, k)}) = 0
    BY <1>2, KeysPlaced
  <1>4. {j \in keys : BytesLess(j, k)} = {}
    <2>1. IsFiniteSet({j \in keys : BytesLess(j, k)})
      BY FS_Subset
    <2> QED BY <1>3, <2>1, FS_EmptySet
  <1> QED BY <1>4

=============================================================================
