--------------------------- MODULE Records_proofs ---------------------------
(***************************************************************************)
(* Proofs about Records, for every base and width of the encoding, every   *)
(* set of strings and schemas, and every number of columns: what is        *)
(* written is read back, rows are stored as meant, found by their key and  *)
(* shown as stored, with the exceptions that the properties name.          *)
(***************************************************************************)
EXTENDS Records, Bytes_proofs

-----------------------------------------------------------------------------
(* Integers.                                                               *)

Byte == 0..Base - 1

LEMMA BaseType == Base \in Nat /\ 1 < Base /\ Width \in Nat /\ 0 \in Byte /\ 1 \in Byte
  BY SizesAssumption DEF Byte

\* The last byte of a number and the others.
LEMMA Divided ==
    ASSUME NEW n \in Nat
    PROVE  /\ n \div Base \in Nat /\ n % Base \in Byte
           /\ n = (n \div Base) * Base + (n % Base)
  <1>1. Base \in Nat /\ 1 < Base
    BY BaseType
  <1>2. n % Base \in 0..Base - 1
    BY <1>1
  <1>3. n = (n \div Base) * Base + (n % Base)
    BY <1>1
  <1>4. n \div Base \in Nat
    BY <1>1
  <1> QED BY <1>2, <1>3, <1>4 DEF Byte

\* Shifted is what its definition says.
LEMMA ShiftedIs ==
    ASSUME NEW n \in Nat
    PROVE  /\ Shifted(n) \in [0..Width -> Nat] /\ Shifted(n)[0] = n
           /\ \A i \in 1..Width : Shifted(n)[i] = Shifted(n)[i - 1] \div Base
  <1> DEFINE g == [i \in 1..Width |-> [v \in Nat |-> v \div Base]]
  <1>1. g \in [1..Width -> [Nat -> Nat]] /\ \A i \in 1..Width : \A v \in Nat : g[i][v] = v \div Base
    BY Divided
  <1> HIDE DEF g
  <1>2. PICK f \in [0..Width -> Nat] : Iterates(f, Width, n, g)
    BY <1>1, BaseType, Iterated
  <1>3. \A i \in 0..Width : i # 0 => i \in 1..Width /\ i - 1 \in 0..Width
    BY BaseType
  <1>4. ASSUME NEW i \in 0..Width  PROVE f[i] = IF i = 0 THEN n ELSE f[i - 1] \div Base
    <2>1. ASSUME i # 0  PROVE f[i] = g[i][f[i - 1]] /\ i \in 1..Width /\ f[i - 1] \in Nat
      BY <1>2, <1>3, <2>1 DEF Iterates
    <2>2. i # 0 => f[i] = f[i - 1] \div Base
      BY <1>1, <2>1
    <2> QED BY <1>2, <2>2 DEF Iterates
  <1>5. f = [i \in 0..Width |-> IF i = 0 THEN n ELSE f[i - 1] \div Base]
    BY <1>4
  <1>6. Shifted(n) = [i \in 0..Width |-> IF i = 0 THEN n ELSE Shifted(n)[i - 1] \div Base]
    BY <1>5 DEF Shifted
  <1>7. \A i \in 0..Width : Shifted(n)[i] = IF i = 0 THEN n ELSE Shifted(n)[i - 1] \div Base
    BY <1>6
  <1> DEFINE T == {i \in 0..Width : Shifted(n)[i] \in Nat}
  <1>8. 0 \in T
    BY <1>7, BaseType
  <1>9. ASSUME NEW i \in 0..Width - 1, i \in T  PROVE i + 1 \in T
    <2>1. i + 1 \in 0..Width /\ i + 1 # 0 /\ (i + 1) - 1 = i
      BY BaseType
    <2>2. Shifted(n)[i] \in Nat
      BY <1>9
    <2>3. Shifted(n)[i + 1] = Shifted(n)[i] \div Base
      BY <1>7, <2>1
    <2> QED BY <2>1, <2>2, <2>3, Divided
  <1>10. \A i \in 0..Width : i \in T
    <2> HIDE DEF T
    <2> QED BY <1>8, <1>9, FromZero, BaseType
  <1>11. Shifted(n) \in [0..Width -> Nat]
    BY <1>6, <1>10
  <1>12. 0 \in 0..Width /\ \A i \in 1..Width : i \in 0..Width /\ i # 0
    BY BaseType
  <1> QED BY <1>7, <1>11, <1>12

\* Nothing is left of nothing.
LEMMA NothingLeft == \A i \in 0..Width : Shifted(0)[i] = 0
  <1> DEFINE T == {i \in 0..Width : Shifted(0)[i] = 0}
  <1>1. 0 \in T
    BY ShiftedIs, BaseType
  <1>2. ASSUME NEW i \in 0..Width - 1, i \in T  PROVE i + 1 \in T
    <2>1. i + 1 \in 1..Width /\ i + 1 \in 0..Width /\ (i + 1) - 1 = i
      BY BaseType
    <2>2. Shifted(0)[i + 1] = 0 \div Base
      BY <1>2, <2>1, ShiftedIs
    <2>3. 0 \div Base = 0
      BY BaseType
    <2> QED BY <2>1, <2>2, <2>3
  <1>3. \A i \in 0..Width : i \in T
    <2> HIDE DEF T
    <2> QED BY <1>1, <1>2, FromZero, BaseType
  <1> QED BY <1>3

LEMMA ShiftedZero == Shifted(0)[Width] = 0
  BY NothingLeft, BaseType

\* An integer takes Width bytes.
LEMMA WriteIntegerType ==
    ASSUME NEW n \in Nat
    PROVE  WriteInteger(n) \in Seq(Byte) /\ Len(WriteInteger(n)) = Width
  <1>1. \A i \in 1..Width : Shifted(n)[Width - i] % Base \in Byte
    <2> SUFFICES ASSUME NEW i \in 1..Width  PROVE Shifted(n)[Width - i] % Base \in Byte
      OBVIOUS
    <2>1. Width - i \in 0..Width
      BY BaseType
    <2> QED BY <2>1, ShiftedIs, Divided
  <1> QED BY <1>1, BaseType DEF WriteInteger

LEMMA ByteAtType == ASSUME NEW bytes \in Seq(Byte), NEW p \in Nat  PROVE ByteAt(bytes, p) \in Byte
  BY BaseType DEF ByteAt

\* IntegerAt iterates over the bytes.
LEMMA IntegerAtIs ==
    ASSUME NEW bytes \in Seq(Byte), NEW p \in Nat
    PROVE  \E v \in [0..Width -> Nat] :
              /\ v[0] = 0
              /\ \A i \in 1..Width : v[i] = v[i - 1] * Base + ByteAt(bytes, p + i - 1)
              /\ IntegerAt(bytes, p) = v[Width]
  <1> DEFINE at(i) == ByteAt(bytes, p + i - 1)
             g == [i \in 1..Width |-> [v \in Nat |-> v * Base + at(i)]]
  <1>0. \A i \in 1..Width : at(i) \in Nat
    <2> SUFFICES ASSUME NEW i \in 1..Width  PROVE at(i) \in Nat
      OBVIOUS
    <2>1. p + i - 1 \in Nat
      OBVIOUS
    <2>2. at(i) \in Byte
      BY <2>1, ByteAtType
    <2> QED BY <2>2, BaseType DEF Byte
  <1> HIDE DEF at
  <1>1. g \in [1..Width -> [Nat -> Nat]] /\ \A i \in 1..Width : \A v \in Nat : g[i][v] = v * Base + at(i)
    <2>1. \A v \in Nat : v * Base \in Nat
      BY BaseType
    <2>2. ASSUME NEW i \in 1..Width, NEW v \in Nat  PROVE v * Base + at(i) \in Nat
      <3> DEFINE w == v * Base
      <3>1. w \in Nat /\ at(i) \in Nat
        BY <1>0, <2>1
      <3> HIDE DEF w
      <3>2. w + at(i) \in Nat
        BY <3>1
      <3> QED BY <3>2 DEF w
    <2> QED BY <2>2
  <1> HIDE DEF g
  <1>2. PICK f \in [0..Width -> Nat] : Iterates(f, Width, 0, g)
    BY <1>1, BaseType, Iterated
  <1>3. \A i \in 0..Width : i # 0 => i \in 1..Width /\ i - 1 \in 0..Width
    BY BaseType
  <1>4. ASSUME NEW i \in 0..Width  PROVE f[i] = IF i = 0 THEN 0 ELSE f[i - 1] * Base + at(i)
    <2>1. ASSUME i # 0  PROVE f[i] = g[i][f[i - 1]] /\ i \in 1..Width /\ f[i - 1] \in Nat
      BY <1>2, <1>3, <2>1 DEF Iterates
    <2>2. i # 0 => f[i] = f[i - 1] * Base + at(i)
      BY <1>1, <2>1
    <2> QED BY <1>2, <2>2 DEF Iterates
  <1> DEFINE Is(v) == v = [i \in 0..Width |-> IF i = 0 THEN 0 ELSE v[i - 1] * Base + at(i)]
  <1>5. Is(f)
    BY <1>4
  <1> DEFINE h == CHOOSE v : Is(v)
  <1>6. Is(h)
    BY <1>5
  <1>7. IntegerAt(bytes, p) = h[Width]
    BY DEF IntegerAt, at
  <1> HIDE DEF h
  <1>8. \A i \in 0..Width : h[i] = IF i = 0 THEN 0 ELSE h[i - 1] * Base + at(i)
    BY <1>6
  <1> DEFINE T == {i \in 0..Width : h[i] = f[i]}
  <1>9. 0 \in T
    BY <1>4, <1>8, BaseType
  <1>10. ASSUME NEW i \in 0..Width - 1, i \in T  PROVE i + 1 \in T
    <2>1. i + 1 \in 0..Width /\ i + 1 # 0 /\ (i + 1) - 1 = i
      BY BaseType
    <2>2. h[i] = f[i]
      BY <1>10
    <2>3. f[i + 1] = f[i] * Base + at(i + 1) /\ h[i + 1] = h[i] * Base + at(i + 1)
      BY <1>4, <1>8, <2>1
    <2> QED BY <2>1, <2>2, <2>3
  <1>11. \A i \in 0..Width : i \in T
    <2> HIDE DEF T
    <2> QED BY <1>9, <1>10, FromZero, BaseType
  <1>12. IntegerAt(bytes, p) = f[Width]
    BY <1>7, <1>11, BaseType
  <1>13. f[0] = 0 /\ \A i \in 1..Width : f[i] = f[i - 1] * Base + at(i)
    BY <1>4, BaseType
  <1> QED BY <1>12, <1>13 DEF at

LEMMA IntegerAtType == ASSUME NEW bytes \in Seq(Byte), NEW p \in Nat  PROVE IntegerAt(bytes, p) \in Nat
  <1>1. PICK v \in [0..Width -> Nat] : IntegerAt(bytes, p) = v[Width]
    BY IntegerAtIs
  <1> QED BY <1>1, BaseType

\* An integer of which Width bytes leave nothing is read back.
LEMMA IntegerRead ==
    ASSUME NEW bytes \in Seq(Byte), NEW p \in Nat, NEW n \in Nat, Shifted(n)[Width] = 0,
           \A i \in 1..Width : ByteAt(bytes, p + i - 1) = WriteInteger(n)[i]
    PROVE  IntegerAt(bytes, p) = n
  <1>1. PICK v \in [0..Width -> Nat] :
              /\ v[0] = 0
              /\ \A i \in 1..Width : v[i] = v[i - 1] * Base + ByteAt(bytes, p + i - 1)
              /\ IntegerAt(bytes, p) = v[Width]
    BY IntegerAtIs
  <1> DEFINE T == {i \in 0..Width : v[i] = Shifted(n)[Width - i]}
  <1>2. 0 \in T
    BY <1>1, BaseType
  <1>3. ASSUME NEW i \in 0..Width - 1, i \in T  PROVE i + 1 \in T
    <2> DEFINE j == Width - (i + 1)
    <2>1. /\ i + 1 \in 0..Width /\ i + 1 \in 1..Width /\ (i + 1) - 1 = i
          /\ j \in 0..Width /\ j + 1 \in 1..Width /\ Width - i = j + 1 /\ (j + 1) - 1 = j
      BY BaseType
    <2>2. v[i] = Shifted(n)[j + 1]
      BY <1>3, <2>1
    <2>3. Shifted(n)[j] \in Nat /\ Shifted(n)[j + 1] = Shifted(n)[j] \div Base
      <3> DEFINE s == Shifted(n)
      <3>1. s \in [0..Width -> Nat] /\ \A m \in 1..Width : s[m] = s[m - 1] \div Base
        BY ShiftedIs
      <3> HIDE DEF j, s
      <3>2. s[j] \in Nat /\ s[j + 1] = s[j] \div Base
        BY <2>1, <3>1
      <3> QED BY <3>2 DEF s
    <2>4. WriteInteger(n)[i + 1] = Shifted(n)[j] % Base
      BY <2>1 DEF WriteInteger
    <2>5. v[i + 1] = v[i] * Base + (Shifted(n)[j] % Base)
      BY <1>1, <2>1, <2>4
    <2>6. v[i + 1] = Shifted(n)[j]
      <3> DEFINE m == Shifted(n)[j]
      <3>1. m \in Nat /\ v[i] = m \div Base /\ v[i + 1] = v[i] * Base + (m % Base)
        BY <2>2, <2>3, <2>5
      <3> HIDE DEF m
      <3>2. m = (m \div Base) * Base + (m % Base)
        BY <3>1, Divided
      <3> QED BY <3>1, <3>2 DEF m
    <2> QED BY <2>1, <2>6
  <1>4. Width \in T
    <2> HIDE DEF T
    <2>1. \A i \in 0..Width : i \in T
      BY <1>2, <1>3, FromZero, BaseType
    <2> QED BY <2>1, BaseType
  <1>5. v[Width] = Shifted(n)[0]
    BY <1>4, BaseType
  <1> QED BY <1>1, <1>5, ShiftedIs

-----------------------------------------------------------------------------
(* Sequences of bytes.                                                     *)

\* What one sequence and then another amounts to.
LEMMA Concatenated ==
    ASSUME NEW s \in Seq(Byte), NEW t \in Seq(Byte)
    PROVE  /\ s \o t \in Seq(Byte) /\ Len(s) \in Nat /\ Len(t) \in Nat
           /\ Len(s \o t) = Len(s) + Len(t)
           /\ \A m \in 1..Len(s) : (s \o t)[m] = s[m]
           /\ \A m \in 1..Len(t) : (s \o t)[Len(s) + m] = t[m]
  OBVIOUS

\* buf is the buffer as the pieces are written to it.
Buffers(buf, pieces) ==
    /\ buf \in [0..Len(pieces) -> Seq(Byte)]
    /\ buf[0] = << >>
    /\ \A i \in 1..Len(pieces) : buf[i] = buf[i - 1] \o pieces[i]

LEMMA JoinedIs ==
    ASSUME NEW pieces \in Seq(Seq(Byte))
    PROVE  \E buf : Buffers(buf, pieces) /\ Joined(pieces) = buf[Len(pieces)]
  <1> DEFINE c == Len(pieces)
             g == [i \in 1..c |-> [s \in Seq(Byte) |-> s \o pieces[i]]]
  <1>0. c \in Nat /\ \A i \in 1..c : pieces[i] \in Seq(Byte)
    OBVIOUS
  <1> HIDE DEF c
  <1>1. g \in [1..c -> [Seq(Byte) -> Seq(Byte)]]
        /\ \A i \in 1..c : \A s \in Seq(Byte) : g[i][s] = s \o pieces[i]
    BY <1>0, Concatenated
  <1> HIDE DEF g
  <1>2. << >> \in Seq(Byte)
    OBVIOUS
  <1>3. PICK f \in [0..c -> Seq(Byte)] : Iterates(f, c, << >>, g)
    BY <1>0, <1>1, <1>2, Iterated
  <1>4. \A i \in 0..c : i # 0 => i \in 1..c /\ i - 1 \in 0..c
    BY <1>0
  <1>5. ASSUME NEW i \in 0..c  PROVE f[i] = IF i = 0 THEN << >> ELSE f[i - 1] \o pieces[i]
    <2>1. ASSUME i # 0  PROVE f[i] = g[i][f[i - 1]] /\ i \in 1..c /\ f[i - 1] \in Seq(Byte)
      BY <1>3, <1>4, <2>1 DEF Iterates
    <2>2. i # 0 => f[i] = f[i - 1] \o pieces[i]
      BY <1>1, <2>1
    <2> QED BY <1>3, <2>2 DEF Iterates
  <1> DEFINE Is(v) == v = [i \in 0..c |-> IF i = 0 THEN << >> ELSE v[i - 1] \o pieces[i]]
  <1>6. Is(f)
    BY <1>5
  <1> DEFINE h == CHOOSE v : Is(v)
  <1>7. Is(h)
    BY <1>6
  <1>8. Joined(pieces) = h[c]
    BY DEF Joined, c
  <1> HIDE DEF h
  <1>9. \A i \in 0..c : h[i] = IF i = 0 THEN << >> ELSE h[i - 1] \o pieces[i]
    BY <1>7
  <1> DEFINE T == {i \in 0..c : h[i] = f[i]}
  <1>10. 0 \in T
    <2>1. 0 \in 0..c
      BY <1>0
    <2>2. f[0] = << >> /\ h[0] = << >>
      BY <1>3, <1>9, <2>1 DEF Iterates
    <2> QED BY <2>1, <2>2
  <1>11. ASSUME NEW i \in 0..c - 1, i \in T  PROVE i + 1 \in T
    <2>1. i + 1 \in 0..c /\ i + 1 # 0 /\ (i + 1) - 1 = i
      BY <1>0
    <2>2. h[i] = f[i]
      BY <1>11
    <2>3. f[i + 1] = f[i] \o pieces[i + 1] /\ h[i + 1] = h[i] \o pieces[i + 1]
      BY <1>5, <1>9, <2>1
    <2> QED BY <2>1, <2>2, <2>3
  <1>12. \A i \in 0..c : i \in T
    <2> HIDE DEF T
    <2> QED BY <1>0, <1>10, <1>11, FromZero
  <1>13. Joined(pieces) = f[c]
    BY <1>0, <1>8, <1>12
  <1>14. f[0] = << >> /\ \A i \in 1..c : f[i] = f[i - 1] \o pieces[i]
    <2>1. \A i \in 1..c : i \in 0..c /\ i # 0
      BY <1>0
    <2>2. \A i \in 1..c : f[i] = f[i - 1] \o pieces[i]
      BY <1>5, <2>1
    <2> QED BY <1>3, <2>2 DEF Iterates
  <1>15. Buffers(f, pieces)
    BY <1>14 DEF Buffers, c
  <1> QED BY <1>13, <1>15 DEF c

LEMMA JoinedType == ASSUME NEW pieces \in Seq(Seq(Byte))  PROVE Joined(pieces) \in Seq(Byte)
  <1>1. PICK buf : Buffers(buf, pieces) /\ Joined(pieces) = buf[Len(pieces)]
    BY JoinedIs
  <1>2. Len(pieces) \in 0..Len(pieces)
    OBVIOUS
  <1> QED BY <1>1, <1>2 DEF Buffers

\* What is written once stays where it is.
LEMMA BufferKept ==
    ASSUME NEW pieces \in Seq(Seq(Byte)), NEW buf, Buffers(buf, pieces),
           NEW i \in 0..Len(pieces), NEW m \in 1..Len(buf[i])
    PROVE  m \in 1..Len(buf[Len(pieces)]) /\ buf[Len(pieces)][m] = buf[i][m]
  <1> DEFINE c == Len(pieces)
             T == {l \in 0..c : i <= l => m \in 1..Len(buf[l]) /\ buf[l][m] = buf[i][m]}
  <1>0. c \in Nat /\ \A l \in 1..c : pieces[l] \in Seq(Byte)
    OBVIOUS
  <1> HIDE DEF c
  <1>1. /\ buf \in [0..c -> Seq(Byte)] /\ i \in 0..c
        /\ \A l \in 1..c : buf[l] = buf[l - 1] \o pieces[l]
    BY DEF Buffers, c
  <1>2. 0 \in T
    BY <1>0, <1>1
  <1>3. ASSUME NEW l \in 0..c - 1, l \in T  PROVE l + 1 \in T
    <2>1. l + 1 \in 0..c /\ l + 1 \in 1..c /\ (l + 1) - 1 = l /\ l \in 0..c
      BY <1>0
    <2>2. buf[l + 1] = buf[l] \o pieces[l + 1] /\ buf[l] \in Seq(Byte) /\ pieces[l + 1] \in Seq(Byte)
      BY <1>0, <1>1, <2>1
    <2>3. CASE i = l + 1
      BY <2>1, <2>3
    <2>4. CASE i <= l
      <3>1. m \in 1..Len(buf[l]) /\ buf[l][m] = buf[i][m]
        BY <1>3, <2>4
      <3>2. /\ Len(buf[l]) \in Nat /\ Len(pieces[l + 1]) \in Nat
            /\ Len(buf[l + 1]) = Len(buf[l]) + Len(pieces[l + 1])
            /\ \A q \in 1..Len(buf[l]) : buf[l + 1][q] = buf[l][q]
        <4> DEFINE s == buf[l]
                   t == pieces[l + 1]
        <4>1. s \in Seq(Byte) /\ t \in Seq(Byte) /\ buf[l + 1] = s \o t
          BY <2>2
        <4> HIDE DEF s, t
        <4>2. /\ Len(s) \in Nat /\ Len(t) \in Nat /\ Len(buf[l + 1]) = Len(s) + Len(t)
              /\ \A q \in 1..Len(s) : buf[l + 1][q] = s[q]
          BY <4>1, Concatenated
        <4> QED BY <4>2 DEF s, t
      <3>3. m \in 1..Len(buf[l + 1])
        <4> DEFINE a == Len(buf[l])
                   b == Len(pieces[l + 1])
        <4>1. m \in 1..a /\ a \in Nat /\ b \in Nat /\ Len(buf[l + 1]) = a + b
          BY <3>1, <3>2
        <4> HIDE DEF a, b
        <4> QED BY <4>1
      <3> QED BY <2>1, <3>1, <3>2, <3>3
    <2>5. CASE ~(i <= l + 1)
      BY <2>1, <2>5
    <2> QED BY <1>0, <1>1, <2>3, <2>4, <2>5
  <1>4. c \in T
    <2> HIDE DEF T
    <2>1. \A l \in 0..c : l \in T
      BY <1>0, <1>2, <1>3, FromZero
    <2> QED BY <1>0, <2>1
  <1> QED BY <1>1, <1>4 DEF c

\* Each piece is found after those before it.
LEMMA PieceFound ==
    ASSUME NEW pieces \in Seq(Seq(Byte)), NEW buf, Buffers(buf, pieces),
           NEW i \in 1..Len(pieces), NEW m \in 1..Len(pieces[i])
    PROVE  ByteAt(buf[Len(pieces)], Len(buf[i - 1]) + m) = pieces[i][m]
  <1> DEFINE c == Len(pieces)
             s == buf[i - 1]
             t == pieces[i]
  <1>1. c \in Nat /\ i \in 1..c /\ t \in Seq(Byte) /\ m \in 1..Len(t)
    OBVIOUS
  <1>2. /\ buf \in [0..c -> Seq(Byte)]
        /\ \A l \in 1..c : buf[l] = buf[l - 1] \o pieces[l]
    BY DEF Buffers
  <1> HIDE DEF c
  <1>3. i \in 0..c /\ i - 1 \in 0..c /\ c \in 0..c
    BY <1>1
  <1>4. buf[i] = s \o t /\ s \in Seq(Byte) /\ buf[c] \in Seq(Byte)
    BY <1>1, <1>2, <1>3
  <1> HIDE DEF s, t
  <1>5. /\ Len(s) \in Nat /\ Len(t) \in Nat /\ Len(buf[i]) = Len(s) + Len(t)
        /\ buf[i][Len(s) + m] = t[m]
    BY <1>1, <1>4, Concatenated
  <1> DEFINE q == Len(s) + m
  <1>6. q \in 1..Len(buf[i])
    <2> DEFINE x == Len(s)
               y == Len(t)
    <2>1. x \in Nat /\ y \in Nat /\ m \in 1..y /\ Len(buf[i]) = x + y
      BY <1>1, <1>5
    <2> HIDE DEF x, y
    <2>2. x + m \in 1..x + y
      BY <2>1
    <2> QED BY <2>1, <2>2 DEF x
  <1> HIDE DEF q
  <1>7. q \in 1..Len(buf[c]) /\ buf[c][q] = buf[i][q]
    BY <1>3, <1>6, BufferKept DEF c
  <1>8. ByteAt(buf[c], q) = buf[c][q]
    <2>1. q \in DOMAIN buf[c]
      <3> DEFINE u == buf[c]
      <3>1. u \in Seq(Byte) /\ q \in 1..Len(u)
        BY <1>4, <1>7
      <3> HIDE DEF u
      <3>2. q \in DOMAIN u
        BY <3>1
      <3> QED BY <3>2 DEF u
    <2> QED BY <2>1 DEF ByteAt
  <1> QED BY <1>5, <1>7, <1>8 DEF q, s, t, c

-----------------------------------------------------------------------------
(* Values and records.                                                     *)

\* The strings that a field may have.
Texts == Strings \cup {<< >>}

LEMMA TextType ==
    ASSUME NEW s \in Texts
    PROVE  s \in Seq(Byte) /\ Len(s) \in Nat /\ Shifted(Len(s))[Width] = 0
  <1>1. CASE s \in Strings
    <2>1. s \in Seq(Byte) /\ Shifted(Len(s))[Width] = 0
      BY <1>1, StringsAssumption DEF Byte
    <2> QED BY <2>1
  <1>2. CASE s = << >>
    <2>1. s \in Seq(Byte) /\ Len(s) = 0
      BY <1>2
    <2> QED BY <2>1, ShiftedZero
  <1> QED BY <1>1, <1>2 DEF Texts

\* The bytes of a string are its code, its length and its bytes.
LEMMA StringPiece ==
    ASSUME NEW value, value.str \in Texts
    PROVE  /\ ValueBytes(TypeString, value) \in Seq(Byte)
           /\ Len(ValueBytes(TypeString, value)) = 1 + Width + Len(value.str)
           /\ ValueBytes(TypeString, value)[1] = TypeString
           /\ \A m \in 1..Width :
                 ValueBytes(TypeString, value)[1 + m] = WriteInteger(Len(value.str))[m]
           /\ \A m \in 1..Len(value.str) :
                 ValueBytes(TypeString, value)[1 + Width + m] = value.str[m]
  <1> DEFINE s == value.str
             w == WriteInteger(Len(s))
             c == <<TypeString>>
             piece == ValueBytes(TypeString, value)
  <1>1. s \in Seq(Byte) /\ Len(s) \in Nat
    BY TextType
  <1>2. piece = c \o (w \o s)
    BY DEF ValueBytes, TypeString, TypeInt
  <1> HIDE DEF s, piece
  <1>3. w \in Seq(Byte) /\ Len(w) = Width /\ Width \in Nat
    BY <1>1, WriteIntegerType, BaseType
  <1>4. c \in Seq(Byte) /\ Len(c) = 1 /\ c[1] = TypeString
    BY BaseType DEF TypeString
  <1> HIDE DEF w, c
  <1>5. /\ w \o s \in Seq(Byte) /\ Len(w \o s) = Width + Len(s)
        /\ \A m \in 1..Width : (w \o s)[m] = w[m]
        /\ \A m \in 1..Len(s) : (w \o s)[Width + m] = s[m]
    BY <1>1, <1>3, Concatenated
  <1> DEFINE ws == w \o s
  <1> HIDE DEF ws
  <1>6. /\ piece \in Seq(Byte) /\ Len(piece) = 1 + Len(ws) /\ piece[1] = TypeString
        /\ \A m \in 1..Len(ws) : piece[1 + m] = ws[m]
    <2>1. ws \in Seq(Byte) /\ piece = c \o ws
      BY <1>2, <1>5 DEF ws
    <2> QED BY <1>4, <2>1, Concatenated
  <1>7. Len(ws) = Width + Len(s)
    BY <1>5 DEF ws
  <1>8. \A m \in 1..Width : m \in 1..Len(ws)
    BY <1>1, <1>3, <1>7
  <1>9. \A m \in 1..Len(s) : Width + m \in 1..Len(ws) /\ 1 + (Width + m) = 1 + Width + m
    BY <1>1, <1>3, <1>7
  <1>10. Len(piece) = 1 + Width + Len(s)
    BY <1>1, <1>3, <1>6, <1>7
  <1>11. \A m \in 1..Width : piece[1 + m] = w[m]
    BY <1>5, <1>6, <1>8 DEF ws
  <1>12. \A m \in 1..Len(s) : piece[1 + Width + m] = s[m]
    BY <1>5, <1>6, <1>9 DEF ws
  <1> QED BY <1>6, <1>10, <1>11, <1>12 DEF piece, s, w

\* The bytes of a zero are its code and the zero.
LEMMA IntPiece ==
    ASSUME NEW value, value.int = 0
    PROVE  /\ ValueBytes(TypeInt, value) \in Seq(Byte)
           /\ Len(ValueBytes(TypeInt, value)) = 1 + Width
           /\ ValueBytes(TypeInt, value)[1] = TypeInt
           /\ \A m \in 1..Width : ValueBytes(TypeInt, value)[1 + m] = WriteInteger(0)[m]
  <1> DEFINE w == WriteInteger(0)
             c == <<TypeInt>>
             piece == ValueBytes(TypeInt, value)
  <1>1. piece = c \o w
    BY DEF ValueBytes, TypeInt
  <1> HIDE DEF piece
  <1>2. w \in Seq(Byte) /\ Len(w) = Width /\ Width \in Nat
    BY WriteIntegerType, BaseType
  <1>3. c \in Seq(Byte) /\ Len(c) = 1 /\ c[1] = TypeInt
    BY BaseType DEF TypeInt
  <1> HIDE DEF w, c
  <1>4. /\ piece \in Seq(Byte) /\ Len(piece) = 1 + Len(w) /\ piece[1] = TypeInt
        /\ \A m \in 1..Len(w) : piece[1 + m] = w[m]
    <2>1. w \in Seq(Byte) /\ piece = c \o w
      BY <1>1, <1>2
    <2> QED BY <1>3, <2>1, Concatenated
  <1> QED BY <1>2, <1>4 DEF piece, w

\* The value of a column that shows s, of either type.
ValueOf(t, s) == [type |-> t, str |-> s, int |-> 0]

LEMMA PieceType ==
    ASSUME NEW t \in {TypeString, TypeInt}, NEW s \in Texts
    PROVE  /\ ValueBytes(t, ValueOf(t, s)) \in Seq(Byte)
           /\ Len(ValueBytes(t, ValueOf(t, s))) \in Nat
  <1>1. ValueOf(t, s).str = s /\ ValueOf(t, s).int = 0
    BY DEF ValueOf
  <1>2. ValueBytes(t, ValueOf(t, s)) \in Seq(Byte)
    BY <1>1, StringPiece, IntPiece
  <1> QED BY <1>2

\* The code decides what is read.
LEMMA StringAt ==
    ASSUME NEW bytes, NEW p, ByteAt(bytes, p) = TypeString, NEW s,
           s = [n \in 1..IntegerAt(bytes, p + 1) |-> ByteAt(bytes, p + Width + n)]
    PROVE  /\ ValueAt(bytes, p) = ValueOf(TypeString, s)
           /\ ValueSize(bytes, p) = 1 + Width + IntegerAt(bytes, p + 1)
  <1>1. TypeString # TypeInt
    BY DEF TypeString, TypeInt
  <1>2. ValueAt(bytes, p) = ValueOf(TypeString, s)
    BY <1>1 DEF ValueAt, ValueOf
  <1>3. ValueSize(bytes, p) = 1 + Width + IntegerAt(bytes, p + 1)
    BY <1>1 DEF ValueSize
  <1> QED BY <1>2, <1>3

LEMMA IntAt ==
    ASSUME NEW bytes, NEW p, ByteAt(bytes, p) = TypeInt, IntegerAt(bytes, p + 1) = 0
    PROVE  ValueAt(bytes, p) = ValueOf(TypeInt, << >>) /\ ValueSize(bytes, p) = 1 + Width
  <1>1. TypeString # TypeInt
    BY DEF TypeString, TypeInt
  <1>2. ValueAt(bytes, p) = ValueOf(TypeInt, << >>)
    BY <1>1 DEF ValueAt, ValueOf
  <1>3. ValueSize(bytes, p) = 1 + Width
    BY <1>1 DEF ValueSize
  <1> QED BY <1>2, <1>3

\* What is written of a value is read as the value.
LEMMA PieceRead ==
    ASSUME NEW t \in {TypeString, TypeInt}, NEW s \in Texts, t = TypeInt => s = << >>,
           NEW bytes \in Seq(Byte), NEW e \in Nat,
           \A m \in 1..Len(ValueBytes(t, ValueOf(t, s))) :
              ByteAt(bytes, e + m) = ValueBytes(t, ValueOf(t, s))[m]
    PROVE  /\ ValueAt(bytes, e + 1) = ValueOf(t, s)
           /\ ValueSize(bytes, e + 1) = Len(ValueBytes(t, ValueOf(t, s)))
  <1> DEFINE value == ValueOf(t, s)
             piece == ValueBytes(t, value)
             p == (e + 1) + 1
  <1>1. value.str = s /\ value.int = 0
    BY DEF ValueOf
  <1>2. s \in Seq(Byte) /\ Len(s) \in Nat /\ Shifted(Len(s))[Width] = 0
    BY TextType
  <1>3. Width \in Nat /\ p \in Nat
    BY BaseType
  <1>4. ASSUME NEW n \in Nat, Shifted(n)[Width] = 0, \A m \in 1..Width : 1 + m \in 1..Len(piece),
               \A m \in 1..Width : piece[1 + m] = WriteInteger(n)[m]
        PROVE  IntegerAt(bytes, p) = n
    <2>1. ASSUME NEW m \in 1..Width  PROVE ByteAt(bytes, p + m - 1) = WriteInteger(n)[m]
      <3>1. p + m - 1 = e + (1 + m)
        BY <1>3
      <3>2. ByteAt(bytes, e + (1 + m)) = piece[1 + m]
        BY <1>4
      <3> QED BY <1>4, <3>1, <3>2
    <2> HIDE DEF p
    <2> QED BY <1>3, <1>4, <2>1, IntegerRead
  <1>5. CASE t = TypeString
    <2> HIDE DEF value
    <2>1. /\ Len(piece) = 1 + Width + Len(s) /\ piece[1] = TypeString
          /\ \A m \in 1..Width : piece[1 + m] = WriteInteger(Len(s))[m]
          /\ \A m \in 1..Len(s) : piece[1 + Width + m] = s[m]
      BY <1>1, <1>5, StringPiece
    <2>2. /\ 1 \in 1..Len(piece) /\ \A m \in 1..Width : 1 + m \in 1..Len(piece)
          /\ \A m \in 1..Len(s) : 1 + Width + m \in 1..Len(piece)
      BY <1>2, <1>3, <2>1
    <2>3. ByteAt(bytes, e + 1) = TypeString
      BY <2>1, <2>2 DEF value
    <2>4. IntegerAt(bytes, p) = Len(s)
      BY <1>2, <1>4, <2>1, <2>2
    <2>5. [n \in 1..Len(s) |-> ByteAt(bytes, (e + 1) + Width + n)] = s
      <3>1. ASSUME NEW n \in 1..Len(s)  PROVE ByteAt(bytes, (e + 1) + Width + n) = s[n]
        <4>1. (e + 1) + Width + n = e + (1 + Width + n)
          BY <1>3
        <4>2. ByteAt(bytes, e + (1 + Width + n)) = piece[1 + Width + n]
          BY <2>2 DEF value
        <4> QED BY <2>1, <4>1, <4>2
      <3>2. s = [n \in 1..Len(s) |-> s[n]]
        BY <1>2
      <3> QED BY <3>1, <3>2
    <2>6. /\ ValueAt(bytes, e + 1) = ValueOf(TypeString, s)
          /\ ValueSize(bytes, e + 1) = 1 + Width + Len(s)
      BY <2>3, <2>4, <2>5, StringAt
    <2> QED BY <1>5, <2>1, <2>6 DEF value
  <1>6. CASE t = TypeInt
    <2> HIDE DEF value
    <2>1. /\ Len(piece) = 1 + Width /\ piece[1] = TypeInt
          /\ \A m \in 1..Width : piece[1 + m] = WriteInteger(0)[m]
      BY <1>1, <1>6, IntPiece
    <2>2. 1 \in 1..Len(piece) /\ \A m \in 1..Width : 1 + m \in 1..Len(piece)
      BY <1>3, <2>1
    <2>3. ByteAt(bytes, e + 1) = TypeInt
      BY <2>1, <2>2 DEF value
    <2>4. IntegerAt(bytes, p) = 0
      BY <1>4, <2>1, <2>2, ShiftedZero
    <2>5. ValueAt(bytes, e + 1) = ValueOf(TypeInt, << >>) /\ ValueSize(bytes, e + 1) = 1 + Width
      BY <2>3, <2>4, IntAt
    <2> QED BY <1>6, <2>1, <2>5 DEF value
  <1> QED BY <1>5, <1>6

LEMMA ValueSizeType ==
    ASSUME NEW bytes \in Seq(Byte), NEW p \in Nat
    PROVE  ValueSize(bytes, p) \in Nat
  <1>1. IntegerAt(bytes, p + 1) \in Nat /\ Width \in Nat
    BY IntegerAtType, BaseType
  <1> QED BY <1>1 DEF ValueSize

\* end is where the values of a record that is read end.
Ends(end, bytes) ==
    /\ end[0] = 0
    /\ \A i \in 1..Len(types) : end[i] = end[i - 1] + ValueSize(bytes, end[i - 1] + 1)

LEMMA RecordRead ==
    ASSUME types \in Schemas, NEW bytes \in Seq(Byte)
    PROVE  \E end \in [0..Len(types) -> Nat] :
              /\ Ends(end, bytes)
              /\ RecordFromBytes(bytes) = [i \in Columns |-> ValueAt(bytes, end[i - 1] + 1)]
  <1> DEFINE c == Len(types)
             g == [i \in 1..c |-> [e \in Nat |-> e + ValueSize(bytes, e + 1)]]
  <1>0. c \in Nat /\ Columns = 1..c
    BY SchemasAssumption DEF Columns
  <1> HIDE DEF c
  <1>1. g \in [1..c -> [Nat -> Nat]]
        /\ \A i \in 1..c : \A e \in Nat : g[i][e] = e + ValueSize(bytes, e + 1)
    <2>1. ASSUME NEW e \in Nat  PROVE e + ValueSize(bytes, e + 1) \in Nat
      <3>1. ValueSize(bytes, e + 1) \in Nat
        BY ValueSizeType
      <3> QED BY <3>1
    <2> QED BY <2>1
  <1> HIDE DEF g
  <1>2. PICK f \in [0..c -> Nat] : Iterates(f, c, 0, g)
    BY <1>0, <1>1, Iterated
  <1>3. \A i \in 0..c : i # 0 => i \in 1..c /\ i - 1 \in 0..c
    BY <1>0
  <1>4. ASSUME NEW i \in 0..c
        PROVE  f[i] = IF i = 0 THEN 0 ELSE f[i - 1] + ValueSize(bytes, f[i - 1] + 1)
    <2>1. ASSUME i # 0  PROVE f[i] = g[i][f[i - 1]] /\ i \in 1..c /\ f[i - 1] \in Nat
      BY <1>2, <1>3, <2>1 DEF Iterates
    <2>2. i # 0 => f[i] = f[i - 1] + ValueSize(bytes, f[i - 1] + 1)
      BY <1>1, <2>1
    <2> QED BY <1>2, <2>2 DEF Iterates
  <1> DEFINE Is(v) == v = [i \in 0..c |-> IF i = 0 THEN 0
                                          ELSE v[i - 1] + ValueSize(bytes, v[i - 1] + 1)]
  <1>5. Is(f)
    BY <1>4
  <1> DEFINE h == CHOOSE v : Is(v)
  <1>6. Is(h)
    BY <1>5
  <1>7. RecordFromBytes(bytes) = [i \in Columns |-> ValueAt(bytes, h[i - 1] + 1)]
    BY DEF RecordFromBytes, c
  <1> HIDE DEF h
  <1>8. \A i \in 0..c : h[i] = IF i = 0 THEN 0 ELSE h[i - 1] + ValueSize(bytes, h[i - 1] + 1)
    BY <1>6
  <1> DEFINE T == {i \in 0..c : h[i] = f[i]}
  <1>9. 0 \in T
    <2>1. 0 \in 0..c
      BY <1>0
    <2>2. f[0] = 0 /\ h[0] = 0
      BY <1>2, <1>8, <2>1 DEF Iterates
    <2> QED BY <2>1, <2>2
  <1>10. ASSUME NEW i \in 0..c - 1, i \in T  PROVE i + 1 \in T
    <2>1. i + 1 \in 0..c /\ i + 1 # 0 /\ (i + 1) - 1 = i
      BY <1>0
    <2>2. h[i] = f[i]
      BY <1>10
    <2>3. /\ f[i + 1] = f[i] + ValueSize(bytes, f[i] + 1)
          /\ h[i + 1] = h[i] + ValueSize(bytes, h[i] + 1)
      BY <1>4, <1>8, <2>1
    <2> QED BY <2>1, <2>2, <2>3
  <1>11. \A i \in 0..c : i \in T
    <2> HIDE DEF T
    <2> QED BY <1>0, <1>9, <1>10, FromZero
  <1>12. \A i \in Columns : h[i - 1] = f[i - 1]
    <2>1. \A i \in Columns : i - 1 \in 0..c
      BY <1>0
    <2> QED BY <1>11, <2>1
  <1>13. RecordFromBytes(bytes) = [i \in Columns |-> ValueAt(bytes, f[i - 1] + 1)]
    BY <1>7, <1>12
  <1>14. Ends(f, bytes)
    <2>1. \A i \in 1..c : i \in 0..c /\ i # 0
      BY <1>0
    <2>2. \A i \in 1..c : f[i] = f[i - 1] + ValueSize(bytes, f[i - 1] + 1)
      BY <1>4, <2>1
    <2> QED BY <1>2, <2>2 DEF Ends, Iterates, c
  <1> QED BY <1>13, <1>14 DEF c

\* The fields that a row may have: no string in a column of integers.
Rows(t) ==
    {fields \in [DOMAIN t -> Texts] : \A i \in DOMAIN t : t[i] = TypeInt => fields[i] = << >>}

\* A row's record, its pieces and its bytes, in a table with columns of types t.
Row(t, fields) == [i \in DOMAIN t |-> ValueOf(t[i], fields[i])]
Pieces(t, fields) == [i \in DOMAIN t |-> ValueBytes(t[i], ValueOf(t[i], fields[i]))]
Written(t, fields) == Joined(Pieces(t, fields))

LEMMA RowBytes ==
    ASSUME types \in Schemas, NEW fields \in Rows(types)
    PROVE  /\ Len(types) \in Nat /\ Columns = 1..Len(types) /\ Key \in Columns
           /\ \A i \in Columns : types[i] \in {TypeString, TypeInt} /\ fields[i] \in Texts
           /\ Pieces(types, fields) \in Seq(Seq(Byte)) /\ Len(Pieces(types, fields)) = Len(types)
           /\ ToBytes(Row(types, fields)) = Written(types, fields)
  <1>1. types \in Seq({TypeString, TypeInt}) /\ types # << >>
    BY SchemasAssumption
  <1>2. /\ Len(types) \in Nat /\ Columns = 1..Len(types) /\ Key \in Columns
        /\ \A i \in Columns : types[i] \in {TypeString, TypeInt}
    BY <1>1 DEF Columns, Key
  <1>3. \A i \in Columns : fields[i] \in Texts
    BY DEF Rows, Columns
  <1>4. \A i \in Columns : Pieces(types, fields)[i] \in Seq(Byte)
    BY <1>2, <1>3, PieceType DEF Pieces, Columns
  <1>5. Pieces(types, fields) \in [1..Len(types) -> Seq(Byte)]
    <2>1. DOMAIN Pieces(types, fields) = Columns /\ Pieces(types, fields) = [i \in Columns |-> Pieces(types, fields)[i]]
      BY DEF Pieces, Columns
    <2> QED BY <1>2, <1>4, <2>1
  <1>6. Pieces(types, fields) \in Seq(Seq(Byte)) /\ Len(Pieces(types, fields)) = Len(types)
    <2> DEFINE P == Pieces(types, fields)
               c == Len(types)
    <2>1. P \in [1..c -> Seq(Byte)] /\ c \in Nat
      BY <1>2, <1>5
    <2> HIDE DEF P, c
    <2>2. P \in Seq(Seq(Byte)) /\ Len(P) = c
      BY <2>1
    <2> QED BY <2>2 DEF P, c
  <1>7. ToBytes(Row(types, fields)) = Written(types, fields)
    <2>1. \A i \in Columns : Row(types, fields)[i] = ValueOf(types[i], fields[i])
      BY DEF Row, Columns
    <2>2. [i \in Columns |-> ValueBytes(types[i], Row(types, fields)[i])] = Pieces(types, fields)
      BY <2>1 DEF Pieces, Columns
    <2> QED BY <2>2 DEF ToBytes, Written
  <1> QED BY <1>2, <1>3, <1>6, <1>7

\* The bytes of a row are bytes, and what is read of them is the row.
LEMMA RoundTrip ==
    ASSUME types \in Schemas, NEW fields \in Rows(types)
    PROVE  /\ Written(types, fields) \in Seq(Byte)
           /\ RecordFromBytes(Written(types, fields)) = Row(types, fields)
  <1> DEFINE pieces == Pieces(types, fields)
             c == Len(types)
             bytes == Written(types, fields)
  <1>1. /\ c \in Nat /\ Columns = 1..c /\ pieces \in Seq(Seq(Byte)) /\ Len(pieces) = c
        /\ \A i \in Columns : types[i] \in {TypeString, TypeInt} /\ fields[i] \in Texts
        /\ bytes = Joined(pieces)
    BY RowBytes DEF Written
  <1>2. \A i \in Columns : pieces[i] = ValueBytes(types[i], ValueOf(types[i], fields[i]))
    BY DEF Pieces, Columns
  <1>3. \A i \in Columns : types[i] = TypeInt => fields[i] = << >>
    BY DEF Rows, Columns
  <1> HIDE DEF pieces, c, bytes
  <1>4. bytes \in Seq(Byte)
    BY <1>1, JoinedType
  <1>5. PICK buf : Buffers(buf, pieces) /\ bytes = buf[c]
    BY <1>1, JoinedIs
  <1>6. /\ buf \in [0..c -> Seq(Byte)] /\ buf[0] = << >>
        /\ \A i \in 1..c : buf[i] = buf[i - 1] \o pieces[i]
    BY <1>1, <1>5 DEF Buffers
  <1>7. PICK end \in [0..c -> Nat] :
              /\ Ends(end, bytes)
              /\ RecordFromBytes(bytes) = [i \in Columns |-> ValueAt(bytes, end[i - 1] + 1)]
    BY <1>4, RecordRead DEF c
  <1>8. ASSUME NEW i \in 1..c, end[i - 1] = Len(buf[i - 1])
        PROVE  /\ ValueAt(bytes, end[i - 1] + 1) = ValueOf(types[i], fields[i])
               /\ end[i] = Len(buf[i])
    <2> DEFINE e == end[i - 1]
               piece == ValueBytes(types[i], ValueOf(types[i], fields[i]))
    <2>1. i - 1 \in 0..c /\ i \in Columns
      BY <1>1
    <2>2. e \in Nat /\ buf[i - 1] \in Seq(Byte)
      BY <1>6, <1>7, <2>1
    <2>8. pieces[i] = piece /\ pieces[i] \in Seq(Byte)
      BY <1>1, <1>2, <2>1
    <2>3. ASSUME NEW m \in 1..Len(piece)  PROVE ByteAt(bytes, e + m) = piece[m]
      <3>1. m \in 1..Len(pieces[i]) /\ i \in 1..Len(pieces)
        BY <1>1, <2>8
      <3>2. ByteAt(buf[Len(pieces)], Len(buf[i - 1]) + m) = pieces[i][m]
        BY <1>1, <1>5, <3>1, PieceFound
      <3> QED BY <1>1, <1>5, <1>8, <2>8, <3>2
    <2>4. /\ types[i] \in {TypeString, TypeInt} /\ fields[i] \in Texts
          /\ types[i] = TypeInt => fields[i] = << >>
      BY <1>1, <1>3, <2>1
    <2>5. ValueAt(bytes, e + 1) = ValueOf(types[i], fields[i]) /\ ValueSize(bytes, e + 1) = Len(piece)
      <3> HIDE DEF e
      <3> QED BY <1>4, <2>2, <2>3, <2>4, <2>8, PieceRead
    <2>6. end[i] = e + Len(piece)
      BY <1>7, <2>5 DEF Ends, c
    <2>7. Len(buf[i]) = Len(buf[i - 1]) + Len(piece)
      <3>1. buf[i] = buf[i - 1] \o piece /\ piece \in Seq(Byte)
        BY <1>6, <2>8
      <3> HIDE DEF piece
      <3> QED BY <2>2, <3>1, Concatenated
    <2> QED BY <1>8, <2>5, <2>6, <2>7
  <1> DEFINE T == {i \in 0..c : end[i] = Len(buf[i])}
  <1>9. 0 \in T
    <2>1. end[0] = 0 /\ 0 \in 0..c
      BY <1>1, <1>7 DEF Ends
    <2>2. Len(buf[0]) = 0
      BY <1>6
    <2> QED BY <2>1, <2>2
  <1>10. ASSUME NEW i \in 0..c - 1, i \in T  PROVE i + 1 \in T
    <2>1. i + 1 \in 1..c /\ i + 1 \in 0..c /\ (i + 1) - 1 = i
      BY <1>1
    <2>2. end[(i + 1) - 1] = Len(buf[(i + 1) - 1])
      BY <1>10, <2>1
    <2>3. end[i + 1] = Len(buf[i + 1])
      BY <1>8, <2>1, <2>2
    <2> QED BY <2>1, <2>3
  <1>11. \A i \in 0..c : i \in T
    <2> HIDE DEF T
    <2> QED BY <1>1, <1>9, <1>10, FromZero
  <1>12. ASSUME NEW i \in Columns  PROVE ValueAt(bytes, end[i - 1] + 1) = ValueOf(types[i], fields[i])
    <2>1. i \in 1..c /\ i - 1 \in 0..c
      BY <1>1
    <2>2. end[i - 1] = Len(buf[i - 1])
      BY <1>11, <2>1
    <2> QED BY <1>8, <2>1, <2>2
  <1>13. RecordFromBytes(bytes) = Row(types, fields)
    BY <1>7, <1>12 DEF Row, Columns
  <1> QED BY <1>4, <1>13 DEF bytes

\* Of no bytes at all a record with empty strings is read.
LEMMA NothingRead ==
    ASSUME types \in Schemas, NEW i \in Columns
    PROVE  RecordFromBytes(<< >>)[i].str = << >>
  <1> DEFINE none == << >>
  <1>1. none \in Seq(Byte) /\ \A p \in Nat : ByteAt(none, p) = 0
    BY DEF ByteAt
  <1> HIDE DEF none
  <1>2. ASSUME NEW p \in Nat  PROVE IntegerAt(none, p) = 0
    <2>1. ASSUME NEW m \in 1..Width  PROVE ByteAt(none, p + m - 1) = WriteInteger(0)[m]
      <3>1. Width - m \in 0..Width /\ p + m - 1 \in Nat
        BY BaseType
      <3>2. WriteInteger(0)[m] = 0 % Base
        BY <3>1, NothingLeft DEF WriteInteger
      <3>3. 0 % Base = 0
        BY BaseType
      <3> QED BY <1>1, <3>1, <3>2, <3>3
    <2> QED BY <1>1, <2>1, IntegerRead, ShiftedZero
  <1>3. PICK end \in [0..Len(types) -> Nat] :
              RecordFromBytes(none) = [m \in Columns |-> ValueAt(none, end[m - 1] + 1)]
    BY <1>1, RecordRead
  <1> DEFINE p == end[i - 1] + 1
  <1>4. p \in Nat /\ p + 1 \in Nat
    <2>1. i - 1 \in 0..Len(types)
      BY SchemasAssumption DEF Columns
    <2> QED BY <1>3, <2>1
  <1> HIDE DEF p
  <1>5. [n \in 1..IntegerAt(none, p + 1) |-> ByteAt(none, p + Width + n)] = << >>
    BY <1>2, <1>4
  <1>6. ValueAt(none, p) = ValueOf(TypeString, << >>)
    BY <1>1, <1>4, <1>5, StringAt DEF TypeString
  <1>7. RecordFromBytes(none)[i] = ValueOf(TypeString, << >>)
    BY <1>3, <1>6 DEF p
  <1> QED BY <1>7 DEF none, ValueOf

\* What a statement writes are the bytes of the row that it means.
LEMMA MeantWritten ==
    ASSUME types \in Schemas, NEW fields \in [Columns -> Texts], NEW record,
           \A i \in Columns : types[i] = TypeInt => record[i].int = 0,
           \A i \in Columns : types[i] # TypeInt => record[i].str = fields[i]
    PROVE  Meant(fields) \in Rows(types) /\ ToBytes(record) = Written(types, Meant(fields))
  <1>1. Meant(fields) \in Rows(types)
    BY DEF Meant, Rows, Columns, Texts
  <1>2. ASSUME NEW i \in Columns
        PROVE  ValueBytes(types[i], record[i])
                 = ValueBytes(types[i], ValueOf(types[i], Meant(fields)[i]))
    <2>1. CASE types[i] = TypeInt
      <3>1. record[i].int = 0 /\ ValueOf(types[i], Meant(fields)[i]).int = 0
        BY <2>1 DEF ValueOf
      <3> QED BY <2>1, <3>1 DEF ValueBytes
    <2>2. CASE types[i] # TypeInt
      <3>1. Meant(fields)[i] = fields[i]
        BY <2>2 DEF Meant
      <3>2. record[i].str = ValueOf(types[i], Meant(fields)[i]).str
        BY <2>2, <3>1 DEF ValueOf
      <3> QED BY <2>2, <3>2 DEF ValueBytes
    <2> QED BY <2>1, <2>2
  <1>3. [i \in Columns |-> ValueBytes(types[i], record[i])] = Pieces(types, Meant(fields))
    BY <1>2 DEF Pieces, Columns
  <1> QED BY <1>1, <1>3 DEF ToBytes, Written

-----------------------------------------------------------------------------
(* The inductive invariant.                                                *)

\* A row's bytes are those of the fields it should have.
Kept ==
    /\ IsFiniteSet(DOMAIN bucket)
    /\ \A k \in DOMAIN bucket : meant[k] \in Rows(types) /\ bucket[k] = Written(types, meant[k])

\* A row is named by its key, unless UPDATE has set it: then its name, too, is
\* one that was taken.
KeysNamed ==
    types[Key] = TypeString =>
        \A k \in DOMAIN bucket : meant[k][Key] = k \/ (k \in rekeyed /\ meant[k][Key] \in rekeyed)

\* The client shows a row per key, by the id it was inserted with, and has its
\* fields unless that id was set or its last message was no JSON.
RowsShown ==
    types[Key] = TypeString =>
        /\ listened = DOMAIN bucket
        /\ \A n \in DOMAIN shown : shown[n][Key] \in DOMAIN bucket
        /\ \A k \in DOMAIN bucket :
              \E n \in DOMAIN shown : {m \in DOMAIN shown : shown[m][Key] = k} = {n}
        /\ \A n \in DOMAIN shown :
              shown[n][Key] \notin rekeyed \cup garbled => shown[n] = meant[shown[n][Key]]

Inv == TypeOK /\ Kept /\ KeysNamed /\ RowsShown

\* Keys are sequences that bolt orders.
LEMMA KeyTypes == \A s \in Strings : s \in Seq(Nat) /\ s \in Texts
  <1> SUFFICES ASSUME NEW s \in Strings  PROVE s \in Seq(Nat) /\ s \in Texts
    OBVIOUS
  <1>1. s \in Texts
    BY DEF Texts
  <1>2. s \in Seq(Byte)
    BY <1>1, TextType
  <1>3. \A b \in Byte : b \in Nat
    BY BaseType DEF Byte
  <1>4. s \in Seq(Nat)
    BY <1>2, <1>3
  <1> QED BY <1>1, <1>4

\* A row's fields are what is read of it.
LEMMA RowFields ==
    ASSUME NEW fields \in Rows(types)
    PROVE  /\ fields \in [Columns -> Texts] /\ Fields(Row(types, fields)) = fields
           /\ \A i \in Columns : /\ Row(types, fields)[i].str = fields[i]
                                 /\ Row(types, fields)[i].int = 0
                                 /\ Row(types, fields)[i].type = types[i]
  <1>1. fields \in [Columns -> Texts]
    BY DEF Rows, Columns
  <1>2. \A i \in Columns : /\ Row(types, fields)[i].str = fields[i]
                           /\ Row(types, fields)[i].int = 0
                           /\ Row(types, fields)[i].type = types[i]
    BY DEF Row, ValueOf, Columns
  <1>3. Fields(Row(types, fields)) = fields
    <2>1. Fields(Row(types, fields)) = [i \in Columns |-> fields[i]]
      BY <1>2 DEF Fields
    <2> QED BY <1>1, <2>1
  <1> QED BY <1>1, <1>2, <1>3

LEMMA StoredIs ==
    ASSUME TypeOK, Kept, NEW k \in DOMAIN bucket
    PROVE  Stored(k) = Row(types, meant[k]) /\ meant[k] \in Rows(types)
  <1>1. types \in Schemas
    BY DEF TypeOK
  <1> QED BY <1>1, RoundTrip DEF Kept, Stored

\* A key that is there is found.
LEMMA GetPresent ==
    ASSUME NEW b, DOMAIN b \subseteq Seq(Nat), NEW k \in DOMAIN b
    PROVE  Get(b, k) = RecordFromBytes(b[k])
  <1> DEFINE later == {j \in DOMAIN b : ~BytesLess(j, k)}
             first == CHOOSE j \in later : \A i \in later : ~BytesLess(i, j)
  <1>1. k \in Seq(Nat) /\ \A j \in later : j \in Seq(Nat) /\ ~BytesLess(j, k)
    OBVIOUS
  <1>2. k \in later
    BY <1>1, BytesLessIrreflexive
  <1>3. Get(b, k) = IF later = {} THEN RecordFromBytes(<< >>) ELSE RecordFromBytes(b[first])
    BY DEF Get
  <1> HIDE DEF later
  <1>4. first \in later /\ \A i \in later : ~BytesLess(i, first)
    BY <1>1, <1>2
  <1> HIDE DEF first
  <1>5. ~BytesLess(first, k) /\ ~BytesLess(k, first) /\ first \in Seq(Nat)
    BY <1>1, <1>2, <1>4
  <1>6. first = k
    BY <1>1, <1>5, BytesLessTotal
  <1> QED BY <1>2, <1>3, <1>6

\* For one that is not, another row is found, or none.
LEMMA GetAbsent ==
    ASSUME NEW b, DOMAIN b \subseteq Seq(Nat), IsFiniteSet(DOMAIN b), NEW k
    PROVE  \/ Get(b, k) = RecordFromBytes(<< >>)
           \/ \E j \in DOMAIN b : Get(b, k) = RecordFromBytes(b[j])
  <1> DEFINE later == {j \in DOMAIN b : ~BytesLess(j, k)}
             first == CHOOSE j \in later : \A i \in later : ~BytesLess(i, j)
  <1>1. Get(b, k) = IF later = {} THEN RecordFromBytes(<< >>) ELSE RecordFromBytes(b[first])
    BY DEF Get
  <1>2. later \in SUBSET Seq(Nat) /\ later \subseteq DOMAIN b
    OBVIOUS
  <1> HIDE DEF later
  <1>3. IsFiniteSet(later)
    BY <1>2, FS_Subset
  <1>4. CASE later # {}
    <2>1. first \in later
      BY <1>2, <1>3, <1>4, FirstKey
    <2> HIDE DEF first
    <2> QED BY <1>1, <1>2, <1>4, <2>1
  <1> QED BY <1>1, <1>4

LEMMA InitInv == Init => Inv
  <1> SUFFICES ASSUME Init  PROVE Inv
    OBVIOUS
  <1>1. DOMAIN << >> = {}
    OBVIOUS
  <1>2. TypeOK
    BY <1>1, SizesAssumption DEF Init, TypeOK
  <1>3. Kept
    BY <1>1, FS_EmptySet DEF Init, Kept
  <1>4. KeysNamed /\ RowsShown
    BY <1>1 DEF Init, KeysNamed, RowsShown
  <1> QED BY <1>2, <1>3, <1>4 DEF Inv

-----------------------------------------------------------------------------
(* INSERT.                                                                 *)

\* A statement that changes no row.
LEMMA SameRows ==
    ASSUME Inv, UNCHANGED <<types, bucket, meant, rekeyed, garbled, shown, listened>>,
           writes' \in 0..MaxSize
    PROVE  Inv'
  <1>1. TypeOK'
    BY DEF Inv, TypeOK, Columns
  <1>2. Kept'
    BY DEF Inv, Kept
  <1>3. KeysNamed'
    BY DEF Inv, KeysNamed
  <1>4. RowsShown'
    BY DEF Inv, RowsShown
  <1> QED BY <1>1, <1>2, <1>3, <1>4 DEF Inv

LEMMA WriteCounts ==
    ASSUME TypeOK, Write
    PROVE  writes' \in 0..MaxSize
  <1>1. Len(types) \in Nat
    BY SchemasAssumption DEF TypeOK
  <1>2. writes \in 0..MaxSize /\ MaxSize \in Nat
    BY SizesAssumption DEF TypeOK
  <1> QED BY <1>1, <1>2 DEF Write

\* The row that INSERT writes, and the record that the live query finds then.
LEMMA InsertedRow ==
    ASSUME Inv, NEW fields \in [Columns -> Strings],
           fields[Key] # << >>, fields[Key] \notin DOMAIN bucket, Insert(fields)
    PROVE  LET k == fields[Key]
               row == Meant(fields)
           IN  /\ Key \in Columns /\ k \in Strings /\ row \in Rows(types)
               /\ types[Key] = TypeString => row[Key] = k
               /\ bucket' = With(bucket, k, Written(types, row))
               /\ meant' = With(meant, k, row)
               /\ shown' = Append(shown, row)
               /\ listened' = listened \cup {row[Key]}
  <1> DEFINE k == fields[Key]
             row == Meant(fields)
             record == [i \in Columns |-> [EmptyValue EXCEPT !.str = fields[i]]]
             found == Get(bucket', k)
  <1>1. types \in Schemas /\ DOMAIN bucket \subseteq Strings
    BY DEF Inv, TypeOK
  <1>2. Key \in Columns /\ TypeInt # TypeString
    BY <1>1, SchemasAssumption DEF Columns, Key, TypeInt, TypeString
  <1>3. k \in Strings /\ fields \in [Columns -> Texts]
    BY <1>2 DEF Texts
  <1>4. \A i \in Columns : record[i].int = 0 /\ record[i].str = fields[i]
    BY DEF EmptyValue
  <1>5. types[Key] = TypeString => row[Key] = k
    BY <1>2 DEF Meant
  <1>6. /\ bucket' = With(bucket, k, ToBytes(record))
        /\ meant' = With(meant, k, row)
        /\ shown' = Append(shown, Fields(found))
        /\ listened' = listened \cup {found[Key].str}
    BY DEF Insert
  <1> HIDE DEF record
  <1>7. row \in Rows(types) /\ ToBytes(record) = Written(types, row)
    BY <1>1, <1>3, <1>4, MeantWritten
  <1> HIDE DEF row, k, found
  <1>8. DOMAIN bucket' = DOMAIN bucket \cup {k} /\ bucket'[k] = Written(types, row)
    BY <1>6, <1>7 DEF With
  <1>9. found = RecordFromBytes(bucket'[k])
    <2>1. DOMAIN bucket' \subseteq Seq(Nat) /\ k \in DOMAIN bucket'
      BY <1>1, <1>3, <1>8, KeyTypes
    <2> QED BY <2>1, GetPresent DEF found
  <1>10. found = Row(types, row)
    BY <1>1, <1>7, <1>8, <1>9, RoundTrip
  <1>11. Fields(found) = row /\ found[Key].str = row[Key]
    BY <1>2, <1>7, <1>10, RowFields
  <1> QED BY <1>2, <1>3, <1>5, <1>6, <1>7, <1>11 DEF k, row

LEMMA InsertInv ==
    ASSUME Inv, NEW fields \in [Columns -> Strings], Insert(fields)
    PROVE  Inv'
  <1> DEFINE k == fields[Key]
             row == Meant(fields)
  <1>0. writes' \in 0..MaxSize
    BY WriteCounts DEF Inv, Insert
  <1>1. CASE k = << >> \/ k \in DOMAIN bucket
    <2>1. UNCHANGED <<types, bucket, meant, rekeyed, garbled, shown, listened>>
      BY <1>1 DEF Insert
    <2> QED BY <1>0, <2>1, SameRows
  <1>2. CASE k # << >> /\ k \notin DOMAIN bucket
    <2>1. /\ Key \in Columns /\ k \in Strings /\ row \in Rows(types)
          /\ types[Key] = TypeString => row[Key] = k
          /\ bucket' = With(bucket, k, Written(types, row))
          /\ meant' = With(meant, k, row)
          /\ shown' = Append(shown, row)
          /\ listened' = listened \cup {row[Key]}
      BY <1>2, InsertedRow
    <2>2. UNCHANGED <<types, rekeyed, garbled>>
      BY DEF Insert
    <2>3. /\ types \in Schemas /\ DOMAIN bucket \subseteq Strings \ {<< >>}
          /\ \A j \in DOMAIN bucket : bucket[j] \in Seq(0..Base-1)
          /\ DOMAIN meant = DOMAIN bucket
          /\ rekeyed \subseteq Strings /\ garbled \subseteq DOMAIN bucket
          /\ listened \subseteq Strings \cup {<< >>}
          /\ shown \in Seq([Columns -> Strings \cup {<< >>}])
      BY DEF Inv, TypeOK
    <2>4. /\ Written(types, row) \in Seq(0..Base-1)
          /\ row \in [Columns -> Strings \cup {<< >>}]
      BY <2>1, <2>3, RoundTrip, RowFields DEF Byte, Texts
    <2> HIDE DEF k, row
    <2>5. /\ DOMAIN bucket' = DOMAIN bucket \cup {k} /\ DOMAIN meant' = DOMAIN bucket \cup {k}
          /\ bucket'[k] = Written(types, row) /\ meant'[k] = row
          /\ \A j \in DOMAIN bucket : bucket'[j] = bucket[j] /\ meant'[j] = meant[j]
      BY <1>2, <2>1, <2>3 DEF With
    <2>6. shown' \in Seq([Columns -> Strings \cup {<< >>}])
      <3> DEFINE S == [Columns -> Strings \cup {<< >>}]
      <3>1. shown \in Seq(S) /\ row \in S
        BY <2>3, <2>4
      <3> HIDE DEF S
      <3>2. Append(shown, row) \in Seq(S)
        BY <3>1
      <3> QED BY <2>1, <3>2 DEF S
    <2>7. /\ Len(shown) \in Nat /\ DOMAIN shown = 1..Len(shown)
          /\ DOMAIN shown' = 1..Len(shown) + 1
          /\ \A n \in DOMAIN shown : shown'[n] = shown[n]
          /\ shown'[Len(shown) + 1] = row
      BY <2>1, <2>3
    <2>8. TypeOK'
      <3>1. row[Key] \in Strings \cup {<< >>}
        BY <2>1, <2>4
      <3>2. Columns' = Columns
        BY <2>2 DEF Columns
      <3>3. \A j \in DOMAIN bucket' : bucket'[j] \in Seq(0..Base-1)
        BY <2>3, <2>4, <2>5
      <3>4. DOMAIN bucket' \subseteq Strings \ {<< >>} /\ DOMAIN meant' = DOMAIN bucket'
        BY <1>2, <2>1, <2>3, <2>5
      <3>5. rekeyed' \subseteq Strings /\ garbled' \subseteq DOMAIN bucket' /\ types' \in Schemas
        BY <2>2, <2>3, <2>5
      <3>6. listened' \subseteq Strings \cup {<< >>}
        BY <2>1, <2>3, <3>1
      <3> QED BY <1>0, <2>6, <3>2, <3>3, <3>4, <3>5, <3>6 DEF TypeOK
    <2>9. Kept'
      <3>1. IsFiniteSet(DOMAIN bucket')
        BY <2>5, FS_AddElement DEF Inv, Kept
      <3>2. \A j \in DOMAIN bucket' :
               meant'[j] \in Rows(types') /\ bucket'[j] = Written(types', meant'[j])
        BY <2>1, <2>2, <2>5 DEF Inv, Kept
      <3> QED BY <3>1, <3>2 DEF Kept
    <2>10. KeysNamed'
      BY <2>1, <2>2, <2>5 DEF Inv, KeysNamed
    <2>11. RowsShown'
      <3> SUFFICES ASSUME types'[Key] = TypeString
                   PROVE  /\ listened' = DOMAIN bucket'
                          /\ \A n \in DOMAIN shown' : shown'[n][Key] \in DOMAIN bucket'
                          /\ \A j \in DOMAIN bucket' :
                                \E n \in DOMAIN shown' :
                                    {m \in DOMAIN shown' : shown'[m][Key] = j} = {n}
                          /\ \A n \in DOMAIN shown' :
                                shown'[n][Key] \notin rekeyed' \cup garbled'
                                  => shown'[n] = meant'[shown'[n][Key]]
        BY DEF RowsShown
      <3>1. /\ listened = DOMAIN bucket
            /\ \A n \in DOMAIN shown : shown[n][Key] \in DOMAIN bucket
            /\ \A j \in DOMAIN bucket :
                  \E n \in DOMAIN shown : {m \in DOMAIN shown : shown[m][Key] = j} = {n}
            /\ \A n \in DOMAIN shown :
                  shown[n][Key] \notin rekeyed \cup garbled => shown[n] = meant[shown[n][Key]]
        BY <2>2 DEF Inv, RowsShown
      <3> DEFINE last == Len(shown) + 1
      <3>2. row[Key] = k
        BY <2>1, <2>2
      <3>3. /\ DOMAIN shown' = DOMAIN shown \cup {last} /\ last \notin DOMAIN shown
            /\ shown'[last] = row
        BY <2>7
      <3> HIDE DEF last
      <3>4. listened' = DOMAIN bucket'
        BY <2>1, <2>5, <3>1, <3>2
      <3>5. \A n \in DOMAIN shown' : shown'[n][Key] \in DOMAIN bucket'
        BY <2>5, <2>7, <3>1, <3>2, <3>3
      <3>6. ASSUME NEW j \in DOMAIN bucket'
            PROVE  \E n \in DOMAIN shown' : {m \in DOMAIN shown' : shown'[m][Key] = j} = {n}
        <4>1. CASE j = k
          <5>1. {m \in DOMAIN shown' : shown'[m][Key] = j} = {last}
            <6>1. \A m \in DOMAIN shown : shown'[m][Key] # k
              <7>1. \A m \in DOMAIN shown : shown[m][Key] # k
                BY <1>2, <3>1
              <7> QED BY <2>7, <7>1
            <6>2. shown'[last][Key] = k
              BY <3>2, <3>3
            <6> QED BY <3>3, <4>1, <6>1, <6>2
          <5> QED BY <3>3, <5>1
        <4>2. CASE j # k
          <5>1. PICK n \in DOMAIN shown : {m \in DOMAIN shown : shown[m][Key] = j} = {n}
            BY <2>5, <3>1, <4>2
          <5>2. {m \in DOMAIN shown' : shown'[m][Key] = j} = {m \in DOMAIN shown : shown[m][Key] = j}
            BY <2>7, <3>2, <3>3, <4>2
          <5> QED BY <3>3, <5>1, <5>2
        <4> QED BY <4>1, <4>2
      <3>7. ASSUME NEW n \in DOMAIN shown', shown'[n][Key] \notin rekeyed' \cup garbled'
            PROVE  shown'[n] = meant'[shown'[n][Key]]
        <4>1. CASE n = last
          BY <2>5, <3>2, <3>3, <4>1
        <4>2. CASE n \in DOMAIN shown
          BY <2>2, <2>5, <2>7, <3>1, <3>7, <4>2
        <4> QED BY <3>3, <4>1, <4>2
      <3> QED BY <3>4, <3>5, <3>6, <3>7
    <2> QED BY <2>8, <2>9, <2>10, <2>11 DEF Inv
  <1> QED BY <1>1, <1>2

-----------------------------------------------------------------------------
(* UPDATE.                                                                 *)

\* The rows that an UPDATE hits and the fields that it gives them.
Hit(j, equals) == {k \in DOMAIN bucket : meant[k][j] = equals}
NewFields(k, i, s) == Meant([meant[k] EXCEPT ![i] = s])

LEMMA HitIs ==
    ASSUME TypeOK, Kept, NEW j \in Columns, NEW equals
    PROVE  {k \in DOMAIN bucket : Stored(k)[j].str = equals} = Hit(j, equals)
  <1>1. \A k \in DOMAIN bucket : Stored(k)[j].str = meant[k][j]
    BY StoredIs, RowFields
  <1> QED BY <1>1 DEF Hit

\* A row's field after SET.
LEMMA FieldSet ==
    ASSUME TypeOK, Kept, NEW k \in DOMAIN bucket, NEW i \in Columns, NEW s \in Strings
    PROVE  /\ [meant[k] EXCEPT ![i] = s] \in [Columns -> Texts]
           /\ \A m \in Columns : types[m] = TypeInt => Put(k, i, s)[m].int = 0
           /\ \A m \in Columns : Put(k, i, s)[m].str = [meant[k] EXCEPT ![i] = s][m]
  <1> DEFINE r == Stored(k)
             f == meant[k]
  <1>1. r = Row(types, f) /\ f \in Rows(types)
    BY StoredIs
  <1>2. f \in [Columns -> Texts]
        /\ \A m \in Columns : r[m].str = f[m] /\ r[m].int = 0 /\ r[m].type = types[m]
    BY <1>1, RowFields
  <1>3. r = [m \in Columns |-> ValueOf(types[m], f[m])]
    BY <1>1 DEF Row, Columns
  <1>4. Put(k, i, s) = SetString(r, i, s)
    BY DEF Put
  <1> HIDE DEF r, f
  <1>5. SetString(r, i, s)[i].str = s /\ SetString(r, i, s)[i].int = 0
    <2>1. r[i] = [type |-> types[i], str |-> f[i], int |-> 0]
      BY <1>3 DEF ValueOf
    <2> QED BY <1>3, <2>1 DEF SetString
  <1>6. \A m \in Columns : m # i => SetString(r, i, s)[m] = r[m]
    BY <1>3 DEF SetString
  <1>7. [f EXCEPT ![i] = s] \in [Columns -> Texts]
    BY <1>2 DEF Texts
  <1>8. \A m \in Columns : SetString(r, i, s)[m].int = 0
                           /\ SetString(r, i, s)[m].str = [f EXCEPT ![i] = s][m]
    BY <1>2, <1>5, <1>6
  <1> QED BY <1>4, <1>7, <1>8 DEF f

\* What is put in a row that is hit, and the copies that are pushed.
LEMMA PutIs ==
    ASSUME TypeOK, Kept, NEW k \in DOMAIN bucket, NEW i \in Columns, NEW s \in Strings
    PROVE  /\ NewFields(k, i, s) \in Rows(types)
           /\ Old(k) = Row(types, meant[k])
           /\ ToBytes(Put(k, i, s)) = Written(types, NewFields(k, i, s))
           /\ New(k, i, s) = Row(types, NewFields(k, i, s))
  <1>1. types \in Schemas
    BY DEF TypeOK
  <1>2. Stored(k) = Row(types, meant[k]) /\ meant[k] \in Rows(types)
    BY StoredIs
  <1>3. Old(k) = Row(types, meant[k])
    BY <1>1, <1>2, RowBytes, RoundTrip DEF Old, Pushed, Clone
  <1> DEFINE f == [meant[k] EXCEPT ![i] = s]
             put == Put(k, i, s)
  <1>4. /\ f \in [Columns -> Texts]
        /\ \A m \in Columns : types[m] = TypeInt => put[m].int = 0
        /\ \A m \in Columns : types[m] # TypeInt => put[m].str = f[m]
    BY FieldSet
  <1>5. NewFields(k, i, s) = Meant(f) /\ New(k, i, s) = RecordFromBytes(ToBytes(put))
    BY DEF NewFields, New, Pushed, Clone
  <1> HIDE DEF f, put
  <1>6. Meant(f) \in Rows(types) /\ ToBytes(put) = Written(types, Meant(f))
    BY <1>1, <1>4, MeantWritten
  <1>7. RecordFromBytes(Written(types, Meant(f))) = Row(types, Meant(f))
    BY <1>1, <1>6, RoundTrip
  <1> QED BY <1>3, <1>5, <1>6, <1>7 DEF put

\* What the client's tree may be while it is told of an UPDATE: its rows keep
\* their ids.
Trees ==
    {tree \in Seq([Columns -> Texts]) :
        /\ DOMAIN tree = DOMAIN shown
        /\ \A n \in DOMAIN shown : tree[n][Key] = shown[n][Key]}

\* A row update gives its fields to the rows with its id, and no other.
LEMMA TellIs ==
    ASSUME TypeOK, NEW tree \in Trees, NEW old, NEW fields \in Rows(types)
    PROVE  /\ Tell(tree, old, Row(types, fields)) \in Trees
           /\ \A n \in DOMAIN shown :
                 Tell(tree, old, Row(types, fields))[n] =
                   IF /\ fields[Key] \in listened /\ IsJSON(old) /\ IsJSON(Row(types, fields))
                      /\ fields[Key] = shown[n][Key]
                   THEN fields ELSE tree[n]
  <1> DEFINE new == Row(types, fields)
             S == [Columns -> Texts]
             sent == fields[Key] \in listened /\ IsJSON(old) /\ IsJSON(new)
             told == [n \in DOMAIN tree |-> IF tree[n][Key] = fields[Key] THEN fields ELSE tree[n]]
  <1>1. Key \in Columns
    BY SchemasAssumption DEF TypeOK, Key, Columns
  <1>2. fields \in S /\ new[Key].str = fields[Key] /\ Fields(new) = fields
    BY <1>1, RowFields
  <1>3. Tell(tree, old, new) = IF sent THEN told ELSE tree
    BY <1>2 DEF Tell
  <1>4. /\ tree \in Seq(S) /\ DOMAIN tree = DOMAIN shown
        /\ \A n \in DOMAIN shown : tree[n][Key] = shown[n][Key]
    BY DEF Trees
  <1> HIDE DEF S, sent, new
  <1>5. told \in Seq(S) /\ DOMAIN told = DOMAIN shown
    <2>1. Len(tree) \in Nat /\ DOMAIN tree = 1..Len(tree) /\ \A n \in 1..Len(tree) : tree[n] \in S
      BY <1>4
    <2>2. told \in [1..Len(tree) -> S]
      BY <1>2, <2>1
    <2> QED BY <1>4, <2>1, <2>2
  <1>6. \A n \in DOMAIN shown :
           told[n] = IF fields[Key] = shown[n][Key] THEN fields ELSE tree[n]
    BY <1>4
  <1>7. \A n \in DOMAIN shown : told[n][Key] = shown[n][Key]
    BY <1>4, <1>6
  <1> HIDE DEF told
  <1>8. told \in Trees
    BY <1>5, <1>7 DEF Trees, S
  <1> QED BY <1>3, <1>6, <1>8 DEF sent, new

\* The client's tree while it is told of the rows of an UPDATE.
Tellings(f, hit, i, s) ==
    /\ f[0] = shown
    /\ \A n \in 1..Cardinality(hit) :
          f[n] = Tell(f[n - 1], Old(Ordered(hit)[n]), New(Ordered(hit)[n], i, s))

LEMMA ToldIs ==
    ASSUME Inv, NEW hit \in SUBSET DOMAIN bucket, NEW i \in Columns, NEW s \in Strings
    PROVE  /\ Cardinality(hit) \in Nat
           /\ Ordered(hit) \in [1..Cardinality(hit) -> hit]
           /\ \A k \in hit : \E n \in 1..Cardinality(hit) : Ordered(hit)[n] = k
           /\ \E f \in [0..Cardinality(hit) -> Trees] :
                 Tellings(f, hit, i, s) /\ Told(hit, i, s) = f[Cardinality(hit)]
  <1> DEFINE visited == Ordered(hit)
             c == Cardinality(hit)
             S == Trees
             step(n, t) == Tell(t, Old(visited[n]), New(visited[n], i, s))
  <1>0. TypeOK /\ Kept
    BY DEF Inv
  <1>1. hit \in SUBSET Seq(Nat) /\ IsFiniteSet(hit)
    <2>1. \A k \in hit : k \in Strings
      BY DEF Inv, TypeOK
    <2>2. IsFiniteSet(hit)
      BY FS_Subset DEF Inv, Kept
    <2> QED BY <2>1, <2>2, KeyTypes
  <1>2. /\ c \in Nat /\ visited \in [1..c -> hit]
        /\ \A k \in hit : \E n \in 1..c : visited[n] = k
    BY <1>1, FS_CardinalityType, OrderedVisits
  <1> HIDE DEF visited, c
  <1>3. \A n \in 1..c : \A t \in S : step(n, t) \in S
    <2> SUFFICES ASSUME NEW n \in 1..c, NEW t \in S  PROVE step(n, t) \in S
      OBVIOUS
    <2>1. visited[n] \in DOMAIN bucket
      BY <1>2
    <2> QED BY <1>0, <2>1, PutIs, TellIs
  <1>4. shown \in S
    BY DEF Inv, TypeOK, Trees, Texts
  <1> HIDE DEF S, step
  <1> DEFINE g == [n \in 1..c |-> [t \in S |-> step(n, t)]]
  <1>5. g \in [1..c -> [S -> S]] /\ \A n \in 1..c : \A t \in S : g[n][t] = step(n, t)
    BY <1>3
  <1> HIDE DEF g
  <1>6. PICK f \in [0..c -> S] : Iterates(f, c, shown, g)
    BY <1>2, <1>4, <1>5, Iterated
  <1>7. \A n \in 0..c : n # 0 => n \in 1..c /\ n - 1 \in 0..c
    BY <1>2
  <1>8. ASSUME NEW n \in 0..c
        PROVE  f[n] = IF n = 0 THEN shown ELSE step(n, f[n - 1])
    <2>1. ASSUME n # 0  PROVE f[n] = g[n][f[n - 1]] /\ n \in 1..c /\ f[n - 1] \in S
      BY <1>6, <1>7, <2>1 DEF Iterates
    <2>2. n # 0 => f[n] = step(n, f[n - 1])
      BY <1>5, <2>1
    <2> QED BY <1>6, <2>2 DEF Iterates
  <1> DEFINE Is(v) == v = [n \in 0..c |-> IF n = 0 THEN shown ELSE step(n, v[n - 1])]
  <1>9. Is(f)
    BY <1>8
  <1> DEFINE h == CHOOSE v : Is(v)
  <1>10. Is(h)
    BY <1>9
  <1>11. Told(hit, i, s) = h[c]
    BY DEF Told, step, c, visited
  <1> HIDE DEF h
  <1>12. \A n \in 0..c : h[n] = IF n = 0 THEN shown ELSE step(n, h[n - 1])
    BY <1>10
  <1> DEFINE T == {n \in 0..c : h[n] = f[n]}
  <1>13. 0 \in T
    <2>1. 0 \in 0..c
      BY <1>2
    <2> QED BY <1>8, <1>12, <2>1
  <1>14. ASSUME NEW n \in 0..c - 1, n \in T  PROVE n + 1 \in T
    <2>1. n + 1 \in 0..c /\ n + 1 # 0 /\ (n + 1) - 1 = n
      BY <1>2
    <2>2. h[n] = f[n]
      BY <1>14
    <2>3. f[n + 1] = step(n + 1, f[n]) /\ h[n + 1] = step(n + 1, h[n])
      BY <1>8, <1>12, <2>1
    <2> QED BY <2>1, <2>2, <2>3
  <1>15. h[c] = f[c]
    <2> HIDE DEF T
    <2>1. \A n \in 0..c : n \in T
      BY <1>2, <1>13, <1>14, FromZero
    <2>2. c \in 0..c
      BY <1>2
    <2> QED BY <2>1, <2>2 DEF T
  <1>16. Tellings(f, hit, i, s)
    <2>1. \A n \in 1..c : n \in 0..c /\ n # 0
      BY <1>2
    <2>2. f[0] = shown /\ \A n \in 1..c : f[n] = step(n, f[n - 1])
      BY <1>6, <1>8, <2>1 DEF Iterates
    <2> QED BY <2>2 DEF Tellings, step, c, visited
  <1>17. \E f1 \in [0..c -> S] : Tellings(f1, hit, i, s) /\ Told(hit, i, s) = f1[c]
    BY <1>11, <1>15, <1>16
  <1> QED BY <1>2, <1>17 DEF c, visited, S

\* A row keeps its fields if no row that is hit has its id afterwards; if one row
\* has it, and its update is JSON, the client shows its new fields.
LEMMA ToldRow ==
    ASSUME Inv, NEW hit \in SUBSET DOMAIN bucket, NEW i \in Columns, NEW s \in Strings,
           NEW m \in DOMAIN shown
    PROVE  /\ Told(hit, i, s) \in Trees
           /\ (\A k \in hit : NewFields(k, i, s)[Key] # shown[m][Key])
                => Told(hit, i, s)[m] = shown[m]
           /\ \A k \in hit :
                 (/\ NewFields(k, i, s)[Key] = shown[m][Key]
                  /\ \A j \in hit : j # k => NewFields(j, i, s)[Key] # shown[m][Key]
                  /\ shown[m][Key] \in listened /\ IsJSON(Old(k)) /\ IsJSON(New(k, i, s)))
                 => Told(hit, i, s)[m] = NewFields(k, i, s)
  <1> DEFINE c == Cardinality(hit)
             visited == Ordered(hit)
             id(k) == NewFields(k, i, s)[Key]
             sent(k) == id(k) \in listened /\ IsJSON(Old(k)) /\ IsJSON(New(k, i, s))
  <1>1. /\ c \in Nat /\ visited \in [1..c -> hit]
        /\ \A k \in hit : \E n \in 1..c : visited[n] = k
    BY ToldIs
  <1>2. PICK f \in [0..c -> Trees] : Tellings(f, hit, i, s) /\ Told(hit, i, s) = f[c]
    BY ToldIs
  <1> HIDE DEF c, visited
  <1>3. f[0] = shown /\ c \in 0..c
    BY <1>1, <1>2 DEF Tellings
  <1>4. ASSUME NEW n \in 1..c
        PROVE  f[n][m] = IF sent(visited[n]) /\ id(visited[n]) = shown[m][Key]
                         THEN NewFields(visited[n], i, s) ELSE f[n - 1][m]
    <2> DEFINE k == visited[n]
    <2>1. k \in DOMAIN bucket
      BY <1>1
    <2>2. f[n - 1] \in Trees
      BY <1>1, <1>2
    <2>3. f[n] = Tell(f[n - 1], Old(k), New(k, i, s))
      BY <1>2 DEF Tellings, c, visited
    <2>4. NewFields(k, i, s) \in Rows(types) /\ New(k, i, s) = Row(types, NewFields(k, i, s))
      BY <2>1, PutIs DEF Inv
    <2> HIDE DEF k
    <2>5. Tell(f[n - 1], Old(k), Row(types, NewFields(k, i, s)))[m] =
             IF /\ id(k) \in listened /\ IsJSON(Old(k)) /\ IsJSON(Row(types, NewFields(k, i, s)))
                /\ id(k) = shown[m][Key]
             THEN NewFields(k, i, s) ELSE f[n - 1][m]
      BY <2>2, <2>4, TellIs DEF Inv
    <2> QED BY <2>3, <2>4, <2>5 DEF k
  <1> HIDE DEF id, sent
  <1>5. ASSUME \A k \in hit : id(k) # shown[m][Key]
        PROVE  f[c][m] = shown[m]
    <2> DEFINE T == {n \in 0..c : f[n][m] = shown[m]}
    <2>1. 0 \in T
      BY <1>1, <1>3
    <2>2. ASSUME NEW n \in 0..c - 1, n \in T  PROVE n + 1 \in T
      <3>1. n + 1 \in 0..c /\ n + 1 \in 1..c /\ (n + 1) - 1 = n
        BY <1>1
      <3>2. id(visited[n + 1]) # shown[m][Key]
        BY <1>1, <1>5, <3>1
      <3>3. f[n][m] = shown[m]
        BY <2>2
      <3>4. f[n + 1][m] = f[n][m]
        BY <1>4, <3>1, <3>2
      <3> QED BY <3>1, <3>3, <3>4
    <2> HIDE DEF T
    <2>3. \A n \in 0..c : n \in T
      BY <1>1, <2>1, <2>2, FromZero
    <2> QED BY <1>3, <2>3 DEF T
  <1>6. ASSUME NEW k \in hit, id(k) = shown[m][Key], sent(k),
               \A j \in hit : j # k => id(j) # shown[m][Key]
        PROVE  f[c][m] = NewFields(k, i, s)
    <2>1. PICK p \in 1..c : visited[p] = k
      BY <1>1
    <2> DEFINE T == {n \in 0..c : p <= n => f[n][m] = NewFields(k, i, s)}
    <2>2. 0 \in T
      BY <1>1
    <2>3. ASSUME NEW n \in 0..c - 1, n \in T  PROVE n + 1 \in T
      <3>1. n + 1 \in 0..c /\ n + 1 \in 1..c /\ (n + 1) - 1 = n
        BY <1>1
      <3>2. visited[n + 1] \in hit
        BY <1>1, <3>1
      <3>3. CASE visited[n + 1] = k
        <4>1. f[n + 1][m] = NewFields(k, i, s)
          BY <1>4, <1>6, <3>1, <3>3
        <4> QED BY <3>1, <4>1
      <3>4. CASE visited[n + 1] # k
        <4>1. id(visited[n + 1]) # shown[m][Key] /\ n + 1 # p
          BY <1>6, <2>1, <3>2, <3>4
        <4>2. f[n + 1][m] = f[n][m]
          BY <1>4, <3>1, <4>1
        <4>3. p <= n + 1 => p <= n
          BY <1>1, <4>1
        <4> QED BY <2>3, <3>1, <4>2, <4>3
      <3> QED BY <3>3, <3>4
    <2> HIDE DEF T
    <2>4. \A n \in 0..c : n \in T
      BY <1>1, <2>2, <2>3, FromZero
    <2>5. p <= c
      BY <1>1
    <2> QED BY <1>3, <2>4, <2>5 DEF T
  <1>7. Told(hit, i, s) \in Trees
    BY <1>2, <1>3
  <1>8. \A k \in hit : id(k) = shown[m][Key] /\ shown[m][Key] \in listened
                       /\ IsJSON(Old(k)) /\ IsJSON(New(k, i, s)) => sent(k)
    BY DEF sent
  <1> QED BY <1>2, <1>5, <1>6, <1>7, <1>8 DEF id

\* The fields that rows have after an UPDATE.
LEMMA UpdatedRows ==
    ASSUME Inv, NEW i \in Columns, NEW s \in Strings, NEW j \in Columns, NEW equals \in Strings,
           Update(i, s, j, equals)
    PROVE  LET hit == Hit(j, equals)
           IN  /\ DOMAIN bucket' = DOMAIN bucket /\ DOMAIN meant' = DOMAIN bucket
               /\ \A k \in hit : /\ meant'[k] = NewFields(k, i, s)
                                 /\ bucket'[k] = Written(types, NewFields(k, i, s))
                                 /\ NewFields(k, i, s) \in Rows(types)
               /\ \A k \in DOMAIN bucket : k \notin hit => meant'[k] = meant[k] /\ bucket'[k] = bucket[k]
               /\ shown' = Told(hit, i, s)
               /\ garbled' = (garbled \ hit) \cup
                             {k \in hit : ~IsJSON(Old(k)) \/ ~IsJSON(New(k, i, s))}
               /\ rekeyed' = IF i = Key THEN rekeyed \cup Moved(hit, s) ELSE rekeyed
               /\ UNCHANGED <<types, listened>>
  <1> DEFINE hit == Hit(j, equals)
  <1>1. TypeOK /\ Kept /\ DOMAIN meant = DOMAIN bucket
    BY DEF Inv, TypeOK
  <1>2. {k \in DOMAIN bucket : Stored(k)[j].str = equals} = hit
    BY <1>1, HitIs
  <1>3. /\ bucket' = [k \in DOMAIN bucket |-> IF k \in hit THEN ToBytes(Put(k, i, s)) ELSE bucket[k]]
        /\ shown' = Told(hit, i, s)
        /\ garbled' = (garbled \ hit) \cup {k \in hit : ~IsJSON(Old(k)) \/ ~IsJSON(New(k, i, s))}
        /\ rekeyed' = IF i = Key THEN rekeyed \cup Moved(hit, s) ELSE rekeyed
    BY <1>2 DEF Update
  <1>4. /\ meant' = [k \in DOMAIN meant |->
                       IF meant[k][j] = equals THEN NewFields(k, i, s) ELSE meant[k]]
        /\ UNCHANGED <<types, listened>>
    BY DEF Update, NewFields
  <1>5. \A k \in DOMAIN bucket : k \in hit <=> meant[k][j] = equals
    BY DEF Hit
  <1>6. hit \subseteq DOMAIN bucket
    BY DEF Hit
  <1> HIDE DEF hit
  <1>7. \A k \in hit : /\ NewFields(k, i, s) \in Rows(types)
                       /\ ToBytes(Put(k, i, s)) = Written(types, NewFields(k, i, s))
    BY <1>1, <1>6, PutIs
  <1>8. /\ DOMAIN bucket' = DOMAIN bucket /\ DOMAIN meant' = DOMAIN bucket
        /\ \A k \in hit : meant'[k] = NewFields(k, i, s)
                          /\ bucket'[k] = Written(types, NewFields(k, i, s))
        /\ \A k \in DOMAIN bucket : k \notin hit => meant'[k] = meant[k] /\ bucket'[k] = bucket[k]
    BY <1>1, <1>3, <1>4, <1>5, <1>6, <1>7
  <1> QED BY <1>3, <1>4, <1>7, <1>8 DEF hit

\* The name of a row that is hit: a row that still has its own is the only one
\* that does, and the one that was shown by it.
LEMMA UpdatedKeys ==
    ASSUME Inv, types[Key] = TypeString,
           NEW i \in Columns, NEW s \in Strings, NEW hit \in SUBSET DOMAIN bucket,
           rekeyed' = IF i = Key THEN rekeyed \cup Moved(hit, s) ELSE rekeyed
    PROVE  \A k \in hit :
              /\ \/ NewFields(k, i, s)[Key] = k
                 \/ k \in rekeyed' /\ NewFields(k, i, s)[Key] \in rekeyed'
              /\ k \notin rekeyed' => NewFields(k, i, s)[Key] = k
              /\ \A o \in DOMAIN bucket :
                    o \notin rekeyed' /\ o # k => NewFields(k, i, s)[Key] # o
  <1> SUFFICES ASSUME NEW k \in hit
               PROVE  /\ \/ NewFields(k, i, s)[Key] = k
                         \/ k \in rekeyed' /\ NewFields(k, i, s)[Key] \in rekeyed'
                      /\ k \notin rekeyed' => NewFields(k, i, s)[Key] = k
                      /\ \A o \in DOMAIN bucket :
                            o \notin rekeyed' /\ o # k => NewFields(k, i, s)[Key] # o
    OBVIOUS
  <1>1. Key \in Columns /\ TypeInt # TypeString
    BY SchemasAssumption DEF Inv, TypeOK, Key, Columns, TypeInt, TypeString
  <1>2. meant[k] \in Rows(types)
    BY DEF Inv, Kept
  <1>3. NewFields(k, i, s)[Key] = IF i = Key THEN s ELSE meant[k][Key]
    <2>1. meant[k] \in [Columns -> Texts]
      BY <1>2, RowFields
    <2>2. [meant[k] EXCEPT ![i] = s][Key] = IF i = Key THEN s ELSE meant[k][Key]
      BY <1>1, <2>1
    <2> QED BY <1>1, <2>2 DEF NewFields, Meant
  <1>4. meant[k][Key] = k \/ (k \in rekeyed /\ meant[k][Key] \in rekeyed)
    BY DEF Inv, KeysNamed
  <1>5. CASE i = Key
    <2>1. rekeyed' = rekeyed \cup Moved(hit, s)
      BY <1>5
    <2>2. CASE hit \subseteq {s}
      BY <1>3, <1>5, <2>2
    <2>3. CASE ~(hit \subseteq {s})
      <3>1. k \in rekeyed' /\ s \in rekeyed'
        BY <2>1, <2>3 DEF Moved
      <3> QED BY <1>3, <1>5, <3>1
    <2> QED BY <2>2, <2>3
  <1>6. CASE i # Key
    BY <1>3, <1>4, <1>6
  <1> QED BY <1>5, <1>6

LEMMA UpdateInv ==
    ASSUME Inv, NEW i \in Columns, NEW s \in Strings, NEW j \in Columns, NEW equals \in Strings,
           Update(i, s, j, equals)
    PROVE  Inv'
  <1> DEFINE hit == Hit(j, equals)
             fields(k) == NewFields(k, i, s)
  <1>0. writes' \in 0..MaxSize
    BY WriteCounts DEF Inv, Update
  <1>1. /\ types \in Schemas /\ DOMAIN bucket \subseteq Strings \ {<< >>}
        /\ \A k \in DOMAIN bucket : bucket[k] \in Seq(0..Base-1)
        /\ DOMAIN meant = DOMAIN bucket
        /\ rekeyed \subseteq Strings /\ garbled \subseteq DOMAIN bucket
        /\ listened \subseteq Strings \cup {<< >>}
        /\ shown \in Seq([Columns -> Strings \cup {<< >>}])
    BY DEF Inv, TypeOK
  <1>2. hit \subseteq DOMAIN bucket
    BY DEF Hit
  <1>3. /\ DOMAIN bucket' = DOMAIN bucket /\ DOMAIN meant' = DOMAIN bucket
        /\ \A k \in hit : /\ meant'[k] = fields(k)
                          /\ bucket'[k] = Written(types, fields(k))
                          /\ fields(k) \in Rows(types)
        /\ \A k \in DOMAIN bucket : k \notin hit => meant'[k] = meant[k] /\ bucket'[k] = bucket[k]
        /\ shown' = Told(hit, i, s)
        /\ garbled' = (garbled \ hit) \cup {k \in hit : ~IsJSON(Old(k)) \/ ~IsJSON(New(k, i, s))}
        /\ rekeyed' = IF i = Key THEN rekeyed \cup Moved(hit, s) ELSE rekeyed
        /\ types' = types /\ listened' = listened
    BY UpdatedRows
  <1> HIDE DEF hit
  <1>4. \A m \in DOMAIN shown :
           /\ (\A k \in hit : fields(k)[Key] # shown[m][Key]) => shown'[m] = shown[m]
           /\ \A k \in hit :
                 (/\ fields(k)[Key] = shown[m][Key]
                  /\ \A o \in hit : o # k => fields(o)[Key] # shown[m][Key]
                  /\ shown[m][Key] \in listened /\ IsJSON(Old(k)) /\ IsJSON(New(k, i, s)))
                 => shown'[m] = fields(k)
    <2>1. hit \in SUBSET DOMAIN bucket
      BY <1>2
    <2>2. \A m \in DOMAIN shown :
             /\ (\A k \in hit : NewFields(k, i, s)[Key] # shown[m][Key])
                  => Told(hit, i, s)[m] = shown[m]
             /\ \A k \in hit :
                   (/\ NewFields(k, i, s)[Key] = shown[m][Key]
                    /\ \A o \in hit : o # k => NewFields(o, i, s)[Key] # shown[m][Key]
                    /\ shown[m][Key] \in listened /\ IsJSON(Old(k)) /\ IsJSON(New(k, i, s)))
                   => Told(hit, i, s)[m] = NewFields(k, i, s)
      BY <2>1, ToldRow
    <2> QED BY <1>3, <2>2
  <1>5. shown' \in Trees
    <2>1. PICK f \in [0..Cardinality(hit) -> Trees] : Told(hit, i, s) = f[Cardinality(hit)]
      BY <1>2, ToldIs
    <2>2. Cardinality(hit) \in Nat
      BY <1>2, ToldIs
    <2>3. Cardinality(hit) \in 0..Cardinality(hit)
      BY <2>2
    <2> QED BY <1>3, <2>1, <2>3
  <1>6. TypeOK'
    <2>1. shown' \in Seq([Columns -> Strings \cup {<< >>}]) /\ Columns' = Columns
      BY <1>3, <1>5 DEF Trees, Texts, Columns
    <2>2. \A k \in DOMAIN bucket' : bucket'[k] \in Seq(0..Base-1)
      <3>1. \A k \in hit : bucket'[k] \in Seq(0..Base-1)
        BY <1>1, <1>3, RoundTrip DEF Byte
      <3> QED BY <1>1, <1>3, <3>1
    <2>3. rekeyed' \subseteq Strings
      <3>1. Moved(hit, s) \subseteq Strings
        BY <1>1, <1>2 DEF Moved
      <3> QED BY <1>1, <1>3, <3>1
    <2>4. garbled' \subseteq DOMAIN bucket'
      BY <1>1, <1>2, <1>3
    <2>5. /\ types' \in Schemas /\ DOMAIN bucket' \subseteq Strings \ {<< >>}
          /\ DOMAIN meant' = DOMAIN bucket' /\ listened' \subseteq Strings \cup {<< >>}
      BY <1>1, <1>3
    <2> QED BY <1>0, <2>1, <2>2, <2>3, <2>4, <2>5 DEF TypeOK
  <1> HIDE DEF fields
  <1>7. Kept'
    <2>1. IsFiniteSet(DOMAIN bucket')
      BY <1>3 DEF Inv, Kept
    <2>2. \A k \in DOMAIN bucket' :
             meant'[k] \in Rows(types') /\ bucket'[k] = Written(types', meant'[k])
      BY <1>2, <1>3 DEF Inv, Kept
    <2> QED BY <2>1, <2>2 DEF Kept
  <1>8. ASSUME types[Key] = TypeString
        PROVE  \A k \in hit :
                  /\ fields(k)[Key] = k \/ (k \in rekeyed' /\ fields(k)[Key] \in rekeyed')
                  /\ k \notin rekeyed' => fields(k)[Key] = k
                  /\ \A o \in DOMAIN bucket : o \notin rekeyed' /\ o # k => fields(k)[Key] # o
    <2>1. hit \in SUBSET DOMAIN bucket
      BY <1>2
    <2>2. rekeyed' = IF i = Key THEN rekeyed \cup Moved(hit, s) ELSE rekeyed
      BY <1>3
    <2> QED BY <1>8, <2>1, <2>2, UpdatedKeys DEF fields
  <1>9. KeysNamed'
    <2> SUFFICES ASSUME types[Key] = TypeString, NEW k \in DOMAIN bucket
                 PROVE  meant'[k][Key] = k \/ (k \in rekeyed' /\ meant'[k][Key] \in rekeyed')
      BY <1>3 DEF KeysNamed
    <2>1. CASE k \in hit
      BY <1>3, <1>8, <2>1
    <2>2. CASE k \notin hit
      BY <1>3, <2>2 DEF Inv, KeysNamed
    <2> QED BY <2>1, <2>2
  <1>10. RowsShown'
    <2> SUFFICES ASSUME types[Key] = TypeString
                 PROVE  /\ listened' = DOMAIN bucket'
                        /\ \A n \in DOMAIN shown' : shown'[n][Key] \in DOMAIN bucket'
                        /\ \A k \in DOMAIN bucket' :
                              \E n \in DOMAIN shown' :
                                  {m \in DOMAIN shown' : shown'[m][Key] = k} = {n}
                        /\ \A n \in DOMAIN shown' :
                              shown'[n][Key] \notin rekeyed' \cup garbled'
                                => shown'[n] = meant'[shown'[n][Key]]
      BY <1>3 DEF RowsShown
    <2>1. /\ listened = DOMAIN bucket
          /\ \A n \in DOMAIN shown : shown[n][Key] \in DOMAIN bucket
          /\ \A k \in DOMAIN bucket :
                \E n \in DOMAIN shown : {m \in DOMAIN shown : shown[m][Key] = k} = {n}
          /\ \A n \in DOMAIN shown :
                shown[n][Key] \notin rekeyed \cup garbled => shown[n] = meant[shown[n][Key]]
      BY DEF Inv, RowsShown
    <2>2. DOMAIN shown' = DOMAIN shown /\ \A n \in DOMAIN shown : shown'[n][Key] = shown[n][Key]
      BY <1>5 DEF Trees
    <2>3. listened' = DOMAIN bucket' /\ \A n \in DOMAIN shown' : shown'[n][Key] \in DOMAIN bucket'
      BY <1>3, <2>1, <2>2
    <2>4. ASSUME NEW k \in DOMAIN bucket'
          PROVE  \E n \in DOMAIN shown' : {m \in DOMAIN shown' : shown'[m][Key] = k} = {n}
      <3>1. {m \in DOMAIN shown' : shown'[m][Key] = k} = {m \in DOMAIN shown : shown[m][Key] = k}
        BY <2>2
      <3>2. PICK n \in DOMAIN shown : {m \in DOMAIN shown : shown[m][Key] = k} = {n}
        BY <1>3, <2>1
      <3> QED BY <2>2, <3>1, <3>2
    <2>5. ASSUME NEW n \in DOMAIN shown, shown[n][Key] \notin rekeyed' \cup garbled'
          PROVE  shown'[n] = meant'[shown[n][Key]]
      <3> DEFINE k == shown[n][Key]
      <3>1. k \in DOMAIN bucket /\ k \in listened /\ k \notin rekeyed' /\ k \notin garbled'
        BY <2>1, <2>5
      <3>2. \A o \in hit : o # k => fields(o)[Key] # k
        BY <1>8, <3>1
      <3>3. CASE k \in hit
        <4>1. fields(k)[Key] = k
          BY <1>8, <3>1, <3>3
        <4>2. IsJSON(Old(k)) /\ IsJSON(New(k, i, s))
          BY <1>3, <3>1, <3>3
        <4>3. shown'[n] = fields(k)
          BY <1>4, <3>1, <3>2, <3>3, <4>1, <4>2
        <4> QED BY <1>3, <3>3, <4>3
      <3>4. CASE k \notin hit
        <4>1. shown'[n] = shown[n]
          BY <1>4, <3>2, <3>4
        <4>2. k \notin rekeyed /\ k \notin garbled
          BY <1>3, <3>1, <3>4
        <4>3. shown[n] = meant[k]
          BY <2>1, <4>2
        <4> QED BY <1>3, <3>1, <3>4, <4>1, <4>3
      <3> QED BY <3>3, <3>4
    <2>6. \A n \in DOMAIN shown' :
             shown'[n][Key] \notin rekeyed' \cup garbled' => shown'[n] = meant'[shown'[n][Key]]
      BY <2>2, <2>5
    <2> QED BY <2>3, <2>4, <2>6
  <1> QED BY <1>6, <1>7, <1>9, <1>10 DEF Inv

-----------------------------------------------------------------------------
(* The theorems.                                                           *)

LEMMA NextInv == Inv /\ [Next]_vars => Inv'
  <1> SUFFICES ASSUME Inv, [Next]_vars  PROVE Inv'
    OBVIOUS
  <1>1. ASSUME NEW fields \in [Columns -> Strings], Insert(fields)  PROVE Inv'
    BY <1>1, InsertInv
  <1>2. ASSUME NEW i \in Columns, NEW j \in Columns, NEW s \in Strings, NEW equals \in Strings,
               Update(i, s, j, equals)
        PROVE  Inv'
    BY <1>2, UpdateInv
  <1>3. CASE UNCHANGED vars
    <2>1. UNCHANGED <<types, bucket, meant, rekeyed, garbled, shown, listened>>
      BY <1>3 DEF vars
    <2>2. writes' \in 0..MaxSize
      BY <1>3 DEF Inv, TypeOK, vars
    <2> QED BY <2>1, <2>2, SameRows
  <1> QED BY <1>1, <1>2, <1>3 DEF Next

LEMMA Invariant == Spec => []Inv
  BY InitInv, NextInv, PTL DEF Spec

\* The variables hold what the program's data structures can hold: every row is
\* a sequence of bytes under a key that is not empty.
THEOREM RecordsTypes == Spec => []TypeOK
  <1>1. Inv => TypeOK
    BY DEF Inv
  <1> QED BY <1>1, Invariant, PTL

\* RecordFromBytes reads of every row what INSERT and the UPDATEs since meant it
\* to have, and the types of its columns, whatever the types and lengths before
\* each field.
THEOREM RowsReadAsMeant == Spec => []StoredIsMeant
  <1>1. Inv => StoredIsMeant
    <2> SUFFICES ASSUME Inv, NEW k \in DOMAIN bucket
                 PROVE  /\ Fields(Stored(k)) = meant[k]
                        /\ \A i \in Columns : Stored(k)[i].type = types[i]
      BY DEF StoredIsMeant
    <2>1. Stored(k) = Row(types, meant[k]) /\ meant[k] \in Rows(types)
      BY StoredIs DEF Inv
    <2> QED BY <2>1, RowFields
  <1> QED BY <1>1, Invariant, PTL

\* BoltIterator.Get, which seeks, returns a row that names itself by the key that is
\* looked up exactly if there is a row with that key; otherwise it returns another.
THEOREM KeysFindTheirRow == Spec => []LookupsFindTheirRow
  <1>1. Inv => LookupsFindTheirRow
    <2> SUFFICES ASSUME Inv, NEW k \in Strings \ {<< >>}, Sound(k)
                 PROVE  Get(bucket, k)[Key].str = k <=> k \in DOMAIN bucket
      BY DEF LookupsFindTheirRow
    <2>1. /\ types \in Schemas /\ DOMAIN bucket \subseteq Strings /\ IsFiniteSet(DOMAIN bucket)
          /\ types[Key] = TypeString /\ k \notin rekeyed
      BY DEF Inv, TypeOK, Kept, Sound
    <2>2. Key \in Columns
      BY <2>1, SchemasAssumption DEF Key, Columns
    <2>3. DOMAIN bucket \subseteq Seq(Nat)
      BY <2>1, KeyTypes
    <2>4. ASSUME NEW j \in DOMAIN bucket
          PROVE  RecordFromBytes(bucket[j])[Key].str = meant[j][Key]
      <3>1. Stored(j)[Key].str = meant[j][Key]
        BY <2>2, StoredIs, RowFields DEF Inv
      <3> QED BY <3>1 DEF Stored
    <2>5. \A j \in DOMAIN bucket : meant[j][Key] = j \/ meant[j][Key] \in rekeyed
      BY <2>1 DEF Inv, KeysNamed
    <2>6. CASE k \in DOMAIN bucket
      <3>1. meant[k][Key] = k
        BY <2>1, <2>6 DEF Inv, KeysNamed
      <3> QED BY <2>3, <2>4, <2>6, <3>1, GetPresent
    <2>7. CASE k \notin DOMAIN bucket
      <3>1. CASE Get(bucket, k) = RecordFromBytes(<< >>)
        <4>1. RecordFromBytes(<< >>)[Key].str = << >>
          BY <2>1, <2>2, NothingRead
        <4> QED BY <2>7, <3>1, <4>1
      <3>2. ASSUME NEW j \in DOMAIN bucket, Get(bucket, k) = RecordFromBytes(bucket[j])
            PROVE  Get(bucket, k)[Key].str # k
        BY <2>1, <2>4, <2>5, <2>7, <3>2
      <3> QED BY <2>1, <2>3, <2>7, <3>1, <3>2, GetAbsent
    <2> QED BY <2>6, <2>7
  <1> QED BY <1>1, Invariant, PTL

\* The client of a live query sees each row once, with the fields that are read
\* from its bytes, if no UPDATE set its primary key and its last message was JSON.
THEOREM RowsShownAsStored == Spec => []ShownIsStored
  <1>1. Inv => ShownIsStored
    <2> SUFFICES ASSUME Inv, NEW k \in DOMAIN bucket, Sound(k)
                 PROVE  \E n \in DOMAIN shown :
                            /\ {m \in DOMAIN shown : shown[m][Key] = k} = {n}
                            /\ k \notin garbled => shown[n] = Fields(Stored(k))
      BY DEF ShownIsStored
    <2>1. PICK n \in DOMAIN shown : {m \in DOMAIN shown : shown[m][Key] = k} = {n}
      BY DEF Inv, RowsShown, Sound
    <2>2. shown[n][Key] = k
      BY <2>1
    <2>3. Fields(Stored(k)) = meant[k]
      BY StoredIs, RowFields DEF Inv
    <2>4. k \notin garbled => shown[n] = meant[k]
      BY <2>2 DEF Inv, RowsShown, Sound
    <2> QED BY <2>1, <2>3, <2>4
  <1> QED BY <1>1, Invariant, PTL

=============================================================================
