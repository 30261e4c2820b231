------------------------------ MODULE Records ------------------------------
(***************************************************************************)
(* What a table keeps and what a live query shows, through the encodings   *)
(* that records pass: the bytes of record.go in bolt, the pushed copies    *)
(* that UPDATE makes by encoding and decoding, and the JSON of a record    *)
(* update, which is not JSON for every string.                             *)
(*                                                                         *)
(* Statements run one after the other and their messages arrive at once    *)
(* (LiveTable has the interleavings).  One client holds a live query of    *)
(* the whole table.  The primary key is the first column.                  *)
(*                                                                         *)
(* A definition commented "Faulty variant" is no part of the specification:*)
(* it is the definition after it with a plausible bug, and shows which     *)
(* property such a bug breaks.                                             *)
(***************************************************************************)
EXTENDS Integers, Sequences, FiniteSets, Bytes

CONSTANTS
    Base,       \* values of a byte (256)
    Width,      \* bytes of an integer (4)
    Control,    \* characters that strconv.Quote escapes in a way JSON does not know
    Strings,    \* the strings that statements contain
    Schemas,    \* the types of the columns of a table
    MaxSize     \* bound: columns and statements that write

TypeString == 0
TypeInt == 1
Key == 1

\* What is left of a number, per count of bytes shifted out of it.
Shifted(n) ==
    LET v[i \in 0..Width] == IF i = 0 THEN n ELSE v[i - 1] \div Base IN v

ASSUME SizesAssumption == Base \in Nat \ {0, 1} /\ Width \in Nat /\ MaxSize \in Nat

\* A statement is far shorter than the longest string whose length is encoded.
ASSUME StringsAssumption ==
    \A s \in Strings : s \in Seq(0..Base-1) /\ Shifted(Len(s))[Width] = 0
ASSUME SchemasAssumption == Schemas \subseteq Seq({TypeString, TypeInt}) \ {<< >>}

VARIABLES
    types,      \* the types of the table's columns
    bucket,     \* the table's bucket in bolt: the bytes of each key
    meant,      \* per key, the fields the row should have
    rekeyed,    \* keys of the rows whose primary key was set, and the ids they took
    garbled,    \* keys of rows whose last update was no JSON
    shown,      \* the client's tree: a sequence of records' fields
    listened,   \* ids of the record listeners, which are also their paths
    writes      \* how many statements there were

vars == <<types, bucket, meant, rekeyed, garbled, shown, listened, writes>>

Columns == DOMAIN types

-----------------------------------------------------------------------------
(* Bytes.                                                                  *)

\* Faulty variant: the digits are not reduced to bytes.
WriteUnreduced(n) == [i \in 1..Width |-> Shifted(n)[Width - i]]

\* Faulty variant: the least significant byte first.
WriteLittleEndian(n) == [i \in 1..Width |-> Shifted(n)[i - 1] % Base]

\* WriteInteger: PutUint32 in big-endian order.
WriteInteger(n) == [i \in 1..Width |-> Shifted(n)[Width - i] % Base]

\* A byte at a position; a short read leaves the zeros of its buffer.
ByteAt(bytes, p) == IF p \in DOMAIN bytes THEN bytes[p] ELSE 0

\* readInteger.
IntegerAt(bytes, p) ==
    LET v[i \in 0..Width] == IF i = 0 THEN 0 ELSE v[i - 1] * Base + ByteAt(bytes, p + i - 1)
    IN  v[Width]

EmptyValue == [type |-> TypeString, str |-> << >>, int |-> 0]

\* The code of the column's type, then an integer or a length and a string.
ValueBytes(type, value) ==
    <<type>> \o (IF type = TypeInt THEN WriteInteger(value.int)
                 ELSE WriteInteger(Len(value.str)) \o value.str)

\* What a buffer holds after the pieces are written to it.
Joined(pieces) ==
    LET buf[i \in 0..Len(pieces)] == IF i = 0 THEN << >> ELSE buf[i - 1] \o pieces[i]
    IN  buf[Len(pieces)]

ToBytes(record) == Joined([i \in Columns |-> ValueBytes(types[i], record[i])])

\* The value at a position, and how many bytes it takes.
ValueAt(bytes, p) ==
    CASE ByteAt(bytes, p) = TypeString ->
            [type |-> TypeString, int |-> 0,
             str |-> [n \in 1..IntegerAt(bytes, p + 1) |-> ByteAt(bytes, p + Width + n)]]
      [] ByteAt(bytes, p) = TypeInt ->
            [type |-> TypeInt, int |-> IntegerAt(bytes, p + 1), str |-> << >>]
      [] OTHER -> EmptyValue

ValueSize(bytes, p) ==
    CASE ByteAt(bytes, p) = TypeString -> 1 + Width + IntegerAt(bytes, p + 1)
      [] ByteAt(bytes, p) = TypeInt -> 1 + Width
      [] OTHER -> 1

\* The codes in the bytes decide what is read, not the columns.
RecordFromBytes(bytes) ==
    LET end[i \in 0..Len(types)] ==
            IF i = 0 THEN 0 ELSE end[i - 1] + ValueSize(bytes, end[i - 1] + 1)
    IN  [i \in Columns |-> ValueAt(bytes, end[i - 1] + 1)]

Clone(record) == RecordFromBytes(ToBytes(record))

\* SetString leaves the integer of the value alone.
SetString(record, i, s) == [record EXCEPT ![i].type = TypeString, ![i].str = s]

\* What getRecordResults and MarshalJSON show of a record, of every type.
Fields(record) == [i \in Columns |-> record[i].str]

Stored(k) == RecordFromBytes(bucket[k])

\* MarshalJSON quotes strings as Go does.
IsJSON(record) ==
    \A i \in Columns : \A n \in DOMAIN record[i].str : record[i].str[n] \notin Control

\* Faulty variant: the seek goes past the key.
GetPast(b, k) ==
    LET later == {j \in DOMAIN b : BytesLess(k, j)}
    IN  IF later = {} THEN RecordFromBytes(<< >>)
        ELSE RecordFromBytes(b[CHOOSE j \in later : \A i \in later : ~BytesLess(i, j)])

\* BoltIterator.Get: the record at the key or else at the next one, or of no bytes.
Get(b, k) ==
    LET later == {j \in DOMAIN b : ~BytesLess(j, k)}
    IN  IF later = {} THEN RecordFromBytes(<< >>)
        ELSE RecordFromBytes(b[CHOOSE j \in later : \A i \in later : ~BytesLess(i, j)])

-----------------------------------------------------------------------------
Init ==
    /\ types \in Schemas
    /\ bucket = << >>
    /\ meant = << >>
    /\ rekeyed = {}
    /\ garbled = {}
    /\ shown = << >>
    /\ listened = {}
    /\ writes = 0

Write == writes + Len(types) < MaxSize /\ writes' = writes + 1

\* A column of integers has no integer to show: its field is the empty string.
Meant(fields) == [i \in Columns |-> IF types[i] = TypeInt THEN << >> ELSE fields[i]]

With(f, k, v) == [j \in DOMAIN f \cup {k} |-> IF j = k THEN v ELSE f[j]]

\* INSERT of a row whose key is new and not empty; the live query's requery
\* subscribes to the record it finds and the client adds it to its tree.
Insert(fields) ==
    /\ Write
    /\ LET k == fields[Key]
           record == [i \in Columns |-> [EmptyValue EXCEPT !.str = fields[i]]]
       IN  IF k = << >> \/ k \in DOMAIN bucket
           THEN UNCHANGED <<bucket, meant, shown, listened>>
           ELSE /\ bucket' = With(bucket, k, ToBytes(record))
                /\ meant' = With(meant, k, Meant(fields))
                /\ LET found == Get(bucket', k)
                   IN  /\ shown' = Append(shown, Fields(found))
                       /\ listened' = listened \cup {found[Key].str}
    /\ UNCHANGED <<types, rekeyed, garbled>>

\* A record update is merged into the rows with its listener's id, unless the
\* message is no JSON.  The listeners are those of the new record's id.
Tell(tree, old, new) ==
    IF new[Key].str \notin listened \/ ~IsJSON(old) \/ ~IsJSON(new) THEN tree
    ELSE [n \in DOMAIN tree |-> IF tree[n][Key] = new[Key].str THEN Fields(new) ELSE tree[n]]

\* Faulty variant: the record in memory, which still has what its bytes lost.
PushedAsIs(record) == record

\* The copy of a record that UPDATE pushes: as its bytes will be read.
Pushed(record) == Clone(record)

\* Setting primary keys: the rows that move and the id that they take.
Moved(hit, s) == IF hit \subseteq {s} THEN {} ELSE hit \cup {s}

\* SET of column i to s in the row of a key: the record that its update pushes as
\* the old one, what is put, and the record that is pushed as the new one.
Old(k) == Pushed(Stored(k))
Put(k, i, s) == SetString(Stored(k), i, s)
New(k, i, s) == Pushed(Put(k, i, s))

\* The client's tree after the updates of these rows, pushed one after the other.
Told(hit, i, s) ==
    LET visited == Ordered(hit)
        tree[n \in 0..Cardinality(hit)] ==
            IF n = 0 THEN shown
            ELSE Tell(tree[n - 1], Old(visited[n]), New(visited[n], i, s))
    IN  tree[Cardinality(hit)]

\* UPDATE: bucket.ForEach visits the rows in the order of their keys.
Update(i, s, j, equals) ==
    /\ Write
    /\ LET hit == {k \in DOMAIN bucket : Stored(k)[j].str = equals}
       IN  /\ bucket' = [k \in DOMAIN bucket |->
                            IF k \in hit THEN ToBytes(Put(k, i, s)) ELSE bucket[k]]
           /\ shown' = Told(hit, i, s)
           /\ garbled' = (garbled \ hit) \cup
                         {k \in hit : ~IsJSON(Old(k)) \/ ~IsJSON(New(k, i, s))}
           /\ rekeyed' = IF i = Key THEN rekeyed \cup Moved(hit, s) ELSE rekeyed
    /\ meant' = [k \in DOMAIN meant |->
                    IF meant[k][j] = equals THEN Meant([meant[k] EXCEPT ![i] = s]) ELSE meant[k]]
    /\ UNCHANGED <<types, listened>>

Next ==
    \/ \E fields \in [Columns -> Strings] : Insert(fields)
    \/ \E i, j \in Columns, s, equals \in Strings : Update(i, s, j, equals)

Spec == Init /\ [][Next]_vars

-----------------------------------------------------------------------------
(* Properties.                                                             *)

\* The variables hold what the program's data structures can hold.
TypeOK ==
    /\ types \in Schemas
    /\ DOMAIN bucket \subseteq Strings \ {<< >>}
    /\ \A k \in DOMAIN bucket : bucket[k] \in Seq(0..Base-1)
    /\ DOMAIN meant = DOMAIN bucket
    /\ rekeyed \subseteq Strings /\ garbled \subseteq DOMAIN bucket
    /\ listened \subseteq Strings \cup {<< >>}
    /\ shown \in Seq([Columns -> Strings \cup {<< >>}])
    /\ writes \in 0..MaxSize

\* Every row reads as INSERT and the UPDATEs since meant it, whatever the types
\* and lengths before each field, and with the type of its column; what a
\* statement gave a column of integers is lost.
StoredIsMeant ==
    \A k \in DOMAIN bucket :
        /\ Fields(Stored(k)) = meant[k]
        /\ \A i \in Columns : Stored(k)[i].type = types[i]

\* Keys are strings, and no UPDATE has set or taken this one.
Sound(k) == types[Key] = TypeString /\ k \notin rekeyed

\* A row is looked up by its key in the bucket but names itself by its field: the
\* two agree, so that a lookup returns a row that names itself by the key exactly
\* if there is one, unless an UPDATE has set that key or the key is a column of
\* integers.  If there is none Get returns the next row, or no bytes, and WHERE on
\* the primary key hands that on as its row: only its name tells.
LookupsFindTheirRow ==
    \A k \in Strings \ {<< >>} :
        Sound(k) => (Get(bucket, k)[Key].str = k <=> k \in DOMAIN bucket)

\* The live query shows each row once, as it is stored, unless the primary key
\* was set, or the last update of the row had a character, in the old record or
\* in the new one, that makes its message no JSON.
ShownIsStored ==
    \A k \in DOMAIN bucket : Sound(k) =>
        \E n \in DOMAIN shown :
            /\ {m \in DOMAIN shown : shown[m][Key] = k} = {n}
            /\ k \notin garbled => shown[n] = Fields(Stored(k))

=============================================================================
