# TreeSQL in TLA+

TLA+ models of the TreeSQL server (`src/pkg`), of its Go client, and of the part
of its web client that applies live updates (`src/webui/src/lib`), TLC
configurations that check small instances of them, and proofs for every
instance, checked by TLAPS.

TreeSQL keeps tables of records in a bolt file and answers statements that come
over websockets. A `live` SELECT stays open: the server pushes changes of the
records it returned, and new records that match it. That push, the creation of
tables, and what all connections share are where goroutines meet.

## The system

| component (source) | state | operations | talks to |
|---|---|---|---|
| event loop of a table (`live_queries.go`, `listener_list.go`) | whole-table, filtered and record listeners, a counter per list, under `mu` | add a listener, send an insert or an update, remove a connection's listeners | three unbuffered channels in; `conn.Messages` and new goroutines out |
| SELECT (`select.go`) | one `SelectExecution` per statement or requery, with its bolt read transaction | begin, subscribe to a table, subscribe to each record, answer | the loop, the writer, bolt |
| INSERT, UPDATE (`insert.go`, `update.go`) | bolt's write transaction | check, put, push events, reply | bolt's writer lock, the loop, the writer |
| connection (`connection.go`, `channel.go`) | `Channels`, `NextChannelID`, handler and writer goroutines | read a statement, run it, write messages, close | client socket, database |
| database (`database.go`, `server.go`) | `Connections`, `NextConnectionID`, `Schema` | add and remove a connection, start, close | HTTP server |
| schema (`schema.go`, `create_table.go`) | `Schema.Tables`, `NextColumnID`; the buckets `__tables__`, `__columns__`, `__sequences__` | CREATETABLE, load at start | bolt, event loops of the built-in tables |
| records (`record.go`), iterators (`table_iterator.go`) | none; a cursor, or a copy of the schema or of the listeners | encode, decode, seek, next | bolt, every table's `mu` |
| query paths (`query_path.go`) | none | flatten | listeners, update messages |
| parser, formatter, errors (`parser.go`, `format.go`, `error.go`) | none | parse, print | channel |
| Go client (`client.go`) | `Channels`, two goroutines | statement, exec, query, live query | its socket, the goroutines that call it |
| web client (`liveQueryReducer.js`, `TreeSQLClient.js`) | the tree of a live query | apply a message | its socket |
| metrics (`metrics.go`) | gauges | count listeners in every table | every table's `mu` |
| log, HTTP routing, commands, UI, example | none of the database's state | observe, serve | everything, read-only |

What is hard here, and what each part must get right:

- **Event loop.** It serves subscriptions and events one at a time, writes record
  updates to clients itself while holding `mu`, and starts a goroutine for every
  new record and matching listener. Each subscriber must hear of each change
  once, in order, and nobody may be harmed by another connection's departure.
- **SELECT.** The snapshot is older than the subscriptions. A requery must find
  the record it was started for; a lookup (`Cursor.Seek`) of a key that is not
  there silently returns its neighbour.
- **UPDATE.** Events go out before the commit, under bolt's writer lock, which
  makes a cycle of waits: handler on loop, loop on writer, removal on `mu`. It may
  set the primary key, and the row stays under its old one.
- **Connection.** Handler, requeries and loop share one unbuffered channel.
  Each statement must get one reply, in order.
- **Database.** Connection ids are handed out by concurrent HTTP handlers without
  a lock, and listeners are removed by id. Gauges and scans of
  `__record_listeners__` lock every table; a failed query leaves its read
  transaction open, for which bolt waits when its map must grow; `Server.Close`
  waits for bolt.
- **Schema.** It is in memory, unsynchronised, and on disk; the next column id is
  counted by transactions that may fail or die. What is on disk must change
  atomically, no id may be used twice, and a restart must rebuild the same schema.
  Statements read tables that are half built, or whose creation has failed.
- **Go client.** It numbers statements by itself, blocks on a channel nobody
  reads, and hands on an empty message after a failed read.

`PROJECT.json` lists each hazard at its line with the properties that cover it.

## The modules

| module | models |
|---|---|
| `Conversation` | abstract: what the server promises one client about statements, replies and updates |
| `LiveTable` | one table: connections (handler and writer), INSERT, UPDATE, flat SELECT and live SELECT, requeries, the event loop, listeners and their counters, clients that leave or stop reading; implements `Conversation` once per connection |
| `LiveViews` | extends `LiveTable`: what clients make of their messages (the reducer), and the properties of it |
| `LiveTree` | nested queries: their execution, listeners and paths, inserts and updates, the reducer's trees |
| `Database` | what connections share: ids and the registry, the lock and loop of every table, bolt's two locks, gauges and scans, shutdown |
| `GoClient` | the Go client's two goroutines and those that call it; its server is `Conversation` |
| `AtomicCatalog` | abstract: what the catalog in the file may do, and nothing else |
| `Catalog` | concurrent CREATETABLE, the schema in memory, the file, failed commits, crash and restart |
| `CatalogUse` | extends `Catalog`: statements that use the tables meanwhile, live queries on `__columns__`, panics |
| `Records` | the encoding of records and what goes through it: INSERT, UPDATE of any column, lookup by key, a live query |
| `Bytes` | the order of bolt's keys, for `Catalog` and `Records` |
| `MCLiveTable`, `MCLiveTree`, `MCDatabase`, `MCGoClient`, `MCCatalog`, `MCCatalogUse`, `MCRecords` | the instances that TLC checks |
| `LiveViews_proofs`, `Database_proofs`, `GoClient_proofs`, `Records_proofs`, `Conversation_proofs` | proofs about the module they are named for |
| `LiveTable_proofs` | proofs about `LiveTable`, and that it implements `Conversation` |
| `CatalogUse_proofs` | proofs about `Catalog` and `CatalogUse` |
| `Bytes_proofs` | lemmas about the order of keys and about functions defined by iteration, for the two modules that use `Bytes` |

A definition commented *Faulty variant* is no part of a specification. It is the
definition after it (of the module it extends, in `CatalogUse`) with a plausible
bug; TLC must find the property it is paired with in `PROJECT.json` violated when
it takes that definition's place.

Several modules look at the same goroutines, each with what the others leave out:
`LiveTable` knows records and messages of one table; `Database` knows several
tables and who holds which lock, and tells records and messages apart no more;
`LiveTree` knows the levels of a query, `Records` the bytes, both one statement at
a time.

### LiveTable, Conversation and the code

| variable | in the code |
|---|---|
| `db`, `wtx` | the bucket of the table as committed; the write transaction of a running UPDATE |
| `asked`, `channels` | the statements a connection received, numbered by `NextChannelID` (from 1 here, from 0 there), and `Connection.Channels` |
| `pc` | where the handler goroutine is in `validateAndRun` |
| `exs`, `runs` | the running `SelectExecution`s; run 0 is the statement, the others are requeries of `SendEvent` |
| `loop` | the loop in its `select`, with a subscription or event received, or sending with `mu` held |
| `listeners`, `num` | the maps of `LiveQueryInfo.mu`, and each list's `numListeners` |
| `writer`, `wire`, `open` | the message `writeMessagesToSocket` holds, what it wrote, the socket |

A send on an unbuffered Go channel and its receive are one step: `WriteMessage`
and `HandToLoop` are guards as well as assignments, and a goroutine that sends
waits until they hold. A bolt transaction that touches nothing but bolt (INSERT)
is one step under the writer lock. UPDATE is one step per row, since every row
hands an event to the loop and lets everyone else run. A read transaction is a
snapshot: `todo` is fixed when the execution begins. Receiving a statement,
parsing, validating and, for a SELECT, beginning the read transaction are one
step; that loses no behaviour a client could tell, since nothing is sent in
between. `SendEvent` picks the next listener freely, as Go's map iteration does.
`RemoveConn` waits while the loop holds `mu`.

Lists are named by what they select: the whole table, a column's value
(`WhereId`, `WhereVal`), or a record (`RecordList`). Listeners form a set: no
execution subscribes twice to one list.

`Talk(c)` is the refinement mapping to `Conversation`: its `sent` is what was written
to the socket, or will be if it stays open, and a connection is `busy` while its
handler is between a statement and the next read. `Conversation` says that an update
may come before the reply and after an error, which is what the code does.

### Database and the code

`id`, `nextId` and `loaded` split `NextConnectionID++` into its loads and its store
(`ReadNextId`, `LoadNextId`, `StoreNextId`); `connections` is `Database.Connections`.
`mu` is each table's `RWMutex` as Go's is: a goroutine that wants to write announces
itself and new readers wait behind it. `bolt` is bolt's writer lock and `map` its
lock of the memory map, which read transactions hold and a growing commit wants
alone; a query that fails never gives its share back (`EndQuery`). `scans` holds the
tables that a gauge or a scan of `__record_listeners__` has locked, in any order (the
order of a Go map), and what it has counted. `main` is the signal's goroutine: `Signal`,
then `CloseBolt`, after which the process exits.

### GoClient and the code

`loop` is the `select` of `handleStatements` (selecting, writing a statement, delivering
a message); `incoming` is the message that `handleIncoming` offers it; `channels` is
`Client.Channels`; `call` and `results` are the callers' side of `Statement`, `Exec`,
`Query` and `LiveQuery`. `reading` are the channels that someone ranges over: the
goroutine LiveQuery leaves, or the shell. A read that fails leaves an empty message,
of statement 0 there and channel 1 here (`Nothing`); after `MaxReads` failures gorilla
panics. An update that is no JSON, which the server sends for some records (`Records`
says which), leaves the same empty message (`Parsed`) on a connection that goes on. The
socket's two directions are `toServer` and the part of `sent` not `taken`.

### LiveTree and the code

`Rows` is `executeSelect` with its lookups and scans, `Subscriptions` the listeners
it leaves behind; both recur into sub-selections with the scope and path that
`getRecordResults` builds. A path is the flattened `QueryPath`. A listener carries the
query it runs again for a new record; `Insert` runs it at the root, as
`ListenerList.SendEvent` does, whatever level the listener is on. The goroutines of one
list read the loop's variable `listener` when they send, so a row may go to the path
of a later listener of the list (`Captured`): in Go 1.12, which `go.mod` names, the
variable is one for the whole loop. `UpdateAtSelection` and `UpdateAtRecord` are the
reducer. One statement is applied at a time and its messages arrive, in any order,
before the next. Nothing checks a reference: a ONE may lead nowhere, and `Lookup` then
finds the next record or the empty one, as a WHERE on a primary key that nobody has
does. The properties are about `Selections`, a tree taken apart: the rows at each path
beside the records that the query means there (`means`, from the relation and the WHERE
clause alone). The order of rows is kept as the client keeps it, but the properties
compare sets of records.

### Catalog, CatalogUse and the code

`disk` is the three buckets; `tx` the write transaction of a CREATETABLE, with its
own view of them; `tables` and `nextId` are `Schema.Tables` and
`Schema.NextColumnID`; `acks` counts the CREATETABLEs that were acknowledged. A
column is its id, its table and its position. Validation reads the schema
without a lock, then the handler waits for the writer lock; each column is a step,
because other handlers read `Schema` meanwhile. `FailCommit` is bolt refusing to
commit: the file rolls back and the schema in memory stays. `Crash` may happen
between any two steps. `Start` is one step because no connection exists yet.

In `CatalogUse` a user's INSERT or SELECT reads the schema in steps of its own: a nil
column, a table with more columns than it was validated for, or a table without a
bucket makes its handler panic. A SELECT is validated, begins its read transaction
(`BeginRead`, which keeps the tables of that snapshot in `snap`) and only then opens a
cursor in the snapshot (`ReadTable`); an INSERT looks its bucket up in the file as it is
when it has the writer lock. net/http recovers that panic, and the connection is
dead. A live query on `__columns__` makes `PushTableEvent` start a requery per new
column; the iterator takes the column's id for an index of its list, and a panic there
ends the process (`RequeryColumn`).

### Records and the code

Bytes are numbers below `Base`, integers have `Width` of them. `ToBytes` writes each
column's type code and value into a buffer (`Joined`), `RecordFromBytes` goes by the
codes it finds (`ValueAt`, `ValueSize`); a short read leaves zeros. Loops over bytes,
columns and rows are recursive functions. `meant` is the specification beside the code:
what the statements said the row is. UPDATE takes the rows in the order of their keys
(`Ordered`), sets one column by `SetString`, which makes the value a string whatever
the column is, and pushes two clones, that is records that were encoded and decoded:
`Old` before it, `New` after it. `Told` is the client's tree after all of them.

## What is checked

| run | instance | question | result |
|---|---|---|---|
| `LiveWatch` | a watcher of the table who may leave; two writers, one of them watching a record both update | type invariant, `RequeryFindsItsRecord`, `RepliesInOrder`, `InsertToldOnce`, `RecordUpdatesChain`, `StaysInStep` | hold |
| `LiveAnswers` | two writers, one with a plain SELECT; a reader whose statements may fail, who may leave or stop reading | `Converses`, and under fairness `StatementsAnswered`, `InsertsReachSubscribers`, `PlainSelectsAnswered` | hold |
| `LiveTree` | posts and comments with the same two keys, five live queries of one and two levels, six statements | `FreshResultsRight`, `TreeHasItsRecords`, `ShownRecordsFollow` | hold |
| `Database` | two connections added at once on two tables, one may leave; a gauge, a scan | type invariant, `ScanIsSnapshot`, `OnlySharedIdsInterfere`, `LittleLeftBehind`, `CountersNeverHigh` | hold |
| `DatabaseEnds` | a live query that may fail, of a client that may leave or stop reading; one that writes, reads and scans; a growing map, a signal | `StatementsEnd`, `PlainQueriesEnd`, `ShutdownEnds`, under fairness | hold |
| `GoClient` | two callers with all the methods; updates at any time, readable or not; a connection that may be lost | type invariant, `SameNumbers`, `OwnReplies`; under fairness `CallsReturn` | hold |
| `CatalogUse` | two creators, two names, two statements each, a user with two, crashes, failed commits | type invariant, `ColumnIdsFresh`, `AckedTablesSurvive`, refinement of `AtomicCatalog`, `OnlySpoiledTablesKill`, `OnlySpoiledIdsPanic`, `TwiceOnlyByOverlap` | hold |
| `Records` | tables of two or three columns, integers before, after, between and as the key | type invariant, `StoredIsMeant`, `LookupsFindTheirRow`, `ShownIsStored` | hold |
| `LiveMissed` | a watcher of the whole table, a writer | at rest, is a live tree the table? | violated |
| `LiveTreeLost` | one query of two levels, keys of their own, five statements | at rest, is a live tree the result of its query? | violated |
| `DatabaseScrapes` | two gauges, two live queries on two tables | does a scrape end? | violated |
| `CatalogOrder` | one table of 88 columns, real ids (13 to 100) | is the schema in memory what a restart would load? | violated |

The properties, in words:

- `Converses`: each connection's statements and messages are those of a
  `Conversation`. `RepliesInOrder`: the replies on a connection are one per statement,
  in order, whatever updates come between them.
- `InsertToldOnce`: a live query hears of a new record at most once, although the
  requery that reads it subscribes to its key on the same channel.
- `RecordUpdatesChain`: the updates a live query gets for a record start each from
  the value the previous one ended with.
- `StaysInStep`: once a client's view of a record is right (or will be when what is
  on its way arrives) and nothing older is still to be sent, it is right for ever,
  whatever happens, until the client leaves.
- `RequeryFindsItsRecord`: a requery never runs into the neighbour of its record.
- `FreshResultsRight`: a query returns the records it means, at every level, except
  that a lookup (ONE, or WHERE on the primary key) of a key that nobody has returns
  one record that is not meant.
- `TreeHasItsRecords`: a live tree has exactly the records its query means, once each
  and in their places, whatever was inserted at either level and in any order. A
  lookup that was in vain leaves the record it found there when the right one comes.
  Two selections that mean the same records (a relation selected twice, or two
  comments of one post that is not there yet) have two listeners of one list, and a
  new record may then be added twice to one and not to the other: the property takes
  such selections together.
- `ShownRecordsFollow`: records of the initial result, and all records of the top
  level, are shown with their latest fields, unless a nested record that came later
  has the same id: its updates have the root record's path and are merged into it.
- `ScanIsSnapshot`: what a gauge or a scan has counted was true at one moment.
- `OnlySharedIdsInterfere`: a connection whose id nobody shares keeps its place in the
  registry and its live queries' listeners, whoever comes and goes.
- `LittleLeftBehind`: a connection that has gone leaves at most one listener per table,
  the one the loop had in hand, besides those of requeries that were running.
- `CountersNeverHigh`: the counters are right until a connection goes and never above
  the truth after it. They are below it then: each list forgets the listeners of all.
- `SameNumbers`, `OwnReplies`: client and server give each statement the same number,
  so a call returns the first message of its own statement that can be read.
  `LiveQuery` may fail with "neither" if that is an update.
- `ColumnIdsFresh`: ids in the file are below the next id in the file, which is at
  most the one in memory; no two columns share one.
- `AckedTablesSurvive`: an acknowledged table is in the file with all its columns.
- `CreatesAtomically`: the file changes only by whole, fresh tables.
- `TwiceOnlyByOverlap`: two CREATETABLEs of a name are both accepted only if the second
  was validated before the first had committed.
- `OnlySpoiledTablesKill`, `OnlySpoiledIdsPanic`: a table ends a handler, and a column's
  id ends the process, only while a table is being made or after a creation has
  failed or gone over another, or (a handler) if its SELECT reads a snapshot that is
  older than the table's commit. No SELECT begins such a snapshot afterwards; so a
  table that was created undisturbed is safe for the statements that begin to read
  after its acknowledgement, also after a restart, but not for one validated and begun
  before the commit.
- `StoredIsMeant`: rows read as they were meant, whatever was before each field, but
  what a statement gives a column of integers is lost.
- `LookupsFindTheirRow`: a lookup by key finds the row that names itself so, unless an
  UPDATE has set or taken that key, or the key is a column of integers; of a key that
  is not there it returns another row, which WHERE on the primary key shows.
- `ShownIsStored`: a live query shows each row as it is stored, with the same exception
  and another: a control character in a record makes its update no JSON, and the
  client does not get it.
- `StatementsAnswered`, `PlainSelectsAnswered`, `InsertsReachSubscribers`, `StatementsEnd`,
  `PlainQueriesEnd`, `ShutdownEnds`, `CallsReturn`: see *Fairness*.

Each violated run is a disagreement with a line of the repository, quoted under
`findings`. In short: an insert between snapshot and subscription is lost for that
client (and one between commit and push is shown twice); updates of nested records
that came after the initial result go to a path from the root and are lost; two
gauges of a scrape may wait for each other for ever; a restart can reorder columns.
Because trees are wrong in those windows, the safety properties of `LiveViews` are
stated for queries that are past them (`InStep`).

Weaknesses that the passing properties name as exceptions, rather than refute: an
update that overtakes its initial result, counters that are too low, ids that two
connections share, tables created twice or left behind half made, read
transactions that are never closed, a client that stops reading and stops every
writer, rows whose key was set, the record that a lookup in vain shows, the record
added twice, the record merged into another with its id, the empty message that takes
the place of one which cannot be read, and the snapshot that has no bucket for a table
which is there.

### Bounds

Each run fixes the connections, the statements each may send (`Requests`), and
how many (`Budget`); these bound everything else, and every state is explored.
In `LiveTable` two keys give a record and its neighbour, which is what `Seek` can
confuse; two values let filtered queries gain and lose rows. The contended record
needs two writers, one who also watches (his handler waits on a loop that waits on
his own writer), and a third to leave; the four statements of `LiveWatch` make an
insert, its requery and two updates overlap. `LiveAnswers` has one statement per
connection, since waiting for ever needs no more, over ONE, filters and errors.

In `Database` two connections can share an id, read a stale next id, or overtake one
another in the registry; two tables let a gauge be between two. `DatabaseEnds` has
one table, so two scans cannot entangle in it: `DatabaseScrapes` shows that they
can with two. A statement before a failing one, and one after a write, are enough for
each cycle of waits named below; the map may grow at any commit.

In `GoClient` two callers of which one calls twice make every pair of methods meet;
an update comes while there are fewer than two messages, so before or between replies
and after one (a reply is never held back by the bound); gorilla's thousand failed reads are two here. In `CatalogUse`
two clients and two names, with a reference between them, are every race CREATETABLE
has; two statements each let one follow a failure or a crash, crashes are unlimited,
and one user with two statements meets a table in each of its states.

In `LiveTree` two posts and two comments give a wrong parent, a wrong sibling and a
neighbour to confuse; six statements insert all four records, before or after the
query, and update two. Posts and comments have the same keys, so a path that leads
to the wrong level finds a record there; the five queries read by scan, by filter, by
ONE and by WHERE on a column and on the key. `LiveTreeLost` has one query and keys of
their own, so that the only tree that is wrong is one that lost an update.
`CatalogOrder` has the code's first id, 13, and
needs ids of two and three digits. In `Records` bytes are bits and integers have two,
so that lengths reach the largest that fits and a shifted decoder meets every code;
the strings are the empty one, two of one character repeated and one with a control
character. `MaxSize` bounds columns and statements together: four statements on two
columns, three on three.

Deadlock is checked where clients must be able to go on: in `LiveTable`, `LiveTree` and
`Catalog` a stuck state is an error unless no client may send another statement and
nothing is left to do (`Terminated`); in `Catalog` the server may always crash or
start. It is off in `Database`, whose server may exit or be stuck in the ways its
properties name, in `GoClient`, whose process may die, and in `Records`, which ends
after its statements.

### Fairness

The Go scheduler runs every goroutine that can run, and Go's channels and locks serve
those who wait in order: that is weak fairness of the loop, of each connection's
handler while it runs a statement, of its executions, and of its writer. Clients owe
nothing: receiving a statement, adding a connection and closing a socket are not fair,
nor is the writer of a client in `Slow` while its socket is open, since its writes
block when the client does not read; once the socket is closed they fail, and the
writer is fair. A scrape that has begun goes on; nobody has to begin one, or to stop
the server. The Go client's `select` picks at random among ready cases, so a case that
is ready again and again is picked: strong fairness of `TakeMessage` and `TakeRequest`.
Its server answers, which is `StatementsAnswered` there.

With a slow client any statement that needs the loop or the writer lock may wait for
ever, which is the code's behaviour (the loop writes to clients while holding `mu`).
So `StatementsAnswered` and `InsertsReachSubscribers` except a message that stays
`Unread` for ever, and `PlainSelectsAnswered` and `PlainQueriesEnd` say what remains
true then. In `Database` two exceptions more are named: `MapStuck`, bolt waiting for the
transaction of a failed query, and `Entangled`, two scans or gauges with each a table
the other wants, behind someone who waits to write. Each is a state that lasts, not a
state that is passed through (`[]MapStuck`), and a plain SELECT only excepts bolt's
growing map. `CallsReturn` excepts a lost connection, a process that dies of an update
which is no JSON (`Poisoned`: a call or the shell dereferences the empty message), and a
loop that waits for ever (`[]Unheard`) to deliver that empty message to the first
statement, whose call has returned, or a message to a live query which has failed.

## What is proved

TLAPS checks these for all values of the constants that satisfy the modules'
assumptions: keys are non-zero naturals, the absent values are not values, the
requests and initial tables are of their types, the bounds are naturals, numerals
and bytes have two values or more to choose from, strings are shorter than the
largest length that is encoded, tables have a column. Sets of connections, strings,
keys, tables, gauges, users or callers may be infinite.

| theorem | statement |
|---|---|
| `LiveTable_proofs!TypeCorrect` | `Spec => []TypeOK` |
| `LiveTable_proofs!RequeryCorrect` | `Spec => []RequeryFindsItsRecord` |
| `LiveTable_proofs!ServerConverses` | `Spec => Converses`: `LiveTable` implements `Conversation` for each connection |
| `LiveTable_proofs!ServerRepliesInOrder` | `Spec => []RepliesInOrder`, of `LiveTable` |
| `LiveViews_proofs!InsertsToldOnce` | `Spec => []InsertToldOnce` |
| `LiveViews_proofs!UpdatesChain` | `Spec => []RecordUpdatesChain` |
| `LiveViews_proofs!StepKept` | `Spec => StaysInStep`, an action property |
| `Conversation_proofs!InOrder` | `Spec => []RepliesInOrder`, of `Conversation` |
| `Database_proofs!DatabaseTypes`, `ScansAreSnapshots`, `CountersAreNeverHigh`, `OwnIdIsEnough`, `GoneLeavesLittle` | `Spec =>` always `TypeOK`, `ScanIsSnapshot`, `CountersNeverHigh`, `OnlySharedIdsInterfere`, `LittleLeftBehind` |
| `GoClient_proofs!ClientTypes`, `NumbersAgree`, `CallsGetTheirReply` | `Spec =>` always `TypeOK`, `SameNumbers`, `OwnReplies` |
| `CatalogUse_proofs!IdsAreFresh` | `Spec => []ColumnIdsFresh` |
| `CatalogUse_proofs!AckedSurvive` | `Spec => []AckedTablesSurvive` |
| `CatalogUse_proofs!Implements` | `Spec => CreatesAtomically`: `Catalog` implements `AtomicCatalog` |
| `CatalogUse_proofs!UseKeepsCatalog` | `UseSpec` has those three properties |
| `CatalogUse_proofs!UseTypes` | `UseSpec => []UseTypeOK` |
| `CatalogUse_proofs!CreatedTwiceByOverlap`, `OnlySpoiledKill`, `OnlySpoiledPanic` | `UseSpec => TwiceOnlyByOverlap`, `OnlySpoiledTablesKill`, `OnlySpoiledIdsPanic`, action properties |
| `Records_proofs!RecordsTypes`, `RowsReadAsMeant`, `KeysFindTheirRow`, `RowsShownAsStored` | `Spec =>` always `TypeOK`, `StoredIsMeant`, `LookupsFindTheirRow`, `ShownIsStored` |

So every invariant and action property of `LiveWatch`, `Database`, `CatalogUse` and
`Records`, and every invariant of `GoClient`, is a theorem.

**LiveTable.** The inductive invariant is `TypeOK` and five more parts. That a
requery finds its record follows only if its record was committed when the
requery began (`RequeryOK`); it was, because the event that started it is of a
committed insert (`InsertCommitted`); the event was pushed by a handler whose
statement is that insert (`HandlerOK`); the loop hands inserts to query
listeners only, never an update that is not committed yet (`TargetsOK`); and no
UPDATE removes a record (`WriteTxOK`). `TargetsOK` also says that the listeners are
finite, without which the counters' subtraction has no type. One lemma per
action shows that it preserves the invariant; lemmas about `Least`, `First`,
`Seek` and `ReadRows` say what reading a table returns.

**LiveTable implements Conversation.** An action of the server is an answer only if a
handler that has sent its reply waits for nothing else, and an update only if its
channel is a live query's. `TalkInv` adds three parts to the invariant above: a
connection has one execution of a statement at most, that of its last statement, which
is a SELECT its handler waits for (`TopOK`); all that may send updates (live executions
and requeries, listeners, what the loop has in hand) runs on the channel of a live
query (`UpdatersLive`); and a writer holds one message (`WritersTakeOne`), so that
closing a socket loses the last message only. Lemmas about sequences with one more
element give the mapped `asked` and `sent`; `TalkAsks`, `TalkAnswers`, `TalkUpdates`,
`TalkCloses` and `TalkStutters` say when a step of the server is which step of the
conversation, and one lemma per action uses them. `ServerRepliesInOrder` takes the
same cases: tlapm cannot cite a theorem of a parameterised instance, so the
invariance of `RepliesInOrder` in `Conversation` is followed once more for the mapped
variables.

**LiveViews.** `MessageSteps` says where a message comes from: a reply, a requery's
update, or the loop's event for one listener. Three arguments build on it.

- *Once.* A channel can hear twice of an insert if two of its listeners match, if two
  requeries run for it, or if the requery's own listener matches the event it was
  started by. `Once` rules these out: an insert is announced by one handler, once
  (`OneAnnouncer`); a statement has one query listener, on what it asked for
  (`TopListeners`); a requery, its message and its listeners come after the loop has
  begun to send that insert (`ToldAnnounced`), hence are never among the targets of
  it, so those still to be sent to are statements' and untold (`SendingOnce`); and a
  channel has one requery of a record or one message of it (`OneRequery`).
- *Chain.* The update in the loop's hands is the record's latest (`EventLatest`),
  because the handler that pushed it holds bolt's writer lock and pushes the next one
  only when the loop has taken this one. So the last update a channel was sent ends
  with the latest value, unless the loop has another in hand: then it ends with that
  one's old value and the channel is still to be sent it, or it is that one already
  (`LastUpdate`, with `LoopSends` and `ReadCommitted`). Keys of committed records only
  are listened to, and `UpdatesChain` follows from `LastUpdate` step by step.
- *In step.* `View` runs the reducer over the messages, a recursive function. That it
  is what its definition says for any number of messages, and that one more message
  applies `Reduce` once (`ViewAppend`), is proved without an induction theorem: a
  non-empty set of numbers has a least one, and the least number of messages for which
  it fails cannot be (`HasLeast`, `ShowsExists`, `ShowsAgree`). `InStep` is turned into
  `Latestly`: the channel shows the record's latest value, or shows the record and is
  due the latest. A step then changes what is shown by the update due or not at all
  (`ShownSteps`), and an update that a handler pushes is due to the channel since its
  listener stays (`StaysSubscribed`, `StaysLatest`). Nothing that read the record
  earlier may be on its way: `StaysUnread` and `StaysAnnounced` keep that, and no second
  initial result overwrites the tree since replies are in order (`InitialAnswered`).

**Conversation.** `RepliesInOrder` is inductive with the types of the variables and
the fact that a busy conversation has a statement; one lemma per action.

**Database.** Gauges and scans hold the lock of each table they have counted
(`CountersHold`), and lists change under the same lock only: hence `ScanIsSnapshot`.
A counter is above its list's length only if a listener could be subscribed twice or
before it is handed to the loop: executions have ids of their own, already given
(`ExecutionsOK`, `IdsUsed`), the loop has one subscription in hand that is in no list
(`LoopsOK`), and no execution has subscribed what it has still to subscribe
(`NotYetSubscribed`). A connection that leaves visits each table once; what it can leave
there is what the loop had in hand, one listener (`LeavesOne`), since its handler's
one execution waits for the loop. `OnlySharedIdsInterfere` needs, for a connection whose
id nobody shares, that its running statement has what it has already subscribed
(`OwnKept`): only a connection with the same id removes listeners by it. `HandlersOK`
ties a handler's place to its id and its last statement.

**GoClient.** Statements on their way are a suffix of what the client has numbered, in
order: `asked`, then the socket, then the one the loop is about to write
(`PipelineOK`), and all of them while the connection lasts. `HandsOK` says that the
messages read are those sent, in order, with one at most in `handleIncoming`'s hands
and one in the loop's; the rest are `Delivered`. A caller that waits has its channel to
itself, and none of its messages has been delivered (`CallsOK`); so what it gets is the
first, and `ResultsOK` keeps that. What the server sends fits its statement (`SentOK`).

**Catalog.** `Working` and `TxIsFileAndNew` say that the transaction of a CREATETABLE
is the file plus consecutive new columns that end below the next id, which is
what makes its commit one abstract `Create`. `FileFresh` is the id property of
the file; `TablesWhole` says each table in the file has columns 1 to n, and that an
acknowledged table, or one about to be acknowledged, is there. Crashes and
failures only forget memory.

**CatalogUse.** Every step of a user or a requery is a step of `Catalog` or leaves its
variables alone (`UseSteps`), which carries the theorems over. `TwiceOnlyByOverlap`
needs that a running server knows each table of its file: `Knows` says that it has a
column slot at least, as has the table of the open transaction; a restart keeps it
because a table of the file has columns to load (`LoadedHasSlots`), by the invariant of
`Catalog`. `OnlySpoiledTablesKill` needs besides that a table without a nil column in
memory is what a creation that has ended, or a load, leaves (`SlotsFilled`), that a
known table has its bucket unless it is in the making or disturbed (`KnownInFile`, hence
what a snapshot that begins sees), and
that an INSERT which is at work was counted against the slots its table has
(`UsersMeetTables`). `OnlySpoiledIdsPanic` needs that the ids of requeries are below the
next id (`RequeriesBelow`), and that while no creation was disturbed that id is the
first one plus the number of columns, in the file and in memory (`IdsCountColumns`), also
after a load: `LoadedIs` and the lemmas about numerals say that a load puts each column
of a table into a slot, in whatever order the decimal keys have. The types of
`tables` rest on the same lemmas.

**Records.** First the encoding. What recursive functions compute is followed as in
`ViewAppend`, without an induction theorem: `Iterated` gives a function that iterates
given steps, the one that is defined agrees with it (`FromZero`: what holds at 0 and is
kept by one more holds up to n), and so each loop is known by its steps. An integer's
bytes are digits, the last byte and the others (`Divided`), hence `IntegerRead`: what
`WriteInteger` wrote is read, if nothing is left of the number after `Width` bytes. A
piece that was written to a buffer is found in it where the pieces before it end
(`PieceFound`), the codes say how long it is (`PieceRead`), so reading meets the start
of each column's bytes, whatever the columns before it were (`RoundTrip`), and of no
bytes empty strings are read (`NothingRead`).

Then the state. The inductive invariant adds three parts to the types. A row's bytes
are those of the fields it should have (`Kept`): from it and `RoundTrip` follows
`StoredIsMeant`. A row names itself by its key, or both are `rekeyed` (`KeysNamed`);
without the second half another row could come to have a key that nobody was known to
have taken, and `LookupsFindTheirRow` would not be inductive. `Get` returns the key's row
if there is one (`GetPresent`), which needs that the order of bytes is total and that a
finite set has a first key. The client shows a row per key, under the id it was
inserted with (`RowsShown`): a record update changes the fields of rows whose id is the
new record's, so all trees on the way have the same ids (`Trees`), and of an UPDATE of
several rows each shown row takes the fields of the one row with its id, whenever its
turn is (`ToldRow`).

**Only model-checked.** The liveness properties: fairness and ENABLED are out of the
prover's reach. The properties of `LiveTree`: trees, queries and paths are nested to any
depth, its operators recur over them, and tlapm can neither use SMT in a module with
such operators nor prove by induction over data what they compute. The violated
properties are refuted by TLC, and there is nothing to prove of them.

## What is not modelled

- Interleavings of nested live queries (`LiveTree` is sequential), trees of three
  levels (their inserts go astray as the updates of `LiveTreeLost` do), nested WHERE
  clauses (they override the relation in the subscription: a new record is added
  under every parent subscribed for it, and one on the primary key does not look at
  the relation at all) and columns of a relation that change. Errors inside nested
  queries.
- `liveQueryActions.js`, which reads `payload` fields that the server's messages do
  not have: the reducer is modelled from its actions. `TreeSQLClient.js` numbers
  statements as `client.go` does.
- A WHERE on a column that does not exist, which ends the server (`record.go:67`): names
  of columns are abstracted.
- Failed commits and other I/O errors outside CREATETABLE, and at the server's
  start; changing a bucket inside its own `ForEach`, which bolt leaves undefined.
- Data races on Go maps beyond what `Database` and `CatalogUse` interleave: Go stops
  the program when it notices one.
- The event loops of the built-in tables: in `Catalog` pushing to them never
  blocks. A slow client with a live query on `__tables__` holds up CREATETABLE as
  one in `LiveAnswers` holds up writers. Live queries on `__record_listeners__`.
- Parser, formatting, log, HTTP routing, counters and histograms, shell, workload,
  UI: they keep no state of the database.

## Plan

Done: all the modules above, their runs, and the theorems listed. What could follow: a
commit of UPDATE that fails after its events; nested live queries with interleaved
statements; for `LiveTree`, the levels of a query as numbers and its trees as functions of
paths, without which its properties cannot be proved.

## Running

In this directory, a run is the command its row in `PROJECT.json` names:

    tlc -workers 2 -config LiveWatch.cfg MCLiveTable
    tlc -workers 2 -config LiveTree.cfg MCLiveTree
    tlc -workers 2 -config DatabaseEnds.cfg MCDatabase
    tlc -workers 2 -config GoClient.cfg MCGoClient
    tlc -workers 2 -config CatalogUse.cfg MCCatalogUse
    tlc -workers 2 -config CatalogOrder.cfg MCCatalog
    tlc -workers 2 -config Records.cfg MCRecords
    tlapm LiveTable_proofs.tla

and likewise for the other runs and proof modules. `LiveWatch`, `LiveAnswers` and
`DatabaseEnds` take two to three minutes with two workers, the other runs about one
or less; each proof module takes one to four minutes from nothing.
