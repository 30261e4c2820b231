------------------------------ MODULE LiveTree ------------------------------
(***************************************************************************)
(* A live query with nested selections: the tree it returns, the listeners *)
(* it leaves in the tables, the updates they send and the tree the web     *)
(* client makes of them.                                                   *)
(*                                                                         *)
(* One client holds one live query; statements of others are applied one   *)
(* after the other, and the next one only when the messages of the one     *)
(* before have arrived (LiveTable has the interleavings).  Every selection *)
(* selects all the columns of its table; the primary key is `id`.          *)
(*                                                                         *)
(* A definition commented "Faulty variant" is no part of the specification:*)
(* it is the definition after it with a plausible bug, and shows which     *)
(* property such a bug breaks.                                             *)
(***************************************************************************)
EXTENDS Integers, Sequences, FiniteSets, SequencesExt, TLC

CONSTANTS
    Columns,    \* per table, its columns; the values of all of them are numbers
    Refs,       \* per table, the table each of its referencing columns refers to
    Insertable, \* per table, the records that clients may insert
    Settable,   \* per table, the values an UPDATE may give to each of its columns
    Queries,    \* the live queries the client may hold
    MaxWrites   \* bound: statements that write

Tables == DOMAIN Columns

\* The empty string, and the key of the record that no bytes decode to.
NoValue == 0

\* At most one reference leads from a table to another; the query is MANY (a scan
\* for ONE row, which may fail, is in LiveTable).
ASSUME RefsAssumption ==
    \A t \in Tables : \A p, q \in DOMAIN Refs[t] : Refs[t][p] = Refs[t][q] => p = q
ASSUME QueriesAssumption == \A q \in Queries : q.many

VARIABLES
    db,        \* the records of each table
    query,     \* the client's live query
    runs,      \* how many times it was executed, requeries included (0: not yet)
    listeners, \* the listeners in the LiveQueryInfo of all the tables
    messages,  \* the updates on their way to the client
    tree,      \* what the client shows
    writes     \* how many statements there were

vars == <<db, query, runs, listeners, messages, tree, writes>>

-----------------------------------------------------------------------------
(* Executing a query on the records `d`.                                   *)

\* A query's `where` is << >> or <<column, value>>; `sub` gives its sub-selections
\* by name; `many` tells whether its table refers to the one above it (MANY) or
\* that one refers to it (ONE).
OnKey(q, k) == [q EXCEPT !.where = <<"id", k>>]

\* QueryPath, flattened: from the root, the id of a record and the name of a
\* selection in turn.
Root == << >>
Below(path, segments) == path \o segments

\* A sub-selection is executed for a record of the table above it.
NoScope == [table |-> "", document |-> << >>, path |-> Root]
Inside(q, r, name, path) ==
    [table |-> q.table, document |-> r, path |-> Below(path, <<r["id"], name>>)]

\* The column by which one table refers to another.
Reference(from, to) == CHOOSE p \in DOMAIN Refs[from] : Refs[from][p] = to

\* Faulty variant: the primary keys of both tables compared for ONE.
FilterByKeys(q, scope) ==
    IF scope = NoScope THEN << >>
    ELSE IF q.many
         THEN <<Reference(q.table, scope.table), scope.document["id"]>>
         ELSE <<"id", scope.document["id"]>>

\* getFilterCondition, with the value that the record above gives it.
FilterCondition(q, scope) ==
    IF scope = NoScope THEN << >>
    ELSE IF q.many
         THEN <<Reference(q.table, scope.table), scope.document["id"]>>
         ELSE <<"id", scope.document[Reference(scope.table, q.table)]>>

Satisfies(r, condition) == condition = << >> \/ r[condition[1]] = condition[2]

\* Faulty variant: a sub-selection subscribes to its whole table.
WhereOnly(q, scope) == q.where

\* The condition of the table subscription: a WHERE clause overrides the filter.
Subscription(q, scope) == IF q.where # << >> THEN q.where ELSE FilterCondition(q, scope)

EmptyRecord(t) == [p \in Columns[t] |-> NoValue]

\* lookupRecord: Cursor.Seek stops at the key or the next one after it.
Lookup(d, t, k) ==
    LET later == {r \in d[t] : k <= r["id"]}
    IN  IF later = {} THEN {EmptyRecord(t)}
        ELSE {r \in later : \A x \in later : r["id"] <= x["id"]}

\* The records a query reads: a lookup by the WHERE clause or else the filter if
\* that is on the primary key, otherwise a scan with both.
Read(d, q, scope) ==
    LET by == IF q.where # << >> THEN q.where ELSE FilterCondition(q, scope)
    IN  IF by # << >> /\ by[1] = "id" THEN Lookup(d, q.table, by[2])
        ELSE {r \in d[q.table] : Satisfies(r, q.where) /\ Satisfies(r, FilterCondition(q, scope))}

\* executeSelect: the rows it returns, each with the rows of its sub-selections.
RECURSIVE Rows(_, _, _)
Rows(d, q, scope) ==
    LET read == SetToSortSeq(Read(d, q, scope), LAMBDA r, x : r["id"] < x["id"])
    IN  [i \in DOMAIN read |->
            [record |-> read[i],
             sub |-> [name \in DOMAIN q.sub |->
                         Rows(d, q.sub[name], Inside(q, read[i], name, scope.path))]]]

\* The listeners execution number n leaves: one on the table, with the query to
\* run again for new records, one on each record, and those of its sub-selections.
RECURSIVE Subscriptions(_, _, _, _)
Subscriptions(d, q, scope, n) ==
    {[on |-> "table", table |-> q.table, where |-> Subscription(q, scope),
      query |-> <<q>>, path |-> scope.path, run |-> n]}
    \cup UNION {
        {[on |-> "record", table |-> q.table, where |-> <<"id", r["id"]>>,
          query |-> << >>, path |-> Below(scope.path, <<r["id"]>>), run |-> n]}
        \cup UNION {Subscriptions(d, q.sub[name], Inside(q, r, name, scope.path), n) :
                       name \in DOMAIN q.sub} :
        r \in Read(d, q, scope)}

\* The listeners of a kind that hear of record r of table t.
Hearing(on, t, r) ==
    {l \in listeners : l.on = on /\ l.table = t /\ Satisfies(r, l.where)}

-----------------------------------------------------------------------------
(* The web client's reducer.                                               *)

\* Faulty variant: the old fields spread over the new ones.
MergeOld(row, new) == [record |-> row.record @@ new.record, sub |-> row.sub @@ new.sub]

\* {...record, ...selection}
Merge(row, new) == [record |-> new.record @@ row.record, sub |-> new.sub @@ row.sub]

\* updateAtSelection and updateAtRecord: a path that ends at a selection adds a
\* row to it, one that ends at a record changes its fields.
RECURSIVE UpdateAtSelection(_, _, _)
UpdateAtRecord(row, path, new) ==
    IF path = << >> THEN Merge(row, new)
    ELSE [row EXCEPT !.sub[path[1]] = UpdateAtSelection(@, Tail(path), new)]
UpdateAtSelection(rows, path, new) ==
    IF path = << >> THEN Append(rows, new)
    ELSE [i \in DOMAIN rows |->
             IF rows[i].record["id"] = path[1] THEN UpdateAtRecord(rows[i], Tail(path), new)
                                               ELSE rows[i]]

\* A path through a selection that a row does not have throws an exception.
RECURSIVE Throws(_, _)
Throws(rows, path) ==
    Len(path) > 1 /\ \E i \in DOMAIN rows :
        /\ rows[i].record["id"] = path[1]
        /\ \/ path[2] \notin DOMAIN rows[i].sub
           \/ Throws(rows[i].sub[path[2]], SubSeq(path, 3, Len(path)))

-----------------------------------------------------------------------------
Init ==
    /\ db = [t \in Tables |-> {}]
    /\ query \in Queries
    /\ runs = 0
    /\ listeners = {}
    /\ messages = {}
    /\ tree = << >>
    /\ writes = 0

\* The live query is executed and its initial result arrives.
Subscribe ==
    /\ runs = 0
    /\ runs' = 1
    /\ listeners' = Subscriptions(db, query, NoScope, 1)
    /\ tree' = Rows(db, query, NoScope)
    /\ UNCHANGED <<db, query, messages, writes>>

Write == writes < MaxWrites /\ messages = {} /\ writes' = writes + 1

\* The requery goroutines of one list read the loop's variable `listener`, which
\* the loop may have moved to a later listener of the list by then.
Captured(told) ==
    {at \in [DOMAIN told -> DOMAIN told] : \A i \in DOMAIN told :
        at[i] >= i /\ told[at[i]].where = told[i].where}

\* INSERT: each listener of the table that the record satisfies runs its query
\* again, for that record, at the root, and sends the row to a listener's path.
\* Nobody checks that the records it refers to are there.
Insert(t, r) ==
    /\ Write
    /\ \A x \in db[t] : x["id"] # r["id"]
    /\ db' = [db EXCEPT ![t] = @ \cup {r}]
    /\ LET told == SetToSeq(Hearing("table", t, r))
           requery(i) == OnKey(told[i].query[1], r["id"])
       IN  /\ \E at \in Captured(told) :
              messages' = {[to |-> told[at[i]], by |-> told[i],
                            new |-> Rows(db', requery(i), NoScope)[1]] : i \in DOMAIN told}
           /\ listeners' = listeners \cup
                  UNION {Subscriptions(db', requery(i), NoScope, runs + i) : i \in DOMAIN told}
           /\ runs' = runs + Len(told)
    /\ UNCHANGED <<query, tree>>

\* UPDATE: each listener of a changed record is sent the new one.
Update(t, column, value, where) ==
    /\ Write
    /\ LET changed == {r \in db[t] : Satisfies(r, where)}
           set(r) == [r EXCEPT ![column] = value]
       IN  /\ db' = [db EXCEPT ![t] = (@ \ changed) \cup {set(r) : r \in changed}]
           /\ messages' = UNION {
                  {[to |-> l, by |-> l, new |-> [record |-> set(r), sub |-> << >>]] :
                      l \in Hearing("record", t, r)} : r \in changed}
    /\ UNCHANGED <<query, runs, listeners, tree>>

\* The client gets a message.
Receive(m) ==
    /\ messages' = messages \ {m}
    /\ tree' = IF Throws(tree, m.to.path) THEN tree
               ELSE UpdateAtSelection(tree, m.to.path, m.new)
    /\ UNCHANGED <<db, query, runs, listeners, writes>>

InsertAny == \E t \in Tables : \E r \in Insertable[t] : Insert(t, r)
UpdateAny ==
    \E t \in Tables : \E p \in DOMAIN Settable[t] : \E v \in Settable[t][p] :
        Update(t, p, v, << >>) \/ \E r \in db[t] : Update(t, p, v, <<"id", r["id"]>>)
Terminated == runs > 0 /\ messages = {} /\ writes = MaxWrites

Next ==
    \/ Subscribe \/ InsertAny \/ UpdateAny
    \/ \E m \in messages : Receive(m)
    \/ Terminated /\ UNCHANGED vars
Spec == Init /\ [][Next]_vars

-----------------------------------------------------------------------------
(* What a query means: the records of its table that satisfy its WHERE     *)
(* clause and are related to the record above.                             *)

Related(r, t, above, t0) ==
    \/ \E p \in DOMAIN Refs[t] : Refs[t][p] = t0 /\ r[p] = above["id"]
    \/ \E p \in DOMAIN Refs[t0] : Refs[t0][p] = t /\ above[p] = r["id"]

\* A record seen with its fields, or only as to which one it is.
Part(r, whole) == IF whole THEN r ELSE r["id"]

Readable(t) == db[t] \cup {EmptyRecord(t)}

\* The selections of a tree: the one of `q` in a scope, and those below its rows.
RECURSIVE Selections(_, _, _, _)
Selections(rows, q, scope, whole) ==
    {[rows |-> rows, query |-> q, path |-> scope.path,
      means |-> {r \in db[q.table] :
                    /\ Satisfies(r, q.where)
                    /\ scope # NoScope => Related(r, q.table, scope.document, scope.table)}]}
    \cup UNION UNION {
        {Selections(rows[i].sub[name], q.sub[name], Inside(q, r, name, scope.path), whole) :
            r \in {x \in Readable(q.table) : Part(x, whole) = Part(rows[i].record, whole)}} :
        i \in DOMAIN rows, name \in DOMAIN q.sub}

\* A lookup is in vain if it finds another record, or none.  In a live tree it was
\* if the listeners of one execution tell that it subscribed to one key and then
\* read another.
LooksUp(q) == IF q.where = << >> THEN ~q.many ELSE q.where[1] = "id"
IsInVain(s) == LooksUp(s.query) /\ s.means = {}
WasInVain(s) ==
    \E sought, found \in {l \in listeners : l.table = s.query.table} :
        /\ sought.on = "table" /\ found.on = "record" /\ sought.run = found.run
        /\ sought.path = s.path /\ found.path = Append(s.path, found.where[2])
        /\ sought.where # << >> /\ sought.where[1] = "id" /\ sought.where # found.where

\* The rows of the selections `all` show each record they mean as many times as there
\* are selections, and nothing else but one record for each that is or was in vain.
Show(all, whole) ==
    LET order == SetToSeq(all)
        rows == FlattenSeq([n \in DOMAIN order |-> order[n].rows])
        showing(r) == {i \in DOMAIN rows : Part(rows[i].record, whole) = Part(r, whole)}
    IN  \A s \in all :
            /\ \A r \in s.means : Cardinality(showing(r)) = Cardinality(all)
            /\ Cardinality(DOMAIN rows \ UNION {showing(r) : r \in s.means}) =
               Cardinality({x \in all : IF whole THEN IsInVain(x) ELSE WasInVain(x)})
            /\ DOMAIN rows = UNION {showing(r) : r \in Readable(s.query.table)}

\* A tree is a result of its query: every selection shows the records it means.
IsResult(rows, q) == \A s \in Selections(rows, q, NoScope, TRUE) : Show({s}, TRUE)

\* A tree has the records of its query, selections that are the same taken together.
HasRecords(rows, q) ==
    LET all == Selections(rows, q, NoScope, FALSE)
    IN  \A s \in all :
            Show({x \in all : x.query = s.query /\ x.means = s.means}, FALSE)

\* The row of the tree that a path leads to, if any.
RECURSIVE At(_, _)
At(rows, path) ==
    UNION {IF Len(path) = 1 THEN {rows[i]} ELSE At(rows[i].sub[path[2]], SubSeq(path, 3, Len(path))) :
              i \in {j \in DOMAIN rows : rows[j].record["id"] = path[1]}}

AtRest == runs > 0 /\ messages = {}

\* Whatever was written, a query returns exactly the records it means, at every
\* level, although each level is read by seeks and scans of its own; except that a
\* lookup (ONE, or WHERE on the primary key) of a key that nobody has returns one
\* record that is not meant: the next one, or the empty record.
FreshResultsRight == \A q \in Queries : IsResult(Rows(db, q, NoScope), q)

\* A live tree has exactly the records that its query means, once each and in
\* their places, whatever was inserted at either level, in any order, before or
\* after the query started, and whatever updates there were; except that a lookup
\* that was in vain keeps its record when the one it sought arrives, and that of
\* selections which mean the same records (sub-selections that are alike, lookups
\* of one key) one may get a record twice in place of another.
TreeHasItsRecords == AtRest => HasRecords(tree, query)

\* A record of the initial result, and any record of the query's own table, is
\* shown where its listener's path leads, with its latest fields; except while a
\* record of another table listens for its updates at that path, too: requeries run
\* at the root, so a nested record that came later has a path like a root record's,
\* and its fields are merged into that one if they have the same id.
ShownRecordsFollow ==
    AtRest => \A l \in listeners : \A r \in db[l.table] :
        (/\ l.on = "record" /\ l.where[2] = r["id"] /\ (l.run = 1 \/ l.table = query.table)
         /\ \A m \in listeners : m.on = "record" /\ m.path = l.path => m.table = l.table) =>
            {row.record : row \in At(tree, l.path)} = {r}

\* README.md:9, "Can push live updates to those result trees": at rest the tree is
\* the result of its query.
TreeIsResult == AtRest => IsResult(tree, query)

=============================================================================
