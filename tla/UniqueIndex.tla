----------------------------- MODULE UniqueIndex -----------------------------
(***************************************************************************)
(* PRIMARY KEY and UNIQUE constraints.  Each index of a table is a binary  *)
(* search tree with one entry per key a row ever had; an entry only leads  *)
(* to a row, whose data and versions decide whether the key is taken.      *)
(* Inserts run under the lock of the last chunk, updates under the lock of *)
(* the chunk of their row; what they read of other chunks than the last    *)
(* they read under a shared lock, which AddEntry returns only when the key *)
(* is in conflict.                                                         *)
(*                                                                         *)
(* One call of AddEntries (it holds index_lock) is one step, taken when it *)
(* ends.  The chunk locks keep writers away from the rows it has compared, *)
(* but a rollback takes neither these nor index_lock and undoes one entry  *)
(* at a time: what the rows held before an undo stays readable to a call   *)
(* that it may have come in the middle of.  Statements write their rows in *)
(* one step and versions are never cleaned up: DataTable and TableLocks    *)
(* have the interleavings of these.                                        *)
(***************************************************************************)
EXTENDS Integers, FiniteSets, Sequences, Functions

CONSTANTS
    Tx, NoTx,
    Loaded,         \* the rows the table starts with
    Keys,           \* per index, its columns
    AllowNulls,     \* per index: TRUE for UNIQUE, FALSE for PRIMARY KEY
    InsertBatches,  \* what INSERT statements add: sequences of rows
    UpdateKeys,     \* what UPDATE statements write: per column a value or Keep
    Keep,           \* a column the UPDATE does not set
    ChunkSize,      \* rows of a chunk
    MaxRows,        \* bound on the rows of the table
    MaxStatements   \* bound on the statements of a run

Column == UNION {Range(Keys[i]) : i \in DOMAIN Keys}
Index  == DOMAIN AllowNulls
Null   == 0         \* a NULL value, or the null pointer to an entry
NoKey  == << >>     \* the key of a row with a NULL value

\* A key, compared column by column: memcmp of the tuples.
KeyOf(i, row) ==
    IF \E c \in Range(Keys[i]) : row[c] = Null THEN NoKey
    ELSE [k \in DOMAIN Keys[i] |-> row[Keys[i][k]]]

Smaller(a, b) == \E k \in DOMAIN a : a[k] < b[k] /\ \A j \in 1..k - 1 : a[j] = b[j]

ASSUME TxAssumption == NoTx \notin Tx

\* A column holds numbers, NULL being one of them.
ASSUME KeysAssumption ==
    /\ Keys \in Seq(Seq(Nat) \ {<< >>}) /\ Keys # << >>
    /\ AllowNulls \in Seq(BOOLEAN) /\ Len(AllowNulls) = Len(Keys)

ASSUME SizeAssumption ==
    /\ ChunkSize \in Nat \ {0} /\ MaxRows \in Nat \ {0} /\ MaxStatements \in Nat

ASSUME StatementAssumption ==
    /\ InsertBatches \subseteq Seq([Column -> Nat])
    /\ Keep \notin Nat /\ UpdateKeys \subseteq [Column -> Nat \cup {Keep}]

\* The table starts with rows that keep the constraints.
ASSUME LoadedAssumption ==
    /\ Loaded \in Seq([Column -> Nat]) /\ Len(Loaded) <= MaxRows
    /\ \A i \in Index : \A r, s \in DOMAIN Loaded :
          r < s /\ KeyOf(i, Loaded[r]) # NoKey => KeyOf(i, Loaded[r]) # KeyOf(i, Loaded[s])

VARIABLES
    clock, start_time, commit_id,
    phase,          \* program counter of t's connection
    issued,         \* statements begun so far
    statement,      \* the statement t runs
    current_index,  \* next index the statement has to enter its keys in
    added_nodes,    \* per index, the entries of the statement
    data, deleted, count, chain,    \* the rows and their versions
    index,          \* per index, its root and the nodes that are reachable
    exclusive_lock, read_count,     \* per chunk
    fault,          \* how the process died, or Alive
    unlocked,       \* history: rows of the last chunk compared without its lock
    dirty,          \* history: rows indexed with a column not yet committed
    torn,           \* history: rows compared as they were before an undo
    clobbered,      \* history: rows written after their delete was committed
    earlier         \* history: what a row held before the undos since t's call began

rowState == <<data, deleted, count, chain>>
control  == <<clock, start_time, commit_id, phase, issued, statement,
              current_index, added_nodes>>
history  == <<unlocked, dirty, torn, clobbered, earlier>>
locks    == <<exclusive_lock, read_count>>
vars == <<control, rowState, index, locks, fault, history>>

Freed == -1         \* the parent pointer to a root that was removed
Alive == "alive"
NoStatement == [kind |-> "none", rows |-> << >>, keys |-> << >>]
Row   == 1..MaxRows
Chunk == 0..((MaxRows - 1) \div ChunkSize)
Nowhere == [c \in Column |-> Null]   \* no such row
Reading == [deleted : BOOLEAN, data : [Column -> Nat]]  \* what the base table says of a row
NoneEarlier == [r \in Row |-> {}]

ChunkOf(r) == (r - 1) \div ChunkSize
tail_chunk == IF count = 0 THEN 0 ELSE ChunkOf(count)

NodeType == [key : Seq(Nat), row : Row, parent : Nat \cup {Freed}, left : Nat, right : Nat]

TypeOK ==
    /\ clock \in Nat /\ start_time \in [Tx -> Nat] /\ commit_id \in [Tx -> Nat]
    /\ phase \in [Tx -> {"idle", "ready", "locking", "indexing", "reverting",
                         "writing", "failed", "undoing", "done"}]
    /\ issued \in 0..MaxStatements
    /\ current_index \in [Tx -> 1..Len(AllowNulls) + 1]
    /\ data \in [Row -> [Column -> Nat]] /\ deleted \in [Row -> BOOLEAN]
    /\ count \in 0..MaxRows
    /\ \A r \in Row : \A v \in Range(chain[r]) : v.by \in Tx
    /\ \A i \in Index : \A n \in DOMAIN index[i].node : index[i].node[n] \in NodeType
    /\ exclusive_lock \in [Chunk -> Tx \cup {NoTx}]
    /\ read_count \in [Chunk -> Int]
    /\ fault \in {Alive, "chunk_of_no_row", "no_entry", "inner_entry", "freed_parent", "wrong_parent"}
    /\ unlocked \cup dirty \cup torn \cup clobbered \subseteq Row
    /\ \A t \in Tx, r \in Row : earlier[t][r] \subseteq Reading

-----------------------------------------------------------------------------
(* Rows and versions, as DataTable has them. *)

Number(v) == commit_id[v.by]
Uncommitted(v) == Number(v) = 0
Sees(t, v) == v.by = t \/ (~Uncommitted(v) /\ Number(v) < start_time[t])

\* What a reader that sees the versions in seen finds in row r.
ReadAlong(r, seen) ==
    LET vs == chain[r]
        k == CHOOSE k \in 0..Len(vs) :
                /\ \A j \in 1..k : vs[j] \notin seen
                /\ k < Len(vs) => vs[k + 1] \in seen
    IN CASE r > count -> Nowhere
         [] r <= count /\ k = 0 -> IF deleted[r] THEN Nowhere ELSE data[r]
         [] OTHER -> vs[k].saved

Read(t, r) == ReadAlong(r, {v \in Range(chain[r]) : Sees(t, v)})
Committed(r) == ReadAlong(r, {v \in Range(chain[r]) : ~Uncommitted(v)})

\* The version AddEntry stops at, or the first of which it finds the key in:
\* the versions in front of one that t sees, the newest one included.
\* A bug: only the row itself is compared.
ChasedNone(t, r) == {}
Chased(t, r) ==
    LET vs == chain[r]
    IN IF vs = << >> \/ Sees(t, vs[1]) THEN {}
       ELSE {k \in 1..Len(vs) : \A j \in 2..k : ~Sees(t, vs[j])}

\* base: the flag and the columns of the row as AddEntry read them.
Conflicts(t, i, key, base, r, ignored) ==
    \/ r \notin ignored /\ ~base.deleted /\ KeyOf(i, base.data) = key
    \/ \E k \in Chased(t, r) : KeyOf(i, chain[r][k].saved) = key

-----------------------------------------------------------------------------
(* The tree of one index.  Smaller entries than the new one lead to the    *)
(* left, equal and greater ones to the right.                              *)

\* From each entry, the next one on the search for a key; the left one.
Towards(node, key) ==
    [n \in DOMAIN node |-> IF Smaller(node[n].key, key) THEN node[n].left ELSE node[n].right]
Leftwards(node) == [n \in DOMAIN node |-> node[n].left]

\* The entries that a walk from n comes past, in order, Null behind the last.
Walk(next, n) ==
    LET at[k \in 1..Cardinality(DOMAIN next) + 1] ==
            IF k = 1 THEN n
            ELSE LET prev == at[k - 1] IN IF prev = Null THEN Null ELSE next[prev]
    IN at

Met(next, n) == Range(Walk(next, n)) \ {Null}
EndOf(next, n) == IF n = Null THEN Null ELSE CHOOSE m \in Met(next, n) : next[m] = Null

Search(tree, key) == Met(Towards(tree.node, key), tree.root)

FreshNode(tree) == CHOOSE n \in 1..Cardinality(DOMAIN tree.node) + 1 : n \notin DOMAIN tree.node

\* Bugs: rows counted from one; equal keys that are attached to the left.
LeafOfNext(key, row, prev) ==
    [key |-> key, row |-> row + 1, parent |-> prev, left |-> Null, right |-> Null]
Leaf(key, row, prev) ==
    [key |-> key, row |-> row, parent |-> prev, left |-> Null, right |-> Null]
SideOrEqual(entry, key) == IF ~Smaller(key, entry.key) THEN "left" ELSE "right"
Side(entry, key) == IF Smaller(entry.key, key) THEN "left" ELSE "right"

Attach(tree, key, row) ==
    LET new == FreshNode(tree)
        prev == EndOf(Towards(tree.node, key), tree.root)
        linked == IF prev = Null THEN tree.node
                  ELSE [tree.node EXCEPT ![prev][Side(tree.node[prev], key)] = new]
    IN [root |-> IF prev = Null THEN new ELSE tree.root,
        node |-> [n \in DOMAIN linked \cup {new} |->
                    IF n = new THEN Leaf(key, row, prev) ELSE linked[n]]]

Drop(node, gone) == [n \in DOMAIN node \ {gone} |-> node[n]]

\* Pointers to parents stay as they were; those to a removed root are dangling.
Orphan(node, gone) ==
    [n \in DOMAIN node |-> IF node[n].parent = gone THEN [node[n] EXCEPT !.parent = Freed]
                           ELSE node[n]]

RemoveRoot(tree) ==
    LET e == tree.root
        l == tree.node[e].left
        r == tree.node[e].right
        m == EndOf(Leftwards(tree.node), r)
        kept == Orphan(Drop(tree.node, e), e)
        joined == IF kept[l].right = Null THEN [kept EXCEPT ![l].right = r]
                  ELSE [kept EXCEPT ![m].left = kept[l].right, ![l].right = r]
    IN CASE l # Null /\ r # Null -> [root |-> l, node |-> joined]
         [] l # Null /\ r = Null -> [root |-> l, node |-> kept]
         [] OTHER -> [root |-> r, node |-> kept]

RemoveLeaf(tree, e) ==
    LET p == tree.node[e].parent
        side == IF tree.node[p].left = e THEN "left" ELSE "right"
    IN [root |-> tree.root, node |-> Drop([tree.node EXCEPT ![p][side] = Null], e)]

\* What RemoveEntry runs into, or Alive.
Removal(tree, e) ==
    CASE e = Null -> "no_entry"
      [] e # Null /\ tree.node[e].parent = Null -> Alive
      [] OTHER -> IF tree.node[e].left # Null \/ tree.node[e].right # Null THEN "inner_entry"
                  ELSE IF tree.node[e].parent = Freed THEN "freed_parent"
                  ELSE IF e \notin {tree.node[tree.node[e].parent].left,
                                    tree.node[tree.node[e].parent].right}
                  THEN "wrong_parent" ELSE Alive

RemoveEntry(tree, e) ==
    IF tree.node[e].parent = Null THEN RemoveRoot(tree) ELSE RemoveLeaf(tree, e)

\* One of the entries to take back; past the null pointers if they are tested for.
Removed(done, e, tested) ==
    CASE done.fault # Alive \/ (e = Null /\ tested) -> done
      [] done.fault = Alive /\ ~(e = Null /\ tested) /\ Removal(done.tree, e) # Alive ->
            [tree |-> done.tree, fault |-> Removal(done.tree, e)]
      [] OTHER -> [tree |-> RemoveEntry(done.tree, e), fault |-> Alive]

\* Removes the entries es, last one first, up to the first that cannot be removed.
RemoveAll(tree, es, tested) ==
    LET after[k \in 0..Len(es)] ==
            IF k = 0 THEN [tree |-> tree, fault |-> Alive]
            ELSE Removed(after[k - 1], es[Len(es) + 1 - k], tested)
    IN after[Len(es)]

-----------------------------------------------------------------------------
(* AddEntries: one index, all rows of a statement, under index_lock. *)

\* What t's call may have read of row r.  The flag and each of the columns are
\* read one after the other and restored one after the other, all unprotected.
Now(r) == [deleted |-> deleted[r], data |-> data[r]]
Readable(t, r) ==
    LET held == earlier[t][r] \cup {Now(r)}
    IN {[deleted |-> h.deleted, data |-> [c \in Column |-> from[c].data[c]]] :
            h \in held, from \in [Column -> held]}

\* The same of all rows, for one row of the statement.  The version pointer of a
\* row is read behind these: if AddEntry finds no conflict along the versions
\* there were before an undo, it finds none along those that are left.
Readings(t) ==
    LET undone == {r \in Row : earlier[t][r] # {}}
        read == {f \in [undone -> UNION {Readable(t, r) : r \in undone}] :
                    \A r \in undone : f[r] \in Readable(t, r)}
    IN {[r \in Row |-> IF r \in undone THEN f[r] ELSE Now(r)] : f \in read}

\* The entries with an equal key that AddEntry compares, on its way down, with
\* the rows: up to one that leads past the counted rows or is in conflict.
Compared(t, i, tree, key, read, ignored) ==
    LET at == Walk(Towards(tree.node, key), tree.root)
        same == {k \in DOMAIN at : at[k] # Null /\ tree.node[at[k]].key = key}
        stops == {k \in same : \/ tree.node[at[k]].row > count
                                \/ Conflicts(t, i, key, read[tree.node[at[k]].row],
                                             tree.node[at[k]].row, ignored)}
    IN {at[k] : k \in {k \in same : \A j \in stops : k <= j}}

\* acc: the tree, the entries added (Null for a skipped row), the entries whose
\* rows were compared and of these those without a conflict.
AddEntry(t, i, acc, key, row, read, ignored) ==
    LET cs == Compared(t, i, acc.tree, key, read, ignored)
        at(n) == acc.tree.node[n].row
        known == {n \in cs : at(n) <= count}
        passed == {n \in known : ~Conflicts(t, i, key, read[at(n)], at(n), ignored)}
        seen == [acc EXCEPT !.compared = @ \cup known, !.passed = @ \cup passed]
    IN CASE cs # known -> [seen EXCEPT !.fault = "chunk_of_no_row"]
         [] cs = known /\ known # passed -> [seen EXCEPT !.error = TRUE]
         [] OTHER -> [seen EXCEPT !.tree = Attach(acc.tree, key, row),
                                  !.added = Append(@, FreshNode(acc.tree))]

AddRow(t, i, acc, key, row, read, ignored) ==
    CASE acc.error \/ acc.fault # Alive -> acc
      [] ~acc.error /\ acc.fault = Alive /\ key = NoKey ->
            IF AllowNulls[i] THEN [acc EXCEPT !.added = Append(@, Null)]
            ELSE [acc EXCEPT !.error = TRUE]
      [] OTHER -> AddEntry(t, i, acc, key, row, read, ignored)

\* A violation takes back what the call added, which is younger than the rest.
TakeBack(acc) ==
    LET removed == RemoveAll(acc.tree, acc.added, TRUE)
    IN IF acc.error THEN [acc EXCEPT !.tree = removed.tree, !.fault = removed.fault] ELSE acc

Start(tree) == [tree |-> tree, added |-> << >>, error |-> FALSE, fault |-> Alive,
                compared |-> {}, passed |-> {}]

AddEntries(t, i, ks, rows, reads, ignored) ==
    LET after[j \in 0..Len(ks)] ==
            IF j = 0 THEN Start(index[i])
            ELSE AddRow(t, i, after[j - 1], ks[j], rows[j], reads[j], ignored)
    IN TakeBack(after[Len(ks)])

-----------------------------------------------------------------------------
(* Statements. *)

EmptyTree == [root |-> Null, node |-> << >>]

LoadedTree(i) ==
    LET after[r \in 0..Len(Loaded)] ==
            IF r = 0 THEN EmptyTree
            ELSE LET tree == after[r - 1]
                 IN IF KeyOf(i, Loaded[r]) = NoKey THEN tree
                    ELSE Attach(tree, KeyOf(i, Loaded[r]), r)
    IN after[Len(Loaded)]

Init ==
    /\ clock = 1
    /\ start_time = [t \in Tx |-> 0] /\ commit_id = [t \in Tx |-> 0]
    /\ phase = [t \in Tx |-> "idle"]
    /\ issued = 0
    /\ statement = [t \in Tx |-> NoStatement]
    /\ current_index = [t \in Tx |-> 1]
    /\ added_nodes = [t \in Tx |-> [i \in Index |-> << >>]]
    /\ count = Len(Loaded)
    /\ data = [r \in Row |-> IF r <= count THEN Loaded[r] ELSE Nowhere]
    /\ deleted = [r \in Row |-> FALSE]
    /\ chain = [r \in Row |-> << >>]
    /\ index = [i \in Index |-> LoadedTree(i)]
    /\ exclusive_lock = [c \in Chunk |-> NoTx]
    /\ read_count = [c \in Chunk |-> 0]
    /\ fault = Alive /\ unlocked = {} /\ dirty = {} /\ torn = {} /\ clobbered = {}
    /\ earlier = [t \in Tx |-> NoneEarlier]

Goto(t, p) == phase' = [phase EXCEPT ![t] = p]
ToReady(t) == /\ Goto(t, "ready")
              /\ statement' = [statement EXCEPT ![t] = NoStatement]
              /\ current_index' = [current_index EXCEPT ![t] = 1]
              /\ added_nodes' = [added_nodes EXCEPT ![t] = [i \in Index |-> << >>]]
Release(c) == exclusive_lock' = [exclusive_lock EXCEPT ![c] = NoTx]

\* A rollback holds transaction_lock from its first entry to its last.
LockFree(t) == \A u \in Tx \ {t} : phase[u] # "undoing"

Begin(t) ==
    /\ phase[t] = "idle" /\ LockFree(t)
    /\ start_time' = [start_time EXCEPT ![t] = clock] /\ clock' = clock + 1
    /\ Goto(t, "ready")
    /\ UNCHANGED <<commit_id, issued, statement, current_index, added_nodes, rowState,
                   index, locks, fault, history>>

Issue(t, s) ==
    /\ phase[t] = "ready" /\ issued < MaxStatements
    /\ issued' = issued + 1
    /\ statement' = [statement EXCEPT ![t] = s]
    /\ Goto(t, "locking")
    /\ UNCHANGED <<clock, start_time, commit_id, current_index, added_nodes, rowState,
                   index, locks, fault, history>>

Insert(t) == \E b \in InsertBatches :
    Issue(t, [kind |-> "insert", rows |-> << >>, keys |-> b])

\* The rows a statement found in its snapshot; all of one chunk.
Found(t) ==
    LET seen == {r \in Row : Read(t, r) # Nowhere}
    IN {<<r>> : r \in seen} \cup
       {rs \in seen \X seen : rs[1] < rs[2] /\ ChunkOf(rs[1]) = ChunkOf(rs[2])}

Update(t) == \E rs \in Found(t), k \in UpdateKeys :
    Issue(t, [kind |-> "update", rows |-> rs, keys |-> [j \in DOMAIN rs |-> k]])

Delete(t) == \E rs \in Found(t) :
    Issue(t, [kind |-> "delete", rows |-> rs, keys |-> << >>])

ChunkFor(t) == IF statement[t].kind = "insert" THEN tail_chunk
               ELSE ChunkOf(statement[t].rows[1])

\* An INSERT numbers its rows behind those that are counted.
LockChunk(t) ==
    LET c == ChunkFor(t)
        s == statement[t]
    IN /\ phase[t] = "locking"
       /\ exclusive_lock[c] = NoTx /\ read_count[c] = 0
       /\ s.kind = "insert" => count + Len(s.keys) <= MaxRows
       /\ exclusive_lock' = [exclusive_lock EXCEPT ![c] = t]
       /\ statement' = [statement EXCEPT ![t].rows =
                          IF s.kind = "insert" THEN [j \in DOMAIN s.keys |-> count + j] ELSE @]
       /\ Goto(t, IF s.kind = "delete" THEN "writing" ELSE "indexing")
       /\ UNCHANGED <<clock, start_time, commit_id, issued, current_index, added_nodes,
                      rowState, index, read_count, fault, history>>

\* The columns of a row after the statement, if those before it were old.
Filled(t, j, old) ==
    LET s == statement[t]
    IN IF s.kind = "insert" THEN s.keys[j]
       ELSE [c \in Column |-> IF s.keys[j][c] = Keep THEN old[c] ELSE s.keys[j][c]]

Written(t, j) == Filled(t, j, data[statement[t].rows[j]])

Affected(t, i) ==
    statement[t].kind = "update" => \E c \in Range(Keys[i]) : statement[t].keys[1][c] # Keep

\* What EnterKeys takes the keys from; an update has read its rows by then.
Tuples(t, reads) ==
    LET rows == statement[t].rows
    IN [j \in DOMAIN rows |-> Filled(t, j, reads[j][rows[j]].data)]

\* Update looks for equal tuples in what it writes, NULLs being equal.
DuplicateTuples(t, i, tuples) ==
    /\ statement[t].kind = "update"
    /\ \E j, k \in DOMAIN statement[t].rows :
          j < k /\ \A c \in Range(Keys[i]) : tuples[j][c] = tuples[k][c]

IgnoredIdentifiers(t) == IF statement[t].kind = "update" THEN Range(statement[t].rows) ELSE {}

\* An INSERT takes back the other indexes; an UPDATE counts the entries of the
\* index that failed, none, and takes back nothing.
Reject(t) ==
    IF statement[t].kind = "insert"
    THEN /\ Goto(t, "reverting")
         /\ UNCHANGED <<statement, current_index, added_nodes, exclusive_lock>>
    ELSE ToReady(t) /\ Release(ChunkFor(t))

Advance(t, added) ==
    /\ current_index' = [current_index EXCEPT ![t] = @ + 1]
    /\ added_nodes' = [added_nodes EXCEPT ![t][current_index[t]] = added]
    /\ Goto(t, IF current_index[t] = Len(Keys) THEN "writing" ELSE "indexing")
    /\ UNCHANGED <<statement, exclusive_lock>>

InConflict(t, r) == chain[r] # << >> /\ Uncommitted(chain[r][1]) /\ chain[r][1].by # t

\* Calls that wait for the lock of index i compare with what rows hold from now
\* on; an update has read its own rows before.
StillReadable(t, i) ==
    [u \in Tx |-> CASE u = t -> NoneEarlier
                   [] u # t /\ current_index[u] = i ->
                        [r \in Row |-> IF r \in IgnoredIdentifiers(u) THEN earlier[u][r] ELSE {}]
                   [] OTHER -> earlier[u]]

\* One index of the loop in Append and in Update; reads[j] is what the call read
\* for row j of the statement, first of that row itself (SerializeUpdate), then
\* of those it compared.
EnterKeysReading(t, reads) ==
    LET i == current_index[t]
        rows == statement[t].rows
        own == IgnoredIdentifiers(t)
        tuples == Tuples(t, reads)
        r == AddEntries(t, i, [j \in DOMAIN rows |-> KeyOf(i, tuples[j])], rows, reads, own)
        at(n) == r.tree.node[n].row
        compared == {at(n) : n \in r.compared}
        stale == {x \in Row : \E j \in DOMAIN rows : reads[j][x] # Now(x)}
    IN CASE ~Affected(t, i) ->
              /\ Advance(t, << >>)
              /\ earlier' = [earlier EXCEPT ![t] = NoneEarlier]
              /\ UNCHANGED <<index, read_count, fault, unlocked, dirty, torn>>
         [] Affected(t, i) /\ DuplicateTuples(t, i, tuples) ->
              /\ Reject(t)
              /\ earlier' = [earlier EXCEPT ![t] = NoneEarlier]
              /\ UNCHANGED <<index, read_count, fault, unlocked, dirty, torn>>
         [] OTHER ->
              /\ \A x \in compared :
                    ChunkOf(x) # tail_chunk => exclusive_lock[ChunkOf(x)] = NoTx
              /\ index' = [index EXCEPT ![i] = r.tree]
              /\ read_count' = [c \in Chunk |->
                    IF c = tail_chunk THEN read_count[c]
                    ELSE read_count[c] + Cardinality({n \in r.passed : ChunkOf(at(n)) = c})]
              /\ fault' = r.fault
              /\ unlocked' = unlocked \cup
                    IF exclusive_lock[tail_chunk] = t THEN {}
                    ELSE {x \in compared : ChunkOf(x) = tail_chunk}
              /\ dirty' = dirty \cup {x \in own : InConflict(t, x) \/ x \in stale}
              /\ torn' = torn \cup ((compared \cap stale) \ own)
              /\ earlier' = StillReadable(t, i)
              /\ IF r.error THEN Reject(t) ELSE Advance(t, r.added)

EnterKeys(t) ==
    /\ phase[t] = "indexing"
    /\ \E reads \in [DOMAIN statement[t].rows -> Readings(t)] : EnterKeysReading(t, reads)
    /\ UNCHANGED <<clock, start_time, commit_id, issued, rowState, clobbered>>

\* Bugs: counting the entries of the index that failed, as Update does; going
\* through the entries oldest first.
RevertedNone(t, i) == << >>
RevertedOldestFirst(t, i) ==
    LET es == added_nodes[t][i] IN [j \in DOMAIN es |-> es[Len(es) + 1 - j]]
Reverted(t, i) == added_nodes[t][i]

\* What Append still has to take back: the entries of the indexes before the
\* failing one; those of rows that were skipped are null pointers.
RevertIndex(t) ==
    LET i == current_index[t] - 1
        r == RemoveAll(index[i], Reverted(t, i), FALSE)
    IN /\ phase[t] = "reverting"
       /\ IF i = 0
          THEN ToReady(t) /\ Release(tail_chunk) /\ UNCHANGED <<index, fault>>
          ELSE /\ index' = [index EXCEPT ![i] = r.tree]
               /\ fault' = r.fault
               /\ current_index' = [current_index EXCEPT ![t] = i]
               /\ UNCHANGED <<phase, statement, added_nodes, exclusive_lock>>
       /\ UNCHANGED <<clock, start_time, commit_id, issued, rowState, read_count,
                      history>>

WriteInserted(t) ==
    LET s == statement[t]
        new == Range(s.rows)
        at(r) == r - count
    IN /\ s.kind = "insert"
       /\ count' = count + Len(s.rows)
       /\ data' = [r \in Row |-> IF r \in new THEN Written(t, at(r)) ELSE data[r]]
       /\ chain' = [r \in Row |-> IF r \in new THEN <<[by |-> t, saved |-> Nowhere]>>
                                  ELSE chain[r]]
       /\ ToReady(t) /\ Release(tail_chunk)
       /\ UNCHANGED <<deleted, clobbered>>

Push(t, rs) == [r \in Row |-> IF r \in rs THEN <<[by |-> t, saved |-> data[r]]>> \o chain[r]
                              ELSE chain[r]]

\* Rows before the first one in conflict are pushed (and deleted); the exception
\* leaves the chunk locked.
WriteFound(t) ==
    LET s == statement[t]
        bad == {j \in DOMAIN s.rows : InConflict(t, s.rows[j])}
        done == {s.rows[j] : j \in {j \in DOMAIN s.rows : \A b \in bad : j < b}}
        at(r) == CHOOSE j \in DOMAIN s.rows : s.rows[j] = r
    IN /\ s.kind \in {"update", "delete"}
       /\ chain' = Push(t, done)
       /\ deleted' = [r \in Row |-> deleted[r] \/ (s.kind = "delete" /\ r \in done)]
       /\ data' = [r \in Row |-> IF s.kind = "update" /\ bad = {} /\ r \in done
                                 THEN Written(t, at(r)) ELSE data[r]]
       /\ clobbered' = clobbered \cup {r \in done : deleted[r]}
       /\ IF bad = {} THEN ToReady(t) /\ Release(ChunkFor(t))
          ELSE /\ Goto(t, "failed")
               /\ UNCHANGED <<statement, current_index, added_nodes, exclusive_lock>>
       /\ UNCHANGED count

WriteRows(t) ==
    /\ phase[t] = "writing"
    /\ WriteInserted(t) \/ WriteFound(t)
    /\ UNCHANGED <<clock, start_time, commit_id, issued, index, read_count, fault,
                   unlocked, dirty, torn, earlier>>

Commit(t) ==
    /\ phase[t] = "ready" /\ LockFree(t)
    /\ commit_id' = [commit_id EXCEPT ![t] = clock] /\ clock' = clock + 1
    /\ Goto(t, "done")
    /\ UNCHANGED <<start_time, issued, statement, current_index, added_nodes, rowState,
                   index, locks, fault, history>>

\* StorageChunk::Undo, without the lock of the chunk.
Undo(t, r) ==
    LET saved == chain[r][1].saved
    IN /\ chain' = [chain EXCEPT ![r] = Tail(@)]
       /\ deleted' = [deleted EXCEPT ![r] = (saved = Nowhere)]
       /\ data' = [data EXCEPT ![r] = IF saved = Nowhere THEN @ ELSE saved]
       /\ earlier' = [u \in Tx |-> IF phase[u] # "indexing" THEN earlier[u]
                                   ELSE [earlier[u] EXCEPT ![r] = @ \cup {Now(r)}]]

\* One entry of the undo buffer, the newest of one of the rows that t wrote, or
\* its end; the entries of their keys stay in the trees.
Rollback(t) ==
    LET mine == {r \in Row : chain[r] # << >> /\ chain[r][1].by = t}
    IN /\ phase[t] \in {"ready", "failed", "undoing"} /\ LockFree(t)
       /\ IF mine = {} THEN Goto(t, "done") /\ UNCHANGED <<chain, deleted, data, earlier>>
          ELSE Goto(t, "undoing") /\ \E r \in mine : Undo(t, r)
       /\ UNCHANGED <<clock, start_time, commit_id, issued, statement, current_index,
                      added_nodes, count, index, locks, fault, unlocked, dirty, torn, clobbered>>

Next ==
    /\ fault = Alive
    /\ \E t \in Tx :
          \/ Begin(t) \/ Insert(t) \/ Update(t) \/ Delete(t)
          \/ LockChunk(t) \/ EnterKeys(t) \/ RevertIndex(t) \/ WriteRows(t)
          \/ Commit(t) \/ Rollback(t)

Spec == Init /\ [][Next]_vars

-----------------------------------------------------------------------------
(* Properties. *)

Active == {t \in Tx : phase[t] \notin {"idle", "undoing", "done"}}
Clash(r, s) == \E i \in Index : KeyOf(i, r) # NoKey /\ KeyOf(i, r) = KeyOf(i, s)

\* Rows t wrote over versions that were committed after t started.
Overtaken(t) == {r \in 1..count : /\ chain[r] # << >> /\ chain[r][1].by = t
                                  /\ \E v \in Range(chain[r]) : ~Sees(t, v)}

\* The constraint: neither the committed rows nor any snapshot, with what its
\* transaction wrote, hold two rows with equal keys, however statements of
\* several connections interleave, fail and roll back.  Excepted are rows that
\* AddEntry compared without the lock of the last chunk (an update of an earlier
\* chunk holds the lock of that one) and rows written over a newer commit, which
\* Update and Delete do not take for a conflict: for the writer's snapshot all of
\* these, for everybody those whose committed delete was written over; and rows
\* whose key Update took from a column that was not committed, rolled back before
\* Update looked for conflicts; and rows that AddEntry compared as they were before
\* a rollback restored them: it looks for their versions only after that.
UniqueKeys ==
    LET unique(rows, at(_)) ==
            \A r, s \in rows \ (unlocked \cup dirty \cup torn) : r < s => ~Clash(at(r), at(s))
    IN /\ unique(1..count \ clobbered, Committed)
       /\ \A t \in Active : unique(1..count \ (clobbered \cup Overtaken(t)),
                                  LAMBDA r : Read(t, r))

\* A search for a key comes past every entry of the key, whatever entries were
\* removed, and every row and every version that a rollback would restore has
\* an entry for its key: otherwise a second row with the key would be let in.
\* Excepted are the rows that were indexed with an uncommitted column.
EveryKeyIsFound ==
    \A i \in Index :
        LET found(k) == {index[i].node[n].row : n \in Search(index[i], k)}
        IN \A r \in 1..count \ dirty :
              \A row \in {data[r]} \cup {v.saved : v \in Range(chain[r])} :
                  KeyOf(i, row) # NoKey => r \in found(KeyOf(i, row))

\* Once no INSERT is on its way, no entry leads past the rows that are counted,
\* where the next search would fault: a rejected INSERT leaves nothing behind.
RejectedInsertsLeaveNoEntry ==
    (fault = Alive /\ \A t \in Tx : phase[t] \notin {"indexing", "reverting", "writing"})
        => \A i \in Index : \A n \in DOMAIN index[i].node : index[i].node[n].row <= count

\* Taking back an INSERT, youngest entries first, only meets leaves and its own
\* subtrees; when RemoveEntry is asked for what it cannot do (an inner entry, a
\* stale parent pointer), an update of an earlier chunk has entered a key below
\* an entry of the INSERT in between: Append reverts without index_lock.
RevertsRemoveLeaves ==
    fault \in {"inner_entry", "freed_parent", "wrong_parent"} =>
        \E i \in Index : \E n, m \in DOMAIN index[i].node :
            /\ index[i].node[n].row > count /\ index[i].node[m].row <= count
            /\ index[i].node[m].parent = n

=============================================================================
