------------------------------ MODULE DataTable ------------------------------
(***************************************************************************)
(* The rows of one storage chunk under multi-version concurrency control.  *)
(* A row's newest data is in the table; each write first pushes the data   *)
(* it replaces in front of the row's chain of versions, in the undo buffer *)
(* of its transaction.  Scans and writes take the chunk's shared and       *)
(* exclusive lock; committing, rolling back and cleaning up an undo buffer *)
(* hold transaction_lock and touch the chunk entry by entry without any    *)
(* lock of the chunk.                                                      *)
(*                                                                         *)
(* The data a transaction writes is named by the transaction.  A version   *)
(* is the pair of a transaction and a position in its undo buffer.  The    *)
(* version_number of an entry is the commit id once it is stamped, before  *)
(* that the transaction's id; commit ids below TRANSACTION_ID_START (see   *)
(* TransactionManager) make that a Boolean.                                *)
(***************************************************************************)
EXTENDS Naturals, FiniteSets, SequencesExt

CONSTANTS
    Tx,             \* transactions, each with the connection that runs it
    NoTx,
    Loaded,         \* the data of the rows that exist at the start
    Dead,           \* what a reader gets of a row that is not there
    InitialRows,    \* rows at the start, their versions long cleaned up
    MaxRows,        \* bound on the rows of the chunk
    MaxStatements,  \* bound on the statements of a run
    Kinds,          \* the statements clients issue
    AutoCommit      \* TRUE: a failed statement rolls its transaction back

ASSUME TxAssumption == NoTx \notin Tx
ASSUME StatementsAssumption == MaxStatements \in Nat
ASSUME KindsAssumption == Kinds \subseteq {"insert", "update", "delete"}
ASSUME RowsAssumption ==
    InitialRows \in Nat /\ MaxRows \in Nat /\ InitialRows <= MaxRows

VARIABLES
    current_start_timestamp,
    start_time,
    commit_id,
    transaction_lock,
    recently_committed,
    phase,          \* program counter of t's connection
    issued,         \* statements begun so far
    statement,      \* kind of the statement t runs
    cursor,         \* next row of t's scan
    ids,            \* row identifiers a statement of t found
    todo,           \* those of them that are not yet pushed
    data, deleted, count,   \* the chunk: columns, deleted flags, rows in use
    chain,          \* version_pointers: each row's versions, newest first
    undo,           \* entries of each undo buffer: a row and the data saved
    stamped,        \* entries that carry the commit id
    exclusive_lock, readers,
    writes,         \* history: what t made of a row, Unwritten if nothing
    clobbered       \* history: rows whose committed delete was written over

transactions == <<current_start_timestamp, start_time, commit_id,
                  transaction_lock, recently_committed>>
statements   == <<issued, statement, cursor, ids, todo>>
table        == <<data, deleted, count, chain>>
locks        == <<exclusive_lock, readers>>
history      == <<writes, clobbered>>
vars == <<transactions, phase, statements, table, undo, stamped, locks, history>>

Row == 1..MaxRows
Unwritten == "unwritten"
NoData == "no data"     \* tuple_data of an inserted row's version
Data == Tx \cup {Loaded}
ASSUME DataAssumption == Dead # Unwritten /\ {Dead, Unwritten, NoData} \cap Data = {}

Running == {"ready", "scanning", "locking", "writing", "failed"}
Ending  == {"stamping", "undoing", "cleaning"}

ClockTypeOK ==
    /\ current_start_timestamp \in Nat
    /\ start_time \in [Tx -> Nat]
    /\ commit_id \in [Tx -> Nat]
    /\ transaction_lock \in Tx \cup {NoTx}
    /\ recently_committed \in Seq(Tx)
    /\ phase \in [Tx -> Running \cup Ending \cup {"idle", "done"}]

StatementTypeOK ==
    /\ issued \in 0..MaxStatements
    /\ statement \in [Tx -> Kinds \cup {"none"}]
    /\ cursor \in [Tx -> 1..MaxRows + 1]
    /\ ids \in [Tx -> SUBSET Row]
    /\ todo \in [Tx -> SUBSET Row]
    /\ exclusive_lock \in Tx \cup {NoTx}
    /\ readers \subseteq Tx

TableTypeOK ==
    /\ data \in [Row -> Data]
    /\ deleted \in [Row -> BOOLEAN]
    /\ count \in 0..MaxRows
    /\ chain \in [Row -> Seq(Tx \X Nat)]
    /\ undo \in [Tx -> Seq([row : Row, saved : Data \cup {NoData}])]
    /\ stamped \in [Tx -> Nat]

HistoryTypeOK ==
    /\ writes \in [Tx -> [Row -> Data \cup {Dead, Unwritten}]]
    /\ clobbered \subseteq Row

TypeOK == ClockTypeOK /\ StatementTypeOK /\ TableTypeOK /\ HistoryTypeOK

Init ==
    /\ current_start_timestamp = 2
    /\ start_time = [t \in Tx |-> 0]
    /\ commit_id = [t \in Tx |-> 0]
    /\ transaction_lock = NoTx
    /\ recently_committed = << >>
    /\ phase = [t \in Tx |-> "idle"]
    /\ issued = 0
    /\ statement = [t \in Tx |-> "none"]
    /\ cursor = [t \in Tx |-> 1]
    /\ ids = [t \in Tx |-> {}]
    /\ todo = [t \in Tx |-> {}]
    /\ data = [r \in Row |-> Loaded]
    /\ deleted = [r \in Row |-> FALSE]
    /\ count = InitialRows
    /\ chain = [r \in Row |-> << >>]
    /\ undo = [t \in Tx |-> << >>]
    /\ stamped = [t \in Tx |-> 0]
    /\ exclusive_lock = NoTx
    /\ readers = {}
    /\ writes = [t \in Tx |-> [r \in Row |-> Unwritten]]
    /\ clobbered = {}

-----------------------------------------------------------------------------
(* Reading a row. *)

Uncommitted(v) == v[2] > stamped[v[1]]
Saved(v) == undo[v[1]][v[2]].saved

\* Scan's test of a version: its reader's own, or committed before it started.
Sees(t, v) == IF Uncommitted(v) THEN v[1] = t ELSE commit_id[v[1]] < start_time[t]

\* Row r for a reader of the versions vs who sees some of them: what is in the
\* table if the newest is one of these, otherwise what the last version saved
\* that has one of these, or nothing, behind it.
ReadAlong(r, vs, seen) ==
    LET k == CHOOSE k \in 0..Len(vs) :
                /\ \A j \in 1..k : vs[j] \notin seen
                /\ k < Len(vs) => vs[k + 1] \in seen
    IN IF k = 0
       THEN IF deleted[r] \/ r > count THEN Dead ELSE data[r]
       ELSE IF Saved(vs[k]) = NoData THEN Dead ELSE Saved(vs[k])

Versions(r) == ToSet(chain[r])

Read(t, r) == ReadAlong(r, chain[r], {v \in Versions(r) : Sees(t, v)})

-----------------------------------------------------------------------------
(* Statements. *)

Goto(t, p) == phase' = [phase EXCEPT ![t] = p]

EndStatement(t, p) ==
    /\ statement' = [statement EXCEPT ![t] = "none"]
    /\ ids' = [ids EXCEPT ![t] = {}]
    /\ todo' = [todo EXCEPT ![t] = {}]
    /\ Goto(t, p)

StartTransaction(t) ==
    /\ phase[t] = "idle"
    /\ transaction_lock = NoTx
    /\ start_time' = [start_time EXCEPT ![t] = current_start_timestamp]
    /\ current_start_timestamp' = current_start_timestamp + 1
    /\ Goto(t, "ready")
    /\ UNCHANGED <<commit_id, transaction_lock, recently_committed, statements,
                   table, undo, stamped, locks, history>>

\* An UPDATE or DELETE first scans the chunk under the shared lock.
BeginScan(t, kind) ==
    /\ phase[t] = "ready"
    /\ kind \in Kinds \ {"insert"}
    /\ issued < MaxStatements
    /\ exclusive_lock = NoTx
    /\ issued' = issued + 1
    /\ statement' = [statement EXCEPT ![t] = kind]
    /\ readers' = readers \cup {t}
    /\ Goto(t, "scanning")
    /\ UNCHANGED <<transactions, cursor, ids, todo, table, undo, stamped,
                   exclusive_lock, history>>

\* A row the reader finds may or may not satisfy the WHERE clause.
ScanRow(t) ==
    /\ phase[t] = "scanning"
    /\ cursor[t] <= count
    /\ ids' \in {ids, [ids EXCEPT ![t] = @ \cup {cursor[t]}]}
    /\ ids' # ids => Read(t, cursor[t]) # Dead
    /\ cursor' = [cursor EXCEPT ![t] = @ + 1]
    /\ UNCHANGED <<transactions, phase, issued, statement, todo, table, undo,
                   stamped, locks, history>>

EndScan(t) ==
    /\ phase[t] = "scanning"
    /\ cursor[t] > count
    /\ readers' = readers \ {t}
    /\ cursor' = [cursor EXCEPT ![t] = 1]
    /\ \/ /\ ids[t] = {}
          /\ EndStatement(t, "ready")
       \/ /\ ids[t] # {}
          /\ Goto(t, "locking")
          /\ UNCHANGED <<statement, ids, todo>>
    /\ UNCHANGED <<transactions, issued, table, undo, stamped, exclusive_lock, history>>

\* The identifiers come from an unlocked past: other statements may have run.
LockChunk(t) ==
    /\ phase[t] = "locking"
    /\ exclusive_lock = NoTx
    /\ readers = {}
    /\ exclusive_lock' = t
    /\ todo' = [todo EXCEPT ![t] = ids[t]]
    /\ Goto(t, "writing")
    /\ UNCHANGED <<transactions, issued, statement, cursor, ids, table, undo,
                   stamped, readers, history>>

\* Mutant of Conflicts: writers do not look at the newest version.
NeverConflicts(t, r) == FALSE

Conflicts(t, r) ==
    chain[r] # << >> /\ Uncommitted(Head(chain[r])) /\ Head(chain[r])[1] # t

\* Mutant of Push: the new version goes behind the others.
PushBehind(t, r, saved) ==
    /\ undo' = [undo EXCEPT ![t] = Append(@, [row |-> r, saved |-> saved])]
    /\ chain' = [chain EXCEPT ![r] = Append(@, <<t, Len(undo[t]) + 1>>)]

\* Transaction::PushTuple: the row's data is saved, the deleted flag is not.
Push(t, r, saved) ==
    /\ undo' = [undo EXCEPT ![t] = Append(@, [row |-> r, saved |-> saved])]
    /\ chain' = [chain EXCEPT ![r] = <<<<t, Len(undo[t]) + 1>>>> \o @]

\* What the transactions committed so far made of row r, for one that starts
\* at time start.
Committed(start, r) ==
    LET writers == {u \in Tx : /\ commit_id[u] \in 1..start - 1
                               /\ writes[u][r] # Unwritten}
        last == CHOOSE u \in writers : \A w \in writers : commit_id[w] <= commit_id[u]
    IN IF writers # {} THEN writes[last][r]
       ELSE IF r <= InitialRows THEN Loaded ELSE Dead

\* One round of the loop in Delete, or of the first loop in Update.  A scan
\* delivers the rows that had another version first, so any order may occur.
PushRow(t, r) ==
    /\ phase[t] = "writing"
    /\ r \in todo[t]
    /\ ~Conflicts(t, r)
    /\ Push(t, r, data[r])
    /\ todo' = [todo EXCEPT ![t] = @ \ {r}]
    /\ \/ /\ statement[t] = "delete"
          /\ deleted' = [deleted EXCEPT ![r] = TRUE]
          /\ writes' = [writes EXCEPT ![t][r] = Dead]
       \/ /\ statement[t] = "update"
          /\ UNCHANGED <<deleted, writes>>
    /\ clobbered' = IF Committed(current_start_timestamp, r) = Dead
                       /\ writes[t][r] = Unwritten
                    THEN clobbered \cup {r} ELSE clobbered
    /\ UNCHANGED <<transactions, phase, issued, statement, cursor, ids, data, count,
                   stamped, locks>>

\* The exception leaves the function with the exclusive lock held and what was
\* pushed so far in place; the data of an UPDATE has not been touched.
ThrowConflict(t) ==
    /\ phase[t] = "writing"
    /\ \E r \in todo[t] : Conflicts(t, r)
    /\ EndStatement(t, IF AutoCommit THEN "failed" ELSE "ready")
    /\ UNCHANGED <<transactions, issued, cursor, table, undo, stamped, locks, history>>

\* The second loop of Update overwrites the data; then the lock is released.
FinishStatement(t) ==
    /\ phase[t] = "writing"
    /\ todo[t] = {}
    /\ \/ /\ statement[t] = "update"
          /\ data' = [r \in Row |-> IF r \in ids[t] THEN t ELSE data[r]]
          /\ writes' = [writes EXCEPT ![t] =
                          [r \in Row |-> IF r \in ids[t] THEN t ELSE @[r]]]
       \/ /\ statement[t] = "delete"
          /\ UNCHANGED <<data, writes>>
    /\ EndStatement(t, "ready")
    /\ exclusive_lock' = NoTx
    /\ UNCHANGED <<transactions, issued, cursor, deleted, count, chain, undo, stamped,
                   readers, clobbered>>

\* Mutant of Insert: the last row of the chunk is counted wrongly.
InsertPastEnd(t) ==
    /\ phase[t] = "ready"
    /\ "insert" \in Kinds
    /\ count <= MaxRows
    /\ Push(t, count + 1, NoData)
    /\ count' = count + 1
    /\ UNCHANGED <<transactions, phase, statements, data, deleted, stamped, locks,
                   history>>

\* Append: the new row gets a version without data, "so other transactions see
\* the deleted entries before these changes are committed".
Insert(t) ==
    /\ phase[t] = "ready"
    /\ "insert" \in Kinds
    /\ issued < MaxStatements
    /\ count < MaxRows
    /\ exclusive_lock = NoTx
    /\ readers = {}
    /\ issued' = issued + 1
    /\ Push(t, count + 1, NoData)
    /\ data' = [data EXCEPT ![count + 1] = t]
    /\ count' = count + 1
    /\ writes' = [writes EXCEPT ![t][count + 1] = t]
    /\ UNCHANGED <<transactions, phase, statement, cursor, ids, todo, deleted,
                   stamped, locks, clobbered>>

-----------------------------------------------------------------------------
(* The end of a transaction. *)

CommitTransaction(t) ==
    /\ phase[t] = "ready"
    /\ transaction_lock = NoTx
    /\ transaction_lock' = t
    /\ commit_id' = [commit_id EXCEPT ![t] = current_start_timestamp]
    /\ current_start_timestamp' = current_start_timestamp + 1
    /\ Goto(t, "stamping")
    /\ UNCHANGED <<start_time, recently_committed, statements, table, undo, stamped,
                   locks, history>>

\* UndoBuffer::Commit, one entry.
StampEntry(t) ==
    /\ phase[t] = "stamping"
    /\ stamped[t] < Len(undo[t])
    /\ stamped' = [stamped EXCEPT ![t] = @ + 1]
    /\ UNCHANGED <<transactions, phase, statements, table, undo, locks, history>>

RollbackTransaction(t) ==
    /\ phase[t] \in {"ready", "failed"}
    /\ transaction_lock = NoTx
    /\ transaction_lock' = t
    /\ Goto(t, "undoing")
    /\ UNCHANGED <<current_start_timestamp, start_time, commit_id, recently_committed,
                   statements, table, undo, stamped, locks, history>>

\* The versions around v are linked with each other.
Unlink(r, v) ==
    LET k == CHOOSE k \in 1..Len(chain[r]) : chain[r][k] = v
    IN chain' = [chain EXCEPT ![r] = RemoveAt(@, k)]

\* Mutant of Restore: the data comes back, the deleted flag stays.
RestoreData(e) ==
    /\ data' = IF e.saved = NoData THEN data ELSE [data EXCEPT ![e.row] = e.saved]
    /\ UNCHANGED deleted

\* StorageChunk::Undo of the newest version of a row, with undo entry e.
Restore(e) ==
    \/ /\ e.saved = NoData
       /\ deleted' = [deleted EXCEPT ![e.row] = TRUE]
       /\ UNCHANGED data
    \/ /\ e.saved # NoData
       /\ deleted' = [deleted EXCEPT ![e.row] = FALSE]
       /\ data' = [data EXCEPT ![e.row] = e.saved]

\* UndoBuffer::Rollback, the last entry that is left.  The newest version of a
\* row goes back into the chunk; any other just leaves the chain.
UndoEntry(t) ==
    /\ phase[t] = "undoing"
    /\ undo[t] # << >>
    /\ LET i == Len(undo[t])
           e == undo[t][i]
       IN /\ Unlink(e.row, <<t, i>>)
          /\ \/ Head(chain[e.row]) = <<t, i>> /\ Restore(e)
             \/ Head(chain[e.row]) # <<t, i>> /\ UNCHANGED <<data, deleted>>
    /\ undo' = [undo EXCEPT ![t] = Front(@)]
    /\ UNCHANGED <<transactions, phase, statements, count, stamped, locks, history>>

\* RemoveTransaction, up to its garbage collection.
BeginRemove(t) ==
    /\ \/ /\ phase[t] = "stamping"
          /\ stamped[t] = Len(undo[t])
          /\ recently_committed' = Append(recently_committed, t)
       \/ /\ phase[t] = "undoing"
          /\ undo[t] = << >>
          /\ UNCHANGED recently_committed
    /\ Goto(t, "cleaning")
    /\ UNCHANGED <<current_start_timestamp, start_time, commit_id, transaction_lock,
                   statements, table, undo, stamped, locks, history>>

Active == {t \in Tx : phase[t] \in Running}

\* Mutant of Cleanable: active transactions are not looked at.
CleanableAny == recently_committed # << >>

Cleanable ==
    /\ recently_committed # << >>
    /\ \A t \in Active : commit_id[Head(recently_committed)] < start_time[t]

Linked(u) == {i \in 1..Len(undo[u]) : Contains(chain[undo[u][i].row], <<u, i>>)}

\* UndoBuffer::Cleanup of the oldest commit, one entry.
CleanupEntry(t) ==
    /\ phase[t] = "cleaning"
    /\ Cleanable
    /\ LET u == Head(recently_committed) IN
        \E i \in Linked(u) :
            /\ \A j \in Linked(u) : i <= j
            /\ Unlink(undo[u][i].row, <<u, i>>)
    /\ UNCHANGED <<transactions, phase, statements, data, deleted, count, undo,
                   stamped, locks, history>>

CleanupDone(t) ==
    /\ phase[t] = "cleaning"
    /\ Cleanable
    /\ Linked(Head(recently_committed)) = {}
    /\ recently_committed' = Tail(recently_committed)
    /\ UNCHANGED <<current_start_timestamp, start_time, commit_id, transaction_lock,
                   phase, statements, table, undo, stamped, locks, history>>

EndRemove(t) ==
    /\ phase[t] = "cleaning"
    /\ ~Cleanable
    /\ transaction_lock' = NoTx
    /\ Goto(t, "done")
    /\ UNCHANGED <<current_start_timestamp, start_time, commit_id, recently_committed,
                   statements, table, undo, stamped, locks, history>>

Next ==
    \E t \in Tx :
        \/ StartTransaction(t)
        \/ \E kind \in Kinds : BeginScan(t, kind)
        \/ ScanRow(t) \/ EndScan(t) \/ LockChunk(t)
        \/ \E r \in Row : PushRow(t, r)
        \/ ThrowConflict(t) \/ FinishStatement(t) \/ Insert(t)
        \/ CommitTransaction(t) \/ StampEntry(t)
        \/ RollbackTransaction(t) \/ UndoEntry(t)
        \/ BeginRemove(t) \/ CleanupEntry(t) \/ CleanupDone(t) \/ EndRemove(t)

Spec == Init /\ [][Next]_vars

-----------------------------------------------------------------------------
(* Properties. *)

\* Rows that an UPDATE of t has pushed and not, or as it failed never, overwritten.
HalfUpdated(t) ==
    {r \in Row : /\ writes[t][r] = Unwritten
                 /\ chain[r] # << >>
                 /\ Head(chain[r])[1] = t}

\* A running transaction reads its own writes, and of every other row what was
\* committed when it started, whatever is stamped, undone, cleaned up or
\* written over meanwhile.  Two kinds of row are exempt: those whose committed
\* delete was written over, and those a failed UPDATE left half done.
ReadsSnapshot ==
    \A t \in Active : phase[t] \in {"ready", "scanning"} =>
        \A r \in Row \ (clobbered \cup HalfUpdated(t)) :
            Read(t, r) = IF writes[t][r] # Unwritten THEN writes[t][r]
                         ELSE Committed(start_time[t], r)

\* What a transaction reads that starts now.
Newest(r) == ReadAlong(r, chain[r], {v \in Versions(r) : ~Uncommitted(v)})

\* A transaction that starts now reads exactly what has been committed:
\* commits are complete, rollbacks leave no trace, and cleaning up loses
\* nothing.  Rows whose committed delete was written over are exempt.
NewestIsCommitted ==
    transaction_lock = NoTx =>
        \A r \in Row \ clobbered : Newest(r) = Committed(current_start_timestamp, r)

\* What the walk along version pointers in Scan relies on: versions of one
\* unfinished transaction at most, in front of stamped ones whose commit ids
\* decrease, each an entry that its undo buffer still has for this row.
ChainOrdered ==
    \A r \in Row : \A i \in 1..Len(chain[r]) :
        LET v == chain[r][i] IN
        /\ v[2] <= Len(undo[v[1]])
        /\ undo[v[1]][v[2]].row = r
        /\ \A j \in i + 1..Len(chain[r]) :
            LET w == chain[r][j] IN
            \/ w[1] = v[1] /\ w[2] < v[2]
            \/ ~Uncommitted(w) /\ (Uncommitted(v) \/ commit_id[w[1]] < commit_id[v[1]])

-----------------------------------------------------------------------------
(* While nothing is deleted and a failed statement ends its transaction, the *)
(* table implements SnapshotIsolation.                                      *)

\* Committed to an observer from the moment the commit id is drawn.
Store(r) == ReadAlong(r, chain[r], {v \in Versions(r) : commit_id[v[1]] # 0})

\* An UPDATE takes effect when it overwrites the data, not when it pushes.
View(t, r) ==
    ReadAlong(r, IF r \in HalfUpdated(t) THEN Tail(chain[r]) ELSE chain[r],
              {v \in Versions(r) : Sees(t, v)})

Status(t) ==
    CASE phase[t] = "idle" -> "idle"
      [] phase[t] \in Running -> "running"
      [] OTHER -> "ended"

SI == INSTANCE SnapshotIsolation WITH
    Value <- Data,
    store <- [r \in Row |-> Store(r)],
    status <- [t \in Tx |-> Status(t)],
    view <- [t \in Tx |-> [r \in Row |->
                IF Status(t) = "running" THEN View(t, r) ELSE Dead]],
    dirty <- [t \in Tx |->
                {r \in Row : Status(t) = "running" /\ writes[t][r] # Unwritten}]

\* The steps of scans, statements, commits, rollbacks and cleanups are steps
\* of the abstract table, or change nothing in it.
ImplementsSnapshotIsolation == SI!Spec
=============================================================================
