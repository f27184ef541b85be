------------------------------ MODULE TableLocks ------------------------------
(***************************************************************************)
(* The locks of a table: one mutex and reader count per chunk, the mutex   *)
(* of its index, and the unprotected tail pointer.  Appends fill the tail  *)
(* chunk and add the next one; updates and deletes hold the chunk of their *)
(* rows; scans share one chunk after the other; a statement that puts a    *)
(* key into the index compares it with rows of any chunk.                  *)
(*                                                                         *)
(* What the rows and keys hold is left open: which chunk has an equal key, *)
(* whether the keys or the versions conflict.  Rows are their identifiers. *)
(***************************************************************************)
EXTENDS Integers, FiniteSets, Sequences

CONSTANTS
    Thread,         \* connections, each with one statement at a time
    NoThread,
    ChunkSize,      \* STORAGE_CHUNK_SIZE
    VectorSize,     \* STANDARD_VECTOR_SIZE
    InitialRows,    \* rows at the start
    MaxChunks,      \* bound on the chunks
    MaxStatements   \* bound on the statements of a run

ASSUME ThreadAssumption == NoThread \notin Thread
ASSUME SizeAssumption ==
    /\ VectorSize \in Nat \ {0} /\ ChunkSize \in Nat \ {0} /\ ChunkSize % VectorSize = 0
    /\ InitialRows \in Nat \ {0}
    /\ MaxChunks \in Nat \ {0} /\ MaxStatements \in Nat
    /\ InitialRows + VectorSize * MaxStatements <= ChunkSize * MaxChunks

VARIABLES
    chunks,         \* chunks in the list
    tail_chunk,
    start, count,   \* of each chunk
    exclusive_lock, \* the holder of each chunk's mutex
    read_count,
    index_lock,
    pc,
    issued,         \* statements begun so far
    kind,           \* of the statement that t runs
    chunk,          \* last_chunk, chunk or structure.chunk; 0 for nullptr
    left,           \* rows that an append has still to place
    current_count,  \* of them, those that it writes to its chunk
    offset,         \* of a scan in its chunk
    key_chunk,      \* where AddEntry found an equal key
    taken,          \* history: AddEntry took the shared lock of key_chunk
    placed,         \* history: identifiers of the rows written
    appended,       \* history: how many rows were written
    expected,       \* history: the rows of the table when a scan began
    seen,           \* history: the rows a scan has read, in order
    spoiled         \* history: what went wrong with the locks

list  == <<chunks, tail_chunk, start, count>>
locks == <<exclusive_lock, read_count, index_lock>>
key   == <<key_chunk, taken>>
rows  == <<placed, appended>>
scans == <<offset, expected, seen>>
parts == <<left, current_count>>
vars == <<list, locks, pc, issued, kind, chunk, parts, key, rows, scans, spoiled>>

Chunk == 1..MaxChunks

\* From the end of GetExclusiveLock to ReleaseExclusiveLock.
Inside == {"checking", "indexing", "comparing", "sharing", "compared", "writing",
           "counting", "extending", "filling", "releasing"}

ListTypeOK ==
    /\ chunks \in Chunk /\ tail_chunk \in 1..chunks
    /\ start \in [Chunk -> Nat]
    /\ count \in [Chunk -> Nat]

LockTypeOK ==
    /\ exclusive_lock \in [Chunk -> Thread \cup {NoThread}]
    /\ read_count \in [Chunk -> Int]
    /\ index_lock \in Thread \cup {NoThread}

StatementTypeOK ==
    /\ pc \in [Thread -> Inside \cup {"idle", "locking", "draining", "scanning", "reading",
                                      "scanned"}]
    /\ issued \in 0..MaxStatements
    /\ kind \in [Thread -> {"none", "append", "update", "delete", "scan"}]
    /\ chunk \in [Thread -> 0..chunks]
    /\ left \in [Thread -> 0..VectorSize]
    /\ current_count \in [Thread -> 0..VectorSize]
    /\ offset \in [Thread -> Nat]
    /\ key_chunk \in [Thread -> 0..chunks]
    /\ taken \in [Thread -> BOOLEAN]

HistoryTypeOK ==
    /\ placed \in SUBSET Nat
    /\ appended \in Nat
    /\ expected \in [Thread -> SUBSET Nat]
    /\ seen \in [Thread -> Seq(Nat)]
    /\ spoiled \subseteq {"unlocked", "unbalanced", "leaked", "abandoned"}

TypeOK == ListTypeOK /\ LockTypeOK /\ StatementTypeOK /\ HistoryTypeOK

InitialChunks == (InitialRows + ChunkSize - 1) \div ChunkSize

\* A table that was filled by one connection.
Init ==
    /\ chunks = InitialChunks /\ tail_chunk = InitialChunks
    /\ start = [c \in Chunk |-> IF c <= InitialChunks THEN ChunkSize * (c - 1) ELSE 0]
    /\ count = [c \in Chunk |-> IF c < InitialChunks THEN ChunkSize
                                ELSE IF c > InitialChunks THEN 0
                                ELSE InitialRows - ChunkSize * (c - 1)]
    /\ exclusive_lock = [c \in Chunk |-> NoThread]
    /\ read_count = [c \in Chunk |-> 0]
    /\ index_lock = NoThread
    /\ pc = [t \in Thread |-> "idle"]
    /\ issued = 0
    /\ kind = [t \in Thread |-> "none"]
    /\ chunk = [t \in Thread |-> 0]
    /\ left = [t \in Thread |-> 0]
    /\ current_count = [t \in Thread |-> 0]
    /\ offset = [t \in Thread |-> 0]
    /\ key_chunk = [t \in Thread |-> 0]
    /\ taken = [t \in Thread |-> FALSE]
    /\ placed = 0..InitialRows - 1
    /\ appended = InitialRows
    /\ expected = [t \in Thread |-> {}]
    /\ seen = [t \in Thread |-> << >>]
    /\ spoiled = {}

RowsOf(c) == start[c]..start[c] + count[c] - 1
TableRows == UNION {RowsOf(c) : c \in 1..chunks}

Goto(t, p) == pc' = [pc EXCEPT ![t] = p]

Begin(t, k, c, p) ==
    /\ pc[t] = "idle"
    /\ issued < MaxStatements
    /\ issued' = issued + 1
    /\ kind' = [kind EXCEPT ![t] = k]
    /\ chunk' = [chunk EXCEPT ![t] = c]
    /\ Goto(t, p)

\* The locals of the statement are gone.
End(t) ==
    /\ Goto(t, "idle")
    /\ kind' = [kind EXCEPT ![t] = "none"]
    /\ chunk' = [chunk EXCEPT ![t] = 0]
    /\ left' = [left EXCEPT ![t] = 0]
    /\ current_count' = [current_count EXCEPT ![t] = 0]
    /\ key_chunk' = [key_chunk EXCEPT ![t] = 0]
    /\ taken' = [taken EXCEPT ![t] = FALSE]
    /\ offset' = [offset EXCEPT ![t] = 0]
    /\ expected' = [expected EXCEPT ![t] = {}]
    /\ seen' = [seen EXCEPT ![t] = << >>]

-----------------------------------------------------------------------------
(* The exclusive lock. *)

\* Append reads tail_chunk without a lock.
BeginAppend(t) ==
    /\ Begin(t, "append", tail_chunk, "locking")
    /\ \E n \in 1..VectorSize : left' = [left EXCEPT ![t] = n]
    /\ UNCHANGED <<list, locks, current_count, key, rows, scans, spoiled>>

\* Update and Delete: GetChunk finds the chunk of rows that were scanned.
BeginChange(t, k, c) ==
    /\ c <= chunks /\ count[c] > 0
    /\ Begin(t, k, c, "locking")
    /\ UNCHANGED <<list, locks, parts, key, rows, scans, spoiled>>

Lock(t) ==
    /\ pc[t] = "locking"
    /\ exclusive_lock[chunk[t]] = NoThread
    /\ exclusive_lock' = [exclusive_lock EXCEPT ![chunk[t]] = t]
    /\ Goto(t, "draining")
    /\ UNCHANGED <<list, read_count, index_lock, issued, kind, chunk, parts, key, rows,
                   scans, spoiled>>

\* Mutant of Drained: the writer does not wait for the scans that came first.
NotDrained(t) == TRUE

Drained(t) == read_count[chunk[t]] = 0

\* The index is asked by appends, and by updates of its columns.
Drain(t) ==
    /\ pc[t] = "draining"
    /\ Drained(t)
    /\ \/ kind[t] = "append" /\ Goto(t, "checking")
       \/ kind[t] = "update" /\ Goto(t, "indexing")
       \/ kind[t] \in {"update", "delete"} /\ Goto(t, "writing")
    /\ UNCHANGED <<list, locks, issued, kind, chunk, parts, key, rows, scans, spoiled>>

\* "new chunk was added, have to obtain lock of last chunk".  But continue
\* leaves do ... while (false), and the append goes on without.
CheckTail(t) ==
    /\ pc[t] = "checking"
    /\ \/ /\ chunk[t] = tail_chunk
          /\ UNCHANGED <<exclusive_lock, chunk, spoiled>>
       \/ /\ chunk[t] # tail_chunk
          /\ exclusive_lock' = [exclusive_lock EXCEPT ![chunk[t]] = NoThread]
          /\ chunk' = [chunk EXCEPT ![t] = tail_chunk]
          /\ spoiled' = spoiled \cup {"unlocked"}
    /\ Goto(t, "indexing")
    /\ UNCHANGED <<list, read_count, index_lock, issued, kind, parts, key, rows, scans>>

-----------------------------------------------------------------------------
(* UniqueIndex::AddEntries, on a table with one index. *)

LockIndex(t) ==
    /\ pc[t] = "indexing"
    /\ index_lock = NoThread
    /\ index_lock' = t
    /\ Goto(t, "comparing")
    /\ UNCHANGED <<list, exclusive_lock, read_count, issued, kind, chunk, parts, key, rows,
                   scans, spoiled>>

\* The tree has no equal key.
NoEqualKey(t) ==
    /\ pc[t] = "comparing"
    /\ index_lock' = NoThread
    /\ Goto(t, "writing")
    /\ UNCHANGED <<list, exclusive_lock, read_count, issued, kind, chunk, parts, key, rows,
                   scans, spoiled>>

\* Bound: one row with an equal key is compared, and it is counted.  For a key
\* of rows that are still being appended GetChunk returns nullptr, which is
\* dereferenced.
EqualKey(t, c) ==
    /\ pc[t] = "comparing"
    /\ c <= chunks /\ count[c] > 0
    /\ key_chunk' = [key_chunk EXCEPT ![t] = c]
    /\ Goto(t, "sharing")
    /\ UNCHANGED <<list, locks, issued, kind, chunk, parts, taken, rows, scans, spoiled>>

\* "We only need to lock chunks that are not the last."
ShareKeyChunk(t) ==
    /\ pc[t] = "sharing"
    /\ \/ /\ key_chunk[t] # tail_chunk
          /\ exclusive_lock[key_chunk[t]] = NoThread
          /\ read_count' = [read_count EXCEPT ![key_chunk[t]] = @ + 1]
          /\ taken' = [taken EXCEPT ![t] = TRUE]
       \/ key_chunk[t] = tail_chunk /\ UNCHANGED <<read_count, taken>>
    /\ Goto(t, "compared")
    /\ UNCHANGED <<list, exclusive_lock, index_lock, issued, kind, chunk, parts, key_chunk,
                   rows, scans, spoiled>>

\* The comparison finds a conflict: the shared lock is given back if the chunk
\* is not the last now, and the statement ends with an exception.
KeyConflict(t) ==
    /\ pc[t] = "compared"
    /\ IF key_chunk[t] # tail_chunk
       THEN /\ read_count' = [read_count EXCEPT ![key_chunk[t]] = @ - 1]
            /\ spoiled' = IF taken[t] THEN spoiled ELSE spoiled \cup {"unbalanced"}
       ELSE UNCHANGED <<read_count, spoiled>>
    /\ index_lock' = NoThread
    /\ exclusive_lock' = [exclusive_lock EXCEPT ![chunk[t]] = NoThread]
    /\ End(t)
    /\ UNCHANGED <<list, issued, rows>>

\* No conflict: AddEntry walks on, and the shared lock stays.
NoKeyConflict(t) ==
    /\ pc[t] = "compared"
    /\ index_lock' = NoThread
    /\ spoiled' = IF taken[t] THEN spoiled \cup {"leaked"} ELSE spoiled
    /\ key_chunk' = [key_chunk EXCEPT ![t] = 0]
    /\ taken' = [taken EXCEPT ![t] = FALSE]
    /\ Goto(t, "writing")
    /\ UNCHANGED <<list, exclusive_lock, read_count, issued, kind, chunk, parts, rows, scans>>

-----------------------------------------------------------------------------
(* Writing. *)

\* Update and Delete on the rows of the chunk.  Bound: no assertions.  The one
\* "that all ids in the vector belong to the same chunk" fails in every chunk
\* but the first, as start is subtracted before it is compared.
WriteVersions(t) ==
    /\ pc[t] = "writing"
    /\ kind[t] \in {"update", "delete"}
    /\ Goto(t, "releasing")
    /\ UNCHANGED <<list, locks, issued, kind, chunk, parts, key, rows, scans, spoiled>>

\* A version of another running transaction: the exception leaves the lock.
VersionConflict(t) ==
    /\ pc[t] = "writing"
    /\ kind[t] \in {"update", "delete"}
    /\ spoiled' = spoiled \cup {"abandoned"}
    /\ End(t)
    /\ UNCHANGED <<list, locks, issued, rows>>

\* How many rows fit.  The subtraction wraps in a chunk filled over its size;
\* only appends without the lock get there, and are not followed.
Fitting(t) ==
    LET room == ChunkSize - count[chunk[t]] IN IF room < left[t] THEN room ELSE left[t]

Place(ids) ==
    /\ placed' = placed \cup ids
    /\ appended' = appended + Cardinality(ids)

FreeRows(t) ==
    LET first == start[chunk[t]] + count[chunk[t]] IN first..first + Fitting(t) - 1

\* Version pointers and data of the rows that fit.
WriteRows(t) ==
    /\ pc[t] = "writing"
    /\ kind[t] = "append"
    /\ count[chunk[t]] <= ChunkSize
    /\ current_count' = [current_count EXCEPT ![t] = Fitting(t)]
    /\ Place(FreeRows(t))
    /\ Goto(t, "counting")
    /\ UNCHANGED <<list, locks, issued, kind, chunk, left, key, scans, spoiled>>

\* Mutant of CountRows: the rows that do not fit are counted as well.
CountAllRows(t) ==
    /\ pc[t] = "counting"
    /\ count' = [count EXCEPT ![chunk[t]] = @ + left[t]]
    /\ left' = [left EXCEPT ![t] = @ - current_count[t]]
    /\ Goto(t, IF left[t] = current_count[t] THEN "releasing" ELSE "extending")
    /\ UNCHANGED <<chunks, tail_chunk, start, locks, issued, kind, chunk, current_count, key,
                   rows, scans, spoiled>>

CountRows(t) ==
    /\ pc[t] = "counting"
    /\ count' = [count EXCEPT ![chunk[t]] = @ + current_count[t]]
    /\ left' = [left EXCEPT ![t] = @ - current_count[t]]
    /\ Goto(t, IF left[t] = current_count[t] THEN "releasing" ELSE "extending")
    /\ UNCHANGED <<chunks, tail_chunk, start, locks, issued, kind, chunk, current_count, key,
                   rows, scans, spoiled>>

\* The next chunk, locked before it is linked.  The assertion that there is
\* none yet can fail only without the lock.
AddChunk(t) ==
    /\ pc[t] = "extending"
    /\ chunk[t] = chunks
    /\ chunks < MaxChunks
    /\ LET new == chunks + 1
           first == start[chunk[t]] + count[chunk[t]]
       IN /\ chunks' = new
          /\ tail_chunk' = new
          /\ start' = [start EXCEPT ![new] = first]
          /\ exclusive_lock' = [exclusive_lock EXCEPT ![new] = t]
          /\ Place(first..first + left[t] - 1)
    /\ Goto(t, "filling")
    /\ UNCHANGED <<count, read_count, index_lock, issued, kind, chunk, parts, key, scans,
                   spoiled>>

\* Mutant of FillChunk: the new chunk is not unlocked.
FillLockedChunk(t) ==
    /\ pc[t] = "filling"
    /\ count' = [count EXCEPT ![chunk[t] + 1] = left[t]]
    /\ left' = [left EXCEPT ![t] = 0]
    /\ Goto(t, "releasing")
    /\ UNCHANGED <<chunks, tail_chunk, start, locks, issued, kind, chunk, current_count, key,
                   rows, scans, spoiled>>

FillChunk(t) ==
    /\ pc[t] = "filling"
    /\ count' = [count EXCEPT ![chunk[t] + 1] = left[t]]
    /\ exclusive_lock' = [exclusive_lock EXCEPT ![chunk[t] + 1] = NoThread]
    /\ left' = [left EXCEPT ![t] = 0]
    /\ Goto(t, "releasing")
    /\ UNCHANGED <<chunks, tail_chunk, start, read_count, index_lock, issued, kind, chunk,
                   current_count, key, rows, scans, spoiled>>

\* A mutex is unlocked, whoever holds it.
Release(t) ==
    /\ pc[t] = "releasing"
    /\ exclusive_lock' = [exclusive_lock EXCEPT ![chunk[t]] = NoThread]
    /\ End(t)
    /\ UNCHANGED <<list, read_count, index_lock, issued, rows, spoiled>>

-----------------------------------------------------------------------------
(* Scanning. *)

BeginScan(t) ==
    /\ Begin(t, "scan", 1, "scanning")
    /\ expected' = [expected EXCEPT ![t] = TableRows]
    /\ UNCHANGED <<list, locks, parts, key, rows, offset, seen, spoiled>>

\* GetSharedLock holds the mutex for an instant.
Share(t) ==
    /\ pc[t] = "scanning"
    /\ exclusive_lock[chunk[t]] = NoThread
    /\ read_count' = [read_count EXCEPT ![chunk[t]] = @ + 1]
    /\ Goto(t, "reading")
    /\ UNCHANGED <<list, exclusive_lock, index_lock, issued, kind, chunk, parts, key, rows,
                   scans, spoiled>>

\* The rows of one vector; the unsigned difference wraps.
VectorRows(t) ==
    LET c == chunk[t]
        size == IF offset[t] <= count[c] /\ count[c] - offset[t] < VectorSize
                THEN count[c] - offset[t] ELSE VectorSize
    IN [i \in 1..size |-> start[c] + offset[t] + i - 1]

\* Mutant of NextChunk: next is not compared with nullptr.
NextPointer(c) == c + 1

NextChunk(c) == IF c < chunks THEN c + 1 ELSE 0

\* Mutant of Advance: the offset is kept from chunk to chunk.
AdvanceOnly(t) ==
    LET end == offset[t] + VectorSize IN
    IF end >= count[chunk[t]]
    THEN /\ chunk' = [chunk EXCEPT ![t] = NextChunk(@)]
         /\ UNCHANGED offset
    ELSE /\ offset' = [offset EXCEPT ![t] = end]
         /\ UNCHANGED chunk

Advance(t) ==
    LET end == offset[t] + VectorSize IN
    IF end >= count[chunk[t]]
    THEN /\ chunk' = [chunk EXCEPT ![t] = NextChunk(@)]
         /\ offset' = [offset EXCEPT ![t] = 0]
    ELSE /\ offset' = [offset EXCEPT ![t] = end]
         /\ UNCHANGED chunk

ScanVector(t) ==
    /\ pc[t] = "reading"
    /\ seen' = [seen EXCEPT ![t] = @ \o VectorRows(t)]
    /\ Advance(t)
    /\ read_count' = [read_count EXCEPT ![chunk[t]] = @ - 1]
    /\ Goto(t, IF chunk'[t] = 0 THEN "scanned" ELSE "scanning")
    /\ UNCHANGED <<list, exclusive_lock, index_lock, issued, kind, parts, key, rows, expected,
                   spoiled>>

EndScan(t) ==
    /\ pc[t] = "scanned"
    /\ End(t)
    /\ UNCHANGED <<list, locks, issued, rows, spoiled>>

-----------------------------------------------------------------------------

\* Steps that wait for a mutex.
Acquire(t) == Lock(t) \/ LockIndex(t) \/ ShareKeyChunk(t) \/ Share(t)

\* Steps that a running thread takes by itself; Drain spins.
Proceed(t) ==
    \/ Drain(t) \/ CheckTail(t)
    \/ NoEqualKey(t) \/ (\E c \in Chunk : EqualKey(t, c))
    \/ KeyConflict(t) \/ NoKeyConflict(t)
    \/ WriteVersions(t) \/ VersionConflict(t)
    \/ WriteRows(t) \/ CountRows(t) \/ AddChunk(t) \/ FillChunk(t) \/ Release(t)
    \/ ScanVector(t) \/ EndScan(t)

Next ==
    \E t \in Thread :
        \/ BeginAppend(t)
        \/ \E k \in {"update", "delete"}, c \in Chunk : BeginChange(t, k, c)
        \/ BeginScan(t)
        \/ Acquire(t) \/ Proceed(t)

Spec == Init /\ [][Next]_vars

\* Threads are scheduled.  Nothing is assumed of the order in which they get a
\* mutex: no run has statements enough to overtake a waiting one for ever.
FairSpec == Spec /\ \A t \in Thread : WF_vars(Acquire(t) \/ Proceed(t))

-----------------------------------------------------------------------------
(* Properties. *)

Readers(c) ==
    {t \in Thread : \/ pc[t] = "reading" /\ chunk[t] = c
                    \/ pc[t] = "compared" /\ taken[t] /\ key_chunk[t] = c}

\* While a statement is inside the exclusive lock of a chunk, no other one is,
\* and no scan or key comparison reads the chunk under its shared lock: leaked
\* counts, abandoned locks and growing tables notwithstanding.  Exempt are runs
\* in which an append went on without the lock or a count was released that was
\* never taken.
MutualExclusion ==
    spoiled \cap {"unlocked", "unbalanced"} = {} =>
        \A t \in Thread : pc[t] \in Inside =>
            /\ Readers(chunk[t]) = {}
            /\ \A u \in Thread \ {t} : pc[u] \in Inside => chunk[u] # chunk[t]

\* Every appended row gets a place of its own, and when no append is writing,
\* the chunks number all rows from 0 without a gap: "every chunk besides the
\* last has exactly STORAGE_CHUNK_SIZE elements".
RowsOnce ==
    "unlocked" \notin spoiled =>
        /\ Cardinality(placed) = appended
        /\ (\A t \in Thread : pc[t] \notin {"counting", "extending", "filling"}) =>
               /\ TableRows = 0..appended - 1
               /\ \A c \in 1..chunks - 1 : count[c] = ChunkSize

\* A scan reads every row once, in order, and misses none of those that were in
\* the table when it began, whatever is appended while it runs.
ScanComplete ==
    "unlocked" \notin spoiled =>
        \A t \in Thread :
            /\ \A i \in 1..Len(seen[t]) : seen[t][i] = i - 1
            /\ pc[t] = "scanned" => expected[t] \subseteq {seen[t][i] : i \in 1..Len(seen[t])}

\* A comparison waits for a chunk whose holder is itself or waits for the index.
Deadlocked ==
    \E t \in Thread :
        /\ pc[t] = "sharing"
        /\ key_chunk[t] # tail_chunk
        /\ \E u \in Thread : /\ u = t \/ pc[u] = "indexing"
                             /\ exclusive_lock[key_chunk[t]] = u

\* Every statement ends.  Exempt are the ways in which the code blocks for ever:
\* a version conflict leaves the lock, a comparison leaves its count, an append
\* unlocks what another one holds, and comparisons deadlock.
StatementsEnd ==
    \A t \in Thread :
        pc[t] # "idle" ~> (pc[t] = "idle" \/ spoiled # {} \/ Deadlocked)
=============================================================================
