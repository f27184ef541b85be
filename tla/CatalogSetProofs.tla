--------------------------- MODULE CatalogSetProofs ---------------------------
(***************************************************************************)
(* Proofs about CatalogSet, for every set of transactions and names and    *)
(* every number of statements: types, what lookups find while commits and  *)
(* cleanups go on, that nothing destroyed is used, that chains stay        *)
(* intact and undo meets the newest version, and that nothing is leaked.   *)
(***************************************************************************)
EXTENDS CatalogSet, SequenceTheorems, TLAPS

-----------------------------------------------------------------------------
(* The inductive invariant. *)

Ending == {"committing", "undoing", "cleaning"}     \* holds transaction_lock
Left   == {"cleaning", "done"}                      \* is no active transaction any more
Kept   == Entry \ freed

\* Catalog entries of buffer u whose version has not been cleaned up.
Pending(u) ==
    {i \in 1..Len(undo[u]) : /\ undo[u][i].type = "CATALOG_ENTRY"
                             /\ phase[u] \in Left => i > visited[u]}

\* The clock, the lock and the phases: a commit id is drawn when no transaction
\* can start, and no two are the same.
ClockInv ==
    /\ current_start_timestamp >= 4
    /\ \A t \in Tx :
        /\ phase[t] \in Ending <=> transaction_lock = t
        /\ phase[t] # "idle" => start_time[t] \in 4..current_start_timestamp - 1
        /\ phase[t] \in Running \cup {"idle", "undoing"} => commit_id[t] = 0
        /\ phase[t] = "committing" => commit_id[t] # 0
        /\ commit_id[t] # 0 => commit_id[t] \in 4..current_start_timestamp - 1
        /\ \A u \in Tx \ {t} : commit_id[t] # 0 => commit_id[u] # commit_id[t]
        /\ phase[t] = "committing" =>
               \A u \in Tx : /\ commit_id[u] <= commit_id[t]
                             /\ phase[u] \in Running => start_time[u] < commit_id[t]

\* The list of commits to clean up.
ListInv ==
    /\ \A i \in 1..Len(recently_committed) :
        /\ phase[recently_committed[i]] \in Left
        /\ commit_id[recently_committed[i]] # 0
        /\ \A j \in i + 1..Len(recently_committed) :
            commit_id[recently_committed[i]] < commit_id[recently_committed[j]]
    /\ transaction_lock = NoTx /\ recently_committed # << >> =>
        \E t \in Active : commit_id[recently_committed[1]] >= start_time[t]

\* How far the loops over undo buffers are.
VisitInv ==
    \A t \in Tx :
        /\ visited[t] <= Len(undo[t])
        /\ phase[t] = "idle" => undo[t] = << >>
        /\ phase[t] \in Running \cup {"undoing"} => visited[t] = 0
        /\ phase[t] \in Left /\ commit_id[t] = 0 => undo[t] = << >>
        /\ phase[t] \in Left /\ commit_id[t] # 0 =>
               \/ visited[t] = Len(undo[t])
               \/ \E i \in 1..Len(recently_committed) : recently_committed[i] = t

\* A chain ends at the newest version.
NewestInv ==
    \A n \in Name : data[n] # Nil =>
        data[n] \in Kept /\ heap[data[n]].name = n /\ heap[data[n]].parent = Nil

\* Child and parent pointers are each other's inverse.
LinkInv ==
    \A e \in Kept :
        /\ heap[e].parent = Nil => data[heap[e].name] = e
        /\ heap[e].parent # Nil =>
            /\ heap[e].parent \in Kept
            /\ heap[e].parent > e
            /\ heap[heap[e].parent].child = e
            /\ heap[heap[e].parent].name = heap[e].name
            /\ written_by[heap[e].parent] \in Tx
        /\ heap[e].child # Nil =>
            heap[e].child \in Kept /\ heap[heap[e].child].parent = e

\* Each version but the newest is in an undo buffer: by BufferInv that of the
\* transaction that wrote the next one.
PendingInv ==
    \A e \in Kept : heap[e].parent # Nil =>
        \E u \in Tx : \E i \in Pending(u) : undo[u][i].entry = e

\* What the entries of an undo buffer refer to, in the order of the buffer.
BufferInv ==
    \A u \in Tx : \A i \in Pending(u) :
        /\ undo[u][i].entry \in Kept
        /\ heap[undo[u][i].entry].parent # Nil
        /\ written_by[heap[undo[u][i].entry].parent] = u
        /\ \A j \in Pending(u) :
            i < j => heap[undo[u][i].entry].parent < heap[undo[u][j].entry].parent

\* A version is put in front of one that its writer or an earlier commit wrote.
SuccessionInv ==
    \A u \in Tx : \A i \in Pending(u) :
        LET e == undo[u][i].entry
            w == written_by[e]
        IN  /\ ~WrittenByOther(u, e)
            /\ w \notin {u, NoTx} =>
                   commit_id[w] # 0 /\ (commit_id[u] # 0 => commit_id[w] < commit_id[u])

\* The loop of a commit has stamped what is behind it and nothing else.
StampInv ==
    \A u \in Tx : phase[u] = "committing" =>
        \A i \in Pending(u) :
            heap[heap[undo[u][i].entry].parent].timestamp =
                IF i <= visited[u] THEN commit_id[u] ELSE u

\* Timestamps tell who wrote a version.
WriterInv ==
    \A e \in Kept :
        LET w == written_by[e] IN
        /\ w = NoTx => heap[e].timestamp \in 0..3
        /\ w # NoTx =>
            /\ phase[w] # "idle"
            /\ phase[w] \in Running \cup {"undoing"} => heap[e].timestamp = w
            /\ phase[w] = "committing" => heap[e].timestamp \in {w, commit_id[w]}
            /\ phase[w] \in Left => commit_id[w] # 0 /\ heap[e].timestamp = commit_id[w]

\* The last version of a chain is older than every active transaction.
LastInv ==
    \A e \in Kept : written_by[e] # NoTx /\ heap[e].child = Nil =>
        /\ phase[written_by[e]] \in Left
        /\ \A t \in Active : commit_id[written_by[e]] < start_time[t]

RolledBack(e) ==
    /\ e \in freed /\ written_by[e] \in Tx
    /\ commit_id[written_by[e]] = 0 /\ phase[written_by[e]] \in Left \cup {"undoing"}

\* Between two versions of a chain nothing was ever written but what was rolled
\* back since.
GapInv ==
    /\ \A f \in Entry :
        data[heap[f].name] # Nil /\ (f > data[heap[f].name] => RolledBack(f))
    /\ \A e \in Kept : heap[e].child # Nil =>
        \A f \in Entry : heap[f].name = heap[e].name /\ heap[e].child < f /\ f < e =>
            RolledBack(f)

\* What a lookup, and the statement it is for, hold.
CurrentOf(t) ==
    /\ phase[t] \notin {"lookup", "found"} => current[t] = Nil
    /\ phase[t] = "found" => current[t] # Nil /\ InSnapshot(t, current[t])
    /\ phase[t] \in {"lookup", "found"} =>
        /\ wanted[t] \in [name : Name, use : {"drop", "insert"}]
        /\ current[t] # Nil =>
            /\ current[t] \in Kept /\ heap[current[t]].name = wanted[t].name
            /\ heap[current[t]].parent # Nil => ~InSnapshot(t, heap[current[t]].parent)

\* Where a lookup is, all newer versions are outside its snapshot.
LookupOf(t) ==
    phase[t] = "lookup" =>
        \A f \in Entry : heap[f].name = wanted[t].name /\ f > current[t] => ~InSnapshot(t, f)

CurrentInv == \A t \in Tx : (phase[t] = "lookup" <=> catalog_lock = t) /\ CurrentOf(t)
LookupInv  == \A t \in Tx : LookupOf(t)

ChainInv == NewestInv /\ LinkInv /\ PendingInv /\ BufferInv
TimeInv  == SuccessionInv /\ StampInv /\ WriterInv /\ LastInv

IInv == /\ TypeOK /\ ClockInv /\ ListInv /\ VisitInv
        /\ ChainInv /\ TimeInv /\ GapInv /\ CurrentInv /\ LookupInv

-----------------------------------------------------------------------------
(* Helpers. *)

\* Which steps there are: the clock and the phases of transactions that end
\* change in the first group only.
StatementStep(t) ==
    \/ \E n \in Name : \E use \in {"drop", "insert"} : BeginLookup(t, n, use)
    \/ Walk(t) \/ EndLookup(t)
    \/ \E n \in Name : CreateEntry(t, n)
    \/ DropEntry(t) \/ AppendToTable(t)

LoopStep(t) == CommitEntry(t) \/ UndoEntry(t) \/ CleanupEntry(t)

\* Every step of Next is one of these.
LEMMA Steps ==
    ASSUME Next
    PROVE  \E t \in Tx : \/ StartTransaction(t) \/ CommitTransaction(t)
                         \/ RollbackTransaction(t) \/ BeginRemove(t)
                         \/ CleanupDone(t) \/ EndRemove(t)
                         \/ StatementStep(t) \/ LoopStep(t)
BY DEF Next, StatementStep, LoopStep

\* Statements and loops leave the clock and the lists alone, and move a
\* connection between the phases of a running transaction only.
LEMMA QuietSteps ==
    ASSUME ClockTypeOK, NEW t \in Tx, StatementStep(t) \/ LoopStep(t)
    PROVE  /\ UNCHANGED transactions
           /\ \A u \in Tx \ {t} : phase'[u] = phase[u]
           /\ phase'[t] = phase[t] \/ {phase[t], phase'[t]} \subseteq Running
           /\ phase' \in [Tx -> Running \cup {"idle", "committing", "undoing", "cleaning", "done"}]
<1> USE DEF ClockTypeOK, Running, Goto, transactions
<1>1. ASSUME NEW n \in Name, NEW use \in {"drop", "insert"}, BeginLookup(t, n, use)
      PROVE  phase[t] = "ready" /\ phase' = [phase EXCEPT ![t] = "lookup"] /\ UNCHANGED transactions
  BY <1>1 DEF BeginLookup
<1>2. CASE Walk(t)
  BY <1>2 DEF Walk
<1>3. CASE EndLookup(t)
  <2>1. phase[t] = "lookup" /\ UNCHANGED transactions
    BY <1>3 DEF EndLookup
  <2>2. \/ phase' = [phase EXCEPT ![t] = "ready"] \/ phase' = [phase EXCEPT ![t] = "found"]
    BY <1>3 DEF EndLookup
  <2> QED BY <2>1, <2>2
<1>4. ASSUME NEW n \in Name, CreateEntry(t, n)
      PROVE  UNCHANGED <<transactions, phase>>
  BY <1>4 DEF CreateEntry
<1>5. CASE DropEntry(t)
  <2>1. phase[t] = "found" /\ phase' = [phase EXCEPT ![t] = "ready"] /\ UNCHANGED transactions
    BY <1>5 DEF DropEntry, EndStatement
  <2> QED BY <2>1
<1>6. CASE AppendToTable(t)
  <2>1. phase[t] = "found" /\ phase' = [phase EXCEPT ![t] = "ready"] /\ UNCHANGED transactions
    BY <1>6 DEF AppendToTable, EndStatement
  <2> QED BY <2>1
<1>7. CASE LoopStep(t)
  BY <1>7 DEF LoopStep, CommitEntry, UndoEntry, CleanupEntry
<1> QED BY <1>1, <1>2, <1>3, <1>4, <1>5, <1>6, <1>7 DEF StatementStep

LEMMA ClockInit == Init => ClockTypeOK /\ ClockInv /\ ListInv
<1> SUFFICES ASSUME Init PROVE ClockTypeOK /\ ClockInv /\ ListInv
  OBVIOUS
<1>1. << >> \in Seq(Tx) /\ Len(<< >>) = 0
  BY EmptySeq
<1>2. recently_committed = << >> /\ Len(recently_committed) = 0 /\ transaction_lock = NoTx
  BY <1>1 DEF Init
<1>3. \A t \in Tx : phase[t] = "idle" /\ commit_id[t] = 0
  BY DEF Init
<1>4. ClockTypeOK
  BY <1>1, MaxStatementsAssumption DEF Init, ClockTypeOK
<1>5. ClockInv
  BY <1>2, <1>3, TxAssumption DEF Init, ClockInv, Running, Ending
<1>6. ListInv
  BY <1>2 DEF ListInv
<1> QED BY <1>4, <1>5, <1>6

LEMMA StartClock ==
    ASSUME ClockTypeOK, ClockInv, NEW t \in Tx, StartTransaction(t)
    PROVE  ClockTypeOK' /\ ClockInv'
BY TxAssumption DEF ClockTypeOK, ClockInv, StartTransaction, Goto, Running, Ending

LEMMA CommitClock ==
    ASSUME ClockTypeOK, ClockInv, NEW t \in Tx, CommitTransaction(t)
    PROVE  ClockTypeOK' /\ ClockInv'
<1>1. ClockTypeOK'
  BY DEF ClockTypeOK, CommitTransaction, Goto, Running
<1>2. /\ phase[t] = "ready" /\ transaction_lock = NoTx /\ transaction_lock' = t
      /\ phase'[t] = "committing" /\ \A u \in Tx \ {t} : phase'[u] = phase[u]
      /\ commit_id'[t] = current_start_timestamp
      /\ \A u \in Tx \ {t} : commit_id'[u] = commit_id[u]
      /\ current_start_timestamp' = current_start_timestamp + 1
      /\ start_time' = start_time /\ current_start_timestamp \in Nat
      /\ \A u \in Tx : start_time[u] \in Nat /\ commit_id[u] \in Nat
  BY DEF ClockTypeOK, CommitTransaction, Goto
<1>3. \A u \in Tx : phase'[u] \in Ending <=> transaction_lock' = u
  BY <1>2, TxAssumption DEF ClockInv, Ending
<1> QED BY <1>1, <1>2, <1>3, TxAssumption DEF ClockInv, Running, Ending

LEMMA RollbackClock ==
    ASSUME ClockTypeOK, ClockInv, NEW t \in Tx, RollbackTransaction(t)
    PROVE  ClockTypeOK' /\ ClockInv'
BY TxAssumption DEF ClockTypeOK, ClockInv, RollbackTransaction, Goto, Running, Ending

LEMMA BeginRemoveClock ==
    ASSUME ClockTypeOK, ClockInv, NEW t \in Tx, BeginRemove(t)
    PROVE  ClockTypeOK' /\ ClockInv'
<1>1. recently_committed' \in Seq(Tx)
  <2>1. recently_committed \in Seq(Tx)
    BY DEF ClockTypeOK
  <2>2. recently_committed' \in {recently_committed, Append(recently_committed, t)}
    BY DEF BeginRemove
  <2> QED BY <2>1, <2>2, AppendProperties
<1>2. phase[t] \in {"committing", "undoing"} /\ phase' = [phase EXCEPT ![t] = "cleaning"]
  BY DEF BeginRemove, Goto
<1> QED BY <1>1, <1>2, TxAssumption DEF ClockTypeOK, ClockInv, BeginRemove, Running, Ending

LEMMA CleanupDoneClock ==
    ASSUME ClockTypeOK, ClockInv, NEW t \in Tx, CleanupDone(t)
    PROVE  ClockTypeOK' /\ ClockInv'
<1>1. recently_committed' \in Seq(Tx)
  BY HeadTailProperties DEF CleanupDone, Cleanable, ClockTypeOK
<1> QED BY <1>1 DEF ClockTypeOK, ClockInv, CleanupDone, Running, Ending

LEMMA EndRemoveClock ==
    ASSUME ClockTypeOK, ClockInv, NEW t \in Tx, EndRemove(t)
    PROVE  ClockTypeOK' /\ ClockInv'
BY TxAssumption DEF ClockTypeOK, ClockInv, EndRemove, Goto, Running, Ending

LEMMA QuietClock ==
    ASSUME ClockTypeOK, ClockInv, NEW t \in Tx, StatementStep(t) \/ LoopStep(t)
    PROVE  ClockTypeOK' /\ ClockInv'
<1>1. issued' \in 0..MaxStatements
  <2>1. issued' \in {issued, issued + 1} /\ (issued' = issued \/ issued < MaxStatements)
    BY DEF StatementStep, LoopStep, BeginLookup, Walk, EndLookup, CreateEntry, DropEntry,
           AppendToTable, CommitEntry, UndoEntry, CleanupEntry
  <2>2. issued \in 0..MaxStatements
    BY DEF ClockTypeOK
  <2> QED BY <2>1, <2>2, MaxStatementsAssumption
<1>2. /\ UNCHANGED transactions
      /\ \A u \in Tx \ {t} : phase'[u] = phase[u]
      /\ phase'[t] = phase[t] \/ {phase[t], phase'[t]} \subseteq Running
      /\ phase' \in [Tx -> Running \cup {"idle", "committing", "undoing", "cleaning", "done"}]
  BY QuietSteps
<1>3. ClockTypeOK'
  BY <1>1, <1>2 DEF ClockTypeOK, transactions
<1>4. ClockInv'
  <2>1. \A u \in Tx : phase'[u] = phase[u] \/ {phase[u], phase'[u]} \subseteq Running
    BY <1>2
  <2> QED BY <1>2, <2>1 DEF ClockInv, Running, Ending, transactions
<1> QED BY <1>3, <1>4

\* The clock runs on, and commit ids are unique.
LEMMA ClockStep ==
    ASSUME ClockTypeOK, ClockInv, Next
    PROVE  ClockTypeOK' /\ ClockInv'
BY Steps, StartClock, CommitClock, RollbackClock, BeginRemoveClock, CleanupDoneClock,
   EndRemoveClock, QuietClock

-----------------------------------------------------------------------------
(* The heap. *)

VersionType(k) == [name : Name, deleted : BOOLEAN, timestamp : Nat \cup Tx,
                   child : (1..k) \cup {Nil}, parent : (1..k) \cup {Nil}]

\* The fields of an entry.
LEMMA HeapTypes ==
    ASSUME EntryTypeOK
    PROVE  /\ Len(heap) \in Nat /\ Entry = 1..Len(heap) /\ Entry \subseteq Nat /\ Nil \notin Entry
           /\ \A e \in Entry :
                /\ heap[e].name \in Name /\ heap[e].deleted \in BOOLEAN
                /\ heap[e].timestamp \in Nat \cup Tx
                /\ heap[e].child \in Entry \cup {Nil} /\ heap[e].parent \in Entry \cup {Nil}
                /\ written_by[e] \in Tx \cup {NoTx}
           /\ \A n \in Name : data[n] \in Entry \cup {Nil}
           /\ freed \subseteq Entry /\ Kept \subseteq Entry
           /\ DOMAIN heap = Entry
<1>1. heap \in Seq(VersionType(Len(heap)))
  BY DEF EntryTypeOK, VersionType, Entry
<1>2. \A e \in 1..Len(heap) : heap[e] \in VersionType(Len(heap))
  BY <1>1
<1>3. written_by \in Seq(Tx \cup {NoTx}) /\ Len(written_by) = Len(heap)
  BY DEF EntryTypeOK
<1>4. \A e \in 1..Len(heap) : written_by[e] \in Tx \cup {NoTx}
  BY <1>3
<1>5. Len(heap) \in Nat /\ DOMAIN heap = 1..Len(heap)
  BY <1>1
<1> QED BY <1>2, <1>4, <1>5 DEF VersionType, Entry, EntryTypeOK, Nil, Kept

\* An entry gets another timestamp.
LEMMA StampFacts ==
    ASSUME EntryTypeOK, NEW p \in Entry, NEW c \in Nat,
           heap' = [heap EXCEPT ![p].timestamp = c]
    PROVE  /\ heap' \in Seq(VersionType(Len(heap))) /\ Len(heap') = Len(heap) /\ Entry' = Entry
           /\ \A e \in Entry :
                /\ heap'[e].name = heap[e].name /\ heap'[e].deleted = heap[e].deleted
                /\ heap'[e].child = heap[e].child /\ heap'[e].parent = heap[e].parent
                /\ heap'[e].timestamp = IF e = p THEN c ELSE heap[e].timestamp
<1>1. heap \in Seq(VersionType(Len(heap)))
  BY DEF EntryTypeOK, VersionType, Entry
<1>2. p \in 1..Len(heap) /\ heap[p] \in VersionType(Len(heap))
  BY <1>1 DEF Entry
<1> DEFINE v == [heap[p] EXCEPT !.timestamp = c]
<1>3. v \in VersionType(Len(heap)) /\ v.name = heap[p].name /\ v.deleted = heap[p].deleted
      /\ v.child = heap[p].child /\ v.parent = heap[p].parent /\ v.timestamp = c
  BY <1>2 DEF VersionType
<1>4. heap' = [heap EXCEPT ![p] = v]
  OBVIOUS
<1> HIDE DEF v
<1>5. heap' \in Seq(VersionType(Len(heap))) /\ Len(heap') = Len(heap)
      /\ \A e \in 1..Len(heap) : heap'[e] = IF e = p THEN v ELSE heap[e]
  BY <1>1, <1>2, <1>3, <1>4, ExceptSeq
<1> QED BY <1>3, <1>5 DEF Entry

\* An entry gets another child.
LEMMA ChildFacts ==
    ASSUME EntryTypeOK, NEW p \in Entry, NEW c \in Entry \cup {Nil},
           heap' = [heap EXCEPT ![p].child = c]
    PROVE  /\ heap' \in Seq(VersionType(Len(heap))) /\ Len(heap') = Len(heap) /\ Entry' = Entry
           /\ \A e \in Entry :
                /\ heap'[e].name = heap[e].name /\ heap'[e].deleted = heap[e].deleted
                /\ heap'[e].timestamp = heap[e].timestamp /\ heap'[e].parent = heap[e].parent
                /\ heap'[e].child = IF e = p THEN c ELSE heap[e].child
<1>1. heap \in Seq(VersionType(Len(heap)))
  BY DEF EntryTypeOK, VersionType, Entry
<1>2. p \in 1..Len(heap) /\ heap[p] \in VersionType(Len(heap)) /\ c \in (1..Len(heap)) \cup {Nil}
  BY <1>1 DEF Entry
<1> DEFINE v == [heap[p] EXCEPT !.child = c]
<1>3. v \in VersionType(Len(heap)) /\ v.name = heap[p].name /\ v.deleted = heap[p].deleted
      /\ v.timestamp = heap[p].timestamp /\ v.parent = heap[p].parent /\ v.child = c
  BY <1>2 DEF VersionType
<1>4. heap' = [heap EXCEPT ![p] = v]
  OBVIOUS
<1> HIDE DEF v
<1>5. heap' \in Seq(VersionType(Len(heap))) /\ Len(heap') = Len(heap)
      /\ \A e \in 1..Len(heap) : heap'[e] = IF e = p THEN v ELSE heap[e]
  BY <1>1, <1>2, <1>3, <1>4, ExceptSeq
<1> QED BY <1>3, <1>5 DEF Entry

\* An entry becomes the newest of its chain.
LEMMA NoParentFacts ==
    ASSUME EntryTypeOK, NEW p \in Entry, heap' = [heap EXCEPT ![p].parent = Nil]
    PROVE  /\ heap' \in Seq(VersionType(Len(heap))) /\ Len(heap') = Len(heap) /\ Entry' = Entry
           /\ \A e \in Entry :
                /\ heap'[e].name = heap[e].name /\ heap'[e].deleted = heap[e].deleted
                /\ heap'[e].timestamp = heap[e].timestamp /\ heap'[e].child = heap[e].child
                /\ heap'[e].parent = IF e = p THEN Nil ELSE heap[e].parent
<1>1. heap \in Seq(VersionType(Len(heap)))
  BY DEF EntryTypeOK, VersionType, Entry
<1>2. p \in 1..Len(heap) /\ heap[p] \in VersionType(Len(heap))
  BY <1>1 DEF Entry
<1> DEFINE v == [heap[p] EXCEPT !.parent = Nil]
<1>3. v \in VersionType(Len(heap)) /\ v.name = heap[p].name /\ v.deleted = heap[p].deleted
      /\ v.timestamp = heap[p].timestamp /\ v.child = heap[p].child /\ v.parent = Nil
  BY <1>2 DEF VersionType
<1>4. heap' = [heap EXCEPT ![p] = v]
  OBVIOUS
<1> HIDE DEF v
<1>5. heap' \in Seq(VersionType(Len(heap))) /\ Len(heap') = Len(heap)
      /\ \A e \in 1..Len(heap) : heap'[e] = IF e = p THEN v ELSE heap[e]
  BY <1>1, <1>2, <1>3, <1>4, ExceptSeq
<1> QED BY <1>3, <1>5 DEF Entry

\* A heap may grow.
LEMMA VersionsGrow ==
    ASSUME NEW g, NEW k \in Nat, g \in Seq(VersionType(k)), NEW l \in Nat, k <= l
    PROVE  g \in Seq(VersionType(l))
<1>1. VersionType(k) \subseteq VersionType(l)
  BY DEF VersionType, Nil
<1> QED BY <1>1

\* An entry is added at the end of a heap.
LEMMA AppendFacts ==
    ASSUME NEW g, NEW k \in Nat, g \in Seq(VersionType(k)), NEW l \in Nat, k <= l,
           NEW v \in VersionType(l), NEW f, f = Append(g, v)
    PROVE  /\ f \in Seq(VersionType(l)) /\ Len(f) = Len(g) + 1 /\ f[Len(g) + 1] = v
           /\ \A x \in 1..Len(g) : f[x] = g[x]
<1>2. g \in Seq(VersionType(l))
  BY VersionsGrow
<1> QED BY <1>2, AppendProperties

\* What PushVersion does: t put version v of name n in front of e, which was the
\* newest version or the root it allocated for a new chain.
Pushed(t, n, e, v) ==
    /\ n \in Name /\ e \in Nat /\ v \in Nat /\ e # Nil /\ e < v /\ v \notin Entry
    /\ Entry' = Entry \cup {e, v}
    /\ e \in Entry => e = data[n] /\ ~WrittenByOther(t, e)
    /\ e \notin Entry =>
        /\ data[n] = Nil
        /\ heap'[e].name = n /\ heap'[e].timestamp = 0 /\ heap'[e].child = Nil
        /\ written_by'[e] = NoTx
    /\ \A x \in Entry :
        /\ x < v /\ (e \notin Entry => x < e)
        /\ heap'[x].name = heap[x].name /\ heap'[x].deleted = heap[x].deleted
        /\ heap'[x].timestamp = heap[x].timestamp /\ heap'[x].child = heap[x].child
        /\ heap'[x].parent = IF x = e THEN v ELSE heap[x].parent
        /\ written_by'[x] = written_by[x]
    /\ heap'[e].parent = v
    /\ heap'[v].name = n /\ heap'[v].timestamp = t /\ heap'[v].child = e
    /\ heap'[v].parent = Nil /\ written_by'[v] = t
    /\ data' = [data EXCEPT ![n] = v]
    /\ freed' = freed
    /\ PushUndo(t, "CATALOG_ENTRY", e)

\* ... in the heap as it was,
LEMMA PushOnNewest ==
    ASSUME EntryTypeOK, NEW t \in Tx, NEW n \in Name, NEW deleted \in BOOLEAN,
           data[n] # Nil, ~WrittenByOther(t, data[n]),
           PushVersion(t, n, deleted, data[n], heap, written_by)
    PROVE  Pushed(t, n, data[n], Len(heap) + 1) /\ EntryTypeOK'
<1> DEFINE L == Len(heap)
           e == data[n]
           g == [heap EXCEPT ![e].parent = L + 1]
           v == Version(n, deleted, t, e)
<1>1. L \in Nat /\ Entry = 1..L /\ e \in 1..L /\ heap \in Seq(VersionType(L))
      /\ written_by \in Seq(Tx \cup {NoTx}) /\ Len(written_by) = L
      /\ data \in [Name -> (1..L) \cup {Nil}] /\ freed \subseteq 1..L
  BY HeapTypes DEF EntryTypeOK, VersionType, Entry
<1>2. /\ heap' = Append(g, v) /\ written_by' = Append(written_by, t)
      /\ data' = [data EXCEPT ![n] = L + 1] /\ PushUndo(t, "CATALOG_ENTRY", e)
      /\ freed' = freed
  BY DEF PushVersion
<1>3. heap \in Seq(VersionType(L + 1))
  <2>1. L + 1 \in Nat /\ L <= L + 1
    BY <1>1
  <2> HIDE DEF L
  <2> QED BY <1>1, <2>1, VersionsGrow
<1>4. v \in VersionType(L + 1) /\ v.name = n /\ v.timestamp = t /\ v.child = e /\ v.parent = Nil
  BY <1>1 DEF Version, VersionType, Nil
<1> HIDE DEF L, v
<1>5. /\ g \in Seq(VersionType(L + 1)) /\ Len(g) = L
      /\ \A x \in 1..L :
           /\ g[x].name = heap[x].name /\ g[x].deleted = heap[x].deleted
           /\ g[x].timestamp = heap[x].timestamp /\ g[x].child = heap[x].child
           /\ g[x].parent = IF x = e THEN L + 1 ELSE heap[x].parent
  <2>1. L + 1 \in Nat /\ L + 1 \in (1..(L + 1)) \cup {Nil}
    BY <1>1
  <2>2. Len(heap) = L /\ e \in 1..Len(heap)
    BY <1>1 DEF L
  <2> DEFINE k == L + 1
             b == [heap[e] EXCEPT !.parent = k]
  <2>3. heap \in Seq(VersionType(k)) /\ k \in (1..k) \cup {Nil}
    BY <1>3, <2>1
  <2>4. heap[e] \in VersionType(k)
    BY <2>2, <2>3
  <2>5. g = [heap EXCEPT ![e] = b]
    OBVIOUS
  <2> HIDE DEF g, e, k
  <2>6. b \in VersionType(k) /\ b.name = heap[e].name /\ b.deleted = heap[e].deleted
        /\ b.timestamp = heap[e].timestamp /\ b.child = heap[e].child /\ b.parent = k
    BY <2>3, <2>4 DEF VersionType
  <2> HIDE DEF b
  <2>7. g \in Seq(VersionType(k)) /\ Len(g) = Len(heap)
        /\ \A x \in 1..Len(heap) : g[x] = IF x = e THEN b ELSE heap[x]
    BY <2>2, <2>3, <2>5, <2>6, ExceptSeq
  <2> QED BY <2>2, <2>6, <2>7 DEF k
<1> HIDE DEF g, e
<1>6. heap' \in Seq(VersionType(L + 1)) /\ Len(heap') = L + 1 /\ heap'[L + 1] = v
      /\ \A x \in 1..L : heap'[x] = g[x]
  BY <1>1, <1>2, <1>4, <1>5, AppendFacts
<1>7. written_by' \in Seq(Tx \cup {NoTx}) /\ Len(written_by') = L + 1 /\ written_by'[L + 1] = t
      /\ \A x \in 1..L : written_by'[x] = written_by[x]
  <2>1. t \in Tx \cup {NoTx} /\ written_by' = Append(written_by, t)
    BY <1>2
  <2>2. written_by \in Seq(Tx \cup {NoTx}) /\ Len(written_by) = L
    BY <1>1
  <2> QED BY <2>1, <2>2, AppendProperties
<1>8. Entry' = 1..(L + 1)
  BY <1>6 DEF Entry
<1>9. EntryTypeOK'
  BY <1>1, <1>2, <1>6, <1>7, <1>8 DEF EntryTypeOK, VersionType
<1>10. ~WrittenByOther(t, e)
  BY DEF e
<1>11. Pushed(t, n, e, L + 1)
  BY <1>1, <1>2, <1>4, <1>5, <1>6, <1>7, <1>8, <1>10 DEF Pushed, Nil, e
<1> QED BY <1>9, <1>11 DEF L, e

\* ... and behind a new root.
LEMMA PushOnRoot ==
    ASSUME EntryTypeOK, NEW t \in Tx, NEW n \in Name, data[n] = Nil,
           PushVersion(t, n, FALSE, Len(heap) + 1, Append(heap, Version(n, TRUE, 0, Nil)),
                       Append(written_by, NoTx))
    PROVE  Pushed(t, n, Len(heap) + 1, Len(heap) + 2) /\ EntryTypeOK'
<1> DEFINE L == Len(heap)
           r == Version(n, TRUE, 0, Nil)
           h == Append(heap, r)
           g == [h EXCEPT ![L + 1].parent = L + 2]
           v == Version(n, FALSE, t, L + 1)
           w == Append(written_by, NoTx)
<1>1. L \in Nat /\ Entry = 1..L /\ heap \in Seq(VersionType(L))
      /\ written_by \in Seq(Tx \cup {NoTx}) /\ Len(written_by) = L
      /\ data \in [Name -> (1..L) \cup {Nil}] /\ freed \subseteq 1..L
  BY HeapTypes DEF EntryTypeOK, VersionType, Entry
<1>2. /\ r \in VersionType(L + 2) /\ r.name = n /\ r.timestamp = 0 /\ r.child = Nil
      /\ v \in VersionType(L + 2) /\ v.name = n /\ v.timestamp = t /\ v.child = L + 1
      /\ v.parent = Nil
  BY <1>1 DEF Version, VersionType, Nil
<1>3. h \in Seq(VersionType(L + 2)) /\ Len(h) = L + 1 /\ h[L + 1] = r
      /\ \A x \in 1..L : h[x] = heap[x]
  <2> DEFINE l == L + 2
  <2>1. l \in Nat /\ L <= l
    BY <1>1
  <2>2. heap \in Seq(VersionType(L)) /\ L \in Nat /\ Len(heap) = L /\ h = Append(heap, r)
    BY <1>1
  <2>3. r \in VersionType(l)
    BY <1>2
  <2> HIDE DEF r, h, L, l
  <2>4. /\ h \in Seq(VersionType(l)) /\ Len(h) = Len(heap) + 1 /\ h[Len(heap) + 1] = r
        /\ \A x \in 1..Len(heap) : h[x] = heap[x]
    BY <2>1, <2>2, <2>3, AppendFacts
  <2> QED BY <2>2, <2>4 DEF l
<1>4. /\ heap' = Append(g, v) /\ written_by' = Append(w, t)
      /\ data' = [data EXCEPT ![n] = L + 2] /\ PushUndo(t, "CATALOG_ENTRY", L + 1)
      /\ freed' = freed
  <2>1. Len(h) = L + 1
    BY <1>3
  <2>2. Len(h) + 1 = L + 2
    BY <2>1, <1>1
  <2> QED BY <2>2 DEF PushVersion
<1> HIDE DEF L, v, r, h
<1>5. /\ g \in Seq(VersionType(L + 2)) /\ Len(g) = L + 1
      /\ \A x \in 1..(L + 1) :
           /\ g[x].name = h[x].name /\ g[x].deleted = h[x].deleted
           /\ g[x].timestamp = h[x].timestamp /\ g[x].child = h[x].child
           /\ g[x].parent = IF x = L + 1 THEN L + 2 ELSE h[x].parent
  <2>1. L + 2 \in Nat /\ L + 2 \in (1..(L + 2)) \cup {Nil} /\ L + 1 \in 1..Len(h)
    BY <1>1, <1>3
  <2> DEFINE k == L + 2
             e == L + 1
             b == [h[e] EXCEPT !.parent = k]
  <2>2. h \in Seq(VersionType(k)) /\ Len(h) = e /\ e \in 1..Len(h) /\ k \in (1..k) \cup {Nil}
    BY <1>3, <2>1
  <2>3. h[e] \in VersionType(k)
    BY <2>2
  <2>4. g = [h EXCEPT ![e] = b]
    OBVIOUS
  <2> HIDE DEF g, e, k
  <2>5. b \in VersionType(k) /\ b.name = h[e].name /\ b.deleted = h[e].deleted
        /\ b.timestamp = h[e].timestamp /\ b.child = h[e].child /\ b.parent = k
    BY <2>2, <2>3 DEF VersionType
  <2> HIDE DEF b
  <2>6. g \in Seq(VersionType(k)) /\ Len(g) = Len(h)
        /\ \A x \in 1..Len(h) : g[x] = IF x = e THEN b ELSE h[x]
    BY <2>2, <2>4, <2>5, ExceptSeq
  <2> QED BY <2>2, <2>5, <2>6 DEF k, e
<1> HIDE DEF g
<1>6. heap' \in Seq(VersionType(L + 2)) /\ Len(heap') = L + 2 /\ heap'[L + 2] = v
      /\ \A x \in 1..(L + 1) : heap'[x] = g[x]
  <2>1. L + 2 \in Nat /\ L + 2 <= L + 2 /\ Len(g) + 1 = L + 2
    BY <1>1, <1>5
  <2> QED BY <1>1, <1>2, <1>4, <1>5, <2>1, AppendFacts
<1>7. written_by' \in Seq(Tx \cup {NoTx}) /\ Len(written_by') = L + 2
      /\ written_by'[L + 2] = t /\ written_by'[L + 1] = NoTx
      /\ \A x \in 1..L : written_by'[x] = written_by[x]
  <2>1. t \in Tx \cup {NoTx} /\ NoTx \in Tx \cup {NoTx}
    OBVIOUS
  <2>2. w \in Seq(Tx \cup {NoTx}) /\ Len(w) = L + 1 /\ w[L + 1] = NoTx
        /\ \A x \in 1..L : w[x] = written_by[x]
    BY <1>1, <2>1, AppendProperties
  <2> HIDE DEF w
  <2>3. written_by' \in Seq(Tx \cup {NoTx}) /\ Len(written_by') = (L + 1) + 1
        /\ written_by'[(L + 1) + 1] = t /\ \A x \in 1..(L + 1) : written_by'[x] = w[x]
    BY <1>4, <2>1, <2>2, AppendProperties
  <2> QED BY <1>1, <2>2, <2>3
<1>8. Entry' = 1..(L + 2)
  BY <1>6 DEF Entry
<1>9. EntryTypeOK'
  BY <1>1, <1>4, <1>6, <1>7, <1>8 DEF EntryTypeOK, VersionType
<1>11. Pushed(t, n, L + 1, L + 2)
  BY <1>1, <1>2, <1>3, <1>4, <1>5, <1>6, <1>7, <1>8 DEF Pushed, Nil
<1> QED BY <1>9, <1>11 DEF L

-----------------------------------------------------------------------------
(* Undo buffers. *)

UndoType(E) == [type : {"CATALOG_ENTRY", "TUPLE_ENTRY"}, entry : E]

LEMMA BufferTypes ==
    ASSUME BufferTypeOK
    PROVE  \A u \in Tx :
            /\ undo[u] \in Seq(UndoType(Entry)) /\ Len(undo[u]) \in Nat /\ visited[u] \in Nat
            /\ Pending(u) \subseteq 1..Len(undo[u])
            /\ \A i \in 1..Len(undo[u]) :
                undo[u][i] \in UndoType(Entry) /\ undo[u][i].entry \in Entry
            /\ undo[u] = << >> <=> Len(undo[u]) = 0
<1> SUFFICES ASSUME NEW u \in Tx
             PROVE  /\ undo[u] \in Seq(UndoType(Entry)) /\ Len(undo[u]) \in Nat
                    /\ visited[u] \in Nat /\ Pending(u) \subseteq 1..Len(undo[u])
                    /\ \A i \in 1..Len(undo[u]) :
                        undo[u][i] \in UndoType(Entry) /\ undo[u][i].entry \in Entry
                    /\ undo[u] = << >> <=> Len(undo[u]) = 0
  OBVIOUS
<1>1. undo[u] \in Seq(UndoType(Entry)) /\ visited[u] \in Nat
  BY DEF BufferTypeOK, UndoType
<1>2. \A i \in 1..Len(undo[u]) : undo[u][i] \in UndoType(Entry)
  BY <1>1
<1>3. \A i \in 1..Len(undo[u]) : undo[u][i].entry \in Entry
  BY <1>2 DEF UndoType
<1>4. undo[u] = << >> <=> Len(undo[u]) = 0
  BY <1>1, EmptySeq
<1> QED BY <1>1, <1>2, <1>3, <1>4 DEF Pending

\* An entry is added to a buffer, while the heap stays or grows.
LEMMA PushUndoFacts ==
    ASSUME BufferTypeOK, NEW t \in Tx, NEW type \in {"CATALOG_ENTRY", "TUPLE_ENTRY"},
           NEW e \in Entry', Entry \subseteq Entry', PushUndo(t, type, e)
    PROVE  /\ BufferTypeOK' /\ visited' = visited
           /\ \A u \in Tx \ {t} : undo'[u] = undo[u]
           /\ Len(undo'[t]) = Len(undo[t]) + 1
           /\ \A i \in 1..Len(undo[t]) : undo'[t][i] = undo[t][i]
           /\ undo'[t][Len(undo[t]) + 1].type = type
           /\ undo'[t][Len(undo[t]) + 1].entry = e
<1> DEFINE b == [type |-> type, entry |-> e]
<1>1. b \in UndoType(Entry') /\ b.type = type /\ b.entry = e
  BY DEF UndoType
<1>2. undo' = [undo EXCEPT ![t] = Append(@, b)] /\ visited' = visited
  BY DEF PushUndo
<1> HIDE DEF b
<1>3. UndoType(Entry) \subseteq UndoType(Entry')
  BY DEF UndoType
<1>4. undo \in [Tx -> Seq(UndoType(Entry))] /\ visited \in [Tx -> Nat]
  BY DEF BufferTypeOK, UndoType
<1>5. \A u \in Tx : undo[u] \in Seq(UndoType(Entry'))
  BY <1>3, <1>4
<1>6. undo'[t] = Append(undo[t], b) /\ \A u \in Tx \ {t} : undo'[u] = undo[u]
  BY <1>2, <1>4
<1>7. /\ undo'[t] \in Seq(UndoType(Entry')) /\ Len(undo'[t]) = Len(undo[t]) + 1
      /\ undo'[t][Len(undo[t]) + 1] = b
      /\ \A i \in 1..Len(undo[t]) : undo'[t][i] = undo[t][i]
  BY <1>1, <1>5, <1>6, AppendProperties
<1>8. undo' \in [Tx -> Seq(UndoType(Entry'))]
  BY <1>2, <1>4, <1>5, <1>6, <1>7
<1> QED BY <1>1, <1>2, <1>4, <1>6, <1>7, <1>8 DEF BufferTypeOK, UndoType

\* The last entry leaves a buffer.
LEMMA PopUndoFacts ==
    ASSUME BufferTypeOK, NEW t \in Tx, undo[t] # << >>, Entry' = Entry,
           undo' = [undo EXCEPT ![t] = SubSeq(@, 1, Youngest(t) - 1)
                                         \o SubSeq(@, Youngest(t) + 1, Len(@))],
           visited' = visited
    PROVE  /\ BufferTypeOK'
           /\ \A u \in Tx \ {t} : undo'[u] = undo[u]
           /\ Len(undo[t]) \in Nat \ {0} /\ Len(undo'[t]) = Len(undo[t]) - 1
           /\ \A i \in 1..Len(undo[t]) - 1 : undo'[t][i] = undo[t][i]
<1> DEFINE l == Len(undo[t])
           a == SubSeq(undo[t], 1, l - 1)
           b == SubSeq(undo[t], l + 1, l)
<1>1. undo \in [Tx -> Seq(UndoType(Entry))] /\ visited \in [Tx -> Nat]
  BY DEF BufferTypeOK, UndoType
<1>2. l \in Nat /\ l # 0 /\ \A i \in 1..l : undo[t][i] \in UndoType(Entry)
  BY BufferTypes
<1>3. a \in Seq(UndoType(Entry)) /\ Len(a) = l - 1 /\ \A i \in 1..l - 1 : a[i] = undo[t][i]
  <2>1. 1 \in Int /\ l - 1 \in Int /\ \A i \in 1..l - 1 : undo[t][i] \in UndoType(Entry)
    BY <1>2
  <2> HIDE DEF l
  <2>2. /\ a \in Seq(UndoType(Entry)) /\ Len(a) = IF 1 <= l - 1 THEN l - 1 - 1 + 1 ELSE 0
        /\ \A i \in 1..l - 1 - 1 + 1 : a[i] = undo[t][1 + i - 1]
    BY <2>1, SubSeqProperties
  <2> HIDE DEF a
  <2> QED BY <1>2, <2>2
<1>4. b = << >>
  <2>1. l + 1 \in Int /\ l \in Int /\ l < l + 1
    BY <1>2
  <2> HIDE DEF l
  <2> QED BY <2>1, SubSeqEmpty
<1>5. undo'[t] = a \o b /\ \A u \in Tx \ {t} : undo'[u] = undo[u]
  BY <1>1 DEF Youngest
<1> HIDE DEF a, b, l
<1>6. undo'[t] = a
  BY <1>3, <1>4, <1>5, ConcatEmptySeq
<1>7. undo' \in [Tx -> Seq(UndoType(Entry))]
  BY <1>1, <1>3, <1>6
<1>8. BufferTypeOK'
  BY <1>1, <1>7 DEF BufferTypeOK, UndoType
<1> QED BY <1>2, <1>3, <1>5, <1>6, <1>8 DEF l

\* The loop over a buffer goes on.
LEMMA VisitFacts ==
    ASSUME BufferTypeOK, NEW u \in Tx, Entry' = Entry, undo' = undo,
           visited' = [visited EXCEPT ![u] = visited[u] + 1]
    PROVE  BufferTypeOK'
<1>1. undo \in [Tx -> Seq(UndoType(Entry))] /\ visited \in [Tx -> Nat]
  BY DEF BufferTypeOK, UndoType
<1>2. undo' \in [Tx -> Seq(UndoType(Entry'))]
  BY <1>1
<1>3. visited' \in [Tx -> Nat]
  BY <1>1
<1> QED BY <1>2, <1>3 DEF BufferTypeOK, UndoType

-----------------------------------------------------------------------------
(* What the steps that change the heap do. *)

\* CREATE puts a version in front of the newest one, or changes nothing.
LEMMA CreateFacts ==
    ASSUME EntryTypeOK, NEW t \in Tx, NEW n \in Name, CreateEntry(t, n)
    PROVE  \/ UNCHANGED <<entries, buffers>>
           \/ \E e, v \in Nat : Pushed(t, n, e, v) /\ EntryTypeOK'
<1>1. CASE UNCHANGED <<entries, buffers>>
  BY <1>1
<1>2. CASE /\ data[n] = Nil
           /\ PushVersion(t, n, FALSE, Len(heap) + 1,
                          Append(heap, Version(n, TRUE, 0, Nil)), Append(written_by, NoTx))
  <2>1. Pushed(t, n, Len(heap) + 1, Len(heap) + 2) /\ EntryTypeOK'
    BY <1>2, PushOnRoot
  <2>2. Len(heap) + 1 \in Nat /\ Len(heap) + 2 \in Nat
    BY HeapTypes
  <2> QED BY <2>1, <2>2
<1>3. CASE /\ data[n] # Nil
           /\ Replaceable(t, data[n])
           /\ PushVersion(t, n, FALSE, data[n], heap, written_by)
  <2>1. FALSE \in BOOLEAN /\ ~WrittenByOther(t, data[n])
    BY <1>3 DEF Replaceable
  <2>2. Pushed(t, n, data[n], Len(heap) + 1) /\ EntryTypeOK'
    BY <1>3, <2>1, PushOnNewest
  <2>3. data[n] \in Nat /\ Len(heap) + 1 \in Nat
    BY <1>3, HeapTypes
  <2> QED BY <2>2, <2>3
<1> QED BY <1>1, <1>2, <1>3 DEF CreateEntry

\* So does DROP.
LEMMA DropFacts ==
    ASSUME EntryTypeOK, GapInv, CurrentInv, NEW t \in Tx, DropEntry(t)
    PROVE  \/ UNCHANGED <<entries, buffers>>
           \/ \E n \in Name : \E e, v \in Nat : Pushed(t, n, e, v) /\ EntryTypeOK'
<1> DEFINE n == wanted[t].name
<1>1. n \in Name /\ data[n] # Nil
  <2>1. phase[t] = "found"
    BY DEF DropEntry
  <2>2. wanted[t] \in [name : Name, use : {"drop", "insert"}]
    BY <2>1 DEF CurrentInv, CurrentOf
  <2>3. current[t] \in Kept /\ heap[current[t]].name = wanted[t].name
    BY <2>1 DEF CurrentInv, CurrentOf
  <2>4. data[heap[current[t]].name] # Nil
    BY <2>3 DEF GapInv, Kept
  <2> QED BY <2>2, <2>3, <2>4
<1>2. \/ UNCHANGED <<entries, buffers>>
      \/ ~WrittenByOther(t, data[n]) /\ PushVersion(t, n, TRUE, data[n], heap, written_by)
  BY DEF DropEntry
<1>3. TRUE \in BOOLEAN /\ Len(heap) + 1 \in Nat /\ data[n] \in Nat
  BY <1>1, HeapTypes
<1> HIDE DEF n
<1> QED BY <1>1, <1>2, <1>3, PushOnNewest

LEMMA PendingWhere ==
    ASSUME PendingInv, BufferInv, NEW e \in Kept, heap[e].parent # Nil
    PROVE  \E i \in Pending(written_by[heap[e].parent]) :
             undo[written_by[heap[e].parent]][i].entry = e
<1>1. PICK u \in Tx : \E i \in Pending(u) : undo[u][i].entry = e
  BY DEF PendingInv
<1>2. u = written_by[heap[e].parent]
  BY <1>1 DEF BufferInv
<1> QED BY <1>1, <1>2

\* Entry i of buffer u stands for entry e and refers to version p in front of it.
Refers(u, i, e, p) ==
    undo[u][i].type = "CATALOG_ENTRY" /\ e = undo[u][i].entry /\ p = heap[e].parent

\* The version that a rollback undoes is the newest of its chain: an undo
\* buffer lists the versions of a chain in their order.
LEMMA LastIsNewest ==
    ASSUME EntryTypeOK, BufferTypeOK, ClockInv, LinkInv, PendingInv, BufferInv, SuccessionInv,
           NEW t \in Tx, phase[t] = "undoing", undo[t] # << >>,
           NEW e \in Nat, NEW p \in Nat, Refers(t, Youngest(t), e, p)
    PROVE  /\ Youngest(t) \in Pending(t) /\ e \in Kept /\ p \in Kept /\ p > e
           /\ heap[p].parent = Nil /\ heap[p].child = e /\ heap[p].name = heap[e].name
           /\ written_by[p] = t /\ data[heap[e].name] = p
<1> DEFINE l == Youngest(t)
<1>1. l \in Nat /\ l # 0 /\ l = Len(undo[t]) /\ l \in Pending(t)
  BY BufferTypes DEF Youngest, Pending, Left, Refers
<1>1a. e = undo[t][l].entry /\ p = heap[e].parent
  BY DEF Refers
<1> HIDE DEF l
<1>2. e \in Kept /\ p # Nil /\ written_by[p] = t
  BY <1>1, <1>1a DEF BufferInv
<1>3. p \in Kept /\ p > e /\ heap[p].child = e /\ heap[p].name = heap[e].name
  BY <1>1a, <1>2 DEF LinkInv
<1>4. heap[p].parent = Nil
  <2> SUFFICES ASSUME heap[p].parent # Nil PROVE FALSE
    OBVIOUS
  <2> DEFINE q == heap[p].parent
  <2>1. q > p /\ written_by[q] \in Tx
    BY <1>3 DEF LinkInv
  <2>1a. heap[p].parent = q
    OBVIOUS
  <2>2. PICK j \in Pending(written_by[q]) : undo[written_by[q]][j].entry = p
    BY <1>3, PendingWhere
  <2> HIDE DEF q
  <2>3. written_by[q] = t
    <3>1. t \notin {written_by[q], NoTx} => commit_id[t] # 0
      BY <1>2, <2>1, <2>2 DEF SuccessionInv
    <3> QED BY <3>1, TxAssumption DEF ClockInv
  <2>4. j \in Pending(t) /\ undo[t][j].entry = p /\ j \in 1..Len(undo[t])
    <3>1. j \in Pending(t)
      BY <2>2, <2>3
    <3> QED BY <2>2, <2>3, <3>1, BufferTypes
  <2>5. j # l
    <3>1. e \in Nat /\ p \in Nat
      BY <1>2, <1>3, HeapTypes
    <3> QED BY <1>1a, <1>3, <2>4, <3>1
  <2>6. j < l
    BY <1>1, <2>4, <2>5
  <2>7. heap[undo[t][j].entry].parent < heap[undo[t][l].entry].parent
    BY <1>1, <2>4, <2>6 DEF BufferInv
  <2>8. q < p
    BY <1>1a, <2>1a, <2>4, <2>7
  <2>9. q \in Nat
    BY <1>3, HeapTypes DEF q
  <2> QED BY <2>1, <2>8, <2>9
<1>5. data[heap[p].name] = p
  BY <1>3, <1>4 DEF LinkInv
<1>6. Youngest(t) \in Pending(t)
  BY <1>1 DEF l
<1> QED BY <1>2, <1>3, <1>4, <1>5, <1>6

\* A rollback took version p away from entry e.
Undone(t, e, p) ==
    /\ phase[t] = "undoing" /\ catalog_lock = NoTx
    /\ Len(undo[t]) \in Pending(t) /\ undo[t][Len(undo[t])].entry = e
    /\ e \in Kept /\ p \in Kept /\ heap[e].parent = p /\ p > e
    /\ heap[p].parent = Nil /\ heap[p].child = e /\ heap[p].name = heap[e].name
    /\ written_by[p] = t /\ data[heap[e].name] = p
    /\ Entry' = Entry
    /\ \A x \in Entry :
        /\ heap'[x].name = heap[x].name /\ heap'[x].deleted = heap[x].deleted
        /\ heap'[x].timestamp = heap[x].timestamp /\ heap'[x].child = heap[x].child
        /\ heap'[x].parent = IF x = e THEN Nil ELSE heap[x].parent
    /\ data' = [data EXCEPT ![heap[e].name] = e]
    /\ freed' = freed \cup {p} /\ written_by' = written_by
    /\ \A u \in Tx \ {t} : undo'[u] = undo[u]
    /\ Len(undo'[t]) = Len(undo[t]) - 1
    /\ \A i \in 1..Len(undo[t]) - 1 : undo'[t][i] = undo[t][i]
    /\ UNCHANGED <<transactions, phase, issued, catalog_lock, lookup, visited>>

LEMMA UndoFacts ==
    ASSUME EntryTypeOK, BufferTypeOK, ClockInv, LinkInv, PendingInv, BufferInv, SuccessionInv,
           NEW t \in Tx, UndoEntry(t), undo[t][Youngest(t)].type = "CATALOG_ENTRY"
    PROVE  /\ EntryTypeOK' /\ BufferTypeOK'
           /\ \E e, p \in Entry : Undone(t, e, p)
<1> DEFINE e == undo[t][Youngest(t)].entry
           p == heap[e].parent
           k == Len(heap)
<1>1. /\ phase[t] = "undoing" /\ undo[t] # << >>
      /\ catalog_lock = NoTx /\ Undo(e)
      /\ undo' = [undo EXCEPT ![t] = SubSeq(@, 1, Youngest(t) - 1)
                                         \o SubSeq(@, Youngest(t) + 1, Len(@))]
      /\ UNCHANGED <<transactions, phase, issued, catalog_lock, lookup, visited>>
  BY DEF UndoEntry
<1>1a. e \in Nat /\ p \in Nat /\ Refers(t, Youngest(t), e, p)
  <2>1. Youngest(t) \in 1..Len(undo[t])
    BY <1>1, BufferTypes DEF Youngest
  <2>2. e \in Entry
    BY <2>1, BufferTypes
  <2> QED BY <2>2, HeapTypes DEF Refers, Nil
<1>1b. e = undo[t][Youngest(t)].entry /\ p = heap[e].parent
  OBVIOUS
<1>1c. Undo(e)
  BY <1>1
<1> HIDE DEF e, p
<1>2. /\ Youngest(t) \in Pending(t) /\ e \in Kept /\ p \in Kept /\ p > e
      /\ heap[p].parent = Nil /\ heap[p].child = e /\ heap[p].name = heap[e].name
      /\ written_by[p] = t /\ data[heap[e].name] = p
  BY <1>1, <1>1a, LastIsNewest
<1>3. e \in 1..k /\ p \in Entry /\ k \in Nat /\ Nil \in (1..k) \cup {Nil} /\ Entry = 1..k
  BY <1>2, HeapTypes
<1>4. /\ heap' = [heap EXCEPT ![e].parent = Nil]
      /\ data' = [data EXCEPT ![heap[e].name] = e]
      /\ freed' = freed \cup {p} /\ written_by' = written_by
  <2>1. heap[e].parent = p /\ heap[p].parent = Nil /\ heap[p].child = e
    BY <1>1b, <1>2
  <2> QED BY <1>1c, <2>1 DEF Undo
<1>5. /\ heap' \in Seq(VersionType(k)) /\ Len(heap') = k /\ Entry' = Entry
      /\ \A x \in Entry :
           /\ heap'[x].name = heap[x].name /\ heap'[x].deleted = heap[x].deleted
           /\ heap'[x].timestamp = heap[x].timestamp /\ heap'[x].child = heap[x].child
           /\ heap'[x].parent = IF x = e THEN Nil ELSE heap[x].parent
  BY <1>3, <1>4, NoParentFacts
<1>6. Entry' = Entry
  BY <1>5
<1>7. EntryTypeOK'
  <2>1. data' \in [Name -> Entry \cup {Nil}] /\ freed' \subseteq Entry
    BY <1>3, <1>4 DEF EntryTypeOK
  <2>2. written_by' \in Seq(Tx \cup {NoTx}) /\ Len(written_by') = Len(heap')
    BY <1>4, <1>5 DEF EntryTypeOK
  <2> QED BY <1>3, <1>5, <1>6, <2>1, <2>2 DEF EntryTypeOK, VersionType
<1>8. /\ BufferTypeOK'
      /\ \A u \in Tx \ {t} : undo'[u] = undo[u]
      /\ Len(undo'[t]) = Len(undo[t]) - 1
      /\ \A i \in 1..Len(undo[t]) - 1 : undo'[t][i] = undo[t][i]
  BY <1>1, <1>6, PopUndoFacts DEF buffers
<1>9. Len(undo[t]) \in Pending(t) /\ undo[t][Len(undo[t])].entry = e /\ heap[e].parent = p
  BY <1>1b, <1>2 DEF Youngest
<1>10. Undone(t, e, p)
  BY <1>1, <1>2, <1>3, <1>4, <1>5, <1>6, <1>8, <1>9 DEF Undone
<1> QED BY <1>3, <1>7, <1>8, <1>10

\* A commit stamped version p, which stands in front of entry e.
Stamped(t, e, p) ==
    /\ phase[t] = "committing"
    /\ visited[t] + 1 \in Pending(t) /\ undo[t][visited[t] + 1].entry = e
    /\ e \in Kept /\ p \in Kept /\ heap[e].parent = p /\ written_by[p] = t
    /\ Entry' = Entry
    /\ \A x \in Entry :
        /\ heap'[x].name = heap[x].name /\ heap'[x].deleted = heap[x].deleted
        /\ heap'[x].child = heap[x].child /\ heap'[x].parent = heap[x].parent
        /\ heap'[x].timestamp = IF x = p THEN commit_id[t] ELSE heap[x].timestamp
    /\ visited' = [visited EXCEPT ![t] = visited[t] + 1]
    /\ UNCHANGED <<transactions, phase, issued, catalog_lock, data, freed, written_by,
                   lookup, undo>>

LEMMA CommitFacts ==
    ASSUME ClockTypeOK, EntryTypeOK, BufferTypeOK, LinkInv, BufferInv,
           NEW t \in Tx, CommitEntry(t), IsCatalog(t)
    PROVE  /\ EntryTypeOK' /\ BufferTypeOK'
           /\ \E e, p \in Entry : Stamped(t, e, p)
<1> DEFINE e == NextEntry(t).entry
           p == heap[e].parent
<1>1. /\ phase[t] = "committing" /\ visited[t] < Len(undo[t])
      /\ heap' = [heap EXCEPT ![p].timestamp = commit_id[t]]
      /\ visited' = [visited EXCEPT ![t] = visited[t] + 1]
      /\ UNCHANGED <<transactions, phase, issued, catalog_lock, data, freed, written_by,
                     lookup, undo>>
  BY DEF CommitEntry, Stamp
<1>2. visited[t] + 1 \in Pending(t) /\ undo[t][visited[t] + 1].entry = e
  <2>1. visited[t] \in Nat /\ Len(undo[t]) \in Nat
    BY BufferTypes
  <2>2. visited[t] + 1 \in 1..Len(undo[t])
    BY <1>1, <2>1
  <2>3. undo[t][visited[t] + 1].type = "CATALOG_ENTRY"
    BY DEF IsCatalog, NextEntry
  <2>4. undo[t][visited[t] + 1].entry = e
    BY DEF NextEntry
  <2>5. phase[t] \notin Left
    BY <1>1 DEF Left
  <2> HIDE DEF e
  <2> QED BY <2>2, <2>3, <2>4, <2>5 DEF Pending
<1>3. e \in Kept /\ p # Nil /\ written_by[p] = t
  BY <1>2 DEF BufferInv
<1>4. p \in Kept
  BY <1>3 DEF LinkInv
<1>5. p \in Entry /\ e \in Entry /\ commit_id[t] \in Nat
  BY <1>3, <1>4, HeapTypes DEF ClockTypeOK
<1> HIDE DEF e, p
<1>6. /\ heap' \in Seq(VersionType(Len(heap))) /\ Len(heap') = Len(heap) /\ Entry' = Entry
      /\ \A x \in Entry :
           /\ heap'[x].name = heap[x].name /\ heap'[x].deleted = heap[x].deleted
           /\ heap'[x].child = heap[x].child /\ heap'[x].parent = heap[x].parent
           /\ heap'[x].timestamp = IF x = p THEN commit_id[t] ELSE heap[x].timestamp
  BY <1>1, <1>5, StampFacts
<1>7. EntryTypeOK'
  <2>1. Entry = 1..Len(heap)
    BY HeapTypes
  <2> QED BY <1>1, <1>6, <2>1 DEF EntryTypeOK, VersionType
<1>8. BufferTypeOK'
  BY <1>1, <1>6, VisitFacts
<1>9. heap[e].parent = p
  BY DEF p
<1>10. Stamped(t, e, p)
  BY <1>1, <1>2, <1>3, <1>4, <1>6, <1>9 DEF Stamped
<1> QED BY <1>5, <1>7, <1>8, <1>10

\* The cleanup is at entry l of buffer u.
IsNext(u, l) == u = recently_committed[1] /\ l = visited[u] + 1

\* What the cleanup of a commit visits next hides no other version: the commits
\* that wrote older versions of the chain were cleaned up before.
LEMMA NextIsLast ==
    ASSUME ClockTypeOK, EntryTypeOK, BufferTypeOK, ClockInv, ListInv, VisitInv,
           LinkInv, PendingInv, BufferInv, SuccessionInv, WriterInv,
           NEW t \in Tx, phase[t] = "cleaning", Cleanable,
           NEW u \in Tx, NEW l \in Nat, l \in Pending(u), IsNext(u, l),
           NEW e \in Nat, NEW p \in Nat, Refers(u, l, e, p)
    PROVE  /\ phase[u] \in Left /\ commit_id[u] # 0
           /\ e \in Kept /\ p \in Kept /\ p > e
           /\ written_by[p] = u /\ heap[p].child = e /\ heap[p].name = heap[e].name
           /\ heap[e].child = Nil
<1>0. u = recently_committed[1] /\ l = visited[u] + 1 /\ visited[u] \in Nat
  BY BufferTypes DEF IsNext
<1>0a. e = undo[u][l].entry /\ p = heap[e].parent
  BY DEF Refers
<1>1. recently_committed \in Seq(Tx) /\ recently_committed # << >>
  BY DEF ClockTypeOK, Cleanable
<1>2. Len(recently_committed) \in Nat /\ Len(recently_committed) >= 1
  BY <1>1, EmptySeq
<1>3. phase[u] \in Left /\ commit_id[u] # 0
  <2>1. 1 \in 1..Len(recently_committed)
    BY <1>2
  <2>2. u = recently_committed[1]
    BY <1>0
  <2> QED BY <2>1, <2>2 DEF ListInv
<1>4. e \in Kept /\ p # Nil /\ written_by[p] = u
  BY <1>0a DEF BufferInv
<1>5. p \in Kept /\ p > e /\ heap[p].child = e /\ heap[p].name = heap[e].name
  BY <1>0a, <1>4 DEF LinkInv
<1>6. heap[e].child = Nil
  <2> SUFFICES ASSUME heap[e].child # Nil PROVE FALSE
    OBVIOUS
  <2> DEFINE c == heap[e].child
             w == written_by[e]
  <2>1. c \in Kept /\ heap[c].parent = e
    BY <1>4 DEF LinkInv
  <2> HIDE DEF c
  <2>2. c < e /\ w \in Tx /\ e \in Nat /\ c \in Nat /\ p \in Nat /\ e # Nil
    <3>1. e \in Nat /\ c \in Nat /\ p \in Nat /\ e # Nil
      BY <1>4, <1>5, <2>1, HeapTypes
    <3>2. heap[c].parent > c /\ written_by[heap[c].parent] \in Tx
      BY <2>1, <3>1 DEF LinkInv
    <3> QED BY <2>1, <3>1, <3>2
  <2>3. \E k \in Pending(w) : undo[w][k].entry = c
    BY <2>1, <2>2, PendingWhere
  <2> HIDE DEF w
  <2>3a. PICK k \in Pending(w) : undo[w][k].entry = c
    BY <2>3
  <2>4. k \in 1..Len(undo[w]) /\ visited[u] \in Nat /\ visited[w] \in Nat
    BY <1>2, <2>2, <2>3a, BufferTypes
  <2>5. CASE w = u
    <3>1. k > visited[u]
      BY <1>3, <2>3a, <2>5 DEF Pending
    <3>2. k # l
      BY <1>0a, <2>2, <2>3a, <2>5
    <3>3. l < k
      BY <1>0, <2>4, <3>1, <3>2
    <3>4. heap[undo[u][l].entry].parent < heap[undo[u][k].entry].parent
      BY <1>0, <1>2, <2>3a, <2>5, <3>3 DEF BufferInv
    <3>5. p < e
      BY <1>0a, <2>1, <2>3a, <2>5, <3>4
    <3>6. \A x, y \in Nat : x > y => ~(x < y)
      OBVIOUS
    <3>7. e \in Nat /\ p \in Nat /\ p > e
      BY <1>4, <1>5, HeapTypes
    <3> QED BY <3>5, <3>6, <3>7
  <2>6. CASE w # u
    <3>1. commit_id[w] # 0 /\ commit_id[w] < commit_id[u]
      <4>1. w \notin {u, NoTx}
        BY <2>2, <2>6, TxAssumption
      <4>2. written_by[undo[u][l].entry] = w
        BY <1>0a DEF w
      <4> QED BY <1>0, <1>2, <1>3, <4>1, <4>2 DEF SuccessionInv
    <3>2. phase[w] # "committing"
      <4>1. transaction_lock = t
        BY DEF ClockInv, Ending
      <4> QED BY <2>2, <4>1 DEF ClockInv, Ending
    <3>3. phase[w] \in Left
      BY <2>2, <3>1, <3>2 DEF ClockTypeOK, ClockInv, Left
    <3>4. k > visited[w]
      BY <2>3a, <3>3 DEF Pending
    <3>5. visited[w] # Len(undo[w])
      <4>1. Len(undo[w]) \in Nat
        BY <2>2, BufferTypes
      <4> QED BY <2>4, <3>4, <4>1
    <3>6. PICK m \in 1..Len(recently_committed) : recently_committed[m] = w
      BY <2>2, <3>1, <3>3, <3>5 DEF VisitInv
    <3>7. m \in 1 + 1..Len(recently_committed)
      BY <1>0, <1>2, <2>6, <3>6
    <3>8. commit_id[u] < commit_id[w]
      <4>1. 1 \in 1..Len(recently_committed)
        BY <1>2
      <4> QED BY <1>0, <1>2, <3>6, <3>7, <4>1 DEF ListInv
    <3>9. commit_id[u] \in Nat /\ commit_id[w] \in Nat
      BY <1>2, <2>2 DEF ClockTypeOK
    <3> QED BY <3>1, <3>8, <3>9
  <2> QED BY <2>5, <2>6
<1> QED BY <1>2, <1>3, <1>4, <1>5, <1>6

\* A cleanup of the oldest commit, u's, destroyed entry e behind version p.
Destroyed(t, u, e, p) ==
    /\ phase[t] = "cleaning" /\ Cleanable
    /\ u = recently_committed[1] /\ phase[u] \in Left /\ commit_id[u] # 0
    /\ visited[u] + 1 \in Pending(u) /\ undo[u][visited[u] + 1].entry = e
    /\ e \in Kept /\ p \in Kept /\ heap[e].parent = p /\ p > e
    /\ written_by[p] = u /\ heap[p].child = e /\ heap[p].name = heap[e].name
    /\ heap[e].child = Nil
    /\ Entry' = Entry
    /\ \A x \in Entry :
        /\ heap'[x].name = heap[x].name /\ heap'[x].deleted = heap[x].deleted
        /\ heap'[x].timestamp = heap[x].timestamp /\ heap'[x].parent = heap[x].parent
        /\ heap'[x].child = IF x = p THEN Nil ELSE heap[x].child
    /\ freed' = freed \cup {e}
    /\ visited' = [visited EXCEPT ![u] = visited[u] + 1]
    /\ UNCHANGED <<transactions, phase, issued, catalog_lock, data, written_by, lookup,
                   undo>>

LEMMA CleanupFacts ==
    ASSUME ClockTypeOK, EntryTypeOK, BufferTypeOK, ClockInv, ListInv, VisitInv,
           LinkInv, PendingInv, BufferInv, SuccessionInv, WriterInv,
           NEW t \in Tx, CleanupEntry(t), IsCatalog(Head(recently_committed))
    PROVE  /\ EntryTypeOK' /\ BufferTypeOK'
           /\ \E u \in Tx : \E e, p \in Entry : Destroyed(t, u, e, p)
<1> DEFINE u == Head(recently_committed)
           e == NextEntry(u).entry
           p == heap[e].parent
<1>1. /\ phase[t] = "cleaning" /\ Cleanable /\ visited[u] < Len(undo[u])
      /\ heap' = [heap EXCEPT ![p].child = heap[e].child] /\ freed' = freed \cup {e}
      /\ visited' = [visited EXCEPT ![u] = visited[u] + 1]
      /\ UNCHANGED <<transactions, phase, issued, catalog_lock, data, written_by, lookup,
                     undo>>
  BY DEF CleanupEntry, Destroy
<1>2. u \in Tx
  <2>1. recently_committed \in Seq(Tx) /\ recently_committed # << >>
    BY <1>1 DEF ClockTypeOK, Cleanable
  <2> QED BY <2>1, HeadTailProperties
<1>3. visited[u] + 1 \in Pending(u) /\ undo[u][visited[u] + 1].entry = e
  <2>1. visited[u] \in Nat /\ Len(undo[u]) \in Nat
    BY <1>2, BufferTypes
  <2>2. visited[u] + 1 \in 1..Len(undo[u]) /\ visited[u] + 1 > visited[u]
    BY <1>1, <2>1
  <2>3. undo[u][visited[u] + 1].type = "CATALOG_ENTRY"
    BY DEF IsCatalog, NextEntry
  <2> HIDE DEF u
  <2> QED BY <2>2, <2>3 DEF Pending, NextEntry
<1>4. /\ u = recently_committed[1] /\ phase[u] \in Left /\ commit_id[u] # 0
      /\ e \in Kept /\ p \in Kept /\ p > e
      /\ written_by[p] = u /\ heap[p].child = e /\ heap[p].name = heap[e].name
      /\ heap[e].child = Nil
  <2>1. e \in Entry
    BY <1>2, <1>3, BufferTypes
  <2>2. e \in Nat /\ p \in Nat
    BY <2>1, HeapTypes DEF Nil
  <2>3. Refers(u, visited[u] + 1, e, p)
    <3>1. undo[u][visited[u] + 1].type = "CATALOG_ENTRY"
      BY <1>3 DEF Pending
    <3> QED BY <1>3, <3>1 DEF Refers
  <2>4. phase[t] = "cleaning" /\ Cleanable
    BY <1>1
  <2>5. u = recently_committed[1]
    <3>1. recently_committed \in Seq(Tx) /\ recently_committed # << >>
      BY <1>1 DEF ClockTypeOK, Cleanable
    <3> QED BY <3>1
  <2> DEFINE l == visited[u] + 1
  <2>6. l \in Pending(u) /\ l \in Nat /\ IsNext(u, l) /\ Refers(u, l, e, p)
    BY <1>2, <1>3, <2>3, <2>5, BufferTypes DEF IsNext
  <2> HIDE DEF e, p, u, l
  <2> QED BY <1>2, <2>2, <2>4, <2>5, <2>6, NextIsLast
<1>5. p \in Entry /\ e \in Entry /\ heap[e].child \in Entry \cup {Nil}
  BY <1>4, HeapTypes
<1> HIDE DEF e, p, u
<1>6. /\ heap' \in Seq(VersionType(Len(heap))) /\ Len(heap') = Len(heap) /\ Entry' = Entry
      /\ \A x \in Entry :
           /\ heap'[x].name = heap[x].name /\ heap'[x].deleted = heap[x].deleted
           /\ heap'[x].timestamp = heap[x].timestamp /\ heap'[x].parent = heap[x].parent
           /\ heap'[x].child = IF x = p THEN heap[e].child ELSE heap[x].child
  BY <1>1, <1>5, ChildFacts
<1>7. EntryTypeOK'
  <2>1. Entry = 1..Len(heap)
    BY HeapTypes
  <2> QED BY <1>1, <1>5, <1>6, <2>1 DEF EntryTypeOK, VersionType
<1>8. BufferTypeOK'
  BY <1>1, <1>2, <1>6, VisitFacts
<1>9. heap[e].parent = p
  BY DEF p
<1>10. Destroyed(t, u, e, p)
  BY <1>1, <1>3, <1>4, <1>6, <1>9 DEF Destroyed
<1> QED BY <1>2, <1>5, <1>7, <1>8, <1>10

\* No version comes or goes, and none is stamped: the entries and what is
\* pending in each buffer stay as they are.
Same ==
    /\ Entry' = Entry
    /\ UNCHANGED <<data, heap, freed, written_by>>
    /\ \A u \in Tx :
        /\ Pending(u)' = Pending(u)
        /\ \A i \in Pending(u) :
            /\ undo'[u][i].entry = undo[u][i].entry
            /\ phase'[u] = "committing" => (i <= visited'[u] <=> i <= visited[u])

\* Steps that change no buffer, or put a tuple into one.
LEMMA StatementSame ==
    ASSUME ClockTypeOK, EntryTypeOK, BufferTypeOK, NEW t \in Tx, StatementStep(t),
           CurrentInv, UNCHANGED <<data, heap, freed, written_by>>,
           UNCHANGED buffers \/ AppendToTable(t)
    PROVE  Same /\ EntryTypeOK' /\ BufferTypeOK'
<1>1. Entry' = Entry /\ EntryTypeOK'
  BY DEF Entry, EntryTypeOK
<1>2. \A u \in Tx : phase'[u] \in Left <=> phase[u] \in Left
  <2>1. \A u \in Tx : phase'[u] = phase[u] \/ {phase[u], phase'[u]} \subseteq Running
    BY QuietSteps
  <2> QED BY <2>1 DEF Left, Running
<1>3. CASE UNCHANGED buffers
  <2>1. BufferTypeOK' /\ undo' = undo /\ visited' = visited
    BY <1>1, <1>3 DEF BufferTypeOK, buffers
  <2> QED BY <1>1, <1>2, <2>1 DEF Same, Pending
<1>4. CASE AppendToTable(t)
  <2>1. phase[t] = "found" /\ PushUndo(t, "TUPLE_ENTRY", current[t])
    BY <1>4 DEF AppendToTable
  <2>2. current[t] \in Entry'
    BY <1>1, <2>1, HeapTypes DEF CurrentInv, CurrentOf
  <2>3. /\ BufferTypeOK' /\ visited' = visited
        /\ \A u \in Tx \ {t} : undo'[u] = undo[u]
        /\ Len(undo'[t]) = Len(undo[t]) + 1
        /\ \A i \in 1..Len(undo[t]) : undo'[t][i] = undo[t][i]
        /\ undo'[t][Len(undo[t]) + 1].type = "TUPLE_ENTRY"
    BY <1>1, <2>1, <2>2, PushUndoFacts
  <2>4. \A u \in Tx : Len(undo[u]) \in Nat
    BY BufferTypes
  <2>5. \A u \in Tx \ {t} : Pending(u)' = Pending(u)
    BY <1>2, <2>3 DEF Pending
  <2>6. Pending(t)' = Pending(t)
    <3>1. 1..Len(undo'[t]) = (1..Len(undo[t])) \cup {Len(undo[t]) + 1}
      BY <2>3, <2>4
    <3> QED BY <1>2, <2>3, <3>1 DEF Pending
  <2>7. \A u \in Tx : \A i \in Pending(u) : undo'[u][i].entry = undo[u][i].entry
    BY <2>3 DEF Pending
  <2> QED BY <1>1, <2>3, <2>5, <2>6, <2>7 DEF Same
<1> QED BY <1>3, <1>4

\* Every step is one of these.
StatementSteps ==
    \/ \E t \in Tx : StatementStep(t) /\ Same
    \/ \E t \in Tx, n \in Name : \E e, v \in Nat :
        StatementStep(t) /\ phase[t] \in {"ready", "found"} /\ catalog_lock = NoTx
        /\ Pushed(t, n, e, v)

LEMMA StatementFacts ==
    ASSUME ClockTypeOK, EntryTypeOK, BufferTypeOK, GapInv, CurrentInv,
           NEW t \in Tx, StatementStep(t)
    PROVE  EntryTypeOK' /\ BufferTypeOK' /\ StatementSteps
<1>1. ASSUME UNCHANGED <<data, heap, freed, written_by>>, UNCHANGED buffers \/ AppendToTable(t)
      PROVE  EntryTypeOK' /\ BufferTypeOK' /\ StatementSteps
  BY <1>1, StatementSame DEF StatementSteps
<1>2. ASSUME NEW n \in Name, NEW e \in Nat, NEW v \in Nat, Pushed(t, n, e, v), EntryTypeOK',
             phase[t] \in {"ready", "found"}, catalog_lock = NoTx
      PROVE  EntryTypeOK' /\ BufferTypeOK' /\ StatementSteps
  <2>1. e \in Entry' /\ Entry \subseteq Entry' /\ PushUndo(t, "CATALOG_ENTRY", e)
    BY <1>2 DEF Pushed
  <2>2. BufferTypeOK'
    BY <2>1, PushUndoFacts
  <2> QED BY <1>2, <2>2 DEF StatementSteps
<1>3. CASE \E n \in Name : \E use \in {"drop", "insert"} : BeginLookup(t, n, use)
  BY <1>1, <1>3 DEF BeginLookup, entries
<1>4. CASE Walk(t)
  BY <1>1, <1>4 DEF Walk, entries
<1>5. CASE EndLookup(t)
  BY <1>1, <1>5 DEF EndLookup, entries
<1>6. CASE AppendToTable(t)
  BY <1>1, <1>6 DEF AppendToTable, entries
<1>7. ASSUME NEW n \in Name, CreateEntry(t, n)
      PROVE  EntryTypeOK' /\ BufferTypeOK' /\ StatementSteps
  <2>1. phase[t] = "ready" /\ catalog_lock = NoTx
    BY <1>7 DEF CreateEntry
  <2>2. \/ UNCHANGED <<entries, buffers>>
        \/ \E e, v \in Nat : Pushed(t, n, e, v) /\ EntryTypeOK'
    BY <1>7, CreateFacts
  <2> QED BY <1>1, <1>2, <2>1, <2>2 DEF entries
<1>8. CASE DropEntry(t)
  <2>1. phase[t] = "found" /\ catalog_lock = NoTx
    BY <1>8 DEF DropEntry
  <2>2. \/ UNCHANGED <<entries, buffers>>
        \/ \E n \in Name : \E e, v \in Nat : Pushed(t, n, e, v) /\ EntryTypeOK'
    BY <1>8, DropFacts
  <2> QED BY <1>1, <1>2, <2>1, <2>2 DEF entries
<1> QED BY <1>3, <1>4, <1>5, <1>6, <1>7, <1>8 DEF StatementStep

EndStep(t) ==
    \/ StartTransaction(t) \/ CommitTransaction(t) \/ RollbackTransaction(t)
    \/ BeginRemove(t) \/ CleanupDone(t) \/ EndRemove(t)

\* A transaction moves on, with its buffer as it is.
LEMMA EndSame ==
    ASSUME ClockTypeOK, EntryTypeOK, BufferTypeOK, VisitInv, NEW t \in Tx, EndStep(t)
    PROVE  Same /\ EntryTypeOK' /\ BufferTypeOK'
<1>1. UNCHANGED <<data, heap, freed, written_by, undo>>
  BY DEF EndStep, StartTransaction, CommitTransaction, RollbackTransaction, BeginRemove,
         CleanupDone, EndRemove, entries, buffers
<1>2. Entry' = Entry /\ EntryTypeOK'
  BY <1>1 DEF Entry, EntryTypeOK
<1>3. CASE BeginRemove(t)
  <2>1. /\ visited' = [visited EXCEPT ![t] = 0] /\ phase' = [phase EXCEPT ![t] = "cleaning"]
        /\ phase[t] \in {"committing", "undoing"}
    BY <1>3 DEF BeginRemove, Goto
  <2>2. BufferTypeOK'
    BY <1>1, <1>2, <2>1 DEF BufferTypeOK
  <2>3. \A u \in Tx \ {t} : visited'[u] = visited[u] /\ phase'[u] = phase[u]
    BY <2>1 DEF BufferTypeOK, ClockTypeOK
  <2>4. \A u \in Tx \ {t} : Pending(u)' = Pending(u)
    BY <1>1, <2>3 DEF Pending
  <2>5. Pending(t)' = Pending(t)
    <3>1. visited'[t] = 0 /\ phase[t] \notin Left
      BY <2>1 DEF BufferTypeOK, Left
    <3>2. \A i \in 1..Len(undo[t]) : i > 0
      BY BufferTypes
    <3> QED BY <1>1, <3>1, <3>2 DEF Pending
  <2>6. phase'[t] # "committing"
    BY <2>1 DEF ClockTypeOK
  <2> QED BY <1>1, <1>2, <2>2, <2>3, <2>4, <2>5, <2>6 DEF Same
<1>4. CASE ~BeginRemove(t)
  <2>1. visited' = visited
    BY <1>4 DEF EndStep, StartTransaction, CommitTransaction, RollbackTransaction, CleanupDone,
                EndRemove, buffers
  <2>2. BufferTypeOK'
    BY <1>1, <1>2, <2>1 DEF BufferTypeOK
  <2>3. \A u \in Tx : phase'[u] \in Left <=> phase[u] \in Left
    BY <1>4 DEF EndStep, StartTransaction, CommitTransaction, RollbackTransaction, CleanupDone,
                EndRemove, Goto, ClockTypeOK, Left
  <2> QED BY <1>1, <1>2, <2>1, <2>2, <2>3 DEF Same, Pending
<1> QED BY <1>3, <1>4

\* A loop passes a tuple.
LEMMA TupleSame ==
    ASSUME ClockTypeOK, EntryTypeOK, BufferTypeOK, NEW t \in Tx,
           \/ CommitEntry(t) /\ ~IsCatalog(t)
           \/ UndoEntry(t) /\ undo[t][Youngest(t)].type # "CATALOG_ENTRY"
           \/ CleanupEntry(t) /\ ~IsCatalog(Head(recently_committed))
    PROVE  Same /\ EntryTypeOK' /\ BufferTypeOK'
<1>1. UNCHANGED <<data, heap, freed, written_by, phase>>
  BY DEF CommitEntry, Stamp, UndoEntry, CleanupEntry, entries
<1>2. Entry' = Entry /\ EntryTypeOK'
  BY <1>1 DEF Entry, EntryTypeOK
<1>3. ASSUME NEW u \in Tx, ~IsCatalog(u), undo' = undo,
             visited' = [visited EXCEPT ![u] = @ + 1]
      PROVE  Same /\ EntryTypeOK' /\ BufferTypeOK'
  <2>1. BufferTypeOK'
    BY <1>2, <1>3, VisitFacts
  <2>2. \A w \in Tx \ {u} : visited'[w] = visited[w]
    BY <1>3 DEF BufferTypeOK
  <2>3. visited'[u] = visited[u] + 1 /\ visited[u] \in Nat
    BY <1>3 DEF BufferTypeOK
  <2>4. \A i \in 1..Len(undo[u]) :
            undo[u][i].type = "CATALOG_ENTRY" => (i > visited'[u] <=> i > visited[u])
    <3>1. undo[u][visited[u] + 1].type # "CATALOG_ENTRY"
      BY <1>3 DEF IsCatalog, NextEntry
    <3>2. \A i \in 1..Len(undo[u]) :
              i # visited[u] + 1 => (i > visited[u] + 1 <=> i > visited[u])
      BY <2>3, BufferTypes
    <3> QED BY <2>3, <3>1, <3>2
  <2>5. \A w \in Tx : Pending(w)' = Pending(w)
    <3>1. Pending(u)' = Pending(u)
      BY <1>1, <1>3, <2>4 DEF Pending
    <3>2. \A w \in Tx \ {u} : Pending(w)' = Pending(w)
      BY <1>1, <1>3, <2>2 DEF Pending
    <3> QED BY <3>1, <3>2
  <2>6. \A i \in Pending(u) : i <= visited'[u] <=> i <= visited[u]
    <3>1. \A i \in Pending(u) : i \in Nat /\ (i > visited'[u] <=> i > visited[u])
      BY <2>4, BufferTypes DEF Pending
    <3> QED BY <2>3, <3>1
  <2> QED BY <1>1, <1>2, <1>3, <2>1, <2>2, <2>5, <2>6 DEF Same
<1>4. CASE CommitEntry(t) /\ ~IsCatalog(t)
  BY <1>3, <1>4 DEF CommitEntry
<1>5. CASE CleanupEntry(t) /\ ~IsCatalog(Head(recently_committed))
  <2>1. Head(recently_committed) \in Tx
    <3>1. recently_committed \in Seq(Tx) /\ recently_committed # << >>
      BY <1>5 DEF ClockTypeOK, CleanupEntry, Cleanable
    <3> QED BY <3>1, HeadTailProperties
  <2> QED BY <1>3, <1>5, <2>1 DEF CleanupEntry
<1>6. CASE UndoEntry(t) /\ undo[t][Youngest(t)].type # "CATALOG_ENTRY"
  <2>1. /\ undo[t] # << >> /\ visited' = visited /\ phase[t] = "undoing"
        /\ undo' = [undo EXCEPT ![t] = SubSeq(@, 1, Youngest(t) - 1)
                                           \o SubSeq(@, Youngest(t) + 1, Len(@))]
    BY <1>6 DEF UndoEntry
  <2>2. /\ BufferTypeOK'
        /\ \A u \in Tx \ {t} : undo'[u] = undo[u]
        /\ Len(undo[t]) \in Nat \ {0} /\ Len(undo'[t]) = Len(undo[t]) - 1
        /\ \A i \in 1..Len(undo[t]) - 1 : undo'[t][i] = undo[t][i]
    BY <1>2, <2>1, PopUndoFacts
  <2>3. \A u \in Tx \ {t} : Pending(u)' = Pending(u)
    BY <1>1, <2>1, <2>2 DEF Pending
  <2>4. Pending(t)' = Pending(t) /\ Pending(t) \subseteq 1..Len(undo[t]) - 1
    <3>1. undo[t][Len(undo[t])].type # "CATALOG_ENTRY"
      BY <1>6 DEF Youngest
    <3>2. 1..Len(undo[t]) = (1..Len(undo[t]) - 1) \cup {Len(undo[t])}
      BY <2>2
    <3>3. Pending(t) \subseteq 1..Len(undo[t]) - 1
      BY <3>1, <3>2 DEF Pending
    <3>4. 1..Len(undo'[t]) = 1..Len(undo[t]) - 1
      BY <2>2
    <3>5. phase[t] \notin Left /\ phase'[t] \notin Left
      BY <1>1, <2>1 DEF Left
    <3> QED BY <2>2, <3>3, <3>4, <3>5 DEF Pending
  <2>5. \A u \in Tx : \A i \in Pending(u) : undo'[u][i].entry = undo[u][i].entry
    BY <2>2, <2>4
  <2> QED BY <1>1, <1>2, <2>1, <2>2, <2>3, <2>4, <2>5 DEF Same
<1> QED BY <1>4, <1>5, <1>6

\* The loops over buffers, one entry.
LEMMA LoopFacts ==
    ASSUME ClockTypeOK, EntryTypeOK, BufferTypeOK, ClockInv, ListInv, VisitInv,
           LinkInv, PendingInv, BufferInv, SuccessionInv, WriterInv,
           NEW t \in Tx, LoopStep(t)
    PROVE  /\ EntryTypeOK' /\ BufferTypeOK'
           /\ \/ Same
              \/ \E e, p \in Entry : Stamped(t, e, p)
              \/ \E e, p \in Entry : Undone(t, e, p)
              \/ \E u \in Tx : \E e, p \in Entry : Destroyed(t, u, e, p)
BY CommitFacts, UndoFacts, CleanupFacts, TupleSame DEF LoopStep

-----------------------------------------------------------------------------
(* What is kept and what is pending after those steps. *)

LEMMA PushedSets ==
    ASSUME ClockTypeOK, EntryTypeOK, BufferTypeOK, NEW t \in Tx, NEW n \in Name,
           NEW e \in Nat, NEW v \in Nat, StatementStep(t),
           phase[t] \in {"ready", "found"}, Pushed(t, n, e, v)
    PROVE  /\ Kept' = (Kept \cup {v}) \cup {x \in {e} : x \notin freed} /\ v \notin Kept
           /\ \A u \in Tx \ {t} : Pending(u)' = Pending(u)
           /\ Pending(t)' = Pending(t) \cup {Len(undo[t]) + 1}
           /\ \A u \in Tx : \A i \in Pending(u) : undo'[u][i].entry = undo[u][i].entry
           /\ undo'[t][Len(undo[t]) + 1].entry = e
           /\ Len(undo[t]) \in Nat /\ \A i \in Pending(t) : i \in Nat /\ i < Len(undo[t]) + 1
<1>1. \A u \in Tx : phase'[u] = phase[u] \/ {phase[u], phase'[u]} \subseteq Running
  BY QuietSteps
<1>2. (\A u \in Tx : phase'[u] \in Left <=> phase[u] \in Left) /\ phase[t] \notin Left
  BY <1>1 DEF Left, Running
<1>3. e \in Entry' /\ Entry \subseteq Entry' /\ PushUndo(t, "CATALOG_ENTRY", e)
  BY DEF Pushed
<1>4. /\ visited' = visited /\ \A u \in Tx \ {t} : undo'[u] = undo[u]
      /\ Len(undo'[t]) = Len(undo[t]) + 1
      /\ \A i \in 1..Len(undo[t]) : undo'[t][i] = undo[t][i]
      /\ undo'[t][Len(undo[t]) + 1].type = "CATALOG_ENTRY"
      /\ undo'[t][Len(undo[t]) + 1].entry = e
  BY <1>3, PushUndoFacts
<1>5. Len(undo[t]) \in Nat /\ \A i \in Pending(t) : i \in Nat /\ i < Len(undo[t]) + 1
  BY BufferTypes
<1>6. \A u \in Tx \ {t} : Pending(u)' = Pending(u)
  BY <1>2, <1>4 DEF Pending
<1>7. Pending(t)' = Pending(t) \cup {Len(undo[t]) + 1}
  <2>1. 1..Len(undo'[t]) = (1..Len(undo[t])) \cup {Len(undo[t]) + 1}
    BY <1>4, <1>5
  <2> QED BY <1>2, <1>4, <2>1 DEF Pending
<1>8. \A u \in Tx : \A i \in Pending(u) : undo'[u][i].entry = undo[u][i].entry
  BY <1>4 DEF Pending
<1>9. Kept' = (Kept \cup {v}) \cup {x \in {e} : x \notin freed} /\ v \notin Kept
  <2>1. freed' = freed /\ Entry' = Entry \cup {e, v} /\ v \notin Entry /\ freed \subseteq Entry
    BY HeapTypes DEF Pushed
  <2> QED BY <2>1 DEF Kept
<1> QED BY <1>4, <1>5, <1>6, <1>7, <1>8, <1>9

LEMMA StampedSets ==
    ASSUME EntryTypeOK, NEW t \in Tx, NEW e \in Entry, NEW p \in Entry, Stamped(t, e, p)
    PROVE  /\ Kept' = Kept
           /\ \A u \in Tx : Pending(u)' = Pending(u)
<1>1. Entry' = Entry /\ UNCHANGED <<freed, undo, phase>> /\ phase[t] \notin Left
      /\ visited' = [visited EXCEPT ![t] = visited[t] + 1]
  BY DEF Stamped, Left
<1>2. \A u \in Tx : phase[u] \in Left => visited'[u] = visited[u]
  BY <1>1
<1>3. \A u \in Tx : Pending(u)' = Pending(u)
  BY <1>1, <1>2 DEF Pending
<1> QED BY <1>1, <1>3 DEF Kept

LEMMA UndoneSets ==
    ASSUME EntryTypeOK, BufferTypeOK, NEW t \in Tx, NEW e \in Entry, NEW p \in Entry,
           Undone(t, e, p)
    PROVE  /\ Kept' = Kept \ {p}
           /\ \A u \in Tx \ {t} : Pending(u)' = Pending(u)
           /\ Pending(t)' = Pending(t) \ {Len(undo[t])}
           /\ \A u \in Tx : \A i \in Pending(u)' : undo'[u][i].entry = undo[u][i].entry
<1>1. /\ Entry' = Entry /\ freed' = freed \cup {p} /\ UNCHANGED <<phase, visited>>
      /\ phase[t] \notin Left
      /\ \A u \in Tx \ {t} : undo'[u] = undo[u]
      /\ Len(undo'[t]) = Len(undo[t]) - 1
      /\ \A i \in 1..Len(undo[t]) - 1 : undo'[t][i] = undo[t][i]
  BY DEF Undone, Left
<1>2. \A u \in Tx \ {t} : Pending(u)' = Pending(u)
  BY <1>1 DEF Pending
<1>3. 1..Len(undo'[t]) = (1..Len(undo[t])) \ {Len(undo[t])}
  BY <1>1, BufferTypes
<1>4. Pending(t)' = Pending(t) \ {Len(undo[t])}
  BY <1>1, <1>3 DEF Pending
<1>5. \A i \in Pending(t)' : undo'[t][i] = undo[t][i]
  BY <1>1 DEF Pending
<1> QED BY <1>1, <1>2, <1>4, <1>5 DEF Kept

LEMMA DestroyedSets ==
    ASSUME EntryTypeOK, BufferTypeOK, NEW t \in Tx, NEW u \in Tx, NEW e \in Entry,
           NEW p \in Entry, Destroyed(t, u, e, p)
    PROVE  /\ Kept' = Kept \ {e}
           /\ \A w \in Tx \ {u} : Pending(w)' = Pending(w)
           /\ Pending(u)' = Pending(u) \ {visited[u] + 1}
<1>1. /\ Entry' = Entry /\ freed' = freed \cup {e} /\ UNCHANGED <<phase, undo>>
      /\ phase[u] \in Left /\ visited' = [visited EXCEPT ![u] = visited[u] + 1]
  BY DEF Destroyed
<1>2. visited'[u] = visited[u] + 1 /\ visited[u] \in Nat
      /\ \A w \in Tx \ {u} : visited'[w] = visited[w]
  BY <1>1 DEF BufferTypeOK
<1>3. \A w \in Tx \ {u} : Pending(w)' = Pending(w)
  BY <1>1, <1>2 DEF Pending
<1>4. \A i \in 1..Len(undo[u]) : i > visited[u] + 1 <=> i > visited[u] /\ i # visited[u] + 1
  BY <1>2, BufferTypes
<1>5. Pending(u)' = Pending(u) \ {visited[u] + 1}
  BY <1>1, <1>2, <1>4 DEF Pending
<1> QED BY <1>1, <1>3, <1>5 DEF Kept

\* No entry is in the buffers twice.
LEMMA PendingOnce ==
    ASSUME EntryTypeOK, BufferTypeOK, BufferInv, NEW u \in Tx, NEW w \in Tx,
           NEW i \in Pending(u), NEW j \in Pending(w), undo[u][i].entry = undo[w][j].entry
    PROVE  u = w /\ i = j
<1>1. u = w
  BY DEF BufferInv
<1>2. i \in Nat /\ j \in Nat /\ undo[u][i].entry \in Kept
  BY BufferTypes DEF BufferInv
<1>3. heap[undo[u][i].entry].parent \in Nat
  BY <1>2, HeapTypes DEF Nil
<1>4. ~(i < j)
  BY <1>1, <1>3 DEF BufferInv
<1>5. ~(j < i)
  BY <1>1, <1>3 DEF BufferInv
<1> QED BY <1>1, <1>2, <1>4, <1>5

-----------------------------------------------------------------------------
(* The chains, step by step. *)

LEMMA ChainSame ==
    ASSUME EntryTypeOK, ChainInv, Same
    PROVE  ChainInv'
<1>1. Kept' = Kept /\ UNCHANGED <<data, heap, written_by>>
  BY DEF Same, Kept
<1>2. NewestInv'
  BY <1>1 DEF ChainInv, NewestInv
<1>3. LinkInv'
  BY <1>1 DEF ChainInv, LinkInv
<1>4. PendingInv'
  BY <1>1 DEF ChainInv, PendingInv, Same
<1>5. BufferInv'
  <2> SUFFICES ASSUME NEW u \in Tx, NEW i \in Pending(u)
               PROVE  /\ undo'[u][i].entry \in Kept
                      /\ heap[undo'[u][i].entry].parent # Nil
                      /\ written_by[heap[undo'[u][i].entry].parent] = u
                      /\ \A j \in Pending(u) : i < j =>
                            heap[undo'[u][i].entry].parent < heap[undo'[u][j].entry].parent
    BY <1>1 DEF BufferInv, Same
  <2>1. \A j \in Pending(u) : undo'[u][j].entry = undo[u][j].entry
    BY DEF Same
  <2> QED BY <2>1 DEF ChainInv, BufferInv
<1> QED BY <1>2, <1>3, <1>4, <1>5 DEF ChainInv

\* A version is added in front of the newest one.
LEMMA ChainPushed ==
    ASSUME ClockTypeOK, EntryTypeOK, BufferTypeOK, ChainInv, NEW t \in Tx, NEW n \in Name,
           NEW e \in Nat, NEW v \in Nat, StatementStep(t),
           phase[t] \in {"ready", "found"}, Pushed(t, n, e, v)
    PROVE  ChainInv'
<1>1. /\ Kept' = (Kept \cup {v}) \cup {x \in {e} : x \notin freed} /\ v \notin Kept
      /\ \A u \in Tx \ {t} : Pending(u)' = Pending(u)
      /\ Pending(t)' = Pending(t) \cup {Len(undo[t]) + 1}
      /\ \A u \in Tx : \A i \in Pending(u) : undo'[u][i].entry = undo[u][i].entry
      /\ undo'[t][Len(undo[t]) + 1].entry = e
      /\ Len(undo[t]) \in Nat /\ \A i \in Pending(t) : i \in Nat /\ i < Len(undo[t]) + 1
  BY PushedSets
<1>2. /\ e # Nil /\ e < v /\ v # Nil /\ e # v
      /\ heap'[e].name = n /\ heap'[e].parent = v
      /\ heap'[v].name = n /\ heap'[v].child = e /\ heap'[v].parent = Nil
      /\ written_by'[v] = t /\ v \notin Entry
      /\ data'[n] = v /\ \A m \in Name \ {n} : data'[m] = data[m]
  <2>1. e # Nil /\ e < v /\ v # Nil /\ e # v
    BY DEF Pushed, Nil
  <2>2. heap'[e].name = n
    <3>1. e \in Entry => e = data[n]
      BY DEF Pushed
    <3>2. e \in Entry => heap'[e].name = heap[e].name
      BY DEF Pushed
    <3>3. e \in Entry => heap[e].name = n
      BY <2>1, <3>1 DEF ChainInv, NewestInv
    <3>4. e \notin Entry => heap'[e].name = n
      BY DEF Pushed
    <3> QED BY <3>2, <3>3, <3>4
  <2>3. data'[n] = v /\ \A m \in Name \ {n} : data'[m] = data[m]
    BY DEF Pushed, EntryTypeOK
  <2> QED BY <2>1, <2>2, <2>3 DEF Pushed
<1>3. e \in Entry => e = data[n] /\ e \in Kept /\ heap[e].parent = Nil /\ heap'[e].child = heap[e].child
  BY <1>2 DEF Pushed, ChainInv, NewestInv
<1>4. e \notin Entry => data[n] = Nil /\ heap'[e].child = Nil /\ e \notin Kept
  BY HeapTypes DEF Pushed
<1>5. Kept' = Kept \cup {e, v}
  BY <1>1, <1>3, HeapTypes
<1>6. \A x \in Kept :
        /\ x \in Entry /\ x < v /\ x # v
        /\ heap'[x].name = heap[x].name /\ heap'[x].child = heap[x].child
        /\ heap'[x].parent = IF x = e THEN v ELSE heap[x].parent
        /\ written_by'[x] = written_by[x]
  BY HeapTypes DEF Pushed
<1>7. NewestInv'
  <2> SUFFICES ASSUME NEW m \in Name, data'[m] # Nil
               PROVE  data'[m] \in Kept' /\ heap'[data'[m]].name = m /\ heap'[data'[m]].parent = Nil
    BY DEF NewestInv
  <2>1. CASE m = n
    BY <1>2, <1>5, <2>1
  <2>2. CASE m # n
    <3>1. data'[m] = data[m] /\ data[m] \in Kept /\ heap[data[m]].name = m
          /\ heap[data[m]].parent = Nil
      BY <1>2, <2>2 DEF ChainInv, NewestInv
    <3>2. data[m] # e
      BY <1>2, <1>6, <2>2, <3>1
    <3> QED BY <1>5, <1>6, <3>1, <3>2
  <2> QED BY <2>1, <2>2
<1>8. LinkInv'
  <2> SUFFICES ASSUME NEW x \in Kept'
               PROVE  /\ heap'[x].parent = Nil => data'[heap'[x].name] = x
                      /\ heap'[x].parent # Nil =>
                          /\ heap'[x].parent \in Kept'
                          /\ heap'[x].parent > x
                          /\ heap'[heap'[x].parent].child = x
                          /\ heap'[heap'[x].parent].name = heap'[x].name
                          /\ written_by'[heap'[x].parent] \in Tx
                      /\ heap'[x].child # Nil =>
                          heap'[x].child \in Kept' /\ heap'[heap'[x].child].parent = x
    BY DEF LinkInv
  <2>1. CASE x = v
    BY <1>2, <1>5, <2>1
  <2>2. CASE x = e
    <3>1. heap'[x].parent = v /\ v \in Kept' /\ v > x /\ heap'[v].child = x
          /\ heap'[v].name = heap'[x].name /\ written_by'[v] \in Tx /\ v # Nil
      BY <1>2, <1>5, <2>2
    <3>2. ASSUME heap'[x].child # Nil
          PROVE  heap'[x].child \in Kept' /\ heap'[heap'[x].child].parent = x
      <4>1. e \in Kept /\ heap'[x].child = heap[e].child /\ heap[e].child # Nil
        BY <1>3, <1>4, <2>2, <3>2
      <4>2. heap[e].child \in Kept /\ heap[heap[e].child].parent = e
        BY <4>1 DEF ChainInv, LinkInv
      <4>3. heap[e].child # e
        BY <1>2, <1>3, <4>1, <4>2, HeapTypes
      <4> QED BY <1>5, <1>6, <2>2, <4>1, <4>2, <4>3
    <3> QED BY <3>1, <3>2
  <2>3. CASE x # v /\ x # e
    <3>1. x \in Kept /\ x \in Entry
      BY <1>5, <1>6, <2>3
    <3>2. heap'[x].name = heap[x].name /\ heap'[x].child = heap[x].child
          /\ heap'[x].parent = heap[x].parent
      BY <1>6, <2>3, <3>1
    <3>3. heap'[x].parent = Nil => data'[heap'[x].name] = x
      <4>1. heap'[x].parent = Nil => data[heap[x].name] = x /\ heap[x].name \in Name
        BY <3>1, <3>2, HeapTypes DEF ChainInv, LinkInv
      <4>2. x # Nil /\ data[n] # x
        BY <1>3, <1>4, <2>3, <3>1, HeapTypes DEF Pushed
      <4> QED BY <1>2, <3>2, <4>1, <4>2
    <3>4. ASSUME heap[x].parent # Nil
          PROVE  /\ heap[x].parent \in Kept'
                 /\ heap[x].parent > x
                 /\ heap'[heap[x].parent].child = x
                 /\ heap'[heap[x].parent].name = heap[x].name
                 /\ written_by'[heap[x].parent] \in Tx
      <4>1. /\ heap[x].parent \in Kept /\ heap[x].parent > x /\ heap[heap[x].parent].child = x
            /\ heap[heap[x].parent].name = heap[x].name /\ written_by[heap[x].parent] \in Tx
        BY <3>1, <3>4 DEF ChainInv, LinkInv
      <4> QED BY <1>5, <1>6, <4>1
    <3>5. ASSUME heap[x].child # Nil
          PROVE  heap[x].child \in Kept' /\ heap'[heap[x].child].parent = x
      <4>1. heap[x].child \in Kept /\ heap[heap[x].child].parent = x
        BY <3>1, <3>5 DEF ChainInv, LinkInv
      <4>2. heap[x].child # e
        BY <1>3, <4>1, <3>1, HeapTypes
      <4> QED BY <1>5, <1>6, <4>1, <4>2
    <3> QED BY <3>2, <3>3, <3>4, <3>5
  <2> QED BY <2>1, <2>2, <2>3
<1>9. PendingInv'
  <2> SUFFICES ASSUME NEW x \in Kept', heap'[x].parent # Nil
               PROVE  \E u \in Tx : \E i \in Pending(u)' : undo'[u][i].entry = x
    BY DEF PendingInv
  <2>1. CASE x = e
    BY <1>1, <2>1
  <2>2. CASE x # e
    <3>1. x \in Kept /\ heap[x].parent # Nil
      BY <1>2, <1>5, <1>6, <2>2
    <3>2. PICK u \in Tx : \E i \in Pending(u) : undo[u][i].entry = x
      BY <3>1 DEF ChainInv, PendingInv
    <3>3. PICK i \in Pending(u) : undo[u][i].entry = x
      BY <3>2
    <3>4. i \in Pending(u)' /\ undo'[u][i].entry = x
      BY <1>1, <3>3
    <3> QED BY <3>4
  <2> QED BY <2>1, <2>2
<1>10. BufferInv'
  <2>1. ASSUME NEW u \in Tx, NEW i \in Pending(u)
        PROVE  /\ undo'[u][i].entry \in Kept' /\ undo'[u][i].entry = undo[u][i].entry
               /\ heap'[undo'[u][i].entry].parent = heap[undo[u][i].entry].parent
               /\ heap[undo[u][i].entry].parent # Nil
               /\ heap[undo[u][i].entry].parent < v
               /\ written_by'[heap'[undo'[u][i].entry].parent] = u
    <3>1. /\ undo[u][i].entry \in Kept /\ heap[undo[u][i].entry].parent # Nil
          /\ written_by[heap[undo[u][i].entry].parent] = u
      BY <2>1 DEF ChainInv, BufferInv
    <3>2. heap[undo[u][i].entry].parent \in Kept
      BY <3>1 DEF ChainInv, LinkInv
    <3>3. undo[u][i].entry # e
      BY <1>3, <3>1, HeapTypes
    <3>4. undo'[u][i].entry = undo[u][i].entry
      BY <1>1, <2>1
    <3>5. heap'[undo'[u][i].entry].parent = heap[undo[u][i].entry].parent
      BY <1>6, <3>1, <3>3, <3>4
    <3> QED BY <1>5, <1>6, <3>1, <3>2, <3>4, <3>5
  <2>2. \A u \in Tx : \A i, j \in Pending(u) : i < j =>
            heap'[undo'[u][i].entry].parent < heap'[undo'[u][j].entry].parent
    <3> SUFFICES ASSUME NEW u \in Tx, NEW i \in Pending(u), NEW j \in Pending(u), i < j
                 PROVE  heap'[undo'[u][i].entry].parent < heap'[undo'[u][j].entry].parent
      OBVIOUS
    <3>1. heap[undo[u][i].entry].parent < heap[undo[u][j].entry].parent
      BY DEF ChainInv, BufferInv
    <3> QED BY <2>1, <3>1
  <2>3. /\ undo'[t][Len(undo[t]) + 1].entry = e /\ e \in Kept'
        /\ heap'[e].parent = v /\ v # Nil /\ written_by'[v] = t
    BY <1>1, <1>2, <1>5
  <2> SUFFICES ASSUME NEW u \in Tx, NEW i \in Pending(u)'
               PROVE  /\ undo'[u][i].entry \in Kept'
                      /\ heap'[undo'[u][i].entry].parent # Nil
                      /\ written_by'[heap'[undo'[u][i].entry].parent] = u
                      /\ \A j \in Pending(u)' : i < j =>
                            heap'[undo'[u][i].entry].parent < heap'[undo'[u][j].entry].parent
    BY DEF BufferInv
  <2>4. CASE i \in Pending(u)
    <3>1. \A j \in Pending(u)' : j \in Pending(u) \/ (u = t /\ j = Len(undo[t]) + 1)
      BY <1>1
    <3> QED BY <2>1, <2>2, <2>3, <2>4, <3>1
  <2>5. CASE u = t /\ i = Len(undo[t]) + 1
    <3>1. \A j \in Pending(u)' : ~(i < j)
      BY <1>1, <2>5
    <3> QED BY <2>3, <2>5, <3>1
  <2> QED BY <1>1, <2>4, <2>5
<1> QED BY <1>7, <1>8, <1>9, <1>10 DEF ChainInv

\* A version is stamped.
LEMMA ChainStamped ==
    ASSUME EntryTypeOK, BufferTypeOK, ChainInv, NEW t \in Tx, NEW e \in Entry, NEW p \in Entry,
           Stamped(t, e, p)
    PROVE  ChainInv'
<1>1. Kept' = Kept /\ \A u \in Tx : Pending(u)' = Pending(u)
  BY StampedSets
<1>2. UNCHANGED <<data, written_by, undo>>
      /\ \A x \in Kept : /\ x \in Entry /\ heap'[x].name = heap[x].name
                         /\ heap'[x].child = heap[x].child /\ heap'[x].parent = heap[x].parent
  BY HeapTypes DEF Stamped
<1>3. NewestInv'
  BY <1>1, <1>2 DEF ChainInv, NewestInv
<1>4. LinkInv'
  BY <1>1, <1>2 DEF ChainInv, LinkInv
<1>5. PendingInv'
  BY <1>1, <1>2 DEF ChainInv, PendingInv
<1>6. BufferInv'
  <2>1. \A u \in Tx : \A i \in Pending(u) :
            heap'[undo'[u][i].entry].parent = heap[undo[u][i].entry].parent
    BY <1>2 DEF ChainInv, BufferInv
  <2> QED BY <1>1, <1>2, <2>1 DEF ChainInv, BufferInv
<1> QED BY <1>3, <1>4, <1>5, <1>6 DEF ChainInv

\* The newest version is undone.
LEMMA ChainUndone ==
    ASSUME EntryTypeOK, BufferTypeOK, ChainInv, NEW t \in Tx, NEW e \in Entry, NEW p \in Entry,
           Undone(t, e, p)
    PROVE  ChainInv'
<1>1. /\ Kept' = Kept \ {p}
      /\ \A u \in Tx \ {t} : Pending(u)' = Pending(u)
      /\ Pending(t)' = Pending(t) \ {Len(undo[t])}
      /\ \A u \in Tx : \A i \in Pending(u)' : undo'[u][i].entry = undo[u][i].entry
  BY UndoneSets
<1>2. /\ Len(undo[t]) \in Pending(t) /\ undo[t][Len(undo[t])].entry = e
      /\ e \in Kept /\ p \in Kept /\ heap[e].parent = p /\ p > e /\ e # p
      /\ heap[p].parent = Nil /\ heap[p].child = e /\ heap[p].name = heap[e].name
      /\ written_by[p] = t /\ data[heap[e].name] = p
      /\ \A x \in Kept :
           /\ x \in Entry /\ heap'[x].name = heap[x].name /\ heap'[x].child = heap[x].child
           /\ heap'[x].parent = IF x = e THEN Nil ELSE heap[x].parent
      /\ data' = [data EXCEPT ![heap[e].name] = e] /\ written_by' = written_by
  BY HeapTypes DEF Undone
<1>3. data'[heap[e].name] = e /\ \A m \in Name \ {heap[e].name} : data'[m] = data[m]
  BY <1>2, HeapTypes DEF EntryTypeOK
<1>4. \A x \in Kept : heap[x].parent # p \/ x = e
  BY <1>2, HeapTypes DEF ChainInv, LinkInv
<1>5. \A x \in Kept : heap[x].child # p
  BY <1>2, HeapTypes DEF ChainInv, LinkInv
<1>6. NewestInv'
  BY <1>1, <1>2, <1>3, HeapTypes DEF ChainInv, NewestInv
<1>7. LinkInv'
  <2> SUFFICES ASSUME NEW x \in Kept'
               PROVE  /\ heap'[x].parent = Nil => data'[heap'[x].name] = x
                      /\ heap'[x].parent # Nil =>
                          /\ heap'[x].parent \in Kept'
                          /\ heap'[x].parent > x
                          /\ heap'[heap'[x].parent].child = x
                          /\ heap'[heap'[x].parent].name = heap'[x].name
                          /\ written_by'[heap'[x].parent] \in Tx
                      /\ heap'[x].child # Nil =>
                          heap'[x].child \in Kept' /\ heap'[heap'[x].child].parent = x
    BY DEF LinkInv
  <2>1. x \in Kept /\ x # p /\ heap'[x].name = heap[x].name /\ heap'[x].child = heap[x].child
    BY <1>1, <1>2
  <2>2. ASSUME heap[x].child # Nil
        PROVE  heap[x].child \in Kept' /\ heap'[heap[x].child].parent = x
    <3>1. heap[x].child \in Kept /\ heap[heap[x].child].parent = x
      BY <2>1, <2>2 DEF ChainInv, LinkInv
    <3>2. heap[x].child # p /\ heap[x].child # e
      BY <1>2, <1>5, <2>1, <3>1
    <3> QED BY <1>1, <1>2, <3>1, <3>2
  <2>3. CASE x = e
    BY <1>2, <1>3, <2>1, <2>2, <2>3
  <2>4. CASE x # e
    <3>1. heap'[x].parent = heap[x].parent
      BY <1>2, <2>1, <2>4
    <3>2. heap[x].parent = Nil => data'[heap[x].name] = x
      <4>1. heap[x].parent = Nil => data[heap[x].name] = x /\ heap[x].name \in Name
        BY <2>1, HeapTypes DEF ChainInv, LinkInv
      <4> QED BY <1>2, <1>3, <2>1, <4>1
    <3>3. ASSUME heap[x].parent # Nil
          PROVE  /\ heap[x].parent \in Kept' /\ heap[x].parent > x
                 /\ heap'[heap[x].parent].child = x
                 /\ heap'[heap[x].parent].name = heap[x].name
                 /\ written_by'[heap[x].parent] \in Tx
      <4>1. /\ heap[x].parent \in Kept /\ heap[x].parent > x /\ heap[heap[x].parent].child = x
            /\ heap[heap[x].parent].name = heap[x].name /\ written_by[heap[x].parent] \in Tx
        BY <2>1, <3>3 DEF ChainInv, LinkInv
      <4>2. heap[x].parent # p
        BY <1>4, <2>1, <2>4
      <4> QED BY <1>1, <1>2, <4>1, <4>2
    <3> QED BY <2>1, <2>2, <3>1, <3>2, <3>3
  <2> QED BY <2>3, <2>4
<1>8. PendingInv'
  <2> SUFFICES ASSUME NEW x \in Kept', heap'[x].parent # Nil
               PROVE  \E u \in Tx : \E i \in Pending(u)' : undo'[u][i].entry = x
    BY DEF PendingInv
  <2>1. x \in Kept /\ x # e /\ heap[x].parent # Nil
    BY <1>1, <1>2
  <2>2. PICK u \in Tx : \E i \in Pending(u) : undo[u][i].entry = x
    BY <2>1 DEF ChainInv, PendingInv
  <2>3. PICK i \in Pending(u) : undo[u][i].entry = x
    BY <2>2
  <2>4. i \in Pending(u)' /\ undo'[u][i].entry = x
    BY <1>1, <1>2, <2>1, <2>3
  <2> QED BY <2>4
<1>9. BufferInv'
  <2>1. ASSUME NEW u \in Tx, NEW i \in Pending(u)'
        PROVE  /\ i \in Pending(u) /\ undo'[u][i].entry = undo[u][i].entry
               /\ undo[u][i].entry \in Kept' /\ heap[undo[u][i].entry].parent # Nil
               /\ written_by[heap[undo[u][i].entry].parent] = u
               /\ heap'[undo[u][i].entry].parent = heap[undo[u][i].entry].parent
    <3>1. i \in Pending(u) /\ undo'[u][i].entry = undo[u][i].entry
      BY <1>1, <2>1
    <3>2. /\ undo[u][i].entry \in Kept /\ heap[undo[u][i].entry].parent # Nil
          /\ written_by[heap[undo[u][i].entry].parent] = u
      BY <3>1 DEF ChainInv, BufferInv
    <3>3. undo[u][i].entry # p
      BY <1>2, <3>2
    <3>4. undo[u][i].entry # e
      <4> SUFFICES ASSUME undo[u][i].entry = e PROVE FALSE
        OBVIOUS
      <4>1. u = t /\ i = Len(undo[t])
        BY <1>2, <3>1, PendingOnce DEF ChainInv
      <4> QED BY <1>1, <2>1, <4>1
    <3> QED BY <1>1, <1>2, <3>1, <3>2, <3>3, <3>4
  <2>2. ASSUME NEW u \in Tx, NEW i \in Pending(u)', NEW j \in Pending(u)', i < j
        PROVE  heap'[undo'[u][i].entry].parent < heap'[undo'[u][j].entry].parent
    <3>1. heap[undo[u][i].entry].parent < heap[undo[u][j].entry].parent
      BY <2>1, <2>2 DEF ChainInv, BufferInv
    <3> QED BY <2>1, <3>1
  <2> QED BY <1>2, <2>1, <2>2 DEF BufferInv
<1> QED BY <1>6, <1>7, <1>8, <1>9 DEF ChainInv

\* The last version of a chain is destroyed.
LEMMA ChainDestroyed ==
    ASSUME EntryTypeOK, BufferTypeOK, ChainInv, NEW t \in Tx, NEW u \in Tx, NEW e \in Entry,
           NEW p \in Entry, Destroyed(t, u, e, p)
    PROVE  ChainInv'
<1>1. /\ Kept' = Kept \ {e}
      /\ \A w \in Tx \ {u} : Pending(w)' = Pending(w)
      /\ Pending(u)' = Pending(u) \ {visited[u] + 1}
  BY DestroyedSets
<1>2. /\ visited[u] + 1 \in Pending(u) /\ undo[u][visited[u] + 1].entry = e
      /\ e \in Kept /\ p \in Kept /\ heap[e].parent = p /\ p > e /\ e # p
      /\ written_by[p] = u /\ heap[p].child = e /\ heap[p].name = heap[e].name
      /\ heap[e].child = Nil
      /\ \A x \in Kept :
           /\ x \in Entry /\ heap'[x].name = heap[x].name /\ heap'[x].parent = heap[x].parent
           /\ heap'[x].child = IF x = p THEN Nil ELSE heap[x].child
      /\ UNCHANGED <<data, written_by, undo>>
  BY HeapTypes DEF Destroyed
<1>3. p # Nil /\ e # Nil
  BY HeapTypes
<1>4. NewestInv'
  BY <1>1, <1>2, <1>3 DEF ChainInv, NewestInv
<1>5. LinkInv'
  <2> SUFFICES ASSUME NEW x \in Kept'
               PROVE  /\ heap'[x].parent = Nil => data'[heap'[x].name] = x
                      /\ heap'[x].parent # Nil =>
                          /\ heap'[x].parent \in Kept'
                          /\ heap'[x].parent > x
                          /\ heap'[heap'[x].parent].child = x
                          /\ heap'[heap'[x].parent].name = heap'[x].name
                          /\ written_by'[heap'[x].parent] \in Tx
                      /\ heap'[x].child # Nil =>
                          heap'[x].child \in Kept' /\ heap'[heap'[x].child].parent = x
    BY DEF LinkInv
  <2>1. x \in Kept /\ x # e /\ heap'[x].name = heap[x].name /\ heap'[x].parent = heap[x].parent
        /\ heap'[x].child = IF x = p THEN Nil ELSE heap[x].child
    BY <1>1, <1>2
  <2>2. heap[x].parent = Nil => data'[heap[x].name] = x
    BY <1>2, <2>1 DEF ChainInv, LinkInv
  <2>3. ASSUME heap[x].parent # Nil
        PROVE  /\ heap[x].parent \in Kept' /\ heap[x].parent > x
               /\ heap'[heap[x].parent].child = x
               /\ heap'[heap[x].parent].name = heap[x].name
               /\ written_by'[heap[x].parent] \in Tx
    <3>1. /\ heap[x].parent \in Kept /\ heap[x].parent > x /\ heap[heap[x].parent].child = x
          /\ heap[heap[x].parent].name = heap[x].name /\ written_by[heap[x].parent] \in Tx
      BY <2>1, <2>3 DEF ChainInv, LinkInv
    <3>2. x \in Entry /\ x # Nil
      BY <2>1, HeapTypes
    <3>3. heap[x].parent # e /\ heap[x].parent # p
      BY <1>2, <2>1, <3>1, <3>2
    <3> QED BY <1>1, <1>2, <3>1, <3>3
  <2>4. ASSUME heap[x].child # Nil, x # p
        PROVE  heap[x].child \in Kept' /\ heap'[heap[x].child].parent = x
    <3>1. heap[x].child \in Kept /\ heap[heap[x].child].parent = x
      BY <2>1, <2>4 DEF ChainInv, LinkInv
    <3>2. heap[x].child # e
      BY <1>2, <2>4, <3>1
    <3> QED BY <1>1, <1>2, <3>1, <3>2
  <2> QED BY <2>1, <2>2, <2>3, <2>4
<1>6. PendingInv'
  <2> SUFFICES ASSUME NEW x \in Kept', heap'[x].parent # Nil
               PROVE  \E w \in Tx : \E i \in Pending(w)' : undo'[w][i].entry = x
    BY DEF PendingInv
  <2>1. x \in Kept /\ x # e /\ heap[x].parent # Nil
    BY <1>1, <1>2
  <2>2. PICK w \in Tx : \E i \in Pending(w) : undo[w][i].entry = x
    BY <2>1 DEF ChainInv, PendingInv
  <2>3. PICK i \in Pending(w) : undo[w][i].entry = x
    BY <2>2
  <2>4. i \in Pending(w)' /\ undo'[w][i].entry = x
    BY <1>1, <1>2, <2>1, <2>3
  <2> QED BY <2>4
<1>7. BufferInv'
  <2>1. ASSUME NEW w \in Tx, NEW i \in Pending(w)'
        PROVE  /\ i \in Pending(w) /\ undo'[w][i].entry = undo[w][i].entry
               /\ undo[w][i].entry \in Kept' /\ heap[undo[w][i].entry].parent # Nil
               /\ written_by[heap[undo[w][i].entry].parent] = w
               /\ heap'[undo[w][i].entry].parent = heap[undo[w][i].entry].parent
    <3>1. i \in Pending(w) /\ undo'[w][i].entry = undo[w][i].entry
      BY <1>1, <1>2, <2>1
    <3>2. /\ undo[w][i].entry \in Kept /\ heap[undo[w][i].entry].parent # Nil
          /\ written_by[heap[undo[w][i].entry].parent] = w
      BY <3>1 DEF ChainInv, BufferInv
    <3>3. undo[w][i].entry # e
      <4> SUFFICES ASSUME undo[w][i].entry = e PROVE FALSE
        OBVIOUS
      <4>1. w = u /\ i = visited[u] + 1
        BY <1>2, <3>1, PendingOnce DEF ChainInv
      <4> QED BY <1>1, <2>1, <4>1
    <3> QED BY <1>1, <1>2, <3>1, <3>2, <3>3
  <2>2. ASSUME NEW w \in Tx, NEW i \in Pending(w)', NEW j \in Pending(w)', i < j
        PROVE  heap'[undo'[w][i].entry].parent < heap'[undo'[w][j].entry].parent
    <3>1. heap[undo[w][i].entry].parent < heap[undo[w][j].entry].parent
      BY <2>1, <2>2 DEF ChainInv, BufferInv
    <3> QED BY <2>1, <3>1
  <2> QED BY <1>2, <2>1, <2>2 DEF BufferInv
<1> QED BY <1>4, <1>5, <1>6, <1>7 DEF ChainInv

-----------------------------------------------------------------------------
(* The list of commits and the loops, step by step. *)

\* Steps that leave the list as it is.
LEMMA ListFrame ==
    ASSUME ClockTypeOK, ListInv, NEW t \in Tx, recently_committed' = recently_committed,
           \A u \in Tx \ {t} : phase'[u] = phase[u] /\ commit_id'[u] = commit_id[u]
                               /\ start_time'[u] = start_time[u],
           phase[t] \in Left => phase'[t] \in Left /\ commit_id'[t] = commit_id[t]
                                /\ start_time'[t] = start_time[t],
           transaction_lock' = NoTx => transaction_lock = NoTx,
           transaction_lock' = NoTx /\ phase[t] \in Running =>
                phase'[t] \in Running /\ start_time'[t] = start_time[t]
    PROVE  ListInv'
<1>1. \A i \in 1..Len(recently_committed) : recently_committed[i] \in Tx
  BY DEF ClockTypeOK
<1>2. \A i \in 1..Len(recently_committed) :
        /\ phase'[recently_committed[i]] \in Left
        /\ commit_id'[recently_committed[i]] = commit_id[recently_committed[i]]
  BY <1>1 DEF ListInv
<1>3. \A i \in 1..Len(recently_committed) : \A j \in i + 1..Len(recently_committed) :
        commit_id'[recently_committed[i]] < commit_id'[recently_committed[j]]
  <2>1. \A i \in 1..Len(recently_committed) : \A j \in i + 1..Len(recently_committed) :
            j \in 1..Len(recently_committed)
    BY DEF ClockTypeOK
  <2> QED BY <1>2, <2>1 DEF ListInv
<1>4. ASSUME transaction_lock' = NoTx, recently_committed # << >>
      PROVE  \E u \in Active' : commit_id'[recently_committed[1]] >= start_time'[u]
  <2>1. PICK u \in Active : commit_id[recently_committed[1]] >= start_time[u]
    BY <1>4 DEF ListInv
  <2>2. 1 \in 1..Len(recently_committed)
    BY <1>4, EmptySeq DEF ClockTypeOK
  <2>3. u \in Active' /\ start_time'[u] = start_time[u]
    BY <1>4, <2>1 DEF Active
  <2> QED BY <1>2, <2>1, <2>2, <2>3
<1> QED BY <1>2, <1>3, <1>4 DEF ListInv

LEMMA ListStep ==
    ASSUME ClockTypeOK, ClockInv, ListInv, Next
    PROVE  ListInv'
<1>1. PICK t \in Tx : EndStep(t) \/ StatementStep(t) \/ LoopStep(t)
  BY Steps DEF EndStep
<1>2. CASE StatementStep(t) \/ LoopStep(t)
  <2>1. /\ UNCHANGED transactions
        /\ \A u \in Tx \ {t} : phase'[u] = phase[u]
        /\ phase'[t] = phase[t] \/ {phase[t], phase'[t]} \subseteq Running
    BY <1>2, QuietSteps
  <2>2. phase[t] \in Left => phase'[t] \in Left
    BY <2>1 DEF Left, Running
  <2>3. phase[t] \in Running => phase'[t] \in Running
    BY <2>1 DEF Running
  <2> QED BY <2>1, <2>2, <2>3, ListFrame DEF transactions
<1>3. CASE StartTransaction(t)
  <2>1. /\ UNCHANGED <<commit_id, transaction_lock, recently_committed>>
        /\ phase[t] \notin Left \cup Running
        /\ \A u \in Tx \ {t} : phase'[u] = phase[u] /\ start_time'[u] = start_time[u]
    BY <1>3 DEF StartTransaction, Goto, ClockTypeOK, Left, Running
  <2> QED BY <2>1, ListFrame
<1>4. CASE CommitTransaction(t)
  <2>1. /\ UNCHANGED <<start_time, recently_committed>>
        /\ phase[t] \notin Left /\ transaction_lock' # NoTx
        /\ \A u \in Tx \ {t} : phase'[u] = phase[u] /\ commit_id'[u] = commit_id[u]
    BY <1>4, TxAssumption DEF CommitTransaction, Goto, ClockTypeOK, Left
  <2> QED BY <2>1, ListFrame
<1>5. CASE RollbackTransaction(t)
  <2>1. /\ UNCHANGED <<start_time, commit_id, recently_committed>>
        /\ phase[t] \notin Left /\ transaction_lock' # NoTx
        /\ \A u \in Tx \ {t} : phase'[u] = phase[u]
    BY <1>5, TxAssumption DEF RollbackTransaction, Goto, ClockTypeOK, Left
  <2> QED BY <2>1, ListFrame
<1>6. CASE BeginRemove(t)
  <2>1. /\ UNCHANGED <<start_time, commit_id, transaction_lock>>
        /\ phase' = [phase EXCEPT ![t] = "cleaning"] /\ phase[t] \in {"committing", "undoing"}
    BY <1>6 DEF BeginRemove, Goto
  <2>2. phase[t] \notin Left /\ phase'[t] = "cleaning" /\ \A u \in Tx \ {t} : phase'[u] = phase[u]
    BY <2>1 DEF ClockTypeOK, Left
  <2>3. transaction_lock' = t /\ transaction_lock' # NoTx
    BY <2>1, TxAssumption DEF ClockInv, Ending
  <2>4. CASE recently_committed' = recently_committed
    BY <2>1, <2>2, <2>3, <2>4, ListFrame
  <2>5. CASE phase[t] = "committing" /\ recently_committed' = Append(recently_committed, t)
    <3> DEFINE l == Len(recently_committed)
    <3>1. /\ l \in Nat /\ Len(recently_committed') = l + 1 /\ recently_committed'[l + 1] = t
          /\ \A i \in 1..l : recently_committed'[i] = recently_committed[i]
                             /\ recently_committed[i] \in Tx
      <4>1. recently_committed \in Seq(Tx)
        BY DEF ClockTypeOK
      <4> QED BY <2>5, <4>1, AppendProperties
    <3>2. \A i \in 1..l : /\ phase'[recently_committed[i]] \in Left
                          /\ commit_id[recently_committed[i]] # 0
                          /\ commit_id[recently_committed[i]] < commit_id[t]
      <4> SUFFICES ASSUME NEW i \in 1..l
                   PROVE  /\ phase'[recently_committed[i]] \in Left
                          /\ commit_id[recently_committed[i]] # 0
                          /\ commit_id[recently_committed[i]] < commit_id[t]
        OBVIOUS
      <4>1. recently_committed[i] \in Tx /\ phase[recently_committed[i]] \in Left
            /\ commit_id[recently_committed[i]] # 0
        BY <3>1 DEF ListInv
      <4>2. recently_committed[i] # t
        BY <2>2, <4>1
      <4>3. commit_id[recently_committed[i]] <= commit_id[t]
            /\ commit_id[recently_committed[i]] # commit_id[t]
        BY <2>5, <4>1, <4>2 DEF ClockInv
      <4>4. commit_id[recently_committed[i]] \in Nat /\ commit_id[t] \in Nat
        BY <4>1 DEF ClockTypeOK
      <4> QED BY <2>2, <4>1, <4>2, <4>3, <4>4
    <3>3. phase'[t] \in Left /\ commit_id[t] # 0
      BY <2>2, <2>5 DEF Left, ClockInv
    <3>4. \A i \in 1..l : \A j \in i + 1..l :
            commit_id[recently_committed[i]] < commit_id[recently_committed[j]]
      BY DEF ListInv
    <3> HIDE DEF l
    <3>5. \A i \in 1..l + 1 : i \in 1..l \/ i = l + 1
      BY <3>1
    <3>6. \A i \in 1..l + 1 : /\ phase'[recently_committed'[i]] \in Left
                              /\ commit_id[recently_committed'[i]] # 0
      BY <3>1, <3>2, <3>3, <3>5
    <3>7. \A i \in 1..l + 1 : \A j \in i + 1..l + 1 :
            commit_id[recently_committed'[i]] < commit_id[recently_committed'[j]]
      <4> SUFFICES ASSUME NEW i \in 1..l + 1, NEW j \in i + 1..l + 1
                   PROVE  commit_id[recently_committed'[i]] < commit_id[recently_committed'[j]]
        OBVIOUS
      <4>1. i \in 1..l /\ (j = l + 1 \/ (j \in 1..l /\ j \in i + 1..l))
        BY <3>1
      <4> QED BY <3>1, <3>2, <3>4, <4>1
    <3> QED BY <2>1, <2>3, <3>1, <3>6, <3>7 DEF ListInv
  <2> QED BY <1>6, <2>4, <2>5 DEF BeginRemove
<1>7. CASE CleanupDone(t)
  <2>1. /\ UNCHANGED <<start_time, commit_id, transaction_lock, phase>>
        /\ phase[t] = "cleaning" /\ recently_committed # << >>
        /\ recently_committed' = Tail(recently_committed)
    BY <1>7 DEF CleanupDone, Cleanable
  <2>2. transaction_lock' # NoTx
    BY <2>1, TxAssumption DEF ClockInv, Ending
  <2>3. /\ Len(recently_committed) \in Nat /\ Len(recently_committed') = Len(recently_committed) - 1
        /\ \A i \in 1..Len(recently_committed') : recently_committed'[i] = recently_committed[i + 1]
    <3>1. recently_committed \in Seq(Tx)
      BY DEF ClockTypeOK
    <3> QED BY <2>1, <3>1, HeadTailProperties
  <2>4. \A i \in 1..Len(recently_committed') : /\ phase[recently_committed'[i]] \in Left
                                               /\ commit_id[recently_committed'[i]] # 0
    BY <2>3 DEF ListInv
  <2>5. ASSUME NEW i \in 1..Len(recently_committed'), NEW j \in i + 1..Len(recently_committed')
        PROVE  commit_id[recently_committed'[i]] < commit_id[recently_committed'[j]]
    <3>1. i + 1 \in 1..Len(recently_committed) /\ j + 1 \in (i + 1) + 1..Len(recently_committed)
          /\ j \in 1..Len(recently_committed')
      BY <2>3
    <3> DEFINE a == i + 1
               b == j + 1
    <3>2. commit_id[recently_committed[a]] < commit_id[recently_committed[b]]
      <4>1. a \in 1..Len(recently_committed) /\ b \in a + 1..Len(recently_committed)
        BY <3>1
      <4> HIDE DEF a, b
      <4> QED BY <4>1 DEF ListInv
    <3> QED BY <2>3, <3>1, <3>2
  <2> QED BY <2>1, <2>2, <2>4, <2>5 DEF ListInv
<1>8. CASE EndRemove(t)
  <2>1. /\ UNCHANGED <<start_time, commit_id, recently_committed>>
        /\ phase[t] = "cleaning" /\ phase' = [phase EXCEPT ![t] = "done"] /\ ~Cleanable
    BY <1>8 DEF EndRemove, Goto
  <2>2. /\ \A u \in Tx : phase[u] \in Left => phase'[u] \in Left
        /\ \A u \in Tx : phase[u] \in Running => phase'[u] \in Running
    BY <2>1 DEF ClockTypeOK, Left, Running
  <2>3. ASSUME recently_committed # << >>
        PROVE  \E u \in Active' : commit_id'[recently_committed'[1]] >= start_time'[u]
    <3>1. PICK u \in Active : ~(commit_id[Head(recently_committed)] < start_time[u])
      BY <2>1, <2>3 DEF Cleanable
    <3>2. Head(recently_committed) = recently_committed[1] /\ recently_committed[1] \in Tx
      <4>1. recently_committed \in Seq(Tx)
        BY DEF ClockTypeOK
      <4> QED BY <2>3, <4>1, HeadTailProperties
    <3>3. commit_id[recently_committed[1]] \in Nat /\ start_time[u] \in Nat
      BY <3>1, <3>2 DEF ClockTypeOK, Active
    <3> QED BY <2>1, <2>2, <3>1, <3>2, <3>3 DEF Active
  <2>4. \A i \in 1..Len(recently_committed) : recently_committed[i] \in Tx
    BY DEF ClockTypeOK
  <2> QED BY <2>1, <2>2, <2>3, <2>4 DEF ListInv
<1> QED BY <1>1, <1>2, <1>3, <1>4, <1>5, <1>6, <1>7, <1>8 DEF EndStep

\* How far a loop is matters for the transactions whose phase or buffer changes.
LEMMA VisitFrame ==
    ASSUME ClockTypeOK, BufferTypeOK, VisitInv, NEW t \in Tx,
           \A u \in Tx \ {t} : /\ phase'[u] = phase[u] /\ commit_id'[u] = commit_id[u]
                               /\ undo'[u] = undo[u] /\ visited'[u] = visited[u],
           \A i \in 1..Len(recently_committed) :
                recently_committed[i] # t =>
                    \E j \in 1..Len(recently_committed') :
                        recently_committed'[j] = recently_committed[i],
           /\ visited'[t] <= Len(undo'[t])
           /\ phase'[t] = "idle" => undo'[t] = << >>
           /\ phase'[t] \in Running \cup {"undoing"} => visited'[t] = 0
           /\ phase'[t] \in Left /\ commit_id'[t] = 0 => undo'[t] = << >>
           /\ phase'[t] \in Left /\ commit_id'[t] # 0 =>
                  \/ visited'[t] = Len(undo'[t])
                  \/ \E i \in 1..Len(recently_committed') : recently_committed'[i] = t
    PROVE  VisitInv'
<1> SUFFICES ASSUME NEW u \in Tx \ {t}
             PROVE  /\ visited'[u] <= Len(undo'[u])
                    /\ phase'[u] = "idle" => undo'[u] = << >>
                    /\ phase'[u] \in Running \cup {"undoing"} => visited'[u] = 0
                    /\ phase'[u] \in Left /\ commit_id'[u] = 0 => undo'[u] = << >>
                    /\ phase'[u] \in Left /\ commit_id'[u] # 0 =>
                         \/ visited'[u] = Len(undo'[u])
                         \/ \E i \in 1..Len(recently_committed') : recently_committed'[i] = u
  BY DEF VisitInv, Running
<1>1. /\ visited[u] <= Len(undo[u])
      /\ phase[u] = "idle" => undo[u] = << >>
      /\ phase[u] \in Running \cup {"undoing"} => visited[u] = 0
      /\ phase[u] \in Left /\ commit_id[u] = 0 => undo[u] = << >>
  BY DEF VisitInv
<1>2. ASSUME phase[u] \in Left, commit_id[u] # 0, visited[u] # Len(undo[u])
      PROVE  \E i \in 1..Len(recently_committed') : recently_committed'[i] = u
  <2>1. PICK i \in 1..Len(recently_committed) : recently_committed[i] = u
    BY <1>2 DEF VisitInv
  <2> QED BY <2>1
<1> QED BY <1>1, <1>2

LEMMA VisitStep ==
    ASSUME ClockTypeOK, BufferTypeOK, BufferTypeOK', ClockInv, ListInv, VisitInv, Next
    PROVE  VisitInv'
<1>1. PICK t \in Tx : EndStep(t) \/ StatementStep(t) \/ LoopStep(t)
  BY Steps DEF EndStep
<1>2. \A u \in Tx : /\ visited[u] \in Nat /\ Len(undo[u]) \in Nat /\ visited[u] <= Len(undo[u])
                    /\ visited'[u] \in Nat /\ Len(undo'[u]) \in Nat
                    /\ undo[u] = << >> <=> Len(undo[u]) = 0
  <2>1. \A u \in Tx : Len(undo'[u]) \in Nat /\ visited'[u] \in Nat
    BY DEF BufferTypeOK
  <2> QED BY <2>1, BufferTypes DEF VisitInv
<1>3. CASE StatementStep(t)
  <2>1. /\ UNCHANGED transactions
        /\ \A u \in Tx \ {t} : phase'[u] = phase[u]
        /\ phase'[t] = phase[t] \/ {phase[t], phase'[t]} \subseteq Running
    BY <1>3, QuietSteps
  <2>2. visited' = visited /\ phase[t] \in Running
    BY <1>3 DEF StatementStep, BeginLookup, Walk, EndLookup, CreateEntry, DropEntry,
                AppendToTable, PushVersion, PushUndo, buffers, Running
  <2>3. \A u \in Tx \ {t} : undo'[u] = undo[u]
    BY <1>3 DEF StatementStep, BeginLookup, Walk, EndLookup, CreateEntry, DropEntry,
                AppendToTable, PushVersion, PushUndo, buffers, BufferTypeOK
  <2>4. phase'[t] \in Running
    BY <2>1, <2>2
  <2>5. visited'[t] = 0 /\ phase'[t] \notin Left \cup {"idle"}
    BY <2>2, <2>4 DEF VisitInv, Running, Left
  <2> QED BY <1>2, <2>1, <2>3, <2>2, <2>5, VisitFrame DEF transactions
<1>4. CASE \/ StartTransaction(t) \/ CommitTransaction(t) \/ RollbackTransaction(t)
  <2>1. /\ UNCHANGED <<undo, visited, recently_committed>>
        /\ phase[t] \in Running \cup {"idle"} /\ phase'[t] \in {"ready", "committing", "undoing"}
        /\ \A u \in Tx \ {t} : phase'[u] = phase[u] /\ commit_id'[u] = commit_id[u]
    BY <1>4 DEF StartTransaction, CommitTransaction, RollbackTransaction, Goto, ClockTypeOK,
                buffers, Running
  <2>2. visited[t] = 0
    BY <1>2, <2>1 DEF VisitInv
  <2>3. phase'[t] \notin Left \cup {"idle"}
    BY <2>1 DEF Left
  <2> QED BY <1>2, <2>1, <2>2, <2>3, VisitFrame
<1>5. CASE BeginRemove(t)
  <2>1. /\ UNCHANGED <<undo, commit_id>> /\ visited' = [visited EXCEPT ![t] = 0]
        /\ phase' = [phase EXCEPT ![t] = "cleaning"]
    BY <1>5 DEF BeginRemove, Goto
  <2>2. /\ visited'[t] = 0 /\ phase'[t] = "cleaning"
        /\ \A u \in Tx \ {t} : phase'[u] = phase[u] /\ visited'[u] = visited[u]
    BY <2>1 DEF ClockTypeOK, BufferTypeOK
  <2>3. recently_committed \in Seq(Tx)
    BY DEF ClockTypeOK
  <2>4. CASE phase[t] = "committing" /\ recently_committed' = Append(recently_committed, t)
    <3>1. commit_id[t] # 0
      BY <2>4 DEF ClockInv
    <3>2. /\ \A i \in 1..Len(recently_committed) : recently_committed'[i] = recently_committed[i]
          /\ Len(recently_committed') = Len(recently_committed) + 1
          /\ recently_committed'[Len(recently_committed) + 1] = t
          /\ Len(recently_committed) \in Nat
      BY <2>3, <2>4, AppendProperties
    <3>3. \E i \in 1..Len(recently_committed') : recently_committed'[i] = t
      BY <3>2
    <3>4. \A i \in 1..Len(recently_committed) :
            \E j \in 1..Len(recently_committed') : recently_committed'[j] = recently_committed[i]
      BY <3>2
    <3>5. phase'[t] \notin Running \cup {"idle", "undoing"}
      BY <2>2 DEF Running
    <3> QED BY <1>2, <2>1, <2>2, <3>1, <3>3, <3>4, <3>5, VisitFrame
  <2>5. CASE phase[t] = "undoing" /\ undo[t] = << >> /\ recently_committed' = recently_committed
    <3>1. commit_id[t] = 0
      BY <2>5 DEF ClockInv
    <3>2. phase'[t] \notin Running \cup {"idle", "undoing"}
      BY <2>2 DEF Running
    <3> QED BY <1>2, <2>1, <2>2, <2>5, <3>1, <3>2, VisitFrame
  <2> QED BY <1>5, <2>4, <2>5 DEF BeginRemove
<1>6. CASE CleanupDone(t)
  <2>1. /\ UNCHANGED <<commit_id, phase, undo, visited>>
        /\ recently_committed # << >> /\ recently_committed' = Tail(recently_committed)
        /\ visited[Head(recently_committed)] = Len(undo[Head(recently_committed)])
    BY <1>6 DEF CleanupDone, Cleanable, buffers
  <2> DEFINE u == recently_committed[1]
  <2>2. recently_committed \in Seq(Tx) /\ Head(recently_committed) = u /\ u \in Tx
    <3>1. recently_committed \in Seq(Tx)
      BY DEF ClockTypeOK
    <3> QED BY <2>1, <3>1, HeadTailProperties
  <2>3. /\ Len(recently_committed') = Len(recently_committed) - 1 /\ Len(recently_committed) \in Nat
        /\ \A i \in 1..Len(recently_committed') : recently_committed'[i] = recently_committed[i + 1]
    BY <2>1, <2>2, HeadTailProperties
  <2>4. ASSUME NEW i \in 1..Len(recently_committed), recently_committed[i] # u
        PROVE  \E j \in 1..Len(recently_committed') : recently_committed'[j] = recently_committed[i]
    <3>1. i # 1
      BY <2>4
    <3>2. i - 1 \in 1..Len(recently_committed') /\ (i - 1) + 1 = i
      BY <2>3, <3>1
    <3> QED BY <2>3, <3>2
  <2>5. visited[u] = Len(undo[u])
    BY <2>1, <2>2
  <2> HIDE DEF u
  <2>6. /\ phase[u] = "idle" => undo[u] = << >>
        /\ phase[u] \in Running \cup {"undoing"} => visited[u] = 0
        /\ phase[u] \in Left /\ commit_id[u] = 0 => undo[u] = << >>
    BY <2>2 DEF VisitInv
  <2> QED BY <1>2, <2>1, <2>2, <2>4, <2>5, <2>6, VisitFrame
<1>7. CASE EndRemove(t)
  <2>1. /\ UNCHANGED <<commit_id, undo, visited, recently_committed>> /\ phase[t] = "cleaning"
        /\ phase' = [phase EXCEPT ![t] = "done"]
    BY <1>7 DEF EndRemove, Goto, buffers
  <2>2. phase[t] \in Left /\ phase'[t] = "done" /\ \A u \in Tx \ {t} : phase'[u] = phase[u]
    BY <2>1 DEF ClockTypeOK, Left
  <2>3. phase'[t] \notin Running \cup {"idle", "undoing"} /\ phase'[t] \in Left
    BY <2>2 DEF Running, Left
  <2>4. /\ commit_id[t] = 0 => undo[t] = << >>
        /\ commit_id[t] # 0 =>
              \/ visited[t] = Len(undo[t])
              \/ \E i \in 1..Len(recently_committed) : recently_committed[i] = t
    BY <2>2 DEF VisitInv
  <2> QED BY <1>2, <2>1, <2>2, <2>3, <2>4, VisitFrame
<1>8. CASE CommitEntry(t)
  <2>1. /\ UNCHANGED <<transactions, phase, undo>> /\ visited' = [visited EXCEPT ![t] = visited[t] + 1]
        /\ phase[t] = "committing" /\ visited[t] < Len(undo[t])
    BY <1>8 DEF CommitEntry
  <2>2. visited'[t] = visited[t] + 1 /\ \A u \in Tx \ {t} : visited'[u] = visited[u]
    BY <2>1 DEF BufferTypeOK
  <2>3. phase[t] \notin Running \cup {"idle", "undoing"} \cup Left
    BY <2>1 DEF Running, Left
  <2> QED BY <1>2, <2>1, <2>2, <2>3, VisitFrame DEF transactions
<1>9. CASE UndoEntry(t)
  <2>1. /\ UNCHANGED <<transactions, phase, visited>> /\ phase[t] = "undoing"
        /\ \A u \in Tx \ {t} : undo'[u] = undo[u]
    BY <1>9 DEF UndoEntry, BufferTypeOK
  <2>2. visited[t] = 0
    BY <2>1 DEF VisitInv
  <2>3. phase[t] \notin {"idle"} \cup Left
    BY <2>1 DEF Left
  <2> QED BY <1>2, <2>1, <2>2, <2>3, VisitFrame DEF transactions
<1>10. CASE CleanupEntry(t)
  <2> DEFINE u == Head(recently_committed)
  <2>1. /\ UNCHANGED <<transactions, phase, undo>> /\ visited' = [visited EXCEPT ![u] = visited[u] + 1]
        /\ recently_committed # << >> /\ visited[u] < Len(undo[u])
    BY <1>10 DEF CleanupEntry, Cleanable
  <2>2. recently_committed \in Seq(Tx)
    BY DEF ClockTypeOK
  <2>3. /\ u \in Tx /\ u = recently_committed[1] /\ 1 \in 1..Len(recently_committed)
    BY <2>1, <2>2, EmptySeq, HeadTailProperties
  <2> HIDE DEF u
  <2>4. visited'[u] = visited[u] + 1 /\ \A w \in Tx \ {u} : visited'[w] = visited[w]
    BY <2>1, <2>3 DEF BufferTypeOK
  <2>5. phase[u] \in Left /\ commit_id[u] # 0
    BY <2>3 DEF ListInv
  <2>6. phase[u] \notin Running \cup {"idle", "undoing"}
    BY <2>5 DEF Running, Left
  <2> QED BY <1>2, <2>1, <2>3, <2>4, <2>5, <2>6, VisitFrame DEF transactions
<1> QED BY <1>1, <1>3, <1>4, <1>5, <1>6, <1>7, <1>8, <1>9, <1>10 DEF EndStep, LoopStep

-----------------------------------------------------------------------------
(* Timestamps, step by step. *)

\* Which way the phases go.
LEMMA Phases ==
    ASSUME ClockTypeOK, NEW t \in Tx, EndStep(t) \/ StatementStep(t) \/ LoopStep(t)
    PROVE  /\ \A u \in Tx \ {t} : phase'[u] = phase[u]
           /\ \A u \in Tx : commit_id'[u] # commit_id[u] => CommitTransaction(u)
           /\ \A u \in Tx : start_time'[u] # start_time[u] => StartTransaction(u)
           /\ phase'[t] # "idle"
           /\ phase'[t] \in Running => phase[t] \in Running \/ StartTransaction(t)
           /\ phase'[t] = "committing" => phase[t] = "committing" \/ CommitTransaction(t)
           /\ phase'[t] = "undoing" => phase[t] = "undoing" \/ RollbackTransaction(t)
           /\ phase'[t] \in Left => phase[t] \in Left \/ BeginRemove(t)
           /\ phase[t] \in Left => phase'[t] \in Left
<1> USE DEF ClockTypeOK, Running, Left, Goto
<1>1. CASE StatementStep(t) \/ LoopStep(t)
  <2>1. /\ UNCHANGED transactions
        /\ \A u \in Tx \ {t} : phase'[u] = phase[u]
        /\ phase'[t] = phase[t] \/ {phase[t], phase'[t]} \subseteq Running
    BY <1>1, QuietSteps
  <2>2. phase[t] # "idle"
    <3>1. CASE StatementStep(t)
      BY <3>1 DEF StatementStep, BeginLookup, Walk, EndLookup, CreateEntry, DropEntry, AppendToTable
    <3>2. CASE LoopStep(t)
      BY <3>2 DEF LoopStep, CommitEntry, UndoEntry, CleanupEntry
    <3> QED BY <1>1, <3>1, <3>2
  <2> QED BY <2>1, <2>2 DEF transactions
<1>2. CASE StartTransaction(t)
  BY <1>2 DEF StartTransaction
<1>3. CASE CommitTransaction(t)
  BY <1>3 DEF CommitTransaction
<1>4. CASE RollbackTransaction(t)
  BY <1>4 DEF RollbackTransaction
<1>5. CASE BeginRemove(t)
  BY <1>5 DEF BeginRemove
<1>6. CASE CleanupDone(t)
  BY <1>6 DEF CleanupDone
<1>7. CASE EndRemove(t)
  BY <1>7 DEF EndRemove
<1> QED BY <1>1, <1>2, <1>3, <1>4, <1>5, <1>6, <1>7 DEF EndStep

LEMMA SuccessionSame ==
    ASSUME SuccessionInv, Same, commit_id' = commit_id
    PROVE  SuccessionInv'
BY DEF SuccessionInv, Same, WrittenByOther

\* The commit id that t draws is higher than all others, and no version but its
\* own was put in front of one of its own.
LEMMA SuccessionCommit ==
    ASSUME ClockTypeOK, EntryTypeOK, ClockInv, SuccessionInv, WriterInv, BufferInv, Same,
           NEW t \in Tx, CommitTransaction(t)
    PROVE  SuccessionInv'
<1>1. /\ commit_id'[t] = current_start_timestamp /\ \A u \in Tx \ {t} : commit_id'[u] = commit_id[u]
      /\ phase[t] = "ready" /\ commit_id[t] = 0
      /\ current_start_timestamp \in Nat
      /\ \A u \in Tx : commit_id[u] \in Nat /\ commit_id[u] < current_start_timestamp
  <2>1. phase[t] = "ready" /\ commit_id' = [commit_id EXCEPT ![t] = current_start_timestamp]
    BY DEF CommitTransaction
  <2>2. current_start_timestamp \in Nat /\ current_start_timestamp >= 4
        /\ \A u \in Tx : commit_id[u] \in Nat
    BY DEF ClockTypeOK, ClockInv
  <2>3. \A u \in Tx : commit_id[u] < current_start_timestamp
    BY <2>2 DEF ClockInv
  <2>4. commit_id[t] = 0
    BY <2>1 DEF ClockInv, Running
  <2> QED BY <2>1, <2>2, <2>3, <2>4 DEF ClockTypeOK
<1> SUFFICES ASSUME NEW u \in Tx, NEW i \in Pending(u),
                    NEW e \in Entry, e = undo[u][i].entry,
                    NEW w \in Tx \cup {NoTx}, w = written_by[e]
             PROVE  /\ ~WrittenByOther(u, e)'
                    /\ w \notin {u, NoTx} =>
                        commit_id'[w] # 0 /\ (commit_id'[u] # 0 => commit_id'[w] < commit_id'[u])
  <2>1. \A u \in Tx : \A i \in Pending(u) : undo[u][i].entry \in Entry
    BY HeapTypes DEF BufferInv
  <2>2. \A e \in Entry : written_by[e] \in Tx \cup {NoTx}
    BY HeapTypes
  <2> QED BY <2>1, <2>2 DEF SuccessionInv, Same, WrittenByOther
<1>2. /\ ~WrittenByOther(u, e)
      /\ w \notin {u, NoTx} =>
            commit_id[w] # 0 /\ (commit_id[u] # 0 => commit_id[w] < commit_id[u])
  BY DEF SuccessionInv
<1>3. ~WrittenByOther(u, e)'
  BY <1>2 DEF Same, WrittenByOther
<1> QED BY <1>1, <1>2, <1>3

LEMMA SuccessionPushed ==
    ASSUME ClockTypeOK, EntryTypeOK, BufferTypeOK, ClockInv, NewestInv, BufferInv, SuccessionInv,
           WriterInv, NEW t \in Tx, NEW n \in Name, NEW e \in Nat, NEW v \in Nat,
           StatementStep(t), phase[t] \in {"ready", "found"}, Pushed(t, n, e, v)
    PROVE  SuccessionInv'
<1>1. /\ \A u \in Tx \ {t} : Pending(u)' = Pending(u)
      /\ Pending(t)' = Pending(t) \cup {Len(undo[t]) + 1}
      /\ \A u \in Tx : \A i \in Pending(u) : undo'[u][i].entry = undo[u][i].entry
      /\ undo'[t][Len(undo[t]) + 1].entry = e
  BY PushedSets
<1>2. commit_id' = commit_id /\ commit_id[t] = 0
  <2>1. UNCHANGED transactions
    BY QuietSteps
  <2> QED BY <2>1 DEF transactions, ClockInv, Running
<1>3. \A x \in Entry : heap'[x].timestamp = heap[x].timestamp /\ written_by'[x] = written_by[x]
  BY DEF Pushed
<1>4. ASSUME NEW u \in Tx, NEW i \in Pending(u)
      PROVE  LET x == undo'[u][i].entry
                 w == written_by'[x]
             IN  /\ heap'[x].timestamp \notin Tx \ {u}
                 /\ w \notin {u, NoTx} =>
                        commit_id[w] # 0 /\ (commit_id[u] # 0 => commit_id[w] < commit_id[u])
  <2>1. undo'[u][i].entry = undo[u][i].entry /\ undo[u][i].entry \in Entry
    BY <1>1, <1>4, HeapTypes DEF BufferInv
  <2> QED BY <1>3, <1>4, <2>1 DEF SuccessionInv, WrittenByOther
<1>5. /\ heap'[e].timestamp \notin Tx \ {t}
      /\ written_by'[e] \notin {t, NoTx} => commit_id[written_by'[e]] # 0
  <2>1. CASE e \notin Entry
    <3>1. heap'[e].timestamp = 0 /\ written_by'[e] = NoTx
      BY <2>1 DEF Pushed
    <3> QED BY <3>1, TxAssumption
  <2>2. CASE e \in Entry
    <3> DEFINE w == written_by[e]
    <3>1. e = data[n] /\ heap[e].timestamp \notin Tx \ {t} /\ n \in Name /\ e # Nil
      BY <2>2 DEF Pushed, WrittenByOther
    <3>2. e \in Kept
      BY <3>1 DEF NewestInv
    <3>3. w \in Tx \cup {NoTx}
      BY <2>2, HeapTypes
    <3>4. ASSUME w \notin {t, NoTx} PROVE commit_id[w] # 0
      <4>1. w \in Tx /\ heap[e].timestamp # w
        BY <3>1, <3>3, <3>4
      <4>2. phase[w] \notin Running \cup {"undoing", "idle"}
        BY <3>2, <3>4, <4>1 DEF WriterInv
      <4>3. phase[w] \in {"committing"} \cup Left
        BY <4>1, <4>2 DEF ClockTypeOK, Left
      <4> QED BY <3>2, <3>4, <4>1, <4>3 DEF WriterInv, ClockInv
    <3> QED BY <1>3, <2>2, <3>1, <3>4
  <2> QED BY <2>1, <2>2
<1> SUFFICES ASSUME NEW u \in Tx, NEW i \in Pending(u)'
             PROVE  LET x == undo'[u][i].entry
                        w == written_by'[x]
                    IN  /\ heap'[x].timestamp \notin Tx \ {u}
                        /\ w \notin {u, NoTx} =>
                             commit_id'[w] # 0 /\ (commit_id'[u] # 0 => commit_id'[w] < commit_id'[u])
  BY DEF SuccessionInv, WrittenByOther
<1>6. CASE i \in Pending(u)
  BY <1>2, <1>4, <1>6
<1>7. CASE u = t /\ i = Len(undo[t]) + 1
  BY <1>1, <1>2, <1>5, <1>7
<1> QED BY <1>1, <1>6, <1>7

\* The buffers only shrink, and a stamped version has the timestamp of nobody.
LEMMA SuccessionLoop ==
    ASSUME ClockTypeOK, EntryTypeOK, BufferTypeOK, BufferInv, SuccessionInv,
           NEW t \in Tx, NEW u \in Tx, NEW e \in Entry, NEW p \in Entry,
           Stamped(t, e, p) \/ Undone(t, e, p) \/ Destroyed(t, u, e, p)
    PROVE  SuccessionInv'
<1>1. commit_id' = commit_id /\ written_by' = written_by
  BY DEF Stamped, Undone, Destroyed, transactions
<1>2. \A w \in Tx : \A i \in Pending(w)' : i \in Pending(w) /\ undo'[w][i].entry = undo[w][i].entry
  <2>1. CASE Stamped(t, e, p)
    <3>1. undo' = undo
      BY <2>1 DEF Stamped
    <3>2. \A w \in Tx : Pending(w)' = Pending(w)
      BY <2>1, StampedSets
    <3> QED BY <3>1, <3>2
  <2>2. CASE Undone(t, e, p)
    BY <2>2, UndoneSets
  <2>3. CASE Destroyed(t, u, e, p)
    <3>1. undo' = undo
      BY <2>3 DEF Destroyed
    <3>2. /\ \A w \in Tx \ {u} : Pending(w)' = Pending(w)
          /\ Pending(u)' = Pending(u) \ {visited[u] + 1}
      BY <2>3, DestroyedSets
    <3> QED BY <3>1, <3>2
  <2> QED BY <2>1, <2>2, <2>3
<1>3. \A x \in Entry : \/ heap'[x].timestamp = heap[x].timestamp
                       \/ heap'[x].timestamp \notin Tx
  <2>1. CASE Stamped(t, e, p)
    BY <2>1, TxAssumption DEF Stamped, ClockTypeOK
  <2>2. CASE Undone(t, e, p)
    BY <2>2 DEF Undone
  <2>3. CASE Destroyed(t, u, e, p)
    BY <2>3 DEF Destroyed
  <2> QED BY <2>1, <2>2, <2>3
<1>4. \A w \in Tx : \A i \in Pending(w) : undo[w][i].entry \in Entry
  BY HeapTypes DEF BufferInv
<1> SUFFICES ASSUME NEW w \in Tx, NEW i \in Pending(w)'
             PROVE  /\ heap'[undo'[w][i].entry].timestamp \notin Tx \ {w}
                    /\ written_by[undo'[w][i].entry] \notin {w, NoTx} =>
                        /\ commit_id[written_by[undo'[w][i].entry]] # 0
                        /\ commit_id[w] # 0 =>
                            commit_id[written_by[undo'[w][i].entry]] < commit_id[w]
  BY <1>1 DEF SuccessionInv, WrittenByOther
<1> QED BY <1>2, <1>3, <1>4 DEF SuccessionInv, WrittenByOther

LEMMA StampSame ==
    ASSUME ClockTypeOK, EntryTypeOK, BufferTypeOK, ClockInv, VisitInv, LinkInv, BufferInv,
           WriterInv, StampInv, Same,
           NEW t \in Tx, EndStep(t) \/ StatementStep(t) \/ LoopStep(t)
    PROVE  StampInv'
<1> SUFFICES ASSUME NEW u \in Tx, phase'[u] = "committing", NEW i \in Pending(u)
             PROVE  heap[heap[undo[u][i].entry].parent].timestamp =
                        IF i <= visited'[u] THEN commit_id'[u] ELSE u
  BY DEF StampInv, Same
<1>1. i <= visited'[u] <=> i <= visited[u]
  BY DEF Same
<1>2. CASE phase[u] = "committing"
  <2>1. commit_id'[u] = commit_id[u]
    BY <1>2, Phases DEF CommitTransaction
  <2> QED BY <1>1, <1>2, <2>1 DEF StampInv
<1>3. CASE phase[u] # "committing"
  <2>1. CommitTransaction(u)
    BY <1>3, Phases
  <2>2. phase[u] = "ready"
    BY <2>1 DEF CommitTransaction
  <2>3. visited[u] = 0 /\ i \in Nat /\ i >= 1
    BY <2>2, BufferTypes DEF VisitInv, Running
  <2>4. heap[undo[u][i].entry].parent \in Kept /\ written_by[heap[undo[u][i].entry].parent] = u
    <3>1. undo[u][i].entry \in Kept /\ heap[undo[u][i].entry].parent # Nil
          /\ written_by[heap[undo[u][i].entry].parent] = u
      BY DEF BufferInv
    <3> QED BY <3>1 DEF LinkInv
  <2>5. heap[heap[undo[u][i].entry].parent].timestamp = u
    BY <2>2, <2>4, TxAssumption DEF WriterInv, Running
  <2> QED BY <1>1, <2>3, <2>5
<1> QED BY <1>2, <1>3

LEMMA StampPushed ==
    ASSUME ClockTypeOK, EntryTypeOK, BufferTypeOK, NewestInv, LinkInv, BufferInv, StampInv,
           NEW t \in Tx, NEW n \in Name, NEW e \in Nat, NEW v \in Nat,
           StatementStep(t), phase[t] \in {"ready", "found"}, Pushed(t, n, e, v)
    PROVE  StampInv'
<1>1. /\ \A u \in Tx \ {t} : Pending(u)' = Pending(u)
      /\ \A u \in Tx : \A i \in Pending(u) : undo'[u][i].entry = undo[u][i].entry
  BY PushedSets
<1>2. /\ UNCHANGED transactions /\ \A u \in Tx \ {t} : phase'[u] = phase[u]
      /\ phase'[t] # "committing" /\ visited' = visited
  <2>1. /\ UNCHANGED transactions /\ \A u \in Tx \ {t} : phase'[u] = phase[u]
        /\ phase'[t] = phase[t] \/ {phase[t], phase'[t]} \subseteq Running
    BY QuietSteps
  <2>2. phase'[t] # "committing"
    BY <2>1 DEF Running
  <2>3. visited' = visited
    BY DEF Pushed, PushUndo
  <2> QED BY <2>1, <2>2, <2>3
<1> SUFFICES ASSUME NEW u \in Tx \ {t}, phase[u] = "committing", NEW i \in Pending(u)
             PROVE  heap'[heap'[undo'[u][i].entry].parent].timestamp =
                        IF i <= visited[u] THEN commit_id[u] ELSE u
  BY <1>1, <1>2 DEF StampInv, transactions
<1> DEFINE x == undo[u][i].entry
<1>3. x \in Kept /\ heap[x].parent # Nil
  BY DEF BufferInv
<1>4. x \in Entry /\ x # e
  <2>1. x \in Entry
    BY <1>3, HeapTypes
  <2>2. e \in Entry => heap[e].parent = Nil
    BY DEF Pushed, NewestInv
  <2> QED BY <1>3, <2>1, <2>2
<1>5. heap[x].parent \in Entry
  BY <1>3, HeapTypes DEF LinkInv
<1>6. heap'[x].parent = heap[x].parent /\ heap'[heap[x].parent].timestamp = heap[heap[x].parent].timestamp
  BY <1>4, <1>5 DEF Pushed
<1>7. heap[heap[x].parent].timestamp = IF i <= visited[u] THEN commit_id[u] ELSE u
  BY DEF StampInv
<1>8. undo'[u][i].entry = x
  BY <1>1
<1> QED BY <1>6, <1>7, <1>8

LEMMA StampLoop ==
    ASSUME ClockTypeOK, EntryTypeOK, BufferTypeOK, ClockInv, LinkInv, BufferInv, StampInv,
           NEW t \in Tx, NEW u \in Tx, NEW e \in Entry, NEW p \in Entry,
           Stamped(t, e, p) \/ Undone(t, e, p) \/ Destroyed(t, u, e, p)
    PROVE  StampInv'
<1>1. phase' = phase /\ phase[t] \in Ending
  BY DEF Stamped, Undone, Destroyed, Ending
<1>2. \A w \in Tx : phase[w] = "committing" => w = t /\ phase[t] = "committing"
  BY <1>1 DEF ClockInv, Ending
<1>3. CASE phase[t] # "committing"
  BY <1>1, <1>2, <1>3 DEF StampInv
<1>4. CASE Stamped(t, e, p)
  <2>1. /\ visited[t] + 1 \in Pending(t) /\ undo[t][visited[t] + 1].entry = e
        /\ heap[e].parent = p /\ undo' = undo /\ commit_id' = commit_id
        /\ \A x \in Entry : /\ heap'[x].parent = heap[x].parent
                            /\ heap'[x].timestamp = IF x = p THEN commit_id[t] ELSE heap[x].timestamp
        /\ visited' = [visited EXCEPT ![t] = visited[t] + 1] /\ phase[t] = "committing"
    BY <1>4 DEF Stamped, transactions
  <2>2. visited'[t] = visited[t] + 1 /\ visited[t] \in Nat
    BY <2>1 DEF BufferTypeOK
  <2>3. Pending(t)' = Pending(t)
    BY <1>4, StampedSets
  <2> SUFFICES ASSUME NEW i \in Pending(t)
               PROVE  heap'[heap'[undo[t][i].entry].parent].timestamp =
                        IF i <= visited[t] + 1 THEN commit_id[t] ELSE t
    BY <1>1, <1>2, <2>1, <2>2, <2>3 DEF StampInv
  <2> DEFINE x == undo[t][i].entry
  <2>4. x \in Kept /\ heap[x].parent # Nil
    BY DEF BufferInv
  <2>5. x \in Entry /\ heap[x].parent \in Entry /\ heap[heap[x].parent].child = x
    BY <2>4, HeapTypes DEF LinkInv
  <2>6. CASE i = visited[t] + 1
    BY <2>1, <2>2, <2>5, <2>6
  <2>7. CASE i # visited[t] + 1
    <3>1. x # e
      BY <2>1, <2>7, PendingOnce
    <3>2. heap[e].parent = p /\ heap[p].child = e
      BY <1>4, <2>1, HeapTypes DEF LinkInv, Stamped
    <3>3. heap[x].parent # p
      BY <2>5, <3>1, <3>2
    <3>4. heap'[heap'[x].parent].timestamp = heap[heap[x].parent].timestamp
      BY <2>1, <2>5, <3>3
    <3>5. heap[heap[x].parent].timestamp = IF i <= visited[t] THEN commit_id[t] ELSE t
      BY <2>1 DEF StampInv
    <3>6. i <= visited[t] + 1 <=> i <= visited[t]
      BY <2>2, <2>7, BufferTypes
    <3> QED BY <3>4, <3>5, <3>6
  <2> QED BY <2>6, <2>7
<1> QED BY <1>3, <1>4 DEF Undone, Destroyed

LEMMA WriterPushed ==
    ASSUME ClockTypeOK, EntryTypeOK, BufferTypeOK, NewestInv, WriterInv,
           NEW t \in Tx, NEW n \in Name, NEW e \in Nat, NEW v \in Nat,
           StatementStep(t), phase[t] \in {"ready", "found"}, Pushed(t, n, e, v)
    PROVE  WriterInv'
<1>1. Kept' = (Kept \cup {v}) \cup {x \in {e} : x \notin freed}
  BY PushedSets
<1>2. /\ UNCHANGED transactions
      /\ \A u \in Tx \ {t} : phase'[u] = phase[u]
      /\ phase'[t] = phase[t] \/ {phase[t], phase'[t]} \subseteq Running
  BY QuietSteps
<1>3. phase[t] \in Running /\ phase'[t] \in Running
  BY <1>2 DEF Running
<1>4. /\ \A x \in Kept : /\ heap'[x].timestamp = heap[x].timestamp
                         /\ written_by'[x] = written_by[x]
                         /\ written_by[x] \in Tx \cup {NoTx}
      /\ heap'[v].timestamp = t /\ written_by'[v] = t
      /\ e \notin Entry => heap'[e].timestamp = 0 /\ written_by'[e] = NoTx
      /\ e \in Entry /\ e \notin freed => e \in Kept
  BY HeapTypes DEF Pushed, Kept
<1> SUFFICES ASSUME NEW x \in Kept', NEW w, w = written_by'[x]
             PROVE  /\ w = NoTx => heap'[x].timestamp \in 0..3
                    /\ w # NoTx =>
                        /\ phase'[w] # "idle"
                        /\ phase'[w] \in Running \cup {"undoing"} => heap'[x].timestamp = w
                        /\ phase'[w] = "committing" => heap'[x].timestamp \in {w, commit_id[w]}
                        /\ phase'[w] \in Left =>
                              commit_id[w] # 0 /\ heap'[x].timestamp = commit_id[w]
  BY <1>2 DEF WriterInv, transactions
<1>5. CASE x = v
  BY <1>3, <1>4, <1>5, TxAssumption DEF Running, Left
<1>6. CASE x = e /\ e \notin Entry
  BY <1>4, <1>6
<1>7. CASE x \in Kept
  <2>1. w = written_by[x] /\ heap'[x].timestamp = heap[x].timestamp
    BY <1>4, <1>7
  <2>2. /\ w = NoTx => heap[x].timestamp \in 0..3
        /\ w # NoTx =>
            /\ w \in Tx
            /\ phase[w] # "idle"
            /\ phase[w] \in Running \cup {"undoing"} => heap[x].timestamp = w
            /\ phase[w] = "committing" => heap[x].timestamp \in {w, commit_id[w]}
            /\ phase[w] \in Left => commit_id[w] # 0 /\ heap[x].timestamp = commit_id[w]
    BY <1>4, <1>7, <2>1 DEF WriterInv
  <2>3. CASE w = t
    BY <1>3, <2>1, <2>2, <2>3, TxAssumption DEF Running, Left
  <2>4. CASE w # t
    BY <1>2, <2>1, <2>2, <2>4
  <2> QED BY <2>3, <2>4
<1> QED BY <1>1, <1>4, <1>5, <1>6, <1>7

\* When a commit is over, all versions that it wrote are stamped; when a rollback
\* is over, none is kept.
LEMMA AllStamped ==
    ASSUME EntryTypeOK, BufferTypeOK, ChainInv, StampInv, LastInv,
           NEW t \in Tx, BeginRemove(t), NEW e \in Kept, written_by[e] = t
    PROVE  phase[t] = "committing" /\ heap[e].timestamp = commit_id[t]
<1>1. /\ phase[t] \in {"committing", "undoing"}
      /\ phase[t] = "committing" => visited[t] = Len(undo[t])
      /\ phase[t] = "undoing" => undo[t] = << >>
  BY DEF BeginRemove
<1> DEFINE c == heap[e].child
<1>2. c # Nil
  BY <1>1, TxAssumption DEF LastInv, Left
<1>3. c \in Kept /\ heap[c].parent = e /\ e # Nil
  BY <1>2, HeapTypes DEF ChainInv, LinkInv
<1> HIDE DEF c
<1>4. PICK i \in Pending(t) : undo[t][i].entry = c
  BY <1>3, PendingWhere DEF ChainInv
<1>5. i \in 1..Len(undo[t])
  BY <1>4, BufferTypes
<1>6. phase[t] = "committing"
  BY <1>1, <1>5, BufferTypes
<1>7. heap[heap[undo[t][i].entry].parent].timestamp =
            IF i <= visited[t] THEN commit_id[t] ELSE t
  BY <1>4, <1>6 DEF StampInv
<1>8. i <= visited[t]
  BY <1>1, <1>5, <1>6, BufferTypes
<1> QED BY <1>3, <1>4, <1>6, <1>7, <1>8

LEMMA WriterSame ==
    ASSUME ClockTypeOK, EntryTypeOK, BufferTypeOK, ClockInv, ChainInv, WriterInv, StampInv,
           LastInv, Same,
           NEW t \in Tx, EndStep(t) \/ StatementStep(t) \/ LoopStep(t)
    PROVE  WriterInv'
<1>1. Kept' = Kept /\ heap' = heap /\ written_by' = written_by
  BY DEF Same, Kept
<1> SUFFICES ASSUME NEW e \in Kept, NEW w \in Tx, w = written_by[e]
             PROVE  /\ phase'[w] # "idle"
                    /\ phase'[w] \in Running \cup {"undoing"} => heap[e].timestamp = w
                    /\ phase'[w] = "committing" => heap[e].timestamp \in {w, commit_id'[w]}
                    /\ phase'[w] \in Left =>
                          commit_id'[w] # 0 /\ heap[e].timestamp = commit_id'[w]
  <2>1. \A e \in Kept : written_by[e] \in Tx \cup {NoTx}
    BY HeapTypes
  <2>2. \A e \in Kept : written_by[e] = NoTx => heap[e].timestamp \in 0..3
    BY DEF WriterInv
  <2> QED BY <1>1, <2>1, <2>2 DEF WriterInv
<1>2. /\ phase[w] # "idle"
      /\ phase[w] \in Running \cup {"undoing"} => heap[e].timestamp = w
      /\ phase[w] = "committing" => heap[e].timestamp \in {w, commit_id[w]}
      /\ phase[w] \in Left => commit_id[w] # 0 /\ heap[e].timestamp = commit_id[w]
  BY TxAssumption DEF WriterInv
<1>3. CASE w # t
  <2>1. phase'[w] = phase[w]
    BY <1>3, Phases
  <2>2. phase[w] = "committing" \/ phase[w] \in Left => commit_id'[w] = commit_id[w]
    BY Phases DEF CommitTransaction, Left
  <2> QED BY <1>2, <2>1, <2>2
<1>4. CASE w = t
  <2>1. phase'[w] # "idle"
    BY <1>4, Phases
  <2>2. phase'[w] \in Running => phase[w] \in Running
    BY <1>2, <1>4, Phases DEF StartTransaction
  <2>3. phase'[w] = "undoing" => phase[w] \in Running \cup {"undoing"}
    BY <1>4, Phases DEF RollbackTransaction, Running
  <2>4. ASSUME phase'[w] = "committing" PROVE heap[e].timestamp \in {w, commit_id'[w]}
    <3>1. CASE phase[w] = "committing"
      BY <1>2, <3>1, Phases DEF CommitTransaction
    <3>2. CASE CommitTransaction(w)
      BY <1>2, <3>2 DEF CommitTransaction, Running
    <3> QED BY <1>4, <2>4, <3>1, <3>2, Phases
  <2>5. ASSUME phase'[w] \in Left
        PROVE  commit_id'[w] # 0 /\ heap[e].timestamp = commit_id'[w]
    <3>1. CASE phase[w] \in Left
      BY <1>2, <3>1, Phases DEF CommitTransaction, Left
    <3>2. CASE BeginRemove(w)
      <4>1. phase[w] = "committing" /\ heap[e].timestamp = commit_id[w]
        BY <3>2, AllStamped
      <4>2. commit_id' = commit_id
        BY <3>2 DEF BeginRemove
      <4> QED BY <4>1, <4>2 DEF ClockInv
    <3> QED BY <1>4, <2>5, <3>1, <3>2, Phases
  <2> QED BY <1>2, <2>1, <2>2, <2>3, <2>4, <2>5
<1> QED BY <1>3, <1>4

LEMMA WriterLoop ==
    ASSUME ClockTypeOK, EntryTypeOK, BufferTypeOK, ClockInv, WriterInv,
           NEW t \in Tx, NEW u \in Tx, NEW e \in Entry, NEW p \in Entry,
           Stamped(t, e, p) \/ Undone(t, e, p) \/ Destroyed(t, u, e, p)
    PROVE  WriterInv'
<1>1. phase' = phase /\ commit_id' = commit_id /\ written_by' = written_by
  BY DEF Stamped, Undone, Destroyed, transactions
<1>2. Kept' \subseteq Kept
  <2>1. CASE Stamped(t, e, p)
    BY <2>1, StampedSets
  <2>2. CASE Undone(t, e, p)
    BY <2>2, UndoneSets
  <2>3. CASE Destroyed(t, u, e, p)
    BY <2>3, DestroyedSets
  <2> QED BY <2>1, <2>2, <2>3
<1>3. \A x \in Kept : \/ heap'[x].timestamp = heap[x].timestamp
                      \/ /\ written_by[x] = t /\ phase[t] = "committing"
                         /\ heap'[x].timestamp = commit_id[t]
  <2>1. CASE Stamped(t, e, p)
    BY <2>1, HeapTypes DEF Stamped
  <2>2. CASE Undone(t, e, p)
    BY <2>2, HeapTypes DEF Undone
  <2>3. CASE Destroyed(t, u, e, p)
    BY <2>3, HeapTypes DEF Destroyed
  <2> QED BY <2>1, <2>2, <2>3
<1>4. t # NoTx
  BY TxAssumption
<1> SUFFICES ASSUME NEW x \in Kept, NEW w, w = written_by[x]
             PROVE  /\ w = NoTx => heap'[x].timestamp \in 0..3
                    /\ w # NoTx =>
                        /\ phase[w] # "idle"
                        /\ phase[w] \in Running \cup {"undoing"} => heap'[x].timestamp = w
                        /\ phase[w] = "committing" => heap'[x].timestamp \in {w, commit_id[w]}
                        /\ phase[w] \in Left =>
                              commit_id[w] # 0 /\ heap'[x].timestamp = commit_id[w]
  BY <1>1, <1>2 DEF WriterInv
<1>5. CASE heap'[x].timestamp = heap[x].timestamp
  BY <1>5 DEF WriterInv
<1>6. CASE w = t /\ phase[t] = "committing" /\ heap'[x].timestamp = commit_id[t]
  BY <1>4, <1>6 DEF Running, Left
<1> QED BY <1>3, <1>5, <1>6

LEMMA LastSame ==
    ASSUME ClockTypeOK, EntryTypeOK, ClockInv, LastInv, Same,
           NEW t \in Tx, EndStep(t) \/ StatementStep(t) \/ LoopStep(t)
    PROVE  LastInv'
<1>1. Kept' = Kept /\ heap' = heap /\ written_by' = written_by
  BY DEF Same, Kept
<1> SUFFICES ASSUME NEW e \in Kept, NEW w \in Tx, w = written_by[e], heap[e].child = Nil
             PROVE  phase'[w] \in Left /\ \A u \in Active' : commit_id'[w] < start_time'[u]
  <2>1. \A e \in Kept : written_by[e] \in Tx \cup {NoTx}
    BY HeapTypes
  <2> QED BY <1>1, <2>1 DEF LastInv
<1>2. phase[w] \in Left /\ \A u \in Active : commit_id[w] < start_time[u]
  BY TxAssumption DEF LastInv
<1>3. phase'[w] \in Left
  BY <1>2, Phases
<1>4. commit_id'[w] = commit_id[w]
  BY <1>2, Phases DEF CommitTransaction, Left
<1>5. ASSUME NEW u \in Active' PROVE commit_id[w] < start_time'[u]
  <2>1. u \in Tx /\ phase'[u] \in Running
    BY <1>5 DEF Active
  <2>2. CASE StartTransaction(u)
    <3>1. start_time'[u] = current_start_timestamp
      BY <2>1, <2>2 DEF StartTransaction, ClockTypeOK
    <3>2. commit_id[w] \in Nat /\ current_start_timestamp \in Nat /\ current_start_timestamp >= 4
      BY DEF ClockTypeOK, ClockInv
    <3>3. commit_id[w] < current_start_timestamp
      BY <3>2 DEF ClockInv
    <3> QED BY <3>1, <3>3
  <2>3. CASE ~StartTransaction(u)
    <3>1. start_time'[u] = start_time[u] /\ phase[u] \in Running
      BY <2>1, <2>3, Phases
    <3> QED BY <1>2, <2>1, <3>1 DEF Active
  <2> QED BY <2>2, <2>3
<1> QED BY <1>3, <1>4, <1>5

LEMMA LastPushed ==
    ASSUME ClockTypeOK, EntryTypeOK, BufferTypeOK, LastInv,
           NEW t \in Tx, NEW n \in Name, NEW e \in Nat, NEW v \in Nat,
           StatementStep(t), phase[t] \in {"ready", "found"}, Pushed(t, n, e, v)
    PROVE  LastInv'
<1>1. Kept' = (Kept \cup {v}) \cup {x \in {e} : x \notin freed}
  BY PushedSets
<1>2. /\ UNCHANGED transactions
      /\ \A u \in Tx \ {t} : phase'[u] = phase[u]
      /\ phase'[t] = phase[t] \/ {phase[t], phase'[t]} \subseteq Running
  BY QuietSteps
<1>3. phase[t] \in Running /\ phase'[t] \in Running
  BY <1>2 DEF Running
<1>4. /\ \A x \in Kept : heap'[x].child = heap[x].child /\ written_by'[x] = written_by[x]
                         /\ written_by[x] \in Tx \cup {NoTx}
      /\ heap'[v].child = e /\ e # Nil
      /\ e \notin Entry => written_by'[e] = NoTx
      /\ e \in Entry /\ e \notin freed => e \in Kept
  BY HeapTypes DEF Pushed, Kept
<1>5. Active' = Active
  BY <1>2, <1>3 DEF Active
<1>6. \A w \in Tx : phase[w] \in Left => phase'[w] \in Left
  BY <1>2, <1>3 DEF Left, Running
<1> QED BY <1>1, <1>2, <1>4, <1>5, <1>6 DEF LastInv, transactions

LEMMA LastLoop ==
    ASSUME ClockTypeOK, EntryTypeOK, BufferTypeOK, ListInv, LastInv,
           NEW t \in Tx, NEW u \in Tx, NEW e \in Entry, NEW p \in Entry,
           Stamped(t, e, p) \/ Undone(t, e, p) \/ Destroyed(t, u, e, p)
    PROVE  LastInv'
<1>1. phase' = phase /\ UNCHANGED transactions /\ written_by' = written_by
  BY DEF Stamped, Undone, Destroyed
<1>2. Kept' \subseteq Kept
  <2>1. CASE Stamped(t, e, p)
    BY <2>1, StampedSets
  <2>2. CASE Undone(t, e, p)
    BY <2>2, UndoneSets
  <2>3. CASE Destroyed(t, u, e, p)
    BY <2>3, DestroyedSets
  <2> QED BY <2>1, <2>2, <2>3
<1>3. CASE Stamped(t, e, p) \/ Undone(t, e, p)
  <2>1. \A x \in Kept : heap'[x].child = heap[x].child
    BY <1>3, HeapTypes DEF Stamped, Undone
  <2> QED BY <1>1, <1>2, <2>1 DEF LastInv, Active, transactions
<1>4. CASE Destroyed(t, u, e, p)
  <2>1. /\ \A x \in Kept : heap'[x].child = IF x = p THEN Nil ELSE heap[x].child
        /\ written_by[p] = u /\ phase[u] \in Left /\ Cleanable /\ u = recently_committed[1]
    BY <1>4, HeapTypes DEF Destroyed
  <2>2. recently_committed \in Seq(Tx) /\ recently_committed # << >>
    BY <2>1 DEF ClockTypeOK, Cleanable
  <2>3. Head(recently_committed) = u
    BY <2>1, <2>2
  <2>4. \A w \in Active : commit_id[u] < start_time[w]
    BY <2>1, <2>3 DEF Cleanable
  <2> QED BY <1>1, <1>2, <2>1, <2>4 DEF LastInv, Active, transactions
<1> QED BY <1>3, <1>4

-----------------------------------------------------------------------------
(* What was rolled back, step by step. *)

LEMMA RolledBackStays ==
    ASSUME ClockTypeOK, ClockTypeOK', EntryTypeOK, NEW t \in Tx,
           EndStep(t) \/ StatementStep(t) \/ LoopStep(t), NEW f \in Entry, RolledBack(f),
           freed \subseteq freed', written_by'[f] = written_by[f]
    PROVE  RolledBack(f)'
<1> DEFINE w == written_by[f]
<1>1. f \in freed' /\ written_by'[f] = w /\ w \in Tx /\ commit_id[w] = 0
      /\ phase[w] \in Left \cup {"undoing"}
  BY DEF RolledBack
<1>2. commit_id'[w] = commit_id[w]
  <2>1. ~CommitTransaction(w)
    BY <1>1 DEF CommitTransaction, Left
  <2> QED BY <1>1, <2>1, Phases
<1>3. phase'[w] \in Left \cup {"undoing"}
  <2>1. ~CommitTransaction(w) /\ ~StartTransaction(w)
    BY <1>1 DEF CommitTransaction, StartTransaction, Left
  <2>2. CASE w # t
    BY <1>1, <2>2, Phases
  <2>3. CASE w = t
    <3>1. phase' \in [Tx -> Running \cup {"idle", "committing", "undoing", "cleaning", "done"}]
      BY DEF ClockTypeOK
    <3>2. phase'[t] # "idle" /\ phase'[t] \notin Running /\ phase'[t] # "committing"
      BY <1>1, <2>1, <2>3, Phases DEF Left, Running
    <3> QED BY <2>3, <3>1, <3>2 DEF Left
  <2> QED BY <2>2, <2>3
<1> QED BY <1>1, <1>2, <1>3 DEF RolledBack

LEMMA GapSame ==
    ASSUME ClockTypeOK, ClockTypeOK', EntryTypeOK, GapInv, Same,
           NEW t \in Tx, EndStep(t) \/ StatementStep(t) \/ LoopStep(t)
    PROVE  GapInv'
<1>1. Entry' = Entry /\ Kept' = Kept /\ heap' = heap /\ data' = data /\ freed' = freed
      /\ written_by' = written_by
  BY DEF Same, Kept
<1>2. \A f \in Entry : RolledBack(f) => RolledBack(f)'
  BY <1>1, RolledBackStays
<1> QED BY <1>1, <1>2 DEF GapInv

LEMMA GapPushed ==
    ASSUME ClockTypeOK, ClockTypeOK', EntryTypeOK, BufferTypeOK, NewestInv, GapInv,
           NEW t \in Tx, NEW n \in Name, NEW e \in Nat, NEW v \in Nat,
           StatementStep(t), phase[t] \in {"ready", "found"}, Pushed(t, n, e, v)
    PROVE  GapInv'
<1>1. Kept' = (Kept \cup {v}) \cup {x \in {e} : x \notin freed}
  BY PushedSets
<1>2. /\ Entry' = Entry \cup {e, v} /\ e < v /\ Entry \subseteq Nat
      /\ \A x \in Entry : /\ x < v /\ (e \notin Entry => x < e)
                          /\ heap'[x].name = heap[x].name /\ heap'[x].child = heap[x].child
                          /\ heap[x].name \in Name
      /\ heap'[v].name = n /\ heap'[v].child = e
      /\ e \in Entry => e = data[n]
      /\ e \notin Entry => data[n] = Nil /\ heap'[e].child = Nil /\ heap'[e].name = n
      /\ e # Nil /\ v # Nil /\ v \notin Entry
      /\ e \in Entry /\ e \notin freed => e \in Kept
      /\ Kept \subseteq Entry
  <2>1. Entry \subseteq Nat /\ Kept \subseteq Entry /\ \A x \in Entry : heap[x].name \in Name
    BY HeapTypes
  <2>2. v # Nil
    BY DEF Pushed, Nil
  <2> QED BY <2>1, <2>2 DEF Pushed, Kept
<1>3. e \in Entry => heap[e].name = n
  BY <1>2 DEF NewestInv
<1>4. \A f \in Entry : RolledBack(f) => RolledBack(f)'
  <2>1. \A f \in Entry : written_by'[f] = written_by[f]
    BY DEF Pushed
  <2>2. freed' = freed
    BY DEF Pushed
  <2> QED BY <2>1, <2>2, RolledBackStays
<1>5. \A m \in Name : data'[m] = IF m = n THEN v ELSE data[m]
  BY DEF Pushed, EntryTypeOK
<1>6. ASSUME NEW f \in Entry'
      PROVE  data'[heap'[f].name] # Nil /\ (f > data'[heap'[f].name] => RolledBack(f)')
  <2>1. CASE f \in Entry
    <3>1. data[heap[f].name] # Nil /\ (f > data[heap[f].name] => RolledBack(f)')
      BY <2>1, <1>4 DEF GapInv
    <3> QED BY <2>1, <3>1, <1>2, <1>5
  <2>2. CASE f \notin Entry
    <3>1. heap'[f].name = n /\ f \in {e, v}
      BY <2>2, <1>2, <1>6
    <3> QED BY <3>1, <1>2, <1>5
  <2> QED BY <2>1, <2>2
<1>7. ASSUME NEW x \in Kept', heap'[x].child # Nil, NEW f \in Entry',
             heap'[f].name = heap'[x].name, heap'[x].child < f, f < x
      PROVE  RolledBack(f)'
  <2>1. CASE x \in Kept
    <3>1. f \in Entry
      <4>1. x \in Entry /\ x \in Nat /\ e \in Nat /\ x < v /\ f \in Entry \cup {e, v} /\ f < x
        BY <2>1, <1>2, <1>7
      <4>2. f # v
        BY <4>1
      <4>3. e \notin Entry => x < e
        BY <4>1, <1>2
      <4> QED BY <4>1, <4>2, <4>3
    <3>2. /\ heap[x].child # Nil /\ heap[f].name = heap[x].name /\ heap[x].child < f
      BY <2>1, <3>1, <1>2, <1>7
    <3> QED BY <2>1, <3>1, <3>2, <1>4, <1>7 DEF GapInv
  <2>2. CASE x = v
    <3>1. f \in Entry /\ heap[f].name = n /\ e < f
      <4>1. f \in Entry \cup {e, v} /\ f < v /\ e < f
        BY <2>2, <1>2, <1>7
      <4>2. f \in Entry
        BY <4>1
      <4> QED BY <2>2, <4>1, <4>2, <1>2, <1>7
    <3>2. e \in Entry /\ e = data[heap[f].name]
      BY <3>1, <1>2
    <3> QED BY <3>1, <3>2, <1>2, <1>4 DEF GapInv
  <2>3. CASE x = e /\ e \notin Entry
    BY <2>3, <1>2, <1>7
  <2> QED BY <2>1, <2>2, <2>3, <1>1, <1>2
<1> DEFINE R(f) == RolledBack(f)'
<1>8. \A f \in Entry' :
        data'[heap'[f].name] # Nil /\ (f > data'[heap'[f].name] => R(f))
  BY <1>6
<1>9. \A x \in Kept' : heap'[x].child # Nil =>
        \A f \in Entry' : heap'[f].name = heap'[x].name /\ heap'[x].child < f /\ f < x => R(f)
  BY <1>7
<1> QED BY <1>8, <1>9 DEF GapInv

LEMMA GapLoop ==
    ASSUME ClockTypeOK, ClockTypeOK', EntryTypeOK, BufferTypeOK, ClockInv, GapInv,
           NEW t \in Tx, LoopStep(t), NEW u \in Tx, NEW e \in Entry, NEW p \in Entry,
           Stamped(t, e, p) \/ Undone(t, e, p) \/ Destroyed(t, u, e, p)
    PROVE  GapInv'
<1>0. /\ Entry \subseteq Nat /\ Nil \notin Entry /\ Kept \subseteq Entry
      /\ \A x \in Entry : heap[x].name \in Name
  BY HeapTypes
<1>1. Entry' = Entry /\ freed \subseteq freed' /\ written_by' = written_by
  BY DEF Stamped, Undone, Destroyed
<1>2. \A f \in Entry : RolledBack(f) => RolledBack(f)'
  BY <1>1, RolledBackStays
<1>3. CASE Stamped(t, e, p)
  <2>1. Kept' = Kept
    BY <1>3, StampedSets
  <2>2. data' = data /\ \A x \in Entry : heap'[x].name = heap[x].name
                                         /\ heap'[x].child = heap[x].child
    BY <1>3 DEF Stamped
  <2> QED BY <1>0, <1>1, <1>2, <2>1, <2>2 DEF GapInv
<1>4. CASE Undone(t, e, p)
  <2> DEFINE n == heap[e].name
  <2>1. Kept' = Kept \ {p} /\ p \in Kept /\ p > e /\ heap[p].child = e /\ e # Nil
        /\ heap[p].name = n /\ data[n] = p /\ n \in Name
    <3>1. Kept' = Kept \ {p}
      BY <1>4, UndoneSets
    <3>2. e # Nil /\ n \in Name
      BY <1>0
    <3> QED BY <1>4, <3>1, <3>2 DEF Undone
  <2>2. \A x \in Entry : heap'[x].name = heap[x].name /\ heap'[x].child = heap[x].child
    BY <1>4 DEF Undone
  <2>3. \A m \in Name : data'[m] = IF m = n THEN e ELSE data[m]
    BY <1>4 DEF Undone, EntryTypeOK
  <2>4. RolledBack(p)'
    <3>1. phase[t] = "undoing" /\ phase' = phase /\ commit_id' = commit_id
          /\ written_by'[p] = t /\ p \in freed'
      BY <1>4 DEF Undone, transactions
    <3>2. commit_id[t] = 0
      BY <3>1 DEF ClockInv
    <3> QED BY <3>1, <3>2 DEF RolledBack
  <2> HIDE DEF n
  <2>5. ASSUME NEW f \in Entry
        PROVE  data'[heap[f].name] # Nil /\ (f > data'[heap[f].name] => RolledBack(f)')
    <3>1. CASE heap[f].name # n
      BY <3>1, <2>3, <1>0, <1>2 DEF GapInv
    <3>2. CASE heap[f].name = n /\ f > e
      <4>0. data'[heap[f].name] # Nil
        BY <3>2, <2>1, <2>3
      <4>1. CASE f > p
        <5>1. f \in Entry /\ f > data[heap[f].name]
          BY <3>2, <4>1, <2>1
        <5>2. RolledBack(f)
          BY <5>1 DEF GapInv
        <5> QED BY <4>0, <5>2, <1>2
      <4>2. CASE f < p
        <5>1. /\ f \in Entry /\ p \in Kept /\ heap[p].child # Nil
              /\ heap[f].name = heap[p].name /\ heap[p].child < f /\ f < p
          BY <3>2, <4>2, <2>1
        <5>2. RolledBack(f)
          BY <5>1 DEF GapInv
        <5> QED BY <4>0, <5>2, <1>2
      <4>3. CASE f = p
        BY <4>3, <2>4, <2>3, <2>1
      <4> QED BY <4>1, <4>2, <4>3, <1>0
    <3>3. CASE heap[f].name = n /\ ~(f > e)
      BY <3>3, <2>1, <2>3, <1>0
    <3> QED BY <3>1, <3>2, <3>3
  <2>6. \A x \in Kept' : heap[x].child # Nil =>
          \A f \in Entry : heap[f].name = heap[x].name /\ heap[x].child < f /\ f < x =>
            RolledBack(f)'
    BY <1>2, <2>1 DEF GapInv
  <2> DEFINE R(f) == RolledBack(f)'
  <2>7. \A f \in Entry' : data'[heap'[f].name] # Nil /\ (f > data'[heap'[f].name] => R(f))
    BY <1>1, <2>2, <2>5
  <2>8. \A x \in Kept' : heap'[x].child # Nil =>
          \A f \in Entry' : heap'[f].name = heap'[x].name /\ heap'[x].child < f /\ f < x => R(f)
    <3>1. Kept' \subseteq Entry
      BY <2>1, <1>0
    <3> QED BY <1>1, <2>2, <2>6, <3>1
  <2> QED BY <2>7, <2>8 DEF GapInv
<1>5. CASE Destroyed(t, u, e, p)
  <2>1. Kept' = Kept \ {e}
    BY <1>5, DestroyedSets
  <2>2. data' = data /\ \A x \in Entry : heap'[x].name = heap[x].name
                                         /\ heap'[x].child \in {heap[x].child, Nil}
    BY <1>5 DEF Destroyed
  <2> DEFINE R(f) == RolledBack(f)'
  <2>3. \A f \in Entry' : data'[heap'[f].name] # Nil /\ (f > data'[heap'[f].name] => R(f))
    BY <1>0, <1>1, <1>2, <2>2 DEF GapInv
  <2>4. \A x \in Kept' : heap'[x].child # Nil =>
          \A f \in Entry' : heap'[f].name = heap'[x].name /\ heap'[x].child < f /\ f < x => R(f)
    <3>1. Kept' \subseteq Kept /\ Kept \subseteq Entry
      BY <2>1, <1>0
    <3> QED BY <1>1, <1>2, <2>2, <3>1 DEF GapInv
  <2> QED BY <2>3, <2>4 DEF GapInv
<1> QED BY <1>3, <1>4, <1>5

-----------------------------------------------------------------------------
(* Lookups, step by step. *)

\* Any step of t.
AnyStep(t) == EndStep(t) \/ StatementStep(t) \/ LoopStep(t)

LEMMA LookupTypes ==
    ASSUME EntryTypeOK, LookupTypeOK, NEW t \in Tx, AnyStep(t), Entry \subseteq Entry'
    PROVE  LookupTypeOK'
<1>1. /\ catalog_lock \in Tx \cup {NoTx} /\ current \in [Tx -> Entry \cup {Nil}]
      /\ wanted \in [Tx -> [name : Name, use : {"drop", "insert"}] \cup {<< >>}]
  BY DEF LookupTypeOK
<1>2. CASE UNCHANGED <<catalog_lock, lookup>>
  BY <1>1, <1>2 DEF LookupTypeOK, lookup
<1>3. CASE EndStep(t) \/ LoopStep(t) \/ \E n \in Name : CreateEntry(t, n)
  BY <1>2, <1>3 DEF EndStep, LoopStep, StartTransaction, CommitTransaction,
     RollbackTransaction, BeginRemove, CleanupDone, EndRemove, CommitEntry, UndoEntry,
     CleanupEntry, CreateEntry
<1>4. ASSUME NEW n \in Name, NEW use \in {"drop", "insert"}, BeginLookup(t, n, use)
      PROVE  LookupTypeOK'
  <2>1. data[n] \in Entry \cup {Nil}
    BY HeapTypes
  <2> QED BY <1>1, <1>4, <2>1 DEF BeginLookup, LookupTypeOK
<1>5. CASE Walk(t)
  <2>1. current[t] \in Entry
    BY <1>1, <1>5 DEF Walk, WalksOn
  <2>2. heap[current[t]].child \in Entry \cup {Nil}
    BY <2>1, HeapTypes
  <2> QED BY <1>1, <1>5, <2>2 DEF Walk, LookupTypeOK
<1>6. CASE EndLookup(t)
  <2>1. Live(current[t]) \in Entry \cup {Nil}
    BY <1>1 DEF Live
  <2> QED BY <1>1, <1>6, <2>1 DEF EndLookup, LookupTypeOK
<1>7. CASE DropEntry(t) \/ AppendToTable(t)
  BY <1>1, <1>7 DEF DropEntry, AppendToTable, EndStatement, LookupTypeOK
<1> QED BY <1>3, <1>4, <1>5, <1>6, <1>7 DEF AnyStep, StatementStep

\* InSnapshot after the step.
InNextSnapshot(t, e) ==
    LET u == written_by'[e] IN u \in {t, NoTx} \/ commit_id'[u] \in 1..start_time'[t] - 1

\* A snapshot does not change while its transaction runs.
LEMMA SnapshotStays ==
    ASSUME ClockTypeOK, ClockInv, EntryTypeOK, NEW t \in Tx, AnyStep(t), NEW x \in Tx,
           phase[x] \in Running, phase'[x] \in Running, NEW f \in Entry,
           written_by'[f] = written_by[f]
    PROVE  InNextSnapshot(x, f) <=> InSnapshot(x, f)
<1> DEFINE w == written_by[f]
<1>1. w \in Tx \cup {NoTx} /\ written_by'[f] = w
  BY HeapTypes
<1>2. start_time'[x] = start_time[x]
  <2>1. ~StartTransaction(x)
    BY DEF StartTransaction, Running
  <2> QED BY <2>1, Phases DEF AnyStep
<1>3. start_time[x] \in Nat /\ start_time[x] < current_start_timestamp
      /\ current_start_timestamp \in Nat
  BY DEF ClockTypeOK, ClockInv, Running
<1> HIDE DEF w
<1>4. CASE w \in Tx /\ commit_id'[w] # commit_id[w]
  <2>1. CommitTransaction(w)
    BY <1>4, Phases DEF AnyStep
  <2>2. commit_id'[w] = current_start_timestamp /\ commit_id[w] = 0 /\ w # NoTx
    BY <1>4, <2>1, TxAssumption DEF CommitTransaction, ClockTypeOK, ClockInv, Running
  <2>3. w # x
    <3>1. phase'[w] = "committing"
      BY <1>4, <2>1 DEF CommitTransaction, Goto, ClockTypeOK
    <3> QED BY <3>1 DEF Running
  <2> QED BY <1>1, <1>2, <1>3, <2>2, <2>3 DEF InSnapshot, InNextSnapshot, w
<1>5. CASE w = NoTx \/ commit_id'[w] = commit_id[w]
  BY <1>1, <1>2, <1>5 DEF InSnapshot, InNextSnapshot, w
<1> QED BY <1>1, <1>4, <1>5

\* What GetEntry accepts is what belongs to the snapshot.
LEMMA SeesSnapshot ==
    ASSUME ClockTypeOK, EntryTypeOK, ClockInv, WriterInv, NEW x \in Tx, phase[x] \in Running,
           NEW e \in Kept
    PROVE  Sees(x, e) <=> InSnapshot(x, e)
<1> DEFINE w == written_by[e]
           s == heap[e].timestamp
<1>1. w \in Tx \cup {NoTx} /\ e \in Entry
  BY HeapTypes
<1>2. start_time[x] \in Nat /\ start_time[x] >= 4 /\ x # NoTx
      /\ \A u \in Tx : u \notin Nat /\ commit_id[u] \in Nat
  BY TxAssumption DEF ClockTypeOK, ClockInv, Running
<1>3. Sees(x, e) <=> (s = x \/ (s \notin Tx /\ s < start_time[x]))
  BY DEF Sees
<1>4. InSnapshot(x, e) <=> (w \in {x, NoTx} \/ commit_id[w] \in 1..start_time[x] - 1)
  BY DEF InSnapshot
<1>5. /\ w = NoTx => s \in 0..3
      /\ w # NoTx =>
            /\ phase[w] # "idle"
            /\ phase[w] \in Running \cup {"undoing"} => s = w
            /\ phase[w] = "committing" => s \in {w, commit_id[w]}
            /\ phase[w] \in Left => commit_id[w] # 0 /\ s = commit_id[w]
  BY DEF WriterInv
<1> HIDE DEF w, s
<1>6. CASE w = NoTx
  BY <1>2, <1>3, <1>4, <1>5, <1>6
<1>7. CASE w \in Tx
  <2>1. w # NoTx
    BY <1>7, TxAssumption
  <2>2. CASE phase[w] \in Running \cup {"undoing"}
    <3>1. s = w /\ commit_id[w] = 0
      BY <1>5, <1>7, <2>1, <2>2 DEF ClockInv
    <3> QED BY <1>2, <1>3, <1>4, <1>7, <2>1, <3>1
  <2>3. CASE phase[w] = "committing"
    <3>1. s \in {w, commit_id[w]} /\ start_time[x] < commit_id[w] /\ w # x
      BY <1>5, <1>7, <2>1, <2>3 DEF ClockInv, Running
    <3> QED BY <1>2, <1>3, <1>4, <1>7, <2>1, <3>1
  <2>4. CASE phase[w] \in Left
    <3>1. s = commit_id[w] /\ commit_id[w] # 0 /\ w # x
      BY <1>5, <1>7, <2>1, <2>4 DEF Running, Left
    <3> QED BY <1>2, <1>3, <1>4, <1>7, <2>1, <3>1
  <2>5. phase[w] \in Running \cup {"undoing", "committing"} \cup Left
    BY <1>5, <1>7, <2>1 DEF ClockTypeOK, Left
  <2> QED BY <2>2, <2>3, <2>4, <2>5
<1> QED BY <1>1, <1>6, <1>7

\* What was rolled back is in nobody's snapshot.
LEMMA RolledBackUnseen ==
    ASSUME NEW x \in Tx, phase[x] \in Running, NEW f \in Entry, RolledBack(f)
    PROVE  ~InSnapshot(x, f)
BY TxAssumption DEF RolledBack, InSnapshot, Running, Left

\* The lookup of x is not touched.
Stays(x) == UNCHANGED <<phase[x], current[x], wanted[x]>>

LEMMA CurrentSame ==
    ASSUME ClockTypeOK, ClockInv, EntryTypeOK, NEW t \in Tx, AnyStep(t), Same,
           NEW x \in Tx, Stays(x), CurrentOf(x), LookupOf(x)
    PROVE  CurrentOf(x)' /\ LookupOf(x)'
<1>1. /\ Entry' = Entry /\ Kept' = Kept /\ heap' = heap /\ written_by' = written_by
      /\ phase'[x] = phase[x] /\ current'[x] = current[x] /\ wanted'[x] = wanted[x]
  BY DEF Same, Stays, Kept
<1>2. CASE phase[x] \notin {"lookup", "found"}
  BY <1>1, <1>2 DEF CurrentOf, LookupOf
<1>3. CASE phase[x] \in {"lookup", "found"}
  <2> DEFINE S(f) == InNextSnapshot(x, f)
             c == current[x]
  <2>2. \A f \in Entry : S(f) <=> InSnapshot(x, f)
    BY <1>1, <1>3, SnapshotStays DEF Running
  <2>3. c # Nil => c \in Entry /\ c \in Kept /\ heap[c].parent \in Entry \cup {Nil}
    BY <1>3, HeapTypes DEF CurrentOf
  <2>4. /\ phase[x] = "found" => c # Nil /\ S(c)
        /\ c # Nil /\ heap[c].parent # Nil => ~S(heap[c].parent)
    BY <1>3, <2>2, <2>3 DEF CurrentOf
  <2>5. /\ wanted[x] \in [name : Name, use : {"drop", "insert"}]
        /\ c # Nil => heap[c].name = wanted[x].name
    BY <1>3 DEF CurrentOf
  <2>6. CurrentOf(x)'
    BY <1>1, <1>3, <2>3, <2>4, <2>5 DEF CurrentOf, InSnapshot, InNextSnapshot
  <2>7. LookupOf(x)'
    BY <1>1, <2>2 DEF LookupOf, InSnapshot, InNextSnapshot
  <2> QED BY <2>6, <2>7
<1> QED BY <1>2, <1>3

LEMMA CurrentPushed ==
    ASSUME ClockTypeOK, ClockInv, EntryTypeOK, BufferTypeOK, CurrentInv,
           NEW t \in Tx, NEW n \in Name, NEW e \in Nat, NEW v \in Nat, StatementStep(t),
           phase[t] \in {"ready", "found"}, catalog_lock = NoTx, Pushed(t, n, e, v),
           NEW x \in Tx, x # t, Stays(x), CurrentOf(x), LookupOf(x)
    PROVE  CurrentOf(x)' /\ LookupOf(x)'
<1>1. phase'[x] = phase[x] /\ current'[x] = current[x] /\ wanted'[x] = wanted[x]
  BY DEF Stays
<1>2. phase[x] # "lookup"
  BY TxAssumption DEF CurrentInv
<1>3. CASE phase[x] # "found"
  BY <1>1, <1>2, <1>3 DEF CurrentOf, LookupOf
<1>4. CASE phase[x] = "found"
  <2> DEFINE c == current[x]
             S(f) == InNextSnapshot(x, f)
  <2>1. /\ c # Nil /\ c \in Kept /\ c \in Entry /\ heap[c].name = wanted[x].name
        /\ heap[c].parent \in Entry \cup {Nil} /\ InSnapshot(x, c)
        /\ heap[c].parent # Nil => ~InSnapshot(x, heap[c].parent)
        /\ wanted[x] \in [name : Name, use : {"drop", "insert"}]
    BY <1>4, HeapTypes DEF CurrentOf
  <2>2. \A f \in Entry : S(f) <=> InSnapshot(x, f)
    <3>1. \A f \in Entry : written_by'[f] = written_by[f]
      BY DEF Pushed
    <3> QED BY <1>1, <1>4, <3>1, SnapshotStays DEF Running, AnyStep
  <2>3. ~S(v)
    <3>1. written_by'[v] = t /\ t # NoTx
      BY TxAssumption DEF Pushed
    <3>2. commit_id'[t] = 0
      <4>1. commit_id' = commit_id
        BY QuietSteps DEF transactions
      <4> QED BY <4>1 DEF ClockInv, Running
    <3> QED BY <3>1, <3>2 DEF InNextSnapshot
  <2>4. /\ heap'[c].name = heap[c].name
        /\ heap'[c].parent = IF c = e THEN v ELSE heap[c].parent
    BY <2>1 DEF Pushed
  <2>5. c \in Kept'
    BY <2>1, PushedSets
  <2>6. S(c) /\ (heap'[c].parent # Nil => ~S(heap'[c].parent))
    BY <2>1, <2>2, <2>3, <2>4
  <2> QED BY <1>1, <1>4, <2>1, <2>4, <2>5, <2>6 DEF CurrentOf, LookupOf, InSnapshot, InNextSnapshot
<1> QED BY <1>3, <1>4

LEMMA CurrentLoop ==
    ASSUME ClockTypeOK, ClockInv, EntryTypeOK, BufferTypeOK, CurrentInv,
           NEW t \in Tx, LoopStep(t), NEW u \in Tx, NEW e \in Entry, NEW p \in Entry,
           Stamped(t, e, p) \/ Undone(t, e, p) \/ Destroyed(t, u, e, p),
           NEW x \in Tx, CurrentOf(x), LookupOf(x)
    PROVE  CurrentOf(x)' /\ LookupOf(x)'
<1>1. /\ phase'[x] = phase[x] /\ current'[x] = current[x] /\ wanted'[x] = wanted[x]
      /\ Entry' = Entry /\ written_by' = written_by
      /\ \A f \in Entry : heap'[f].name = heap[f].name
  BY DEF Stamped, Undone, Destroyed, lookup
<1>2. CASE phase[x] \notin {"lookup", "found"}
  BY <1>1, <1>2 DEF CurrentOf, LookupOf
<1>3. CASE phase[x] \in {"lookup", "found"}
  <2> DEFINE S(f) == InNextSnapshot(x, f)
             c == current[x]
  <2>1. \A f \in Entry : S(f) <=> InSnapshot(x, f)
    BY <1>1, <1>3, SnapshotStays DEF Running, AnyStep
  <2>2. c # Nil => c \in Entry /\ c \in Kept /\ heap[c].parent \in Entry \cup {Nil}
    BY <1>3, HeapTypes DEF CurrentOf
  <2>3. /\ wanted[x] \in [name : Name, use : {"drop", "insert"}]
        /\ c # Nil => heap'[c].name = wanted[x].name
        /\ phase[x] = "found" => c # Nil /\ S(c)
        /\ c # Nil /\ heap[c].parent # Nil => ~S(heap[c].parent)
    BY <1>1, <1>3, <2>1, <2>2 DEF CurrentOf
  <2>4. LookupOf(x)'
    BY <1>1, <2>1 DEF LookupOf, InSnapshot, InNextSnapshot
  <2>5. c # Nil => c \in Kept' /\ heap'[c].parent \in {heap[c].parent, Nil}
    <3> SUFFICES ASSUME c # Nil PROVE c \in Kept' /\ heap'[c].parent \in {heap[c].parent, Nil}
      OBVIOUS
    <3>1. CASE Stamped(t, e, p)
      <4>1. Kept' = Kept
        BY <3>1, StampedSets
      <4>2. heap'[c].parent = heap[c].parent
        BY <2>2, <3>1 DEF Stamped
      <4> QED BY <2>2, <4>1, <4>2
    <3>2. CASE Undone(t, e, p)
      <4>1. Kept' = Kept \ {p}
        BY <3>2, UndoneSets
      <4>2. phase[t] = "undoing" /\ catalog_lock = NoTx /\ written_by[p] = t
            /\ heap'[c].parent \in {heap[c].parent, Nil}
        BY <2>2, <3>2 DEF Undone
      <4>3. phase[x] = "found" /\ x # t /\ t # NoTx
        BY <1>3, <4>2, TxAssumption DEF CurrentInv
      <4>4. commit_id[t] = 0
        BY <4>2 DEF ClockInv
      <4>5. ~InSnapshot(x, p)
        BY <4>2, <4>3, <4>4 DEF InSnapshot
      <4>6. c # p
        BY <4>3, <4>5 DEF CurrentOf
      <4> QED BY <2>2, <4>1, <4>2, <4>6
    <3>3. CASE Destroyed(t, u, e, p)
      <4>1. Kept' = Kept \ {e}
        BY <3>3, DestroyedSets
      <4>2. /\ Cleanable /\ u = recently_committed[1] /\ commit_id[u] # 0
            /\ heap[e].parent = p /\ p # Nil /\ written_by[p] = u
            /\ heap'[c].parent = heap[c].parent
        BY <2>2, <3>3, HeapTypes DEF Destroyed
      <4>3. x \in Active
        BY <1>3 DEF Active, Running
      <4>4. recently_committed \in Seq(Tx) /\ recently_committed # << >>
        BY <4>2 DEF ClockTypeOK, Cleanable
      <4>5. Head(recently_committed) = u
        BY <4>2, <4>4
      <4>6. commit_id[u] < start_time[x] /\ commit_id[u] \in Nat /\ start_time[x] \in Nat
        BY <4>2, <4>3, <4>5 DEF Cleanable, ClockTypeOK
      <4>7. InSnapshot(x, p)
        BY <4>2, <4>6 DEF InSnapshot
      <4>8. c # e
        BY <1>3, <4>2, <4>7 DEF CurrentOf
      <4> QED BY <2>2, <4>1, <4>2, <4>8
    <3> QED BY <3>1, <3>2, <3>3
  <2> QED BY <1>1, <1>3, <2>3, <2>4, <2>5 DEF CurrentOf, InSnapshot, InNextSnapshot
<1> QED BY <1>2, <1>3

LEMMA BeginLookupCurrent ==
    ASSUME ClockTypeOK, ClockInv, EntryTypeOK, LookupTypeOK, NewestInv, GapInv, NEW t \in Tx,
           NEW n \in Name, NEW use \in {"drop", "insert"}, BeginLookup(t, n, use)
    PROVE  CurrentOf(t)' /\ LookupOf(t)'
<1> DEFINE S(f) == InNextSnapshot(t, f)
<1>1. /\ phase[t] = "ready" /\ phase'[t] = "lookup" /\ current'[t] = data[n]
      /\ wanted'[t] = [name |-> n, use |-> use]
      /\ Entry' = Entry /\ Kept' = Kept /\ heap' = heap /\ written_by' = written_by
  BY DEF BeginLookup, Goto, ClockTypeOK, LookupTypeOK, entries, Entry, Kept
<1>2. wanted'[t] \in [name : Name, use : {"drop", "insert"}] /\ wanted'[t].name = n
  BY <1>1
<1>3. CurrentOf(t)'
  BY <1>1, <1>2 DEF CurrentOf, NewestInv
<1>4. ASSUME NEW f \in Entry, heap[f].name = n, f > data[n] PROVE ~S(f)
  <2>1. RolledBack(f)
    BY <1>4 DEF GapInv
  <2>2. ~InSnapshot(t, f)
    BY <1>1, <2>1, RolledBackUnseen DEF Running
  <2>3. S(f) <=> InSnapshot(t, f)
    <3>1. AnyStep(t)
      BY DEF AnyStep, StatementStep
    <3> QED BY <1>1, <3>1, SnapshotStays DEF Running
  <2> QED BY <2>2, <2>3
<1>5. LookupOf(t)'
  BY <1>1, <1>2, <1>4 DEF LookupOf, InSnapshot, InNextSnapshot
<1> QED BY <1>3, <1>5

LEMMA WalkCurrent ==
    ASSUME ClockTypeOK, ClockInv, EntryTypeOK, LookupTypeOK, LinkInv, WriterInv, GapInv,
           NEW t \in Tx, Walk(t), CurrentOf(t), LookupOf(t)
    PROVE  CurrentOf(t)' /\ LookupOf(t)'
<1> DEFINE S(f) == InNextSnapshot(t, f)
           c == current[t]
           d == heap[c].child
<1>1. /\ phase[t] = "lookup" /\ phase'[t] = "lookup" /\ current'[t] = d
      /\ wanted' = wanted /\ c # Nil /\ d # Nil /\ ~Sees(t, c)
      /\ Entry' = Entry /\ Kept' = Kept /\ heap' = heap /\ written_by' = written_by
  BY DEF Walk, WalksOn, LookupTypeOK, entries, Entry, Kept
<1>2. /\ c \in Kept /\ heap[c].name = wanted[t].name
      /\ wanted[t] \in [name : Name, use : {"drop", "insert"}]
  BY <1>1 DEF CurrentOf
<1>3. d \in Kept /\ heap[d].parent = c /\ heap[d].name = heap[c].name
  BY <1>1, <1>2 DEF LinkInv
<1>4. \A f \in Entry : S(f) <=> InSnapshot(t, f)
  <2>1. AnyStep(t)
    BY DEF AnyStep, StatementStep
  <2> QED BY <1>1, <2>1, SnapshotStays DEF Running
<1>5. ~InSnapshot(t, c)
  BY <1>1, <1>2, SeesSnapshot DEF Running
<1>6. c \in Entry /\ d \in Entry /\ Entry \subseteq Nat
  BY <1>2, <1>3, HeapTypes
<1> HIDE DEF d, c
<1>7. ASSUME NEW f \in Entry, heap[f].name = wanted[t].name, f > d PROVE ~S(f)
  <2>1. CASE f > c
    BY <1>1, <1>4, <1>7, <2>1 DEF LookupOf, c
  <2>2. CASE f = c
    BY <1>4, <1>5, <2>2
  <2>3. CASE f < c
    <3>1. RolledBack(f)
      BY <1>1, <1>2, <1>7, <2>3 DEF GapInv, d
    <3>2. ~InSnapshot(t, f)
      BY <1>1, <3>1, RolledBackUnseen DEF Running
    <3> QED BY <1>4, <3>2
  <2> QED BY <1>6, <2>1, <2>2, <2>3
<1>8. ~S(c)
  BY <1>4, <1>5, <1>6
<1>9. CurrentOf(t)'
  BY <1>1, <1>2, <1>3, <1>8 DEF CurrentOf, InSnapshot, InNextSnapshot
<1>10. LookupOf(t)'
  BY <1>1, <1>7 DEF LookupOf, InSnapshot, InNextSnapshot
<1> QED BY <1>9, <1>10

\* Where a lookup ends is in its snapshot.
LEMMA EndIsInSnapshot ==
    ASSUME ClockTypeOK, ClockInv, EntryTypeOK, WriterInv, LastInv, NEW t \in Tx, CurrentOf(t),
           phase[t] = "lookup", ~WalksOn(t), current[t] # Nil
    PROVE  InSnapshot(t, current[t])
<1> DEFINE c == current[t]
           w == written_by[c]
<1>1. c \in Kept /\ w \in Tx \cup {NoTx}
  BY HeapTypes DEF CurrentOf
<1>2. heap[c].child = Nil \/ Sees(t, c)
  BY DEF WalksOn
<1>3. CASE Sees(t, c)
  BY <1>1, <1>3, SeesSnapshot DEF Running
<1>4. CASE heap[c].child = Nil
  <2>1. CASE w = NoTx
    BY <2>1 DEF InSnapshot
  <2>2. CASE w # NoTx
    <3>1. /\ phase[w] \in Left /\ commit_id[w] < start_time[t] /\ commit_id[w] # 0
          /\ w \in Tx
      BY <1>1, <1>4, <2>2 DEF LastInv, WriterInv, Active, Running
    <3>2. commit_id[w] \in Nat /\ start_time[t] \in Nat
      BY <3>1 DEF ClockTypeOK
    <3> QED BY <3>1, <3>2 DEF InSnapshot
  <2> QED BY <2>1, <2>2
<1> QED BY <1>2, <1>3, <1>4

LEMMA EndLookupCurrent ==
    ASSUME ClockTypeOK, ClockInv, EntryTypeOK, LookupTypeOK, WriterInv, LastInv,
           NEW t \in Tx, EndLookup(t), CurrentOf(t)
    PROVE  CurrentOf(t)' /\ LookupOf(t)'
<1> DEFINE S(f) == InNextSnapshot(t, f)
           c == current[t]
<1>1. /\ phase[t] = "lookup" /\ ~WalksOn(t) /\ current'[t] = Live(c)
      /\ phase'[t] = IF Live(c) = Nil THEN "ready" ELSE "found"
      /\ Live(c) # Nil => wanted'[t] = wanted[t] /\ c # Nil /\ Live(c) = c
      /\ Entry' = Entry /\ Kept' = Kept /\ heap' = heap /\ written_by' = written_by
  BY DEF EndLookup, Goto, ClockTypeOK, LookupTypeOK, entries, Entry, Kept, Live
<1>2. LookupOf(t)'
  BY <1>1 DEF LookupOf
<1>3. CASE Live(c) = Nil
  BY <1>1, <1>2, <1>3 DEF CurrentOf
<1>4. CASE Live(c) # Nil
  <2>1. /\ c \in Kept /\ c \in Entry /\ heap[c].name = wanted[t].name
        /\ heap[c].parent \in Entry \cup {Nil}
        /\ heap[c].parent # Nil => ~InSnapshot(t, heap[c].parent)
        /\ wanted[t] \in [name : Name, use : {"drop", "insert"}]
    BY <1>1, <1>4, HeapTypes DEF CurrentOf
  <2>2. InSnapshot(t, c)
    BY <1>1, <1>4, EndIsInSnapshot
  <2>3. \A f \in Entry : S(f) <=> InSnapshot(t, f)
    <3>1. AnyStep(t)
      BY DEF AnyStep, StatementStep
    <3> QED BY <1>1, <3>1, SnapshotStays DEF Running
  <2>4. S(c) /\ (heap[c].parent # Nil => ~S(heap[c].parent))
    BY <2>1, <2>2, <2>3
  <2> QED BY <1>1, <1>2, <1>4, <2>1, <2>4 DEF CurrentOf, InSnapshot, InNextSnapshot
<1> QED BY <1>3, <1>4

LEMMA OwnLookup ==
    ASSUME ClockTypeOK, ClockInv, EntryTypeOK, LookupTypeOK, NewestInv, LinkInv, GapInv,
           WriterInv, LastInv, CurrentInv, LookupInv, NEW t \in Tx, StatementStep(t)
    PROVE  /\ CurrentOf(t)' /\ LookupOf(t)'
           /\ \A x \in Tx \ {t} : Stays(x)
           /\ \A x \in Tx : phase'[x] = "lookup" <=> catalog_lock' = x
<1>1. /\ \A x \in Tx : phase[x] = "lookup" <=> catalog_lock = x
      /\ CurrentOf(t) /\ LookupOf(t) /\ NoTx \notin Tx
  BY TxAssumption DEF CurrentInv, LookupInv
<1>2. ASSUME NEW n \in Name, NEW use \in {"drop", "insert"}, BeginLookup(t, n, use)
      PROVE  /\ CurrentOf(t)' /\ LookupOf(t)'
             /\ \A x \in Tx \ {t} : Stays(x)
             /\ \A x \in Tx : phase'[x] = "lookup" <=> catalog_lock' = x
  <2>1. CurrentOf(t)' /\ LookupOf(t)'
    BY <1>2, BeginLookupCurrent
  <2>2. /\ \A x \in Tx \ {t} : Stays(x)
        /\ \A x \in Tx : phase'[x] = "lookup" <=> catalog_lock' = x
    BY <1>1, <1>2 DEF BeginLookup, Goto, Stays, ClockTypeOK, LookupTypeOK
  <2> QED BY <2>1, <2>2
<1>3. CASE Walk(t)
  <2>1. CurrentOf(t)' /\ LookupOf(t)'
    BY <1>1, <1>3, WalkCurrent
  <2>2. /\ \A x \in Tx \ {t} : Stays(x)
        /\ \A x \in Tx : phase'[x] = "lookup" <=> catalog_lock' = x
    BY <1>1, <1>3 DEF Walk, Stays, LookupTypeOK
  <2> QED BY <2>1, <2>2
<1>4. CASE EndLookup(t)
  <2>1. CurrentOf(t)' /\ LookupOf(t)'
    BY <1>1, <1>4, EndLookupCurrent
  <2>2. /\ \A x \in Tx \ {t} : Stays(x)
        /\ \A x \in Tx : phase'[x] = "lookup" <=> catalog_lock' = x
    BY <1>1, <1>4 DEF EndLookup, Goto, Stays, ClockTypeOK, LookupTypeOK
  <2> QED BY <2>1, <2>2
<1>5. ASSUME NEW n \in Name, CreateEntry(t, n)
      PROVE  /\ CurrentOf(t)' /\ LookupOf(t)'
             /\ \A x \in Tx \ {t} : Stays(x)
             /\ \A x \in Tx : phase'[x] = "lookup" <=> catalog_lock' = x
  <2>1. phase[t] = "ready" /\ UNCHANGED <<phase, catalog_lock, wanted, current>>
    BY <1>5 DEF CreateEntry, lookup
  <2> QED BY <1>1, <2>1 DEF CurrentOf, LookupOf, Stays
<1>6. CASE DropEntry(t) \/ AppendToTable(t)
  <2>1. phase[t] = "found" /\ catalog_lock' = catalog_lock /\ EndStatement(t)
    BY <1>6 DEF DropEntry, AppendToTable
  <2>2. /\ phase'[t] = "ready" /\ current'[t] = Nil
        /\ \A x \in Tx \ {t} : Stays(x)
    BY <2>1 DEF EndStatement, Goto, Stays, ClockTypeOK, LookupTypeOK
  <2> QED BY <1>1, <2>1, <2>2 DEF CurrentOf, LookupOf, Stays
<1> QED BY <1>2, <1>3, <1>4, <1>5, <1>6 DEF StatementStep

LEMMA StatementLookup ==
    ASSUME ClockTypeOK, ClockInv, EntryTypeOK, BufferTypeOK, LookupTypeOK, NewestInv, LinkInv,
           GapInv, WriterInv, LastInv, CurrentInv, LookupInv, StatementSteps
    PROVE  CurrentInv' /\ LookupInv'
<1>1. ASSUME NEW t \in Tx, StatementStep(t), \A x \in Tx \ {t} : CurrentOf(x)' /\ LookupOf(x)'
      PROVE  CurrentInv' /\ LookupInv'
  <2>1. CurrentOf(t)' /\ LookupOf(t)' /\ \A x \in Tx : phase'[x] = "lookup" <=> catalog_lock' = x
    BY <1>1, OwnLookup
  <2>2. \A x \in Tx : CurrentOf(x)' /\ LookupOf(x)'
    BY <1>1, <2>1
  <2> QED BY <2>1, <2>2 DEF CurrentInv, LookupInv
<1>2. ASSUME NEW t \in Tx, StatementStep(t), Same
      PROVE  \A x \in Tx \ {t} : CurrentOf(x)' /\ LookupOf(x)'
  <2> TAKE x \in Tx \ {t}
  <2>1. Stays(x) /\ CurrentOf(x) /\ LookupOf(x) /\ AnyStep(t)
    BY <1>2, OwnLookup DEF CurrentInv, LookupInv, AnyStep
  <2> QED BY <1>2, <2>1, CurrentSame
<1>3. ASSUME NEW t \in Tx, NEW n \in Name, NEW e \in Nat, NEW v \in Nat, StatementStep(t),
             phase[t] \in {"ready", "found"}, catalog_lock = NoTx, Pushed(t, n, e, v)
      PROVE  \A x \in Tx \ {t} : CurrentOf(x)' /\ LookupOf(x)'
  <2> TAKE x \in Tx \ {t}
  <2>1. Stays(x) /\ CurrentOf(x) /\ LookupOf(x) /\ x \in Tx /\ x # t
    BY <1>3, OwnLookup DEF CurrentInv, LookupInv
  <2> QED BY <1>3, <2>1, CurrentPushed
<1> QED BY <1>1, <1>2, <1>3 DEF StatementSteps

LEMMA EndStepLookup ==
    ASSUME ClockTypeOK, ClockInv, EntryTypeOK, CurrentInv, LookupInv, NEW t \in Tx,
           EndStep(t), Same
    PROVE  CurrentInv' /\ LookupInv'
<1>1. \A x \in Tx : /\ phase[x] = "lookup" <=> catalog_lock = x
                    /\ CurrentOf(x) /\ LookupOf(x)
  BY DEF CurrentInv, LookupInv
<1>2. /\ UNCHANGED <<wanted, current, catalog_lock>>
      /\ \/ UNCHANGED phase
         \/ /\ phase[t] \notin {"lookup", "found"}
            /\ \E q \in {"ready", "committing", "undoing", "cleaning", "done"} :
                 phase' = [phase EXCEPT ![t] = q]
  BY DEF EndStep, StartTransaction, CommitTransaction, RollbackTransaction, BeginRemove,
         CleanupDone, EndRemove, Goto, lookup
<1>3. /\ \A x \in Tx : phase'[x] = "lookup" <=> phase[x] = "lookup"
      /\ \A x \in Tx : Stays(x) \/ {phase[x], phase'[x]} \cap {"lookup", "found"} = {}
  BY <1>2 DEF ClockTypeOK, Stays
<1>4. ASSUME NEW x \in Tx PROVE CurrentOf(x)' /\ LookupOf(x)'
  <2>1. CASE Stays(x)
    <3>1. AnyStep(t)
      BY DEF AnyStep
    <3> QED BY <1>1, <2>1, <3>1, CurrentSame
  <2>2. CASE {phase[x], phase'[x]} \cap {"lookup", "found"} = {}
    BY <1>1, <1>2, <2>2 DEF CurrentOf, LookupOf
  <2> QED BY <1>3, <2>1, <2>2
<1>5. \A x \in Tx : phase'[x] = "lookup" <=> catalog_lock' = x
  BY <1>1, <1>2, <1>3
<1> QED BY <1>4, <1>5 DEF CurrentInv, LookupInv

LEMMA LoopLookup ==
    ASSUME ClockTypeOK, ClockInv, EntryTypeOK, BufferTypeOK, CurrentInv, LookupInv,
           NEW t \in Tx, LoopStep(t),
           \/ Same
           \/ \E e, p \in Entry : Stamped(t, e, p)
           \/ \E e, p \in Entry : Undone(t, e, p)
           \/ \E u \in Tx : \E e, p \in Entry : Destroyed(t, u, e, p)
    PROVE  CurrentInv' /\ LookupInv'
<1>1. \A x \in Tx : /\ phase[x] = "lookup" <=> catalog_lock = x
                    /\ CurrentOf(x) /\ LookupOf(x)
  BY DEF CurrentInv, LookupInv
<1>2. UNCHANGED <<phase, wanted, current, catalog_lock>>
  BY DEF LoopStep, CommitEntry, UndoEntry, CleanupEntry, lookup
<1>3. ASSUME NEW x \in Tx PROVE CurrentOf(x)' /\ LookupOf(x)'
  <2>1. CASE Same
    <3>1. AnyStep(t) /\ Stays(x)
      BY <1>2 DEF AnyStep, Stays
    <3> QED BY <1>1, <2>1, <3>1, CurrentSame
  <2>2. ASSUME NEW u \in Tx, NEW e \in Entry, NEW p \in Entry,
               Stamped(t, e, p) \/ Undone(t, e, p) \/ Destroyed(t, u, e, p)
        PROVE  CurrentOf(x)' /\ LookupOf(x)'
    BY <1>1, <2>2, CurrentLoop
  <2> QED BY <2>1, <2>2
<1>4. \A x \in Tx : phase'[x] = "lookup" <=> catalog_lock' = x
  BY <1>1, <1>2
<1> QED BY <1>3, <1>4 DEF CurrentInv, LookupInv

-----------------------------------------------------------------------------
(* The invariant is inductive. *)

LEMMA InitInv == Init => IInv
<1> SUFFICES ASSUME Init PROVE IInv
  OBVIOUS
<1> DEFINE E == << >>
<1>1. PICK m \in Name : /\ data = [n \in Name |-> IF n = m THEN 1 ELSE Nil]
                        /\ heap = <<Version(m, FALSE, 3, Nil)>>
  BY DEF Init
<1>2. /\ freed = {} /\ catalog_lock = NoTx
      /\ wanted = [t \in Tx |-> << >>] /\ current = [t \in Tx |-> Nil]
      /\ undo = [t \in Tx |-> << >>] /\ visited = [t \in Tx |-> 0]
      /\ written_by = <<NoTx>>
      /\ phase = [t \in Tx |-> "idle"] /\ commit_id = [t \in Tx |-> 0]
  BY DEF Init
<1> DEFINE b == Version(m, FALSE, 3, Nil)
<1>3. /\ b \in VersionType(1) /\ b.name = m /\ b.deleted = FALSE /\ b.timestamp = 3
      /\ b.child = Nil /\ b.parent = Nil
  BY DEF Version, VersionType, Nil
<1> HIDE DEF b
<1>4. Len(heap) = 1 /\ Entry = {1} /\ heap[1] = b /\ heap \in Seq(VersionType(1))
  <2>1. heap = <<b>>
    BY <1>1 DEF b
  <2>2. Len(heap) = 1 /\ heap[1] = b /\ heap \in Seq(VersionType(1))
    BY <1>3, <2>1
  <2> QED BY <2>2 DEF Entry
<1>5. Len(written_by) = 1 /\ written_by[1] = NoTx /\ written_by \in Seq(Tx \cup {NoTx})
  BY <1>2
<1>6. \A u \in Tx : undo[u] = << >> /\ Len(undo[u]) = 0 /\ visited[u] = 0 /\ phase[u] = "idle"
                    /\ current[u] = Nil
  BY <1>2
<1>7. Kept = {1}
  BY <1>2, <1>4 DEF Kept
<1>8. \A u \in Tx : Pending(u) = {}
  BY <1>6 DEF Pending
<1>9. ClockTypeOK /\ ClockInv /\ ListInv
  BY ClockInit
<1>10. EntryTypeOK
  <2>1. data \in [Name -> Entry \cup {Nil}]
    BY <1>1, <1>4
  <2>2. 1..1 = Entry
    BY <1>4
  <2>3. heap \in Seq([name : Name, deleted : BOOLEAN, timestamp : Nat \cup Tx,
                     child : Entry \cup {Nil}, parent : Entry \cup {Nil}])
    BY <1>4, <2>2 DEF VersionType
  <2>4. freed \subseteq Entry /\ Len(written_by) = Len(heap)
    BY <1>2, <1>4, <1>5
  <2> QED BY <1>5, <2>1, <2>3, <2>4 DEF EntryTypeOK
<1>11. LookupTypeOK /\ BufferTypeOK
  <2>1. << >> \in Seq([type : {"CATALOG_ENTRY", "TUPLE_ENTRY"}, entry : Entry])
    BY EmptySeq
  <2> QED BY <1>2, <2>1 DEF LookupTypeOK, BufferTypeOK
<1>12. VisitInv
  BY <1>6 DEF VisitInv, Running, Left
<1>13. NewestInv /\ LinkInv /\ PendingInv /\ BufferInv
  BY <1>1, <1>3, <1>4, <1>7, <1>8 DEF NewestInv, LinkInv, PendingInv, BufferInv, Nil
<1>14. SuccessionInv /\ StampInv
  BY <1>8 DEF SuccessionInv, StampInv
<1>15. WriterInv /\ LastInv
  BY <1>3, <1>4, <1>5, <1>7 DEF WriterInv, LastInv
<1>16. GapInv
  <2>1. data[m] = 1 /\ heap[1].name = m /\ heap[1].child = Nil
    BY <1>1, <1>3, <1>4
  <2>2. ~(1 > 1) /\ 1 # Nil
    BY DEF Nil
  <2>3. \A f \in Entry : data[heap[f].name] # Nil /\ ~(f > data[heap[f].name])
    BY <1>4, <2>1, <2>2
  <2> QED BY <1>7, <2>1, <2>3 DEF GapInv
<1>17. CurrentInv /\ LookupInv
  BY <1>2, <1>6, TxAssumption DEF CurrentInv, LookupInv, CurrentOf, LookupOf
<1> QED BY <1>9, <1>10, <1>11, <1>12, <1>13, <1>14, <1>15, <1>16, <1>17
        DEF IInv, TypeOK, ChainInv, TimeInv

\* Everything but the clock, the list and the loops: steps that leave entries
\* and pending undo entries as they are ...
LEMMA SameInv ==
    ASSUME IInv, ClockTypeOK', NEW t \in Tx, AnyStep(t), Same
    PROVE  ChainInv' /\ TimeInv' /\ GapInv'
<1> USE DEF IInv, TypeOK, ChainInv, TimeInv
<1>1. ChainInv'
  BY ChainSame
<1>2. SuccessionInv'
  <2>1. CASE CommitTransaction(t)
    BY <2>1, SuccessionCommit
  <2>2. CASE ~CommitTransaction(t)
    <3>1. commit_id' = commit_id
      BY <2>2 DEF AnyStep, EndStep, StartTransaction, RollbackTransaction, BeginRemove,
         CleanupDone, EndRemove, StatementStep, LoopStep, BeginLookup, Walk, EndLookup,
         CreateEntry, DropEntry, AppendToTable, CommitEntry, UndoEntry, CleanupEntry,
         transactions
    <3> QED BY <3>1, SuccessionSame
  <2> QED BY <2>1, <2>2
<1>3. StampInv'
  BY StampSame DEF AnyStep
<1>4. WriterInv'
  BY WriterSame DEF AnyStep
<1>5. LastInv'
  BY LastSame DEF AnyStep
<1>6. GapInv'
  BY GapSame DEF AnyStep
<1> QED BY <1>1, <1>2, <1>3, <1>4, <1>5, <1>6

\* ... those that add a version,
LEMMA PushedInv ==
    ASSUME IInv, ClockTypeOK', NEW t \in Tx, NEW n \in Name, NEW e \in Nat, NEW v \in Nat,
           StatementStep(t), phase[t] \in {"ready", "found"}, Pushed(t, n, e, v)
    PROVE  ChainInv' /\ TimeInv' /\ GapInv'
<1> USE DEF IInv, TypeOK, ChainInv, TimeInv
<1>1. ChainInv'
  BY ChainPushed
<1>2. SuccessionInv'
  BY SuccessionPushed
<1>3. StampInv'
  BY StampPushed
<1>4. WriterInv'
  BY WriterPushed
<1>5. LastInv'
  BY LastPushed
<1>6. GapInv'
  BY GapPushed
<1> QED BY <1>1, <1>2, <1>3, <1>4, <1>5, <1>6

\* ... and the loops over undo buffers.
LEMMA LoopInv ==
    ASSUME IInv, ClockTypeOK', NEW t \in Tx, LoopStep(t),
           NEW u \in Tx, NEW e \in Entry, NEW p \in Entry,
           Stamped(t, e, p) \/ Undone(t, e, p) \/ Destroyed(t, u, e, p)
    PROVE  ChainInv' /\ TimeInv' /\ GapInv'
<1> USE DEF IInv, TypeOK, ChainInv, TimeInv
<1>1. ChainInv'
  BY ChainStamped, ChainUndone, ChainDestroyed
<1>2. SuccessionInv'
  BY SuccessionLoop
<1>3. StampInv'
  BY StampLoop
<1>4. WriterInv'
  BY WriterLoop
<1>5. LastInv'
  BY LastLoop
<1>6. GapInv'
  BY GapLoop
<1> QED BY <1>1, <1>2, <1>3, <1>4, <1>5, <1>6

LEMMA NextInv == IInv /\ Next => IInv'
<1> SUFFICES ASSUME IInv, Next PROVE IInv'
  OBVIOUS
<1>1. /\ ClockTypeOK /\ EntryTypeOK /\ LookupTypeOK /\ BufferTypeOK
      /\ ClockInv /\ ListInv /\ VisitInv /\ ChainInv /\ TimeInv
      /\ NewestInv /\ LinkInv /\ PendingInv /\ BufferInv
      /\ SuccessionInv /\ StampInv /\ WriterInv /\ LastInv
      /\ GapInv /\ CurrentInv /\ LookupInv
  BY DEF IInv, TypeOK, ChainInv, TimeInv
<1>2. ClockTypeOK' /\ ClockInv' /\ ListInv'
  BY <1>1, ClockStep, ListStep
<1>3. PICK t \in Tx : AnyStep(t)
  BY Steps DEF AnyStep, EndStep
<1> DEFINE Rest == /\ EntryTypeOK' /\ BufferTypeOK' /\ Entry \subseteq Entry'
                   /\ ChainInv' /\ TimeInv' /\ GapInv' /\ CurrentInv' /\ LookupInv'
<1>4. ASSUME EndStep(t) PROVE Rest
  <2>1. Same /\ EntryTypeOK' /\ BufferTypeOK'
    BY <1>1, <1>4, EndSame
  <2>2. ChainInv' /\ TimeInv' /\ GapInv'
    BY <1>2, <1>3, <2>1, SameInv
  <2>3. CurrentInv' /\ LookupInv'
    BY <1>1, <1>4, <2>1, EndStepLookup
  <2>4. Entry \subseteq Entry'
    BY <2>1 DEF Same
  <2> QED BY <2>1, <2>2, <2>3, <2>4
<1>5. ASSUME StatementStep(t) PROVE Rest
  <2>1. EntryTypeOK' /\ BufferTypeOK' /\ StatementSteps
    BY <1>1, <1>5, StatementFacts
  <2>2. CurrentInv' /\ LookupInv'
    BY <1>1, <2>1, StatementLookup
  <2>3. CASE \E x \in Tx : StatementStep(x) /\ Same
    <3>1. PICK x \in Tx : StatementStep(x) /\ Same
      BY <2>3
    <3>2. AnyStep(x)
      BY <3>1 DEF AnyStep
    <3>3. ChainInv' /\ TimeInv' /\ GapInv'
      BY <1>2, <3>1, <3>2, SameInv
    <3>4. Entry \subseteq Entry'
      BY <3>1 DEF Same
    <3> QED BY <2>1, <2>2, <3>3, <3>4
  <2>4. ASSUME NEW x \in Tx, NEW n \in Name, NEW e \in Nat, NEW v \in Nat, StatementStep(x),
               phase[x] \in {"ready", "found"}, Pushed(x, n, e, v)
        PROVE  Rest
    <3>1. ChainInv' /\ TimeInv' /\ GapInv'
      BY <1>2, <2>4, PushedInv
    <3>2. Entry \subseteq Entry'
      BY <2>4 DEF Pushed
    <3> QED BY <2>1, <2>2, <3>1, <3>2
  <2> QED BY <2>1, <2>3, <2>4 DEF StatementSteps
<1>6. ASSUME LoopStep(t) PROVE Rest
  <2>1. /\ EntryTypeOK' /\ BufferTypeOK'
        /\ \/ Same
           \/ \E e, p \in Entry : Stamped(t, e, p)
           \/ \E e, p \in Entry : Undone(t, e, p)
           \/ \E u \in Tx : \E e, p \in Entry : Destroyed(t, u, e, p)
    BY <1>1, <1>6, LoopFacts
  <2>2. CurrentInv' /\ LookupInv'
    BY <1>1, <1>6, <2>1, LoopLookup
  <2>3. CASE Same
    <3>1. ChainInv' /\ TimeInv' /\ GapInv'
      BY <1>2, <1>3, <2>3, SameInv
    <3>2. Entry \subseteq Entry'
      BY <2>3 DEF Same
    <3> QED BY <2>1, <2>2, <3>1, <3>2
  <2>4. ASSUME NEW u \in Tx, NEW e \in Entry, NEW p \in Entry,
               Stamped(t, e, p) \/ Undone(t, e, p) \/ Destroyed(t, u, e, p)
        PROVE  Rest
    <3>1. ChainInv' /\ TimeInv' /\ GapInv'
      BY <1>2, <1>6, <2>4, LoopInv
    <3>2. Entry \subseteq Entry'
      BY <2>4 DEF Stamped, Undone, Destroyed
    <3> QED BY <2>1, <2>2, <3>1, <3>2
  <2> QED BY <2>1, <2>3, <2>4
<1>7. Rest
  BY <1>3, <1>4, <1>5, <1>6 DEF AnyStep
<1>8. LookupTypeOK'
  BY <1>1, <1>3, <1>7, LookupTypes
<1>9. VisitInv'
  BY <1>1, <1>7, VisitStep
<1> QED BY <1>2, <1>7, <1>8, <1>9 DEF IInv, TypeOK

LEMMA StutterInv == IInv /\ UNCHANGED vars => IInv'
<1> SUFFICES ASSUME IInv, UNCHANGED vars PROVE IInv'
  OBVIOUS
<1> USE DEF vars, transactions, entries, lookup, buffers
<1>1. TypeOK'
  BY DEF IInv, TypeOK, ClockTypeOK, EntryTypeOK, LookupTypeOK, BufferTypeOK, Entry
<1>2. ClockInv' /\ ListInv' /\ VisitInv'
  BY DEF IInv, ClockInv, ListInv, VisitInv, Active
<1>3. ChainInv'
  BY DEF IInv, ChainInv, NewestInv, LinkInv, PendingInv, BufferInv, Pending, Kept, Entry
<1>4. TimeInv'
  BY DEF IInv, TimeInv, SuccessionInv, StampInv, WriterInv, LastInv, Pending, Kept, Entry,
         Active, WrittenByOther
<1>5. GapInv'
  BY DEF IInv, GapInv, RolledBack, Kept, Entry
<1>6. CurrentInv' /\ LookupInv'
  BY DEF IInv, CurrentInv, LookupInv, CurrentOf, LookupOf, InSnapshot, Kept, Entry
<1> QED BY <1>1, <1>2, <1>3, <1>4, <1>5, <1>6 DEF IInv

LEMMA Invariant == Spec => []IInv
<1>1. IInv /\ [Next]_vars => IInv'
  BY NextInv, StutterInv
<1> QED BY InitInv, <1>1, PTL DEF Spec

-----------------------------------------------------------------------------
(* What follows from the invariant. *)

LEMMA Parts ==
    ASSUME IInv
    PROVE  /\ ClockTypeOK /\ EntryTypeOK /\ LookupTypeOK /\ BufferTypeOK
           /\ ClockInv /\ ListInv /\ VisitInv
           /\ NewestInv /\ LinkInv /\ PendingInv /\ BufferInv
           /\ SuccessionInv /\ StampInv /\ WriterInv /\ LastInv
           /\ GapInv /\ CurrentInv /\ LookupInv
BY DEF IInv, TypeOK, ChainInv, TimeInv

LEMMA FollowsKept ==
    ASSUME IInv, NEW u \in Tx, NEW i \in 1..Len(undo[u]), phase[u] \in Left => i > visited[u]
    PROVE  Follows(u, i) \cap (freed \cup {Nil}) = {}
<1>1. CASE undo[u][i].type # "CATALOG_ENTRY"
  BY <1>1 DEF Follows
<1>2. CASE undo[u][i].type = "CATALOG_ENTRY"
  <2> DEFINE e == undo[u][i].entry
  <2>1. i \in Pending(u)
    BY <1>2 DEF Pending
  <2>2. e \in Kept /\ heap[e].parent # Nil
    BY <2>1, Parts DEF BufferInv
  <2>3. heap[e].parent \in Kept
    BY <2>2, Parts DEF LinkInv
  <2>4. \A x \in Kept : x \notin freed /\ x # Nil
    BY Parts, HeapTypes DEF Kept
  <2>5. Follows(u, i) = {e, heap[e].parent}
    BY <1>2 DEF Follows
  <2> QED BY <2>2, <2>3, <2>4, <2>5
<1> QED BY <1>1, <1>2

LEMMA NoDestroyedEntry == IInv => NoDestroyedEntryIsUsed
<1> SUFFICES ASSUME IInv, NEW t \in Tx PROVE Used(t) \cap (freed \cup {Nil}) = {}
  BY DEF NoDestroyedEntryIsUsed
<1>1. CASE phase[t] \in Running
  <2>1. Used(t) = {current[t]} \ {Nil}
    BY <1>1 DEF Used, Running
  <2>2. current[t] # Nil => current[t] \in Kept
    BY Parts DEF CurrentInv, CurrentOf
  <2> QED BY <2>1, <2>2 DEF Kept
<1>2. CASE phase[t] = "committing" /\ visited[t] < Len(undo[t])
  <2>1. Used(t) = Follows(t, visited[t] + 1)
    BY <1>2 DEF Used, Running
  <2>2. visited[t] + 1 \in 1..Len(undo[t])
    BY <1>2, Parts, BufferTypes
  <2> QED BY <1>2, <2>1, <2>2, FollowsKept DEF Left
<1>3. CASE phase[t] = "undoing" /\ undo[t] # << >>
  <2>1. Used(t) = Follows(t, Youngest(t))
    BY <1>3 DEF Used, Running
  <2>2. Youngest(t) \in 1..Len(undo[t])
    BY <1>3, Parts, BufferTypes DEF Youngest
  <2> QED BY <1>3, <2>1, <2>2, FollowsKept DEF Left
<1>4. CASE phase[t] = "cleaning" /\ Cleanable /\ visited[Head(recently_committed)]
                                                   < Len(undo[Head(recently_committed)])
  <2> DEFINE u == Head(recently_committed)
  <2>1. Used(t) = Follows(u, visited[u] + 1)
    BY <1>4 DEF Used, Running
  <2>2. u \in Tx
    BY <1>4, Parts DEF ClockTypeOK, Cleanable
  <2> HIDE DEF u
  <2>3. visited[u] + 1 \in 1..Len(undo[u]) /\ visited[u] + 1 > visited[u]
    <3>1. visited[u] < Len(undo[u])
      BY <1>4 DEF u
    <3> QED BY <2>2, <3>1, Parts, BufferTypes
  <2> QED BY <2>1, <2>2, <2>3, FollowsKept
<1>5. CASE ~(phase[t] \in Running \/ (phase[t] = "committing" /\ visited[t] < Len(undo[t]))
             \/ (phase[t] = "undoing" /\ undo[t] # << >>)
             \/ (phase[t] = "cleaning" /\ Cleanable /\ visited[Head(recently_committed)]
                                                      < Len(undo[Head(recently_committed)])))
  BY <1>5 DEF Used
<1> QED BY <1>1, <1>2, <1>3, <1>4, <1>5

LEMMA LookupEnds == IInv => LookupSeesSnapshot
<1> SUFFICES ASSUME IInv, NEW t \in Tx, phase[t] = "lookup", ~WalksOn(t)
             PROVE  Live(current[t]) = Snapshot(t, wanted[t].name)
  BY DEF LookupSeesSnapshot
<1> DEFINE c == current[t]
           visible == {e \in Entry : heap[e].name = wanted[t].name /\ InSnapshot(t, e)}
<1>1. CurrentOf(t) /\ LookupOf(t) /\ Entry \subseteq Nat /\ Nil \notin Entry
      /\ c \in Entry \cup {Nil}
  BY Parts, HeapTypes DEF CurrentInv, LookupInv, LookupTypeOK
<1>2. \A f \in visible : ~(f > c)
  BY <1>1 DEF LookupOf
<1>3. CASE c = Nil
  <2>1. \A f \in Entry : f > c
    BY <1>1, <1>3 DEF Entry, Nil
  <2>2. visible = {}
    BY <1>2, <2>1
  <2> QED BY <1>3, <2>2 DEF Snapshot, Live
<1>4. CASE c # Nil
  <2>1. c \in visible
    <3>1. InSnapshot(t, c)
      BY <1>1, <1>4, Parts, EndIsInSnapshot
    <3>2. heap[c].name = wanted[t].name
      BY <1>1, <1>4 DEF CurrentOf
    <3> QED BY <1>1, <1>4, <3>1, <3>2
  <2> DEFINE m == CHOOSE e \in visible : \A f \in visible : f <= e
  <2>2. visible \subseteq Nat
    BY <1>1
  <2> HIDE DEF visible, c
  <2>3. \A f \in visible : f <= c
    BY <1>2, <2>1, <2>2
  <2>4. m \in visible /\ \A f \in visible : f <= m
    BY <2>1, <2>3
  <2> HIDE DEF m
  <2>5. m = c
    BY <2>1, <2>2, <2>3, <2>4
  <2>6. Snapshot(t, wanted[t].name) = Live(m)
    BY <2>1 DEF Snapshot, m, visible
  <2> QED BY <2>5, <2>6 DEF c
<1> QED BY <1>3, <1>4

LEMMA AllDestroyed == IInv => OldVersionsDestroyed
<1> SUFFICES ASSUME IInv, transaction_lock = NoTx, Active = {}
             PROVE  Kept = {data[n] : n \in Name} \ {Nil}
  BY DEF OldVersionsDestroyed, Kept
<1>1. recently_committed = << >>
  BY Parts DEF ListInv
<1>2. \A u \in Tx : phase[u] = "idle" \/ phase[u] \in Left
  BY Parts, TxAssumption DEF ClockInv, ClockTypeOK, Active, Ending, Left
<1>3. Len(recently_committed) = 0
  BY <1>1, EmptySeq
<1>4. ASSUME NEW u \in Tx PROVE Pending(u) = {}
  <2>1. undo[u] = << >> \/ (phase[u] \in Left /\ visited[u] = Len(undo[u]))
    BY <1>2, <1>3, Parts DEF VisitInv
  <2>2. Len(undo[u]) \in Nat /\ (undo[u] = << >> <=> Len(undo[u]) = 0)
    BY Parts, BufferTypes
  <2> QED BY <2>1, <2>2 DEF Pending
<1>5. \A e \in Kept : data[heap[e].name] = e /\ heap[e].name \in Name /\ e # Nil
  <2>1. \A e \in Kept : heap[e].parent = Nil
    BY <1>4, Parts DEF PendingInv
  <2> QED BY <2>1, Parts, HeapTypes DEF LinkInv
<1>6. \A n \in Name : data[n] # Nil => data[n] \in Kept
  BY Parts DEF NewestInv
<1> QED BY <1>5, <1>6

\* An entry that the loop of a commit has stamped hides no entry of the same
\* transaction that the loop has not stamped.
LEMMA StampedInOrder ==
    ASSUME IInv, NEW w \in Tx, NEW e \in Kept, NEW c \in Kept, heap[e].child = c,
           written_by[e] = w, written_by[c] = w, heap[e].timestamp # w
    PROVE  heap[c].timestamp \notin Tx
<1>1. w # NoTx /\ Entry \subseteq Nat /\ Kept \subseteq Entry /\ Nil \notin Entry
      /\ \A u \in Tx : commit_id[u] \in Nat /\ commit_id[u] \notin Tx
  BY TxAssumption, Parts, HeapTypes DEF ClockTypeOK
<1>2. c # Nil /\ heap[c].parent = e /\ e # Nil /\ e > c
  <2>1. c # Nil /\ e # Nil
    BY <1>1
  <2> QED BY <2>1, Parts DEF LinkInv
<1>3. CASE phase[w] \in Left
  BY <1>1, <1>3, Parts DEF WriterInv
<1>4. CASE phase[w] \notin Left
  <2>1. phase[w] = "committing"
    BY <1>1, <1>4, Parts DEF WriterInv, ClockTypeOK, Left
  <2>2. heap[c].child # Nil
    BY <1>1, <1>4, Parts DEF LastInv
  <2> DEFINE d == heap[c].child
  <2>3. d \in Kept /\ heap[d].parent = c /\ c # Nil
    BY <1>2, <2>2, Parts DEF LinkInv
  <2> HIDE DEF d
  <2>4. PICK i \in Pending(w) : undo[w][i].entry = c
    BY <1>2, Parts, PendingWhere
  <2>5. PICK j \in Pending(w) : undo[w][j].entry = d
    BY <2>3, Parts, PendingWhere
  <2>6. i \in Nat /\ j \in Nat /\ visited[w] \in Nat
    BY Parts, BufferTypes
  <2>7. i <= visited[w]
    <3>1. heap[e].timestamp = IF i <= visited[w] THEN commit_id[w] ELSE w
      BY <1>2, <2>1, <2>4, Parts DEF StampInv
    <3> QED BY <3>1
  <2>8. j < i
    <3>1. i # j
      BY <1>1, <1>2, <2>3, <2>4, <2>5
    <3>2. ~(i < j)
      <4>1. i < j => e < c
        BY <1>2, <2>3, <2>4, <2>5, Parts DEF BufferInv
      <4> QED BY <1>1, <1>2, <4>1
    <3> QED BY <2>6, <3>1, <3>2
  <2>9. heap[c].timestamp = commit_id[w]
    <3>1. heap[c].timestamp = IF j <= visited[w] THEN commit_id[w] ELSE w
      BY <2>1, <2>3, <2>5, Parts DEF StampInv
    <3> QED BY <2>6, <2>7, <2>8, <3>1
  <2> QED BY <1>1, <2>9
<1> QED BY <1>3, <1>4

LEMMA Timestamps ==
    ASSUME IInv, NEW e \in Kept, NEW w \in Tx, w = written_by[e]
    PROVE  /\ heap[e].timestamp \in {w, commit_id[w]}
           /\ heap[e].timestamp # w => commit_id[w] >= 4 /\ phase[w] \in Left \cup {"committing"}
<1>1. WriterInv /\ ClockInv /\ ClockTypeOK /\ w # NoTx
  BY TxAssumption, Parts
<1>2. phase[w] \in Running \cup {"undoing", "committing"} \cup Left
  BY <1>1 DEF WriterInv, ClockTypeOK, Left
<1>3. phase[w] \in Left \cup {"committing"} => commit_id[w] >= 4
  BY <1>1 DEF WriterInv, ClockInv
<1>4. heap[e].timestamp \in {w, commit_id[w]}
      /\ (phase[w] \in Running \cup {"undoing"} => heap[e].timestamp = w)
  BY <1>1, <1>2 DEF WriterInv
<1> QED BY <1>2, <1>3, <1>4

LEMMA TimestampsDescend ==
    ASSUME IInv, NEW e \in Kept, NEW c \in Kept, heap[e].child = c
    PROVE  \/ heap[e].timestamp \in Tx /\ ~WrittenByOther(heap[e].timestamp, c)
           \/ heap[c].timestamp \notin Tx /\ heap[c].timestamp <= heap[e].timestamp
<1> DEFINE w == written_by[e]
           x == written_by[c]
<1>1. NoTx \notin Tx /\ Entry \subseteq Nat /\ Kept \subseteq Entry /\ Nil \notin Entry
      /\ \A u \in Tx : commit_id[u] \in Nat /\ u \notin Nat
      /\ x \in Tx \cup {NoTx}
  BY TxAssumption, Parts, HeapTypes DEF ClockTypeOK
<1>2. c # Nil /\ heap[c].parent = e /\ e # Nil
  <2>1. c # Nil /\ e # Nil
    BY <1>1
  <2> QED BY <2>1, Parts DEF LinkInv
<1>3. w \in Tx
  BY <1>2, Parts DEF LinkInv
<1>4. PICK i \in Pending(w) : undo[w][i].entry = c
  BY <1>2, Parts, PendingWhere
<1>5. /\ ~WrittenByOther(w, c)
      /\ x \notin {w, NoTx} =>
            commit_id[x] # 0 /\ (commit_id[w] # 0 => commit_id[x] < commit_id[w])
  BY <1>3, <1>4, Parts DEF SuccessionInv
<1>6. heap[e].timestamp \in {w, commit_id[w]}
      /\ (heap[e].timestamp # w => commit_id[w] >= 4 /\ phase[w] \in Left \cup {"committing"})
  BY <1>3, Timestamps
<1>7. CASE heap[e].timestamp = w
  BY <1>3, <1>5, <1>7
<1>8. CASE heap[e].timestamp # w
  <2>1. heap[e].timestamp = commit_id[w] /\ commit_id[w] >= 4
    BY <1>6, <1>8
  <2>2. heap[c].timestamp \notin Tx
    <3>1. CASE x = w
      BY <1>3, <1>8, <3>1, StampedInOrder
    <3>2. CASE x # w
      <4>1. heap[c].timestamp \in Tx => heap[c].timestamp = w
        BY <1>5 DEF WrittenByOther
      <4>2. x = NoTx => heap[c].timestamp \in 0..3
        BY Parts DEF WriterInv
      <4>3. x \in Tx => heap[c].timestamp \in {x, commit_id[x]}
        BY Timestamps
      <4> QED BY <1>1, <1>3, <3>2, <4>1, <4>2, <4>3
    <3> QED BY <3>1, <3>2
  <2>3. heap[c].timestamp <= commit_id[w]
    <3>1. CASE x = NoTx
      <4>1. heap[c].timestamp \in 0..3
        BY <3>1, Parts DEF WriterInv
      <4> QED BY <1>1, <1>3, <2>1, <4>1
    <3>2. CASE x \in Tx
      <4>1. heap[c].timestamp \in {x, commit_id[x]}
        BY <3>2, Timestamps
      <4>2. heap[c].timestamp = commit_id[x] /\ commit_id[x] \in Nat /\ commit_id[w] \in Nat
        BY <1>1, <1>3, <2>2, <3>2, <4>1
      <4>3. CASE x = w
        BY <4>2, <4>3
      <4>4. CASE x # w
        <5>1. commit_id[x] < commit_id[w]
          BY <1>1, <1>5, <2>1, <3>2, <4>4
        <5> QED BY <4>2, <5>1
      <4> QED BY <4>3, <4>4
    <3>3. x = NoTx \/ x \in Tx
      BY Parts, HeapTypes
    <3> QED BY <3>1, <3>2, <3>3
  <2> QED BY <2>1, <2>2, <2>3
<1> QED BY <1>7, <1>8

LEMMA ChainsHold == IInv => ChainsIntact
<1> SUFFICES ASSUME IInv PROVE ChainsIntact
  OBVIOUS
<1>1. \A n \in Name : data[n] # Nil => data[n] \notin freed /\ heap[data[n]].parent = Nil
  BY Parts DEF NewestInv, Kept
<1>2. ASSUME NEW e \in Kept, NEW c, c = heap[e].child, c # Nil
      PROVE  /\ c \notin freed /\ heap[c].parent = e /\ heap[c].name = heap[e].name
             /\ \/ heap[e].timestamp \in Tx /\ ~WrittenByOther(heap[e].timestamp, c)
                \/ heap[c].timestamp \notin Tx /\ heap[c].timestamp <= heap[e].timestamp
  <2>1. c \in Kept /\ heap[c].parent = e
    BY <1>2, Parts DEF LinkInv
  <2>2. e # Nil
    BY Parts, HeapTypes DEF Kept
  <2>3. heap[c].name = heap[e].name
    BY <2>1, <2>2, Parts DEF LinkInv
  <2> QED BY <1>2, <2>1, <2>3, TimestampsDescend DEF Kept
<1> QED BY <1>1, <1>2 DEF ChainsIntact, Kept

-----------------------------------------------------------------------------
(* The theorems. *)

\* Every variable of the catalog keeps its type: CatalogSet.hpp, CatalogEntry.hpp,
\* Transaction.hpp and UndoBuffer.hpp, for any number of transactions and tables.
THEOREM TypeCorrect == Spec => []TypeOK
<1>1. IInv => TypeOK
  BY DEF IInv
<1> QED BY Invariant, <1>1, PTL

\* GetEntry, although it compares timestamps that commits change and follows
\* child pointers that cleanups cut, returns the last version that its own
\* transaction or one committed before its start made of the name.
THEOREM LookupsSeeSnapshots == Spec => []LookupSeesSnapshot
BY Invariant, LookupEnds, PTL

\* The loops over undo buffers, the lookups and the statements that use what
\* they found never follow a pointer to a catalog entry that Undo or Cleanup
\* has destroyed.
THEOREM NoDanglingEntry == Spec => []NoDestroyedEntryIsUsed
BY Invariant, NoDestroyedEntry, PTL

\* CatalogSet::Undo only ever finds the newest version of a name to remove: its
\* branch for a version in the middle of a chain is never taken.
THEOREM UndoTakesTheNewest == Spec => []UndoneIsNewest
<1>1. ASSUME IInv PROVE UndoneIsNewest
  <2> SUFFICES ASSUME NEW t \in Tx, phase[t] = "undoing", undo[t] # << >>,
                      undo[t][Youngest(t)].type = "CATALOG_ENTRY",
                      NEW e, e = undo[t][Youngest(t)].entry
               PROVE  data[heap[e].name] = heap[e].parent
    BY DEF UndoneIsNewest
  <2>1. Youngest(t) \in 1..Len(undo[t])
    BY <1>1, Parts, BufferTypes DEF Youngest
  <2>2. e \in Entry
    BY <1>1, <2>1, Parts, BufferTypes
  <2>3. e \in Nat /\ heap[e].parent \in Nat
    BY <1>1, <2>2, Parts, HeapTypes DEF Nil
  <2>4. Refers(t, Youngest(t), e, heap[e].parent)
    BY DEF Refers
  <2> QED BY <1>1, <2>3, <2>4, Parts, LastIsNewest
<1> QED BY Invariant, <1>1, PTL

\* The chains that CreateEntry and DropEntry extend, Undo shortens at the front
\* and Cleanup at the end stay doubly linked and ordered by timestamp.
THEOREM ChainsStayIntact == Spec => []ChainsIntact
BY Invariant, ChainsHold, PTL

\* RemoveTransaction has destroyed all superseded versions by the time that no
\* transaction is left.
THEOREM NothingIsLeaked == Spec => []OldVersionsDestroyed
BY Invariant, AllDestroyed, PTL
===============================================================================
