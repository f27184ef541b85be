--------------------------- MODULE TableLocksProofs ---------------------------
(***************************************************************************)
(* Proofs about TableLocks, for every set of connections, every size of a  *)
(* chunk and of a vector, and every bound.                                 *)
(***************************************************************************)
EXTENDS TableLocks, SequenceTheorems, FiniteSetTheorems, TLAPS

-----------------------------------------------------------------------------
(* Type correctness. *)

LEMMA Sizes ==
    /\ VectorSize \in Nat /\ VectorSize > 0
    /\ ChunkSize \in Nat /\ ChunkSize > 0
    /\ InitialRows \in Nat /\ InitialRows > 0
    /\ MaxChunks \in Nat /\ MaxChunks > 0
    /\ MaxStatements \in Nat
  BY SizeAssumption

\* What a running statement knows of its locals.
StatementInv ==
    \A t \in Thread :
        /\ pc[t] \notin {"idle", "scanned"} => chunk[t] # 0
        /\ pc[t] = "counting" => current_count[t] <= left[t]
        /\ taken[t] => pc[t] = "compared"

LEMMA InitialChunksType ==
    /\ InitialChunks \in Chunk
    /\ ChunkSize * (InitialChunks - 1) < InitialRows
    /\ InitialRows <= ChunkSize * InitialChunks
  <1> DEFINE n == InitialRows + ChunkSize - 1
             r == n % ChunkSize
  <1>1. /\ InitialChunks \in Int
        /\ r \in 0..ChunkSize - 1
        /\ n = ChunkSize * InitialChunks + r
    BY SizeAssumption DEF InitialChunks
  <1>2. /\ ChunkSize * InitialChunks > InitialRows - 1
        /\ ChunkSize * InitialChunks <= InitialRows + ChunkSize - 1
    BY <1>1, SizeAssumption
  <1>3. ChunkSize * (InitialChunks - 1) = ChunkSize * InitialChunks - ChunkSize
    BY <1>1, SizeAssumption
  <1> QED BY <1>1, <1>2, <1>3, SizeAssumption DEF Chunk

LEMMA TypeInit == Init => TypeOK /\ StatementInv
  <1> SUFFICES ASSUME Init PROVE TypeOK /\ StatementInv
    OBVIOUS
  <1>1. ASSUME NEW c \in Chunk PROVE ChunkSize * (c - 1) \in Nat
    BY Sizes DEF Chunk
  <1>2. start \in [Chunk -> Nat]
    BY <1>1 DEF Init
  <1>3. InitialRows - ChunkSize * (InitialChunks - 1) \in Nat
    BY <1>1, InitialChunksType, Sizes
  <1>4. count \in [Chunk -> Nat]
    <2>1. count = [c \in Chunk |->
                      IF c < InitialChunks THEN ChunkSize
                      ELSE IF c > InitialChunks THEN 0
                      ELSE InitialRows - ChunkSize * (c - 1)]
      BY DEF Init
    <2>2. ASSUME NEW c \in Chunk, ~(c < InitialChunks), ~(c > InitialChunks)
          PROVE  c = InitialChunks
      BY <2>2, InitialChunksType DEF Chunk
    <2> QED BY <2>1, <2>2, <1>3, Sizes
  <1>5. ListTypeOK
    BY <1>2, <1>4, InitialChunksType DEF Init, ListTypeOK, Chunk
  <1>6. LockTypeOK
    BY DEF Init, LockTypeOK
  <1>7. StatementTypeOK /\ StatementInv
    BY InitialChunksType, Sizes DEF Init, StatementTypeOK, StatementInv, Chunk
  <1>8. HistoryTypeOK
    BY Sizes DEF Init, HistoryTypeOK
  <1> QED BY <1>5, <1>6, <1>7, <1>8 DEF TypeOK

LEMMA ChunkTypes ==
  ASSUME ListTypeOK
  PROVE  /\ chunks \in Nat /\ chunks > 0 /\ chunks <= MaxChunks
         /\ tail_chunk \in Nat /\ tail_chunk > 0 /\ tail_chunk <= chunks
         /\ \A c \in 1..chunks : c \in Chunk
         /\ \A c \in Chunk : start[c] \in Nat /\ count[c] \in Nat
  <1>1. chunks \in 1..MaxChunks /\ tail_chunk \in 1..chunks
    BY DEF ListTypeOK, Chunk
  <1>2. \A c \in 1..chunks : c \in Chunk
    BY <1>1, Sizes DEF Chunk
  <1>3. \A c \in Chunk : start[c] \in Nat /\ count[c] \in Nat
    BY DEF ListTypeOK
  <1> QED BY <1>1, <1>2, <1>3, Sizes

LEMMA NewChunkType ==
  ASSUME ListTypeOK, chunks < MaxChunks
  PROVE  chunks + 1 \in Chunk
  <1>1. chunks \in Nat /\ chunks > 0
    BY ChunkTypes
  <1> QED BY <1>1, Sizes DEF Chunk

LEMMA TableRowsType == ListTypeOK => TableRows \in SUBSET Nat
  <1> SUFFICES ASSUME ListTypeOK, NEW r \in TableRows PROVE r \in Nat
    OBVIOUS
  <1>1. PICK c \in 1..chunks : r \in start[c]..start[c] + count[c] - 1
    BY DEF TableRows, RowsOf
  <1> QED BY <1>1, ChunkTypes

LEMMA PlacedType ==
  ASSUME HistoryTypeOK, NEW a \in Nat, NEW b \in Int, Place(a..b)
  PROVE  placed' \in SUBSET Nat /\ appended' \in Nat
  <1>1. Cardinality(a..b) \in Nat
    BY FS_Interval, FS_CardinalityType
  <1> QED BY <1>1 DEF HistoryTypeOK, Place

\* The facts about the locals of a statement that has a chunk.
LEMMA LocalTypes ==
  ASSUME ListTypeOK, StatementTypeOK, NEW t \in Thread, chunk[t] # 0
  PROVE  /\ chunk[t] \in Chunk /\ chunk[t] <= chunks
         /\ start[chunk[t]] \in Nat /\ count[chunk[t]] \in Nat
         /\ left[t] \in Nat /\ left[t] <= VectorSize
         /\ current_count[t] \in Nat /\ current_count[t] <= VectorSize
         /\ offset[t] \in Nat
  <1>1. chunk[t] \in 0..chunks
    BY DEF StatementTypeOK
  <1>2. chunk[t] \in Chunk /\ chunk[t] <= chunks
    BY <1>1, ChunkTypes
  <1> QED BY <1>2, ChunkTypes, Sizes DEF StatementTypeOK

LEMMA FittingType ==
  ASSUME ListTypeOK, StatementTypeOK, NEW t \in Thread, chunk[t] # 0,
         count[chunk[t]] <= ChunkSize
  PROVE  /\ Fitting(t) \in 0..VectorSize
         /\ Fitting(t) <= left[t]
         /\ Fitting(t) <= ChunkSize - count[chunk[t]]
         /\ Fitting(t) = left[t] \/ Fitting(t) = ChunkSize - count[chunk[t]]
  BY LocalTypes, Sizes DEF Fitting

LEMMA VectorRowsType ==
  ASSUME ListTypeOK, StatementTypeOK, NEW t \in Thread, chunk[t] # 0
  PROVE  /\ VectorRows(t) \in Seq(Nat)
         /\ Len(VectorRows(t)) =
                IF offset[t] <= count[chunk[t]] /\ count[chunk[t]] - offset[t] < VectorSize
                THEN count[chunk[t]] - offset[t] ELSE VectorSize
         /\ \A i \in 1..Len(VectorRows(t)) :
                VectorRows(t)[i] = start[chunk[t]] + offset[t] + i - 1
  <1> DEFINE c == chunk[t]
             size == IF offset[t] <= count[c] /\ count[c] - offset[t] < VectorSize
                     THEN count[c] - offset[t] ELSE VectorSize
  <1>1. size \in Nat /\ start[c] \in Nat /\ offset[t] \in Nat
    BY LocalTypes, Sizes
  <1>2. VectorRows(t) = [i \in 1..size |-> start[c] + offset[t] + i - 1]
    BY DEF VectorRows
  <1> HIDE DEF size, c
  <1> QED BY <1>1, <1>2 DEF size, c

-----------------------------------------------------------------------------
(* Which steps change what. *)

LEMMA Steps ==
  ASSUME [Next]_vars
  PROVE  \/ UNCHANGED vars
         \/ \E t \in Thread :
               \/ BeginAppend(t) \/ BeginScan(t)
               \/ \E k \in {"update", "delete"}, c \in Chunk : BeginChange(t, k, c)
               \/ Lock(t) \/ LockIndex(t) \/ ShareKeyChunk(t) \/ Share(t)
               \/ Drain(t) \/ CheckTail(t) \/ NoEqualKey(t)
               \/ \E c \in Chunk : EqualKey(t, c)
               \/ KeyConflict(t) \/ NoKeyConflict(t)
               \/ WriteVersions(t) \/ VersionConflict(t)
               \/ WriteRows(t) \/ CountRows(t) \/ AddChunk(t) \/ FillChunk(t) \/ Release(t)
               \/ ScanVector(t) \/ EndScan(t)
  BY DEF Next, Acquire, Proceed

LEMMA ListSteps ==
  ASSUME [Next]_vars
  PROVE  \/ UNCHANGED list
         \/ \E t \in Thread : CountRows(t) \/ AddChunk(t) \/ FillChunk(t)
  BY Steps
     DEF vars, list, BeginAppend, BeginScan, BeginChange, Lock, LockIndex, ShareKeyChunk,
         Share, Drain, CheckTail, NoEqualKey, EqualKey, KeyConflict, NoKeyConflict,
         WriteVersions, VersionConflict, WriteRows, Release, ScanVector, EndScan

LEMMA RowSteps ==
  ASSUME [Next]_vars
  PROVE  UNCHANGED rows \/ \E t \in Thread : WriteRows(t) \/ AddChunk(t)
  BY Steps
     DEF vars, rows, BeginAppend, BeginScan, BeginChange, Lock, LockIndex, ShareKeyChunk,
         Share, Drain, CheckTail, NoEqualKey, EqualKey, KeyConflict, NoKeyConflict,
         WriteVersions, VersionConflict, CountRows, FillChunk, Release, ScanVector, EndScan

-----------------------------------------------------------------------------
(* Type correctness of the steps, one lemma per group of variables. *)

LEMMA ListTypeStep ==
  ASSUME TypeOK, StatementInv, [Next]_vars
  PROVE  ListTypeOK' /\ chunks <= chunks'
  <1> USE ChunkTypes, LocalTypes DEF TypeOK, StatementInv
  <1>1. CASE UNCHANGED list
    BY <1>1 DEF list, ListTypeOK
  <1>2. ASSUME NEW t \in Thread, CountRows(t) PROVE ListTypeOK' /\ chunks <= chunks'
    <2>1. count' = [count EXCEPT ![chunk[t]] = @ + current_count[t]]
      BY <1>2 DEF CountRows
    <2>2. count' \in [Chunk -> Nat]
      BY <1>2, <2>1 DEF CountRows, ListTypeOK
    <2> QED BY <1>2, <2>2 DEF CountRows, ListTypeOK
  <1>3. ASSUME NEW t \in Thread, AddChunk(t) PROVE ListTypeOK' /\ chunks <= chunks'
    <2>1. chunks' \in Chunk /\ tail_chunk' = chunks' /\ chunks <= chunks'
      BY <1>3, Sizes DEF AddChunk, Chunk
    <2>2. start[chunk[t]] + count[chunk[t]] \in Nat
      BY <1>3 DEF AddChunk
    <2>3. start' = [start EXCEPT ![chunks + 1] = start[chunk[t]] + count[chunk[t]]]
      BY <1>3 DEF AddChunk
    <2>4. start' \in [Chunk -> Nat]
      BY <2>2, <2>3 DEF ListTypeOK
    <2> QED BY <1>3, <2>1, <2>4 DEF AddChunk, ListTypeOK, Chunk
  <1>4. ASSUME NEW t \in Thread, FillChunk(t) PROVE ListTypeOK' /\ chunks <= chunks'
    <2>1. count' = [count EXCEPT ![chunk[t] + 1] = left[t]] /\ left[t] \in Nat
      BY <1>4 DEF FillChunk
    <2>2. count' \in [Chunk -> Nat]
      BY <2>1 DEF ListTypeOK
    <2> QED BY <1>4, <2>2 DEF FillChunk, ListTypeOK
  <1> QED BY <1>1, <1>2, <1>3, <1>4, ListSteps

LEMMA LockTypeStep ==
  ASSUME TypeOK, StatementInv, [Next]_vars
  PROVE  LockTypeOK'
  <1> USE DEF LockTypeOK, locks
  <1>0. LockTypeOK
    BY DEF TypeOK
  <1>1. ASSUME NEW t \in Thread,
               Lock(t) \/ CheckTail(t) \/ KeyConflict(t) \/ AddChunk(t) \/ FillChunk(t) \/
               Release(t)
        PROVE  exclusive_lock' \in [Chunk -> Thread \cup {NoThread}]
    BY <1>0, <1>1 DEF Lock, CheckTail, KeyConflict, AddChunk, FillChunk, Release
  <1>2. ASSUME NEW t \in Thread,
               ShareKeyChunk(t) \/ KeyConflict(t) \/ Share(t) \/ ScanVector(t)
        PROVE  read_count' \in [Chunk -> Int]
    BY <1>0, <1>2 DEF ShareKeyChunk, KeyConflict, Share, ScanVector
  <1>3. UNCHANGED exclusive_lock \/ exclusive_lock' \in [Chunk -> Thread \cup {NoThread}]
    BY Steps, <1>1
       DEF vars, BeginAppend, BeginScan, BeginChange, LockIndex, ShareKeyChunk, Share, Drain,
           NoEqualKey, EqualKey, NoKeyConflict, WriteVersions, VersionConflict, WriteRows,
           CountRows, ScanVector, EndScan
  <1>4. UNCHANGED read_count \/ read_count' \in [Chunk -> Int]
    BY Steps, <1>2
       DEF vars, BeginAppend, BeginScan, BeginChange, Lock, LockIndex, Drain, CheckTail,
           NoEqualKey, EqualKey, NoKeyConflict, WriteVersions, VersionConflict, WriteRows,
           CountRows, AddChunk, FillChunk, Release, EndScan
  <1>5. index_lock' \in Thread \cup {NoThread}
    BY Steps, <1>0
       DEF vars, BeginAppend, BeginScan, BeginChange, Lock, LockIndex, ShareKeyChunk, Share,
           Drain, CheckTail, NoEqualKey, EqualKey, KeyConflict, NoKeyConflict, WriteVersions,
           VersionConflict, WriteRows, CountRows, AddChunk, FillChunk, Release, ScanVector,
           EndScan
  <1> QED BY <1>0, <1>3, <1>4, <1>5

LEMMA StatementTypeStep ==
  ASSUME TypeOK, StatementInv, [Next]_vars
  PROVE  StatementTypeOK' /\ StatementInv'
  <1> DEFINE Goal == StatementTypeOK' /\ StatementInv'
  <1> USE Sizes, ChunkTypes, LocalTypes
      DEF StatementTypeOK, StatementInv, Inside, Goto, Begin, End, list, parts, key, scans
  <1>0. StatementTypeOK /\ ListTypeOK
    BY DEF TypeOK
  <1> USE <1>0
  <1>1. ASSUME NEW t \in Thread, BeginAppend(t) PROVE Goal
    BY <1>1 DEF BeginAppend
  <1>2. ASSUME NEW t \in Thread, NEW k \in {"update", "delete"}, NEW c \in Chunk,
               BeginChange(t, k, c)
        PROVE  Goal
    <2>1. c \in 0..chunks /\ c # 0
      BY <1>2 DEF BeginChange, Chunk
    <2> QED BY <1>2, <2>1 DEF BeginChange
  <1>3. ASSUME NEW t \in Thread, BeginScan(t) PROVE Goal
    BY <1>3 DEF BeginScan
  <1>4. ASSUME NEW t \in Thread, Lock(t) \/ LockIndex(t) \/ Share(t) PROVE Goal
    BY <1>4 DEF Lock, LockIndex, Share
  <1>5. ASSUME NEW t \in Thread, ShareKeyChunk(t) \/ NoKeyConflict(t) PROVE Goal
    <2>1. CASE ShareKeyChunk(t)
      BY <2>1 DEF ShareKeyChunk
    <2>2. CASE NoKeyConflict(t)
      BY <2>2 DEF NoKeyConflict
    <2> QED BY <1>5, <2>1, <2>2
  <1>6. ASSUME NEW t \in Thread, Drain(t) PROVE Goal
    BY <1>6 DEF Drain
  <1>7. ASSUME NEW t \in Thread, CheckTail(t) PROVE Goal
    BY <1>7 DEF CheckTail
  <1>8. ASSUME NEW t \in Thread, NoEqualKey(t) \/ WriteVersions(t) PROVE Goal
    BY <1>8 DEF NoEqualKey, WriteVersions
  <1>9. ASSUME NEW t \in Thread, NEW c \in Chunk, EqualKey(t, c) PROVE Goal
    <2>1. c \in 0..chunks
      BY <1>9 DEF EqualKey, Chunk
    <2> QED BY <1>9, <2>1 DEF EqualKey
  <1>10. ASSUME NEW t \in Thread,
                KeyConflict(t) \/ VersionConflict(t) \/ Release(t) \/ EndScan(t)
         PROVE  Goal
    <2>1. End(t) /\ UNCHANGED <<list, issued>>
      BY <1>10 DEF KeyConflict, VersionConflict, Release, EndScan
    <2>2. \A u \in Thread : /\ u = t => pc'[u] = "idle"
                            /\ u = t => taken'[u] = FALSE
                            /\ u # t => /\ pc'[u] = pc[u] /\ chunk'[u] = chunk[u]
                                        /\ taken'[u] = taken[u]
                                        /\ left'[u] = left[u]
                                        /\ current_count'[u] = current_count[u]
      BY <2>1
    <2>3. StatementInv'
      BY <2>2
    <2> QED BY <2>1, <2>3
  <1>11. ASSUME NEW t \in Thread, WriteRows(t) PROVE Goal
    <2>1. Fitting(t) \in 0..VectorSize /\ Fitting(t) <= left[t]
      BY <1>11, FittingType DEF WriteRows
    <2> QED BY <1>11, <2>1 DEF WriteRows
  <1>12. ASSUME NEW t \in Thread, CountRows(t) PROVE Goal
    <2>1. left[t] - current_count[t] \in 0..VectorSize
      BY <1>12 DEF CountRows
    <2> QED BY <1>12, <2>1 DEF CountRows
  <1>13. ASSUME NEW t \in Thread, AddChunk(t) PROVE Goal
    <2>1. chunks' = chunks + 1 /\ pc' = [pc EXCEPT ![t] = "filling"]
          /\ UNCHANGED <<issued, kind, chunk, parts, key, scans>>
          /\ pc[t] = "extending"
      BY <1>13 DEF AddChunk
    <2>2. chunk' \in [Thread -> 0..chunks'] /\ key_chunk' \in [Thread -> 0..chunks']
      BY <2>1
    <2> QED BY <2>1, <2>2
  <1>14. ASSUME NEW t \in Thread, FillChunk(t) PROVE Goal
    BY <1>14 DEF FillChunk
  <1>15. ASSUME NEW t \in Thread, ScanVector(t) PROVE Goal
    <2>1. /\ chunk' \in [Thread -> 0..chunks] /\ offset' \in [Thread -> Nat]
          /\ \A u \in Thread : u # t => chunk'[u] = chunk[u]
      <3>1. CASE offset[t] + VectorSize >= count[chunk[t]]
        <4>1. chunk' = [chunk EXCEPT ![t] = NextChunk(@)]
              /\ offset' = [offset EXCEPT ![t] = 0]
          BY <1>15, <3>1 DEF ScanVector, Advance
        <4>2. NextChunk(chunk[t]) \in 0..chunks
          BY <1>15 DEF ScanVector, NextChunk
        <4> QED BY <4>1, <4>2
      <3>2. CASE ~(offset[t] + VectorSize >= count[chunk[t]])
        <4>1. chunk' = chunk
              /\ offset' = [offset EXCEPT ![t] = offset[t] + VectorSize]
          BY <1>15, <3>2 DEF ScanVector, Advance
        <4> QED BY <4>1
      <3> QED BY <3>1, <3>2
    <2>2. /\ pc[t] = "reading"
          /\ pc' = [pc EXCEPT ![t] = IF chunk'[t] = 0 THEN "scanned" ELSE "scanning"]
          /\ UNCHANGED <<list, issued, kind, parts, key>>
      BY <1>15 DEF ScanVector
    <2> QED BY <2>1, <2>2
  <1>16. CASE UNCHANGED vars
    BY <1>16 DEF vars
  <1> QED
    BY Steps, <1>1, <1>2, <1>3, <1>4, <1>5, <1>6, <1>7, <1>8, <1>9, <1>10, <1>11, <1>12,
       <1>13, <1>14, <1>15, <1>16

LEMMA HistoryTypeStep ==
  ASSUME TypeOK, StatementInv, [Next]_vars
  PROVE  HistoryTypeOK'
  <1>0. HistoryTypeOK /\ ListTypeOK /\ StatementTypeOK
    BY DEF TypeOK
  <1>1. placed' \in SUBSET Nat /\ appended' \in Nat
    <2>1. CASE UNCHANGED rows
      BY <1>0, <2>1 DEF rows, HistoryTypeOK
    <2>2. ASSUME NEW t \in Thread, WriteRows(t)
          PROVE  placed' \in SUBSET Nat /\ appended' \in Nat
      <3>1. chunk[t] # 0 /\ Fitting(t) \in Int
        BY <1>0, <2>2, FittingType DEF WriteRows, StatementInv
      <3>2. start[chunk[t]] + count[chunk[t]] \in Nat
        BY <1>0, <3>1, LocalTypes
      <3> QED BY <1>0, <2>2, <3>1, <3>2, PlacedType DEF WriteRows, FreeRows
    <2>3. ASSUME NEW t \in Thread, AddChunk(t)
          PROVE  placed' \in SUBSET Nat /\ appended' \in Nat
      <3> DEFINE first == start[chunk[t]] + count[chunk[t]]
      <3>1. first \in Nat /\ left[t] \in Nat
        BY <1>0, <2>3, LocalTypes DEF AddChunk, StatementInv
      <3>2. Place(first..first + left[t] - 1)
        BY <2>3 DEF AddChunk
      <3> QED BY <1>0, <3>1, <3>2, PlacedType
    <2> QED BY <2>1, <2>2, <2>3, RowSteps
  <1>2. expected' \in [Thread -> SUBSET Nat]
    <2> USE <1>0, TableRowsType DEF HistoryTypeOK
    <2> QED
      BY Steps
       DEF vars, scans, End, BeginAppend, BeginScan, BeginChange, Lock, LockIndex,
           ShareKeyChunk, Share, Drain, CheckTail, NoEqualKey, EqualKey, KeyConflict,
           NoKeyConflict, WriteVersions, VersionConflict, WriteRows, CountRows, AddChunk,
           FillChunk, Release, ScanVector, EndScan
  <1>3. seen' \in [Thread -> Seq(Nat)]
    <2> USE <1>0 DEF HistoryTypeOK
    <2>1. ASSUME NEW t \in Thread, ScanVector(t) PROVE seen' \in [Thread -> Seq(Nat)]
      <3>1. seen[t] \o VectorRows(t) \in Seq(Nat)
        BY <2>1, VectorRowsType, ConcatProperties DEF ScanVector, StatementInv
      <3> QED BY <2>1, <3>1 DEF ScanVector
    <2>2. << >> \in Seq(Nat)
      OBVIOUS
    <2> QED
      BY Steps, <2>1, <2>2
       DEF vars, scans, End, BeginAppend, BeginScan, BeginChange, Lock, LockIndex,
           ShareKeyChunk, Share, Drain, CheckTail, NoEqualKey, EqualKey, KeyConflict,
           NoKeyConflict, WriteVersions, VersionConflict, WriteRows, CountRows, AddChunk,
           FillChunk, Release, EndScan
  <1>4. spoiled' \subseteq {"unlocked", "unbalanced", "leaked", "abandoned"}
    BY <1>0, Steps
       DEF HistoryTypeOK, vars, BeginAppend, BeginScan, BeginChange, Lock, LockIndex,
           ShareKeyChunk, Share, Drain, CheckTail, NoEqualKey, EqualKey, KeyConflict,
           NoKeyConflict, WriteVersions, VersionConflict, WriteRows, CountRows, AddChunk,
           FillChunk, Release, ScanVector, EndScan
  <1> QED BY <1>1, <1>2, <1>3, <1>4 DEF HistoryTypeOK

LEMMA TypeStep == TypeOK /\ StatementInv /\ [Next]_vars => (TypeOK /\ StatementInv)'
  BY ListTypeStep, LockTypeStep, StatementTypeStep, HistoryTypeStep DEF TypeOK

\* Every variable of the locks of a table keeps its type, with any number of
\* connections and chunks of any size: in particular the pointers of statements
\* stay inside the list, and an append never has a negative remainder.
THEOREM TypeCorrect == Spec => []TypeOK
  <1>1. Spec => [](TypeOK /\ StatementInv)
    BY TypeInit, TypeStep, PTL DEF Spec
  <1> QED BY <1>1, PTL
-----------------------------------------------------------------------------
(* The inductive invariants. *)

Clean == "unlocked" \notin spoiled

\* Between the two locks: the append has found its chunk to be the last one.
AtTail == {"indexing", "comparing", "sharing", "compared", "writing", "counting", "extending"}

\* The tail pointer is the last chunk.  As long as no append went on without
\* the lock, whoever is inside the lock of a chunk holds its mutex, an append
\* is in the last chunk, and one that adds a chunk holds the mutex of both.
HeldInv ==
    /\ tail_chunk = chunks
    /\ Clean =>
        \A t \in Thread :
            /\ pc[t] \in Inside \cup {"draining"} => exclusive_lock[chunk[t]] = t
            /\ kind[t] = "append" /\ pc[t] \in AtTail => chunk[t] = chunks
            /\ pc[t] \in {"counting", "extending", "filling"} => kind[t] = "append"
            /\ pc[t] = "filling" => chunk[t] = chunks - 1 /\ exclusive_lock[chunks] = t

\* Every reader is counted, and nobody is counted where a writer is inside.
DrainedInv ==
    spoiled \cap {"unlocked", "unbalanced"} = {} =>
        /\ \A c \in Chunk : /\ IsFiniteSet(Readers(c))
                            /\ Cardinality(Readers(c)) <= read_count[c]
        /\ \A t \in Thread : pc[t] \in Inside => read_count[chunk[t]] = 0

\* The identifier that the next row of the table gets.
TableEnd == start[chunks] + count[chunks]

\* All chunks but the last are full, and the rows that have a place are those
\* that are counted and those that the one append in the last chunk has written
\* but not counted yet.
RowsInv ==
    Clean =>
        /\ placed = 0..appended - 1
        /\ \A c \in 1..chunks : start[c] = ChunkSize * (c - 1)
        /\ \A c \in 1..chunks - 1 : count[c] = ChunkSize
        /\ \A c \in Chunk : c > chunks => count[c] = 0
        /\ count[chunks] <= ChunkSize
        /\ (\A t \in Thread : pc[t] \notin {"counting", "filling"}) => appended = TableEnd
        /\ \A t \in Thread :
            /\ pc[t] = "counting" =>
                   /\ appended = TableEnd + current_count[t]
                   /\ current_count[t] <= ChunkSize - count[chunks]
                   /\ current_count[t] \in {left[t], ChunkSize - count[chunks]}
            /\ pc[t] = "extending" => count[chunks] = ChunkSize
            /\ pc[t] = "filling" => count[chunks] = 0 /\ appended = TableEnd + left[t]

\* A scan has read all rows up to its place in the table.
ScanInv ==
    Clean =>
        \A t \in Thread :
            /\ \A i \in 1..Len(seen[t]) : seen[t][i] = i - 1
            /\ pc[t] \in {"scanning", "reading"} =>
                   /\ offset[t] <= count[chunk[t]]
                   /\ Len(seen[t]) = start[chunk[t]] + offset[t]
                   /\ expected[t] \subseteq 0..TableEnd - 1
            /\ pc[t] = "scanned" => expected[t] \subseteq 0..Len(seen[t]) - 1
            /\ pc[t] \notin {"scanning", "reading", "scanned"} =>
                   offset[t] = 0 /\ seen[t] = << >>

-----------------------------------------------------------------------------
(* Mutual exclusion. *)

\* What went wrong stays in the record.
LEMMA SpoiledGrows ==
  ASSUME [Next]_vars
  PROVE  spoiled \subseteq spoiled'
  BY Steps
     DEF vars, BeginAppend, BeginScan, BeginChange, Lock, LockIndex, ShareKeyChunk, Share,
         Drain, CheckTail, NoEqualKey, EqualKey, KeyConflict, NoKeyConflict, WriteVersions,
         VersionConflict, WriteRows, CountRows, AddChunk, FillChunk, Release, ScanVector,
         EndScan

LEMMA HeldStep ==
  ASSUME TypeOK, StatementInv, HeldInv, [Next]_vars
  PROVE  HeldInv'
  <1>0. ListTypeOK /\ LockTypeOK /\ StatementTypeOK
    BY DEF TypeOK
  <1>1. tail_chunk' = chunks'
    BY ListSteps DEF HeldInv, list, CountRows, AddChunk, FillChunk
  <1> SUFFICES ASSUME Clean' PROVE HeldInv'
    BY <1>1 DEF HeldInv
  <1>2. Clean
    BY SpoiledGrows DEF Clean
  <1> USE <1>0, <1>1, <1>2, ChunkTypes, LocalTypes, ThreadAssumption
      DEF LockTypeOK, StatementTypeOK, StatementInv, HeldInv, Inside, AtTail, Goto, Begin,
          End, list, locks
  <1>3. ASSUME NEW t \in Thread, BeginAppend(t) \/ BeginScan(t) PROVE HeldInv'
    BY <1>3 DEF BeginAppend, BeginScan
  <1>4. ASSUME NEW t \in Thread, NEW k \in {"update", "delete"}, NEW c \in Chunk,
               BeginChange(t, k, c)
        PROVE  HeldInv'
    BY <1>4 DEF BeginChange
  <1>5. ASSUME NEW t \in Thread, Lock(t) PROVE HeldInv'
    BY <1>5 DEF Lock
  <1>6. ASSUME NEW t \in Thread, LockIndex(t) \/ ShareKeyChunk(t) \/ Share(t) PROVE HeldInv'
    BY <1>6 DEF LockIndex, ShareKeyChunk, Share
  <1>7. ASSUME NEW t \in Thread, Drain(t) PROVE HeldInv'
    BY <1>7 DEF Drain
  <1>8. ASSUME NEW t \in Thread, CheckTail(t) PROVE HeldInv'
    BY <1>8 DEF CheckTail, Clean
  <1>9. ASSUME NEW t \in Thread, NoEqualKey(t) \/ (\E c \in Chunk : EqualKey(t, c))
        PROVE  HeldInv'
    BY <1>9 DEF NoEqualKey, EqualKey
  <1>10. ASSUME NEW t \in Thread, KeyConflict(t) PROVE HeldInv'
    BY <1>10 DEF KeyConflict
  <1>11. ASSUME NEW t \in Thread, NoKeyConflict(t) \/ WriteVersions(t) PROVE HeldInv'
    BY <1>11 DEF NoKeyConflict, WriteVersions
  <1>12. ASSUME NEW t \in Thread, VersionConflict(t) \/ EndScan(t) PROVE HeldInv'
    <2>1. CASE VersionConflict(t)
      BY <2>1 DEF VersionConflict
    <2>2. CASE EndScan(t)
      BY <2>2 DEF EndScan
    <2> QED BY <1>12, <2>1, <2>2
  <1>13. ASSUME NEW t \in Thread, WriteRows(t) \/ CountRows(t) PROVE HeldInv'
    BY <1>13 DEF WriteRows, CountRows
  <1>14. ASSUME NEW t \in Thread, AddChunk(t) PROVE HeldInv'
    <2>0. chunks < MaxChunks
      BY <1>14 DEF AddChunk
    <2>1. /\ pc[t] = "extending" /\ chunk[t] = chunks /\ chunks' = chunks + 1
          /\ exclusive_lock' = [exclusive_lock EXCEPT ![chunks + 1] = t]
          /\ pc' = [pc EXCEPT ![t] = "filling"]
          /\ UNCHANGED <<kind, chunk>>
      BY <1>14 DEF AddChunk
    <2>2. exclusive_lock[chunks] = t
      BY <2>1
    <2>3. ASSUME NEW u \in Thread, u # t, pc[u] \in Inside \cup {"draining"}
          PROVE  /\ chunk[u] # chunks /\ pc[u] # "filling"
                 /\ ~(kind[u] = "append" /\ pc[u] \in AtTail)
      BY <2>2, <2>3
    <2>7. chunks + 1 \in Chunk
      BY <1>0, <2>0, NewChunkType
    <2>4. \A c \in 1..chunks : exclusive_lock'[c] = exclusive_lock[c]
      BY <2>1
    <2>5. \A u \in Thread : pc[u] \in Inside \cup {"draining"} => chunk[u] \in 1..chunks
      OBVIOUS
    <2>6. exclusive_lock'[chunks'] = t
      BY <2>1, <2>7
    <2> HIDE DEF LockTypeOK, StatementInv
    <2> QED BY <2>1, <2>3, <2>4, <2>5, <2>6
  <1>15. ASSUME NEW t \in Thread, FillChunk(t) PROVE HeldInv'
    BY <1>15 DEF FillChunk
  <1>16. ASSUME NEW t \in Thread, Release(t) PROVE HeldInv'
    <2>1. /\ exclusive_lock[chunk[t]] = t /\ UNCHANGED list
          /\ exclusive_lock' = [exclusive_lock EXCEPT ![chunk[t]] = NoThread]
          /\ pc' = [pc EXCEPT ![t] = "idle"]
          /\ \A u \in Thread : u # t => kind'[u] = kind[u] /\ chunk'[u] = chunk[u]
      BY <1>16 DEF Release
    <2>2. ASSUME NEW u \in Thread, u # t, exclusive_lock[chunk[u]] = u
          PROVE  exclusive_lock'[chunk[u]] = u
      BY <2>1, <2>2
    <2>3. ASSUME NEW u \in Thread, u # t, exclusive_lock[chunks] = u
          PROVE  exclusive_lock'[chunks] = u
      BY <2>1, <2>3
    <2> QED BY <2>1, <2>2, <2>3
  <1>17. ASSUME NEW t \in Thread, ScanVector(t) PROVE HeldInv'
    BY <1>17 DEF ScanVector, Advance
  <1>18. CASE UNCHANGED vars
    BY <1>18 DEF vars, Clean
  <1> QED
    BY Steps, <1>3, <1>4, <1>5, <1>6, <1>7, <1>8, <1>9, <1>10, <1>11, <1>12, <1>13, <1>14,
       <1>15, <1>16, <1>17, <1>18

LEMMA NobodyCounted ==
  ASSUME NEW S, IsFiniteSet(S), Cardinality(S) <= 0
  PROVE  S = {}
  BY FS_CardinalityType, FS_EmptySet

LEMMA CountedSet ==
  ASSUME NEW S, NEW x, NEW n \in Int, IsFiniteSet(S), Cardinality(S) <= n
  PROVE  /\ IsFiniteSet(S \cup {x}) /\ Cardinality(S \cup {x}) <= n + 1
         /\ IsFiniteSet(S \ {x}) /\ Cardinality(S \ {x}) <= n
         /\ x \in S => Cardinality(S \ {x}) <= n - 1
  <1>1. Cardinality(S) \in Nat
    BY FS_CardinalityType
  <1>3. /\ IsFiniteSet(S \cup {x}) /\ IsFiniteSet(S \ {x})
        /\ Cardinality(S \cup {x}) \in {Cardinality(S), Cardinality(S) + 1}
    BY FS_AddElement, FS_RemoveElement
  <1>4. CASE x \in S
    <2>1. Cardinality(S \ {x}) = Cardinality(S) - 1
      BY <1>4, FS_RemoveElement
    <2> QED BY <1>1, <1>3, <2>1
  <1>5. CASE x \notin S
    <2>1. Cardinality(S \ {x}) = Cardinality(S)
      BY <1>5, FS_RemoveElement
    <2> QED BY <1>1, <1>3, <1>5, <2>1
  <1> QED BY <1>4, <1>5

\* How a step changes the readers of a chunk and their count.
LEMMA ReaderSteps ==
  ASSUME TypeOK, StatementInv, [Next]_vars,
         spoiled' \cap {"unlocked", "unbalanced"} = {}, NEW c \in Chunk
  PROVE  \/ Readers(c)' \subseteq Readers(c) /\ read_count'[c] = read_count[c]
         \/ \E t \in Thread : /\ exclusive_lock[c] = NoThread
                              /\ Readers(c)' = Readers(c) \cup {t}
                              /\ read_count'[c] = read_count[c] + 1
         \/ \E t \in Readers(c) : /\ Readers(c)' = Readers(c) \ {t}
                                  /\ read_count'[c] = read_count[c] - 1
  <1> DEFINE Fewer == Readers(c)' \subseteq Readers(c) /\ read_count'[c] = read_count[c]
             Joins(t) == /\ exclusive_lock[c] = NoThread
                         /\ Readers(c)' = Readers(c) \cup {t}
                         /\ read_count'[c] = read_count[c] + 1
             Leaves(t) == /\ t \in Readers(c)
                          /\ Readers(c)' = Readers(c) \ {t}
                          /\ read_count'[c] = read_count[c] - 1
  <1>0. LockTypeOK /\ StatementTypeOK
    BY DEF TypeOK
  <1> USE <1>0 DEF LockTypeOK, StatementTypeOK, Readers, Goto, Begin, End, locks, key
  <1>1. ASSUME NEW t \in Thread, BeginAppend(t) \/ BeginScan(t) \/ Lock(t) \/ LockIndex(t)
        PROVE  Fewer
    BY <1>1 DEF BeginAppend, BeginScan, Lock, LockIndex
  <1>2. ASSUME NEW t \in Thread, NEW k \in {"update", "delete"}, NEW d \in Chunk,
               BeginChange(t, k, d)
        PROVE  Fewer
    BY <1>2 DEF BeginChange
  <1>3. ASSUME NEW t \in Thread, Drain(t) \/ CheckTail(t) \/ NoEqualKey(t) PROVE Fewer
    BY <1>3 DEF Drain, CheckTail, NoEqualKey
  <1>4. ASSUME NEW t \in Thread, NEW d \in Chunk, EqualKey(t, d) PROVE Fewer
    BY <1>4 DEF EqualKey
  <1>5. ASSUME NEW t \in Thread, NoKeyConflict(t) \/ WriteVersions(t) PROVE Fewer
    BY <1>5 DEF NoKeyConflict, WriteVersions
  <1>6. ASSUME NEW t \in Thread, VersionConflict(t) PROVE Fewer
    BY <1>6 DEF VersionConflict
  <1>7. ASSUME NEW t \in Thread, Release(t) \/ EndScan(t) PROVE Fewer
    BY <1>7 DEF Release, EndScan
  <1>8. ASSUME NEW t \in Thread, WriteRows(t) \/ CountRows(t) \/ AddChunk(t) \/ FillChunk(t)
        PROVE  Fewer
    BY <1>8 DEF WriteRows, CountRows, AddChunk, FillChunk
  <1>9. ASSUME NEW t \in Thread, Share(t) PROVE Fewer \/ Joins(t)
    BY <1>9 DEF Share
  <1>10. ASSUME NEW t \in Thread, ShareKeyChunk(t) PROVE Fewer \/ Joins(t)
    <2>1. pc[t] = "sharing" /\ ~taken[t] /\ pc' = [pc EXCEPT ![t] = "compared"]
          /\ UNCHANGED <<chunk, key_chunk>>
      BY <1>10 DEF ShareKeyChunk, StatementInv
    <2>2. CASE key_chunk[t] = c /\ key_chunk[t] # tail_chunk
      <3>1. /\ exclusive_lock[c] = NoThread
            /\ read_count' = [read_count EXCEPT ![c] = read_count[c] + 1]
            /\ taken' = [taken EXCEPT ![t] = TRUE]
        BY <1>10, <2>2 DEF ShareKeyChunk
      <3> QED BY <2>1, <2>2, <3>1
    <2>3. CASE ~(key_chunk[t] = c /\ key_chunk[t] # tail_chunk)
      BY <1>10, <2>1, <2>3 DEF ShareKeyChunk
    <2> QED BY <2>2, <2>3
  <1>11. ASSUME NEW t \in Thread, KeyConflict(t) PROVE Fewer \/ Leaves(t)
    BY <1>11 DEF KeyConflict
  <1>12. ASSUME NEW t \in Thread, ScanVector(t) PROVE Fewer \/ Leaves(t)
    BY <1>12 DEF ScanVector, Advance
  <1>13. CASE UNCHANGED vars
    BY <1>13 DEF vars
  <1> QED
    BY Steps, <1>1, <1>2, <1>3, <1>4, <1>5, <1>6, <1>7, <1>8, <1>9, <1>10, <1>11, <1>12,
       <1>13

\* A statement that is inside the lock of a chunk has got in by Drain.
LEMMA InsideSteps ==
  ASSUME TypeOK, [Next]_vars, Clean', NEW t \in Thread, pc'[t] \in Inside
  PROVE  /\ chunk'[t] = chunk[t]
         /\ pc[t] \in Inside \/ (read_count[chunk[t]] = 0 /\ UNCHANGED read_count)
         /\ pc[t] \in Inside \cup {"draining"}
  <1> DEFINE WasInside == pc[t] \in Inside /\ chunk'[t] = chunk[t]
             WasDraining == /\ pc[t] = "draining" /\ read_count[chunk[t]] = 0
                            /\ UNCHANGED <<read_count, chunk>>
  <1>0. StatementTypeOK
    BY DEF TypeOK
  <1> USE <1>0 DEF StatementTypeOK, Inside, Goto, Begin, End, locks, Clean
  <1>1. ASSUME NEW u \in Thread,
               BeginAppend(u) \/ BeginScan(u) \/
               (\E k \in {"update", "delete"}, c \in Chunk : BeginChange(u, k, c))
        PROVE  WasInside
    BY <1>1 DEF BeginAppend, BeginScan, BeginChange
  <1>2. ASSUME NEW u \in Thread,
               KeyConflict(u) \/ VersionConflict(u) \/ Release(u) \/ EndScan(u)
        PROVE  WasInside
    BY <1>2 DEF KeyConflict, VersionConflict, Release, EndScan
  <1>3. ASSUME NEW u \in Thread, Lock(u) \/ Share(u)
        PROVE  WasInside
    BY <1>3 DEF Lock, Share
  <1>4. ASSUME NEW u \in Thread, ScanVector(u)
        PROVE  WasInside
    BY <1>4 DEF ScanVector, Advance
  <1>5. ASSUME NEW u \in Thread, Drain(u)
        PROVE  WasInside \/ WasDraining
    <2>1. CASE u = t
      BY <1>5, <2>1 DEF Drain, Drained
    <2>2. CASE u # t
      <3>1. pc'[t] = pc[t] /\ UNCHANGED <<read_count, chunk>>
        BY <1>5, <2>2 DEF Drain
      <3> QED BY <3>1
    <2> QED BY <2>1, <2>2
  <1>6. ASSUME NEW u \in Thread, CheckTail(u)
        PROVE  WasInside
    BY <1>6 DEF CheckTail
  <1>7. ASSUME NEW u \in Thread,
               LockIndex(u) \/ NoEqualKey(u) \/ (\E c \in Chunk : EqualKey(u, c)) \/
               ShareKeyChunk(u) \/ NoKeyConflict(u) \/ WriteVersions(u)
        PROVE  WasInside
    BY <1>7 DEF LockIndex, NoEqualKey, EqualKey, ShareKeyChunk, NoKeyConflict, WriteVersions
  <1>8. ASSUME NEW u \in Thread, WriteRows(u) \/ CountRows(u) \/ AddChunk(u) \/ FillChunk(u)
        PROVE  WasInside
    BY <1>8 DEF WriteRows, CountRows, AddChunk, FillChunk
  <1>9. ASSUME UNCHANGED vars PROVE WasInside
    BY <1>9 DEF vars
  <1>10. WasInside \/ WasDraining
    <2> HIDE DEF WasInside, WasDraining
    <2> QED BY Steps, <1>1, <1>2, <1>3, <1>4, <1>5, <1>6, <1>7, <1>8, <1>9
  <1> HIDE DEF StatementTypeOK, Inside
  <1>11. CASE WasInside
    BY <1>11
  <1>12. CASE WasDraining
    BY <1>12
  <1> QED BY <1>10, <1>11, <1>12

LEMMA DrainedStep ==
  ASSUME TypeOK, StatementInv, HeldInv, DrainedInv, [Next]_vars
  PROVE  DrainedInv'
  <1> SUFFICES ASSUME spoiled' \cap {"unlocked", "unbalanced"} = {}
               PROVE  /\ \A c \in Chunk : /\ IsFiniteSet(Readers(c)')
                                          /\ Cardinality(Readers(c)') <= read_count'[c]
                      /\ \A t \in Thread : pc'[t] \in Inside => read_count'[chunk'[t]] = 0
    BY DEF DrainedInv
  <1>1. spoiled \cap {"unlocked", "unbalanced"} = {}
    BY SpoiledGrows
  <1>2. Clean /\ Clean'
    BY <1>1 DEF Clean
  <1>3. \A c \in Chunk : /\ IsFiniteSet(Readers(c)) /\ read_count[c] \in Int
                         /\ Cardinality(Readers(c)) <= read_count[c]
    BY <1>1 DEF DrainedInv, TypeOK, LockTypeOK
  <1>4. ASSUME NEW c \in Chunk
        PROVE  IsFiniteSet(Readers(c)') /\ Cardinality(Readers(c)') <= read_count'[c]
    <2>1. CASE Readers(c)' \subseteq Readers(c) /\ read_count'[c] = read_count[c]
      <3>1. /\ IsFiniteSet(Readers(c)') /\ Cardinality(Readers(c)') <= Cardinality(Readers(c))
        BY <1>3, <2>1, FS_Subset
      <3>2. Cardinality(Readers(c)') \in Nat /\ Cardinality(Readers(c)) \in Nat
        BY <1>3, <3>1, FS_CardinalityType
      <3> QED BY <1>3, <2>1, <3>1, <3>2
    <2>2. ASSUME NEW t \in Thread, Readers(c)' = Readers(c) \cup {t},
                 read_count'[c] = read_count[c] + 1
          PROVE  IsFiniteSet(Readers(c)') /\ Cardinality(Readers(c)') <= read_count'[c]
      <3>1. /\ IsFiniteSet(Readers(c) \cup {t})
            /\ Cardinality(Readers(c) \cup {t}) <= read_count[c] + 1
        BY <1>3, CountedSet
      <3> QED BY <2>2, <3>1
    <2>3. ASSUME NEW t \in Readers(c), Readers(c)' = Readers(c) \ {t},
                 read_count'[c] = read_count[c] - 1
          PROVE  IsFiniteSet(Readers(c)') /\ Cardinality(Readers(c)') <= read_count'[c]
      BY <1>3, <2>3, CountedSet
    <2> QED BY <2>1, <2>2, <2>3, ReaderSteps
  <1>5. ASSUME NEW t \in Thread, pc'[t] \in Inside
        PROVE  read_count'[chunk'[t]] = 0
    <2>1. chunk'[t] = chunk[t] /\ pc[t] \in Inside \cup {"draining"}
      BY <1>2, <1>5, InsideSteps
    <2>2. exclusive_lock[chunk[t]] = t /\ chunk[t] \in Chunk
      BY <1>2, <2>1, LocalTypes DEF HeldInv, TypeOK, StatementInv, Inside
    <2>3. CASE pc[t] \in Inside
      <3>1. read_count[chunk[t]] = 0
        BY <1>1, <2>3 DEF DrainedInv
      <3>2. Readers(chunk[t]) = {}
        BY <1>3, <2>2, <3>1, NobodyCounted
      <3>3. exclusive_lock[chunk[t]] # NoThread
        BY <2>2, ThreadAssumption
      <3> QED BY <1>2, <2>1, <2>2, <3>1, <3>2, <3>3, ReaderSteps
    <2>4. CASE pc[t] \notin Inside
      BY <1>2, <1>5, <2>1, <2>4, InsideSteps
    <2> QED BY <2>3, <2>4
  <1> QED BY <1>4, <1>5

LEMMA LocksInit == Init => HeldInv /\ DrainedInv
  <1> SUFFICES ASSUME Init PROVE HeldInv /\ DrainedInv
    OBVIOUS
  <1>1. HeldInv
    BY DEF Init, HeldInv, Inside, AtTail
  <1>2. \A c \in Chunk : Readers(c) = {} /\ read_count[c] = 0
    BY DEF Init, Readers
  <1>3. IsFiniteSet({}) /\ Cardinality({}) <= 0
    BY FS_EmptySet
  <1>4. \A t \in Thread : pc[t] \notin Inside
    BY DEF Init, Inside
  <1>5. DrainedInv
    BY <1>2, <1>3, <1>4 DEF DrainedInv
  <1> QED BY <1>1, <1>5

LEMMA ExclusionFollows == TypeOK /\ StatementInv /\ HeldInv /\ DrainedInv => MutualExclusion
  <1> SUFFICES ASSUME TypeOK, StatementInv, HeldInv, DrainedInv,
                      spoiled \cap {"unlocked", "unbalanced"} = {},
                      NEW t \in Thread, pc[t] \in Inside
               PROVE  /\ Readers(chunk[t]) = {}
                      /\ \A u \in Thread \ {t} : pc[u] \in Inside => chunk[u] # chunk[t]
    BY DEF MutualExclusion
  <1>1. chunk[t] \in Chunk
    BY LocalTypes DEF TypeOK, StatementInv, Inside
  <1>2. /\ IsFiniteSet(Readers(chunk[t])) /\ read_count[chunk[t]] = 0
        /\ Cardinality(Readers(chunk[t])) <= read_count[chunk[t]]
    BY <1>1 DEF DrainedInv
  <1>3. Readers(chunk[t]) = {}
    BY <1>2, NobodyCounted
  <1>4. \A u \in Thread \ {t} : pc[u] \in Inside => chunk[u] # chunk[t]
    BY DEF HeldInv, Clean
  <1> QED BY <1>3, <1>4

\* While a statement is inside the exclusive lock of a chunk, no other one is,
\* and nobody reads the chunk under its shared lock, whatever the connections do
\* with the other chunks: leaked reader counts, abandoned locks and new chunks
\* included.
THEOREM ChunksAreExclusive == Spec => []MutualExclusion
  <1> DEFINE Inv == TypeOK /\ StatementInv /\ HeldInv /\ DrainedInv
  <1>1. Init => Inv
    BY TypeInit, LocksInit
  <1>2. Inv /\ [Next]_vars => Inv'
    BY TypeStep, HeldStep, DrainedStep
  <1>3. Inv => MutualExclusion
    BY ExclusionFollows
  <1> QED BY <1>1, <1>2, <1>3, PTL DEF Spec

-----------------------------------------------------------------------------
(* The rows of the table. *)

LEMMA VectorFits == VectorSize <= ChunkSize
  <1> SUFFICES ASSUME ChunkSize < VectorSize PROVE FALSE
    BY Sizes
  <1>1. ChunkSize % VectorSize = ChunkSize
    BY Sizes
  <1> QED BY <1>1, SizeAssumption, Sizes

LEMMA Multiples ==
  ASSUME NEW a \in Int, NEW b \in Int
  PROVE  /\ ChunkSize * a \in Int
         /\ ChunkSize * (a + 1) = ChunkSize * a + ChunkSize
         /\ a <= b => ChunkSize * a <= ChunkSize * b
  <1>1. ChunkSize * (b - a) = ChunkSize * b - ChunkSize * a
    BY Sizes
  <1>2. a <= b => ChunkSize * (b - a) >= 0
    BY Sizes
  <1> QED BY <1>1, <1>2, Sizes

\* The chunks number the rows from 0 without a gap.
LEMMA Geometry ==
  ASSUME ListTypeOK,
         \A c \in 1..chunks : start[c] = ChunkSize * (c - 1),
         \A c \in 1..chunks - 1 : count[c] = ChunkSize
  PROVE  TableRows = 0..TableEnd - 1
  <1>0. /\ chunks \in Nat /\ chunks > 0
        /\ \A c \in 1..chunks : start[c] \in Nat /\ count[c] \in Nat
    BY ChunkTypes
  <1>1. ASSUME NEW r \in TableRows PROVE r \in 0..TableEnd - 1
    <2>1. PICK c \in 1..chunks : r \in start[c]..start[c] + count[c] - 1
      BY DEF TableRows, RowsOf
    <2>2. CASE c = chunks
      BY <1>0, <2>1, <2>2 DEF TableEnd
    <2>3. CASE c # chunks
      <3>1. /\ c \in Int /\ c - 1 \in Int /\ chunks - 1 \in Int /\ c - 1 + 1 = c
            /\ c <= chunks - 1
        BY <1>0, <2>1, <2>3
      <3>2. start[c] + count[c] = ChunkSize * c
        BY <1>0, <3>1, Multiples
      <3>3. ChunkSize * c <= ChunkSize * (chunks - 1)
        BY <3>1, Multiples
      <3>4. start[c] + count[c] <= start[chunks]
        BY <1>0, <3>2, <3>3
      <3> QED BY <1>0, <2>1, <3>4 DEF TableEnd
    <2> QED BY <2>2, <2>3
  <1>2. ASSUME NEW r \in 0..TableEnd - 1 PROVE r \in TableRows
    <2>1. CASE r >= start[chunks]
      <3>1. r \in RowsOf(chunks) /\ chunks \in 1..chunks
        BY <1>0, <2>1 DEF RowsOf, TableEnd
      <3> QED BY <3>1 DEF TableRows
    <2>2. CASE r < start[chunks]
      <3> DEFINE q == r \div ChunkSize
      <3>1. /\ q \in Int /\ q >= 0 /\ ChunkSize * q <= r /\ r < ChunkSize * q + ChunkSize
        BY Sizes
      <3> HIDE DEF q
      <3>2. q < chunks - 1
        <4>1. q >= chunks - 1 => ChunkSize * (chunks - 1) <= ChunkSize * q
          BY <1>0, <3>1, Multiples
        <4>2. start[chunks] = ChunkSize * (chunks - 1)
          BY <1>0
        <4>3. ChunkSize * q \in Int /\ ChunkSize * (chunks - 1) \in Int
          BY <1>0, <3>1, Multiples
        <4> QED BY <1>0, <2>2, <3>1, <4>1, <4>2, <4>3
      <3>3. /\ q + 1 \in 1..chunks /\ q + 1 \in 1..chunks - 1 /\ q + 1 - 1 = q
        BY <1>0, <3>1, <3>2
      <3>4. start[q + 1] = ChunkSize * q /\ count[q + 1] = ChunkSize
        <4> DEFINE c == q + 1
        <4>1. c \in 1..chunks /\ c \in 1..chunks - 1 /\ c - 1 = q
          BY <1>0, <3>1, <3>2
        <4> HIDE DEF c
        <4>2. start[c] = ChunkSize * (c - 1) /\ count[c] = ChunkSize
          BY <4>1
        <4>3. start[c] = ChunkSize * q /\ count[c] = ChunkSize
          BY <4>1, <4>2
        <4> QED BY <4>3 DEF c
      <3>5. r \in RowsOf(q + 1)
        BY <3>1, <3>4, Sizes DEF RowsOf
      <3> QED BY <3>3, <3>5 DEF TableRows
    <2> QED BY <1>0, <2>1, <2>2
  <1> QED BY <1>1, <1>2

\* From the write of an append's rows to the count of its last one.
Placing == {"counting", "extending", "filling"}

\* Steps that are not about the place of a row.
LEMMA QuietSteps ==
  ASSUME TypeOK, [Next]_vars
  PROVE  \/ /\ UNCHANGED <<list, rows>>
            /\ \A u \in Thread :
                   pc[u] \in Placing \/ pc'[u] \in Placing =>
                       /\ pc'[u] = pc[u] /\ left'[u] = left[u]
                       /\ current_count'[u] = current_count[u]
         \/ \E t \in Thread : WriteRows(t) \/ CountRows(t) \/ AddChunk(t) \/ FillChunk(t)
  <1> DEFINE Quiet == /\ UNCHANGED <<list, rows>>
                      /\ \A u \in Thread :
                             pc[u] \in Placing \/ pc'[u] \in Placing =>
                                 /\ pc'[u] = pc[u] /\ left'[u] = left[u]
                                 /\ current_count'[u] = current_count[u]
  <1>0. StatementTypeOK
    BY DEF TypeOK
  <1> USE <1>0 DEF StatementTypeOK, Placing, Goto, Begin, End, parts
  <1>1. ASSUME NEW t \in Thread,
               BeginAppend(t) \/ BeginScan(t) \/
               (\E k \in {"update", "delete"}, c \in Chunk : BeginChange(t, k, c))
        PROVE  Quiet
    BY <1>1 DEF BeginAppend, BeginScan, BeginChange
  <1>2. ASSUME NEW t \in Thread, KeyConflict(t) \/ VersionConflict(t) PROVE Quiet
    BY <1>2 DEF KeyConflict, VersionConflict
  <1>3. ASSUME NEW t \in Thread, Release(t) \/ EndScan(t) PROVE Quiet
    BY <1>3 DEF Release, EndScan
  <1>4. ASSUME NEW t \in Thread, Lock(t) \/ Share(t) \/ Drain(t) \/ CheckTail(t) PROVE Quiet
    BY <1>4 DEF Lock, Share, Drain, CheckTail
  <1>5. ASSUME NEW t \in Thread,
               LockIndex(t) \/ NoEqualKey(t) \/ (\E c \in Chunk : EqualKey(t, c)) \/
               ShareKeyChunk(t)
        PROVE  Quiet
    BY <1>5 DEF LockIndex, NoEqualKey, EqualKey, ShareKeyChunk
  <1>6. ASSUME NEW t \in Thread, NoKeyConflict(t) \/ WriteVersions(t) PROVE Quiet
    BY <1>6 DEF NoKeyConflict, WriteVersions
  <1>7. ASSUME NEW t \in Thread, ScanVector(t) PROVE Quiet
    BY <1>7 DEF ScanVector
  <1>8. ASSUME UNCHANGED vars PROVE Quiet
    BY <1>8 DEF vars
  <1>9. Quiet \/ \E t \in Thread : WriteRows(t) \/ CountRows(t) \/ AddChunk(t) \/ FillChunk(t)
    <2> HIDE DEF Quiet
    <2> QED BY Steps, <1>1, <1>2, <1>3, <1>4, <1>5, <1>6, <1>7, <1>8
  <1> QED BY <1>9

\* One append at a time places rows, and it is in the last chunk.
LEMMA OnePlaces ==
  ASSUME TypeOK, StatementInv, HeldInv, Clean, NEW t \in Thread,
         pc[t] \in Placing \/ (pc[t] = "writing" /\ kind[t] = "append")
  PROVE  /\ pc[t] # "filling" => chunk[t] = chunks
         /\ pc[t] = "filling" => chunk[t] = chunks - 1
         /\ \A u \in Thread \ {t} : pc[u] \notin Placing
  <1>1. exclusive_lock[chunks] = t
    BY DEF HeldInv, Inside, AtTail, Placing
  <1>2. \A u \in Thread : pc[u] \in Placing => exclusive_lock[chunks] = u
    BY DEF HeldInv, Inside, AtTail, Placing
  <1> QED BY <1>1, <1>2 DEF HeldInv, Placing, AtTail

\* The rows that follow those that have a place.
LEMMA PlaceNext ==
  ASSUME appended \in Nat, placed = 0..appended - 1, NEW n \in Nat,
         Place(appended..appended + n - 1)
  PROVE  appended' = appended + n /\ placed' = 0..appended' - 1
  <1>1. Cardinality(appended..appended + n - 1) = n
    BY FS_Interval
  <1> QED BY <1>1 DEF Place

LEMMA RowsInit == Init => RowsInv
  <1> SUFFICES ASSUME Init PROVE RowsInv
    OBVIOUS
  <1>0. /\ chunks = InitialChunks /\ chunks \in Chunk /\ chunks \in Nat /\ chunks > 0
        /\ ListTypeOK
    BY InitialChunksType, TypeInit, ChunkTypes DEF Init, TypeOK
  <1>1. \A c \in 1..chunks : c \in Chunk /\ start[c] = ChunkSize * (c - 1)
    BY <1>0, ChunkTypes DEF Init
  <1>2. \A c \in 1..chunks - 1 : c \in Chunk /\ c < InitialChunks
    BY <1>0, <1>1
  <1>3. \A c \in 1..chunks - 1 : count[c] = ChunkSize
    BY <1>2 DEF Init
  <1>4. \A c \in Chunk : c > chunks => ~(c < InitialChunks) /\ c > InitialChunks
    BY <1>0 DEF Chunk
  <1>5. \A c \in Chunk : c > chunks => count[c] = 0
    BY <1>4 DEF Init
  <1>6. count[chunks] = InitialRows - ChunkSize * (chunks - 1)
    <2>1. ~(chunks < InitialChunks) /\ ~(chunks > InitialChunks)
      BY <1>0
    <2> QED BY <1>0, <2>1 DEF Init
  <1>7. start[chunks] = ChunkSize * (chunks - 1)
    BY <1>0, <1>1
  <1>8. /\ ChunkSize * (chunks - 1) \in Int
        /\ ChunkSize * chunks = ChunkSize * (chunks - 1) + ChunkSize
    <2>1. chunks - 1 \in Int /\ chunks - 1 + 1 = chunks
      BY <1>0
    <2> QED BY <2>1, Multiples
  <1>9. count[chunks] <= ChunkSize /\ TableEnd = InitialRows
    BY <1>0, <1>6, <1>7, <1>8, InitialChunksType, Sizes DEF TableEnd
  <1> QED BY <1>1, <1>3, <1>5, <1>9 DEF RowsInv, Init

LEMMA RowsStep ==
  ASSUME TypeOK, StatementInv, HeldInv, RowsInv, [Next]_vars
  PROVE  RowsInv'
  <1> SUFFICES ASSUME Clean' PROVE RowsInv'
    BY DEF RowsInv
  <1>0. /\ Clean /\ appended \in Nat /\ ListTypeOK /\ StatementTypeOK
        /\ chunks \in Nat /\ chunks > 0 /\ chunks \in Chunk
        /\ start[chunks] \in Nat /\ count[chunks] \in Nat
    BY SpoiledGrows, ChunkTypes DEF Clean, TypeOK, HistoryTypeOK, ListTypeOK
  <1>1. /\ placed = 0..appended - 1
        /\ \A c \in 1..chunks : start[c] = ChunkSize * (c - 1)
        /\ \A c \in 1..chunks - 1 : count[c] = ChunkSize
        /\ \A c \in Chunk : c > chunks => count[c] = 0
        /\ count[chunks] <= ChunkSize
    BY <1>0 DEF RowsInv
  <1>2. CASE /\ UNCHANGED <<list, rows>>
             /\ \A u \in Thread :
                    pc[u] \in Placing \/ pc'[u] \in Placing =>
                        /\ pc'[u] = pc[u] /\ left'[u] = left[u]
                        /\ current_count'[u] = current_count[u]
    <2>1. UNCHANGED <<chunks, start, count, placed, appended, TableEnd>>
      BY <1>2 DEF list, rows, TableEnd
    <2>2. \A t \in Thread :
            /\ pc'[t] \in Placing =>
                   /\ pc[t] = pc'[t] /\ left'[t] = left[t]
                   /\ current_count'[t] = current_count[t]
            /\ pc'[t] \notin {"counting", "filling"} => pc[t] \notin {"counting", "filling"}
      BY <1>2 DEF Placing
    <2> QED BY <1>0, <2>1, <2>2 DEF RowsInv, Placing
  <1>3. ASSUME NEW t \in Thread, WriteRows(t) PROVE RowsInv'
    <2>1. chunk[t] = chunks /\ \A u \in Thread \ {t} : pc[u] \notin Placing
      BY <1>0, <1>3, OnePlaces DEF WriteRows
    <2>2. /\ Fitting(t) \in Nat /\ Fitting(t) <= ChunkSize - count[chunks]
          /\ Fitting(t) \in {left[t], ChunkSize - count[chunks]}
      <3>1. chunk[t] # 0 /\ count[chunk[t]] = count[chunks] /\ count[chunk[t]] <= ChunkSize
        BY <1>0, <1>1, <2>1
      <3>2. /\ Fitting(t) \in 0..VectorSize /\ Fitting(t) <= ChunkSize - count[chunk[t]]
            /\ Fitting(t) = left[t] \/ Fitting(t) = ChunkSize - count[chunk[t]]
        BY <1>0, <3>1, FittingType
      <3> QED BY <3>1, <3>2, Sizes
    <2>3. appended = TableEnd
      BY <1>0, <1>3, <2>1 DEF RowsInv, WriteRows, Placing
    <2>4. Place(appended..appended + Fitting(t) - 1)
      BY <1>3, <2>1, <2>3 DEF WriteRows, FreeRows, TableEnd
    <2>5. appended' = appended + Fitting(t) /\ placed' = 0..appended' - 1
      BY <1>0, <1>1, <2>2, <2>4, PlaceNext
    <2>6. /\ pc'[t] = "counting" /\ current_count'[t] = Fitting(t) /\ left'[t] = left[t]
          /\ \A u \in Thread \ {t} : pc'[u] \notin Placing
          /\ UNCHANGED list /\ TableEnd' = TableEnd
      BY <1>0, <1>3, <2>1
         DEF WriteRows, Goto, StatementTypeOK, list, TableEnd
    <2> QED BY <1>1, <2>2, <2>3, <2>5, <2>6 DEF RowsInv, list, Placing
  <1>4. ASSUME NEW t \in Thread, CountRows(t) PROVE RowsInv'
    <2>1. chunk[t] = chunks /\ \A u \in Thread \ {t} : pc[u] \notin Placing
      BY <1>0, <1>4, OnePlaces DEF CountRows, Placing
    <2>2. /\ appended = TableEnd + current_count[t]
          /\ current_count[t] <= ChunkSize - count[chunks]
          /\ current_count[t] \in {left[t], ChunkSize - count[chunks]}
          /\ current_count[t] \in Nat
      BY <1>0, <1>4 DEF RowsInv, CountRows, StatementTypeOK
    <2>3. /\ count' = [count EXCEPT ![chunks] = count[chunks] + current_count[t]]
          /\ UNCHANGED <<chunks, start, placed, appended>>
      BY <1>4, <2>1 DEF CountRows, rows
    <2>4. /\ count'[chunks] = count[chunks] + current_count[t]
          /\ \A c \in Chunk : c # chunks => count'[c] = count[c]
      BY <1>0, <2>3 DEF ListTypeOK
    <2>5. TableEnd' = appended'
      BY <1>0, <2>2, <2>3, <2>4 DEF TableEnd
    <2>6. /\ pc'[t] = IF left[t] = current_count[t] THEN "releasing" ELSE "extending"
          /\ \A u \in Thread \ {t} : pc'[u] \notin Placing
      BY <1>0, <1>4, <2>1 DEF CountRows, Goto, StatementTypeOK
    <2>7. pc'[t] = "extending" => count'[chunks'] = ChunkSize
      BY <1>0, <2>2, <2>3, <2>4, <2>6, Sizes
    <2>8. pc'[t] \notin {"counting", "filling"}
      BY <2>6
    <2>9. \A c \in 1..chunks - 1 : c \in Chunk /\ c # chunks
      BY <1>0, ChunkTypes
    <2>10. \A c \in Chunk : c > chunks => c # chunks
      BY <1>0
    <2>11. count'[chunks'] <= ChunkSize
      BY <1>0, <2>2, <2>3, <2>4, Sizes
    <2> QED
      BY <1>1, <2>3, <2>4, <2>5, <2>6, <2>7, <2>8, <2>9, <2>10, <2>11 DEF RowsInv, Placing
  <1>5. ASSUME NEW t \in Thread, AddChunk(t) PROVE RowsInv'
    <2>1. chunk[t] = chunks /\ \A u \in Thread \ {t} : pc[u] \notin Placing
      BY <1>0, <1>5, OnePlaces DEF AddChunk, Placing
    <2>2. count[chunks] = ChunkSize /\ left[t] \in Nat
      BY <1>0, <1>5 DEF RowsInv, AddChunk, StatementTypeOK
    <2>3. appended = TableEnd
      BY <1>0, <1>5, <2>1 DEF RowsInv, AddChunk, Placing
    <2>4. Place(appended..appended + left[t] - 1)
      BY <1>5, <2>1, <2>3 DEF AddChunk, TableEnd
    <2>5. appended' = appended + left[t] /\ placed' = 0..appended' - 1
      BY <1>0, <1>1, <2>2, <2>4, PlaceNext
    <2>6. /\ chunks' = chunks + 1 /\ chunks + 1 \in Chunk /\ UNCHANGED count
          /\ start' = [start EXCEPT ![chunks + 1] = TableEnd]
      BY <1>0, <1>5, <2>1, NewChunkType DEF AddChunk, TableEnd
    <2>7. /\ start'[chunks + 1] = TableEnd /\ count'[chunks + 1] = 0
          /\ \A c \in 1..chunks : start'[c] = start[c]
      BY <1>0, <1>1, <2>6, ChunkTypes DEF ListTypeOK
    <2>8. TableEnd' = TableEnd
      BY <1>0, <2>6, <2>7 DEF TableEnd
    <2>9. TableEnd = ChunkSize * chunks
      <3>1. start[chunks] = ChunkSize * (chunks - 1) /\ chunks - 1 \in Int
        BY <1>0, <1>1
      <3>2. ChunkSize * (chunks - 1 + 1) = ChunkSize * (chunks - 1) + ChunkSize
        BY <3>1, Multiples
      <3>3. chunks - 1 + 1 = chunks
        BY <1>0
      <3> QED BY <2>2, <3>1, <3>2, <3>3 DEF TableEnd
    <2>10. ASSUME NEW c \in 1..chunks' PROVE start'[c] = ChunkSize * (c - 1)
      <3>1. CASE c \in 1..chunks
        BY <1>1, <2>7, <3>1
      <3>2. CASE c = chunks + 1
        <4>1. c - 1 = chunks
          BY <1>0, <3>2
        <4> QED BY <2>7, <2>9, <3>2, <4>1
      <3> QED BY <1>0, <2>6, <3>1, <3>2
    <2>11. ASSUME NEW c \in 1..chunks' - 1 PROVE count'[c] = ChunkSize
      <3>1. c \in 1..chunks - 1 \/ c = chunks
        BY <1>0, <2>6
      <3> QED BY <1>1, <2>2, <2>6, <3>1
    <2>12. ASSUME NEW c \in Chunk, c > chunks' PROVE count'[c] = 0
      BY <1>0, <1>1, <2>6, <2>12, Sizes DEF Chunk
    <2>13. /\ pc'[t] = "filling" /\ left'[t] = left[t]
           /\ \A u \in Thread \ {t} : pc'[u] \notin Placing
      BY <1>0, <1>5, <2>1 DEF AddChunk, Goto, StatementTypeOK, parts
    <2>14. count'[chunks'] = 0 /\ appended' = TableEnd' + left'[t] /\ count'[chunks'] <= ChunkSize
      BY <2>3, <2>5, <2>6, <2>7, <2>8, <2>13, Sizes
    <2> QED BY <2>5, <2>10, <2>11, <2>12, <2>13, <2>14 DEF RowsInv, Placing
  <1>6. ASSUME NEW t \in Thread, FillChunk(t) PROVE RowsInv'
    <2>1. chunk[t] = chunks - 1 /\ \A u \in Thread \ {t} : pc[u] \notin Placing
      BY <1>0, <1>6, OnePlaces DEF FillChunk, Placing
    <2>2. /\ count[chunks] = 0 /\ appended = TableEnd + left[t]
          /\ left[t] \in Nat /\ left[t] <= VectorSize
      BY <1>0, <1>6, Sizes DEF RowsInv, FillChunk, StatementTypeOK
    <2>3. chunk[t] + 1 = chunks
      BY <1>0, <2>1
    <2>4. /\ count' = [count EXCEPT ![chunks] = left[t]]
          /\ UNCHANGED <<chunks, start, placed, appended>>
      BY <1>6, <2>3 DEF FillChunk, rows
    <2>5. /\ count'[chunks] = left[t]
          /\ \A c \in Chunk : c # chunks => count'[c] = count[c]
      BY <1>0, <2>4 DEF ListTypeOK
    <2>6. TableEnd' = appended'
      BY <1>0, <2>2, <2>4, <2>5 DEF TableEnd
    <2>7. pc'[t] = "releasing" /\ \A u \in Thread \ {t} : pc'[u] \notin Placing
      BY <1>0, <1>6, <2>1 DEF FillChunk, Goto, StatementTypeOK
    <2>8. count'[chunks'] <= ChunkSize
      BY <2>2, <2>4, <2>5, VectorFits, Sizes
    <2>9. \A c \in 1..chunks - 1 : c \in Chunk /\ c # chunks
      BY <1>0, ChunkTypes
    <2>10. \A c \in Chunk : c > chunks => c # chunks
      BY <1>0
    <2> QED BY <1>1, <2>4, <2>5, <2>6, <2>7, <2>8, <2>9, <2>10 DEF RowsInv, Placing
  <1> QED
    <2>1. TypeOK
      OBVIOUS
    <2> QED BY <2>1, <1>2, <1>3, <1>4, <1>5, <1>6, QuietSteps

LEMMA RowsFollow == TypeOK /\ RowsInv => RowsOnce
  <1> SUFFICES ASSUME TypeOK, RowsInv, Clean
               PROVE  /\ Cardinality(placed) = appended
                      /\ (\A t \in Thread : pc[t] \notin Placing) =>
                             /\ TableRows = 0..appended - 1
                             /\ \A c \in 1..chunks - 1 : count[c] = ChunkSize
    BY DEF RowsOnce, Clean, Placing
  <1>1. appended \in Nat /\ placed = 0..appended - 1
    BY DEF TypeOK, HistoryTypeOK, RowsInv
  <1>2. Cardinality(placed) = appended
    BY <1>1, FS_Interval
  <1>3. ASSUME \A t \in Thread : pc[t] \notin Placing PROVE TableRows = 0..appended - 1
    <2>1. appended = TableEnd
      BY <1>3 DEF RowsInv, Placing
    <2> QED BY <2>1, Geometry DEF TypeOK, RowsInv
  <1> QED BY <1>2, <1>3 DEF RowsInv

\* Concurrent appends give every row a place of its own, and leave the chunks
\* full and numbered without a gap.
THEOREM EveryRowHasAPlace == Spec => []RowsOnce
  <1> DEFINE Inv == TypeOK /\ StatementInv /\ HeldInv /\ RowsInv
  <1>1. Init => Inv
    BY TypeInit, LocksInit, RowsInit
  <1>2. Inv /\ [Next]_vars => Inv'
    BY TypeStep, HeldStep, RowsStep
  <1>3. Inv => RowsOnce
    BY RowsFollow
  <1> QED BY <1>1, <1>2, <1>3, PTL DEF Spec

-----------------------------------------------------------------------------
(* Scans. *)

Scans == {"scanning", "reading", "scanned"}

\* How a step changes the scan of a statement, or what it left behind.
LEMMA ScanSteps ==
  ASSUME TypeOK, [Next]_vars, NEW t \in Thread
  PROVE  \/ /\ pc[t] \notin Scans /\ pc'[t] \notin Scans
            /\ \/ offset'[t] = offset[t] /\ seen'[t] = seen[t]
               \/ offset'[t] = 0 /\ seen'[t] = << >>
         \/ /\ pc[t] \in {"scanning", "reading"} /\ pc'[t] \in {"scanning", "reading"}
            /\ offset'[t] = offset[t] /\ seen'[t] = seen[t]
            /\ chunk'[t] = chunk[t] /\ expected'[t] = expected[t]
         \/ /\ pc[t] = "scanned" /\ pc'[t] = "scanned"
            /\ seen'[t] = seen[t] /\ expected'[t] = expected[t]
         \/ /\ pc[t] = "scanned" /\ pc'[t] = "idle"
            /\ offset'[t] = 0 /\ seen'[t] = << >>
         \/ BeginScan(t) \/ ScanVector(t)
  <1> DEFINE Rests == /\ pc'[t] = pc[t] /\ chunk'[t] = chunk[t] /\ offset'[t] = offset[t]
                      /\ seen'[t] = seen[t] /\ expected'[t] = expected[t]
             Elsewhere == /\ pc[t] \notin Scans /\ pc'[t] \notin Scans
                          /\ \/ offset'[t] = offset[t] /\ seen'[t] = seen[t]
                             \/ offset'[t] = 0 /\ seen'[t] = << >>
             Shares == /\ pc[t] = "scanning" /\ pc'[t] = "reading"
                       /\ offset'[t] = offset[t] /\ seen'[t] = seen[t]
                       /\ chunk'[t] = chunk[t] /\ expected'[t] = expected[t]
             Ends == /\ pc[t] = "scanned" /\ pc'[t] = "idle"
                     /\ offset'[t] = 0 /\ seen'[t] = << >>
  <1>0. StatementTypeOK /\ HistoryTypeOK
    BY DEF TypeOK
  <1> USE <1>0 DEF StatementTypeOK, HistoryTypeOK, Scans, Goto, Begin, End, scans
  <1>1. ASSUME NEW u \in Thread,
               BeginAppend(u) \/
               (\E k \in {"update", "delete"}, c \in Chunk : BeginChange(u, k, c))
        PROVE  Rests \/ Elsewhere
    BY <1>1 DEF BeginAppend, BeginChange
  <1>2. ASSUME NEW u \in Thread, BeginScan(u) PROVE Rests \/ BeginScan(t)
    BY <1>2 DEF BeginScan
  <1>3. ASSUME NEW u \in Thread, KeyConflict(u) \/ VersionConflict(u) \/ Release(u)
        PROVE  Rests \/ Elsewhere
    <2>1. pc[u] \notin Scans /\ End(u)
      BY <1>3 DEF KeyConflict, VersionConflict, Release
    <2> QED BY <2>1
  <1>4. ASSUME NEW u \in Thread, EndScan(u) PROVE Rests \/ Ends
    BY <1>4 DEF EndScan
  <1>5. ASSUME NEW u \in Thread, Lock(u) \/ Drain(u) \/ LockIndex(u) \/ NoEqualKey(u)
        PROVE  Rests \/ Elsewhere
    BY <1>5 DEF Lock, Drain, LockIndex, NoEqualKey
  <1>6. ASSUME NEW u \in Thread, CheckTail(u) PROVE Rests \/ Elsewhere
    BY <1>6 DEF CheckTail
  <1>7. ASSUME NEW u \in Thread,
               (\E c \in Chunk : EqualKey(u, c)) \/ ShareKeyChunk(u) \/ NoKeyConflict(u) \/
               WriteVersions(u)
        PROVE  Rests \/ Elsewhere
    BY <1>7 DEF EqualKey, ShareKeyChunk, NoKeyConflict, WriteVersions
  <1>8. ASSUME NEW u \in Thread, WriteRows(u) \/ CountRows(u) \/ AddChunk(u) \/ FillChunk(u)
        PROVE  Rests \/ Elsewhere
    BY <1>8 DEF WriteRows, CountRows, AddChunk, FillChunk
  <1>9. ASSUME NEW u \in Thread, Share(u) PROVE Rests \/ Shares
    BY <1>9 DEF Share
  <1>10. ASSUME NEW u \in Thread, ScanVector(u) PROVE Rests \/ ScanVector(t)
    BY <1>10 DEF ScanVector, Advance
  <1>11. ASSUME UNCHANGED vars PROVE Rests
    BY <1>11 DEF vars
  <1>12. Rests \/ Elsewhere \/ Shares \/ Ends \/ BeginScan(t) \/ ScanVector(t)
    <2> HIDE DEF Rests, Elsewhere, Shares, Ends
    <2> QED
      BY Steps, <1>1, <1>2, <1>3, <1>4, <1>5, <1>6, <1>7, <1>8, <1>9, <1>10, <1>11
  <1> HIDE DEF StatementTypeOK, HistoryTypeOK
  <1> QED BY <1>12

\* A table only grows: chunks keep their place and lose no rows.
LEMMA TableGrows ==
  ASSUME TypeOK, StatementInv, HeldInv, RowsInv, [Next]_vars, Clean'
  PROVE  /\ \A c \in 1..chunks : start'[c] = start[c] /\ count[c] <= count'[c]
         /\ TableEnd \in Nat /\ TableEnd' \in Nat /\ TableEnd <= TableEnd'
         /\ chunks <= chunks'
  <1>0. /\ Clean /\ ListTypeOK /\ StatementTypeOK
        /\ chunks \in Nat /\ chunks > 0 /\ chunks \in Chunk
        /\ start[chunks] \in Nat /\ count[chunks] \in Nat
        /\ \A c \in 1..chunks : c \in Chunk /\ start[c] \in Nat /\ count[c] \in Nat
    BY SpoiledGrows, ChunkTypes DEF Clean, TypeOK, ListTypeOK
  <1>1. CASE UNCHANGED list
    BY <1>0, <1>1 DEF list, TableEnd
  <1>2. ASSUME NEW t \in Thread, CountRows(t)
        PROVE  /\ \A c \in 1..chunks : start'[c] = start[c] /\ count[c] <= count'[c]
               /\ TableEnd \in Nat /\ TableEnd' \in Nat /\ TableEnd <= TableEnd'
               /\ chunks <= chunks'
    <2>1. chunk[t] = chunks /\ current_count[t] \in Nat
      BY <1>0, <1>2, OnePlaces DEF CountRows, Placing, StatementTypeOK
    <2>2. /\ count' = [count EXCEPT ![chunks] = count[chunks] + current_count[t]]
          /\ UNCHANGED <<chunks, start>>
      BY <1>2, <2>1 DEF CountRows
    <2>3. \A c \in 1..chunks : count'[c] = IF c = chunks THEN count[c] + current_count[t]
                                           ELSE count[c]
      BY <1>0, <2>2 DEF ListTypeOK
    <2>4. chunks \in 1..chunks
      BY <1>0
    <2> QED BY <1>0, <2>1, <2>2, <2>3, <2>4 DEF TableEnd
  <1>3. ASSUME NEW t \in Thread, AddChunk(t)
        PROVE  /\ \A c \in 1..chunks : start'[c] = start[c] /\ count[c] <= count'[c]
               /\ TableEnd \in Nat /\ TableEnd' \in Nat /\ TableEnd <= TableEnd'
               /\ chunks <= chunks'
    <2>1. chunk[t] = chunks
      BY <1>3 DEF AddChunk
    <2>2. /\ chunks' = chunks + 1 /\ chunks + 1 \in Chunk /\ UNCHANGED count
          /\ start' = [start EXCEPT ![chunks + 1] = TableEnd]
      BY <1>0, <1>3, <2>1, NewChunkType DEF AddChunk, TableEnd
    <2>3. count[chunks + 1] = 0
      BY <1>0, <2>2 DEF RowsInv
    <2>4. start'[chunks + 1] = TableEnd /\ \A c \in 1..chunks : start'[c] = start[c]
      BY <1>0, <2>2 DEF ListTypeOK
    <2> QED BY <1>0, <2>2, <2>3, <2>4 DEF TableEnd
  <1>4. ASSUME NEW t \in Thread, FillChunk(t)
        PROVE  /\ \A c \in 1..chunks : start'[c] = start[c] /\ count[c] <= count'[c]
               /\ TableEnd \in Nat /\ TableEnd' \in Nat /\ TableEnd <= TableEnd'
               /\ chunks <= chunks'
    <2>1. /\ chunk[t] + 1 = chunks /\ count[chunks] = 0 /\ left[t] \in Nat
      BY <1>0, <1>4, Sizes DEF HeldInv, RowsInv, FillChunk, StatementTypeOK
    <2>2. /\ count' = [count EXCEPT ![chunks] = left[t]]
          /\ UNCHANGED <<chunks, start>>
      BY <1>4, <2>1 DEF FillChunk
    <2>3. \A c \in 1..chunks : count'[c] = IF c = chunks THEN left[t] ELSE count[c]
      BY <1>0, <2>2 DEF ListTypeOK
    <2>4. chunks \in 1..chunks
      BY <1>0
    <2> QED BY <1>0, <2>1, <2>2, <2>3, <2>4 DEF TableEnd
  <1> QED BY <1>1, <1>2, <1>3, <1>4, ListSteps

LEMMA ScanInit == Init => ScanInv
  BY DEF Init, ScanInv

LEMMA ScanStep ==
  ASSUME TypeOK, StatementInv, HeldInv, RowsInv, ScanInv, [Next]_vars
  PROVE  ScanInv'
  <1> DEFINE Read(t) == \A i \in 1..Len(seen[t]) : seen[t][i] = i - 1
             Reading(t) == /\ offset[t] <= count[chunk[t]]
                           /\ Len(seen[t]) = start[chunk[t]] + offset[t]
                           /\ expected[t] \subseteq 0..TableEnd - 1
             Good(t) == /\ Read(t)
                        /\ pc[t] \in {"scanning", "reading"} => Reading(t)
                        /\ pc[t] = "scanned" => expected[t] \subseteq 0..Len(seen[t]) - 1
                        /\ pc[t] \notin Scans => offset[t] = 0 /\ seen[t] = << >>
  <1> SUFFICES ASSUME Clean', NEW t \in Thread PROVE Good(t)'
    BY DEF ScanInv, Scans
  <1>0. /\ Clean /\ ListTypeOK /\ StatementTypeOK /\ HistoryTypeOK
        /\ chunks \in Nat /\ chunks > 0
        /\ \A c \in 1..chunks : c \in Chunk /\ start[c] \in Nat /\ count[c] \in Nat
        /\ ListTypeOK'
    BY SpoiledGrows, ChunkTypes, ListTypeStep DEF Clean, TypeOK
  <1>1. Good(t)
    BY <1>0 DEF ScanInv, Scans
  <1>2. /\ \A c \in 1..chunks : start'[c] = start[c] /\ count[c] <= count'[c]
        /\ TableEnd \in Nat /\ TableEnd' \in Nat /\ TableEnd <= TableEnd'
        /\ chunks <= chunks' /\ chunks' \in Nat
        /\ \A c \in 1..chunks : count'[c] \in Nat
    BY <1>0, TableGrows, ListTypeStep DEF ListTypeOK, Chunk
  <1>3. pc[t] \in {"scanning", "reading"} =>
            /\ chunk[t] \in 1..chunks /\ offset[t] \in Nat
            /\ start[chunk[t]] \in Nat /\ count[chunk[t]] \in Nat
    <2>1. chunk[t] \in 0..chunks /\ offset[t] \in Nat
      BY <1>0 DEF StatementTypeOK
    <2>2. pc[t] \in {"scanning", "reading"} => chunk[t] # 0
      BY DEF StatementInv
    <2> QED BY <1>0, <2>1, <2>2
  <1>4. ASSUME pc[t] \notin Scans, pc'[t] \notin Scans,
               \/ offset'[t] = offset[t] /\ seen'[t] = seen[t]
               \/ offset'[t] = 0 /\ seen'[t] = << >>
        PROVE  Good(t)'
    BY <1>1, <1>4 DEF Scans
  <1>5. ASSUME pc[t] \in {"scanning", "reading"}, pc'[t] \in {"scanning", "reading"},
               offset'[t] = offset[t], seen'[t] = seen[t],
               chunk'[t] = chunk[t], expected'[t] = expected[t]
        PROVE  Good(t)'
    <2>1. Reading(t) /\ Read(t)
      BY <1>1, <1>5
    <2>2. offset'[t] <= count'[chunk'[t]] /\ start'[chunk'[t]] = start[chunk[t]]
      BY <1>2, <1>3, <1>5, <2>1
    <2>3. expected'[t] \subseteq 0..TableEnd' - 1
      BY <1>2, <1>5, <2>1
    <2> QED BY <1>5, <2>1, <2>2, <2>3 DEF Scans
  <1>6. ASSUME pc[t] = "scanned", pc'[t] = "scanned", seen'[t] = seen[t],
               expected'[t] = expected[t]
        PROVE  Good(t)'
    BY <1>1, <1>6 DEF Scans
  <1>7. ASSUME pc'[t] = "idle", offset'[t] = 0, seen'[t] = << >> PROVE Good(t)'
    BY <1>7 DEF Scans
  <1>8. ASSUME BeginScan(t) PROVE Good(t)'
    <2>1. /\ pc'[t] = "scanning" /\ chunk'[t] = 1 /\ expected'[t] = TableRows
          /\ UNCHANGED <<list, offset, seen>> /\ pc[t] \notin Scans
      BY <1>0, <1>8 DEF BeginScan, Begin, Goto, StatementTypeOK, HistoryTypeOK, Scans
    <2>2. TableRows = 0..TableEnd - 1
      BY <1>0, Geometry DEF RowsInv
    <2>3. start'[1] = 0 /\ count'[1] \in Nat /\ offset'[t] = 0 /\ seen'[t] = << >>
      <3>1. start[1] = ChunkSize * (1 - 1) /\ 1 \in 1..chunks
        BY <1>0 DEF RowsInv
      <3>2. ChunkSize * (1 - 1) = 0
        BY Sizes
      <3> QED BY <1>0, <1>1, <2>1, <3>1, <3>2 DEF list
    <2>4. TableEnd' = TableEnd
      BY <2>1 DEF list, TableEnd
    <2> QED BY <2>1, <2>2, <2>3, <2>4 DEF Scans
  <1>9. ASSUME ScanVector(t) PROVE Good(t)'
    <2> DEFINE c == chunk[t]
               o == offset[t]
               end == o + VectorSize
               size == IF o <= count[c] /\ count[c] - o < VectorSize
                       THEN count[c] - o ELSE VectorSize
    <2>1. /\ pc[t] = "reading" /\ Reading(t) /\ Read(t) /\ UNCHANGED <<list, TableEnd>>
          /\ c \in 1..chunks /\ o \in Nat /\ start[c] \in Nat /\ count[c] \in Nat
      BY <1>1, <1>3, <1>9 DEF ScanVector, list, TableEnd
    <2>2. /\ seen'[t] = seen[t] \o VectorRows(t)
          /\ expected'[t] = expected[t]
          /\ pc'[t] = IF chunk'[t] = 0 THEN "scanned" ELSE "scanning"
      BY <1>0, <1>9 DEF ScanVector, Goto, StatementTypeOK, HistoryTypeOK
    <2>3. /\ VectorRows(t) \in Seq(Nat) /\ Len(VectorRows(t)) = size /\ size \in Nat
          /\ \A i \in 1..size : VectorRows(t)[i] = start[c] + o + i - 1
      <3>1. chunk[t] # 0
        BY <2>1
      <3> QED BY <1>0, <2>1, <3>1, VectorRowsType, Sizes
    <2>4. seen[t] \in Seq(Nat)
      BY <1>0 DEF HistoryTypeOK
    <2> HIDE DEF size
    <2>5. /\ Len(seen'[t]) = Len(seen[t]) + size
          /\ \A i \in 1..Len(seen'[t]) :
                 seen'[t][i] = IF i <= Len(seen[t]) THEN seen[t][i]
                               ELSE VectorRows(t)[i - Len(seen[t])]
      <3>1. /\ Len(seen[t] \o VectorRows(t)) = Len(seen[t]) + Len(VectorRows(t))
            /\ \A i \in 1..Len(seen[t]) + Len(VectorRows(t)) :
                   (seen[t] \o VectorRows(t))[i] = IF i <= Len(seen[t]) THEN seen[t][i]
                                                  ELSE VectorRows(t)[i - Len(seen[t])]
        BY <2>3, <2>4, ConcatProperties
      <3> QED BY <2>2, <2>3, <3>1
    <2>6. Read(t)'
      <3> SUFFICES ASSUME NEW i \in 1..Len(seen'[t]) PROVE seen'[t][i] = i - 1
        OBVIOUS
      <3>1. Len(seen[t]) \in Nat /\ Len(seen[t]) = start[c] + o
        BY <2>1, <2>4
      <3>2. CASE i <= Len(seen[t])
        BY <2>1, <2>3, <2>5, <3>1, <3>2
      <3>3. CASE i > Len(seen[t])
        <4>1. i - Len(seen[t]) \in 1..size
          BY <2>3, <2>5, <3>1, <3>3
        <4>2. VectorRows(t)[i - Len(seen[t])] = start[c] + o + (i - Len(seen[t])) - 1
          BY <2>3, <4>1
        <4>3. ~(i <= Len(seen[t])) /\ i \in Int
          BY <2>3, <2>5, <3>1, <3>3
        <4> QED BY <2>1, <2>5, <3>1, <4>2, <4>3
      <3> QED BY <2>3, <2>5, <3>1, <3>2, <3>3
    <2>7. CASE end >= count[c]
      <3>1. size = count[c] - o
        <4>1. o <= count[c]
          BY <2>1
        <4>2. CASE count[c] - o < VectorSize
          BY <4>1, <4>2 DEF size
        <4>3. CASE ~(count[c] - o < VectorSize)
          <5>1. size = VectorSize
            BY <4>3 DEF size
          <5>2. count[c] - o >= VectorSize /\ o + VectorSize >= count[c]
            BY <2>1, <2>7, <4>3, Sizes
          <5> QED BY <2>1, <5>1, <5>2, Sizes
        <4> QED BY <4>2, <4>3
      <3>2. Len(seen'[t]) = start[c] + count[c]
        <4>1. Len(seen[t]) = start[c] + o /\ Len(seen'[t]) = Len(seen[t]) + size
          BY <2>1, <2>5
        <4>2. o \in Nat /\ start[c] \in Nat /\ count[c] \in Nat
          BY <2>1
        <4> HIDE DEF c, o
        <4> QED BY <3>1, <4>1, <4>2
      <3>3. /\ chunk'[t] = NextChunk(c) /\ offset'[t] = 0
        BY <1>0, <1>9, <2>7 DEF ScanVector, Advance, StatementTypeOK
      <3>4. CASE c < chunks
        <4>1. chunk'[t] = c + 1 /\ c + 1 \in 1..chunks /\ c \in 1..chunks - 1
          BY <1>0, <2>1, <3>3, <3>4 DEF NextChunk
        <4>2. /\ count[c] = ChunkSize /\ start[c] = ChunkSize * (c - 1)
              /\ start[c + 1] = ChunkSize * (c + 1 - 1)
          <5>1. \A d \in 1..chunks : start[d] = ChunkSize * (d - 1)
            BY <1>0 DEF RowsInv
          <5>2. start[c] = ChunkSize * (c - 1) /\ start[c + 1] = ChunkSize * (c + 1 - 1)
            BY <2>1, <4>1, <5>1
          <5>3. count[c] = ChunkSize
            BY <1>0, <4>1 DEF RowsInv
          <5> QED BY <5>2, <5>3
        <4>3. start[c + 1] = start[c] + ChunkSize
          <5>1. c - 1 \in Int /\ c + 1 - 1 = c - 1 + 1
            BY <2>1
          <5> QED BY <4>2, <5>1, Multiples
        <4>4. count[c + 1] \in Nat /\ start[c + 1] \in Nat
          BY <1>0, <4>1
        <4>5. /\ offset'[t] <= count'[chunk'[t]]
              /\ Len(seen'[t]) = start'[chunk'[t]] + offset'[t]
          BY <2>1, <3>2, <3>3, <4>1, <4>2, <4>3, <4>4 DEF list
        <4>6. pc'[t] = "scanning"
          BY <2>1, <2>2, <4>1
        <4> QED BY <2>1, <2>2, <2>6, <4>5, <4>6 DEF Scans
      <3>5. CASE c = chunks
        <4>1. chunk'[t] = 0
          BY <1>0, <3>3, <3>5 DEF NextChunk
        <4>2. Len(seen'[t]) = TableEnd
          BY <3>2, <3>5 DEF TableEnd
        <4> QED BY <2>1, <2>2, <2>6, <4>1, <4>2 DEF Scans
      <3>6. c < chunks \/ c = chunks
        BY <1>0, <2>1
      <3> QED BY <3>4, <3>5, <3>6
    <2>8. CASE ~(end >= count[c])
      <3>1. size = VectorSize
        BY <2>1, <2>8, Sizes DEF size
      <3>2. chunk'[t] = c /\ offset'[t] = end
        BY <1>0, <1>9, <2>8 DEF ScanVector, Advance, StatementTypeOK
      <3>3. /\ offset'[t] <= count'[chunk'[t]]
            /\ Len(seen'[t]) = start'[chunk'[t]] + offset'[t]
        BY <2>1, <2>5, <2>8, <3>1, <3>2, Sizes DEF list
      <3>4. pc'[t] = "scanning"
        BY <2>1, <2>2, <3>2
      <3> QED BY <2>1, <2>2, <2>6, <3>3, <3>4 DEF Scans
    <2> QED BY <2>7, <2>8
  <1> QED
    <2> HIDE DEF Good
    <2> QED BY <1>4, <1>5, <1>6, <1>7, <1>8, <1>9, ScanSteps

LEMMA ScansFollow == TypeOK /\ ScanInv => ScanComplete
  <1> SUFFICES ASSUME TypeOK, ScanInv, Clean, NEW t \in Thread
               PROVE  /\ \A i \in 1..Len(seen[t]) : seen[t][i] = i - 1
                      /\ pc[t] = "scanned" =>
                             expected[t] \subseteq {seen[t][i] : i \in 1..Len(seen[t])}
    BY DEF ScanComplete, Clean
  <1>1. Len(seen[t]) \in Nat /\ expected[t] \in SUBSET Nat
    BY DEF TypeOK, HistoryTypeOK
  <1>2. \A i \in 1..Len(seen[t]) : seen[t][i] = i - 1
    BY DEF ScanInv
  <1>3. ASSUME pc[t] = "scanned", NEW r \in expected[t]
        PROVE  r \in {seen[t][i] : i \in 1..Len(seen[t])}
    <2>1. r \in 0..Len(seen[t]) - 1
      BY <1>3 DEF ScanInv
    <2> DEFINE i == r + 1
    <2>3. i \in 1..Len(seen[t]) /\ i - 1 = r
      BY <1>1, <2>1
    <2> HIDE DEF i
    <2>4. seen[t][i] = r
      BY <1>2, <2>3
    <2> QED BY <2>3, <2>4
  <1> QED BY <1>2, <1>3

\* A scan that shares one chunk after the other reads every row once and in
\* order, and misses none that was in the table when it began, however many
\* appends run beside it.
THEOREM ScansAreComplete == Spec => []ScanComplete
  <1> DEFINE Inv == TypeOK /\ StatementInv /\ HeldInv /\ RowsInv /\ ScanInv
  <1>1. Init => Inv
    BY TypeInit, LocksInit, RowsInit, ScanInit
  <1>2. Inv /\ [Next]_vars => Inv'
    BY TypeStep, HeldStep, RowsStep, ScanStep
  <1>3. Inv => ScanComplete
    BY ScansFollow
  <1> QED BY <1>1, <1>2, <1>3, PTL DEF Spec
=============================================================================
