------------------------ MODULE SnapshotIsolationProofs ------------------------
(***************************************************************************)
(* DataTable implements SnapshotIsolation, while nothing is deleted and a  *)
(* failed statement ends its transaction: the proof of what the run        *)
(* dt_refinement checks.  The invariant of DataTableProofs says what a     *)
(* committed store and a snapshot are; what is added here is that under    *)
(* these conditions no row is exempt from it.                              *)
(***************************************************************************)
EXTENDS DataTableProofs

\* The conditions: the statements of clients and what follows a failed one.
OnlyAdds == AutoCommit /\ "delete" \notin Kinds

-----------------------------------------------------------------------------
(* The additional invariant. *)

\* What a statement found is a row of the snapshot or one that it wrote itself.
FoundInv ==
    \A t \in Tx :
        /\ phase[t] \in {"idle", "ready"} => ids[t] = {}
        /\ phase[t] \in Running => \A r \in ids[t] :
               writes[t][r] # Unwritten \/ Committed(start_time[t], r) # Dead

\* An UPDATE is half done only while it runs, or when it has failed.
HalfInv ==
    \A r \in Row : \A v \in Versions(r) :
        phase[v[1]] \in Running \ {"failed"} =>
            \/ writes[v[1]][r] # Unwritten
            \/ phase[v[1]] = "writing" /\ r \in ids[v[1]] \ todo[v[1]]

\* So an UPDATE never pushes a row again that it has not overwritten.
OnceInv ==
    \A r \in Row : \A v, w \in Versions(r) :
        v[1] = w[1] /\ phase[v[1]] \in Running /\ writes[v[1]][r] = Unwritten => v = w

\* Nothing is deleted, so no committed delete is written over.
NoDeleteInv ==
    /\ clobbered = {}
    /\ \A t \in Tx, r \in Row : writes[t][r] # Dead

UpdatesInv == FoundInv /\ HalfInv /\ OnceInv /\ NoDeleteInv

LEMMA UpdatesInit == Init => UpdatesInv
<1> SUFFICES ASSUME Init PROVE UpdatesInv
  OBVIOUS
<1>1. FoundInv
  BY DEF Init, FoundInv, Running
<1>2. \A r \in Row : Versions(r) = {}
  BY DEF Init, Versions, ToSet
<1>3. HalfInv /\ OnceInv
  BY <1>2 DEF HalfInv, OnceInv
<1>4. NoDeleteInv
  BY DataAssumption DEF Init, NoDeleteInv
<1> QED BY <1>1, <1>3, <1>4 DEF UpdatesInv

\* Without deletes, what has been committed of a row stays.
LEMMA RowsStay ==
    ASSUME ClockTypeOK, NoDeleteInv, NEW s \in Nat, NEW e \in Nat, s <= e, NEW r \in Row,
           Committed(s, r) # Dead
    PROVE  Committed(e, r) # Dead
<1>1. CASE Writers(e, r) # {}
  <2>1. PICK u \in Writers(e, r) : u = Latest(Writers(e, r))
    BY <1>1, LatestIsOne
  <2>2. writes[u][r] # Dead
    BY DEF Writers, NoDeleteInv
  <2> QED BY <1>1, <2>1, <2>2, CommittedIs
<1>2. CASE Writers(e, r) = {}
  <2>1. Writers(s, r) \subseteq Writers(e, r)
    BY DEF Writers, ClockTypeOK
  <2>2. Writers(s, r) = {}
    BY <1>2, <2>1
  <2> QED BY <1>2, <2>2, CommittedIs
<1> QED BY <1>1, <1>2

\* What was committed when a running transaction started is what it still is.
LEMMA SnapshotStays ==
    ASSUME TypeOK, ClockInv, [Next]_vars, NEW t \in Tx, phase[t] \in Running,
           NEW s \in Nat, s = start_time[t], NEW r \in Row
    PROVE  start_time'[t] = s /\ Committed(s, r)' = Committed(s, r)
<1> USE DEF TypeOK
<1>1. s <= current_start_timestamp
  BY DEF ClockInv, ClockTypeOK, Running
<1>2. CASE ClockSame
  BY <1>2, ClockSameCommitted DEF ClockSame, transactions
<1>3. ASSUME NEW x \in Tx, CommitTransaction(x)
      PROVE  start_time'[t] = s /\ Committed(s, r)' = Committed(s, r)
  BY <1>1, <1>3, CommittedMore DEF CommitTransaction
<1>4. ASSUME NEW x \in Tx,
             \/ StartTransaction(x) \/ RollbackTransaction(x) \/ BeginRemove(x)
             \/ CleanupDone(x) \/ EndRemove(x)
      PROVE  start_time'[t] = s /\ Committed(s, r)' = Committed(s, r)
  <2>1. start_time'[t] = s
    BY <1>4 DEF StartTransaction, RollbackTransaction, BeginRemove, CleanupDone, EndRemove,
                ClockTypeOK, Running
  <2>2. UNCHANGED <<commit_id, writes>>
    BY <1>4 DEF StartTransaction, RollbackTransaction, BeginRemove, CleanupDone, EndRemove,
                history
  <2> QED BY <2>1, <2>2, CommittedSame
<1>5. CASE UNCHANGED vars
  BY <1>5, <1>2 DEF vars, transactions, ClockSame, ClockTypeOK
<1> QED BY <1>2, <1>3, <1>4, <1>5, ClockSameSteps DEF Next

\* What a transaction has written, it has written, unless it rolls back.
LEMMA WritesStay ==
    ASSUME TypeOK, ClockInv, [Next]_vars, NEW x \in Tx, NEW r \in Row,
           writes[x][r] # Unwritten
    PROVE  writes'[x][r] # Unwritten
<1> USE DEF TypeOK
<1>1. ASSUME NEW t \in Tx, NEW q \in Row, PushRow(t, q) PROVE writes'[x][r] # Unwritten
  BY <1>1, DataAssumption DEF PushRow, HistoryTypeOK
<1>2. ASSUME NEW t \in Tx, FinishStatement(t) PROVE writes'[x][r] # Unwritten
  <2>1. t # Unwritten
    BY DataAssumption DEF Data
  <2> QED BY <1>2, <2>1 DEF FinishStatement, HistoryTypeOK
<1>3. ASSUME NEW t \in Tx, Insert(t) PROVE writes'[x][r] # Unwritten
  <2>1. t # Unwritten
    BY DataAssumption DEF Data
  <2> QED BY <1>3, <2>1 DEF Insert, HistoryTypeOK
<1>4. ASSUME NEW t \in Tx,
             \/ \E kind \in Kinds : BeginScan(t, kind)
             \/ ScanRow(t) \/ EndScan(t) \/ LockChunk(t) \/ ThrowConflict(t)
             \/ StampEntry(t) \/ UndoEntry(t) \/ CleanupEntry(t) \/ ClockStepOf(t)
      PROVE  UNCHANGED writes
  <2>1. CASE \/ \E kind \in Kinds : BeginScan(t, kind)
             \/ ScanRow(t) \/ EndScan(t) \/ LockChunk(t) \/ ThrowConflict(t)
    <3>1. Quiet
      BY <2>1, QuietSteps
    <3> QED BY <3>1 DEF Quiet
  <2>2. CASE StampEntry(t) \/ UndoEntry(t) \/ CleanupEntry(t)
    BY <2>2 DEF StampEntry, UndoEntry, CleanupEntry, history
  <2> QED BY <1>4, <2>1, <2>2, ClockStepSame
<1>5. CASE UNCHANGED vars
  BY <1>5 DEF vars, history
<1> QED BY <1>1, <1>2, <1>3, <1>4, <1>5 DEF Next, ClockStepOf

\* How a step changes what the statement of x found.
LEMMA FoundChanges ==
    ASSUME TypeOK, [Next]_vars, NEW x \in Tx
    PROVE  \/ ids'[x] = {}
           \/ /\ ids'[x] = ids[x]
              /\ phase'[x] \in {"idle", "ready"} => phase[x] \in {"idle", "ready"}
              /\ phase'[x] \in Running => phase[x] \in Running \cup {"idle"}
           \/ ScanRow(x) /\ ids'[x] = ids[x] \cup {cursor[x]} /\ UNCHANGED phase
<1> DEFINE Goal == \/ ids'[x] = {}
                   \/ /\ ids'[x] = ids[x]
                      /\ phase'[x] \in {"idle", "ready"} => phase[x] \in {"idle", "ready"}
                      /\ phase'[x] \in Running => phase[x] \in Running \cup {"idle"}
                   \/ ScanRow(x) /\ ids'[x] = ids[x] \cup {cursor[x]} /\ UNCHANGED phase
<1> USE DEF TypeOK, ClockTypeOK, StatementTypeOK, Running, Goto
<1>1. ASSUME NEW t \in Tx, ScanRow(t) PROVE Goal
  BY <1>1 DEF ScanRow
<1>2. ASSUME NEW t \in Tx,
             (\E kind \in Kinds : BeginScan(t, kind)) \/ EndScan(t) \/ LockChunk(t)
      PROVE  Goal
  BY <1>2 DEF BeginScan, EndScan, LockChunk, EndStatement
<1>3. ASSUME NEW t \in Tx, ThrowConflict(t) \/ FinishStatement(t) PROVE Goal
  <2>1. ids' = [ids EXCEPT ![t] = {}] /\ \A y \in Tx \ {t} : phase'[y] = phase[y]
    BY <1>3 DEF ThrowConflict, FinishStatement, EndStatement
  <2> QED BY <2>1
<1>4. ASSUME NEW t \in Tx, (\E r \in Row : PushRow(t, r)) \/ Insert(t) PROVE Goal
  BY <1>4 DEF PushRow, Insert
<1>5. ASSUME NEW t \in Tx, StartTransaction(t) \/ CommitTransaction(t) \/ RollbackTransaction(t)
      PROVE  Goal
  BY <1>5 DEF StartTransaction, CommitTransaction, RollbackTransaction, statements
<1>6. ASSUME NEW t \in Tx, BeginRemove(t) \/ CleanupDone(t) \/ EndRemove(t) PROVE Goal
  BY <1>6 DEF BeginRemove, CleanupDone, EndRemove, statements
<1>7. ASSUME NEW t \in Tx, StampEntry(t) \/ UndoEntry(t) \/ CleanupEntry(t) PROVE Goal
  BY <1>7 DEF StampEntry, UndoEntry, CleanupEntry, statements
<1>8. ASSUME UNCHANGED vars PROVE Goal
  BY <1>8 DEF vars, statements
<1> HIDE DEF Goal
<1>9. Goal
  BY <1>1, <1>2, <1>3, <1>4, <1>5, <1>6, <1>7, <1>8 DEF Next
<1> QED BY <1>9 DEF Goal

LEMMA FoundStep == IInv /\ UpdatesInv /\ [Next]_vars => FoundInv'
<1> SUFFICES ASSUME IInv, UpdatesInv, [Next]_vars, NEW x \in Tx
             PROVE  /\ phase'[x] \in {"idle", "ready"} => ids'[x] = {}
                    /\ phase'[x] \in Running => \A r \in ids'[x] :
                           writes'[x][r] # Unwritten \/ Committed(start_time[x], r)' # Dead
  BY DEF FoundInv
<1> USE DEF IInv, TypeOK
<1>1. CASE ids'[x] = {}
  BY <1>1
<1>2. PICK s \in Nat : s = start_time[x]
  BY DEF ClockTypeOK
<1>3. ids[x] \subseteq Row
  BY DEF StatementTypeOK
<1>4. ASSUME NEW r \in Row, phase[x] \in Running,
             writes[x][r] # Unwritten \/ Committed(s, r) # Dead
      PROVE  writes'[x][r] # Unwritten \/ Committed(start_time[x], r)' # Dead
  <2>1. start_time'[x] = s /\ Committed(s, r)' = Committed(s, r)
    BY <1>2, <1>4, SnapshotStays
  <2>2. Committed(start_time[x], r)' = Committed(s, r)'
    BY <2>1
  <2> QED BY <1>4, <2>1, <2>2, WritesStay
<1>5. CASE /\ ids'[x] = ids[x]
           /\ phase'[x] \in {"idle", "ready"} => phase[x] \in {"idle", "ready"}
           /\ phase'[x] \in Running => phase[x] \in Running \cup {"idle"}
  <2>1. phase[x] \in {"idle", "ready"} => ids[x] = {}
    BY DEF UpdatesInv, FoundInv
  <2>2. phase[x] \in Running => \A r \in ids[x] : writes[x][r] # Unwritten \/ Committed(s, r) # Dead
    BY <1>2 DEF UpdatesInv, FoundInv
  <2> QED BY <1>3, <1>4, <1>5, <2>1, <2>2
<1>6. CASE ScanRow(x) /\ ids'[x] = ids[x] \cup {cursor[x]} /\ UNCHANGED phase
  <2>1. CASE ids' = ids
    <3>1. phase[x] = "scanning" /\ phase' = phase
      BY <1>6 DEF ScanRow
    <3> QED BY <1>5, <2>1, <3>1 DEF Running
  <2>2. CASE ids' # ids
    <3>1. phase[x] = "scanning" /\ phase' = phase /\ Read(x, cursor[x]) # Dead
      BY <1>6, <2>2 DEF ScanRow
    <3>2. PICK c \in Row : c = cursor[x]
      BY <1>6, RowsAssumption DEF ScanRow, StatementTypeOK, TableTypeOK, Row
    <3>3. c \notin clobbered /\ phase[x] \in Running /\ x \in Active
      BY <3>1 DEF UpdatesInv, NoDeleteInv, Active, Running
    <3>4. c \notin HalfUpdated(x)
      <4> SUFFICES ASSUME c \in HalfUpdated(x) PROVE FALSE
        OBVIOUS
      <4>1. writes[x][c] = Unwritten /\ chain[c] # << >> /\ Head(chain[c])[1] = x
        BY DEF HalfUpdated
      <4>2. Head(chain[c]) \in Versions(c)
        <5>1. chain[c] \in Seq(Version) /\ Len(chain[c]) \in Nat
          BY VersionsAre, LenProperties
        <5>2. 1 \in 1..Len(chain[c]) /\ Head(chain[c]) = chain[c][1]
          BY <4>1, <5>1, EmptySeq
        <5> QED BY <5>2, VersionsAre
      <4>3. PICK v \in Versions(c) : v[1] = x
        BY <4>1, <4>2
      <4> QED BY <3>1, <3>3, <4>1, <4>3 DEF UpdatesInv, HalfInv
    <3>5. Read(x, c) = IF writes[x][c] # Unwritten THEN writes[x][c] ELSE Committed(s, c)
      BY <1>2, <3>1, <3>3, <3>4, Snapshots DEF ReadsSnapshot
    <3>6. writes[x][c] # Unwritten \/ Committed(s, c) # Dead
      BY <3>1, <3>2, <3>5
    <3>7. \A r \in ids[x] : writes[x][r] # Unwritten \/ Committed(s, r) # Dead
      BY <1>2, <3>3 DEF UpdatesInv, FoundInv
    <3> QED BY <1>3, <1>4, <1>6, <3>1, <3>2, <3>3, <3>6, <3>7
  <2> QED BY <2>1, <2>2
<1> QED BY <1>1, <1>5, <1>6, FoundChanges

\* Versions are new in a chain only when a statement pushes them.
LEMMA VersionsChange ==
    ASSUME IInv, [Next]_vars, NEW r \in Row, NEW v, v \in Versions(r)', v \notin Versions(r)
    PROVE  \E t \in Tx : /\ v = <<t, Len(undo[t]) + 1>>
                         /\ PushRow(t, r) \/ (Insert(t) /\ r = count + 1)
<1> USE DEF IInv, TypeOK
<1>1. chain' # chain
  BY VersionsSame
<1>2. ASSUME NEW t \in Tx, NEW q \in Row, NEW saved, Pushes(t, q, saved)
      PROVE  q = r /\ v = <<t, Len(undo[t]) + 1>>
  BY <1>2, PushedVersions
<1>3. ASSUME NEW t \in Tx, NEW e \in UndoEntries, NEW k, Undoes(t, e, k) PROVE FALSE
  BY <1>3, UndoneVersions
<1>4. ASSUME NEW u \in Tx, NEW i \in Nat, NEW k, Cleans(u, i, k) PROVE FALSE
  BY <1>4, CleanedVersions
<1>5. CASE Quiet \/ \E t \in Tx : ClockStepOf(t) \/ StampEntry(t) \/ FinishStatement(t)
  BY <1>1, <1>5, ClockStepSame DEF Quiet, StampEntry, FinishStatement, table
<1> QED BY <1>2, <1>3, <1>4, <1>5, StepKinds

\* The steps that no history shows.
LEMMA SameHistory ==
    ASSUME \/ Quiet
           \/ \E t \in Tx : ClockStepOf(t) \/ StampEntry(t) \/ UndoEntry(t)
           \/ \E u \in Tx, i \in Nat, k \in Nat : Cleans(u, i, k)
    PROVE  UNCHANGED <<writes, clobbered>>
<1>1. CASE Quiet
  BY <1>1 DEF Quiet
<1>2. ASSUME NEW t \in Tx, ClockStepOf(t) PROVE UNCHANGED <<writes, clobbered>>
  BY <1>2, ClockStepSame
<1>3. ASSUME NEW t \in Tx, StampEntry(t) PROVE UNCHANGED <<writes, clobbered>>
  BY <1>3 DEF StampEntry, history
<1>4. ASSUME NEW t \in Tx, UndoEntry(t) PROVE UNCHANGED <<writes, clobbered>>
  BY <1>4 DEF UndoEntry, history
<1>5. ASSUME NEW u \in Tx, NEW i \in Nat, NEW k \in Nat, Cleans(u, i, k)
      PROVE  UNCHANGED <<writes, clobbered>>
  BY <1>5 DEF Cleans
<1> QED BY <1>1, <1>2, <1>3, <1>4, <1>5

\* A transaction that has not started has no versions.
LEMMA NoVersionsYet ==
    ASSUME IInv, NEW r \in Row, NEW v \in Versions(r)
    PROVE  v[1] \in Tx /\ phase[v[1]] # "idle"
<1> USE DEF IInv, TypeOK
<1>1. v[1] \in Tx /\ v[2] \in 1..Len(undo[v[1]])
  BY VersionTypes
<1> QED BY <1>1 DEF StampInv

LEMMA OnlyUpdates ==
    ASSUME OnlyAdds, StatementTypeOK, NEW t \in Tx
    PROVE  statement[t] # "delete"
BY DEF OnlyAdds, StatementTypeOK

\* How a step changes the UPDATE that x has in hand.
LEMMA UpdateChanges ==
    ASSUME OnlyAdds, TypeOK, [Next]_vars, NEW x \in Tx, phase[x] # "idle"
    PROVE  \/ phase'[x] \notin Running \ {"failed"}
           \/ phase[x] \in Running \ {"failed", "writing"}
           \/ /\ phase[x] = "writing" /\ phase'[x] = "writing"
              /\ ids'[x] = ids[x] /\ todo'[x] \subseteq todo[x]
           \/ phase[x] = "writing" /\ \A r \in ids[x] : writes'[x][r] # Unwritten
<1> DEFINE Goal == \/ phase'[x] \notin Running \ {"failed"}
                   \/ phase[x] \in Running \ {"failed", "writing"}
                   \/ /\ phase[x] = "writing" /\ phase'[x] = "writing"
                      /\ ids'[x] = ids[x] /\ todo'[x] \subseteq todo[x]
                   \/ phase[x] = "writing" /\ \A r \in ids[x] : writes'[x][r] # Unwritten
<1> USE DEF TypeOK, ClockTypeOK, StatementTypeOK, Running, Goto
<1>1. ASSUME NEW t \in Tx, ScanRow(t) PROVE Goal
  BY <1>1 DEF ScanRow
<1>2. ASSUME NEW t \in Tx,
             (\E kind \in Kinds : BeginScan(t, kind)) \/ EndScan(t) \/ LockChunk(t)
      PROVE  Goal
  BY <1>2 DEF BeginScan, EndScan, LockChunk, EndStatement
<1>3. ASSUME NEW t \in Tx, ThrowConflict(t) PROVE Goal
  BY <1>3 DEF ThrowConflict, EndStatement, OnlyAdds
<1>4. ASSUME NEW t \in Tx, FinishStatement(t) PROVE Goal
  <2>1. CASE x = t
    <3>1. statement[t] = "update"
      BY <1>4, OnlyUpdates DEF FinishStatement
    <3>2. writes'[t] = [r \in Row |-> IF r \in ids[t] THEN t ELSE writes[t][r]]
      BY <1>4, <3>1 DEF FinishStatement, HistoryTypeOK
    <3>3. t # Unwritten /\ ids[t] \subseteq Row
      BY DataAssumption DEF Data
    <3>4. \A r \in ids[t] : writes'[t][r] # Unwritten
      BY <3>2, <3>3
    <3> QED BY <1>4, <2>1, <3>4 DEF FinishStatement
  <2>2. CASE x # t
    BY <1>4, <2>2 DEF FinishStatement, EndStatement
  <2> QED BY <2>1, <2>2
<1>5. ASSUME NEW t \in Tx, NEW q \in Row, PushRow(t, q) PROVE Goal
  <2>1. UNCHANGED <<phase, ids>> /\ todo' = [todo EXCEPT ![t] = @ \ {q}]
    BY <1>5 DEF PushRow
  <2>2. todo'[x] \subseteq todo[x]
    BY <2>1
  <2> QED BY <2>1, <2>2
<1>6. ASSUME NEW t \in Tx, Insert(t) PROVE Goal
  BY <1>6 DEF Insert
<1>7. ASSUME NEW t \in Tx, StartTransaction(t) \/ CommitTransaction(t) \/ RollbackTransaction(t)
      PROVE  Goal
  BY <1>7 DEF StartTransaction, CommitTransaction, RollbackTransaction, statements
<1>8. ASSUME NEW t \in Tx, BeginRemove(t) \/ CleanupDone(t) \/ EndRemove(t) PROVE Goal
  BY <1>8 DEF BeginRemove, CleanupDone, EndRemove, statements
<1>9. ASSUME NEW t \in Tx, StampEntry(t) \/ UndoEntry(t) \/ CleanupEntry(t) PROVE Goal
  BY <1>9 DEF StampEntry, UndoEntry, CleanupEntry, statements
<1>10. ASSUME UNCHANGED vars PROVE Goal
  BY <1>10 DEF vars, statements
<1> HIDE DEF Goal
<1>11. Goal
  BY <1>1, <1>2, <1>3, <1>4, <1>5, <1>6, <1>7, <1>8, <1>9, <1>10 DEF Next
<1> QED BY <1>11 DEF Goal

LEMMA HalfStep ==
    ASSUME OnlyAdds
    PROVE  IInv /\ UpdatesInv /\ [Next]_vars => HalfInv'
<1> SUFFICES ASSUME IInv, UpdatesInv, [Next]_vars, NEW r \in Row, NEW v, v \in Versions(r)',
                    phase'[v[1]] \in Running \ {"failed"}
             PROVE  \/ writes'[v[1]][r] # Unwritten
                    \/ phase'[v[1]] = "writing" /\ r \in ids'[v[1]] \ todo'[v[1]]
  BY DEF HalfInv
<1> USE DEF IInv, TypeOK
<1>1. CASE v \notin Versions(r)
  <2>1. PICK t \in Tx : /\ v = <<t, Len(undo[t]) + 1>>
                        /\ PushRow(t, r) \/ (Insert(t) /\ r = count + 1)
    BY <1>1, VersionsChange
  <2>2. v[1] = t
    BY <2>1
  <2>3. CASE PushRow(t, r)
    <3>1. phase'[t] = "writing" /\ r \in todo[t] /\ ids' = ids /\ todo'[t] = todo[t] \ {r}
      BY <2>3 DEF PushRow, StatementTypeOK
    <3>2. r \in ids[t]
      BY <3>1 DEF StatementInv, StatementOK
    <3> QED BY <2>2, <3>1, <3>2
  <2>4. CASE Insert(t) /\ r = count + 1
    <3>1. writes'[t][r] = t /\ t # Unwritten
      BY <2>4, DataAssumption DEF Insert, HistoryTypeOK, Data
    <3> QED BY <2>2, <3>1
  <2> QED BY <2>1, <2>3, <2>4
<1>2. CASE v \in Versions(r)
  <2>1. PICK x \in Tx : x = v[1] /\ phase[x] # "idle"
    BY <1>2, NoVersionsYet
  <2>2. phase[x] \in Running \ {"failed"} =>
            writes[x][r] # Unwritten \/ (phase[x] = "writing" /\ r \in ids[x] \ todo[x])
    BY <1>2, <2>1 DEF UpdatesInv, HalfInv
  <2>3. writes[x][r] # Unwritten => writes'[x][r] # Unwritten
    BY WritesStay
  <2>4. \/ phase[x] \in Running \ {"failed", "writing"}
        \/ /\ phase[x] = "writing" /\ phase'[x] = "writing"
           /\ ids'[x] = ids[x] /\ todo'[x] \subseteq todo[x]
        \/ phase[x] = "writing" /\ \A q \in ids[x] : writes'[x][q] # Unwritten
    BY <2>1, UpdateChanges
  <2>5. writes'[x][r] # Unwritten \/ (phase'[x] = "writing" /\ r \in ids'[x] \ todo'[x])
    BY <2>2, <2>3, <2>4 DEF Running
  <2> QED BY <2>1, <2>5
<1> QED BY <1>1, <1>2

\* Transactions start once.
LEMMA RanBefore ==
    ASSUME ClockTypeOK, [Next]_vars, NEW x \in Tx, phase'[x] \in Running, phase[x] # "idle"
    PROVE  phase[x] \in Running
<1>1. CASE ClockSame
  BY <1>1 DEF ClockSame
<1>2. ASSUME NEW t \in Tx, ClockStepOf(t) PROVE phase[x] \in Running
  BY <1>2 DEF ClockStepOf, StartTransaction, CommitTransaction, RollbackTransaction, BeginRemove,
              CleanupDone, EndRemove, Goto, ClockTypeOK, Running
<1>3. CASE UNCHANGED vars
  BY <1>3 DEF vars
<1> QED BY <1>1, <1>2, <1>3, ClockSameSteps DEF Next, ClockStepOf

LEMMA OnceStep == IInv /\ UpdatesInv /\ [Next]_vars => OnceInv'
<1> SUFFICES ASSUME IInv, UpdatesInv, [Next]_vars, NEW r \in Row, NEW x,
                    NEW v, v \in Versions(r)', NEW w, w \in Versions(r)', v[1] = x, w[1] = x,
                    phase'[x] \in Running, writes'[x][r] = Unwritten
             PROVE  v = w
  BY DEF OnceInv
<1> USE DEF IInv, TypeOK
<1>1. ASSUME NEW y, y \in Versions(r)', y \notin Versions(r), y[1] = x
      PROVE  /\ x \in Tx /\ y = <<x, Len(undo[x]) + 1>>
             /\ \A z \in Versions(r) : z[1] # x
  <2>1. PICK t \in Tx : /\ y = <<t, Len(undo[t]) + 1>>
                        /\ PushRow(t, r) \/ (Insert(t) /\ r = count + 1)
    BY <1>1, VersionsChange
  <2>2. x = t
    BY <1>1, <2>1
  <2>3. ~Insert(t) \/ r # count + 1
    <3>1. t # Unwritten
      BY DataAssumption DEF Data
    <3> QED BY <2>2, <3>1 DEF Insert, HistoryTypeOK
  <2>4. phase[t] = "writing" /\ r \in todo[t]
    BY <2>1, <2>3 DEF PushRow
  <2>5. writes[t][r] = Unwritten
    BY <2>2, WritesStay
  <2>6. \A z \in Versions(r) : z[1] # x
    BY <2>2, <2>4, <2>5 DEF UpdatesInv, HalfInv, Running
  <2> QED BY <2>1, <2>2, <2>6
<1>2. CASE v \in Versions(r) /\ w \in Versions(r)
  <2>1. x \in Tx /\ phase[x] # "idle"
    BY <1>2, NoVersionsYet
  <2>2. phase[x] \in Running /\ writes[x][r] = Unwritten
    BY <2>1, RanBefore, WritesStay
  <2> QED BY <1>2, <2>2 DEF UpdatesInv, OnceInv
<1> QED BY <1>1, <1>2

LEMMA NoDeleteStep ==
    ASSUME OnlyAdds
    PROVE  IInv /\ UpdatesInv /\ [Next]_vars => NoDeleteInv'
<1> SUFFICES ASSUME IInv, UpdatesInv, [Next]_vars PROVE NoDeleteInv'
  OBVIOUS
<1> USE DEF IInv, TypeOK
<1>1. clobbered = {} /\ \A u \in Tx, r \in Row : writes[u][r] # Dead
  BY DEF UpdatesInv, NoDeleteInv
<1>2. \A u \in Tx : u # Dead
  BY DataAssumption DEF Data
<1>3. ASSUME NEW t \in Tx, NEW r \in Row, PushRow(t, r) PROVE NoDeleteInv'
  <2>1. phase[t] = "writing" /\ r \in todo[t] /\ UNCHANGED writes
    BY <1>3, OnlyUpdates DEF PushRow
  <2>2. PICK s \in Nat, e \in Nat : s = start_time[t] /\ e = current_start_timestamp
    BY DEF ClockTypeOK
  <2>3. s <= e
    BY <2>1, <2>2 DEF ClockInv
  <2>4. r \in ids[t]
    BY <2>1 DEF StatementInv, StatementOK
  <2>5. writes[t][r] # Unwritten \/ Committed(s, r) # Dead
    BY <2>1, <2>2, <2>4 DEF UpdatesInv, FoundInv, Running
  <2>6. writes[t][r] # Unwritten \/ Committed(e, r) # Dead
    BY <2>3, <2>5, RowsStay DEF UpdatesInv
  <2>7. UNCHANGED clobbered
    BY <1>3, <2>2, <2>6 DEF PushRow
  <2> QED BY <1>1, <2>1, <2>7 DEF NoDeleteInv
<1>4. ASSUME NEW t \in Tx, FinishStatement(t) PROVE NoDeleteInv'
  BY <1>1, <1>2, <1>4 DEF FinishStatement, HistoryTypeOK, NoDeleteInv
<1>5. ASSUME NEW t \in Tx, Insert(t) PROVE NoDeleteInv'
  BY <1>1, <1>2, <1>5 DEF Insert, HistoryTypeOK, NoDeleteInv
<1>6. ASSUME UNCHANGED <<writes, clobbered>> PROVE NoDeleteInv'
  <2>1. UNCHANGED clobbered /\ UNCHANGED writes
    BY <1>6
  <2> QED BY <1>1, <2>1 DEF NoDeleteInv
<1> QED BY <1>3, <1>4, <1>5, <1>6, SameHistory, StepKinds

LEMMA UpdatesStep ==
    ASSUME OnlyAdds
    PROVE  IInv /\ UpdatesInv /\ [Next]_vars => UpdatesInv'
BY FoundStep, HalfStep, OnceStep, NoDeleteStep DEF UpdatesInv

-----------------------------------------------------------------------------
(* What the abstract table has: every committed store and every snapshot is *)
(* what the history says.                                                    *)

\* What a running transaction has of row r.
Seen(t, r) == IF writes[t][r] # Unwritten THEN writes[t][r] ELSE Committed(start_time[t], r)

Mapped ==
    /\ \A r \in Row : Store(r) = Committed(current_start_timestamp, r)
    /\ \A t \in Tx, r \in Row : phase[t] \in Running => View(t, r) = Seen(t, r)

LEMMA StoreIsCommitted ==
    ASSUME IInv, UpdatesInv, NEW r \in Row
    PROVE  Store(r) = Committed(current_start_timestamp, r)
<1> USE DEF IInv, TypeOK
<1>1. PICK s \in Nat : s = current_start_timestamp
  BY DEF ClockTypeOK
<1>2. \A u \in Tx : commit_id[u] \in Nat /\ (commit_id[u] = 0 \/ commit_id[u] < s)
  BY <1>1 DEF ClockInv, ClockTypeOK
<1>3. {v \in Versions(r) : commit_id[v[1]] # 0} = Before(r, s)
  <2>1. \A v \in Versions(r) : commit_id[v[1]] # 0 <=> commit_id[v[1]] \in 1..s - 1
    BY <1>2, VersionTypes
  <2> QED BY <2>1 DEF Before
<1>4. r \notin clobbered
  BY DEF UpdatesInv, NoDeleteInv
<1>5. ReadAlong(r, chain[r], Before(r, s)) = Committed(s, r)
  BY <1>1, <1>2, <1>4, SnapshotRead
<1> QED BY <1>1, <1>3, <1>5 DEF Store

\* A reader who starts behind the version in front and one who passes it find
\* the same, unless the version behind it is seen.
LEMMA ReadBehind ==
    ASSUME TableTypeOK, OrderInv, NEW r \in Row, chain[r] # << >>,
           NEW seen, NEW older, older = seen \ {chain[r][1]}
    PROVE  \/ ReadAlong(r, Tail(chain[r]), seen) = ReadAlong(r, chain[r], older)
           \/ /\ ReadAlong(r, Tail(chain[r]), seen) = Present(r)
              /\ ReadAlong(r, chain[r], older) = Content(chain[r][1])
<1>1. PICK vs \in Seq(Version) : vs = chain[r] /\ vs # << >>
  BY VersionsAre
<1>2. PICK ws \in Seq(Version) : /\ ws = Tail(vs) /\ Len(ws) = Len(vs) - 1
                                 /\ \A i \in 1..Len(ws) : ws[i] = vs[i + 1]
  BY <1>1, HeadTailProperties
<1>3. Len(vs) \in Nat /\ Len(vs) >= 1
  BY <1>1, LenProperties, EmptySeq
<1>4. \A i \in 2..Len(vs) : vs[i] # vs[1]
  <2> SUFFICES ASSUME NEW i \in 2..Len(vs) PROVE vs[i] # vs[1]
    OBVIOUS
  <2>1. vs[i] \in Version /\ vs[1] \in Version
    BY <1>3, ElementOfSeq
  <2>2. InFront(r, vs[1], vs[i])
    BY <1>1, <1>3 DEF InFront
  <2> QED BY <2>1, <2>2, NewerIsStrict DEF OrderInv
<1>5. PICK k \in 0..Len(ws) : /\ StopsAt(ws, seen, k)
                              /\ ReadAlong(r, ws, seen) = IF k = 0 THEN Present(r) ELSE Content(ws[k])
  BY Walk
<1>6. PICK n \in 0..Len(vs) : /\ StopsAt(vs, older, n)
                              /\ ReadAlong(r, vs, older) = IF n = 0 THEN Present(r) ELSE Content(vs[n])
  BY Walk
<1>7. StopsAt(vs, older, k + 1)
  <2>1. k + 1 \in 0..Len(vs)
    BY <1>2, <1>3
  <2>2. ASSUME NEW j \in 1..k + 1 PROVE vs[j] \notin older
    <3>1. CASE j = 1
      BY <1>1, <3>1
    <3>2. CASE j # 1
      <4>1. j - 1 \in 1..k /\ j - 1 \in 1..Len(ws) /\ (j - 1) + 1 = j
        BY <1>2, <1>3, <3>2
      <4> QED BY <1>1, <1>2, <1>5, <4>1 DEF StopsAt
    <3> QED BY <3>1, <3>2
  <2>3. k + 1 < Len(vs) => vs[k + 1 + 1] \in older
    BY <1>1, <1>2, <1>3, <1>4, <1>5 DEF StopsAt
  <2> QED BY <2>1, <2>2, <2>3 DEF StopsAt
<1>8. n = k + 1
  BY <1>6, <1>7, StopsOnce
<1>9. CASE k = 0
  BY <1>1, <1>2, <1>5, <1>6, <1>8, <1>9
<1>10. CASE k # 0
  <2>1. ws[k] = vs[n]
    BY <1>2, <1>3, <1>8, <1>10
  <2> QED BY <1>1, <1>2, <1>5, <1>6, <1>8, <1>10, <2>1
<1> QED BY <1>9, <1>10

LEMMA ViewIsSnapshot ==
    ASSUME IInv, UpdatesInv, NEW t \in Tx, phase[t] \in Running, NEW r \in Row
    PROVE  View(t, r) = Seen(t, r)
<1> USE DEF IInv, TypeOK
<1>1. r \notin clobbered
  BY DEF UpdatesInv, NoDeleteInv
<1>2. CASE r \notin HalfUpdated(t)
  <2>1. Read(t, r) = Seen(t, r)
    <3>1. CASE writes[t][r] # Unwritten
      BY <1>1, <3>1, OwnRead DEF Seen
    <3>2. CASE writes[t][r] = Unwritten
      BY <1>1, <1>2, <3>2, ReadIsSnapshot DEF Seen
    <3> QED BY <3>1, <3>2
  <2> QED BY <1>2, <2>1 DEF View, Read
<1>3. CASE r \in HalfUpdated(t)
  <2>1. writes[t][r] = Unwritten /\ chain[r] # << >> /\ Head(chain[r])[1] = t
    BY <1>3 DEF HalfUpdated
  <2>2. PICK h \in Version : h = chain[r][1] /\ h \in Versions(r) /\ h[1] = t
    <3>1. chain[r] \in Seq(Version) /\ Len(chain[r]) \in Nat
      BY VersionsAre, LenProperties
    <3>2. 1 \in 1..Len(chain[r]) /\ Head(chain[r]) = chain[r][1]
      BY <2>1, <3>1, EmptySeq
    <3> QED BY <2>1, <3>2, VersionsAre
  <2>3. PICK s \in Nat : s = start_time[t]
    BY DEF ClockTypeOK
  <2>4. PICK e \in Nat : e = current_start_timestamp
    BY DEF ClockTypeOK
  <2>5. commit_id[t] = 0
    BY DEF ClockInv
  <2>6. \A w \in Versions(r) : w[1] = t => w = h
    BY <2>1, <2>2 DEF UpdatesInv, OnceInv
  <2>7. h[2] \in Nat /\ h[2] >= 1 /\ h[2] <= h[2]
    BY <2>2, VersionTypes, EntryTypes
  <2>8. Content(h) = Committed(e, r)
    <3>1. Oldest(r, h)
      BY <2>2, <2>6, <2>7 DEF Oldest
    <3>2. Needed(r, h, e)
      BY <2>2, <2>4, <2>5, <3>1 DEF Needed, CommitsAt
    <3> QED BY <1>1, <3>2 DEF ContentInv
  <2>9. Present(r) = Committed(e, r)
    BY <1>1, <2>1, <2>2, <2>4 DEF PresentInv, PresentOK
  <2>10. {v \in Versions(r) : Sees(t, v)} = Before(r, s) \cup {h}
    <3>1. Sees(t, h)
      <4>1. stamped[t] = 0
        BY <2>5 DEF StampInv
      <4> QED BY <2>2, <2>7, <4>1 DEF Sees, Uncommitted
    <3>2. \A v \in Versions(r) : v # h => (Sees(t, v) <=> v \in Before(r, s))
      BY <2>3, <2>6, SeesBefore
    <3> QED BY <2>2, <3>1, <3>2 DEF Before
  <2>11. ReadAlong(r, chain[r], Before(r, s)) = Committed(s, r)
    BY <1>1, <2>3, SeesBefore
  <2>12. h \notin Before(r, s)
    BY <2>2, <2>3, SeesBefore
  <2>13. PICK seen : seen = {v \in Versions(r) : Sees(t, v)}
    OBVIOUS
  <2>14. PICK older : older = Before(r, s)
    OBVIOUS
  <2>15. older = seen \ {chain[r][1]}
    BY <2>2, <2>10, <2>12, <2>13, <2>14
  <2>16. View(t, r) = ReadAlong(r, Tail(chain[r]), seen)
    BY <1>3, <2>13 DEF View
  <2>17. \/ View(t, r) = ReadAlong(r, chain[r], older)
         \/ View(t, r) = Present(r) /\ ReadAlong(r, chain[r], older) = Content(chain[r][1])
    BY <2>1, <2>15, <2>16, ReadBehind
  <2>18. View(t, r) = Committed(s, r)
    BY <2>2, <2>8, <2>9, <2>11, <2>14, <2>17
  <2> QED BY <2>1, <2>3, <2>18 DEF Seen
<1> QED BY <1>2, <1>3

LEMMA Mapping == IInv /\ UpdatesInv => Mapped
BY StoreIsCommitted, ViewIsSnapshot DEF Mapped

-----------------------------------------------------------------------------
(* Every step is one of the abstract table, or changes nothing in it. *)

\* Nothing that the abstract table knows of a transaction but t changes.
OthersSame(t) ==
    \A x \in Tx \ {t} :
        /\ Status(x)' = Status(x)
        /\ phase[x] \in Running => \A r \in Row :
               /\ Seen(x, r)' = Seen(x, r)
               /\ writes'[x][r] # Unwritten <=> writes[x][r] # Unwritten

StoreSame ==
    \A r \in Row : Committed(current_start_timestamp, r)' = Committed(current_start_timestamp, r)

LEMMA StatusIs ==
    /\ \A x : Status(x) = "running" <=> phase[x] \in Running
    /\ \A x : Status(x) = "idle" <=> phase[x] = "idle"
    /\ \A x : Status(x) \in {"idle", "running", "ended"}
BY DEF Status, Running

LEMMA StatusNext ==
    /\ \A x : Status(x)' = "running" <=> phase'[x] \in Running
    /\ \A x : Status(x)' = "idle" <=> phase'[x] = "idle"
    /\ \A x : Status(x)' \in {"idle", "running", "ended"}
BY DEF Status, Running

\* The variables of the abstract table, row by row.
ViewOf(x, r) == IF Status(x) = "running" THEN View(x, r) ELSE Dead
DirtyOf(x, r) == Status(x) = "running" /\ writes[x][r] # Unwritten

LEMMA StoreNext ==
    ASSUME Mapped, Mapped', StoreSame, NEW r \in Row
    PROVE  Store(r)' = Store(r)
BY DEF Mapped, StoreSame

LEMMA OthersNext ==
    ASSUME Mapped, Mapped', NEW t, OthersSame(t), NEW x \in Tx \ {t}
    PROVE  /\ Status(x)' = Status(x)
           /\ \A r \in Row : ViewOf(x, r)' = ViewOf(x, r) /\ (DirtyOf(x, r)' <=> DirtyOf(x, r))
<1>1. Status(x)' = Status(x)
  BY DEF OthersSame
<1>2. ASSUME NEW r \in Row, Status(x) = "running"
      PROVE  View(x, r)' = View(x, r) /\ (writes'[x][r] # Unwritten <=> writes[x][r] # Unwritten)
  <2>1. phase[x] \in Running /\ phase'[x] \in Running
    BY <1>1, <1>2, StatusIs, StatusNext
  <2>2. /\ Seen(x, r)' = Seen(x, r)
        /\ writes'[x][r] # Unwritten <=> writes[x][r] # Unwritten
    BY <2>1 DEF OthersSame
  <2>3. View(x, r) = Seen(x, r) /\ View(x, r)' = Seen(x, r)'
    BY <2>1 DEF Mapped
  <2> QED BY <2>2, <2>3
<1> QED BY <1>1, <1>2 DEF ViewOf, DirtyOf

\* What the abstract table has of the transaction that takes the step.
LEMMA OwnNext ==
    ASSUME Mapped, Mapped', NEW t \in Tx
    PROVE  \A r \in Row :
              /\ Status(t) = "running" => ViewOf(t, r) = Seen(t, r)
              /\ Status(t) # "running" => ViewOf(t, r) = Dead /\ ~DirtyOf(t, r)
              /\ Status(t)' = "running" => ViewOf(t, r)' = Seen(t, r)'
              /\ Status(t)' # "running" => ViewOf(t, r)' = Dead /\ ~DirtyOf(t, r)'
BY StatusIs, StatusNext DEF Mapped, ViewOf, DirtyOf

\* The variables of the abstract table.
TheStore  == [r \in Row |-> Store(r)]
TheStatus == [t \in Tx |-> Status(t)]
TheView   == [t \in Tx |-> [r \in Row |-> ViewOf(t, r)]]
TheDirty  == [t \in Tx |-> {r \in Row : DirtyOf(t, r)}]

LEMMA AbstractStutter ==
    UNCHANGED <<TheStore, TheStatus, TheView, TheDirty>> => UNCHANGED SI!vars
BY DEF SI!vars, TheStore, TheStatus, TheView, TheDirty, ViewOf, DirtyOf

LEMMA AbstractBegin ==
    ASSUME NEW t \in Tx,
           TheStatus[t] = "idle",
           TheStatus' = [TheStatus EXCEPT ![t] = "running"],
           TheView' = [TheView EXCEPT ![t] = TheStore],
           UNCHANGED <<TheStore, TheDirty>>
    PROVE  SI!Begin(t)
BY DEF SI!Begin, TheStore, TheStatus, TheView, TheDirty, ViewOf, DirtyOf

LEMMA AbstractWrite ==
    ASSUME NEW t \in Tx, NEW rows, NEW v,
           TheStatus[t] = "running",
           \A u \in Tx \ {t} : TheDirty[u] \cap rows = {},
           TheView' = [TheView EXCEPT ![t] = [r \in Row |-> IF r \in rows THEN v ELSE @[r]]],
           TheDirty' = [TheDirty EXCEPT ![t] = @ \cup rows],
           UNCHANGED <<TheStore, TheStatus>>
    PROVE  SI!Write(t, rows, v)
BY DEF SI!Write, TheStore, TheStatus, TheView, TheDirty, ViewOf, DirtyOf

LEMMA AbstractLeave ==
    ASSUME NEW t \in Tx,
           TheStatus[t] = "running",
           TheStatus' = [TheStatus EXCEPT ![t] = "ended"],
           TheView' = [TheView EXCEPT ![t] = [r \in Row |-> Dead]],
           TheDirty' = [TheDirty EXCEPT ![t] = {}]
    PROVE  SI!Leave(t)
BY DEF SI!Leave, SI!NoView, TheStore, TheStatus, TheView, TheDirty, ViewOf, DirtyOf

LEMMA AbstractEnds ==
    ASSUME NEW t \in Tx, SI!Leave(t)
    PROVE  /\ TheStore' = [r \in Row |-> IF r \in TheDirty[t] THEN TheView[t][r] ELSE TheStore[r]]
                  => SI!Commit(t)
           /\ UNCHANGED TheStore => SI!Abort(t)
BY DEF SI!Commit, SI!Abort, TheStore, TheView, TheDirty, ViewOf, DirtyOf

\* A transaction that has not started has written nothing.
LEMMA NothingWrittenYet ==
    ASSUME IInv, NEW t \in Tx, phase[t] = "idle", NEW r \in Row
    PROVE  writes[t][r] = Unwritten
<1>1. undo[t] = << >>
  BY DEF IInv, StampInv
<1> QED BY <1>1 DEF IInv, KeptInv

LEMMA TheNext ==
    ASSUME Mapped, Mapped', NEW t \in Tx, OthersSame(t)
    PROVE  /\ TheStatus' = [TheStatus EXCEPT ![t] = Status(t)']
           /\ TheView' = [TheView EXCEPT ![t] = [r \in Row |-> ViewOf(t, r)']]
           /\ TheDirty' = [TheDirty EXCEPT ![t] = {r \in Row : DirtyOf(t, r)'}]
<1>1. TheStatus' = [TheStatus EXCEPT ![t] = Status(t)']
  BY OthersNext DEF TheStatus
<1>2. TheView' = [TheView EXCEPT ![t] = [r \in Row |-> ViewOf(t, r)']]
  <2>1. \A x \in Tx \ {t} : [r \in Row |-> ViewOf(x, r)'] = [r \in Row |-> ViewOf(x, r)]
    BY OthersNext
  <2>2. \A x \in Tx : TheView'[x] = [r \in Row |-> ViewOf(x, r)']
                      /\ TheView[x] = [r \in Row |-> ViewOf(x, r)]
    BY DEF TheView
  <2>3. /\ TheView = [x \in Tx |-> TheView[x]]
        /\ TheView' = [x \in Tx |-> TheView'[x]]
    BY DEF TheView
  <2>4. \A x \in Tx : TheView'[x] = IF x = t THEN [r \in Row |-> ViewOf(t, r)'] ELSE TheView[x]
    BY <2>1, <2>2
  <2> QED BY <2>3, <2>4
<1>3. TheDirty' = [TheDirty EXCEPT ![t] = {r \in Row : DirtyOf(t, r)'}]
  <2>1. \A x \in Tx \ {t} : {r \in Row : DirtyOf(x, r)'} = {r \in Row : DirtyOf(x, r)}
    BY OthersNext
  <2>2. \A x \in Tx : TheDirty'[x] = {r \in Row : DirtyOf(x, r)'}
                      /\ TheDirty[x] = {r \in Row : DirtyOf(x, r)}
    BY DEF TheDirty
  <2>3. /\ TheDirty = [x \in Tx |-> TheDirty[x]]
        /\ TheDirty' = [x \in Tx |-> TheDirty'[x]]
    BY DEF TheDirty
  <2>4. \A x \in Tx : TheDirty'[x] = IF x = t THEN {r \in Row : DirtyOf(t, r)'} ELSE TheDirty[x]
    BY <2>1, <2>2
  <2> QED BY <2>3, <2>4
<1> QED BY <1>1, <1>2, <1>3

LEMMA TheStoreNext ==
    ASSUME Mapped, Mapped', StoreSame
    PROVE  TheStore' = TheStore
BY StoreNext DEF TheStore

LEMMA Stutters ==
    ASSUME Mapped, Mapped', StoreSame, OthersSame(NoTx)
    PROVE  UNCHANGED SI!vars
<1>1. \A x \in Tx : /\ Status(x)' = Status(x)
                    /\ \A r \in Row : ViewOf(x, r)' = ViewOf(x, r)
                                      /\ (DirtyOf(x, r)' <=> DirtyOf(x, r))
  BY TxAssumption, OthersNext
<1>2. \A x \in Tx : /\ [r \in Row |-> ViewOf(x, r)'] = [r \in Row |-> ViewOf(x, r)]
                    /\ {r \in Row : DirtyOf(x, r)'} = {r \in Row : DirtyOf(x, r)}
  BY <1>1
<1>3. UNCHANGED TheStatus
  BY <1>1 DEF TheStatus
<1>4. UNCHANGED <<TheView, TheDirty>>
  BY <1>2 DEF TheView, TheDirty
<1> QED BY <1>3, <1>4, TheStoreNext, AbstractStutter

-----------------------------------------------------------------------------
(* What the steps of the table change in it. *)

LEMMA StoreKept ==
    ASSUME TypeOK, ClockInv, [Next]_vars, UNCHANGED <<current_start_timestamp, commit_id>>
    PROVE  StoreSame
<1> SUFFICES ASSUME NEW r \in Row
             PROVE  Committed(current_start_timestamp, r)' = Committed(current_start_timestamp, r)
  BY DEF StoreSame
<1>1. PICK s \in Nat : s = current_start_timestamp
  BY DEF TypeOK, ClockTypeOK
<1>2. \A u \in Tx : commit_id[u] # 0 => writes'[u][r] = writes[u][r]
  BY WritersHaveNotCommitted DEF TypeOK
<1>3. Committed(s, r)' = Committed(s, r)
  BY <1>2, CommittedSame DEF TypeOK
<1>4. Committed(current_start_timestamp, r)' = Committed(s, r)'
  BY <1>1
<1> QED BY <1>1, <1>3, <1>4

LEMMA OthersKept ==
    ASSUME TypeOK, ClockInv, [Next]_vars, NEW t,
           \A x \in Tx \ {t} : Status(x)' = Status(x) /\ writes'[x] = writes[x]
    PROVE  OthersSame(t)
<1> SUFFICES ASSUME NEW x \in Tx \ {t}, phase[x] \in Running, NEW r \in Row
             PROVE  Seen(x, r)' = Seen(x, r)
  BY DEF OthersSame
<1>1. PICK s \in Nat : s = start_time[x]
  BY DEF TypeOK, ClockTypeOK
<1>2. start_time'[x] = s /\ Committed(s, r)' = Committed(s, r)
  BY <1>1, SnapshotStays
<1>3. Committed(start_time[x], r)' = Committed(start_time[x], r)
  BY <1>1, <1>2
<1> QED BY <1>3 DEF Seen

LEMMA BeginStep ==
    ASSUME IInv, Mapped, Mapped', [Next]_vars, NEW t \in Tx, StartTransaction(t)
    PROVE  SI!Begin(t)
<1> USE DEF IInv, TypeOK
<1>1. /\ UNCHANGED <<commit_id, writes>>
      /\ phase[t] = "idle" /\ phase'[t] = "ready"
      /\ \A x \in Tx \ {t} : phase'[x] = phase[x]
      /\ start_time'[t] = current_start_timestamp
      /\ current_start_timestamp' = current_start_timestamp + 1
  BY DEF StartTransaction, Goto, history, ClockTypeOK
<1>2. /\ Status(t) = "idle" /\ Status(t)' = "running"
      /\ \A x \in Tx \ {t} : Status(x)' = Status(x)
  BY <1>1 DEF Status, Running
<1>3. PICK s \in Nat : s = current_start_timestamp
  BY DEF ClockTypeOK
<1>4. \A r \in Row : writes[t][r] = Unwritten
  BY <1>1, NothingWrittenYet
<1>5. OthersSame(t)
  BY <1>1, <1>2, OthersKept
<1>6. \A r \in Row : /\ Committed(s, r)' = Committed(s, r)
                     /\ Committed(s + 1, r)' = Committed(s, r)
  <2> SUFFICES ASSUME NEW r \in Row
               PROVE  Committed(s, r)' = Committed(s, r) /\ Committed(s + 1, r)' = Committed(s, r)
    OBVIOUS
  <2>1. PICK e \in Nat : e = s + 1
    OBVIOUS
  <2>2. Committed(s, r)' = Committed(s, r) /\ Committed(e, r)' = Committed(e, r)
    BY <1>1, CommittedSame
  <2>3. Committed(e, r) = Committed(s, r)
    BY <1>3, <2>1, CommittedByNow
  <2>4. Committed(s + 1, r)' = Committed(e, r)'
    BY <2>1
  <2> QED BY <2>2, <2>3, <2>4
<1>7. StoreSame
  <2>1. \A r \in Row : Committed(current_start_timestamp, r)' = Committed(s + 1, r)'
    BY <1>1, <1>3
  <2> QED BY <1>3, <1>6, <2>1 DEF StoreSame
<1>8. \A r \in Row : Seen(t, r)' = Store(r) /\ writes'[t][r] = Unwritten
  <2> SUFFICES ASSUME NEW r \in Row PROVE Seen(t, r)' = Store(r)
    BY <1>1, <1>4
  <2>1. Committed(start_time[t], r)' = Committed(s, r)'
    BY <1>1, <1>3
  <2>2. Seen(t, r)' = Committed(s, r)
    BY <1>1, <1>4, <1>6, <2>1 DEF Seen
  <2>3. Store(r) = Committed(s, r)
    BY <1>3 DEF Mapped
  <2> QED BY <2>2, <2>3
<1>9. TheView' = [TheView EXCEPT ![t] = TheStore]
  <2>1. \A r \in Row : ViewOf(t, r)' = Store(r)
    BY <1>2, <1>8, OwnNext
  <2>2. [r \in Row |-> ViewOf(t, r)'] = TheStore
    BY <2>1 DEF TheStore
  <2> QED BY <1>5, <2>2, TheNext
<1>10. UNCHANGED TheDirty
  <2>1. \A r \in Row : ~DirtyOf(t, r) /\ ~DirtyOf(t, r)'
    BY <1>2, <1>8, OwnNext DEF DirtyOf
  <2>2. {r \in Row : DirtyOf(t, r)'} = {} /\ TheDirty[t] = {}
    BY <2>1 DEF TheDirty
  <2>3. TheDirty' = [TheDirty EXCEPT ![t] = {}]
    BY <1>5, <2>2, TheNext
  <2>4. TheDirty = [TheDirty EXCEPT ![t] = TheDirty[t]]
    BY DEF TheDirty
  <2> QED BY <2>2, <2>3, <2>4
<1>11. TheStatus[t] = "idle" /\ TheStatus' = [TheStatus EXCEPT ![t] = "running"]
  BY <1>2, <1>5, TheNext DEF TheStatus
<1> QED BY <1>7, <1>9, <1>10, <1>11, TheStoreNext, AbstractBegin

\* A statement of t that writes some rows, which no other running transaction
\* has written.
LEMMA WriteStep ==
    ASSUME IInv, Mapped, Mapped', [Next]_vars, NEW t \in Tx, NEW rows \in SUBSET Row,
           UNCHANGED <<current_start_timestamp, commit_id>>,
           phase[t] \in Running, \A x \in Tx : Status(x)' = Status(x),
           \A x \in Tx \ {t} : writes'[x] = writes[x],
           \A r \in Row : writes'[t][r] = IF r \in rows THEN t ELSE writes[t][r],
           \A x \in Tx \ {t}, r \in rows : phase[x] \in Running => writes[x][r] = Unwritten
    PROVE  SI!Write(t, rows, t)
<1> USE DEF IInv, TypeOK
<1>1. Status(t) = "running" /\ Status(t)' = "running"
  BY StatusIs
<1>2. OthersSame(t) /\ StoreSame
  BY OthersKept, StoreKept
<1>3. t # Unwritten
  BY DataAssumption DEF Data
<1>4. \A r \in Row : /\ ViewOf(t, r)' = IF r \in rows THEN t ELSE ViewOf(t, r)
                     /\ DirtyOf(t, r)' <=> DirtyOf(t, r) \/ r \in rows
  <2> SUFFICES ASSUME NEW r \in Row
               PROVE  /\ ViewOf(t, r)' = IF r \in rows THEN t ELSE ViewOf(t, r)
                      /\ DirtyOf(t, r)' <=> DirtyOf(t, r) \/ r \in rows
    OBVIOUS
  <2>1. PICK s \in Nat : s = start_time[t]
    BY DEF ClockTypeOK
  <2>2. Committed(start_time[t], r)' = Committed(start_time[t], r)
    <3>1. start_time'[t] = s /\ Committed(s, r)' = Committed(s, r)
      BY <2>1, SnapshotStays
    <3> QED BY <2>1, <3>1
  <2>3. Seen(t, r)' = IF r \in rows THEN t ELSE Seen(t, r)
    BY <1>3, <2>2 DEF Seen
  <2>4. ViewOf(t, r) = Seen(t, r) /\ ViewOf(t, r)' = Seen(t, r)'
    BY <1>1, OwnNext
  <2>5. DirtyOf(t, r)' <=> DirtyOf(t, r) \/ r \in rows
    BY <1>1, <1>3 DEF DirtyOf
  <2> QED BY <2>3, <2>4, <2>5
<1>5. TheView' = [TheView EXCEPT ![t] = [r \in Row |-> IF r \in rows THEN t ELSE @[r]]]
  <2>1. \A r \in Row : TheView[t][r] = ViewOf(t, r)
    BY DEF TheView
  <2>2. [r \in Row |-> ViewOf(t, r)'] = [r \in Row |-> IF r \in rows THEN t ELSE TheView[t][r]]
    BY <1>4, <2>1
  <2> QED BY <1>2, <2>2, TheNext
<1>6. TheDirty' = [TheDirty EXCEPT ![t] = @ \cup rows]
  <2>1. {r \in Row : DirtyOf(t, r)'} = TheDirty[t] \cup rows
    BY <1>4 DEF TheDirty
  <2> QED BY <1>2, <2>1, TheNext
<1>7. UNCHANGED TheStatus
  BY DEF TheStatus
<1>8. \A x \in Tx \ {t} : TheDirty[x] \cap rows = {}
  BY StatusIs DEF TheDirty, DirtyOf
<1>9. TheStatus[t] = "running"
  BY <1>1 DEF TheStatus
<1>10. UNCHANGED TheStore
  BY <1>2, TheStoreNext
<1> QED BY <1>5, <1>6, <1>7, <1>8, <1>9, <1>10, AbstractWrite

LEMMA FinishWrites ==
    ASSUME OnlyAdds, IInv, Mapped, Mapped', [Next]_vars, NEW t \in Tx, FinishStatement(t)
    PROVE  \E rows \in SUBSET Row : SI!Write(t, rows, t)
<1>1. /\ phase[t] = "writing" /\ phase'[t] = "ready" /\ todo[t] = {}
      /\ \A x \in Tx \ {t} : phase'[x] = phase[x]
      /\ UNCHANGED <<current_start_timestamp, commit_id>>
  BY DEF FinishStatement, EndStatement, Goto, transactions, IInv, TypeOK, ClockTypeOK
<1>2. \A x \in Tx : Status(x)' = Status(x)
  BY <1>1 DEF Status, Running
<1>3. writes' = [writes EXCEPT ![t] = [r \in Row |-> IF r \in ids[t] THEN t ELSE @[r]]]
  BY OnlyUpdates DEF FinishStatement, IInv, TypeOK
<1>4. /\ \A x \in Tx \ {t} : writes'[x] = writes[x]
      /\ \A r \in Row : writes'[t][r] = IF r \in ids[t] THEN t ELSE writes[t][r]
  BY <1>3 DEF IInv, TypeOK, HistoryTypeOK
<1>5. PICK rows \in SUBSET Row : rows = ids[t]
  BY DEF IInv, TypeOK, StatementTypeOK
<1>6. ASSUME NEW x \in Tx \ {t}, NEW r \in rows, phase[x] \in Running
      PROVE  writes[x][r] = Unwritten
  <2>1. \E i \in Nat : <<t, i>> \in Versions(r)
    BY <1>1, <1>5 DEF IInv, StatementInv, StatementOK
  <2>2. PICK v \in Versions(r) : v[1] = t
    BY <2>1
  <2>3. commit_id[t] = 0
    BY <1>1 DEF IInv, ClockInv, Running
  <2> QED BY <1>6, <2>2, <2>3, OthersWroteNothing DEF IInv, TypeOK
<1>7. phase[t] \in Running
  BY <1>1 DEF Running
<1>8. \A r \in Row : writes'[t][r] = IF r \in rows THEN t ELSE writes[t][r]
  BY <1>4, <1>5
<1>9. SI!Write(t, rows, t)
  BY <1>1, <1>2, <1>4, <1>6, <1>7, <1>8, WriteStep
<1> QED BY <1>9

LEMMA InsertWrites ==
    ASSUME IInv, Mapped, Mapped', [Next]_vars, NEW t \in Tx, Insert(t)
    PROVE  \E rows \in SUBSET Row : SI!Write(t, rows, t)
<1>1. PICK q \in Row : q = count + 1 /\ q > count
  <2>1. count + 1 \in Row
    BY InsertEffects DEF IInv, TypeOK
  <2>2. count \in Nat
    BY DEF IInv, TypeOK, TableTypeOK
  <2> QED BY <2>1, <2>2
<1>2. /\ phase[t] = "ready" /\ UNCHANGED phase
      /\ UNCHANGED <<current_start_timestamp, commit_id>>
      /\ writes' = [writes EXCEPT ![t][q] = t]
  BY <1>1 DEF Insert, transactions
<1>3. \A x \in Tx : Status(x)' = Status(x)
  BY <1>2 DEF Status
<1>4. PICK rows \in SUBSET Row : rows = {q}
  OBVIOUS
<1>5. /\ \A x \in Tx \ {t} : writes'[x] = writes[x]
      /\ \A r \in Row : writes'[t][r] = IF r \in rows THEN t ELSE writes[t][r]
  BY <1>2, <1>4 DEF IInv, TypeOK, HistoryTypeOK
<1>6. \A x \in Tx, r \in rows : writes[x][r] = Unwritten
  BY <1>1, <1>4 DEF IInv, RowInv
<1>7. phase[t] \in Running
  BY <1>2 DEF Running
<1>8. SI!Write(t, rows, t)
  BY <1>2, <1>3, <1>5, <1>6, <1>7, WriteStep
<1> QED BY <1>8

\* A transaction that ends leaves nothing but what its commit publishes.
LEMMA LeaveStep ==
    ASSUME Mapped, Mapped', NEW t \in Tx, OthersSame(t),
           Status(t) = "running", Status(t)' = "ended"
    PROVE  SI!Leave(t)
<1>1. \A r \in Row : ViewOf(t, r)' = Dead /\ ~DirtyOf(t, r)'
  BY OwnNext
<1>2. [r \in Row |-> ViewOf(t, r)'] = [r \in Row |-> Dead] /\ {r \in Row : DirtyOf(t, r)'} = {}
  BY <1>1
<1>3. TheStatus[t] = "running"
  BY DEF TheStatus
<1> QED BY <1>2, <1>3, TheNext, AbstractLeave

LEMMA AbortStep ==
    ASSUME IInv, Mapped, Mapped', [Next]_vars, NEW t \in Tx, RollbackTransaction(t)
    PROVE  SI!Abort(t)
<1> USE DEF IInv, TypeOK
<1>1. /\ phase[t] \in Running /\ phase'[t] = "undoing"
      /\ \A x \in Tx \ {t} : phase'[x] = phase[x]
      /\ UNCHANGED <<current_start_timestamp, commit_id, writes>>
  BY DEF RollbackTransaction, Goto, history, Running, ClockTypeOK
<1>2. /\ Status(t) = "running" /\ Status(t)' = "ended"
      /\ \A x \in Tx \ {t} : Status(x)' = Status(x)
  BY <1>1 DEF Status, Running
<1>3. OthersSame(t) /\ StoreSame
  BY <1>1, <1>2, OthersKept, StoreKept
<1> QED BY <1>2, <1>3, LeaveStep, AbstractEnds, TheStoreNext

LEMMA CommitStep ==
    ASSUME IInv, Mapped, Mapped', [Next]_vars, NEW t \in Tx, CommitTransaction(t)
    PROVE  SI!Commit(t)
<1> USE DEF IInv, TypeOK
<1>1. /\ phase[t] \in Running /\ phase'[t] = "stamping"
      /\ \A x \in Tx \ {t} : phase'[x] = phase[x]
      /\ UNCHANGED writes
      /\ current_start_timestamp' = current_start_timestamp + 1
  BY DEF CommitTransaction, Goto, history, Running, ClockTypeOK
<1>2. /\ Status(t) = "running" /\ Status(t)' = "ended"
      /\ \A x \in Tx \ {t} : Status(x)' = Status(x)
  BY <1>1 DEF Status, Running
<1>3. OthersSame(t)
  BY <1>1, <1>2, OthersKept
<1>4. PICK s \in Nat : s = current_start_timestamp
  BY DEF ClockTypeOK
<1>5. ASSUME NEW r \in Row
      PROVE  Store(r)' = IF r \in TheDirty[t] THEN TheView[t][r] ELSE TheStore[r]
  <2>1. Committed(s + 1, r)' = IF writes[t][r] # Unwritten THEN writes[t][r] ELSE Committed(s, r)
    BY <1>4, CommittedMore
  <2>2. Committed(current_start_timestamp, r)' = Committed(s + 1, r)'
    BY <1>1, <1>4
  <2>3. Store(r)' = Committed(current_start_timestamp, r)' /\ Store(r) = Committed(s, r)
    BY <1>4 DEF Mapped
  <2>4. writes[t][r] # Unwritten => ViewOf(t, r) = writes[t][r]
    BY <1>2, OwnNext DEF Seen
  <2>5. r \in TheDirty[t] <=> writes[t][r] # Unwritten
    BY <1>2 DEF TheDirty, DirtyOf
  <2>6. TheView[t][r] = ViewOf(t, r) /\ TheStore[r] = Store(r)
    BY DEF TheView, TheStore
  <2> QED BY <2>1, <2>2, <2>3, <2>4, <2>5, <2>6
<1>6. TheStore' = [r \in Row |-> IF r \in TheDirty[t] THEN TheView[t][r] ELSE TheStore[r]]
  BY <1>5 DEF TheStore
<1> QED BY <1>2, <1>3, <1>6, LeaveStep, AbstractEnds

LEMMA StutterStep ==
    ASSUME IInv, Mapped, Mapped', [Next]_vars,
           UNCHANGED <<current_start_timestamp, commit_id, writes>>,
           \A x \in Tx : Status(x)' = Status(x)
    PROVE  UNCHANGED SI!vars
<1>1. StoreSame
  BY StoreKept DEF IInv
<1>2. OthersSame(NoTx)
  BY OthersKept DEF IInv
<1> QED BY <1>1, <1>2, Stutters

LEMMA StatusSame == ASSUME ClockSame PROVE \A x \in Tx : Status(x)' = Status(x)
BY DEF ClockSame, Status, Running

LEMMA RefinementStep ==
    ASSUME OnlyAdds
    PROVE  IInv /\ Mapped /\ Mapped' /\ [Next]_vars => [SI!Next]_SI!vars
<1> SUFFICES ASSUME IInv, Mapped, Mapped', [Next]_vars PROVE [SI!Next]_SI!vars
  OBVIOUS
<1>1. ASSUME NEW t \in Tx, StartTransaction(t) PROVE SI!Next
  BY <1>1, BeginStep DEF SI!Next
<1>2. ASSUME NEW t \in Tx, CommitTransaction(t) PROVE SI!Next
  BY <1>2, CommitStep DEF SI!Next
<1>3. ASSUME NEW t \in Tx, RollbackTransaction(t) PROVE SI!Next
  BY <1>3, AbortStep DEF SI!Next
<1>4. ASSUME NEW t \in Tx, FinishStatement(t) \/ Insert(t) PROVE SI!Next
  <2>1. PICK rows \in SUBSET Row : SI!Write(t, rows, t)
    BY <1>4, FinishWrites, InsertWrites
  <2>2. t \in Data \cup {Dead}
    BY DEF Data
  <2> QED BY <2>1, <2>2 DEF SI!Next
<1>5. ASSUME ClockSame, UNCHANGED writes PROVE UNCHANGED SI!vars
  BY <1>5, StatusSame, StutterStep DEF ClockSame, transactions
<1>6. ASSUME NEW t \in Tx, NEW r \in Row, PushRow(t, r) PROVE UNCHANGED SI!vars
  <2>1. UNCHANGED writes
    BY <1>6, OnlyUpdates DEF PushRow, IInv, TypeOK
  <2>2. ClockSame
    BY <1>6, ClockSameSteps DEF IInv, TypeOK
  <2> QED BY <1>5, <2>1, <2>2
<1>7. ASSUME NEW t \in Tx, BeginRemove(t) \/ CleanupDone(t) \/ EndRemove(t)
      PROVE  UNCHANGED SI!vars
  <2>1. UNCHANGED <<current_start_timestamp, commit_id, writes>>
    BY <1>7 DEF BeginRemove, CleanupDone, EndRemove, history
  <2>2. \A x \in Tx : phase'[x] = phase[x] \/ (phase[x] \in Ending /\ phase'[x] \in Ending \cup {"done"})
    BY <1>7 DEF BeginRemove, CleanupDone, EndRemove, Goto, Ending, IInv, TypeOK, ClockTypeOK
  <2>3. \A x \in Tx : Status(x)' = Status(x)
    BY <2>2 DEF Status, Running, Ending
  <2> QED BY <2>1, <2>3, StutterStep
<1>8. ASSUME Quiet PROVE UNCHANGED SI!vars
  <2>1. ClockSame
    BY <1>8 DEF Quiet
  <2> QED BY <1>5, <1>8, <2>1, SameHistory
<1>9. ASSUME ClockSame, \/ \E t \in Tx : StampEntry(t) \/ UndoEntry(t)
                        \/ \E u \in Tx, i \in Nat, k \in Nat : Cleans(u, i, k)
      PROVE  UNCHANGED SI!vars
  BY <1>5, <1>9, SameHistory
<1>10. ASSUME NEW t \in Tx, ClockStepOf(t) PROVE [SI!Next]_SI!vars
  BY <1>1, <1>2, <1>3, <1>7, <1>10 DEF ClockStepOf
<1>11. ASSUME NEW t \in Tx, NEW e \in UndoEntries, NEW k, Undoes(t, e, k) PROVE ClockSame
  BY <1>11 DEF Undoes
<1>12. ASSUME NEW u \in Tx, NEW i \in Nat, NEW k \in Nat, Cleans(u, i, k)
       PROVE  UNCHANGED SI!vars
  <2>1. ClockSame
    BY <1>12 DEF Cleans
  <2> QED BY <1>9, <1>12, <2>1
<1> QED BY <1>4, <1>6, <1>8, <1>9, <1>10, <1>11, <1>12, StepKinds DEF IInv, TypeOK

LEMMA RefinementInit == Init /\ Mapped => SI!Init
<1> SUFFICES ASSUME Init, Mapped PROVE SI!Init
  OBVIOUS
<1>1. \A t \in Tx : phase[t] = "idle" /\ Status(t) = "idle"
  BY StatusIs DEF Init
<1>2. \A r \in Row : Store(r) \in Data \cup {Dead}
  <2> SUFFICES ASSUME NEW r \in Row PROVE Store(r) \in Data \cup {Dead}
    OBVIOUS
  <2>1. Writers(current_start_timestamp, r) = {}
    BY DEF Init, Writers
  <2>2. Store(r) = AtStart(r)
    BY <2>1, CommittedIs DEF Mapped
  <2> QED BY <2>2 DEF AtStart, Data
<1> QED BY <1>1, <1>2 DEF SI!Init, SI!NoView

\* While clients issue no DELETE and a failed statement rolls its transaction
\* back, the versions, locks and cleanups of the table are invisible: each
\* transaction works on the store as it was when it started and its own writes,
\* no two running transactions have written the same row, a commit publishes all
\* that a transaction wrote at once and a rollback leaves no trace.
THEOREM SnapshotIsolationHolds ==
    ASSUME OnlyAdds
    PROVE  Spec => ImplementsSnapshotIsolation
<1>1. Init => IInv /\ UpdatesInv
  BY InitInv, UpdatesInit
<1>2. IInv /\ UpdatesInv /\ [Next]_vars => (IInv /\ UpdatesInv)'
  BY StepInv, UpdatesStep
<1>3. Spec => [](IInv /\ UpdatesInv)
  BY <1>1, <1>2, PTL DEF Spec
<1>4. IInv /\ UpdatesInv => Mapped
  BY Mapping
<1>5. Spec => []Mapped
  BY <1>3, <1>4, PTL
<1>6. Init /\ Mapped => SI!Init
  BY RefinementInit
<1>7. IInv /\ Mapped /\ Mapped' /\ [Next]_vars => [SI!Next]_SI!vars
  BY RefinementStep
<1> QED BY <1>3, <1>5, <1>6, <1>7, PTL DEF Spec, ImplementsSnapshotIsolation, SI!Spec
===============================================================================
