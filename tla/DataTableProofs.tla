--------------------------- MODULE DataTableProofs ---------------------------
(***************************************************************************)
(* Proofs about DataTable, for every set of transactions, every number of  *)
(* rows and every number of statements: types, the order of version        *)
(* chains, that commits and rollbacks are exact, and that every            *)
(* transaction reads its snapshot and its own writes.                      *)
(***************************************************************************)
EXTENDS DataTable, SequenceTheorems, WellFoundedInduction, TLAPS

-----------------------------------------------------------------------------
(* The inductive invariant. *)

Version == Tx \X Nat

\* Commit ids are drawn from the clock, once; whoever stamps, undoes or cleans
\* up holds transaction_lock; whoever is to be cleaned up has committed.
ClockInv ==
    /\ \A t \in Tx :
        /\ start_time[t] < current_start_timestamp \/ phase[t] = "idle"
        /\ commit_id[t] = 0 \/ commit_id[t] < current_start_timestamp
        /\ phase[t] \in Ending <=> transaction_lock = t
        /\ phase[t] \in Running \cup {"idle", "undoing"} => commit_id[t] = 0
        /\ phase[t] = "stamping" =>
            /\ commit_id[t] # 0
            /\ \A u \in Active : start_time[u] <= commit_id[t]
        /\ \A u \in Tx \ {t} : commit_id[t] = 0 \/ commit_id[t] # commit_id[u]
    /\ \A i \in 1..Len(recently_committed) :
        /\ phase[recently_committed[i]] \in {"cleaning", "done"}
        /\ commit_id[recently_committed[i]] # 0

\* Undo buffers are stamped from the front, after the commit id is drawn and
\* before the transaction leaves; they are empty before it starts and after it
\* has rolled back.
StampInv ==
    \A u \in Tx :
        /\ stamped[u] <= Len(undo[u])
        /\ commit_id[u] = 0 => stamped[u] = 0
        /\ phase[u] \in {"cleaning", "done"} /\ commit_id[u] # 0 =>
               stamped[u] = Len(undo[u])
        /\ phase[u] = "idle" \/ (phase[u] \in {"cleaning", "done"} /\ commit_id[u] = 0) =>
               undo[u] = << >>

\* Each version in a chain is an entry of its undo buffer, for that row.
LinkInv ==
    \A r \in Row : \A v \in Versions(r) :
        /\ v[2] \in 1..Len(undo[v[1]])
        /\ undo[v[1]][v[2]].row = r

\* v is in front of w: a later one of the same transaction, or of one that has
\* not committed or committed later, in front of a stamped version.
Newer(v, w) ==
    \/ v[1] = w[1] /\ w[2] < v[2]
    \/ /\ v[1] # w[1]
       /\ commit_id[w[1]] # 0 /\ w[2] <= stamped[w[1]]
       /\ commit_id[v[1]] = 0 \/ commit_id[w[1]] < commit_id[v[1]]

InFront(r, v, w) ==
    \E i, j \in 1..Len(chain[r]) : i < j /\ chain[r][i] = v /\ chain[r][j] = w

OrderInv ==
    \A r \in Row : \A v, w \in Version : InFront(r, v, w) => Newer(v, w)

\* Some active transaction started before the commit of u.
Overlaps(u) == \E t \in Active : start_time[t] <= commit_id[u]

\* Nothing of the undo buffer of u has been cleaned up.
Kept(u) ==
    \/ phase[u] \in Running \cup {"stamping", "undoing"}
    \/ commit_id[u] # 0 /\ Overlaps(u)

\* All entries of the undo buffer are linked into chains until the cleanup, and
\* the history of a transaction that has not rolled back is in its undo buffer.
KeptInv ==
    \A u \in Tx :
        /\ Kept(u) => \A i \in 1..Len(undo[u]) : <<u, i>> \in Versions(undo[u][i].row)
        /\ phase[u] \in Running \cup {"idle"} \/ commit_id[u] # 0 =>
            \A r \in Row : writes[u][r] # Unwritten =>
                \E i \in 1..Len(undo[u]) : undo[u][i].row = r

\* Nothing has happened to rows that have not been counted.
RowInv ==
    /\ InitialRows <= count
    /\ \A r \in Row : r > count =>
        /\ chain[r] = << >>
        /\ ~deleted[r]
        /\ \A u \in Tx : writes[u][r] = Unwritten
    /\ \A t \in Tx : \A r \in ids[t] : r <= count

\* What a statement found is not deleted by its own transaction; what it pushed
\* has its version in front as long as it has the lock.
StatementOK(t) ==
    /\ todo[t] \subseteq ids[t]
    /\ \A r \in (IF phase[t] = "writing" THEN todo[t] ELSE ids[t]) \ clobbered :
           writes[t][r] # Dead
    /\ phase[t] \in {"scanning", "locking", "writing"} =>
           statement[t] \in {"update", "delete"}
    /\ phase[t] = "writing" =>
        /\ exclusive_lock = t
        /\ \A r \in ids[t] \ todo[t] :
            /\ \E i \in Nat : <<t, i>> \in Versions(r)
            /\ statement[t] = "update" /\ r \notin clobbered => ~deleted[r]

StatementInv == \A t \in Tx : StatementOK(t)

\* What the table has of a row, and what a version has.
Present(r) == IF deleted[r] \/ r > count THEN Dead ELSE data[r]
Content(v) == IF Saved(v) = NoData THEN Dead ELSE Saved(v)

\* The commit of u is or will be at time s.
CommitsAt(u, s) == s = IF commit_id[u] = 0 THEN current_start_timestamp ELSE commit_id[u]

\* v is the oldest version of its transaction in the chain of r.
Oldest(r, v) == \A w \in Versions(r) : w[1] = v[1] => v[2] <= w[2]

\* v, whose commit is at time s, may still be read by someone, and is the last
\* of its transaction that a reader passes.
Needed(r, v, s) ==
    /\ v \in Versions(r) /\ Oldest(r, v)
    /\ commit_id[v[1]] = 0 \/ Overlaps(v[1])
    /\ CommitsAt(v[1], s)

\* Such a version has what was committed before.
ContentInv ==
    \A r \in Row \ clobbered : \A v \in Version : \A s \in Nat :
        Needed(r, v, s) => Content(v) = Committed(s, r)

\* The table has what a running transaction made of the row, or what was
\* committed last.
PresentOK(r, s) ==
    /\ (\A v \in Versions(r) : commit_id[v[1]] # 0) => Present(r) = Committed(s, r)
    /\ \A v \in Versions(r) : phase[v[1]] \in Running =>
           Present(r) = IF writes[v[1]][r] # Unwritten THEN writes[v[1]][r] ELSE Committed(s, r)

PresentInv ==
    \A r \in Row \ clobbered : \A s \in Nat : s = current_start_timestamp => PresentOK(r, s)

IInv ==
    /\ TypeOK
    /\ ClockInv
    /\ StampInv
    /\ LinkInv
    /\ OrderInv
    /\ KeptInv
    /\ RowInv
    /\ StatementInv
    /\ ContentInv
    /\ PresentInv

-----------------------------------------------------------------------------
(* Timestamps, phases and locks. *)

\* What most steps do to the state of transactions: nothing, or a client goes
\* on to another part of its statement.
ClockSame ==
    /\ UNCHANGED transactions
    /\ phase' \in [Tx -> Running \cup Ending \cup {"idle", "done"}]
    /\ \A u \in Tx : phase'[u] = phase[u] \/ (phase[u] \in Running /\ phase'[u] \in Running)

LEMMA ClockSameSteps ==
    ASSUME ClockTypeOK, NEW t \in Tx,
           \/ \E kind \in Kinds : BeginScan(t, kind)
           \/ ScanRow(t) \/ EndScan(t) \/ LockChunk(t)
           \/ \E r \in Row : PushRow(t, r)
           \/ ThrowConflict(t) \/ FinishStatement(t) \/ Insert(t)
           \/ StampEntry(t) \/ UndoEntry(t) \/ CleanupEntry(t)
    PROVE  ClockSame
<1> USE DEF ClockTypeOK, ClockSame, Goto, EndStatement, Running
<1>1. CASE \E kind \in Kinds : BeginScan(t, kind)
  BY <1>1 DEF BeginScan
<1>2. CASE ScanRow(t) \/ EndScan(t) \/ LockChunk(t)
  BY <1>2 DEF ScanRow, EndScan, LockChunk
<1>3. CASE \E r \in Row : PushRow(t, r)
  BY <1>3 DEF PushRow
<1>4. CASE ThrowConflict(t)
  BY <1>4 DEF ThrowConflict
<1>5. CASE FinishStatement(t)
  BY <1>5 DEF FinishStatement
<1>6. CASE Insert(t)
  BY <1>6 DEF Insert
<1>7. CASE StampEntry(t)
  BY <1>7 DEF StampEntry
<1>8. CASE UndoEntry(t)
  BY <1>8 DEF UndoEntry
<1>9. CASE CleanupEntry(t)
  BY <1>9 DEF CleanupEntry
<1> QED BY <1>1, <1>2, <1>3, <1>4, <1>5, <1>6, <1>7, <1>8, <1>9

LEMMA SameActive ==
    ASSUME ClockTypeOK, ClockSame
    PROVE  /\ Active' = Active
           /\ \A u \in Tx : Overlaps(u)' <=> Overlaps(u)
<1>1. Active' = Active
  BY DEF ClockTypeOK, ClockSame, Active
<1> QED BY <1>1 DEF Overlaps, ClockSame, transactions

LEMMA ClockInit == Init => ClockTypeOK /\ ClockInv
BY TxAssumption DEF Init, ClockTypeOK, ClockInv, Active, Running, Ending

LEMMA ClockStep == ClockTypeOK /\ ClockInv /\ [Next]_vars => (ClockTypeOK /\ ClockInv)'
<1> SUFFICES ASSUME ClockTypeOK, ClockInv, [Next]_vars
             PROVE  (ClockTypeOK /\ ClockInv)'
  OBVIOUS
<1>1. CASE ClockSame
  <2>1. Active' = Active
    BY <1>1, SameActive
  <2>2. ClockTypeOK'
    BY <1>1 DEF ClockTypeOK, ClockSame, transactions
  <2>3. ClockInv'
    BY <1>1, <2>1 DEF ClockInv, ClockSame, ClockTypeOK, transactions, Running, Ending
  <2> QED BY <2>2, <2>3
<1>2. ASSUME NEW t \in Tx, StartTransaction(t) PROVE (ClockTypeOK /\ ClockInv)'
  <2> USE <1>2 DEF StartTransaction, Goto
  <2>1. ClockTypeOK'
    BY DEF ClockTypeOK, Running
  <2>2. \A u \in Tx : phase[u] \notin Ending
    BY TxAssumption DEF ClockInv
  <2>3. \A u \in Tx : phase'[u] \notin Ending
    BY <2>2 DEF ClockTypeOK, Ending
  <2>4. ClockInv'
    BY <2>2, <2>3, TxAssumption DEF ClockInv, ClockTypeOK, Running, Ending
  <2> QED BY <2>1, <2>4
<1>3. ASSUME NEW t \in Tx, CommitTransaction(t) PROVE (ClockTypeOK /\ ClockInv)'
  <2> USE <1>3 DEF CommitTransaction, Goto
  <2>1. ClockTypeOK'
    BY DEF ClockTypeOK, Ending
  <2>2. \A u \in Tx : phase[u] \notin Ending
    BY TxAssumption DEF ClockInv
  <2>3. current_start_timestamp > 0
    BY DEF ClockTypeOK, ClockInv, Running
  <2>4. \A u \in Active' : u \in Tx /\ start_time[u] <= current_start_timestamp
    <3> SUFFICES ASSUME NEW u \in Tx, phase'[u] \in Running
                 PROVE  start_time[u] <= current_start_timestamp
      BY DEF Active
    <3>1. phase[u] # "idle"
      BY DEF ClockTypeOK, Running
    <3>2. start_time[u] < current_start_timestamp
      BY <3>1 DEF ClockInv
    <3> QED BY <3>2 DEF ClockTypeOK
  <2>5. \A u \in Tx : phase'[u] \in Ending <=> transaction_lock' = u
    BY <2>2 DEF ClockTypeOK, Ending
  <2>6. \A u \in Tx : commit_id'[u] = IF u = t THEN current_start_timestamp ELSE commit_id[u]
    BY DEF ClockTypeOK
  <2>7. \A u \in Tx : phase'[u] = IF u = t THEN "stamping" ELSE phase[u]
    BY DEF ClockTypeOK
  <2>8. \A i \in 1..Len(recently_committed) : recently_committed[i] \in Tx \ {t}
    BY DEF ClockTypeOK, ClockInv
  <2>9. ClockInv'
    <3>1. ASSUME NEW u \in Tx
          PROVE  /\ start_time'[u] < current_start_timestamp' \/ phase'[u] = "idle"
                 /\ commit_id'[u] = 0 \/ commit_id'[u] < current_start_timestamp'
                 /\ phase'[u] \in Ending <=> transaction_lock' = u
                 /\ phase'[u] \in Running \cup {"idle", "undoing"} => commit_id'[u] = 0
                 /\ phase'[u] = "stamping" =>
                       /\ commit_id'[u] # 0
                       /\ \A v \in Active' : start_time'[v] <= commit_id'[u]
      BY <2>2, <2>3, <2>4, <2>5, <2>6, <2>7 DEF ClockInv, ClockTypeOK, Running, Ending
    <3>2. ASSUME NEW u \in Tx, NEW v \in Tx \ {u}
          PROVE  commit_id'[u] = 0 \/ commit_id'[u] # commit_id'[v]
      <4>1. /\ commit_id[u] \in Nat /\ commit_id[v] \in Nat
            /\ commit_id[u] = 0 \/ commit_id[u] < current_start_timestamp
            /\ commit_id[v] = 0 \/ commit_id[v] < current_start_timestamp
            /\ commit_id[u] = 0 \/ commit_id[u] # commit_id[v]
        BY DEF ClockInv, ClockTypeOK
      <4>2. current_start_timestamp \in Nat
        BY DEF ClockTypeOK
      <4> QED BY <2>3, <2>6, <4>1, <4>2
    <3>3. ASSUME NEW i \in 1..Len(recently_committed')
          PROVE  /\ phase'[recently_committed'[i]] \in {"cleaning", "done"}
                 /\ commit_id'[recently_committed'[i]] # 0
      BY <2>6, <2>7, <2>8 DEF ClockInv
    <3> QED BY <3>1, <3>2, <3>3 DEF ClockInv
  <2> QED BY <2>1, <2>9
<1>4. ASSUME NEW t \in Tx, RollbackTransaction(t) PROVE (ClockTypeOK /\ ClockInv)'
  <2> USE <1>4 DEF RollbackTransaction, Goto
  <2>1. ClockTypeOK'
    BY DEF ClockTypeOK, Ending
  <2>2. Active' \subseteq Active
    BY DEF Active, ClockTypeOK, Running
  <2>3. \A u \in Tx : phase[u] \notin Ending
    BY TxAssumption DEF ClockInv
  <2>4. \A u \in Tx : phase'[u] = IF u = t THEN "undoing" ELSE phase[u]
    BY DEF ClockTypeOK
  <2>5. \A i \in 1..Len(recently_committed) : recently_committed[i] \in Tx \ {t}
    <3> SUFFICES ASSUME NEW i \in 1..Len(recently_committed)
                 PROVE  recently_committed[i] \in Tx \ {t}
      OBVIOUS
    <3>1. recently_committed[i] \in Tx
      BY DEF ClockTypeOK
    <3>2. phase[recently_committed[i]] \in {"cleaning", "done"}
      BY DEF ClockInv
    <3> QED BY <3>1, <3>2
  <2>6. ClockInv'
    BY <2>2, <2>3, <2>4, <2>5 DEF ClockInv, ClockTypeOK, Running, Ending
  <2> QED BY <2>1, <2>6
<1>5. ASSUME NEW t \in Tx, BeginRemove(t) PROVE (ClockTypeOK /\ ClockInv)'
  <2> USE <1>5 DEF BeginRemove, Goto
  <2>1. ClockTypeOK'
    <3>1. recently_committed \in Seq(Tx)
      BY DEF ClockTypeOK
    <3>2. Append(recently_committed, t) \in Seq(Tx)
      BY <3>1, AppendProperties
    <3>3. recently_committed' \in Seq(Tx)
      BY <3>1, <3>2
    <3> QED BY <3>3 DEF ClockTypeOK, Ending
  <2>2. Active' = Active
    BY DEF Active, ClockTypeOK, Running
  <2>3. \A u \in Tx : phase'[u] = IF u = t THEN "cleaning" ELSE phase[u]
    BY DEF ClockTypeOK
  <2>4. \A i \in 1..Len(recently_committed') :
            \/ recently_committed'[i] = t /\ phase[t] = "stamping"
            \/ i \in 1..Len(recently_committed) /\ recently_committed'[i] = recently_committed[i]
    <3>1. recently_committed \in Seq(Tx)
      BY DEF ClockTypeOK
    <3>2. CASE phase[t] = "stamping" /\ recently_committed' = Append(recently_committed, t)
      BY <3>1, <3>2, AppendProperties
    <3>3. CASE UNCHANGED recently_committed
      BY <3>3
    <3> QED BY <3>2, <3>3
  <2>5. \A i \in 1..Len(recently_committed) : recently_committed[i] \in Tx
    BY DEF ClockTypeOK
  <2>6. \A i \in 1..Len(recently_committed') :
            /\ phase'[recently_committed'[i]] \in {"cleaning", "done"}
            /\ commit_id'[recently_committed'[i]] # 0
    BY <2>3, <2>4, <2>5 DEF ClockInv
  <2>7. \A u \in Tx : phase'[u] \in Ending <=> transaction_lock' = u
    BY <2>3 DEF ClockInv, Ending
  <2> QED BY <2>1, <2>2, <2>3, <2>6, <2>7 DEF ClockInv, ClockTypeOK, Running, Ending
<1>6. ASSUME NEW t \in Tx, CleanupDone(t) PROVE (ClockTypeOK /\ ClockInv)'
  <2> USE <1>6 DEF CleanupDone, Cleanable
  <2>1. ClockTypeOK'
    BY DEF ClockTypeOK
  <2>2. Active' = Active
    BY DEF Active
  <2>3. \A i \in 1..Len(recently_committed') :
            i + 1 \in 1..Len(recently_committed)
            /\ recently_committed'[i] = recently_committed[i + 1]
    BY DEF ClockTypeOK
  <2> QED BY <2>1, <2>2, <2>3 DEF ClockInv
<1>7. ASSUME NEW t \in Tx, EndRemove(t) PROVE (ClockTypeOK /\ ClockInv)'
  <2> USE <1>7 DEF EndRemove, Goto
  <2>1. ClockTypeOK'
    BY DEF ClockTypeOK
  <2>2. Active' = Active
    BY DEF Active, ClockTypeOK, Running
  <2>3. \A u \in Tx : phase'[u] = IF u = t THEN "done" ELSE phase[u]
    BY DEF ClockTypeOK
  <2>4. \A i \in 1..Len(recently_committed) : recently_committed[i] \in Tx
    BY DEF ClockTypeOK
  <2> QED BY <2>1, <2>2, <2>3, <2>4, TxAssumption DEF ClockInv, ClockTypeOK, Running, Ending
<1>8. CASE UNCHANGED vars
  <2>1. ClockSame
    BY <1>8 DEF vars, transactions, ClockSame, ClockTypeOK
  <2> QED BY <1>1, <2>1
<1> QED BY <1>1, <1>2, <1>3, <1>4, <1>5, <1>6, <1>7, <1>8, ClockSameSteps DEF Next

-----------------------------------------------------------------------------
(* Sequences, and what the steps do to chains and undo buffers. *)

\* Every set of natural numbers has a least one.
LEMMA Least ==
    ASSUME NEW S \in SUBSET Nat, S # {}
    PROVE  \E n \in S : \A m \in S : n <= m
<1>1. PICK n \in S : \A m \in S : ~(<<m, n>> \in OpToRel(<, Nat))
  <2> DEFINE R == OpToRel(<, Nat)
  <2>1. IsWellFoundedOn(R, Nat)
    BY NatLessThanWellFounded
  <2> HIDE DEF R
  <2>2. \E n \in S : \A m \in S : ~(<<m, n>> \in R)
    BY <2>1, WFMin
  <2> QED BY <2>2 DEF R
<1>2. ASSUME NEW m \in S PROVE n <= m
  <2>1. <<m, n>> \notin OpToRel(<, Nat)
    BY <1>1
  <2>2. ~(m < n)
    BY <2>1 DEF OpToRel
  <2> QED BY <2>2
<1> QED BY <1>2

LEMMA RemoveAtProperties ==
    ASSUME NEW S, NEW s \in Seq(S), NEW k \in 1..Len(s)
    PROVE  /\ RemoveAt(s, k) \in Seq(S)
           /\ Len(RemoveAt(s, k)) = Len(s) - 1
           /\ \A i \in 1..Len(s) - 1 : RemoveAt(s, k)[i] = IF i < k THEN s[i] ELSE s[i + 1]
<1> DEFINE a == SubSeq(s, 1, k - 1)
           b == SubSeq(s, k + 1, Len(s))
<1>1. /\ Len(s) \in Nat /\ k \in Int /\ 1 <= k /\ k <= Len(s)
      /\ \A i \in 1..Len(s) : s[i] \in S
  BY LenProperties, ElementOfSeq
<1>2. /\ a \in Seq(S) /\ Len(a) = k - 1
      /\ \A i \in 1..k - 1 : a[i] = s[i]
  <2>1. /\ a \in Seq(S) /\ Len(a) = IF 1 <= k - 1 THEN (k - 1) - 1 + 1 ELSE 0
        /\ \A i \in 1..(k - 1) - 1 + 1 : a[i] = s[1 + i - 1]
    <3>1. \A i \in 1..k - 1 : s[i] \in S
      BY <1>1
    <3> QED BY <1>1, <3>1, SubSeqProperties
  <2> HIDE DEF a
  <2> QED BY <1>1, <2>1
<1>3. /\ b \in Seq(S) /\ Len(b) = Len(s) - k
      /\ \A i \in 1..Len(s) - k : b[i] = s[k + i]
  <2>1. /\ b \in Seq(S) /\ Len(b) = IF k + 1 <= Len(s) THEN Len(s) - (k + 1) + 1 ELSE 0
        /\ \A i \in 1..Len(s) - (k + 1) + 1 : b[i] = s[k + 1 + i - 1]
    <3>1. \A i \in k + 1..Len(s) : s[i] \in S
      BY <1>1
    <3> QED BY <1>1, <3>1, SubSeqProperties
  <2> HIDE DEF b
  <2> QED BY <1>1, <2>1
<1>4. RemoveAt(s, k) = a \o b
  BY DEF RemoveAt
<1> HIDE DEF a, b
<1>5. /\ a \o b \in Seq(S) /\ Len(a \o b) = Len(a) + Len(b)
      /\ \A i \in 1..Len(a) + Len(b) : (a \o b)[i] = IF i <= Len(a) THEN a[i] ELSE b[i - Len(a)]
  BY <1>2, <1>3, ConcatProperties
<1> DEFINE c == a \o b
<1> HIDE DEF c
<1>6. \A i \in 1..Len(s) - 1 : c[i] = IF i < k THEN s[i] ELSE s[i + 1]
  <2> SUFFICES ASSUME NEW i \in 1..Len(s) - 1
               PROVE  c[i] = IF i < k THEN s[i] ELSE s[i + 1]
    OBVIOUS
  <2>1. c[i] = IF i <= Len(a) THEN a[i] ELSE b[i - Len(a)]
    BY <1>1, <1>2, <1>3, <1>5 DEF c
  <2>2. CASE i < k
    BY <1>1, <1>2, <2>1, <2>2
  <2>3. CASE ~(i < k)
    <3>1. i - (k - 1) \in 1..Len(s) - k /\ k + (i - (k - 1)) = i + 1
      BY <1>1, <2>3
    <3>2. b[i - (k - 1)] = s[i + 1]
      BY <1>3, <3>1
    <3>3. Len(a) = k - 1 /\ ~(i <= k - 1)
      BY <1>1, <1>2, <2>3
    <3>4. c[i] = b[i - (k - 1)]
      BY <2>1, <3>3
    <3> QED BY <2>3, <3>2, <3>4
  <2> QED BY <2>2, <2>3
<1> QED BY <1>1, <1>2, <1>3, <1>4, <1>5, <1>6 DEF c

LEMMA VersionsAre ==
    ASSUME TableTypeOK, NEW r \in Row
    PROVE  /\ chain[r] \in Seq(Version) /\ Versions(r) \subseteq Version
           /\ \A v : v \in Versions(r) <=> \E i \in 1..Len(chain[r]) : chain[r][i] = v
BY DEF TableTypeOK, Versions, ToSet, Version

\* A version is put in front of the chain of r, or leaves it at place k.
NewHead(r, v) ==
    /\ chain' \in [Row -> Seq(Version)]
    /\ \A q \in Row \ {r} : chain'[q] = chain[q]
    /\ Len(chain'[r]) = Len(chain[r]) + 1
    /\ chain'[r][1] = v
    /\ \A i \in 1..Len(chain[r]) : chain'[r][i + 1] = chain[r][i]

Without(r, v, k) ==
    /\ chain' \in [Row -> Seq(Version)]
    /\ \A q \in Row \ {r} : chain'[q] = chain[q]
    /\ k \in 1..Len(chain[r])
    /\ chain[r][k] = v
    /\ Len(chain'[r]) = Len(chain[r]) - 1
    /\ \A i \in 1..Len(chain[r]) - 1 :
           chain'[r][i] = IF i < k THEN chain[r][i] ELSE chain[r][i + 1]

UndoEntries == [row : Row, saved : Data \cup {NoData}]

LEMMA EntryTypes ==
    ASSUME TableTypeOK, NEW u \in Tx
    PROVE  /\ undo[u] \in Seq(UndoEntries) /\ Len(undo[u]) \in Nat
           /\ \A i \in 1..Len(undo[u]) :
                 /\ undo[u][i] \in UndoEntries
                 /\ undo[u][i].row \in Row
                 /\ undo[u][i].saved \in Data \cup {NoData}
<1>1. undo[u] \in Seq(UndoEntries) /\ Len(undo[u]) \in Nat
  BY LenProperties DEF TableTypeOK, UndoEntries
<1>2. ASSUME NEW i \in 1..Len(undo[u]) PROVE undo[u][i] \in UndoEntries
  BY <1>1, ElementOfSeq
<1>3. \A e \in UndoEntries : e.row \in Row /\ e.saved \in Data \cup {NoData}
  BY DEF UndoEntries
<1> QED BY <1>1, <1>2, <1>3

\* An entry is added to the undo buffer of t, or leaves it.
Grown(t, e) ==
    /\ undo' \in [Tx -> Seq(UndoEntries)]
    /\ \A u \in Tx \ {t} : undo'[u] = undo[u]
    /\ Len(undo'[t]) = Len(undo[t]) + 1
    /\ undo'[t][Len(undo[t]) + 1] = e
    /\ \A i \in 1..Len(undo[t]) : undo'[t][i] = undo[t][i]

Shrunk(t) ==
    /\ undo' \in [Tx -> Seq(UndoEntries)]
    /\ \A u \in Tx \ {t} : undo'[u] = undo[u]
    /\ Len(undo'[t]) = Len(undo[t]) - 1
    /\ \A i \in 1..Len(undo[t]) - 1 : undo'[t][i] = undo[t][i]

LEMMA PushEffects ==
    ASSUME TableTypeOK, NEW t \in Tx, NEW r \in Row, NEW saved \in Data \cup {NoData},
           Push(t, r, saved)
    PROVE  /\ NewHead(r, <<t, Len(undo[t]) + 1>>)
           /\ Grown(t, [row |-> r, saved |-> saved])
<1> DEFINE n == Len(undo[t]) + 1
<1> DEFINE e == [row |-> r, saved |-> saved]
<1> DEFINE vs == <<<<t, n>>>> \o chain[r]
<1> DEFINE es == Append(undo[t], e)
<1>1. /\ chain \in [Row -> Seq(Version)] /\ chain[r] \in Seq(Version)
      /\ undo \in [Tx -> Seq(UndoEntries)] /\ undo[t] \in Seq(UndoEntries)
  BY DEF TableTypeOK, Version, UndoEntries
<1>2. n \in Nat /\ <<t, n>> \in Version /\ e \in UndoEntries
  BY <1>1, LenProperties DEF Version, UndoEntries
<1>3. chain' = [chain EXCEPT ![r] = vs] /\ undo' = [undo EXCEPT ![t] = es]
  BY DEF Push
<1> HIDE DEF n, e
<1>4. /\ vs \in Seq(Version) /\ Len(vs) = Len(chain[r]) + 1 /\ vs[1] = <<t, n>>
      /\ \A i \in 1..Len(chain[r]) : vs[i + 1] = chain[r][i]
  <2> DEFINE v == <<t, n>>
  <2>1. <<v>> \in Seq(Version) /\ Len(<<v>>) = 1 /\ <<v>>[1] = v
    BY <1>2
  <2> HIDE DEF v
  <2>2. <<v>> \o chain[r] \in Seq(Version)
        /\ Len(<<v>> \o chain[r]) = Len(chain[r]) + 1
        /\ (<<v>> \o chain[r])[1] = v
        /\ \A i \in 1..Len(chain[r]) : (<<v>> \o chain[r])[i + 1] = chain[r][i]
    BY <1>1, <2>1, ConcatProperties
  <2> QED BY <2>2 DEF v
<1>5. /\ es \in Seq(UndoEntries) /\ Len(es) = Len(undo[t]) + 1 /\ es[n] = e
      /\ \A i \in 1..Len(undo[t]) : es[i] = undo[t][i]
  BY <1>1, <1>2, AppendProperties DEF n
<1> HIDE DEF vs, es
<1>6. NewHead(r, <<t, n>>)
  BY <1>1, <1>3, <1>4 DEF NewHead
<1>7. Grown(t, e)
  BY <1>1, <1>3, <1>5 DEF Grown, n
<1> QED BY <1>6, <1>7 DEF n, e

LEMMA UnlinkEffects ==
    ASSUME TableTypeOK, NEW r \in Row, NEW v \in Versions(r), Unlink(r, v)
    PROVE  \E k \in 1..Len(chain[r]) : Without(r, v, k)
<1> DEFINE k == CHOOSE k \in 1..Len(chain[r]) : chain[r][k] = v
<1> DEFINE vs == RemoveAt(chain[r], k)
<1>1. chain \in [Row -> Seq(Version)] /\ chain[r] \in Seq(Version)
  BY DEF TableTypeOK, Version
<1>2. k \in 1..Len(chain[r]) /\ chain[r][k] = v
  BY VersionsAre
<1>3. chain' = [chain EXCEPT ![r] = vs]
  BY DEF Unlink
<1> HIDE DEF k
<1>4. /\ vs \in Seq(Version) /\ Len(vs) = Len(chain[r]) - 1
      /\ \A i \in 1..Len(chain[r]) - 1 : vs[i] = IF i < k THEN chain[r][i] ELSE chain[r][i + 1]
  BY <1>1, <1>2, RemoveAtProperties
<1> HIDE DEF vs
<1>5. Without(r, v, k)
  BY <1>1, <1>2, <1>3, <1>4 DEF Without
<1> QED BY <1>2, <1>5

LEMMA FrontEffects ==
    ASSUME TableTypeOK, NEW t \in Tx, undo[t] # << >>, undo' = [undo EXCEPT ![t] = Front(@)]
    PROVE  Shrunk(t)
<1> DEFINE es == Front(undo[t])
<1>1. undo \in [Tx -> Seq(UndoEntries)] /\ undo[t] \in Seq(UndoEntries)
  BY DEF TableTypeOK, UndoEntries
<1>2. /\ es \in Seq(UndoEntries) /\ Len(es) = Len(undo[t]) - 1
      /\ \A i \in 1..Len(undo[t]) - 1 : es[i] = undo[t][i]
  <2>1. Len(undo[t]) \in Nat /\ Len(undo[t]) >= 1 /\ \A i \in 1..Len(undo[t]) : undo[t][i] \in UndoEntries
    BY <1>1, LenProperties, ElementOfSeq, EmptySeq
  <2> DEFINE m == Len(undo[t]) - 1
             fs == SubSeq(undo[t], 1, m)
  <2>2. es = fs
    BY DEF Front
  <2>3. /\ fs \in Seq(UndoEntries) /\ Len(fs) = IF 1 <= m THEN m - 1 + 1 ELSE 0
        /\ \A i \in 1..m - 1 + 1 : fs[i] = undo[t][1 + i - 1]
    BY <2>1, SubSeqProperties
  <2> HIDE DEF fs, es
  <2> QED BY <2>1, <2>2, <2>3
<1>3. undo' = [undo EXCEPT ![t] = es]
  OBVIOUS
<1> HIDE DEF es
<1> QED BY <1>1, <1>2, <1>3 DEF Shrunk

LEMMA VersionsAreNext ==
    ASSUME chain' \in [Row -> Seq(Version)], NEW r \in Row
    PROVE  \A v : v \in Versions(r)' <=> \E i \in 1..Len(chain'[r]) : chain'[r][i] = v
BY DEF Versions, ToSet

LEMMA VersionsPush ==
    ASSUME TableTypeOK, NEW r \in Row, NEW v \in Version, NewHead(r, v)
    PROVE  /\ Versions(r)' = Versions(r) \cup {v}
           /\ \A q \in Row \ {r} : Versions(q)' = Versions(q)
<1>1. Len(chain[r]) \in Nat
  BY VersionsAre, LenProperties
<1>2. ASSUME NEW w PROVE w \in Versions(r)' <=> w \in Versions(r) \cup {v}
  <2>1. w \in Versions(r)' <=> \E i \in 1..Len(chain'[r]) : chain'[r][i] = w
    BY VersionsAreNext DEF NewHead
  <2>2. ASSUME NEW i \in 1..Len(chain'[r]), chain'[r][i] = w
        PROVE  w \in Versions(r) \cup {v}
    <3>1. CASE i = 1
      BY <2>2, <3>1 DEF NewHead
    <3>2. CASE i # 1
      <4>1. i - 1 \in 1..Len(chain[r]) /\ (i - 1) + 1 = i
        BY <1>1, <3>2 DEF NewHead
      <4>2. chain[r][i - 1] = w
        BY <2>2, <4>1 DEF NewHead
      <4> QED BY <4>1, <4>2, VersionsAre
    <3> QED BY <3>1, <3>2
  <2>3. ASSUME w \in Versions(r) PROVE \E i \in 1..Len(chain'[r]) : chain'[r][i] = w
    <3>1. PICK i \in 1..Len(chain[r]) : chain[r][i] = w
      BY <2>3, VersionsAre
    <3>2. i + 1 \in 1..Len(chain'[r]) /\ chain'[r][i + 1] = w
      BY <1>1, <3>1 DEF NewHead
    <3> QED BY <3>2
  <2>4. 1 \in 1..Len(chain'[r]) /\ chain'[r][1] = v
    BY <1>1 DEF NewHead
  <2> QED BY <2>1, <2>2, <2>3, <2>4
<1>3. ASSUME NEW q \in Row \ {r} PROVE Versions(q)' = Versions(q)
  BY DEF NewHead, Versions, ToSet
<1> QED BY <1>2, <1>3

LEMMA NewerIsStrict ==
    ASSUME NEW v \in Version, NEW w \in Version, Newer(v, w)
    PROVE  v # w
BY DEF Newer, Version

LEMMA VersionsCut ==
    ASSUME TableTypeOK, OrderInv, NEW r \in Row, NEW v \in Version, NEW k, Without(r, v, k)
    PROVE  /\ Versions(r)' = Versions(r) \ {v}
           /\ \A q \in Row \ {r} : Versions(q)' = Versions(q)
<1>1. Len(chain[r]) \in Nat /\ k \in 1..Len(chain[r]) /\ chain[r][k] = v
  BY VersionsAre, LenProperties DEF Without
<1>2. \A i \in 1..Len(chain[r]) : chain[r][i] \in Version
  BY VersionsAre, ElementOfSeq
<1>3. \A i \in 1..Len(chain[r]) : i # k => chain[r][i] # v
  <2> SUFFICES ASSUME NEW i \in 1..Len(chain[r]), i # k PROVE chain[r][i] # v
    OBVIOUS
  <2>1. CASE i < k
    <3>1. InFront(r, chain[r][i], v)
      BY <1>1, <2>1 DEF InFront
    <3> QED BY <1>2, <3>1, NewerIsStrict DEF OrderInv
  <2>2. CASE i > k
    <3>1. InFront(r, v, chain[r][i])
      BY <1>1, <2>2 DEF InFront
    <3> QED BY <1>2, <3>1, NewerIsStrict DEF OrderInv
  <2> QED BY <1>1, <2>1, <2>2
<1>4. ASSUME NEW w PROVE w \in Versions(r)' <=> w \in Versions(r) \ {v}
  <2>1. w \in Versions(r)' <=> \E i \in 1..Len(chain'[r]) : chain'[r][i] = w
    BY VersionsAreNext DEF Without
  <2>2. ASSUME NEW i \in 1..Len(chain'[r]), chain'[r][i] = w
        PROVE  w \in Versions(r) \ {v}
    <3>1. i \in 1..Len(chain[r]) - 1
      BY DEF Without
    <3>2. CASE i < k
      <4>1. i \in 1..Len(chain[r]) /\ i # k /\ chain[r][i] = w
        BY <1>1, <2>2, <3>1, <3>2 DEF Without
      <4> QED BY <1>3, <4>1, VersionsAre
    <3>3. CASE ~(i < k)
      <4>1. i + 1 \in 1..Len(chain[r]) /\ i + 1 # k /\ chain[r][i + 1] = w
        BY <1>1, <2>2, <3>1, <3>3 DEF Without
      <4> QED BY <1>3, <4>1, VersionsAre
    <3> QED BY <3>2, <3>3
  <2>3. ASSUME w \in Versions(r), w # v PROVE \E i \in 1..Len(chain'[r]) : chain'[r][i] = w
    <3>1. PICK i \in 1..Len(chain[r]) : chain[r][i] = w
      BY <2>3, VersionsAre
    <3>2. i # k
      BY <1>1, <2>3, <3>1
    <3>3. CASE i < k
      <4>1. i \in 1..Len(chain[r]) - 1
        BY <1>1, <3>3
      <4> QED BY <3>1, <3>3, <4>1 DEF Without
    <3>4. CASE i > k
      <4>1. i - 1 \in 1..Len(chain[r]) - 1 /\ ~(i - 1 < k) /\ (i - 1) + 1 = i
        BY <1>1, <3>4
      <4>2. chain'[r][i - 1] = w
        BY <3>1, <4>1 DEF Without
      <4>3. i - 1 \in 1..Len(chain'[r])
        BY <4>1 DEF Without
      <4> QED BY <4>2, <4>3
    <3> QED BY <1>1, <3>2, <3>3, <3>4
  <2> QED BY <2>1, <2>2, <2>3
<1>5. ASSUME NEW q \in Row \ {r} PROVE Versions(q)' = Versions(q)
  BY DEF Without, Versions, ToSet
<1> QED BY <1>4, <1>5

LEMMA VersionsSame == ASSUME UNCHANGED chain, NEW r PROVE Versions(r)' = Versions(r)
BY DEF Versions

-----------------------------------------------------------------------------
(* The order of chains. *)

\* Who is in front of whom does not change for versions that are in a chain.
NewerStays == \A v \in Version, w \in Version : Newer(v, w) => Newer(v, w)'

LEMMA OrderSame ==
    ASSUME OrderInv, UNCHANGED chain, NewerStays
    PROVE  OrderInv'
<1> SUFFICES ASSUME NEW r \in Row, NEW v \in Version, NEW w \in Version, InFront(r, v, w)'
             PROVE  Newer(v, w)'
  BY DEF OrderInv
<1>1. InFront(r, v, w)
  BY DEF InFront
<1> QED BY <1>1 DEF OrderInv, NewerStays

LEMMA OrderPush ==
    ASSUME TableTypeOK, OrderInv, NewerStays,
           NEW r \in Row, NEW h \in Version, NewHead(r, h),
           \A w \in Versions(r) : Newer(h, w)'
    PROVE  OrderInv'
<1> SUFFICES ASSUME NEW q \in Row, NEW v \in Version, NEW w \in Version, InFront(q, v, w)'
             PROVE  Newer(v, w)'
  BY DEF OrderInv
<1>1. CASE q # r
  <2>1. InFront(q, v, w)
    BY <1>1 DEF InFront, NewHead
  <2> QED BY <2>1 DEF OrderInv, NewerStays
<1>2. CASE q = r
  <2>1. PICK i \in 1..Len(chain'[r]), j \in 1..Len(chain'[r]) :
            i < j /\ chain'[r][i] = v /\ chain'[r][j] = w
    BY <1>2 DEF InFront
  <2>2. Len(chain[r]) \in Nat
    BY VersionsAre, LenProperties
  <2>3. j - 1 \in 1..Len(chain[r]) /\ (j - 1) + 1 = j
    BY <2>1, <2>2 DEF NewHead
  <2>4. chain[r][j - 1] = w
    BY <2>1, <2>3 DEF NewHead
  <2>5. CASE i = 1
    <3>1. v = h /\ w \in Versions(r)
      BY <2>1, <2>3, <2>4, <2>5, VersionsAre DEF NewHead
    <3> QED BY <3>1
  <2>6. CASE i # 1
    <3>1. i - 1 \in 1..Len(chain[r]) /\ (i - 1) + 1 = i /\ i - 1 < j - 1
      BY <2>1, <2>2, <2>6 DEF NewHead
    <3>2. chain[r][i - 1] = v
      BY <2>1, <3>1 DEF NewHead
    <3>3. InFront(r, v, w)
      BY <2>3, <2>4, <3>1, <3>2 DEF InFront
    <3> QED BY <3>3 DEF OrderInv, NewerStays
  <2> QED BY <2>5, <2>6
<1> QED BY <1>1, <1>2

LEMMA OrderCut ==
    ASSUME TableTypeOK, OrderInv, NewerStays,
           NEW r \in Row, NEW x \in Version, NEW k, Without(r, x, k)
    PROVE  OrderInv'
<1> SUFFICES ASSUME NEW q \in Row, NEW v \in Version, NEW w \in Version, InFront(q, v, w)'
             PROVE  InFront(q, v, w)
  BY DEF OrderInv, NewerStays
<1>1. CASE q # r
  BY <1>1 DEF InFront, Without
<1>2. CASE q = r
  <2> DEFINE at(i) == IF i < k THEN i ELSE i + 1
  <2>1. PICK i \in 1..Len(chain'[r]), j \in 1..Len(chain'[r]) :
            i < j /\ chain'[r][i] = v /\ chain'[r][j] = w
    BY <1>2 DEF InFront
  <2>2. Len(chain[r]) \in Nat /\ k \in 1..Len(chain[r]) /\ Len(chain'[r]) = Len(chain[r]) - 1
    BY VersionsAre, LenProperties DEF Without
  <2>3. at(i) \in 1..Len(chain[r]) /\ at(j) \in 1..Len(chain[r]) /\ at(i) < at(j)
    BY <2>1, <2>2
  <2>4. chain[r][at(i)] = v /\ chain[r][at(j)] = w
    BY <2>1, <2>2 DEF Without
  <2> HIDE DEF at
  <2> QED BY <1>2, <2>3, <2>4 DEF InFront
<1> QED BY <1>1, <1>2

-----------------------------------------------------------------------------
(* What each kind of step does to the table. *)

\* Scans, locks and conflicts: the table stays as it is.
Quiet ==
    /\ ClockSame
    /\ UNCHANGED <<data, deleted, count, chain, undo, stamped, writes, clobbered>>

LEMMA QuietSteps ==
    ASSUME ClockTypeOK, NEW t \in Tx,
           \/ \E kind \in Kinds : BeginScan(t, kind)
           \/ ScanRow(t) \/ EndScan(t) \/ LockChunk(t) \/ ThrowConflict(t)
    PROVE  Quiet
<1>1. ClockSame
  BY ClockSameSteps
<1> QED BY <1>1 DEF Quiet, BeginScan, ScanRow, EndScan, LockChunk, ThrowConflict,
                    table, history

\* The life of a transaction: only its own condition and the clock change.
ClockStepOf(t) ==
    \/ StartTransaction(t) \/ CommitTransaction(t) \/ RollbackTransaction(t)
    \/ BeginRemove(t) \/ CleanupDone(t) \/ EndRemove(t)

LEMMA ClockStepSame ==
    ASSUME NEW t \in Tx, ClockStepOf(t)
    PROVE  UNCHANGED <<data, deleted, count, chain, undo, stamped, writes, clobbered,
                       issued, statement, cursor, ids, todo, exclusive_lock, readers>>
BY DEF ClockStepOf, StartTransaction, CommitTransaction, RollbackTransaction, BeginRemove,
       CleanupDone, EndRemove, table, history, statements, locks

\* A statement pushes row r, an INSERT with no data.
Pushes(t, r, saved) ==
    /\ ClockSame
    /\ phase[t] \in Running
    /\ NewHead(r, <<t, Len(undo[t]) + 1>>)
    /\ Grown(t, [row |-> r, saved |-> saved])
    /\ UNCHANGED stamped

LEMMA PushRowEffects ==
    ASSUME ClockTypeOK, TableTypeOK, NEW t \in Tx, NEW r \in Row, PushRow(t, r)
    PROVE  Pushes(t, r, data[r])
<1>1. ClockSame
  BY ClockSameSteps
<1>2. data[r] \in Data \cup {NoData}
  BY DEF TableTypeOK
<1>3. Push(t, r, data[r]) /\ phase[t] \in Running /\ UNCHANGED stamped
  BY DEF PushRow, Running
<1> QED BY <1>1, <1>2, <1>3, PushEffects DEF Pushes

LEMMA InsertEffects ==
    ASSUME ClockTypeOK, TableTypeOK, NEW t \in Tx, Insert(t)
    PROVE  count + 1 \in Row /\ Pushes(t, count + 1, NoData)
<1>1. ClockSame
  BY ClockSameSteps
<1>2. count + 1 \in Row
  BY RowsAssumption DEF Insert, TableTypeOK, Row
<1>3. Push(t, count + 1, NoData) /\ phase[t] \in Running /\ UNCHANGED stamped
  BY DEF Insert, Running
<1> QED BY <1>1, <1>2, <1>3, PushEffects DEF Pushes

\* Rollback takes the last entry of t's buffer, which is linked.
Undoes(t, e, k) ==
    /\ ClockSame
    /\ phase[t] = "undoing" /\ Len(undo[t]) >= 1
    /\ e = undo[t][Len(undo[t])] /\ e \in UndoEntries
    /\ Without(e.row, <<t, Len(undo[t])>>, k)
    /\ Shrunk(t)
    /\ UNCHANGED stamped

LEMMA UndoEffects ==
    ASSUME ClockTypeOK, TableTypeOK, KeptInv, NEW t \in Tx, UndoEntry(t)
    PROVE  \E e \in UndoEntries, k \in Nat : Undoes(t, e, k)
<1> DEFINE n == Len(undo[t])
           e == undo[t][n]
<1>1. ClockSame
  BY ClockSameSteps
<1>2. phase[t] = "undoing" /\ undo[t] # << >> /\ Unlink(e.row, <<t, n>>)
      /\ undo' = [undo EXCEPT ![t] = Front(@)] /\ UNCHANGED stamped
  BY DEF UndoEntry
<1>3. undo[t] \in Seq(UndoEntries)
  BY DEF TableTypeOK, UndoEntries
<1>4. n \in 1..Len(undo[t]) /\ n \in Nat
  BY <1>2, <1>3, LenProperties, EmptySeq
<1>5. e \in UndoEntries /\ e.row \in Row
  BY <1>4, EntryTypes
<1>6. <<t, n>> \in Versions(e.row)
  BY <1>2, <1>4 DEF KeptInv, Kept
<1>7. Shrunk(t)
  BY <1>2, FrontEffects
<1> HIDE DEF n, e
<1>8. PICK k \in 1..Len(chain[e.row]) : Without(e.row, <<t, n>>, k)
  BY <1>2, <1>5, <1>6, UnlinkEffects
<1>9. Undoes(t, e, k) /\ k \in Nat
  BY <1>1, <1>2, <1>4, <1>5, <1>7, <1>8 DEF Undoes, n, e
<1> QED BY <1>5, <1>9

\* Cleanup takes an entry of a transaction that nobody overlaps any more.
Cleans(u, i, k) ==
    /\ ClockSame
    /\ i \in 1..Len(undo[u])
    /\ phase[u] \in {"cleaning", "done"} /\ commit_id[u] # 0 /\ ~Overlaps(u)
    /\ undo[u][i].row \in Row
    /\ Without(undo[u][i].row, <<u, i>>, k)
    /\ UNCHANGED <<data, deleted, count, undo, stamped, writes, clobbered>>

LEMMA CleanupEffects ==
    ASSUME ClockTypeOK, ClockInv, TableTypeOK, NEW t \in Tx, CleanupEntry(t)
    PROVE  \E u \in Tx, i \in Nat, k \in Nat : Cleans(u, i, k)
<1> DEFINE u == Head(recently_committed)
<1>1. ClockSame
  BY ClockSameSteps
<1>2. Cleanable /\ UNCHANGED <<data, deleted, count, undo, stamped, writes, clobbered>>
  BY DEF CleanupEntry, history
<1>3. u \in Tx /\ phase[u] \in {"cleaning", "done"} /\ commit_id[u] # 0
  <2>1. recently_committed \in Seq(Tx) /\ recently_committed # << >>
    BY <1>2 DEF Cleanable, ClockTypeOK
  <2>2. 1 \in 1..Len(recently_committed) /\ u = recently_committed[1]
    BY <2>1
  <2> QED BY <2>1, <2>2, ElementOfSeq DEF ClockInv
<1>4. ~Overlaps(u)
  BY <1>2, <1>3 DEF Cleanable, Overlaps, Active, ClockTypeOK
<1>5. PICK i \in Linked(u) : Unlink(undo[u][i].row, <<u, i>>)
  BY DEF CleanupEntry
<1> HIDE DEF u
<1>6. undo[u] \in Seq(UndoEntries)
  BY <1>3 DEF TableTypeOK, UndoEntries
<1>7. i \in 1..Len(undo[u]) /\ i \in Nat
  BY <1>5, <1>6, LenProperties DEF Linked
<1>8. undo[u][i].row \in Row
  BY <1>3, <1>7, EntryTypes
<1>9. <<u, i>> \in Versions(undo[u][i].row)
  <2>1. \E j \in 1..Len(chain[undo[u][i].row]) : chain[undo[u][i].row][j] = <<u, i>>
    BY <1>5 DEF Linked, Contains
  <2> QED BY <1>8, <2>1, VersionsAre
<1>10. PICK k \in 1..Len(chain[undo[u][i].row]) : Without(undo[u][i].row, <<u, i>>, k)
  <2> DEFINE r == undo[u][i].row
  <2> HIDE DEF r
  <2> QED BY <1>5, <1>8, <1>9, UnlinkEffects DEF r
<1>11. k \in Nat
  BY <1>8, VersionsAre, LenProperties
<1>12. Cleans(u, i, k)
  BY <1>1, <1>2, <1>3, <1>4, <1>7, <1>8, <1>10 DEF Cleans
<1> QED BY <1>3, <1>7, <1>11, <1>12

LEMMA StepKinds ==
    ASSUME ClockTypeOK, ClockInv, TableTypeOK, KeptInv, [Next]_vars
    PROVE  \/ Quiet
           \/ \E t \in Tx : ClockStepOf(t)
           \/ \E t \in Tx : StampEntry(t) /\ ClockSame
           \/ \E t \in Tx : FinishStatement(t) /\ ClockSame
           \/ \E t \in Tx, r \in Row : PushRow(t, r) /\ Pushes(t, r, data[r])
           \/ \E t \in Tx : Insert(t) /\ count + 1 \in Row /\ Pushes(t, count + 1, NoData)
           \/ \E t \in Tx, e \in UndoEntries, k \in Nat : UndoEntry(t) /\ Undoes(t, e, k)
           \/ \E u \in Tx, i \in Nat, k \in Nat : Cleans(u, i, k)
<1>1. CASE UNCHANGED vars
  BY <1>1 DEF vars, transactions, table, history, Quiet, ClockSame, ClockTypeOK
<1>2. ASSUME NEW t \in Tx, \/ \E kind \in Kinds : BeginScan(t, kind)
                           \/ ScanRow(t) \/ EndScan(t) \/ LockChunk(t) \/ ThrowConflict(t)
      PROVE  Quiet
  BY <1>2, QuietSteps
<1>3. ASSUME NEW t \in Tx, StampEntry(t) \/ FinishStatement(t) PROVE ClockSame
  BY <1>3, ClockSameSteps
<1> QED BY <1>1, <1>2, <1>3, PushRowEffects, InsertEffects, UndoEffects, CleanupEffects
        DEF Next, ClockStepOf

-----------------------------------------------------------------------------
(* Chains and undo buffers belong together. *)

LEMMA EntriesGrown ==
    ASSUME TableTypeOK, NEW t \in Tx, NEW e, Grown(t, e), NEW u \in Tx
    PROVE  /\ Len(undo'[u]) = IF u = t THEN Len(undo[t]) + 1 ELSE Len(undo[u])
           /\ \A i \in 1..Len(undo[u]) : i \in 1..Len(undo'[u]) /\ undo'[u][i] = undo[u][i]
<1>1. Len(undo[u]) \in Nat
  BY EntryTypes
<1> QED BY <1>1 DEF Grown

LEMMA EntriesShrunk ==
    ASSUME TableTypeOK, NEW t \in Tx, Shrunk(t), NEW u \in Tx
    PROVE  /\ Len(undo'[u]) = IF u = t THEN Len(undo[t]) - 1 ELSE Len(undo[u])
           /\ \A i \in 1..Len(undo'[u]) : i \in 1..Len(undo[u]) /\ undo'[u][i] = undo[u][i]
<1>1. Len(undo[u]) \in Nat
  BY EntryTypes
<1> QED BY <1>1 DEF Shrunk

LEMMA StampStep ==
    ASSUME ClockTypeOK, ClockInv, TableTypeOK, KeptInv, StampInv, [Next]_vars
    PROVE  StampInv'
<1> SUFFICES ASSUME NEW u \in Tx
             PROVE  /\ stamped'[u] <= Len(undo'[u])
                    /\ commit_id'[u] = 0 => stamped'[u] = 0
                    /\ phase'[u] \in {"cleaning", "done"} /\ commit_id'[u] # 0 =>
                           stamped'[u] = Len(undo'[u])
                    /\ phase'[u] = "idle" \/ (phase'[u] \in {"cleaning", "done"} /\ commit_id'[u] = 0) =>
                           undo'[u] = << >>
  BY DEF StampInv
<1>1. Len(undo[u]) \in Nat /\ stamped[u] \in Nat /\ undo[u] \in Seq(UndoEntries)
  BY EntryTypes DEF TableTypeOK
<1>2. CASE ClockSame /\ UNCHANGED <<undo, stamped>>
  BY <1>2 DEF StampInv, ClockSame, transactions, Running
<1>3. ASSUME NEW t \in Tx, ClockStepOf(t) PROVE StampInv'
  <2>1. UNCHANGED <<undo, stamped>>
    BY <1>3, ClockStepSame
  <2>2. CASE StartTransaction(t)
    BY <2>1, <2>2 DEF StampInv, StartTransaction, Goto, ClockTypeOK
  <2>3. CASE CommitTransaction(t)
    BY <2>1, <2>3 DEF StampInv, ClockInv, CommitTransaction, Goto, ClockTypeOK, Running
  <2>4. CASE RollbackTransaction(t)
    BY <2>1, <2>4 DEF StampInv, RollbackTransaction, Goto, ClockTypeOK
  <2>5. CASE BeginRemove(t)
    BY <2>1, <2>5 DEF StampInv, ClockInv, BeginRemove, Goto, ClockTypeOK
  <2>6. CASE CleanupDone(t) \/ EndRemove(t)
    BY <2>1, <2>6 DEF StampInv, CleanupDone, EndRemove, Goto, ClockTypeOK
  <2> QED BY <1>3, <2>2, <2>3, <2>4, <2>5, <2>6 DEF ClockStepOf
<1>4. ASSUME NEW t \in Tx, StampEntry(t) PROVE StampInv'
  <2>1. \A x \in Tx : Len(undo[x]) \in Nat /\ stamped[x] \in Nat
    BY EntryTypes DEF TableTypeOK
  <2>2. \A x \in Tx : stamped'[x] = IF x = t THEN stamped[t] + 1 ELSE stamped[x]
    BY <1>4 DEF StampEntry, TableTypeOK
  <2>3. commit_id[t] # 0
    BY <1>4 DEF StampEntry, ClockInv
  <2>4. /\ phase[t] = "stamping" /\ stamped[t] < Len(undo[t])
        /\ UNCHANGED <<phase, commit_id, undo>>
    BY <1>4 DEF StampEntry, transactions
  <2> QED BY <2>1, <2>2, <2>3, <2>4 DEF StampInv
<1>5. ASSUME NEW t \in Tx, NEW r \in Row, NEW saved, Pushes(t, r, saved)
      PROVE  StampInv'
  <2>1. \A x \in Tx : Len(undo[x]) \in Nat /\ stamped[x] \in Nat
    BY EntryTypes DEF TableTypeOK
  <2>2. /\ Len(undo'[t]) = Len(undo[t]) + 1
        /\ \A x \in Tx \ {t} : undo'[x] = undo[x]
    BY <1>5 DEF Pushes, Grown
  <2>3. /\ phase[t] \in Running /\ phase'[t] \in Running /\ commit_id[t] = 0
        /\ \A x \in Tx : commit_id'[x] = commit_id[x] /\ stamped'[x] = stamped[x]
        /\ \A x \in Tx : phase'[x] = phase[x] \/ (phase[x] \in Running /\ phase'[x] \in Running)
    BY <1>5 DEF Pushes, ClockSame, transactions, ClockInv, Running
  <2> QED BY <2>1, <2>2, <2>3 DEF StampInv, Running
<1>6. ASSUME NEW t \in Tx, NEW e, NEW k, Undoes(t, e, k) PROVE StampInv'
  <2>1. \A x \in Tx : Len(undo[x]) \in Nat /\ stamped[x] \in Nat
    BY EntryTypes DEF TableTypeOK
  <2>2. /\ Len(undo'[t]) = Len(undo[t]) - 1 /\ Len(undo[t]) >= 1
        /\ \A x \in Tx \ {t} : undo'[x] = undo[x]
    BY <1>6 DEF Undoes, Shrunk
  <2>3. /\ phase[t] = "undoing" /\ phase'[t] = "undoing" /\ commit_id[t] = 0
        /\ \A x \in Tx : commit_id'[x] = commit_id[x] /\ stamped'[x] = stamped[x]
        /\ \A x \in Tx : phase'[x] = phase[x] \/ (phase[x] \in Running /\ phase'[x] \in Running)
    BY <1>6 DEF Undoes, ClockSame, transactions, ClockInv, Running
  <2> QED BY <2>1, <2>2, <2>3 DEF StampInv, Running
<1>7. CASE Quiet \/ (\E t \in Tx : FinishStatement(t) /\ ClockSame)
           \/ (\E x \in Tx, i \in Nat, k \in Nat : Cleans(x, i, k))
  BY <1>2, <1>7 DEF Quiet, FinishStatement, Cleans
<1> QED BY <1>3, <1>4, <1>5, <1>6, <1>7, StepKinds DEF StampInv

\* The new version of a push, and the one that a rollback takes back.
LEMMA PushedVersions ==
    ASSUME TableTypeOK, NEW t \in Tx, NEW r \in Row, NEW saved, Pushes(t, r, saved)
    PROVE  /\ Versions(r)' = Versions(r) \cup {<<t, Len(undo[t]) + 1>>}
           /\ \A q \in Row \ {r} : Versions(q)' = Versions(q)
           /\ <<t, Len(undo[t]) + 1>> \in Version
<1>1. <<t, Len(undo[t]) + 1>> \in Version
  BY EntryTypes DEF Version
<1> DEFINE h == <<t, Len(undo[t]) + 1>>
<1>2. NewHead(r, h) /\ h \in Version
  BY <1>1 DEF Pushes
<1> HIDE DEF h
<1>3. /\ Versions(r)' = Versions(r) \cup {h}
      /\ \A q \in Row \ {r} : Versions(q)' = Versions(q)
  BY <1>2, VersionsPush
<1> QED BY <1>2, <1>3 DEF h

LEMMA UndoneVersions ==
    ASSUME TableTypeOK, OrderInv, NEW t \in Tx, NEW e \in UndoEntries, NEW k, Undoes(t, e, k)
    PROVE  /\ Versions(e.row)' = Versions(e.row) \ {<<t, Len(undo[t])>>}
           /\ \A q \in Row \ {e.row} : Versions(q)' = Versions(q)
           /\ <<t, Len(undo[t])>> \in Versions(e.row)
           /\ e.row \in Row
<1> DEFINE h == <<t, Len(undo[t])>>
<1>1. h \in Version
  BY EntryTypes DEF Version
<1>2. e.row \in Row
  BY DEF UndoEntries
<1>3. Without(e.row, h, k)
  BY DEF Undoes
<1> HIDE DEF h
<1>4. h \in Versions(e.row)
  BY <1>2, <1>3, VersionsAre DEF Without
<1> QED BY <1>1, <1>2, <1>3, <1>4, VersionsCut DEF h

LEMMA CleanedVersions ==
    ASSUME TableTypeOK, OrderInv, NEW u \in Tx, NEW i \in Nat, NEW k, Cleans(u, i, k)
    PROVE  \E r \in Row :
              /\ r = undo[u][i].row
              /\ Versions(r)' = Versions(r) \ {<<u, i>>}
              /\ \A q \in Row \ {r} : Versions(q)' = Versions(q)
              /\ <<u, i>> \in Versions(r)
<1> DEFINE h == <<u, i>>
<1>1. h \in Version
  BY DEF Version
<1>2. PICK r \in Row : r = undo[u][i].row /\ Without(r, h, k)
  BY DEF Cleans
<1> HIDE DEF h
<1>3. h \in Versions(r)
  BY <1>2, VersionsAre DEF Without
<1>4. /\ Versions(r)' = Versions(r) \ {h}
      /\ \A q \in Row \ {r} : Versions(q)' = Versions(q)
  BY <1>1, <1>2, VersionsCut
<1> QED BY <1>2, <1>3, <1>4 DEF h

LEMMA LinkStep ==
    ASSUME ClockTypeOK, ClockInv, TableTypeOK, KeptInv, OrderInv, LinkInv, [Next]_vars
    PROVE  LinkInv'
<1>1. ASSUME NEW r \in Row, NEW v \in Versions(r)
      PROVE  /\ v \in Version /\ v[1] \in Tx /\ v[2] \in 1..Len(undo[v[1]])
             /\ undo[v[1]][v[2]].row = r
  BY VersionsAre DEF LinkInv, Version
<1>2. CASE UNCHANGED <<chain, undo>>
  BY <1>2, VersionsSame DEF LinkInv
<1>3. ASSUME NEW t \in Tx, NEW r \in Row, NEW saved, Pushes(t, r, saved)
      PROVE  LinkInv'
  <2> DEFINE n == Len(undo[t]) + 1
             e == [row |-> r, saved |-> saved]
  <2>1. Grown(t, e)
    BY <1>3 DEF Pushes
  <2>2. n \in 1..Len(undo'[t]) /\ undo'[t][n] = e
    BY <2>1, EntryTypes DEF Grown
  <2> SUFFICES ASSUME NEW q \in Row, NEW v \in Versions(q)'
               PROVE  v[2] \in 1..Len(undo'[v[1]]) /\ undo'[v[1]][v[2]].row = q
    BY DEF LinkInv
  <2>3. CASE v \in Versions(q)
    <3>1. v[1] \in Tx /\ v[2] \in 1..Len(undo[v[1]]) /\ undo[v[1]][v[2]].row = q
      BY <1>1, <2>3
    <3> HIDE DEF e
    <3> QED BY <2>1, <3>1, EntriesGrown
  <2>4. CASE v \notin Versions(q)
    <3>1. q = r /\ v = <<t, n>>
      BY <1>3, <2>4, PushedVersions
    <3> QED BY <2>2, <3>1
  <2> QED BY <2>3, <2>4
<1>4. ASSUME NEW t \in Tx, NEW e \in UndoEntries, NEW k, Undoes(t, e, k)
      PROVE  LinkInv'
  <2> SUFFICES ASSUME NEW q \in Row, NEW v \in Versions(q)'
               PROVE  v[2] \in 1..Len(undo'[v[1]]) /\ undo'[v[1]][v[2]].row = q
    BY DEF LinkInv
  <2>1. Shrunk(t) /\ e = undo[t][Len(undo[t])]
    BY <1>4 DEF Undoes
  <2>2. v \in Versions(q) /\ (q = e.row => v # <<t, Len(undo[t])>>)
    BY <1>4, UndoneVersions
  <2>3. /\ v \in Version /\ v[1] \in Tx /\ v[2] \in 1..Len(undo[v[1]])
        /\ undo[v[1]][v[2]].row = q
    BY <1>1, <2>2
  <2>4. ~(v[1] = t /\ v[2] = Len(undo[t]))
    BY <2>1, <2>2, <2>3 DEF Version
  <2>5. Len(undo[v[1]]) \in Nat
    BY <2>3, EntryTypes
  <2>6. CASE v[1] = t
    <3>1. v[2] \in 1..Len(undo[t]) - 1
      BY <2>3, <2>4, <2>5, <2>6
    <3> QED BY <2>1, <2>3, <2>6, <3>1 DEF Shrunk
  <2>7. CASE v[1] # t
    BY <2>1, <2>3, <2>7 DEF Shrunk
  <2> QED BY <2>6, <2>7
<1>5. ASSUME NEW u \in Tx, NEW i \in Nat, NEW k \in Nat, Cleans(u, i, k)
      PROVE  LinkInv'
  <2> SUFFICES ASSUME NEW q \in Row, NEW v \in Versions(q)'
               PROVE  v \in Versions(q) /\ UNCHANGED undo
    BY DEF LinkInv
  <2> QED BY <1>5, CleanedVersions DEF Cleans
<1>6. CASE Quiet \/ \E t \in Tx : ClockStepOf(t) \/ StampEntry(t) \/ FinishStatement(t)
  BY <1>2, <1>6, ClockStepSame DEF Quiet, StampEntry, FinishStatement, table
<1> QED BY <1>3, <1>4, <1>5, <1>6, StepKinds

LEMMA NewerSame == ASSUME UNCHANGED <<commit_id, stamped>> PROVE NewerStays
BY DEF NewerStays, Newer

\* What is known of any version in a chain.
LEMMA VersionTypes ==
    ASSUME TableTypeOK, LinkInv, NEW r \in Row, NEW v \in Versions(r)
    PROVE  /\ v \in Version /\ v[1] \in Tx /\ v[2] \in Nat
           /\ v[2] \in 1..Len(undo[v[1]]) /\ undo[v[1]][v[2]].row = r
           /\ v = <<v[1], v[2]>>
BY VersionsAre DEF LinkInv, Version

\* The versions of a row are in some order.
LEMMA Ordered ==
    ASSUME TableTypeOK, OrderInv, LinkInv, NEW r \in Row,
           NEW v \in Versions(r), NEW w \in Versions(r), v # w
    PROVE  Newer(v, w) \/ Newer(w, v)
<1>1. PICK i \in 1..Len(chain[r]), j \in 1..Len(chain[r]) : chain[r][i] = v /\ chain[r][j] = w
  BY VersionsAre
<1>2. i < j \/ j < i
  BY <1>1, VersionsAre, LenProperties
<1>3. InFront(r, v, w) \/ InFront(r, w, v)
  BY <1>1, <1>2 DEF InFront
<1> QED BY <1>3, VersionTypes DEF OrderInv

\* Where Delete and Update see no conflict, all versions of the row are their
\* own or stamped.
LEMMA NoConflict ==
    ASSUME TableTypeOK, StampInv, LinkInv, OrderInv, NEW t \in Tx, commit_id[t] = 0,
           NEW r \in Row, ~Conflicts(t, r), NEW w \in Versions(r)
    PROVE  w[1] = t \/ (commit_id[w[1]] # 0 /\ w[2] <= stamped[w[1]])
<1>1. chain[r] \in Seq(Version) /\ Len(chain[r]) \in Nat
  BY VersionsAre, LenProperties
<1>2. PICK j \in 1..Len(chain[r]) : chain[r][j] = w
  BY VersionsAre
<1>3. chain[r] # << >> /\ 1 \in 1..Len(chain[r]) /\ Head(chain[r]) = chain[r][1]
  BY <1>1, <1>2, EmptySeq
<1> DEFINE h == chain[r][1]
<1>4. h \in Versions(r) /\ h \in Version /\ w \in Version
  BY <1>3, VersionsAre
<1>5. h[1] \in Tx /\ h[2] \in Nat /\ h[2] >= 1 /\ h[2] <= Len(undo[h[1]])
  BY <1>4, VersionTypes, EntryTypes
<1>6. h[1] = t \/ h[2] <= stamped[h[1]]
  BY <1>3, <1>5 DEF Conflicts, Uncommitted, TableTypeOK
<1>7. h[1] = t \/ (commit_id[h[1]] # 0 /\ h[2] <= stamped[h[1]])
  <2>1. stamped[h[1]] \in Nat /\ (commit_id[h[1]] = 0 => stamped[h[1]] = 0)
    BY <1>5 DEF StampInv, TableTypeOK
  <2> QED BY <1>5, <1>6, <2>1
<1>8. CASE j = 1
  BY <1>2, <1>7, <1>8
<1>9. CASE j # 1
  <2>1. InFront(r, h, w)
    BY <1>1, <1>2, <1>3, <1>9 DEF InFront
  <2>2. Newer(h, w)
    BY <1>4, <2>1 DEF OrderInv
  <2>3. w[1] \in Tx /\ w[2] \in Nat /\ stamped[w[1]] \in Nat
    BY VersionTypes DEF TableTypeOK
  <2> HIDE DEF h
  <2> QED BY <1>5, <1>7, <2>2, <2>3 DEF Newer
<1> QED BY <1>8, <1>9

LEMMA PushInFront ==
    ASSUME ClockTypeOK, TableTypeOK, StampInv, LinkInv, OrderInv,
           NEW t \in Tx, commit_id[t] = 0, NEW r \in Row, ~Conflicts(t, r),
           NEW w \in Versions(r)
    PROVE  Newer(<<t, Len(undo[t]) + 1>>, w)
<1>1. w[1] \in Tx /\ w[2] \in 1..Len(undo[w[1]]) /\ Len(undo[w[1]]) \in Nat
  BY VersionTypes, EntryTypes
<1>2. w[1] = t \/ (commit_id[w[1]] # 0 /\ w[2] <= stamped[w[1]])
  BY NoConflict
<1> QED BY <1>1, <1>2 DEF Newer

LEMMA OrderStep ==
    ASSUME ClockTypeOK, ClockInv, TableTypeOK, KeptInv, StampInv, LinkInv, OrderInv, RowInv,
           [Next]_vars
    PROVE  OrderInv'
<1>1. CASE UNCHANGED <<chain, commit_id, stamped>>
  BY <1>1, NewerSame, OrderSame
<1>2. ASSUME NEW t \in Tx, CommitTransaction(t) PROVE OrderInv'
  <2>1. /\ UNCHANGED <<chain, stamped>>
        /\ commit_id[t] = 0
        /\ \A u \in Tx : commit_id'[u] = IF u = t THEN current_start_timestamp ELSE commit_id[u]
    BY <1>2 DEF CommitTransaction, table, ClockInv, ClockTypeOK, Running
  <2>2. \A u \in Tx : /\ commit_id[u] \in Nat
                      /\ commit_id[u] = 0 \/ commit_id[u] < current_start_timestamp
    BY DEF ClockInv, ClockTypeOK
  <2>3. ASSUME NEW v \in Version, NEW w \in Version, Newer(v, w)
        PROVE  Newer(v, w)'
    <3>1. v[1] \in Tx /\ w[1] \in Tx
      BY DEF Version
    <3>2. CASE v[1] = w[1]
      BY <2>3, <3>2 DEF Newer
    <3>3. CASE v[1] # w[1]
      <4>1. commit_id[w[1]] # 0 /\ w[1] # t
        BY <2>1, <2>3, <3>3 DEF Newer
      <4>2. commit_id'[w[1]] = commit_id[w[1]]
        BY <2>1, <3>1, <4>1
      <4>3. commit_id'[v[1]] = 0 \/ commit_id'[w[1]] < commit_id'[v[1]]
        BY <2>1, <2>2, <2>3, <3>1, <3>3, <4>1, <4>2 DEF Newer
      <4> QED BY <2>1, <2>3, <3>3, <4>1, <4>2, <4>3 DEF Newer
    <3> QED BY <3>2, <3>3
  <2> QED BY <2>1, <2>3, OrderSame DEF NewerStays
<1>3. ASSUME NEW t \in Tx, StampEntry(t) PROVE OrderInv'
  <2>1. /\ UNCHANGED <<chain, commit_id>>
        /\ \A u \in Tx : /\ stamped[u] \in Nat
                         /\ stamped'[u] = IF u = t THEN stamped[t] + 1 ELSE stamped[u]
    BY <1>3 DEF StampEntry, table, transactions, TableTypeOK
  <2>2. \A v \in Version, w \in Version : Newer(v, w) => Newer(v, w)'
    BY <2>1 DEF Newer, Version
  <2> QED BY <2>1, <2>2, OrderSame DEF NewerStays
<1>4. ASSUME NEW t \in Tx, NEW r \in Row, NEW saved, Pushes(t, r, saved), ~Conflicts(t, r)
      PROVE  OrderInv'
  <2> DEFINE h == <<t, Len(undo[t]) + 1>>
  <2>1. commit_id[t] = 0 /\ UNCHANGED <<commit_id, stamped>>
    BY <1>4 DEF Pushes, ClockInv, Running, ClockSame, transactions
  <2>2. h \in Version /\ NewHead(r, h)
    BY <1>4, PushedVersions DEF Pushes
  <2>3. PICK x \in Version : x = h
    BY <2>2
  <2>4. \A w \in Versions(r) : Newer(x, w)
    BY <1>4, <2>1, <2>3, PushInFront
  <2>5. \A w \in Versions(r) : Newer(x, w)'
    BY <2>1, <2>4, NewerSame, VersionTypes DEF NewerStays
  <2>6. NewHead(r, x)
    BY <2>2, <2>3
  <2> HIDE DEF h
  <2> QED BY <2>1, <2>5, <2>6, NewerSame, OrderPush
<1>5. ASSUME NEW t \in Tx, Insert(t), count + 1 \in Row
      PROVE  ~Conflicts(t, count + 1)
  <2>1. chain[count + 1] = << >>
    BY <1>5 DEF RowInv, TableTypeOK
  <2> QED BY <2>1 DEF Conflicts
<1>6. ASSUME NEW t \in Tx, NEW e \in UndoEntries, NEW k, Undoes(t, e, k) PROVE OrderInv'
  <2>1. UNCHANGED <<commit_id, stamped>> /\ e.row \in Row /\ Without(e.row, <<t, Len(undo[t])>>, k)
    BY <1>6 DEF Undoes, ClockSame, transactions, UndoEntries
  <2>2. PICK x \in Version : x = <<t, Len(undo[t])>>
    BY EntryTypes DEF Version
  <2> QED BY <2>1, <2>2, NewerSame, OrderCut
<1>7. ASSUME NEW u \in Tx, NEW i \in Nat, NEW k, Cleans(u, i, k) PROVE OrderInv'
  <2>1. UNCHANGED <<commit_id, stamped>>
    BY <1>7 DEF Cleans, ClockSame, transactions
  <2>2. PICK r \in Row : r = undo[u][i].row /\ Without(r, <<u, i>>, k)
    BY <1>7 DEF Cleans
  <2>3. <<u, i>> \in Version
    BY DEF Version
  <2> QED BY <2>1, <2>2, <2>3, NewerSame, OrderCut
<1>8. CASE \/ Quiet
           \/ \E t \in Tx : ClockStepOf(t) /\ ~CommitTransaction(t)
           \/ \E t \in Tx : FinishStatement(t) /\ ClockSame
  <2>1. ASSUME NEW t \in Tx, ClockStepOf(t), ~CommitTransaction(t) PROVE UNCHANGED commit_id
    BY <2>1 DEF ClockStepOf, StartTransaction, RollbackTransaction, BeginRemove, CleanupDone,
                EndRemove
  <2> QED BY <1>1, <1>8, <2>1, ClockStepSame DEF Quiet, ClockSame, transactions, FinishStatement
<1>9. ASSUME NEW t \in Tx, NEW r \in Row, PushRow(t, r), Pushes(t, r, data[r]) PROVE OrderInv'
  BY <1>4, <1>9 DEF PushRow
<1>10. ASSUME NEW t \in Tx, Insert(t), count + 1 \in Row, Pushes(t, count + 1, NoData)
       PROVE  OrderInv'
  BY <1>4, <1>5, <1>10
<1> QED BY <1>2, <1>3, <1>6, <1>7, <1>8, <1>9, <1>10, StepKinds

-----------------------------------------------------------------------------
(* What is kept. *)

\* No step makes an active transaction overlap a commit that it did not overlap.
LEMMA OverlapsStep ==
    ASSUME ClockTypeOK, ClockInv, NEW t \in Tx, ClockStepOf(t), NEW u \in Tx
    PROVE  /\ commit_id'[u] = 0 \/ Overlaps(u)' => commit_id[u] = 0 \/ Overlaps(u)
           /\ Kept(u)' => Kept(u) \/ phase[u] = "idle"
<1>1. /\ current_start_timestamp \in Nat
      /\ \A x \in Tx : commit_id[x] \in Nat /\ start_time[x] \in Nat
      /\ \A x \in Tx : commit_id[x] = 0 \/ commit_id[x] < current_start_timestamp
  BY DEF ClockTypeOK, ClockInv
<1>2. CASE StartTransaction(t)
  <2>1. /\ UNCHANGED commit_id
        /\ \A x \in Tx : start_time'[x] = IF x = t THEN current_start_timestamp ELSE start_time[x]
        /\ \A x \in Tx : phase'[x] = IF x = t THEN "ready" ELSE phase[x]
        /\ phase[t] = "idle"
    BY <1>2 DEF StartTransaction, Goto, ClockTypeOK
  <2>2. ASSUME Overlaps(u)', commit_id[u] # 0 PROVE Overlaps(u)
    <3>1. PICK x \in Tx : phase'[x] \in Running /\ start_time'[x] <= commit_id[u]
      BY <2>1, <2>2 DEF Overlaps, Active
    <3>2. x # t
      BY <1>1, <2>1, <2>2, <3>1
    <3> QED BY <2>1, <3>1, <3>2 DEF Overlaps, Active
  <2> QED BY <2>1, <2>2 DEF Kept
<1>3. CASE ~StartTransaction(t)
  <2>1. /\ UNCHANGED start_time
        /\ \A x \in Tx : phase'[x] = phase[x] \/ phase'[x] \notin Running
        /\ \A x \in Tx : commit_id'[x] = commit_id[x] \/ (commit_id[x] = 0 /\ phase[x] \in Running)
        /\ \A x \in Tx : phase'[x] \in {"stamping", "undoing"} =>
                             phase[x] \in Running \cup {"stamping", "undoing"}
    <3>1. CASE CommitTransaction(t) \/ RollbackTransaction(t)
      BY <3>1 DEF CommitTransaction, RollbackTransaction, Goto, ClockTypeOK, ClockInv, Running
    <3>2. CASE BeginRemove(t) \/ CleanupDone(t) \/ EndRemove(t)
      BY <3>2 DEF BeginRemove, CleanupDone, EndRemove, Goto, ClockTypeOK, Running
    <3> QED BY <1>3, <3>1, <3>2 DEF ClockStepOf
  <2>2. \A x \in Active' : x \in Active /\ start_time'[x] = start_time[x]
    BY <2>1 DEF Active
  <2>3. ASSUME Overlaps(u)', commit_id'[u] = commit_id[u] PROVE Overlaps(u)
    BY <2>2, <2>3 DEF Overlaps
  <2>4. Kept(u)' => Kept(u)
    BY <2>1, <2>3 DEF Kept
  <2> QED BY <2>1, <2>3, <2>4
<1> QED BY <1>2, <1>3

LEMMA KeptSame ==
    ASSUME ClockTypeOK, ClockSame, NEW u \in Tx
    PROVE  /\ UNCHANGED commit_id
           /\ Overlaps(u)' <=> Overlaps(u)
           /\ Kept(u)' <=> Kept(u)
           /\ phase'[u] \in Running \cup {"idle"} <=> phase[u] \in Running \cup {"idle"}
<1>1. /\ UNCHANGED commit_id
      /\ Overlaps(u)' <=> Overlaps(u)
      /\ phase'[u] = phase[u] \/ (phase[u] \in Running /\ phase'[u] \in Running)
  BY SameActive DEF ClockSame, transactions
<1> QED BY <1>1 DEF Kept

LEMMA KeptStep ==
    ASSUME ClockTypeOK, ClockInv, TableTypeOK, HistoryTypeOK, StampInv, LinkInv, OrderInv,
           KeptInv, RowInv, StatementInv, [Next]_vars
    PROVE  KeptInv'
<1> DEFINE Linked1(u) == \A i \in 1..Len(undo[u]) : <<u, i>> \in Versions(undo[u][i].row)
           Wrote(u) == \A r \in Row : writes[u][r] # Unwritten =>
                           \E i \in 1..Len(undo[u]) : undo[u][i].row = r
<1>1. \A u \in Tx : /\ Kept(u) => Linked1(u)
                    /\ phase[u] \in Running \cup {"idle"} \/ commit_id[u] # 0 => Wrote(u)
  BY DEF KeptInv
<1>2. SUFFICES ASSUME NEW u \in Tx
               PROVE  /\ Kept(u)' => Linked1(u)'
                      /\ phase'[u] \in Running \cup {"idle"} \/ commit_id'[u] # 0 => Wrote(u)'
  BY DEF KeptInv
<1>3. ASSUME UNCHANGED <<chain, undo>> PROVE Linked1(u) => Linked1(u)'
  BY <1>3, VersionsSame
<1>4. CASE Quiet
  BY <1>1, <1>3, <1>4, KeptSame DEF Quiet
<1>5. ASSUME NEW t \in Tx, ClockStepOf(t)
      PROVE  /\ Kept(u)' => Linked1(u)'
             /\ phase'[u] \in Running \cup {"idle"} \/ commit_id'[u] # 0 => Wrote(u)'
  <2>1. UNCHANGED <<chain, undo, writes>>
    BY <1>5, ClockStepSame
  <2>2. phase[u] = "idle" => Len(undo[u]) = 0
    BY DEF StampInv
  <2>3. Kept(u)' => Kept(u) \/ phase[u] = "idle"
    BY <1>5, OverlapsStep
  <2>4. Kept(u)' => Linked1(u)
    BY <1>1, <2>2, <2>3
  <2>5. phase'[u] \in Running \cup {"idle"} \/ commit_id'[u] # 0 =>
            phase[u] \in Running \cup {"idle"} \/ commit_id[u] # 0
    <3>1. CASE StartTransaction(t) \/ CommitTransaction(t)
      BY <3>1 DEF StartTransaction, CommitTransaction, Goto, ClockTypeOK, Running
    <3>2. CASE RollbackTransaction(t) \/ BeginRemove(t)
      BY <3>2 DEF RollbackTransaction, BeginRemove, Goto, ClockTypeOK, Running
    <3>3. CASE CleanupDone(t) \/ EndRemove(t)
      BY <3>3 DEF CleanupDone, EndRemove, Goto, ClockTypeOK, Running
    <3> QED BY <1>5, <3>1, <3>2, <3>3 DEF ClockStepOf
  <2>6. Wrote(u) => Wrote(u)'
    BY <2>1
  <2> HIDE DEF Linked1, Wrote
  <2> QED BY <1>1, <1>3, <2>1, <2>4, <2>5, <2>6
<1>6. ASSUME NEW t \in Tx, StampEntry(t), ClockSame
      PROVE  /\ Kept(u)' => Linked1(u)'
             /\ phase'[u] \in Running \cup {"idle"} \/ commit_id'[u] # 0 => Wrote(u)'
  BY <1>1, <1>3, <1>6, KeptSame DEF StampEntry, table, history
<1>7. ASSUME NEW t \in Tx, NEW r \in Row, NEW saved, Pushes(t, r, saved),
             \A q \in Row : q # r \/ u # t => writes'[u][q] = writes[u][q]
      PROVE  /\ Kept(u)' => Linked1(u)'
             /\ phase'[u] \in Running \cup {"idle"} \/ commit_id'[u] # 0 => Wrote(u)'
  <2> DEFINE e == [row |-> r, saved |-> saved]
             n == Len(undo[t]) + 1
  <2>1. ClockSame /\ Grown(t, e)
    BY <1>7 DEF Pushes
  <2>2. n \in Nat /\ n \in 1..Len(undo'[t]) /\ undo'[t][n] = e /\ e.row = r
    BY <2>1, EntryTypes DEF Grown
  <2>3. /\ Len(undo'[u]) = IF u = t THEN n ELSE Len(undo[u])
        /\ \A i \in 1..Len(undo[u]) : i \in 1..Len(undo'[u]) /\ undo'[u][i] = undo[u][i]
    <3> HIDE DEF e
    <3> QED BY <2>1, EntriesGrown
  <2>4. /\ <<t, n>> \in Versions(r)'
        /\ \A q \in Row : Versions(q) \subseteq Versions(q)'
    BY <1>7, PushedVersions
  <2> HIDE DEF e
  <2>5. ASSUME Kept(u)', NEW i \in 1..Len(undo'[u])
        PROVE  \E q \in Row : q = undo'[u][i].row /\ <<u, i>> \in Versions(q)'
    <3>1. CASE u = t /\ i = n
      BY <2>2, <2>4, <3>1
    <3>2. CASE ~(u = t /\ i = n)
      <4>1. i \in 1..Len(undo[u])
        BY <2>2, <2>3, <3>2, EntryTypes
      <4>2. <<u, i>> \in Versions(undo[u][i].row) /\ undo[u][i].row \in Row
        BY <1>1, <2>1, <2>5, <4>1, KeptSame, EntryTypes
      <4> QED BY <2>3, <2>4, <4>1, <4>2
    <3> QED BY <3>1, <3>2
  <2>6. ASSUME NEW q \in Row, writes'[u][q] # Unwritten, Wrote(u)
        PROVE  \E i \in 1..Len(undo'[u]) : undo'[u][i].row = q
    <3>1. CASE u = t /\ q = r
      BY <2>2, <3>1
    <3>2. CASE ~(u = t /\ q = r)
      <4>1. PICK i \in 1..Len(undo[u]) : undo[u][i].row = q
        BY <1>7, <2>6, <3>2
      <4> QED BY <2>3, <4>1
    <3> QED BY <3>1, <3>2
  <2>7. Kept(u)' => Linked1(u)'
    BY <2>5
  <2>8. phase'[u] \in Running \cup {"idle"} \/ commit_id'[u] # 0 => Wrote(u)
    BY <1>1, <2>1, KeptSame
  <2> QED BY <2>6, <2>7, <2>8
<1>8. ASSUME NEW t \in Tx, NEW e \in UndoEntries, NEW k, Undoes(t, e, k), UNCHANGED writes
      PROVE  /\ Kept(u)' => Linked1(u)'
             /\ phase'[u] \in Running \cup {"idle"} \/ commit_id'[u] # 0 => Wrote(u)'
  <2>1. ClockSame /\ Shrunk(t) /\ phase[t] = "undoing" /\ commit_id[t] = 0
    BY <1>8 DEF Undoes, ClockInv
  <2>2. /\ Len(undo'[u]) = IF u = t THEN Len(undo[t]) - 1 ELSE Len(undo[u])
        /\ \A i \in 1..Len(undo'[u]) : i \in 1..Len(undo[u]) /\ undo'[u][i] = undo[u][i]
    BY <2>1, EntriesShrunk
  <2>3. \A q \in Row : \A v \in Versions(q) : v # <<t, Len(undo[t])>> => v \in Versions(q)'
    BY <1>8, UndoneVersions
  <2>4. ASSUME Kept(u)', NEW i \in 1..Len(undo'[u])
        PROVE  \E q \in Row : q = undo'[u][i].row /\ <<u, i>> \in Versions(q)'
    <3>1. i \in 1..Len(undo[u]) /\ (u = t => i # Len(undo[t]))
      BY <2>2, EntryTypes
    <3>2. <<u, i>> \in Versions(undo[u][i].row) /\ undo[u][i].row \in Row
      BY <1>1, <2>1, <2>4, <3>1, KeptSame, EntryTypes
    <3>3. <<u, i>> # <<t, Len(undo[t])>>
      BY <3>1
    <3> QED BY <2>2, <2>3, <3>1, <3>2, <3>3
  <2>5. Kept(u)' => Linked1(u)'
    BY <2>4
  <2>6. CASE u = t
    BY <2>1, <2>5, <2>6, KeptSame DEF Running
  <2>7. CASE u # t
    <3>1. undo'[u] = undo[u]
      BY <2>1, <2>7 DEF Shrunk
    <3>2. phase'[u] \in Running \cup {"idle"} \/ commit_id'[u] # 0 => Wrote(u)
      BY <1>1, <2>1, KeptSame
    <3> QED BY <1>8, <2>5, <3>1, <3>2
  <2> QED BY <2>6, <2>7
<1>9. ASSUME NEW x \in Tx, NEW j \in Nat, NEW k \in Nat, Cleans(x, j, k)
      PROVE  /\ Kept(u)' => Linked1(u)'
             /\ phase'[u] \in Running \cup {"idle"} \/ commit_id'[u] # 0 => Wrote(u)'
  <2>1. ClockSame /\ UNCHANGED <<undo, writes>> /\ ~Kept(x)
    BY <1>9 DEF Cleans, Kept, Running
  <2>2. \A q \in Row : \A v \in Versions(q) : v # <<x, j>> => v \in Versions(q)'
    <3>1. PICK p \in Row : /\ Versions(p)' = Versions(p) \ {<<x, j>>}
                           /\ \A q \in Row \ {p} : Versions(q)' = Versions(q)
      BY <1>9, CleanedVersions
    <3> QED BY <3>1
  <2>3. ASSUME Kept(u)', NEW i \in 1..Len(undo'[u])
        PROVE  \E q \in Row : q = undo'[u][i].row /\ <<u, i>> \in Versions(q)'
    <3>1. Kept(u) /\ u # x
      BY <2>1, <2>3, KeptSame
    <3>2. i \in 1..Len(undo[u]) /\ <<u, i>> \in Versions(undo[u][i].row) /\ undo[u][i].row \in Row
      BY <1>1, <2>1, <3>1, EntryTypes
    <3> QED BY <2>1, <2>2, <3>1, <3>2
  <2>4. Kept(u)' => Linked1(u)'
    BY <2>3
  <2>5. phase'[u] \in Running \cup {"idle"} \/ commit_id'[u] # 0 => Wrote(u)
    BY <1>1, <2>1, KeptSame
  <2> QED BY <2>1, <2>4, <2>5
<1>10. ASSUME NEW t \in Tx, FinishStatement(t), ClockSame
       PROVE  /\ Kept(u)' => Linked1(u)'
              /\ phase'[u] \in Running \cup {"idle"} \/ commit_id'[u] # 0 => Wrote(u)'
  <2>1. UNCHANGED <<chain, undo>>
    BY <1>10 DEF FinishStatement
  <2>2. Kept(u)' => Linked1(u)'
    BY <1>1, <1>3, <1>10, <2>1, KeptSame
  <2>3. \A q \in Row : writes'[u][q] # Unwritten =>
            writes[u][q] # Unwritten \/ (u = t /\ q \in ids[t])
    BY <1>10 DEF FinishStatement, HistoryTypeOK
  <2>4. ASSUME u = t, NEW q \in Row, q \in ids[t]
        PROVE  \E i \in 1..Len(undo[t]) : undo[t][i].row = q
    <3>1. PICK i \in Nat : <<t, i>> \in Versions(q)
      BY <1>10, <2>4 DEF FinishStatement, StatementInv, StatementOK
    <3> QED BY <3>1, VersionTypes
  <2>5. phase'[u] \in Running \cup {"idle"} \/ commit_id'[u] # 0 => Wrote(u)
    BY <1>1, <1>10, KeptSame
  <2> QED BY <2>1, <2>2, <2>3, <2>4, <2>5
<1>11. ASSUME NEW t \in Tx, NEW r \in Row, PushRow(t, r), Pushes(t, r, data[r])
       PROVE  \A q \in Row : q # r \/ u # t => writes'[u][q] = writes[u][q]
  BY <1>11 DEF PushRow, HistoryTypeOK
<1>12. ASSUME NEW t \in Tx, Insert(t)
       PROVE  \A q \in Row : q # count + 1 \/ u # t => writes'[u][q] = writes[u][q]
  BY <1>12 DEF Insert, HistoryTypeOK
<1>13. ASSUME NEW t \in Tx, UndoEntry(t) PROVE UNCHANGED writes
  BY <1>13 DEF UndoEntry, history
<1> HIDE DEF Linked1, Wrote
<1> QED BY <1>4, <1>5, <1>6, <1>7, <1>8, <1>9, <1>10, <1>11, <1>12, <1>13, StepKinds

-----------------------------------------------------------------------------
(* What a walk along a chain finds. *)

\* The place where the walk along vs stops of a reader who sees some versions.
StopsAt(vs, seen, k) ==
    /\ k \in 0..Len(vs)
    /\ \A j \in 1..k : vs[j] \notin seen
    /\ k < Len(vs) => vs[k + 1] \in seen

LEMMA Walk ==
    ASSUME NEW r \in Row, NEW vs \in Seq(Version), NEW seen
    PROVE  \E k \in 0..Len(vs) :
              /\ StopsAt(vs, seen, k)
              /\ ReadAlong(r, vs, seen) = IF k = 0 THEN Present(r) ELSE Content(vs[k])
<1> DEFINE stops == {k \in 0..Len(vs) : k = Len(vs) \/ vs[k + 1] \in seen}
<1>1. Len(vs) \in Nat
  BY LenProperties
<1>2. stops \in SUBSET Nat /\ Len(vs) \in stops
  BY <1>1
<1> HIDE DEF stops
<1>3. PICK n \in stops : \A m \in stops : n <= m
  BY <1>2, Least
<1>4. n \in 0..Len(vs) /\ (n < Len(vs) => vs[n + 1] \in seen)
  BY <1>1, <1>3 DEF stops
<1>5. ASSUME NEW j \in 1..n PROVE vs[j] \notin seen
  <2>1. j - 1 \in 0..Len(vs) /\ (j - 1) + 1 = j /\ ~(n <= j - 1)
    BY <1>1, <1>4
  <2> QED BY <1>3, <2>1 DEF stops
<1>6. StopsAt(vs, seen, n)
  BY <1>4, <1>5 DEF StopsAt
<1> DEFINE chosen == CHOOSE k \in 0..Len(vs) :
                        /\ \A j \in 1..k : vs[j] \notin seen
                        /\ k < Len(vs) => vs[k + 1] \in seen
<1>7. StopsAt(vs, seen, chosen)
  BY <1>6 DEF StopsAt
<1>8. ReadAlong(r, vs, seen) = IF chosen = 0 THEN Present(r) ELSE Content(vs[chosen])
  BY DEF ReadAlong, Present, Content
<1> HIDE DEF chosen
<1> QED BY <1>7, <1>8 DEF StopsAt

LEMMA StopsOnce ==
    ASSUME NEW vs \in Seq(Version), NEW seen, NEW k, NEW n,
           StopsAt(vs, seen, k), StopsAt(vs, seen, n)
    PROVE  k = n
<1>1. Len(vs) \in Nat /\ k \in 0..Len(vs) /\ n \in 0..Len(vs)
  BY LenProperties DEF StopsAt
<1>2. ~(k < n)
  BY <1>1 DEF StopsAt
<1>3. ~(n < k)
  BY <1>1 DEF StopsAt
<1> QED BY <1>1, <1>2, <1>3

LEMMA ReadFront ==
    ASSUME TableTypeOK, NEW r \in Row, NEW seen, chain[r] = << >> \/ chain[r][1] \in seen
    PROVE  ReadAlong(r, chain[r], seen) = Present(r)
<1>1. PICK k \in 0..Len(chain[r]) :
              /\ StopsAt(chain[r], seen, k)
              /\ ReadAlong(r, chain[r], seen) = IF k = 0 THEN Present(r) ELSE Content(chain[r][k])
  BY Walk, VersionsAre
<1>2. Len(chain[r]) \in Nat /\ (chain[r] = << >> => Len(chain[r]) = 0)
  BY VersionsAre, LenProperties
<1>3. k = 0
  BY <1>1, <1>2 DEF StopsAt
<1> QED BY <1>1, <1>3

-----------------------------------------------------------------------------
(* What a reader of a snapshot finds. *)

\* The versions of r that those commits left that happened before time s.
Before(r, s) == {v \in Versions(r) : commit_id[v[1]] \in 1..s - 1}

\* u committed from time s on, and before time e, a change of row r.
WroteBetween(u, r, s, e) ==
    writes[u][r] # Unwritten /\ commit_id[u] # 0 /\ s <= commit_id[u] /\ commit_id[u] < e

\* Whose writes of r are committed before time s, and whose are the last of some.
Writers(s, r) == {u \in Tx : commit_id[u] \in 1..s - 1 /\ writes[u][r] # Unwritten}
Latest(us) == CHOOSE u \in us : \A w \in us : commit_id[w] <= commit_id[u]
AtStart(r) == IF r <= InitialRows THEN Loaded ELSE Dead

LEMMA CommittedIs ==
    ASSUME NEW s, NEW r
    PROVE  Committed(s, r) = IF Writers(s, r) # {} THEN writes[Latest(Writers(s, r))][r]
                             ELSE AtStart(r)
BY DEF Committed, Writers, Latest, AtStart

LEMMA SameCommitted ==
    ASSUME ClockTypeOK, NEW r \in Row, NEW s \in Nat, NEW e \in Nat, s <= e,
           \A u \in Tx : ~WroteBetween(u, r, s, e)
    PROVE  Committed(s, r) = Committed(e, r)
<1>1. ASSUME NEW u PROVE u \in Writers(s, r) <=> u \in Writers(e, r)
  <2>1. CASE u \in Tx
    <3>1. commit_id[u] \in Nat /\ ~WroteBetween(u, r, s, e)
      BY <2>1 DEF ClockTypeOK
    <3> QED BY <2>1, <3>1 DEF WroteBetween, Writers
  <2> QED BY <2>1 DEF Writers
<1>2. Writers(s, r) = Writers(e, r)
  BY <1>1
<1> QED BY <1>2, CommittedIs

\* A reader of the commits before time s finds what was committed before s, if
\* all that was committed since is still in the chain.
LEMMA SnapshotRead ==
    ASSUME TypeOK, ClockInv, LinkInv, OrderInv, KeptInv, ContentInv, PresentInv,
           NEW r \in Row, r \notin clobbered,
           NEW s \in Nat, s <= current_start_timestamp,
           \A u \in Tx : commit_id[u] # 0 /\ s <= commit_id[u] => Overlaps(u)
    PROVE  ReadAlong(r, chain[r], Before(r, s)) = Committed(s, r)
<1> USE DEF TypeOK
<1>1. chain[r] \in Seq(Version) /\ Len(chain[r]) \in Nat
  BY VersionsAre, LenProperties
<1>2. \A j \in 1..Len(chain[r]) :
          /\ chain[r][j] \in Versions(r) /\ chain[r][j] \in Version /\ chain[r][j][1] \in Tx
          /\ chain[r][j] \in Before(r, s) <=> commit_id[chain[r][j][1]] \in 1..s - 1
  BY VersionsAre, VersionTypes DEF Before
<1>3. \A u \in Tx : commit_id[u] \in Nat
  BY DEF ClockTypeOK
<1>4. PICK k \in 0..Len(chain[r]) :
              /\ StopsAt(chain[r], Before(r, s), k)
              /\ ReadAlong(r, chain[r], Before(r, s)) =
                     IF k = 0 THEN Present(r) ELSE Content(chain[r][k])
  BY <1>1, Walk
<1>5. \A i, j \in 1..Len(chain[r]) : i < j => Newer(chain[r][i], chain[r][j])
  BY <1>2 DEF OrderInv, InFront
\* Everything that was committed since s is in the chain, before place k + 1.
<1>6. ASSUME NEW u \in Tx, NEW e \in Nat, WroteBetween(u, r, s, e)
      PROVE  \E j \in 1..k : chain[r][j][1] = u
  <2>1. Kept(u)
    BY <1>6 DEF WroteBetween, Kept
  <2>2. PICK i \in 1..Len(undo[u]) : undo[u][i].row = r
    BY <1>6 DEF KeptInv, WroteBetween
  <2>3. <<u, i>> \in Versions(r)
    BY <2>1, <2>2 DEF KeptInv
  <2>4. PICK j \in 1..Len(chain[r]) : chain[r][j] = <<u, i>>
    BY <2>3, VersionsAre
  <2>5. chain[r][j][1] = u
    BY <2>4
  <2>6. j <= k
    <3> SUFFICES ASSUME k < j PROVE FALSE
      BY <1>1, <2>4
    <3>1. k + 1 \in 1..Len(chain[r]) /\ chain[r][k + 1] \in Before(r, s)
      BY <1>1, <1>4 DEF StopsAt
    <3>2. commit_id[chain[r][k + 1][1]] \in 1..s - 1
      BY <1>2, <3>1
    <3>3. commit_id[u] # 0 /\ s <= commit_id[u]
      BY <1>6 DEF WroteBetween
    <3>4. j # k + 1
      BY <1>3, <2>5, <3>2, <3>3
    <3>5. Newer(chain[r][k + 1], chain[r][j])
      BY <1>1, <1>5, <3>1, <3>4
    <3>6. commit_id[u] <= commit_id[chain[r][k + 1][1]]
      BY <1>2, <1>3, <2>5, <3>1, <3>2, <3>5 DEF Newer
    <3> QED BY <1>2, <1>3, <3>1, <3>2, <3>3, <3>6
  <2> QED BY <1>1, <2>5, <2>6
<1>7. CASE k = 0
  <2>1. \A v \in Versions(r) : commit_id[v[1]] # 0
    <3> SUFFICES ASSUME NEW j \in 1..Len(chain[r]) PROVE commit_id[chain[r][j][1]] # 0
      BY VersionsAre
    <3>1. 1 \in 1..Len(chain[r]) /\ chain[r][1] \in Before(r, s)
      BY <1>1, <1>4, <1>7 DEF StopsAt
    <3>2. commit_id[chain[r][1][1]] # 0
      BY <1>2, <3>1
    <3>3. CASE j = 1
      BY <3>2, <3>3
    <3>4. CASE j # 1
      <4>1. Newer(chain[r][1], chain[r][j])
        BY <1>1, <1>5, <3>1, <3>4
      <4> QED BY <3>2, <4>1 DEF Newer
    <3> QED BY <3>3, <3>4
  <2>2. current_start_timestamp \in Nat
    BY DEF ClockTypeOK
  <2>3. Present(r) = Committed(current_start_timestamp, r)
    BY <2>1, <2>2 DEF PresentInv, PresentOK
  <2>4. \A u \in Tx : ~WroteBetween(u, r, s, current_start_timestamp)
    BY <1>6, <1>7, <2>2
  <2> QED BY <1>4, <1>7, <2>2, <2>3, <2>4, SameCommitted
<1>8. CASE k # 0
  <2> DEFINE v == chain[r][k]
             u == v[1]
             e == IF commit_id[u] = 0 THEN current_start_timestamp ELSE commit_id[u]
  <2>1. k \in 1..Len(chain[r])
    BY <1>1, <1>8
  <2>2. v \in Versions(r) /\ v \in Version /\ u \in Tx /\ v \notin Before(r, s)
    BY <1>2, <1>4, <2>1 DEF StopsAt
  <2>3. commit_id[u] \in Nat /\ ~(commit_id[u] \in 1..s - 1)
    BY <1>2, <1>3, <2>1, <2>2
  <2>4. commit_id[u] = 0 \/ (s <= commit_id[u] /\ Overlaps(u))
    BY <2>2, <2>3
  <2>5. e \in Nat /\ s <= e
    BY <2>3, <2>4 DEF ClockTypeOK
  <2>6. Oldest(r, v)
    <3> SUFFICES ASSUME NEW j \in 1..Len(chain[r]), chain[r][j][1] = u
                 PROVE  v[2] <= chain[r][j][2]
      BY VersionsAre DEF Oldest
    <3>1. chain[r][j][2] \in Nat /\ v[2] \in Nat
      BY <1>2, <2>2, VersionTypes
    <3>2. CASE j < k
      <4>1. Newer(chain[r][j], v)
        BY <1>5, <2>1, <3>2
      <4> QED BY <3>1, <4>1 DEF Newer
    <3>3. CASE j = k
      BY <3>1, <3>3
    <3>4. CASE k < j
      <4>1. k + 1 \in 1..Len(chain[r]) /\ chain[r][k + 1] \in Before(r, s)
        BY <1>1, <1>4, <3>4 DEF StopsAt
      <4>2. commit_id[chain[r][k + 1][1]] \in 1..s - 1
        BY <1>2, <4>1
      <4>3. j # k + 1
        BY <2>3, <4>2
      <4>4. Newer(chain[r][k + 1], chain[r][j])
        BY <1>1, <1>5, <3>4, <4>1, <4>3
      <4> HIDE DEF v, u, e
      <4>5. PICK p \in Version, q \in Version : p = chain[r][k + 1] /\ q = chain[r][j]
        BY <1>2, <4>1
      <4>6. Newer(p, q) /\ q[1] = u /\ commit_id[p[1]] \in 1..s - 1
        BY <4>2, <4>4, <4>5
      <4>7. commit_id[u] # 0 /\ commit_id[u] <= commit_id[p[1]]
        BY <2>3, <4>6 DEF Newer
      <4> QED BY <2>3, <4>6, <4>7
    <3>5. j < k \/ j = k \/ k < j
      BY <1>1, <2>1
    <3> QED BY <3>2, <3>3, <3>4, <3>5
  <2>7. CommitsAt(u, e)
    BY DEF CommitsAt
  <2>8. Content(v) = Committed(e, r)
    <3> HIDE DEF v, e
    <3> QED BY <2>2, <2>4, <2>5, <2>6, <2>7 DEF ContentInv, Needed
  <2>9. ASSUME NEW x \in Tx, WroteBetween(x, r, s, e) PROVE FALSE
    <3>1. PICK j \in 1..k : chain[r][j][1] = x
      BY <1>6, <2>5, <2>9
    <3>2. commit_id[x] # 0 /\ commit_id[x] < e
      BY <2>9 DEF WroteBetween
    <3>3. x # u
      BY <1>3, <3>2
    <3>4. j \in 1..Len(chain[r]) /\ j < k
      BY <1>1, <2>1, <3>1, <3>3
    <3>5. Newer(chain[r][j], v)
      BY <1>5, <2>1, <3>4
    <3>6. commit_id[u] # 0 /\ commit_id[u] < commit_id[x]
      BY <3>1, <3>2, <3>3, <3>5 DEF Newer
    <3> QED BY <2>3, <1>3, <3>2, <3>6
  <2> HIDE DEF v, e, u
  <2>10. Committed(s, r) = Committed(e, r)
    BY <2>5, <2>9, SameCommitted
  <2> QED BY <1>4, <1>8, <2>8, <2>10 DEF v
<1> QED BY <1>7, <1>8

\* Commits before time s have a last one.
LEMMA LatestIsOne ==
    ASSUME ClockTypeOK, NEW s \in Nat, NEW r, Writers(s, r) # {}
    PROVE  Latest(Writers(s, r)) \in Writers(s, r)
<1> DEFINE us == Writers(s, r)
           ages == {s - commit_id[u] : u \in us}
<1>1. \A u \in us : commit_id[u] \in Nat /\ commit_id[u] < s
  BY DEF Writers, ClockTypeOK
<1>2. ages \in SUBSET Nat /\ ages # {}
  BY <1>1
<1> HIDE DEF us
<1>3. PICK n \in ages : \A m \in ages : n <= m
  <2> HIDE DEF ages
  <2> QED BY <1>2, Least
<1>4. PICK x \in us : n = s - commit_id[x]
  OBVIOUS
<1>5. \A w \in us : commit_id[w] <= commit_id[x]
  <2> SUFFICES ASSUME NEW w \in us PROVE commit_id[w] <= commit_id[x]
    OBVIOUS
  <2>1. n <= s - commit_id[w]
    BY <1>3
  <2> QED BY <1>1, <1>4, <2>1
<1> QED BY <1>5 DEF Latest, us

LEMMA CommittedNext ==
    ASSUME ClockTypeOK, NEW s \in Nat, NEW r,
           \A u \in Tx : u \in Writers(s, r)' <=> u \in Writers(s, r),
           \A u \in Writers(s, r) : commit_id'[u] = commit_id[u] /\ writes'[u][r] = writes[u][r]
    PROVE  Committed(s, r)' = Committed(s, r)
<1>1. PICK us : us = Writers(s, r)
  OBVIOUS
<1>2. Writers(s, r)' = us
  <2>1. Writers(s, r)' \subseteq Tx /\ Writers(s, r) \subseteq Tx
    BY DEF Writers
  <2> QED BY <1>1, <2>1
<1>3. Latest(us)' = Latest(us)
  <2>1. \A u \in us : (\A w \in us : commit_id'[w] <= commit_id'[u])
                      <=> (\A w \in us : commit_id[w] <= commit_id[u])
    BY <1>1
  <2> QED BY <2>1 DEF Latest
<1>4. us # {} => Latest(us) \in us
  BY <1>1, LatestIsOne
<1>5. Committed(s, r)' = IF us # {} THEN writes'[Latest(us)'][r] ELSE AtStart(r)
  <2>1. Committed(s, r)' = IF Writers(s, r)' # {} THEN writes'[Latest(Writers(s, r))'][r]
                           ELSE AtStart(r)
    BY DEF Committed, Writers, Latest, AtStart
  <2>2. Latest(Writers(s, r))' = Latest(us)'
    BY <1>2 DEF Latest
  <2> QED BY <1>2, <2>1, <2>2
<1>6. Committed(s, r) = IF us # {} THEN writes[Latest(us)][r] ELSE AtStart(r)
  BY <1>1, CommittedIs

<1>7. us # {} => writes'[Latest(us)][r] = writes[Latest(us)][r]
  BY <1>1, <1>4
<1> QED BY <1>3, <1>5, <1>6, <1>7

\* What was committed before time s stays, when nothing commits and only those
\* write who have not committed.
LEMMA CommittedSame ==
    ASSUME ClockTypeOK, NEW s \in Nat, NEW r,
           UNCHANGED commit_id, \A u \in Tx : commit_id[u] # 0 => writes'[u][r] = writes[u][r]
    PROVE  Committed(s, r)' = Committed(s, r)
<1>1. \A u \in Tx : commit_id[u] \in Nat
  BY DEF ClockTypeOK
<1>2. \A u \in Writers(s, r) : u \in Tx /\ commit_id[u] # 0
  BY DEF Writers
<1>3. ASSUME NEW u \in Tx PROVE u \in Writers(s, r)' <=> u \in Writers(s, r)
  BY <1>1 DEF Writers
<1> QED BY <1>2, <1>3, CommittedNext

\* What a commit makes of what is committed.
LEMMA CommittedMore ==
    ASSUME ClockTypeOK, ClockInv, NEW t \in Tx, CommitTransaction(t), NEW s \in Nat, NEW r \in Row
    PROVE  /\ s <= current_start_timestamp => Committed(s, r)' = Committed(s, r)
           /\ s = current_start_timestamp =>
                Committed(s + 1, r)' = IF writes[t][r] # Unwritten THEN writes[t][r]
                                       ELSE Committed(s, r)
<1>1. /\ current_start_timestamp \in Nat /\ commit_id[t] = 0 /\ UNCHANGED writes
      /\ \A u \in Tx : /\ commit_id'[u] = IF u = t THEN current_start_timestamp ELSE commit_id[u]
                       /\ commit_id[u] \in Nat
                       /\ commit_id[u] = 0 \/ commit_id[u] < current_start_timestamp
  BY DEF CommitTransaction, ClockInv, ClockTypeOK, Running, history
<1>2. current_start_timestamp # 0
  <2>1. phase[t] = "ready" /\ start_time[t] \in Nat
    BY DEF CommitTransaction, ClockTypeOK
  <2>2. start_time[t] < current_start_timestamp
    BY <2>1 DEF ClockInv
  <2> QED BY <1>1, <2>1, <2>2
<1>3. ASSUME s <= current_start_timestamp PROVE Committed(s, r)' = Committed(s, r)
  <2>1. \A u \in Writers(s, r) : u \in Tx /\ u # t
    BY <1>1 DEF Writers
  <2>2. ASSUME NEW u \in Tx PROVE u \in Writers(s, r)' <=> u \in Writers(s, r)
    BY <1>1, <1>3 DEF Writers
  <2> QED BY <1>1, <2>1, <2>2, CommittedNext
<1>4. ASSUME s = current_start_timestamp, writes[t][r] # Unwritten
      PROVE  Committed(s + 1, r)' = writes[t][r]
  <2>1. PICK e \in Nat : e = s + 1
    OBVIOUS
  <2>2. \A u \in Tx : u \in Writers(e, r)' <=> commit_id'[u] \in 1..e - 1 /\ writes[u][r] # Unwritten
    BY <1>1 DEF Writers
  <2>3. t \in Writers(e, r)'
    BY <1>1, <1>2, <1>4, <2>1, <2>2
  <2>4. \A w \in Writers(e, r)' : w \in Tx /\ commit_id'[w] <= commit_id'[t]
    BY <1>1, <1>4, <2>1, <2>2 DEF Writers
  <2>5. \A w \in Writers(e, r)' : w = t \/ ~(commit_id'[t] <= commit_id'[w])
    BY <1>1, <1>2, <1>4, <2>1, <2>2, <2>4
  <2>6. Latest(Writers(e, r))' = t
    BY <2>3, <2>4, <2>5 DEF Latest
  <2>7. Committed(e, r)' = IF Writers(e, r)' # {} THEN writes'[Latest(Writers(e, r))'][r]
                           ELSE AtStart(r)
    BY DEF Committed, Writers, Latest, AtStart
  <2>8. Committed(s + 1, r)' = Committed(e, r)'
    BY <2>1
  <2> QED BY <1>1, <2>3, <2>6, <2>7, <2>8
<1>5. ASSUME s = current_start_timestamp, writes[t][r] = Unwritten
      PROVE  Committed(s + 1, r)' = Committed(s, r)
  <2>1. PICK e \in Nat : e = s + 1
    OBVIOUS
  <2>2. ASSUME NEW u \in Tx PROVE u \in Writers(e, r)' <=> u \in Writers(e, r)
    BY <1>1, <1>5, <2>1 DEF Writers
  <2>3. \A u \in Writers(e, r) : u \in Tx /\ u # t
    BY <1>5 DEF Writers
  <2>4. Committed(e, r)' = Committed(e, r)
    BY <1>1, <2>2, <2>3, CommittedNext
  <2>5. \A u \in Tx : ~WroteBetween(u, r, s, e)
    BY <1>1, <1>5 DEF WroteBetween
  <2>6. Committed(s, r) = Committed(e, r)
    BY <2>1, <2>5, SameCommitted
  <2> QED BY <2>1, <2>4, <2>6
<1> QED BY <1>3, <1>4, <1>5

\* Nothing has been committed since the clock's time.
LEMMA CommittedByNow ==
    ASSUME ClockTypeOK, ClockInv, NEW s \in Nat, s = current_start_timestamp, NEW r \in Row
    PROVE  Committed(s, r) = Committed(s + 1, r)
<1>1. \A u \in Tx : ~WroteBetween(u, r, s, s + 1)
  BY DEF WroteBetween, ClockInv, ClockTypeOK
<1>2. PICK e \in Nat : e = s + 1
  OBVIOUS
<1> QED BY <1>1, <1>2, SameCommitted

-----------------------------------------------------------------------------
(* Who has written a row. *)

\* Versions of two transactions that have not committed are in no chain.
LEMMA OneWriter ==
    ASSUME TableTypeOK, LinkInv, OrderInv, NEW r \in Row,
           NEW v \in Versions(r), NEW w \in Versions(r), commit_id[v[1]] = 0, commit_id[w[1]] = 0
    PROVE  v[1] = w[1]
BY Ordered DEF Newer

LEMMA RunningHasVersion ==
    ASSUME TableTypeOK, KeptInv, NEW t \in Tx, phase[t] \in Running,
           NEW r \in Row, writes[t][r] # Unwritten
    PROVE  \E i \in Nat : <<t, i>> \in Versions(r)
<1>1. PICK i \in 1..Len(undo[t]) : undo[t][i].row = r
  BY DEF KeptInv
<1> QED BY <1>1 DEF KeptInv, Kept

\* The version in front is one of t, if t has not committed and has any.
LEMMA OwnFront ==
    ASSUME TableTypeOK, LinkInv, OrderInv, NEW t \in Tx, commit_id[t] = 0,
           NEW r \in Row, NEW v \in Versions(r), v[1] = t
    PROVE  chain[r] # << >> /\ chain[r][1] \in Versions(r) /\ chain[r][1][1] = t
<1>1. chain[r] \in Seq(Version) /\ Len(chain[r]) \in Nat
  BY VersionsAre, LenProperties
<1>2. PICK j \in 1..Len(chain[r]) : chain[r][j] = v
  BY VersionsAre
<1>3. chain[r] # << >> /\ 1 \in 1..Len(chain[r])
  BY <1>1, <1>2, EmptySeq
<1>4. chain[r][1] \in Versions(r)
  BY <1>3, VersionsAre
<1>5. CASE j = 1
  BY <1>2, <1>3, <1>4, <1>5
<1>6. CASE j # 1
  <2>1. InFront(r, chain[r][1], v)
    BY <1>1, <1>2, <1>3, <1>6 DEF InFront
  <2>2. Newer(chain[r][1], v)
    BY <1>4, <2>1, VersionTypes DEF OrderInv
  <2> QED BY <1>3, <1>4, <2>2 DEF Newer
<1> QED BY <1>5, <1>6

\* A running transaction reads what it wrote.
LEMMA OwnRead ==
    ASSUME TypeOK, ClockInv, StampInv, LinkInv, OrderInv, KeptInv, PresentInv,
           NEW t \in Tx, phase[t] \in Running,
           NEW r \in Row, r \notin clobbered, writes[t][r] # Unwritten
    PROVE  Read(t, r) = writes[t][r]
<1> USE DEF TypeOK
<1>1. PICK i \in Nat : <<t, i>> \in Versions(r)
  BY RunningHasVersion
<1>2. commit_id[t] = 0
  BY DEF ClockInv
<1> DEFINE h == chain[r][1]
<1>3. chain[r] # << >> /\ h \in Versions(r) /\ h[1] = t
  <2>1. PICK v \in Versions(r) : v[1] = t
    BY <1>1
  <2> QED BY <1>2, <2>1, OwnFront
<1> HIDE DEF h
<1>4. Sees(t, h)
  <2>1. h[2] \in Nat /\ h[2] >= 1
    BY <1>3, VersionTypes, EntryTypes
  <2>2. stamped[t] = 0
    BY <1>2 DEF StampInv
  <2> QED BY <1>3, <2>1, <2>2 DEF Sees, Uncommitted
<1>5. Read(t, r) = Present(r)
  <2> DEFINE seen == {v \in Versions(r) : Sees(t, v)}
  <2>1. chain[r][1] \in seen
    BY <1>3, <1>4 DEF h
  <2> HIDE DEF seen
  <2>2. ReadAlong(r, chain[r], seen) = Present(r)
    BY <2>1, ReadFront
  <2> QED BY <2>2 DEF Read, seen
<1>6. Present(r) = writes[t][r]
  <2>1. PICK s \in Nat : s = current_start_timestamp
    BY DEF ClockTypeOK
  <2> QED BY <1>3, <2>1 DEF PresentInv, PresentOK
<1> QED BY <1>5, <1>6

-----------------------------------------------------------------------------
(* Types of the table, of statements and of the history. *)

LEMMA TableTypeStep ==
    ASSUME ClockTypeOK, ClockInv, TableTypeOK, StatementTypeOK, RowInv, KeptInv, [Next]_vars
    PROVE  TableTypeOK'
<1>1. CASE Quiet
  BY <1>1 DEF Quiet, TableTypeOK
<1>2. ASSUME NEW t \in Tx, ClockStepOf(t) PROVE TableTypeOK'
  BY <1>2, ClockStepSame DEF TableTypeOK
<1>3. ASSUME NEW t \in Tx, StampEntry(t) PROVE TableTypeOK'
  <2>1. stamped' \in [Tx -> Nat]
    BY <1>3 DEF StampEntry, TableTypeOK
  <2> QED BY <1>3, <2>1 DEF StampEntry, table, TableTypeOK
<1>4. ASSUME NEW t \in Tx, FinishStatement(t) PROVE TableTypeOK'
  BY <1>4 DEF FinishStatement, TableTypeOK, Data
<1>5. ASSUME NEW t \in Tx, NEW r \in Row, NEW saved, Pushes(t, r, saved)
      PROVE  /\ chain' \in [Row -> Seq(Tx \X Nat)]
             /\ undo' \in [Tx -> Seq([row : Row, saved : Data \cup {NoData}])]
             /\ stamped' \in [Tx -> Nat]
  BY <1>5 DEF Pushes, NewHead, Grown, Version, UndoEntries, TableTypeOK
<1>6. ASSUME NEW t \in Tx, NEW r \in Row, PushRow(t, r), Pushes(t, r, data[r])
      PROVE  TableTypeOK'
  <2>1. data' \in [Row -> Data] /\ deleted' \in [Row -> BOOLEAN] /\ count' \in 0..MaxRows
    BY <1>6 DEF PushRow, TableTypeOK
  <2> QED BY <1>5, <1>6, <2>1 DEF TableTypeOK
<1>7. ASSUME NEW t \in Tx, Insert(t), count + 1 \in Row, Pushes(t, count + 1, NoData)
      PROVE  TableTypeOK'
  <2>1. data' \in [Row -> Data] /\ deleted' \in [Row -> BOOLEAN] /\ count' \in 0..MaxRows
    BY <1>7, RowsAssumption DEF Insert, TableTypeOK, Data
  <2> QED BY <1>5, <1>7, <2>1 DEF TableTypeOK
<1>8. ASSUME NEW t \in Tx, NEW e \in UndoEntries, NEW k, UndoEntry(t), Undoes(t, e, k)
      PROVE  TableTypeOK'
  <2>1. e = undo[t][Len(undo[t])] /\ e.row \in Row /\ e.saved \in Data \cup {NoData}
    BY <1>8 DEF Undoes, UndoEntries
  <2>2. (UNCHANGED <<data, deleted>> \/ Restore(e)) /\ UNCHANGED <<count, stamped>>
    BY <1>8, <2>1 DEF UndoEntry
  <2>3. data' \in [Row -> Data] /\ deleted' \in [Row -> BOOLEAN] /\ count' \in 0..MaxRows
    BY <2>1, <2>2 DEF Restore, TableTypeOK
  <2>4. /\ chain' \in [Row -> Seq(Tx \X Nat)]
        /\ undo' \in [Tx -> Seq([row : Row, saved : Data \cup {NoData}])]
    BY <1>8 DEF Undoes, Without, Shrunk, Version, UndoEntries
  <2> QED BY <2>2, <2>3, <2>4 DEF TableTypeOK
<1>9. ASSUME NEW u \in Tx, NEW i \in Nat, NEW k \in Nat, Cleans(u, i, k) PROVE TableTypeOK'
  BY <1>9 DEF Cleans, Without, Version, TableTypeOK
<1> QED BY <1>1, <1>2, <1>3, <1>4, <1>6, <1>7, <1>8, <1>9, StepKinds

LEMMA HistoryTypeStep ==
    ASSUME ClockTypeOK, TableTypeOK, HistoryTypeOK, [Next]_vars
    PROVE  HistoryTypeOK'
<1>1. ASSUME NEW t \in Tx, NEW r \in Row, PushRow(t, r) PROVE HistoryTypeOK'
  BY <1>1 DEF PushRow, HistoryTypeOK
<1>2. ASSUME NEW t \in Tx, FinishStatement(t) PROVE HistoryTypeOK'
  <2>1. t \in Data
    BY DEF Data
  <2> QED BY <1>2, <2>1 DEF FinishStatement, HistoryTypeOK
<1>3. ASSUME NEW t \in Tx, Insert(t) PROVE HistoryTypeOK'
  <2>1. t \in Data
    BY DEF Data
  <2> QED BY <1>3, <2>1 DEF Insert, HistoryTypeOK
<1>4. CASE UNCHANGED <<writes, clobbered>>
  BY <1>4 DEF HistoryTypeOK
<1>5. ASSUME NEW t \in Tx,
             \/ \E kind \in Kinds : BeginScan(t, kind)
             \/ ScanRow(t) \/ EndScan(t) \/ LockChunk(t) \/ ThrowConflict(t)
             \/ StampEntry(t) \/ UndoEntry(t) \/ CleanupEntry(t) \/ ClockStepOf(t)
      PROVE  UNCHANGED <<writes, clobbered>>
  <2>1. CASE \/ \E kind \in Kinds : BeginScan(t, kind)
             \/ ScanRow(t) \/ EndScan(t) \/ LockChunk(t) \/ ThrowConflict(t)
    <3>1. Quiet
      BY <2>1, QuietSteps
    <3> QED BY <3>1 DEF Quiet
  <2>2. CASE StampEntry(t) \/ UndoEntry(t) \/ CleanupEntry(t)
    BY <2>2 DEF StampEntry, UndoEntry, CleanupEntry, history
  <2> QED BY <1>5, <2>1, <2>2, ClockStepSame
<1>6. CASE UNCHANGED vars
  BY <1>4, <1>6 DEF vars, history
<1> QED BY <1>1, <1>2, <1>3, <1>4, <1>5, <1>6 DEF Next, ClockStepOf

LEMMA StatementTypeStep ==
    ASSUME ClockTypeOK, StatementTypeOK, TableTypeOK, [Next]_vars
    PROVE  StatementTypeOK'
<1> USE DEF StatementTypeOK
<1>1. ASSUME NEW t \in Tx, NEW kind \in Kinds, BeginScan(t, kind) PROVE StatementTypeOK'
  BY <1>1, StatementsAssumption DEF BeginScan
<1>2. ASSUME NEW t \in Tx, ScanRow(t) PROVE StatementTypeOK'
  <2>1. cursor[t] \in Row /\ cursor[t] + 1 \in 1..MaxRows + 1
    BY <1>2, RowsAssumption DEF ScanRow, Row, TableTypeOK
  <2>2. ids' \in [Tx -> SUBSET Row]
    BY <1>2, <2>1 DEF ScanRow
  <2>3. cursor' \in [Tx -> 1..MaxRows + 1]
    BY <1>2, <2>1 DEF ScanRow
  <2> QED BY <1>2, <2>2, <2>3 DEF ScanRow, locks
<1>3. ASSUME NEW t \in Tx, EndScan(t) PROVE StatementTypeOK'
  BY <1>3, RowsAssumption DEF EndScan, EndStatement
<1>4. ASSUME NEW t \in Tx, LockChunk(t) PROVE StatementTypeOK'
  BY <1>4 DEF LockChunk
<1>5. ASSUME NEW t \in Tx, NEW r \in Row, PushRow(t, r) PROVE StatementTypeOK'
  BY <1>5 DEF PushRow, locks
<1>6. ASSUME NEW t \in Tx, ThrowConflict(t) PROVE StatementTypeOK'
  BY <1>6 DEF ThrowConflict, EndStatement, locks
<1>7. ASSUME NEW t \in Tx, FinishStatement(t) PROVE StatementTypeOK'
  BY <1>7 DEF FinishStatement, EndStatement
<1>8. ASSUME NEW t \in Tx, Insert(t) PROVE StatementTypeOK'
  BY <1>8, StatementsAssumption DEF Insert, locks
<1>9. ASSUME NEW t \in Tx, ClockStepOf(t) PROVE StatementTypeOK'
  BY <1>9, ClockStepSame
<1>10. ASSUME NEW t \in Tx, StampEntry(t) \/ UndoEntry(t) \/ CleanupEntry(t) PROVE StatementTypeOK'
  BY <1>10 DEF StampEntry, UndoEntry, CleanupEntry, statements, locks
<1>11. CASE UNCHANGED vars
  BY <1>11 DEF vars, statements, locks
<1> QED BY <1>1, <1>2, <1>3, <1>4, <1>5, <1>6, <1>7, <1>8, <1>9, <1>10, <1>11
        DEF Next, ClockStepOf

-----------------------------------------------------------------------------
(* Rows that are not counted yet, and what statements found. *)

LEMMA RowStep ==
    ASSUME ClockTypeOK, ClockInv, TableTypeOK, StatementTypeOK, HistoryTypeOK, LinkInv, OrderInv,
           KeptInv, RowInv, StatementInv, [Next]_vars
    PROVE  RowInv'
<1> DEFINE Fresh(r) == chain[r] = << >> /\ ~deleted[r] /\ \A u \in Tx : writes[u][r] = Unwritten
<1>1. /\ InitialRows <= count /\ count \in Nat /\ InitialRows \in Nat
      /\ \A r \in Row : r > count => Fresh(r)
      /\ \A t \in Tx : \A r \in ids[t] : r \in Row /\ r <= count
  BY RowsAssumption DEF RowInv, TableTypeOK, StatementTypeOK
<1>2. \A r \in Row : Versions(r) # {} => r <= count
  <2>1. ASSUME NEW r \in Row, r > count PROVE Versions(r) = {}
    <3>1. chain[r] = << >>
      BY <1>1, <2>1
    <3> QED BY <3>1 DEF Versions, ToSet
  <2> QED BY <1>1, <2>1 DEF Row
\* A step that changes nothing beyond the rows that are counted.
<1>3. ASSUME count' = count, ids' = ids \/ \A t \in Tx : \A r \in ids'[t] : r <= count,
             \A r \in Row : r > count => /\ chain'[r] = chain[r]
                                         /\ deleted'[r] = deleted[r]
                                         /\ \A u \in Tx : writes'[u][r] = writes[u][r]
      PROVE  RowInv'
  BY <1>1, <1>3 DEF RowInv
<1> HIDE DEF Fresh
<1>4. ASSUME NEW t \in Tx, NEW kind \in Kinds, BeginScan(t, kind) PROVE RowInv'
  BY <1>3, <1>4 DEF BeginScan, table, history
<1>5. ASSUME NEW t \in Tx, ScanRow(t) PROVE RowInv'
  <2>1. \A u \in Tx : \A r \in ids'[u] : r <= count
    BY <1>1, <1>5 DEF ScanRow, StatementTypeOK
  <2> QED BY <1>3, <1>5, <2>1 DEF ScanRow, table, history
<1>6. ASSUME NEW t \in Tx, EndScan(t) PROVE RowInv'
  <2>1. \A u \in Tx : ids'[u] \subseteq ids[u]
    BY <1>6 DEF EndScan, EndStatement, StatementTypeOK
  <2> QED BY <1>1, <1>3, <1>6, <2>1 DEF EndScan, table, history
<1>7. ASSUME NEW t \in Tx, LockChunk(t) PROVE RowInv'
  BY <1>3, <1>7 DEF LockChunk, table, history
<1>8. ASSUME NEW t \in Tx, ThrowConflict(t) PROVE RowInv'
  <2>1. \A u \in Tx : ids'[u] \subseteq ids[u]
    BY <1>8 DEF ThrowConflict, EndStatement, StatementTypeOK
  <2> QED BY <1>1, <1>3, <1>8, <2>1 DEF ThrowConflict, table, history
<1>9. ASSUME NEW t \in Tx, FinishStatement(t) PROVE RowInv'
  <2>1. \A u \in Tx : ids'[u] \subseteq ids[u]
    BY <1>9 DEF FinishStatement, EndStatement, StatementTypeOK
  <2>2. \A r \in Row : r > count => r \notin ids[t]
    BY <1>1 DEF Row
  <2>3. \A r \in Row : r > count => \A u \in Tx : writes'[u][r] = writes[u][r]
    BY <1>9, <2>2 DEF FinishStatement, HistoryTypeOK
  <2> QED BY <1>1, <1>3, <1>9, <2>1, <2>3 DEF FinishStatement
<1>10. ASSUME NEW t \in Tx, NEW r \in Row, PushRow(t, r), Pushes(t, r, data[r]) PROVE RowInv'
  <2>1. r <= count
    BY <1>1, <1>10 DEF PushRow, StatementInv, StatementOK
  <2>2. \A q \in Row : q > count => q # r
    BY <1>1, <2>1 DEF Row
  <2>3. \A q \in Row \ {r} : chain'[q] = chain[q]
    BY <1>10 DEF Pushes, NewHead
  <2>4. \A q \in Row \ {r} : deleted'[q] = deleted[q] /\ \A u \in Tx : writes'[u][q] = writes[u][q]
    BY <1>10 DEF PushRow, TableTypeOK, HistoryTypeOK
  <2> QED BY <1>3, <1>10, <2>2, <2>3, <2>4 DEF PushRow
<1>11. ASSUME NEW t \in Tx, Insert(t), count + 1 \in Row, Pushes(t, count + 1, NoData)
       PROVE  RowInv'
  <2>1. count' = count + 1 /\ ids' = ids /\ UNCHANGED deleted
    BY <1>11 DEF Insert
  <2>2. \A q \in Row : q > count' => q \in Row \ {count + 1} /\ q > count
    BY <1>1, <2>1 DEF Row
  <2>3. \A q \in Row \ {count + 1} : chain'[q] = chain[q]
    BY <1>11 DEF Pushes, NewHead
  <2>4. \A q \in Row \ {count + 1} : \A u \in Tx : writes'[u][q] = writes[u][q]
    BY <1>11 DEF Insert, HistoryTypeOK
  <2>5. \A q \in Row : q > count' => /\ chain'[q] = << >>
                                     /\ ~deleted'[q]
                                     /\ \A u \in Tx : writes'[u][q] = Unwritten
    BY <1>1, <2>1, <2>2, <2>3, <2>4 DEF Fresh
  <2>6. \A u \in Tx : \A q \in ids'[u] : q <= count'
    BY <1>1, <2>1 DEF Row
  <2> QED BY <1>1, <2>1, <2>5, <2>6 DEF RowInv
<1>12. ASSUME NEW t \in Tx, NEW e \in UndoEntries, NEW k, UndoEntry(t), Undoes(t, e, k)
       PROVE  RowInv'
  <2>1. e.row \in Row /\ e.row <= count
    BY <1>2, <1>12, UndoneVersions
  <2>2. \A q \in Row : q > count => q # e.row
    BY <1>1, <2>1 DEF Row
  <2>3. \A q \in Row \ {e.row} : chain'[q] = chain[q]
    BY <1>12 DEF Undoes, Without
  <2>4. UNCHANGED <<count, ids, writes>> /\ (UNCHANGED deleted \/ Restore(e))
    BY <1>12 DEF Undoes, UndoEntry, statements, history
  <2>5. \A q \in Row \ {e.row} : deleted'[q] = deleted[q]
    BY <2>4 DEF Restore, TableTypeOK
  <2> QED BY <1>3, <2>2, <2>3, <2>4, <2>5
<1>13. ASSUME NEW t \in Tx, CleanupEntry(t) PROVE RowInv'
  <2>1. UNCHANGED <<count, ids, deleted, writes>>
    BY <1>13 DEF CleanupEntry, statements, history
  <2>2. PICK u \in Tx, i \in Nat, k \in Nat : Cleans(u, i, k)
    BY <1>13, CleanupEffects
  <2>3. PICK r \in Row : r = undo[u][i].row /\ Versions(r) # {}
    BY <2>2, CleanedVersions
  <2>4. \A q \in Row \ {r} : chain'[q] = chain[q]
    BY <2>2, <2>3 DEF Cleans, Without
  <2>5. \A q \in Row : q > count => q # r
    BY <1>1, <1>2, <2>3 DEF Row
  <2> QED BY <1>3, <2>1, <2>4, <2>5
<1>14. ASSUME NEW t \in Tx, ClockStepOf(t) PROVE RowInv'
  BY <1>3, <1>14, ClockStepSame
<1>15. ASSUME NEW t \in Tx, StampEntry(t) PROVE RowInv'
  BY <1>3, <1>15 DEF StampEntry, statements, table, history
<1>16. CASE UNCHANGED vars
  BY <1>3, <1>16 DEF vars, statements, table, history
<1>17. ASSUME NEW t \in Tx, NEW r \in Row, PushRow(t, r) PROVE Pushes(t, r, data[r])
  BY <1>17, PushRowEffects
<1>18. ASSUME NEW t \in Tx, Insert(t) PROVE count + 1 \in Row /\ Pushes(t, count + 1, NoData)
  BY <1>18, InsertEffects
<1>19. ASSUME NEW t \in Tx, UndoEntry(t) PROVE \E e \in UndoEntries, k \in Nat : Undoes(t, e, k)
  BY <1>19, UndoEffects
<1> QED BY <1>4, <1>5, <1>6, <1>7, <1>8, <1>9, <1>10, <1>11, <1>12, <1>13, <1>14, <1>15, <1>16,
           <1>17, <1>18, <1>19 DEF Next, ClockStepOf

\* Unless a committed delete is written over, what PushRow saves is there, and it
\* is what was committed last if t has not written the row.
LEMMA PushFindsRow ==
    ASSUME TypeOK, ClockInv, StampInv, LinkInv, OrderInv, KeptInv, StatementInv, PresentInv,
           NEW t \in Tx, NEW r \in Row, PushRow(t, r), r \notin clobbered',
           NEW s \in Nat, s = current_start_timestamp
    PROVE  /\ r \notin clobbered
           /\ Present(r) # Dead
           /\ (\A v \in Versions(r) : v[1] # t) => Present(r) = Committed(s, r)
           /\ Present(r) = IF writes[t][r] # Unwritten THEN writes[t][r] ELSE Committed(s, r)
<1> USE DEF TypeOK
<1>1. r \notin clobbered /\ (writes[t][r] = Unwritten => Committed(s, r) # Dead)
  BY DEF PushRow
<1>2. phase[t] \in Running /\ phase[t] = "writing" /\ r \in todo[t] /\ ~Conflicts(t, r)
  BY DEF PushRow, Running
<1>3. commit_id[t] = 0
  BY <1>2 DEF ClockInv
<1>4. writes[t][r] # Dead
  BY <1>1, <1>2 DEF StatementInv, StatementOK
<1>5. CASE \E v \in Versions(r) : v[1] = t
  <2>1. Present(r) = IF writes[t][r] # Unwritten THEN writes[t][r] ELSE Committed(s, r)
    BY <1>1, <1>2, <1>5 DEF PresentInv, PresentOK
  <2> QED BY <1>1, <1>4, <1>5, <2>1
<1>6. CASE \A v \in Versions(r) : v[1] # t
  <2>1. writes[t][r] = Unwritten
    BY <1>2, <1>6, RunningHasVersion
  <2>2. \A v \in Versions(r) : commit_id[v[1]] # 0
    BY <1>2, <1>3, <1>6, NoConflict
  <2>3. Present(r) = Committed(s, r)
    BY <1>1, <2>2 DEF PresentInv, PresentOK
  <2> QED BY <1>1, <2>1, <2>3
<1> QED BY <1>5, <1>6

\* A statement is as it was, if the step leaves alone what is its own.
LEMMA StatementSame ==
    ASSUME NEW x \in Tx, StatementOK(x),
           UNCHANGED <<ids[x], todo[x], statement[x], writes[x]>>, clobbered \subseteq clobbered',
           \/ phase'[x] = phase[x]
           \/ phase[x] # "writing" /\ phase'[x] \notin {"scanning", "locking", "writing"},
           phase[x] = "writing" =>
              /\ exclusive_lock' = exclusive_lock
              /\ \A r \in ids[x] \ todo[x] :
                    /\ deleted'[r] = deleted[r]
                    /\ \A i \in Nat : <<x, i>> \in Versions(r) => <<x, i>> \in Versions(r)'
    PROVE  StatementOK(x)'
<1>1. CASE phase[x] = "writing"
  BY <1>1 DEF StatementOK
<1>2. CASE phase[x] # "writing"
  BY <1>2 DEF StatementOK
<1> QED BY <1>1, <1>2

\* A statement has ended.
LEMMA StatementEnds ==
    ASSUME StatementTypeOK, ClockTypeOK, NEW t \in Tx, NEW p \in {"ready", "failed"},
           EndStatement(t, p)
    PROVE  /\ StatementOK(t)'
           /\ \A x \in Tx \ {t} : UNCHANGED <<ids[x], todo[x], statement[x], phase[x]>>
<1>1. ids'[t] = {} /\ todo'[t] = {} /\ phase'[t] = p
  BY DEF EndStatement, Goto, StatementTypeOK, ClockTypeOK
<1>2. StatementOK(t)'
  BY <1>1 DEF StatementOK
<1>3. \A x \in Tx \ {t} : UNCHANGED <<ids[x], todo[x], statement[x], phase[x]>>
  BY DEF EndStatement, Goto, StatementTypeOK, ClockTypeOK
<1> QED BY <1>2, <1>3

LEMMA StatementStep ==
    ASSUME TypeOK, ClockInv, StampInv, LinkInv, OrderInv, KeptInv, RowInv, StatementInv,
           PresentInv, [Next]_vars
    PROVE  StatementInv'
<1> USE DEF TypeOK
<1>1. \A x \in Tx : StatementOK(x)
  BY DEF StatementInv
<1>2. \A x \in Tx : phase[x] = "writing" => exclusive_lock = x
  BY <1>1 DEF StatementOK
<1>3. SUFFICES ASSUME NEW x \in Tx PROVE StatementOK(x)'
  BY DEF StatementInv
<1>4. ASSUME NEW t \in Tx, NEW kind \in Kinds, BeginScan(t, kind) PROVE StatementOK(x)'
  <2>1. CASE x = t
    <3>1. /\ phase[t] = "ready" /\ phase'[t] = "scanning" /\ statement'[t] = kind
          /\ UNCHANGED <<ids, todo, writes, clobbered>>
          /\ kind \in {"update", "delete"}
      BY <1>4, KindsAssumption DEF BeginScan, Goto, ClockTypeOK, StatementTypeOK, history
    <3> QED BY <1>1, <2>1, <3>1 DEF StatementOK
  <2>2. CASE x # t
    <3>1. /\ UNCHANGED <<ids, todo, writes, clobbered, deleted, chain, exclusive_lock>>
          /\ statement'[x] = statement[x] /\ phase'[x] = phase[x]
      BY <1>4, <2>2 DEF BeginScan, Goto, ClockTypeOK, StatementTypeOK, history, table
    <3> QED BY <1>1, <3>1, StatementSame, VersionsSame
  <2> QED BY <2>1, <2>2
<1>5. ASSUME NEW t \in Tx, ScanRow(t) PROVE StatementOK(x)'
  <2>1. UNCHANGED <<phase, statement, todo, writes, clobbered, deleted, chain, exclusive_lock>>
    BY <1>5 DEF ScanRow, table, locks, history
  <2>2. CASE ids'[x] = ids[x]
    BY <1>1, <2>1, <2>2, StatementSame, VersionsSame
  <2>3. CASE ids'[x] # ids[x]
    <3>1. x = t /\ ids'[t] = ids[t] \cup {cursor[t]} /\ Read(t, cursor[t]) # Dead /\ phase[t] = "scanning"
      BY <1>5, <2>3 DEF ScanRow, StatementTypeOK
    <3>2. PICK c \in Row : c = cursor[t]
      BY <1>5, RowsAssumption DEF ScanRow, StatementTypeOK, TableTypeOK, Row
    <3>3. c \notin clobbered => writes[t][c] # Dead
      BY <3>1, <3>2, DataAssumption, OwnRead DEF Running
    <3> QED BY <1>1, <2>1, <3>1, <3>2, <3>3 DEF StatementOK
  <2> QED BY <2>2, <2>3
<1>6. ASSUME NEW t \in Tx, EndScan(t) PROVE StatementOK(x)'
  <2>1. UNCHANGED <<writes, clobbered, deleted, chain, exclusive_lock>> /\ phase[t] = "scanning"
    BY <1>6 DEF EndScan, table, history
  <2>2. CASE EndStatement(t, "ready")
    <3>1. CASE x = t
      BY <2>2, <3>1, StatementEnds
    <3>2. CASE x # t
      <4>1. UNCHANGED <<ids[x], todo[x], statement[x], phase[x]>>
        BY <2>2, <3>2, StatementEnds
      <4> QED BY <1>1, <2>1, <4>1, StatementSame, VersionsSame
    <3> QED BY <3>1, <3>2
  <2>3. CASE Goto(t, "locking") /\ UNCHANGED <<statement, ids, todo>>
    <3>1. CASE x = t
      <4>1. phase'[x] = "locking" /\ phase[x] = "scanning"
        BY <2>1, <2>3, <3>1 DEF Goto, ClockTypeOK
      <4> QED BY <1>1, <2>1, <2>3, <4>1 DEF StatementOK
    <3>2. CASE x # t
      <4>1. phase'[x] = phase[x]
        BY <2>3, <3>2 DEF Goto, ClockTypeOK
      <4> QED BY <1>1, <2>1, <2>3, <4>1, StatementSame, VersionsSame
    <3> QED BY <3>1, <3>2
  <2> QED BY <1>6, <2>2, <2>3 DEF EndScan
<1>7. ASSUME NEW t \in Tx, LockChunk(t) PROVE StatementOK(x)'
  <2>1. /\ UNCHANGED <<writes, clobbered, deleted, chain, ids, statement>>
        /\ phase[t] = "locking" /\ exclusive_lock = NoTx /\ exclusive_lock' = t
        /\ phase'[x] = IF x = t THEN "writing" ELSE phase[x]
        /\ todo'[x] = IF x = t THEN ids[x] ELSE todo[x]
    BY <1>7 DEF LockChunk, Goto, ClockTypeOK, StatementTypeOK, table, history
  <2>2. CASE x = t
    BY <1>1, <2>1, <2>2 DEF StatementOK
  <2>3. CASE x # t
    <3>1. phase[x] # "writing"
      BY <1>2, <2>1, TxAssumption
    <3> QED BY <1>1, <2>1, <2>3, <3>1, StatementSame
  <2> QED BY <2>2, <2>3
<1>8. ASSUME NEW t \in Tx, NEW r \in Row, PushRow(t, r) PROVE StatementOK(x)'
  <2>1. /\ UNCHANGED <<phase, ids, statement, exclusive_lock>> /\ phase[t] = "writing"
        /\ clobbered \subseteq clobbered'
        /\ r \in todo[t]
        /\ todo'[x] = IF x = t THEN todo[x] \ {r} ELSE todo[x]
        /\ \A q \in Row : writes'[x][q] = IF x = t /\ q = r /\ statement[t] = "delete"
                                          THEN Dead ELSE writes[x][q]
        /\ statement[t] = "update" => UNCHANGED deleted
        /\ x # t => writes'[x] = writes[x]
    <3>1. /\ UNCHANGED <<phase, ids, statement, exclusive_lock>> /\ phase[t] = "writing"
          /\ clobbered \subseteq clobbered'
          /\ r \in todo[t]
          /\ statement[t] = "update" => UNCHANGED deleted
      BY <1>8 DEF PushRow, locks
    <3>2. todo'[x] = IF x = t THEN todo[x] \ {r} ELSE todo[x]
      BY <1>8 DEF PushRow, StatementTypeOK
    <3>3. CASE statement[t] = "delete" /\ writes' = [writes EXCEPT ![t][r] = Dead]
      <4>1. /\ \A q \in Row : writes'[x][q] = IF x = t /\ q = r THEN Dead ELSE writes[x][q]
            /\ x # t => writes'[x] = writes[x]
        BY <3>3 DEF HistoryTypeOK
      <4> QED BY <3>1, <3>2, <3>3, <4>1
    <3>4. CASE statement[t] = "update" /\ UNCHANGED writes
      BY <3>1, <3>2, <3>4
    <3> QED BY <1>8, <3>3, <3>4 DEF PushRow
  <2>2. CASE x # t
    <3>1. phase[x] # "writing"
      BY <1>2, <2>1, <2>2
    <3> QED BY <1>1, <2>1, <2>2, <3>1, StatementSame
  <2>3. CASE x = t
    <3>1. ids[t] \subseteq Row /\ todo[t] \subseteq ids[t] /\ statement[t] \in {"update", "delete"}
      BY <1>1, <2>1 DEF StatementOK, StatementTypeOK
    <3>2. Pushes(t, r, data[r])
      BY <1>8, PushRowEffects
    <3>3. PICK n \in Nat : n = Len(undo[t]) + 1
      BY EntryTypes
    <3>4. /\ <<t, n>> \in Versions(r)'
          /\ \A q \in Row : Versions(q) \subseteq Versions(q)'
      BY <3>2, <3>3, PushedVersions
    <3>5. ASSUME NEW q \in todo'[t] \ clobbered' PROVE writes'[t][q] # Dead
      BY <1>1, <2>1, <2>3, <3>1, <3>5 DEF StatementOK
    <3>6. ASSUME NEW q \in ids[t] \ todo'[t] PROVE \E i \in Nat : <<t, i>> \in Versions(q)'
      <4>1. CASE q = r
        BY <3>3, <3>4, <4>1
      <4>2. CASE q # r
        <5>1. PICK i \in Nat : <<t, i>> \in Versions(q)
          BY <1>1, <2>1, <2>3, <3>6, <4>2 DEF StatementOK
        <5> QED BY <3>1, <3>4, <5>1
      <4> QED BY <4>1, <4>2
    <3>7. ASSUME NEW q \in ids[t] \ todo'[t], statement[t] = "update", q \notin clobbered'
          PROVE  ~deleted'[q]
      <4>1. CASE q = r
        <5>1. PICK s \in Nat : s = current_start_timestamp
          BY DEF ClockTypeOK
        <5>2. Present(r) # Dead
          BY <1>8, <3>7, <4>1, <5>1, PushFindsRow
        <5> QED BY <2>1, <3>7, <4>1, <5>2 DEF Present
      <4>2. CASE q # r
        BY <1>1, <2>1, <2>3, <3>7, <4>2 DEF StatementOK
      <4> QED BY <4>1, <4>2
    <3>8. todo'[t] \subseteq ids'[t]
      BY <2>1, <2>3, <3>1
    <3>9. exclusive_lock = t
      BY <1>2, <2>1
    <3> QED BY <2>1, <2>3, <3>1, <3>5, <3>6, <3>7, <3>8, <3>9 DEF StatementOK
  <2> QED BY <2>2, <2>3
<1>9. ASSUME NEW t \in Tx, ThrowConflict(t) PROVE StatementOK(x)'
  <2>1. UNCHANGED <<writes, clobbered, deleted, chain, exclusive_lock>>
    BY <1>9 DEF ThrowConflict, table, history, locks
  <2>2. PICK p \in {"ready", "failed"} : EndStatement(t, p)
    BY <1>9 DEF ThrowConflict
  <2>3. CASE x = t
    BY <2>2, <2>3, StatementEnds
  <2>4. CASE x # t
    <3>1. UNCHANGED <<ids[x], todo[x], statement[x], phase[x]>>
      BY <2>2, <2>4, StatementEnds
    <3> QED BY <1>1, <2>1, <3>1, StatementSame, VersionsSame
  <2> QED BY <2>3, <2>4
<1>10. ASSUME NEW t \in Tx, FinishStatement(t) PROVE StatementOK(x)'
  <2>1. CASE x = t
    BY <1>10, <2>1, StatementEnds DEF FinishStatement
  <2>2. CASE x # t
    <3>1. UNCHANGED <<ids[x], todo[x], statement[x], phase[x]>>
      BY <1>10, <2>2, StatementEnds DEF FinishStatement
    <3>2. phase[t] = "writing" /\ UNCHANGED clobbered /\ writes'[x] = writes[x]
      BY <1>10, <2>2 DEF FinishStatement, HistoryTypeOK
    <3>3. phase[x] # "writing"
      BY <1>2, <2>2, <3>2
    <3> QED BY <1>1, <3>1, <3>2, <3>3, StatementSame
  <2> QED BY <2>1, <2>2
<1>11. ASSUME NEW t \in Tx, Insert(t) PROVE StatementOK(x)'
  <2>1. /\ UNCHANGED <<phase, ids, todo, statement, clobbered>>
        /\ exclusive_lock = NoTx
        /\ x # t => writes'[x] = writes[x]
        /\ \A q \in Row : writes'[x][q] = writes[x][q] \/ writes'[x][q] \in Data
    BY <1>11 DEF Insert, HistoryTypeOK, Data
  <2>2. phase[x] # "writing"
    BY <1>2, <2>1, TxAssumption
  <2>3. \A q \in Row : writes[x][q] # Dead => writes'[x][q] # Dead
    BY <2>1, DataAssumption
  <2>4. ids[x] \subseteq Row
    BY DEF StatementTypeOK
  <2> QED BY <1>1, <2>1, <2>2, <2>3, <2>4 DEF StatementOK
<1>12. ASSUME NEW t \in Tx, ClockStepOf(t) PROVE StatementOK(x)'
  <2>1. UNCHANGED <<deleted, chain, writes, clobbered, statement, ids, todo, exclusive_lock>>
    BY <1>12, ClockStepSame
  <2>2. \/ phase'[x] = phase[x]
        \/ phase[x] # "writing" /\ phase'[x] \notin {"scanning", "locking", "writing"}
    BY <1>12 DEF ClockStepOf, StartTransaction, CommitTransaction, RollbackTransaction,
                 BeginRemove, CleanupDone, EndRemove, Goto, ClockTypeOK
  <2> QED BY <1>1, <2>1, <2>2, StatementSame, VersionsSame
<1>13. ASSUME NEW t \in Tx, StampEntry(t) PROVE StatementOK(x)'
  <2>1. UNCHANGED <<deleted, chain, writes, clobbered, statement, ids, todo, exclusive_lock, phase>>
    BY <1>13 DEF StampEntry, table, statements, history, locks
  <2> QED BY <1>1, <2>1, StatementSame, VersionsSame
<1>14. ASSUME NEW t \in Tx, UndoEntry(t) PROVE StatementOK(x)'
  <2>1. PICK e \in UndoEntries, k \in Nat : Undoes(t, e, k)
    BY <1>14, UndoEffects
  <2>2. /\ UNCHANGED <<writes, clobbered, statement, ids, todo, exclusive_lock, phase>>
        /\ UNCHANGED deleted \/ Restore(e)
        /\ phase[t] = "undoing"
    BY <1>14, <2>1 DEF UndoEntry, statements, history, locks, Undoes
  <2>3. ASSUME phase[x] = "writing", NEW r \in ids[x] \ todo[x]
        PROVE  /\ deleted'[r] = deleted[r]
               /\ \A i \in Nat : <<x, i>> \in Versions(r) => <<x, i>> \in Versions(r)'
    <3>1. x # t /\ r \in Row
      BY <2>2, <2>3 DEF StatementTypeOK
    <3>2. PICK i \in Nat : <<x, i>> \in Versions(r)
      BY <1>1, <2>3 DEF StatementOK
    <3>3. commit_id[x] = 0 /\ commit_id[t] = 0
      BY <2>2, <2>3 DEF ClockInv, Running
    <3>4. r # e.row
      <4> SUFFICES ASSUME r = e.row PROVE FALSE
        OBVIOUS
      <4>1. <<t, Len(undo[t])>> \in Versions(r)
        BY <2>1, UndoneVersions
      <4>2. PICK v \in Versions(r) : v[1] = t
        BY <4>1
      <4>3. PICK w \in Versions(r) : w[1] = x
        BY <3>2
      <4> QED BY <3>1, <3>3, <4>2, <4>3, OneWriter
    <3>5. Versions(r)' = Versions(r)
      BY <2>1, <3>1, <3>4, UndoneVersions
    <3>6. deleted'[r] = deleted[r]
      BY <2>2, <3>1, <3>4 DEF Restore, TableTypeOK
    <3> QED BY <3>5, <3>6
  <2> QED BY <1>1, <2>2, <2>3, StatementSame
<1>15. ASSUME NEW t \in Tx, CleanupEntry(t) PROVE StatementOK(x)'
  <2>1. UNCHANGED <<deleted, writes, clobbered, statement, ids, todo, exclusive_lock, phase>>
    BY <1>15 DEF CleanupEntry, statements, history, locks
  <2>2. PICK u \in Tx, i \in Nat, k \in Nat : Cleans(u, i, k)
    BY <1>15, CleanupEffects
  <2>3. ASSUME phase[x] = "writing", NEW r \in ids[x] \ todo[x]
        PROVE  \A j \in Nat : <<x, j>> \in Versions(r) => <<x, j>> \in Versions(r)'
    <3>1. x # u /\ r \in Row
      BY <2>2, <2>3 DEF StatementTypeOK, Cleans
    <3>2. PICK q \in Row : /\ Versions(q)' = Versions(q) \ {<<u, i>>}
                           /\ \A p \in Row \ {q} : Versions(p)' = Versions(p)
      BY <2>2, CleanedVersions
    <3>3. \A j \in Nat : <<x, j>> # <<u, i>>
      BY <3>1
    <3> QED BY <3>1, <3>2, <3>3
  <2> QED BY <1>1, <2>1, <2>3, StatementSame
<1>16. CASE UNCHANGED vars
  BY <1>1, <1>16, StatementSame, VersionsSame DEF vars, statements, table, history, locks
<1> QED BY <1>4, <1>5, <1>6, <1>7, <1>8, <1>9, <1>10, <1>11, <1>12, <1>13, <1>14, <1>15, <1>16
        DEF Next, ClockStepOf

-----------------------------------------------------------------------------
(* What versions and the table have of a row. *)

\* Those who have not committed are the only ones whose history changes.
LEMMA WritersHaveNotCommitted ==
    ASSUME ClockTypeOK, ClockInv, HistoryTypeOK, TableTypeOK, [Next]_vars,
           NEW u \in Tx, commit_id[u] # 0
    PROVE  writes'[u] = writes[u]
<1>1. ASSUME NEW t \in Tx, NEW r \in Row, PushRow(t, r) PROVE writes'[u] = writes[u]
  <2>1. u # t
    BY <1>1 DEF PushRow, ClockInv, Running
  <2> QED BY <1>1, <2>1 DEF PushRow, HistoryTypeOK
<1>2. ASSUME NEW t \in Tx, FinishStatement(t) PROVE writes'[u] = writes[u]
  <2>1. u # t
    BY <1>2 DEF FinishStatement, ClockInv, Running
  <2> QED BY <1>2, <2>1 DEF FinishStatement, HistoryTypeOK
<1>3. ASSUME NEW t \in Tx, Insert(t) PROVE writes'[u] = writes[u]
  <2>1. u # t
    BY <1>3 DEF Insert, ClockInv, Running
  <2> QED BY <1>3, <2>1 DEF Insert, HistoryTypeOK
<1>4. ASSUME NEW t \in Tx,
             \/ \E kind \in Kinds : BeginScan(t, kind)
             \/ ScanRow(t) \/ EndScan(t) \/ LockChunk(t) \/ ThrowConflict(t)
             \/ StampEntry(t) \/ UndoEntry(t) \/ CleanupEntry(t) \/ ClockStepOf(t)
      PROVE  UNCHANGED writes
  <2>1. CASE \/ \E kind \in Kinds : BeginScan(t, kind)
             \/ ScanRow(t) \/ EndScan(t) \/ LockChunk(t) \/ ThrowConflict(t)
    <3>1. Quiet
      BY <2>1, QuietSteps
    <3> QED BY <3>1 DEF Quiet
  <2>2. CASE StampEntry(t) \/ UndoEntry(t) \/ CleanupEntry(t)
    BY <2>2 DEF StampEntry, UndoEntry, CleanupEntry, history
  <2> QED BY <1>4, <2>1, <2>2, ClockStepSame
<1>5. CASE UNCHANGED vars
  BY <1>5 DEF vars, history
<1> QED BY <1>1, <1>2, <1>3, <1>4, <1>5 DEF Next, ClockStepOf

\* A step that changes nothing of the clock keeps what is committed.
LEMMA ClockSameCommitted ==
    ASSUME ClockTypeOK, ClockInv, HistoryTypeOK, TableTypeOK, [Next]_vars, ClockSame,
           NEW s \in Nat, NEW r \in Row
    PROVE  Committed(s, r)' = Committed(s, r)
<1>1. UNCHANGED commit_id
  BY DEF ClockSame, transactions
<1>2. \A u \in Tx : commit_id[u] # 0 => writes'[u][r] = writes[u][r]
  BY WritersHaveNotCommitted
<1> QED BY <1>1, <1>2, CommittedSame

\* A step that leaves the clock and the version as they are, and makes no version
\* the oldest of its transaction.
LEMMA ContentSame ==
    ASSUME ClockTypeOK, ClockInv, HistoryTypeOK, TableTypeOK, ContentInv, [Next]_vars, ClockSame,
           NEW r \in Row, r \notin clobbered, NEW v \in Version, NEW s \in Nat,
           Needed(r, v, s)', v \in Versions(r), Oldest(r, v),
           undo'[v[1]][v[2]] = undo[v[1]][v[2]]
    PROVE  Content(v)' = Committed(s, r)'
<1>1. v[1] \in Tx
  BY DEF Version
<1>2. UNCHANGED <<commit_id, current_start_timestamp>>
  BY DEF ClockSame, transactions
<1>3. Overlaps(v[1])' => Overlaps(v[1])
  <2>1. PICK u \in Tx : u = v[1]
    BY <1>1
  <2>2. start_time' = start_time /\ Active' = Active
    BY SameActive DEF ClockSame, transactions
  <2> QED BY <1>2, <2>2 DEF Overlaps
<1>4. CommitsAt(v[1], s)
  BY <1>2 DEF Needed, CommitsAt
<1>5. Content(v) = Committed(s, r)
  BY <1>2, <1>3, <1>4 DEF Needed, ContentInv
<1>6. Content(v)' = Content(v)
  BY DEF Content, Saved
<1> QED BY <1>5, <1>6, ClockSameCommitted

\* What a transaction that has not committed made of a row that another one has
\* a version of: nothing.
LEMMA OthersWroteNothing ==
    ASSUME TableTypeOK, ClockInv, LinkInv, OrderInv, KeptInv, NEW t \in Tx, phase[t] \in Running,
           NEW r \in Row, NEW v \in Versions(r), v[1] # t, commit_id[v[1]] = 0
    PROVE  writes[t][r] = Unwritten
<1> SUFFICES ASSUME writes[t][r] # Unwritten PROVE FALSE
  OBVIOUS
<1>1. PICK i \in Nat : <<t, i>> \in Versions(r)
  BY RunningHasVersion
<1>2. PICK w \in Versions(r) : w[1] = t
  BY <1>1
<1>3. commit_id[t] = 0
  BY DEF ClockInv
<1> QED BY <1>2, <1>3, OneWriter

LEMMA ContentClock ==
    ASSUME TypeOK, ClockInv, LinkInv, OrderInv, KeptInv, ContentInv,
           NEW t \in Tx, ClockStepOf(t)
    PROVE  ContentInv'
<1> USE DEF TypeOK
<1>1. UNCHANGED <<chain, undo, writes, clobbered>>
  BY ClockStepSame
<1> SUFFICES ASSUME NEW r \in Row, r \notin clobbered, NEW v \in Version, NEW s \in Nat,
                    Needed(r, v, s)'
             PROVE  Content(v)' = Committed(s, r)'
  BY <1>1 DEF ContentInv
<1>2. PICK u \in Tx : u = v[1]
  BY DEF Version
<1>3. v \in Versions(r) /\ Oldest(r, v) /\ Content(v)' = Content(v)
  BY <1>1 DEF Needed, Oldest, Versions, Content, Saved
<1>4. commit_id[u] = 0 \/ Overlaps(u)
  <2>1. commit_id'[u] = 0 \/ Overlaps(u)'
    BY <1>2 DEF Needed, Overlaps
  <2> QED BY <2>1, OverlapsStep
<1>5. ASSUME NEW e \in Nat, CommitsAt(u, e) PROVE Content(v) = Committed(e, r)
  BY <1>2, <1>3, <1>4, <1>5 DEF ContentInv, Needed, Overlaps
<1>6. CommitsAt(u, s)'
  BY <1>2 DEF Needed, CommitsAt
<1>7. /\ current_start_timestamp \in Nat
      /\ \A x \in Tx : /\ commit_id[x] \in Nat
                       /\ commit_id[x] = 0 \/ commit_id[x] < current_start_timestamp
  BY DEF ClockInv, ClockTypeOK
<1>8. CASE StartTransaction(t)
  <2>1. /\ UNCHANGED commit_id /\ current_start_timestamp' = current_start_timestamp + 1
    BY <1>8 DEF StartTransaction
  <2>2. Committed(s, r)' = Committed(s, r)
    BY <1>1, <2>1, CommittedSame
  <2>3. CASE commit_id[u] = 0
    <3>1. PICK e \in Nat : e = current_start_timestamp
      BY <1>7
    <3>2. s = e + 1 /\ CommitsAt(u, e)
      BY <1>6, <2>1, <2>3, <3>1 DEF CommitsAt
    <3>3. Committed(e, r) = Committed(e + 1, r)
      BY <3>1, CommittedByNow
    <3> QED BY <1>3, <1>5, <2>2, <3>2, <3>3
  <2>4. CASE commit_id[u] # 0
    <3>1. CommitsAt(u, s)
      BY <1>6, <2>1, <2>4 DEF CommitsAt
    <3> QED BY <1>3, <1>5, <2>2, <3>1
  <2> QED BY <2>3, <2>4
<1>9. CASE CommitTransaction(t)
  <2>1. /\ phase[t] \in Running /\ commit_id[t] = 0
        /\ current_start_timestamp' = current_start_timestamp + 1
        /\ commit_id'[u] = IF u = t THEN current_start_timestamp ELSE commit_id[u]
    BY <1>9 DEF CommitTransaction, ClockInv, ClockTypeOK, Running
  <2>2. current_start_timestamp # 0
    <3>1. phase[t] = "ready" /\ start_time[t] \in Nat
      BY <1>9 DEF CommitTransaction, ClockTypeOK
    <3>2. start_time[t] < current_start_timestamp
      BY <3>1 DEF ClockInv
    <3> QED BY <1>7, <3>1, <3>2
  <2>3. PICK e \in Nat : e = current_start_timestamp
    BY <1>7
  <2>4. CASE u = t
    <3>1. s = e /\ CommitsAt(u, e)
      BY <1>6, <2>1, <2>2, <2>3, <2>4 DEF CommitsAt
    <3>2. Committed(e, r)' = Committed(e, r)
      BY <1>9, <2>3, CommittedMore
    <3> QED BY <1>3, <1>5, <3>1, <3>2
  <2>5. CASE u # t /\ commit_id[u] = 0
    <3>1. s = e + 1 /\ CommitsAt(u, e)
      BY <1>6, <2>1, <2>3, <2>5 DEF CommitsAt
    <3>2. writes[t][r] = Unwritten
      BY <1>2, <1>3, <2>1, <2>5, OthersWroteNothing
    <3>3. Committed(e + 1, r)' = Committed(e, r)
      BY <1>9, <2>3, <3>2, CommittedMore
    <3> QED BY <1>3, <1>5, <3>1, <3>3
  <2>6. CASE u # t /\ commit_id[u] # 0
    <3>1. CommitsAt(u, s) /\ s <= current_start_timestamp
      BY <1>6, <1>7, <2>1, <2>6 DEF CommitsAt
    <3>2. Committed(s, r)' = Committed(s, r)
      BY <1>9, <3>1, CommittedMore
    <3> QED BY <1>3, <1>5, <3>1, <3>2
  <2> QED BY <2>4, <2>5, <2>6
<1>10. CASE UNCHANGED <<commit_id, current_start_timestamp>>
  <2>1. CommitsAt(u, s)
    BY <1>6, <1>10 DEF CommitsAt
  <2>2. Committed(s, r)' = Committed(s, r)
    BY <1>1, <1>10, CommittedSame
  <2> QED BY <1>3, <1>5, <2>1, <2>2
<1>11. ASSUME ~StartTransaction(t), ~CommitTransaction(t)
       PROVE  UNCHANGED <<commit_id, current_start_timestamp>>
  BY <1>11 DEF ClockStepOf, RollbackTransaction, BeginRemove, CleanupDone, EndRemove
<1> QED BY <1>8, <1>9, <1>10, <1>11

\* A push: the versions that were there keep their content, and a new one that
\* is the oldest of its transaction saves what was committed.
LEMMA ContentPush ==
    ASSUME TypeOK, ClockInv, LinkInv, ContentInv, [Next]_vars, clobbered \subseteq clobbered',
           NEW t \in Tx, NEW q \in Row, NEW saved \in Data \cup {NoData}, Pushes(t, q, saved),
           ASSUME NEW s \in Nat, s = current_start_timestamp, q \notin clobbered',
                  \A v \in Versions(q) : v[1] # t
           PROVE  (IF saved = NoData THEN Dead ELSE saved) = Committed(s, q)
    PROVE  ContentInv'
<1> USE DEF TypeOK
<1>1. ClockSame /\ Grown(t, [row |-> q, saved |-> saved]) /\ commit_id[t] = 0
  BY DEF Pushes, ClockInv, Running
<1>2. PICK n \in Nat : n = Len(undo[t]) + 1
  BY EntryTypes
<1>3. /\ Versions(q)' = Versions(q) \cup {<<t, n>>}
      /\ \A r \in Row \ {q} : Versions(r)' = Versions(r)
  BY <1>2, PushedVersions
<1> SUFFICES ASSUME NEW r \in Row, r \notin clobbered', NEW v \in Version, NEW s \in Nat,
                    Needed(r, v, s)'
             PROVE  Content(v)' = Committed(s, r)'
  BY DEF ContentInv
<1>4. v \in Versions(r)' /\ \A w \in Versions(r)' : w[1] = v[1] => v[2] <= w[2]
  BY DEF Needed, Oldest
<1>5. CASE v \in Versions(r)
  <2>1. Oldest(r, v)
    BY <1>3, <1>4 DEF Oldest
  <2>2. v[1] \in Tx /\ v[2] \in 1..Len(undo[v[1]])
    BY <1>5, VersionTypes
  <2>3. undo'[v[1]][v[2]] = undo[v[1]][v[2]]
    <3> DEFINE e == [row |-> q, saved |-> saved]
    <3>1. Grown(t, e)
      BY <1>1
    <3> HIDE DEF e
    <3> QED BY <2>2, <3>1, EntriesGrown
  <2> QED BY <1>1, <1>5, <2>1, <2>3, ContentSame
<1>6. CASE v \notin Versions(r)
  <2>1. r = q /\ v = <<t, n>>
    BY <1>3, <1>4, <1>6
  <2>2. /\ \A w \in Versions(q) : w[1] # t
    <3> SUFFICES ASSUME NEW w \in Versions(q), w[1] = t PROVE FALSE
      OBVIOUS
    <3>1. w[2] \in 1..Len(undo[t]) /\ Len(undo[t]) \in Nat
      BY VersionTypes, EntryTypes
    <3>2. n <= w[2]
      BY <1>3, <1>4, <2>1
    <3> QED BY <1>2, <3>1, <3>2
  <2>3. s = current_start_timestamp
    BY <1>1, <2>1 DEF Needed, CommitsAt, ClockSame, transactions
  <2>4. (IF saved = NoData THEN Dead ELSE saved) = Committed(s, q)
    BY <2>1, <2>2, <2>3
  <2>5. Content(v)' = IF saved = NoData THEN Dead ELSE saved
    BY <1>1, <1>2, <2>1 DEF Content, Saved, Grown
  <2> QED BY <1>1, <2>1, <2>4, <2>5, ClockSameCommitted
<1> QED BY <1>5, <1>6

LEMMA ContentStep ==
    ASSUME TypeOK, ClockInv, StampInv, LinkInv, OrderInv, KeptInv, RowInv, StatementInv,
           ContentInv, PresentInv, [Next]_vars
    PROVE  ContentInv'
<1> USE DEF TypeOK
<1>1. current_start_timestamp \in Nat
  BY DEF ClockTypeOK
<1>2. ASSUME ClockSame, UNCHANGED <<chain, undo>>, clobbered' = clobbered PROVE ContentInv'
  <2> SUFFICES ASSUME NEW r \in Row, r \notin clobbered, NEW v \in Version, NEW s \in Nat,
                      Needed(r, v, s)'
               PROVE  Content(v)' = Committed(s, r)'
    BY <1>2 DEF ContentInv
  <2>1. v \in Versions(r) /\ Oldest(r, v)
    BY <1>2 DEF Needed, Oldest, Versions
  <2> QED BY <1>2, <2>1, ContentSame
<1>3. ASSUME NEW t \in Tx, ClockStepOf(t) PROVE ContentInv'
  BY <1>3, ContentClock
<1>4. ASSUME NEW t \in Tx, NEW q \in Row, PushRow(t, q), Pushes(t, q, data[q])
      PROVE  ContentInv'
  <2>1. data[q] \in Data /\ data[q] # NoData /\ clobbered \subseteq clobbered'
    BY <1>4, DataAssumption DEF TableTypeOK, PushRow
  <2>2. ASSUME NEW s \in Nat, s = current_start_timestamp, q \notin clobbered',
               \A v \in Versions(q) : v[1] # t
        PROVE  (IF data[q] = NoData THEN Dead ELSE data[q]) = Committed(s, q)
    <3>1. Present(q) # Dead /\ Present(q) = Committed(s, q)
      BY <1>4, <2>2, PushFindsRow
    <3> QED BY <2>1, <3>1 DEF Present
  <2>3. PICK saved \in Data \cup {NoData} : saved = data[q]
    BY <2>1
  <2>4. Pushes(t, q, saved)
    BY <1>4, <2>3
  <2>5. ASSUME NEW s \in Nat, s = current_start_timestamp, q \notin clobbered',
               \A v \in Versions(q) : v[1] # t
        PROVE  (IF saved = NoData THEN Dead ELSE saved) = Committed(s, q)
    BY <2>2, <2>3, <2>5
  <2> QED BY <2>1, <2>4, <2>5, ContentPush
<1>5. ASSUME NEW t \in Tx, Insert(t), count + 1 \in Row, Pushes(t, count + 1, NoData)
      PROVE  ContentInv'
  <2>1. PICK q \in Row : q = count + 1
    BY <1>5
  <2>2. /\ q > InitialRows
        /\ \A u \in Tx : writes[u][q] = Unwritten
    BY <2>1, RowsAssumption DEF RowInv, TableTypeOK
  <2>3. ASSUME NEW s \in Nat PROVE Committed(s, q) = Dead
    <3>1. Writers(s, q) = {}
      BY <2>2 DEF Writers
    <3>2. AtStart(q) = Dead
      BY <2>2, RowsAssumption DEF AtStart, Row
    <3> QED BY <3>1, <3>2, CommittedIs
  <2>4. UNCHANGED clobbered /\ Pushes(t, q, NoData)
    BY <1>5, <2>1 DEF Insert
  <2> QED BY <2>3, <2>4, ContentPush
<1>6. ASSUME NEW t \in Tx, NEW e \in UndoEntries, NEW k, UndoEntry(t), Undoes(t, e, k)
      PROVE  ContentInv'
  <2>1. ClockSame /\ clobbered' = clobbered /\ Shrunk(t)
    BY <1>6 DEF Undoes, UndoEntry, history
  <2> SUFFICES ASSUME NEW r \in Row, r \notin clobbered, NEW v \in Version, NEW s \in Nat,
                      Needed(r, v, s)'
               PROVE  Content(v)' = Committed(s, r)'
    BY <2>1 DEF ContentInv
  <2>2. v \in Versions(r)' /\ \A w \in Versions(r)' : w[1] = v[1] => v[2] <= w[2]
    BY DEF Needed, Oldest
  <2>3. /\ v \in Versions(r) /\ (r = e.row => v # <<t, Len(undo[t])>>)
        /\ \A w \in Versions(r) : w \in Versions(r)' \/ w = <<t, Len(undo[t])>>
    BY <1>6, <2>2, UndoneVersions
  <2>4. /\ v[1] \in Tx /\ v[2] \in 1..Len(undo[v[1]]) /\ Len(undo[v[1]]) \in Nat
        /\ v = <<v[1], v[2]>> /\ undo[v[1]][v[2]].row = r
    BY <2>3, VersionTypes, EntryTypes
  <2>5. v[1] = t => v[2] \in 1..Len(undo[t]) - 1
    <3> SUFFICES ASSUME v[1] = t, v[2] = Len(undo[t]) PROVE FALSE
      BY <2>4
    <3>1. r = e.row
      BY <1>6, <2>4 DEF Undoes
    <3> QED BY <2>3, <2>4, <3>1
  <2>6. undo'[v[1]][v[2]] = undo[v[1]][v[2]]
    BY <2>1, <2>4, <2>5 DEF Shrunk
  <2>7. Oldest(r, v)
    <3> SUFFICES ASSUME NEW w \in Versions(r), w[1] = v[1], ~(v[2] <= w[2]) PROVE FALSE
      BY DEF Oldest
    <3>1. w = <<t, Len(undo[t])>>
      BY <2>2, <2>3
    <3> QED BY <2>4, <2>5, <3>1
  <2> QED BY <2>1, <2>3, <2>6, <2>7, ContentSame
<1>7. ASSUME NEW u \in Tx, NEW i \in Nat, NEW k \in Nat, Cleans(u, i, k) PROVE ContentInv'
  <2>1. ClockSame /\ UNCHANGED <<undo, clobbered>> /\ commit_id[u] # 0 /\ ~Overlaps(u)
    BY <1>7 DEF Cleans
  <2> SUFFICES ASSUME NEW r \in Row, r \notin clobbered, NEW v \in Version, NEW s \in Nat,
                      Needed(r, v, s)'
               PROVE  Content(v)' = Committed(s, r)'
    BY <2>1 DEF ContentInv
  <2>2. v \in Versions(r)' /\ \A w \in Versions(r)' : w[1] = v[1] => v[2] <= w[2]
    BY DEF Needed, Oldest
  <2>3. /\ v \in Versions(r)
        /\ \A w \in Versions(r) : w \in Versions(r)' \/ w = <<u, i>>
    BY <1>7, <2>2, CleanedVersions
  <2>4. v[1] # u
    <3> SUFFICES ASSUME v[1] = u PROVE FALSE
      OBVIOUS
    <3>1. commit_id'[u] = 0 \/ Overlaps(u)'
      BY DEF Needed, Overlaps
    <3>2. commit_id'[u] = commit_id[u] /\ (Overlaps(u)' <=> Overlaps(u))
      BY <2>1, KeptSame
    <3> QED BY <2>1, <3>1, <3>2
  <2>5. Oldest(r, v)
    BY <2>2, <2>3, <2>4 DEF Oldest
  <2> QED BY <2>1, <2>3, <2>5, ContentSame
<1>8. CASE Quiet
  BY <1>2, <1>8 DEF Quiet
<1>9. ASSUME NEW t \in Tx, StampEntry(t) \/ FinishStatement(t), ClockSame PROVE ContentInv'
  BY <1>2, <1>9 DEF StampEntry, FinishStatement, table, history
<1> QED BY <1>3, <1>4, <1>5, <1>6, <1>7, <1>8, <1>9, StepKinds

\* A row that nothing happens to, while others make progress.
LEMMA PresentSame ==
    ASSUME ClockTypeOK, ClockInv, HistoryTypeOK, TableTypeOK, LinkInv, PresentInv, [Next]_vars,
           ClockSame, NEW r \in Row, r \notin clobbered, NEW s \in Nat,
           s = current_start_timestamp', Present(r)' = Present(r),
           \/ Versions(r)' = Versions(r)
           \/ \E u \in Tx, i \in Nat : /\ commit_id[u] # 0
                                       /\ Versions(r)' = Versions(r) \ {<<u, i>>},
           \A v \in Versions(r) : phase[v[1]] \in Running => writes'[v[1]][r] = writes[v[1]][r]
    PROVE  PresentOK(r, s)'
<1>1. /\ current_start_timestamp' = current_start_timestamp /\ UNCHANGED commit_id
      /\ \A u \in Tx : phase'[u] \in Running => phase[u] \in Running
  BY DEF ClockSame, transactions
<1>2. PresentOK(r, s)
  BY <1>1 DEF PresentInv
<1>3. Committed(s, r)' = Committed(s, r)
  BY ClockSameCommitted
<1>4. /\ \A v \in Versions(r)' : v \in Versions(r)
      /\ \A v \in Versions(r) : v \in Versions(r)' \/ commit_id[v[1]] # 0
  OBVIOUS
<1>5. \A v \in Versions(r) : v[1] \in Tx
  BY VersionTypes
<1> QED BY <1>1, <1>2, <1>3, <1>4, <1>5 DEF PresentOK

LEMMA PresentClock ==
    ASSUME TypeOK, ClockInv, StampInv, LinkInv, OrderInv, KeptInv, PresentInv,
           NEW t \in Tx, ClockStepOf(t)
    PROVE  PresentInv'
<1> USE DEF TypeOK
<1>1. UNCHANGED <<data, deleted, count, chain, undo, writes, clobbered>>
  BY ClockStepSame
<1> SUFFICES ASSUME NEW r \in Row, r \notin clobbered, NEW s \in Nat,
                    s = current_start_timestamp'
             PROVE  PresentOK(r, s)'
  BY <1>1 DEF PresentInv
<1>2. Versions(r)' = Versions(r) /\ Present(r)' = Present(r)
  BY <1>1 DEF Versions, Present
<1>3. PICK e \in Nat : e = current_start_timestamp
  BY DEF ClockTypeOK
<1>4. PresentOK(r, e)
  BY <1>3 DEF PresentInv
<1>5. \A v \in Versions(r) : v[1] \in Tx /\ v[2] \in 1..Len(undo[v[1]])
  BY VersionTypes
<1>6. CASE StartTransaction(t)
  <2>1. /\ UNCHANGED commit_id /\ s = e + 1 /\ phase[t] = "idle"
        /\ \A u \in Tx : phase'[u] = IF u = t THEN "ready" ELSE phase[u]
    BY <1>3, <1>6 DEF StartTransaction, Goto, ClockTypeOK
  <2>2. Committed(s, r)' = Committed(e, r)
    <3>1. Committed(s, r)' = Committed(s, r)
      BY <1>1, <2>1, CommittedSame
    <3>2. Committed(e, r) = Committed(e + 1, r)
      BY <1>3, CommittedByNow
    <3> QED BY <2>1, <3>1, <3>2
  <2>3. \A v \in Versions(r) : v[1] # t
    <3>1. Len(undo[t]) = 0
      BY <2>1 DEF StampInv
    <3> QED BY <1>5, <3>1
  <2> QED BY <1>1, <1>2, <1>4, <1>5, <2>1, <2>2, <2>3 DEF PresentOK
<1>7. CASE CommitTransaction(t)
  <2>1. /\ s = e + 1 /\ phase[t] \in Running /\ commit_id[t] = 0
        /\ \A u \in Tx : phase'[u] = IF u = t THEN "stamping" ELSE phase[u]
        /\ \A u \in Tx : u # t => commit_id'[u] = commit_id[u]
    BY <1>3, <1>7 DEF CommitTransaction, Goto, ClockTypeOK, ClockInv, Running
  <2>2. Committed(s, r)' = IF writes[t][r] # Unwritten THEN writes[t][r] ELSE Committed(e, r)
    BY <1>3, <1>7, <2>1, CommittedMore
  <2>3. ASSUME \A v \in Versions(r) : commit_id'[v[1]] # 0
        PROVE  Present(r) = Committed(s, r)'
    <3>1. \A v \in Versions(r) : v[1] # t => commit_id[v[1]] # 0
      BY <1>5, <2>1, <2>3
    <3>2. CASE \E v \in Versions(r) : v[1] = t
      BY <1>4, <2>1, <2>2, <3>2 DEF PresentOK
    <3>3. CASE \A v \in Versions(r) : v[1] # t
      <4>1. writes[t][r] = Unwritten
        BY <2>1, <3>3, RunningHasVersion
      <4> QED BY <1>4, <2>2, <3>1, <3>3, <4>1 DEF PresentOK
    <3> QED BY <3>2, <3>3
  <2>4. ASSUME NEW v \in Versions(r), phase'[v[1]] \in Running
        PROVE  Present(r) = IF writes[v[1]][r] # Unwritten THEN writes[v[1]][r]
                            ELSE Committed(s, r)'
    <3>1. v[1] # t /\ phase[v[1]] \in Running
      BY <1>5, <2>1, <2>4 DEF Running
    <3>2. commit_id[v[1]] = 0
      BY <1>5, <3>1 DEF ClockInv
    <3>3. writes[t][r] = Unwritten
      BY <2>1, <3>1, <3>2, OthersWroteNothing
    <3> QED BY <1>4, <2>2, <3>1, <3>3 DEF PresentOK
  <2> QED BY <1>1, <1>2, <2>3, <2>4 DEF PresentOK
<1>8. CASE ~StartTransaction(t) /\ ~CommitTransaction(t)
  <2>1. UNCHANGED <<commit_id, current_start_timestamp>>
    BY <1>8 DEF ClockStepOf, RollbackTransaction, BeginRemove, CleanupDone, EndRemove
  <2>2. \A u \in Tx : phase'[u] \in Running => phase[u] \in Running
    BY <1>8 DEF ClockStepOf, RollbackTransaction, BeginRemove, CleanupDone, EndRemove,
                Goto, ClockTypeOK, Running
  <2>3. Committed(s, r)' = Committed(s, r)
    BY <1>1, <2>1, CommittedSame
  <2> QED BY <1>1, <1>2, <1>3, <1>4, <1>5, <2>1, <2>2, <2>3 DEF PresentOK
<1> QED BY <1>6, <1>7, <1>8

\* A push of row q by t, after which q has what t made of it.
LEMMA PresentPush ==
    ASSUME TypeOK, ClockInv, StampInv, LinkInv, OrderInv, PresentInv, [Next]_vars,
           clobbered \subseteq clobbered',
           NEW t \in Tx, NEW q \in Row, NEW saved, Pushes(t, q, saved), ~Conflicts(t, q),
           \A r \in Row \ {q} : Present(r)' = Present(r),
           \A u \in Tx, r \in Row : u # t \/ r # q => writes'[u][r] = writes[u][r],
           ASSUME NEW s \in Nat, s = current_start_timestamp, q \notin clobbered'
           PROVE  Present(q)' = IF writes'[t][q] # Unwritten THEN writes'[t][q]
                                ELSE Committed(s, q)
    PROVE  PresentInv'
<1> USE DEF TypeOK
<1>1. /\ ClockSame /\ commit_id[t] = 0
      /\ UNCHANGED <<commit_id, current_start_timestamp>>
      /\ \A u \in Tx : phase'[u] \in Running => phase[u] \in Running
  BY DEF Pushes, ClockInv, Running, ClockSame, transactions
<1>2. PICK h \in Version : h[1] = t /\ Versions(q)' = Versions(q) \cup {h}
                           /\ \A r \in Row \ {q} : Versions(r)' = Versions(r)
  BY PushedVersions
<1> SUFFICES ASSUME NEW r \in Row, r \notin clobbered', NEW s \in Nat,
                    s = current_start_timestamp'
             PROVE  PresentOK(r, s)'
  BY DEF PresentInv
<1>3. CASE r # q
  <2>1. Versions(r)' = Versions(r) /\ Present(r)' = Present(r) /\ r \notin clobbered
    BY <1>2, <1>3
  <2>2. \A v \in Versions(r) : phase[v[1]] \in Running => writes'[v[1]][r] = writes[v[1]][r]
    BY <1>3, VersionTypes
  <2> QED BY <1>1, <2>1, <2>2, PresentSame
<1>4. CASE r = q
  <2>1. ASSUME NEW v \in Versions(q)', phase'[v[1]] \in Running PROVE v[1] = t
    <3> SUFFICES ASSUME v \in Versions(q), v[1] # t PROVE FALSE
      BY <1>2
    <3>1. v[1] \in Tx
      BY VersionTypes
    <3>2. commit_id[v[1]] = 0
      BY <1>1, <2>1, <3>1 DEF ClockInv
    <3> QED BY <1>1, <3>2, NoConflict
  <2>2. h \in Versions(q)' /\ commit_id'[h[1]] = 0
    BY <1>1, <1>2
  <2>3. Present(q)' = IF writes'[t][q] # Unwritten THEN writes'[t][q] ELSE Committed(s, q)'
    <3>1. Committed(s, q)' = Committed(s, q)
      BY <1>1, ClockSameCommitted
    <3> QED BY <1>1, <1>4, <3>1
  <2> QED BY <1>4, <2>1, <2>2, <2>3 DEF PresentOK
<1> QED BY <1>3, <1>4

\* The second loop of Update.
LEMMA PresentFinish ==
    ASSUME TypeOK, ClockInv, LinkInv, OrderInv, RowInv, StatementInv, PresentInv, [Next]_vars,
           NEW t \in Tx, FinishStatement(t), ClockSame
    PROVE  PresentInv'
<1> USE DEF TypeOK
<1>1. /\ phase[t] = "writing" /\ todo[t] = {} /\ commit_id[t] = 0
      /\ UNCHANGED <<commit_id, current_start_timestamp, clobbered, deleted, count, chain>>
      /\ \A u \in Tx : phase'[u] \in Running => phase[u] \in Running
      /\ \A u \in Tx \ {t} : writes'[u] = writes[u]
  BY DEF FinishStatement, ClockInv, Running, ClockSame, transactions, HistoryTypeOK
<1> SUFFICES ASSUME NEW r \in Row, r \notin clobbered, NEW s \in Nat,
                    s = current_start_timestamp'
             PROVE  PresentOK(r, s)'
  BY <1>1 DEF PresentInv
<1>2. Versions(r)' = Versions(r)
  BY <1>1 DEF Versions
<1>3. CASE statement[t] = "update" /\ r \in ids[t]
  <2>1. data'[r] = t /\ writes'[t][r] = t
    BY <1>3 DEF FinishStatement, HistoryTypeOK
  <2>2. (\E i \in Nat : <<t, i>> \in Versions(r)) /\ ~deleted[r]
    BY <1>1, <1>3 DEF StatementInv, StatementOK
  <2>3. r <= count
    BY <1>3 DEF RowInv
  <2>4. Present(r)' = t
    BY <1>1, <2>1, <2>2, <2>3 DEF Present, TableTypeOK, Row
  <2>5. PICK w \in Versions(r) : w[1] = t
    BY <2>2
  <2>6. ASSUME NEW v \in Versions(r), phase'[v[1]] \in Running PROVE v[1] = t
    <3>1. commit_id[v[1]] = 0
      BY <1>1, <2>6, VersionTypes DEF ClockInv
    <3> QED BY <1>1, <2>5, <3>1, OneWriter
  <2>7. t # Unwritten
    BY DataAssumption DEF Data
  <2> QED BY <1>1, <1>2, <2>1, <2>4, <2>5, <2>6, <2>7 DEF PresentOK
<1>4. CASE ~(statement[t] = "update" /\ r \in ids[t])
  <2>1. data'[r] = data[r] /\ writes'[t][r] = writes[t][r]
    BY <1>4 DEF FinishStatement, HistoryTypeOK
  <2>2. Present(r)' = Present(r)
    BY <1>1, <2>1 DEF Present
  <2>3. \A v \in Versions(r) : writes'[v[1]][r] = writes[v[1]][r]
    BY <1>1, <2>1, VersionTypes
  <2> QED BY <1>2, <2>2, <2>3, PresentSame
<1> QED BY <1>3, <1>4

\* UndoBuffer::Rollback of an entry: it is the newest of its row, and what it
\* saved is what was there before, of the same transaction or committed.
LEMMA PresentUndo ==
    ASSUME TypeOK, ClockInv, LinkInv, OrderInv, RowInv, ContentInv, PresentInv, [Next]_vars,
           NEW t \in Tx, NEW e \in UndoEntries, NEW k, UndoEntry(t), Undoes(t, e, k)
    PROVE  PresentInv'
<1> USE DEF TypeOK
<1>1. /\ ClockSame /\ phase[t] = "undoing" /\ commit_id[t] = 0
      /\ UNCHANGED <<commit_id, current_start_timestamp, clobbered, count, writes>>
      /\ \A u \in Tx : phase'[u] \in Running => phase[u] \in Running
  BY DEF Undoes, UndoEntry, ClockInv, Running, ClockSame, transactions, history
<1>2. PICK n \in Nat : n = Len(undo[t])
  BY EntryTypes
<1>3. PICK q \in Row : q = e.row
  BY DEF UndoEntries
<1>4. PICK h \in Version : h = <<t, n>>
  BY <1>2 DEF Version
<1>5. /\ h \in Versions(q) /\ Versions(q)' = Versions(q) \ {h}
      /\ \A r \in Row \ {q} : Versions(r)' = Versions(r)
  BY <1>2, <1>3, <1>4, UndoneVersions
\* All other versions of the row are behind it.
<1>6. ASSUME NEW w \in Versions(q), w # h PROVE Newer(h, w) /\ ~Newer(w, h)
  <2>1. w[1] \in Tx /\ w[2] \in 1..Len(undo[w[1]])
    BY VersionTypes
  <2>2. ~Newer(w, h)
    BY <1>1, <1>2, <1>4, <2>1 DEF Newer
  <2> QED BY <1>5, <1>6, <2>2, Ordered
<1>7. Head(chain[q]) = h
  <2>1. chain[q] \in Seq(Version) /\ Len(chain[q]) \in Nat
    BY VersionsAre, LenProperties
  <2>2. PICK j \in 1..Len(chain[q]) : chain[q][j] = h
    BY <1>5, VersionsAre
  <2>3. chain[q] # << >> /\ 1 \in 1..Len(chain[q]) /\ Head(chain[q]) = chain[q][1]
    BY <2>1, <2>2, EmptySeq
  <2>4. chain[q][1] \in Versions(q)
    BY <2>3, VersionsAre
  <2>5. CASE j # 1
    <3>1. InFront(q, chain[q][1], h)
      BY <2>1, <2>2, <2>3, <2>5 DEF InFront
    <3>2. Newer(chain[q][1], h)
      BY <2>4, <3>1, VersionTypes DEF OrderInv
    <3>3. chain[q][1] \in Version /\ h \in Version
      BY <1>5, <2>4, VersionsAre
    <3>4. chain[q][1] # h
      BY <3>2, <3>3, NewerIsStrict
    <3> QED BY <1>6, <2>4, <3>2, <3>4
  <2> QED BY <2>2, <2>3, <2>5
<1>8. Restore(e)
  BY <1>2, <1>3, <1>4, <1>7 DEF UndoEntry, Undoes
<1>9. q <= count
  <2> SUFFICES ASSUME q > count PROVE FALSE
    BY DEF Row, TableTypeOK
  <2>1. chain[q] = << >>
    BY DEF RowInv
  <2> QED BY <1>5, <2>1 DEF Versions, ToSet
<1>10. Saved(h) = e.saved
  BY <1>2, <1>4 DEF Saved, Undoes
<1>11. Present(q)' = Content(h)
  <2>1. ~(q > count')
    BY <1>1, <1>9 DEF Row, TableTypeOK
  <2>2. CASE e.saved = NoData
    <3>1. deleted'[q]
      BY <1>3, <1>8, <2>2 DEF Restore, TableTypeOK
    <3> QED BY <1>10, <2>2, <3>1 DEF Present, Content
  <2>3. CASE e.saved # NoData
    <3>1. ~deleted'[q] /\ data'[q] = e.saved
      BY <1>3, <1>8, <2>3 DEF Restore, TableTypeOK
    <3> QED BY <1>10, <2>1, <2>3, <3>1 DEF Present, Content
  <2> QED BY <2>2, <2>3
<1>12. \A r \in Row \ {q} : Present(r)' = Present(r)
  BY <1>1, <1>3, <1>8 DEF Restore, Present, TableTypeOK
<1> SUFFICES ASSUME NEW r \in Row, r \notin clobbered, NEW s \in Nat,
                    s = current_start_timestamp'
             PROVE  PresentOK(r, s)'
  BY <1>1 DEF PresentInv
<1>13. CASE r # q
  <2>1. Versions(r)' = Versions(r) /\ Present(r)' = Present(r)
    BY <1>5, <1>12, <1>13
  <2> QED BY <1>1, <2>1, PresentSame
<1>14. CASE r = q
  <2>1. ASSUME \A v \in Versions(q)' : commit_id'[v[1]] # 0
        PROVE  Present(q)' = Committed(s, q)'
    <3>1. Oldest(q, h)
      BY <1>1, <1>4, <1>5, <2>1 DEF Oldest
    <3>2. Needed(q, h, s)
      BY <1>1, <1>4, <1>5, <3>1 DEF Needed, CommitsAt
    <3>3. Content(h) = Committed(s, q)
      BY <1>14, <3>2 DEF ContentInv
    <3>4. Committed(s, q)' = Committed(s, q)
      BY <1>1, ClockSameCommitted
    <3> QED BY <1>11, <3>3, <3>4
  <2>2. ASSUME NEW v \in Versions(q)' PROVE phase'[v[1]] \notin Running
    <3> SUFFICES ASSUME phase'[v[1]] \in Running PROVE FALSE
      OBVIOUS
    <3>1. v \in Versions(q) /\ v[1] \in Tx /\ v # h
      BY <1>5, VersionTypes
    <3>2. commit_id[v[1]] = 0 /\ v[1] # t
      BY <1>1, <3>1 DEF ClockInv, Running, ClockSame
    <3>3. v[1] = h[1]
      BY <1>1, <1>4, <1>5, <3>1, <3>2, OneWriter
    <3> QED BY <1>4, <3>2, <3>3
  <2> QED BY <1>14, <2>1, <2>2 DEF PresentOK
<1> QED BY <1>13, <1>14

LEMMA PresentStep ==
    ASSUME TypeOK, ClockInv, StampInv, LinkInv, OrderInv, KeptInv, RowInv, StatementInv,
           ContentInv, PresentInv, [Next]_vars
    PROVE  PresentInv'
<1> USE DEF TypeOK
<1>1. ASSUME ClockSame, UNCHANGED <<data, deleted, count, writes, clobbered>>,
             \A r \in Row : \/ Versions(r)' = Versions(r)
                            \/ \E u \in Tx, i \in Nat : /\ commit_id[u] # 0
                                                        /\ Versions(r)' = Versions(r) \ {<<u, i>>}
      PROVE  PresentInv'
  <2> SUFFICES ASSUME NEW r \in Row, r \notin clobbered, NEW s \in Nat,
                      s = current_start_timestamp'
               PROVE  PresentOK(r, s)'
    BY <1>1 DEF PresentInv
  <2>1. Present(r)' = Present(r)
    BY <1>1 DEF Present
  <2> QED BY <1>1, <2>1, PresentSame
<1>2. ASSUME NEW t \in Tx, ClockStepOf(t) PROVE PresentInv'
  BY <1>2, PresentClock
<1>3. ASSUME NEW t \in Tx, NEW q \in Row, PushRow(t, q), Pushes(t, q, data[q])
      PROVE  PresentInv'
  <2>1. ~Conflicts(t, q) /\ clobbered \subseteq clobbered' /\ UNCHANGED <<data, count>>
    BY <1>3 DEF PushRow
  <2>2. ASSUME statement[t] = "delete", deleted' = [deleted EXCEPT ![q] = TRUE],
               writes' = [writes EXCEPT ![t][q] = Dead]
        PROVE  PresentInv'
    <3>1. deleted'[q] /\ writes'[t][q] = Dead
      BY <2>2 DEF TableTypeOK, HistoryTypeOK
    <3>2. Present(q)' = Dead
      BY <3>1 DEF Present
    <3>3. \A r \in Row \ {q} : Present(r)' = Present(r)
      BY <2>1, <2>2 DEF Present, TableTypeOK
    <3>4. \A u \in Tx, r \in Row : u # t \/ r # q => writes'[u][r] = writes[u][r]
      BY <2>2 DEF HistoryTypeOK
    <3> QED BY <1>3, <2>1, <3>1, <3>2, <3>3, <3>4, DataAssumption, PresentPush
  <2>3. ASSUME UNCHANGED <<deleted, writes>> PROVE PresentInv'
    <3>1. \A r \in Row : Present(r)' = Present(r)
      BY <2>1, <2>3 DEF Present
    <3>2. ASSUME NEW s \in Nat, s = current_start_timestamp, q \notin clobbered'
          PROVE  Present(q)' = IF writes'[t][q] # Unwritten THEN writes'[t][q]
                               ELSE Committed(s, q)
      BY <1>3, <2>3, <3>1, <3>2, PushFindsRow
    <3> QED BY <1>3, <2>1, <2>3, <3>1, <3>2, PresentPush
  <2> QED BY <1>3, <2>2, <2>3 DEF PushRow
<1>4. ASSUME NEW t \in Tx, Insert(t), count + 1 \in Row, Pushes(t, count + 1, NoData)
      PROVE  PresentInv'
  <2>1. PICK q \in Row : q = count + 1
    BY <1>4
  <2>2. /\ Pushes(t, q, NoData) /\ count' = q /\ UNCHANGED <<deleted, clobbered>>
        /\ data'[q] = t /\ \A r \in Row \ {q} : data'[r] = data[r]
    BY <1>4, <2>1 DEF Insert, TableTypeOK
  <2>3. /\ writes'[t][q] = t
        /\ \A u \in Tx, r \in Row : u # t \/ r # q => writes'[u][r] = writes[u][r]
    BY <1>4, <2>1 DEF Insert, HistoryTypeOK
  <2>4. chain[q] = << >> /\ ~deleted[q]
    BY <2>1 DEF RowInv, TableTypeOK
  <2>5. ~Conflicts(t, q)
    BY <2>4 DEF Conflicts
  <2>6. Present(q)' = t
    BY <2>2, <2>4 DEF Present, Row
  <2>7. ASSUME NEW r \in Row \ {q} PROVE Present(r)' = Present(r)
    <3>1. r > count' <=> r > count
      BY <2>1, <2>2 DEF Row, TableTypeOK
    <3> QED BY <2>2, <3>1 DEF Present
  <2>8. t # Unwritten
    BY DataAssumption DEF Data
  <2> QED BY <2>2, <2>3, <2>5, <2>6, <2>7, <2>8, PresentPush
<1>5. ASSUME NEW t \in Tx, NEW e \in UndoEntries, NEW k, UndoEntry(t), Undoes(t, e, k)
      PROVE  PresentInv'
  BY <1>5, PresentUndo
<1>6. ASSUME NEW u \in Tx, NEW i \in Nat, NEW k \in Nat, Cleans(u, i, k) PROVE PresentInv'
  <2>1. /\ ClockSame /\ commit_id[u] # 0
        /\ UNCHANGED <<data, deleted, count, writes, clobbered>>
    BY <1>6 DEF Cleans
  <2>2. \A r \in Row : Versions(r)' = Versions(r) \/ Versions(r)' = Versions(r) \ {<<u, i>>}
    BY <1>6, CleanedVersions
  <2> QED BY <1>1, <2>1, <2>2
<1>7. CASE Quiet
  BY <1>1, <1>7, VersionsSame DEF Quiet
<1>8. ASSUME NEW t \in Tx, StampEntry(t), ClockSame PROVE PresentInv'
  BY <1>1, <1>8, VersionsSame DEF StampEntry, table, history
<1>9. ASSUME NEW t \in Tx, FinishStatement(t), ClockSame PROVE PresentInv'
  BY <1>9, PresentFinish
<1> QED BY <1>2, <1>3, <1>4, <1>5, <1>6, <1>7, <1>8, <1>9, StepKinds

-----------------------------------------------------------------------------
(* The invariant. *)

LEMMA InitInv == Init => IInv
<1> SUFFICES ASSUME Init PROVE IInv
  OBVIOUS
<1> USE DEF Init
<1>1. ClockTypeOK /\ ClockInv
  BY ClockInit
<1>2. StatementTypeOK
  BY StatementsAssumption, RowsAssumption DEF StatementTypeOK
<1>3. TableTypeOK
  BY RowsAssumption DEF TableTypeOK, Data
<1>4. HistoryTypeOK
  BY DEF HistoryTypeOK
<1>5. \A r \in Row : Versions(r) = {} /\ Len(chain[r]) = 0
  BY DEF Versions, ToSet
<1>6. StampInv /\ KeptInv
  BY DEF StampInv, KeptInv
<1>7. LinkInv /\ OrderInv
  BY <1>5 DEF LinkInv, OrderInv, InFront
<1>8. RowInv
  BY RowsAssumption DEF RowInv, Row
<1>9. StatementInv
  BY DEF StatementInv, StatementOK
<1>10. ContentInv
  BY <1>5 DEF ContentInv, Needed
<1>11. PresentInv
  <2> SUFFICES ASSUME NEW r \in Row, NEW s \in Nat PROVE Present(r) = Committed(s, r)
    BY <1>5 DEF PresentInv, PresentOK
  <2>1. Writers(s, r) = {}
    BY DEF Writers
  <2>2. r > count <=> ~(r <= InitialRows)
    BY RowsAssumption DEF Row
  <2>3. Present(r) = IF r > count THEN Dead ELSE Loaded
    BY DEF Present
  <2>4. Committed(s, r) = IF r <= InitialRows THEN Loaded ELSE Dead
    BY <2>1, CommittedIs DEF AtStart
  <2> QED BY <2>2, <2>3, <2>4
<1> QED BY <1>1, <1>2, <1>3, <1>4, <1>6, <1>7, <1>8, <1>9, <1>10, <1>11 DEF IInv, TypeOK

LEMMA StepInv == IInv /\ [Next]_vars => IInv'
<1> SUFFICES ASSUME IInv, [Next]_vars PROVE IInv'
  OBVIOUS
<1>1. ClockTypeOK /\ StatementTypeOK /\ TableTypeOK /\ HistoryTypeOK
  BY DEF IInv, TypeOK
<1>2. TypeOK'
  BY <1>1, ClockStep, StatementTypeStep, TableTypeStep, HistoryTypeStep DEF IInv, TypeOK
<1>3. ClockInv' /\ StampInv' /\ LinkInv' /\ OrderInv' /\ KeptInv'
  BY <1>1, ClockStep, StampStep, LinkStep, OrderStep, KeptStep DEF IInv
<1>4. RowInv' /\ StatementInv'
  BY <1>1, RowStep, StatementStep DEF IInv
<1>5. ContentInv' /\ PresentInv'
  BY ContentStep, PresentStep DEF IInv
<1> QED BY <1>2, <1>3, <1>4, <1>5 DEF IInv

LEMMA Invariant == Spec => []IInv
BY InitInv, StepInv, PTL DEF Spec

-----------------------------------------------------------------------------
(* What every reader relies on. *)

\* Transactions, statements, the chunk, undo buffers and the history have their
\* types in every reachable state.
THEOREM TypeCorrect == Spec => []TypeOK
BY Invariant, PTL DEF IInv

LEMMA OrderedChains == IInv => ChainOrdered
<1> SUFFICES ASSUME IInv, NEW r \in Row, NEW i \in 1..Len(chain[r])
             PROVE  LET v == chain[r][i] IN
                    /\ v[2] <= Len(undo[v[1]])
                    /\ undo[v[1]][v[2]].row = r
                    /\ \A j \in i + 1..Len(chain[r]) :
                        LET w == chain[r][j] IN
                        \/ w[1] = v[1] /\ w[2] < v[2]
                        \/ ~Uncommitted(w) /\ (Uncommitted(v) \/ commit_id[w[1]] < commit_id[v[1]])
  BY DEF ChainOrdered
<1> USE DEF IInv, TypeOK
<1>1. Len(chain[r]) \in Nat
  BY VersionsAre, LenProperties
<1>2. PICK v \in Versions(r) : v = chain[r][i]
  BY VersionsAre
<1>3. /\ v \in Version /\ v[1] \in Tx /\ v[2] \in 1..Len(undo[v[1]]) /\ undo[v[1]][v[2]].row = r
      /\ Len(undo[v[1]]) \in Nat
  BY VersionTypes, EntryTypes
<1>4. ASSUME NEW j \in i + 1..Len(chain[r])
      PROVE  LET w == chain[r][j] IN
             \/ w[1] = v[1] /\ w[2] < v[2]
             \/ ~Uncommitted(w) /\ (Uncommitted(v) \/ commit_id[w[1]] < commit_id[v[1]])
  <2>1. j \in 1..Len(chain[r]) /\ i < j
    BY <1>1
  <2>2. PICK w \in Versions(r) : w = chain[r][j]
    BY <2>1, VersionsAre
  <2>3. w \in Version /\ w[1] \in Tx /\ w[2] \in Nat
    BY VersionTypes
  <2>4. Newer(v, w)
    BY <1>2, <1>3, <2>1, <2>2, <2>3 DEF OrderInv, InFront
  <2>5. /\ stamped[v[1]] \in Nat /\ stamped[w[1]] \in Nat
        /\ commit_id[v[1]] = 0 => stamped[v[1]] = 0
    BY <1>3, <2>3 DEF TableTypeOK, StampInv
  <2>6. \/ w[1] = v[1] /\ w[2] < v[2]
        \/ ~Uncommitted(w) /\ (Uncommitted(v) \/ commit_id[w[1]] < commit_id[v[1]])
    BY <1>3, <2>3, <2>4, <2>5 DEF Newer, Uncommitted
  <2> QED BY <2>2, <2>6
<1>5. v[2] <= Len(undo[v[1]]) /\ undo[v[1]][v[2]].row = r
  BY <1>3
<1> QED BY <1>2, <1>4, <1>5

\* The chain that Scan walks along has the versions of at most one unfinished
\* transaction in front, then stamped ones with decreasing commit ids, and each
\* is an entry that its undo buffer still has for this row.
THEOREM ChainsAreOrdered == Spec => []ChainOrdered
BY Invariant, OrderedChains, PTL

\* Committed versions are stamped, unless their transaction is stamping them.
LEMMA StampedIsCommitted ==
    ASSUME IInv, NEW r \in Row, NEW v \in Versions(r)
    PROVE  /\ ~Uncommitted(v) => commit_id[v[1]] # 0
           /\ commit_id[v[1]] # 0 /\ phase[v[1]] # "stamping" => ~Uncommitted(v)
<1> USE DEF IInv, TypeOK
<1>1. v[1] \in Tx /\ v[2] \in 1..Len(undo[v[1]]) /\ Len(undo[v[1]]) \in Nat
  BY VersionTypes, EntryTypes
<1>2. /\ stamped[v[1]] \in Nat
      /\ commit_id[v[1]] = 0 => stamped[v[1]] = 0
      /\ phase[v[1]] \in {"cleaning", "done"} /\ commit_id[v[1]] # 0 =>
             stamped[v[1]] = Len(undo[v[1]])
  BY <1>1 DEF TableTypeOK, StampInv
<1>3. commit_id[v[1]] # 0 => phase[v[1]] \in {"stamping", "cleaning", "done"}
  BY <1>1 DEF ClockInv, ClockTypeOK, Running, Ending
<1> QED BY <1>1, <1>2, <1>3 DEF Uncommitted

LEMMA Exact == IInv => NewestIsCommitted
<1> SUFFICES ASSUME IInv, transaction_lock = NoTx, NEW r \in Row \ clobbered
             PROVE  Newest(r) = Committed(current_start_timestamp, r)
  BY DEF NewestIsCommitted
<1> USE DEF IInv, TypeOK
<1>1. PICK s \in Nat : s = current_start_timestamp
  BY DEF ClockTypeOK
<1>2. \A u \in Tx : phase[u] # "stamping"
  BY TxAssumption DEF ClockInv, Ending
<1>3. \A u \in Tx : commit_id[u] \in Nat /\ (commit_id[u] = 0 \/ commit_id[u] < s)
  BY <1>1 DEF ClockInv, ClockTypeOK
<1>4. {v \in Versions(r) : ~Uncommitted(v)} = Before(r, s)
  <2>1. ASSUME NEW v \in Versions(r) PROVE ~Uncommitted(v) <=> commit_id[v[1]] \in 1..s - 1
    BY <1>2, <1>3, VersionTypes, StampedIsCommitted
  <2> QED BY <2>1 DEF Before
<1>5. ReadAlong(r, chain[r], Before(r, s)) = Committed(s, r)
  BY <1>1, <1>3, SnapshotRead
<1> QED BY <1>1, <1>4, <1>5 DEF Newest

\* Whenever a transaction could start, it would read of every row exactly what
\* has been committed last: commits are complete, UndoBuffer::Rollback leaves no
\* trace and UndoBuffer::Cleanup loses nothing; but for rows whose committed
\* delete was written over.
THEOREM CommitsAreExact == Spec => []NewestIsCommitted
BY Invariant, Exact, PTL

\* A running transaction sees of the others what was committed when it started.
LEMMA SeesBefore ==
    ASSUME IInv, NEW t \in Tx, phase[t] \in Running, NEW s \in Nat, s = start_time[t],
           NEW r \in Row
    PROVE  /\ \A v \in Versions(r) : v[1] # t => (Sees(t, v) <=> v \in Before(r, s))
           /\ \A v \in Before(r, s) : v[1] # t
           /\ r \notin clobbered => ReadAlong(r, chain[r], Before(r, s)) = Committed(s, r)
<1> USE DEF IInv, TypeOK
<1>1. commit_id[t] = 0 /\ s < current_start_timestamp
  BY DEF ClockInv, Running
<1>2. ASSUME NEW v \in Versions(r), v[1] # t PROVE Sees(t, v) <=> v \in Before(r, s)
  <2>1. v[1] \in Tx /\ commit_id[v[1]] \in Nat
    BY VersionTypes DEF ClockTypeOK
  <2>2. phase[v[1]] = "stamping" => s <= commit_id[v[1]]
    BY <2>1 DEF ClockInv, Active
  <2>3. Sees(t, v) <=> ~Uncommitted(v) /\ commit_id[v[1]] < s
    BY <1>2 DEF Sees
  <2>4. Sees(t, v) <=> commit_id[v[1]] \in 1..s - 1
    BY <2>1, <2>2, <2>3, StampedIsCommitted
  <2> QED BY <2>4 DEF Before
<1>3. \A v \in Before(r, s) : v[1] # t
  BY <1>1 DEF Before
<1>4. \A u \in Tx : commit_id[u] # 0 /\ s <= commit_id[u] => Overlaps(u)
  BY DEF Overlaps, Active
<1>5. s <= current_start_timestamp
  BY <1>1 DEF ClockTypeOK
<1>6. r \notin clobbered => ReadAlong(r, chain[r], Before(r, s)) = Committed(s, r)
  BY <1>4, <1>5, SnapshotRead
<1> QED BY <1>2, <1>3, <1>6

LEMMA ReadIsSnapshot ==
    ASSUME IInv, NEW t \in Tx, phase[t] \in Running,
           NEW r \in Row, r \notin clobbered, r \notin HalfUpdated(t)
    PROVE  Read(t, r) = IF writes[t][r] # Unwritten THEN writes[t][r]
                        ELSE Committed(start_time[t], r)
<1> USE DEF IInv, TypeOK
<1>1. CASE writes[t][r] # Unwritten
  BY <1>1, OwnRead
<1>2. CASE writes[t][r] = Unwritten
  <2>1. commit_id[t] = 0
    BY DEF ClockInv
  <2>2. PICK s \in Nat : s = start_time[t]
    BY DEF ClockTypeOK
  <2>3. \A v \in Versions(r) : v[1] # t
    <3> SUFFICES ASSUME NEW v \in Versions(r), v[1] = t PROVE FALSE
      OBVIOUS
    <3>1. chain[r] # << >> /\ chain[r][1][1] = t
      BY <2>1, OwnFront
    <3>2. Head(chain[r]) = chain[r][1]
      BY <3>1, VersionsAre
    <3> QED BY <1>2, <3>1, <3>2 DEF HalfUpdated
  <2>4. {v \in Versions(r) : Sees(t, v)} = Before(r, s)
    BY <2>2, <2>3, SeesBefore DEF Before
  <2> QED BY <1>2, <2>2, <2>4, SeesBefore DEF Read
<1> QED BY <1>1, <1>2

LEMMA Snapshots == IInv => ReadsSnapshot
BY ReadIsSnapshot DEF ReadsSnapshot, Active

\* A running transaction reads its own writes and, of every other row, what was
\* committed when it started, while others stamp, undo and clean up entry by
\* entry; but for rows whose committed delete was written over and those that a
\* failed UPDATE left half done.
THEOREM ReadsTheSnapshot == Spec => []ReadsSnapshot
BY Invariant, Snapshots, PTL
===============================================================================
