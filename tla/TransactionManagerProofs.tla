----------------------- MODULE TransactionManagerProofs -----------------------
(***************************************************************************)
(* Proofs about TransactionManager, for every set of transactions, every   *)
(* TransactionIdStart and every MaximumQueryId.                            *)
(***************************************************************************)
EXTENDS TransactionManager, SequenceTheorems, TLAPS

-----------------------------------------------------------------------------
(* Type correctness, one lemma per group of variables. *)

LEMMA TypeInit == Init => TypeOK
  BY NoTxAssumption, TransactionIdStartAssumption, MaximumQueryIdAssumption
     DEF Init, TypeOK, ManagerTypeOK, ObjectTypeOK, SessionTypeOK, RemoverTypeOK,
         Phases, UndoStates, Stages

LEMMA MovedLists ==
  ASSUME NEW t \in Tx, MoveRemoved(t), ManagerTypeOK
  PROVE  recently_committed' \in Seq(Tx) /\ old_transactions' \in Seq(Tx)
  <1>1. CASE commit_id[t] # 0
    <2>1. /\ recently_committed' = Append(recently_committed, t)
          /\ old_transactions' = old_transactions
      BY <1>1 DEF MoveRemoved
    <2> QED BY <2>1 DEF ManagerTypeOK
  <1>2. CASE commit_id[t] = 0
    <2>1. /\ recently_committed' = recently_committed
          /\ old_transactions' = Append(old_transactions, t)
      BY <1>2 DEF MoveRemoved
    <2> QED BY <2>1 DEF ManagerTypeOK
  <1> QED BY <1>1, <1>2

LEMMA ManagerTypeStep == TypeOK /\ [Next]_vars => ManagerTypeOK'
  <1> SUFFICES ASSUME TypeOK, [Next]_vars PROVE ManagerTypeOK'
    OBVIOUS
  <1> USE MaximumQueryIdAssumption, TransactionIdStartAssumption
      DEF TypeOK, ManagerTypeOK, ObjectTypeOK, SessionTypeOK, RemoverTypeOK,
          Goto, counters, lists, objects, session, remover
  <1>1. ASSUME NEW t \in Tx, StartTransaction(t) PROVE ManagerTypeOK'
    BY <1>1 DEF StartTransaction
  <1>2. ASSUME NEW t \in Tx, GetQueryNumber(t) PROVE ManagerTypeOK'
    BY <1>2 DEF GetQueryNumber
  <1>3. ASSUME NEW t \in Tx, CommitTransaction(t) PROVE ManagerTypeOK'
    BY <1>3 DEF CommitTransaction, Acquire
  <1>4. ASSUME NEW t \in Tx, MoveRemoved(t) PROVE ManagerTypeOK'
    BY <1>4, MovedLists DEF MoveRemoved
  <1>5. ASSUME NEW t \in Tx, FreeOld(t) PROVE ManagerTypeOK'
    <2>1. PICK n \in 0..Len(old_transactions) :
             old_transactions' =
                 SubSeq(old_transactions, n + 1, Len(old_transactions))
      BY <1>5 DEF FreeOld
    <2>2. old_transactions' \in Seq(Tx)
      BY <2>1
    <2> QED BY <1>5, <2>2 DEF FreeOld
  <1>6. ASSUME CleanupHead PROVE ManagerTypeOK'
    <2>1. Head(recently_committed) \in Tx /\ Tail(recently_committed) \in Seq(Tx)
      BY <1>6, HeadTailProperties DEF CleanupHead, CanClean
    <2> QED BY <1>6, <2>1 DEF CleanupHead
  <1>7. ASSUME NEW t \in Tx, SetActiveQuery(t) \/ BeginStatement(t) \/
           BeginScan(t) \/ EndScan(t) \/ PushTuple(t) \/ EndQuery(t) \/
           RollbackTransaction(t) \/ VisitActive(t)
       PROVE ManagerTypeOK'
    BY <1>7 DEF SetActiveQuery, BeginStatement, BeginScan, EndScan, PushTuple,
           EndQuery, RollbackTransaction, VisitActive
  <1>8. ASSUME UNCHANGED vars PROVE ManagerTypeOK'
    BY <1>8 DEF vars
  <1> QED
    BY <1>1, <1>2, <1>3, <1>4, <1>5, <1>6, <1>7, <1>8 DEF Next, Client, Remove

LEMMA ObjectTypeStep == TypeOK /\ [Next]_vars => ObjectTypeOK'
  <1> SUFFICES ASSUME TypeOK, [Next]_vars PROVE ObjectTypeOK'
    OBVIOUS
  <1> USE MaximumQueryIdAssumption, TransactionIdStartAssumption
      DEF TypeOK, ManagerTypeOK, ObjectTypeOK, SessionTypeOK, RemoverTypeOK,
          Goto, counters, lists, objects, session, remover
  <1>1. ASSUME NEW t \in Tx, StartTransaction(t) PROVE ObjectTypeOK'
    BY <1>1 DEF StartTransaction, UndoStates
  <1>2. ASSUME NEW t \in Tx, PushTuple(t) PROVE ObjectTypeOK'
    BY <1>2 DEF PushTuple, UndoStates
  <1>3. ASSUME NEW t \in Tx, CommitTransaction(t) PROVE ObjectTypeOK'
    BY <1>3 DEF CommitTransaction, Acquire, UndoStates
  <1>4. ASSUME NEW t \in Tx, RollbackTransaction(t) PROVE ObjectTypeOK'
    BY <1>4 DEF RollbackTransaction, Acquire, UndoStates
  <1>5. ASSUME NEW t \in Tx, MoveRemoved(t) PROVE ObjectTypeOK'
    <2>1. \/ UNCHANGED highest_active_query
          \/ highest_active_query' =
                 [highest_active_query EXCEPT ![t] = current_query_number]
      BY <1>5 DEF MoveRemoved
    <2>2. highest_active_query' \in [Tx -> 0..MaximumQueryId]
      <3>1. CASE UNCHANGED highest_active_query
        BY <3>1
      <3>2. CASE highest_active_query' =
                   [highest_active_query EXCEPT ![t] = current_query_number]
        BY <3>2
      <3> QED BY <2>1, <3>1, <3>2
    <2>3. UNCHANGED <<start_time, transaction_id, commit_id, undo>>
      BY <1>5 DEF MoveRemoved
    <2> QED BY <2>2, <2>3
  <1>6. ASSUME NEW t \in Tx, FreeOld(t) PROVE ObjectTypeOK'
    BY <1>6 DEF FreeOld, UndoStates
  <1>7. ASSUME CleanupHead PROVE ObjectTypeOK'
    <2>1. Head(recently_committed) \in Tx
      BY <1>7, HeadTailProperties DEF CleanupHead, CanClean
    <2>2. /\ undo' = [undo EXCEPT ![Head(recently_committed)] = "unlinked"]
          /\ highest_active_query' =
                 [highest_active_query EXCEPT
                     ![Head(recently_committed)] = current_query_number]
          /\ UNCHANGED <<start_time, transaction_id, commit_id>>
      BY <1>7 DEF CleanupHead
    <2> QED BY <2>1, <2>2 DEF UndoStates
  <1>8. ASSUME NEW t \in Tx, GetQueryNumber(t) \/ SetActiveQuery(t) \/
           BeginStatement(t) \/ BeginScan(t) \/ EndScan(t) \/ EndQuery(t) \/
           VisitActive(t)
       PROVE ObjectTypeOK'
    BY <1>8 DEF GetQueryNumber, SetActiveQuery, BeginStatement, BeginScan,
           EndScan, EndQuery, VisitActive
  <1>9. ASSUME UNCHANGED vars PROVE ObjectTypeOK'
    BY <1>9 DEF vars
  <1> QED
    BY <1>1, <1>2, <1>3, <1>4, <1>5, <1>6, <1>7, <1>8, <1>9 DEF Next, Client,
           Remove

LEMMA SessionTypeStep == TypeOK /\ [Next]_vars => SessionTypeOK'
  <1> SUFFICES ASSUME TypeOK, [Next]_vars PROVE SessionTypeOK'
    OBVIOUS
  <1> USE MaximumQueryIdAssumption, TransactionIdStartAssumption
      DEF TypeOK, ManagerTypeOK, ObjectTypeOK, SessionTypeOK, RemoverTypeOK,
          Goto, counters, lists, objects, session, remover
  <1>1. ASSUME NEW t \in Tx, StartTransaction(t) PROVE SessionTypeOK'
    BY <1>1 DEF StartTransaction, Phases
  <1>2. ASSUME NEW t \in Tx, GetQueryNumber(t) PROVE SessionTypeOK'
    BY <1>2 DEF GetQueryNumber, Phases
  <1>3. ASSUME NEW t \in Tx, SetActiveQuery(t) PROVE SessionTypeOK'
    <2>1. query_number[t] \in 0..MaximumQueryId
      BY <1>3 DEF SetActiveQuery
    <2>2. late' \subseteq Tx
      BY <1>3 DEF SetActiveQuery
    <2> QED BY <1>3, <2>1, <2>2 DEF SetActiveQuery, Phases
  <1>4. ASSUME NEW t \in Tx, BeginStatement(t) PROVE SessionTypeOK'
    BY <1>4 DEF BeginStatement, Phases
  <1>5. ASSUME NEW t \in Tx, BeginScan(t) PROVE SessionTypeOK'
    BY <1>5 DEF BeginScan, Phases
  <1>6. ASSUME NEW t \in Tx, EndScan(t) PROVE SessionTypeOK'
    BY <1>6 DEF EndScan, Phases
  <1>7. ASSUME NEW t \in Tx, PushTuple(t) PROVE SessionTypeOK'
    BY <1>7 DEF PushTuple, Phases
  <1>8. ASSUME NEW t \in Tx, EndQuery(t) PROVE SessionTypeOK'
    BY <1>8 DEF EndQuery, Phases
  <1>9. ASSUME NEW t \in Tx, CommitTransaction(t) PROVE SessionTypeOK'
    BY <1>9 DEF CommitTransaction, Acquire, Phases
  <1>10. ASSUME NEW t \in Tx, RollbackTransaction(t) PROVE SessionTypeOK'
    BY <1>10 DEF RollbackTransaction, Acquire, Phases
  <1>11. ASSUME NEW t \in Tx, FreeOld(t) PROVE SessionTypeOK'
    BY <1>11 DEF FreeOld, Phases
  <1>12. ASSUME CleanupHead PROVE SessionTypeOK'
    BY <1>12 DEF CleanupHead, CanClean, UndoStates
  <1>13. ASSUME NEW t \in Tx, VisitActive(t) \/ MoveRemoved(t)
       PROVE SessionTypeOK'
    BY <1>13 DEF VisitActive, MoveRemoved
  <1>14. ASSUME UNCHANGED vars PROVE SessionTypeOK'
    BY <1>14 DEF vars
  <1> QED
    BY <1>1, <1>2, <1>3, <1>4, <1>5, <1>6, <1>7, <1>8, <1>9, <1>10, <1>11,
           <1>12, <1>13, <1>14 DEF Next, Client, Remove

LEMMA RemoverTypeStep == TypeOK /\ [Next]_vars => RemoverTypeOK'
  <1> SUFFICES ASSUME TypeOK, [Next]_vars PROVE RemoverTypeOK'
    OBVIOUS
  <1> USE MaximumQueryIdAssumption, TransactionIdStartAssumption
      DEF TypeOK, ManagerTypeOK, ObjectTypeOK, SessionTypeOK, RemoverTypeOK,
          Goto, counters, lists, objects, session, remover
  <1>1. ASSUME NEW t \in Tx, CommitTransaction(t) PROVE RemoverTypeOK'
    BY <1>1 DEF CommitTransaction, Acquire, Stages
  <1>2. ASSUME NEW t \in Tx, RollbackTransaction(t) PROVE RemoverTypeOK'
    BY <1>2 DEF RollbackTransaction, Acquire, Stages
  <1>3. ASSUME NEW t \in Tx, VisitActive(t) PROVE RemoverTypeOK'
    <2>1. CASE t = lock_holder
      BY <1>3, <2>1 DEF VisitActive
    <2>2. CASE t # lock_holder
      <3>1. /\ lowest_start_time' \in {lowest_start_time, start_time[t]}
            /\ lowest_active_query' \in {lowest_active_query, active_query[t]}
            /\ unvisited' \subseteq unvisited
            /\ UNCHANGED <<lock_holder, stage>>
        BY <1>3, <2>2 DEF VisitActive, Least
      <3>2. start_time[t] \in Nat /\ active_query[t] \in 0..MaximumQueryId
        OBVIOUS
      <3> QED BY <3>1, <3>2
    <2> QED BY <2>1, <2>2
  <1>4. ASSUME NEW t \in Tx, MoveRemoved(t) PROVE RemoverTypeOK'
    BY <1>4 DEF MoveRemoved, Stages
  <1>5. ASSUME NEW t \in Tx, FreeOld(t) PROVE RemoverTypeOK'
    BY <1>5 DEF FreeOld, Stages
  <1>6. ASSUME CleanupHead PROVE RemoverTypeOK'
    BY <1>6 DEF CleanupHead, CanClean, UndoStates
  <1>7. ASSUME NEW t \in Tx, StartTransaction(t) \/ GetQueryNumber(t) \/
           SetActiveQuery(t) \/ BeginStatement(t) \/ BeginScan(t) \/
           EndScan(t) \/ PushTuple(t) \/ EndQuery(t)
       PROVE RemoverTypeOK'
    BY <1>7 DEF StartTransaction, GetQueryNumber, SetActiveQuery,
           BeginStatement, BeginScan, EndScan, PushTuple, EndQuery
  <1>8. ASSUME UNCHANGED vars PROVE RemoverTypeOK'
    BY <1>8 DEF vars
  <1> QED
    BY <1>1, <1>2, <1>3, <1>4, <1>5, <1>6, <1>7, <1>8 DEF Next, Client, Remove

LEMMA TypeStep == TypeOK /\ [Next]_vars => TypeOK'
  BY ManagerTypeStep, ObjectTypeStep, SessionTypeStep, RemoverTypeStep DEF TypeOK

\* Every variable of the transaction manager keeps its type, with any number
\* of transactions and any bounds.
THEOREM TypeCorrect == Spec => []TypeOK
  BY TypeInit, TypeStep, PTL DEF Spec

-----------------------------------------------------------------------------
(* The lock and the clock. *)

LEMMA LockStep ==
  ASSUME TypeOK, LockInv, [Next]_vars
  PROVE  LockInv'
  <1> USE NoTxAssumption DEF Goto, counters, lists, objects, session,
                             remover, LockInv, Live, InQuery, Phases
  <1>0. /\ phase \in [Tx -> Phases]
        /\ lock_holder \in Tx \cup {NoTx}
        /\ active_transactions \subseteq Tx
    BY DEF TypeOK, ManagerTypeOK, ObjectTypeOK, SessionTypeOK, RemoverTypeOK
  <1> USE <1>0
  <1>1. ASSUME NEW t \in Tx, StartTransaction(t) PROVE LockInv'
    BY <1>1 DEF StartTransaction
  <1>2. ASSUME NEW t \in Tx, GetQueryNumber(t) PROVE LockInv'
    BY <1>2 DEF GetQueryNumber
  <1>3. ASSUME NEW t \in Tx, SetActiveQuery(t) PROVE LockInv'
    BY <1>3 DEF SetActiveQuery
  <1>4. ASSUME NEW t \in Tx, BeginStatement(t) PROVE LockInv'
    BY <1>4 DEF BeginStatement
  <1>5. ASSUME NEW t \in Tx, BeginScan(t) PROVE LockInv'
    BY <1>5 DEF BeginScan
  <1>6. ASSUME NEW t \in Tx, EndScan(t) PROVE LockInv'
    BY <1>6 DEF EndScan
  <1>7. ASSUME NEW t \in Tx, PushTuple(t) PROVE LockInv'
    BY <1>7 DEF PushTuple
  <1>8. ASSUME NEW t \in Tx, EndQuery(t) PROVE LockInv'
    BY <1>8 DEF EndQuery
  <1>9. ASSUME NEW t \in Tx, CommitTransaction(t) PROVE LockInv'
    BY <1>9 DEF CommitTransaction, Acquire
  <1>10. ASSUME NEW t \in Tx, RollbackTransaction(t) PROVE LockInv'
    BY <1>10 DEF RollbackTransaction, Acquire
  <1>11. ASSUME NEW t \in Tx, VisitActive(t) PROVE LockInv'
    BY <1>11 DEF VisitActive, Least
  <1>12. ASSUME NEW t \in Tx, MoveRemoved(t) PROVE LockInv'
    BY <1>12 DEF MoveRemoved
  <1>13. ASSUME NEW t \in Tx, FreeOld(t) PROVE LockInv'
    BY <1>13 DEF FreeOld, CanClean
  <1>14. ASSUME CleanupHead PROVE LockInv'
    BY <1>14 DEF CleanupHead, CanClean
  <1>15. CASE UNCHANGED vars
    BY <1>15 DEF vars
  <1> QED
    BY <1>1, <1>2, <1>3, <1>4, <1>5, <1>6, <1>7, <1>8, <1>9, <1>10, <1>11,
       <1>12, <1>13, <1>14, <1>15
       DEF Next, Client, Remove

LEMMA TimeStep ==
  ASSUME TypeOK, TimeInv, [Next]_vars
  PROVE  TimeInv'
  <1> USE DEF Goto, counters, lists, objects, session, remover, TimeInv
  <1>0. /\ current_start_timestamp \in Nat
        /\ commit_id \in [Tx -> Nat]
        /\ start_time \in [Tx -> Nat]
        /\ active_transactions \subseteq Tx
    BY DEF TypeOK, ManagerTypeOK, ObjectTypeOK, SessionTypeOK, RemoverTypeOK
  <1> USE <1>0
  <1>1. ASSUME NEW t \in Tx, StartTransaction(t) PROVE TimeInv'
    <2>1. /\ start_time' = [start_time EXCEPT ![t] = current_start_timestamp]
          /\ current_start_timestamp' = current_start_timestamp + 1
          /\ active_transactions' = active_transactions \cup {t}
          /\ UNCHANGED commit_id
      BY <1>1 DEF StartTransaction
    <2> QED BY <2>1
  <1>2. ASSUME NEW t \in Tx, GetQueryNumber(t) \/ SetActiveQuery(t) \/
                             BeginStatement(t) \/ BeginScan(t) \/
                             EndScan(t) \/ EndQuery(t) \/ PushTuple(t)
       PROVE TimeInv'
    BY <1>2 DEF GetQueryNumber, SetActiveQuery, BeginStatement, BeginScan,
                EndScan, EndQuery, PushTuple
  <1>3. ASSUME NEW t \in Tx, CommitTransaction(t) PROVE TimeInv'
    <2>1. /\ commit_id' = [commit_id EXCEPT ![t] = current_start_timestamp]
          /\ current_start_timestamp' = current_start_timestamp + 1
          /\ UNCHANGED <<active_transactions, start_time>>
      BY <1>3 DEF CommitTransaction
    <2> QED BY <2>1
  <1>4. ASSUME NEW t \in Tx, RollbackTransaction(t) PROVE TimeInv'
    BY <1>4 DEF RollbackTransaction, Acquire
  <1>5. ASSUME NEW t \in Tx, VisitActive(t) PROVE TimeInv'
    BY <1>5 DEF VisitActive, Least
  <1>6. ASSUME NEW t \in Tx, MoveRemoved(t) PROVE TimeInv'
    BY <1>6 DEF MoveRemoved
  <1>7. ASSUME NEW t \in Tx, FreeOld(t) PROVE TimeInv'
    BY <1>7 DEF FreeOld, CanClean
  <1>8. ASSUME CleanupHead PROVE TimeInv'
    BY <1>8 DEF CleanupHead, CanClean
  <1>9. CASE UNCHANGED vars
    BY <1>9 DEF vars
  <1> QED
    BY <1>1, <1>2, <1>3, <1>4, <1>5, <1>6, <1>7, <1>8, <1>9
       DEF Next, Client, Remove

-----------------------------------------------------------------------------
(* Lists as sets, and the steps that change them. *)

LEMMA ElementsAppend ==
  ASSUME NEW s \in Seq(Tx), NEW e \in Tx
  PROVE  Elements(Append(s, e)) = Elements(s) \cup {e}
  BY DEF Elements

LEMMA ElementsHeadTail ==
  ASSUME NEW s \in Seq(Tx), s # << >>
  PROVE  /\ Head(s) \in Elements(s)
         /\ \A u \in Elements(Tail(s)) : u \in Elements(s)
         /\ \A u \in Elements(s) : u = Head(s) \/ u \in Elements(Tail(s))
  <1>1. /\ Head(s) = s[1]
        /\ Len(s) \in Nat \ {0}
        /\ Len(Tail(s)) = Len(s) - 1
        /\ \A i \in 1..Len(s) - 1 : Tail(s)[i] = s[i + 1]
    OBVIOUS
  <1>2. ASSUME NEW i \in 1..Len(s), i # 1
        PROVE  s[i] = Tail(s)[i - 1] /\ i - 1 \in 1..Len(Tail(s))
    <2>1. i - 1 \in 1..Len(s) - 1 /\ (i - 1) + 1 = i
      BY <1>1, <1>2
    <2>2. Tail(s)[i - 1] = s[(i - 1) + 1]
      BY <1>1, <2>1
    <2> QED BY <1>1, <2>1, <2>2
  <1> QED BY <1>1, <1>2 DEF Elements

LEMMA ElementsSubSeq ==
  ASSUME NEW s \in Seq(Tx), NEW n \in 0..Len(s)
  PROVE  \A u : u \in Elements(SubSeq(s, n + 1, Len(s)))
                    <=> \E i \in n+1..Len(s) : s[i] = u
  <1>1. /\ Len(SubSeq(s, n + 1, Len(s))) = Len(s) - n
        /\ \A i \in 1..Len(s) - n : SubSeq(s, n + 1, Len(s))[i] = s[n + i]
    OBVIOUS
  <1>2. ASSUME NEW i \in n+1..Len(s)
        PROVE  s[i] \in Elements(SubSeq(s, n + 1, Len(s)))
    <2>1. i - n \in 1..Len(s) - n /\ n + (i - n) = i
      OBVIOUS
    <2>2. SubSeq(s, n + 1, Len(s))[i - n] = s[n + (i - n)]
      BY <1>1, <2>1
    <2> QED BY <1>1, <2>1, <2>2 DEF Elements
  <1>3. ASSUME NEW u \in Elements(SubSeq(s, n + 1, Len(s)))
        PROVE  \E i \in n+1..Len(s) : s[i] = u
    <2>1. PICK i \in 1..Len(s) - n : SubSeq(s, n + 1, Len(s))[i] = u
      BY <1>1 DEF Elements
    <2>2. n + i \in n+1..Len(s) /\ s[n + i] = u
      BY <1>1, <2>1
    <2> QED BY <2>2
  <1> QED BY <1>2, <1>3

(* What the three steps that move transactions between the lists do. *)

LEMMA CleanupEffect ==
  ASSUME TypeOK, CleanupHead, NEW u \in Tx, u = Head(recently_committed)
  PROVE  /\ stage = "clean"
         /\ recently_committed # << >>
         /\ commit_id[u] < lowest_start_time
         /\ undo' = [undo EXCEPT ![u] = "unlinked"]
         /\ highest_active_query' =
                [highest_active_query EXCEPT ![u] = current_query_number]
         /\ old_transactions' = Append(old_transactions, u)
         /\ recently_committed' = Tail(recently_committed)
         /\ UNCHANGED <<counters, active_transactions, start_time, transaction_id,
                        commit_id, session, remover>>
  BY DEF CleanupHead, CanClean

LEMMA CleanupElements ==
  ASSUME TypeOK, CleanupHead
  PROVE  \E u \in Elements(recently_committed) :
            /\ u \in Tx
            /\ u = Head(recently_committed)
            /\ Elements(old_transactions)' = Elements(old_transactions) \cup {u}
            /\ \A v \in Elements(recently_committed)' :
                   v \in Elements(recently_committed)
  <1> DEFINE u == Head(recently_committed)
  <1>1. /\ recently_committed \in Seq(Tx)
        /\ recently_committed # << >>
        /\ old_transactions \in Seq(Tx)
    BY DEF TypeOK, ManagerTypeOK, CleanupHead, CanClean
  <1>2. u \in Tx
    BY <1>1
  <1>3. /\ old_transactions' = Append(old_transactions, u)
        /\ recently_committed' = Tail(recently_committed)
    BY <1>2, CleanupEffect
  <1>4. u \in Elements(recently_committed)
    BY <1>1, ElementsHeadTail
  <1>5. Elements(old_transactions)' = Elements(old_transactions) \cup {u}
    BY <1>1, <1>2, <1>3, ElementsAppend DEF Elements
  <1>6. \A v \in Elements(recently_committed)' : v \in Elements(recently_committed)
    BY <1>1, <1>3, ElementsHeadTail DEF Elements
  <1> QED BY <1>2, <1>4, <1>5, <1>6

LEMMA FreeOldEffect ==
  ASSUME TypeOK, NEW t \in Tx, FreeOld(t)
  PROVE  \E n \in 0..Len(old_transactions) :
            /\ Freeable(n)
            /\ undo' = [u \in Tx |->
                          IF \E i \in 1..n : old_transactions[i] = u
                          THEN "freed" ELSE undo[u]]
            /\ old_transactions' =
                   SubSeq(old_transactions, n + 1, Len(old_transactions))
            /\ \A u : u \in Elements(old_transactions)'
                          <=> \E i \in n+1..Len(old_transactions) :
                                  old_transactions[i] = u
  <1>1. PICK n \in 0..Len(old_transactions) :
            /\ Freeable(n)
            /\ undo' = [u \in Tx |->
                          IF \E i \in 1..n : old_transactions[i] = u
                          THEN "freed" ELSE undo[u]]
            /\ old_transactions' =
                   SubSeq(old_transactions, n + 1, Len(old_transactions))
    BY DEF FreeOld
  <1>2. old_transactions \in Seq(Tx)
    BY DEF TypeOK, ManagerTypeOK
  <1>3. \A u : u \in Elements(old_transactions)'
                   <=> \E i \in n+1..Len(old_transactions) : old_transactions[i] = u
    BY <1>1, <1>2, ElementsSubSeq
  <1> QED BY <1>1, <1>3

LEMMA FreeOldKeeps ==
  ASSUME TypeOK, NEW t \in Tx, FreeOld(t)
  PROVE  /\ \A u \in Tx : u \notin Elements(old_transactions) => undo'[u] = undo[u]
         /\ \A u \in Elements(old_transactions)' : u \in Elements(old_transactions)
  <1>1. PICK n \in 0..Len(old_transactions) :
            /\ undo' = [u \in Tx |->
                          IF \E i \in 1..n : old_transactions[i] = u
                          THEN "freed" ELSE undo[u]]
            /\ \A u : u \in Elements(old_transactions)'
                          <=> \E i \in n+1..Len(old_transactions) :
                                  old_transactions[i] = u
    BY FreeOldEffect
  <1>2. 1..n \subseteq 1..Len(old_transactions)
        /\ n+1..Len(old_transactions) \subseteq 1..Len(old_transactions)
    BY DEF TypeOK, ManagerTypeOK
  <1> QED BY <1>1, <1>2 DEF Elements

-----------------------------------------------------------------------------
(* What each list holds. *)

LEMMA UnfinishedStep ==
  ASSUME TypeOK, LockInv, UnfinishedInv, RecentInv, OldInv, [Next]_vars
  PROVE  UnfinishedInv'
  <1> USE DEF Goto, counters, lists, objects, session, remover,
              UnfinishedInv, Live, InQuery
  <1>0. /\ undo \in [Tx -> UndoStates]
        /\ phase \in [Tx -> Phases]
        /\ commit_id \in [Tx -> Nat]
    BY DEF TypeOK, ManagerTypeOK, ObjectTypeOK, SessionTypeOK, RemoverTypeOK
  <1> USE <1>0
  <1>1. ASSUME NEW t \in Tx, StartTransaction(t) PROVE UnfinishedInv'
    BY <1>1 DEF StartTransaction
  <1>2. ASSUME NEW t \in Tx, GetQueryNumber(t) \/ SetActiveQuery(t) \/
                             BeginStatement(t) \/ BeginScan(t) \/
                             EndScan(t) \/ EndQuery(t)
       PROVE UnfinishedInv'
    BY <1>2 DEF GetQueryNumber, SetActiveQuery, BeginStatement, BeginScan,
                EndScan, EndQuery
  <1>3. ASSUME NEW t \in Tx, PushTuple(t) PROVE UnfinishedInv'
    BY <1>3 DEF PushTuple
  <1>4. ASSUME NEW t \in Tx, CommitTransaction(t) PROVE UnfinishedInv'
    BY <1>4 DEF CommitTransaction, Acquire
  <1>5. ASSUME NEW t \in Tx, RollbackTransaction(t) PROVE UnfinishedInv'
    BY <1>5 DEF RollbackTransaction, Acquire
  <1>6. ASSUME NEW t \in Tx, VisitActive(t) PROVE UnfinishedInv'
    BY <1>6 DEF VisitActive, Least
  <1>7. ASSUME NEW t \in Tx, MoveRemoved(t) PROVE UnfinishedInv'
    BY <1>7 DEF MoveRemoved
  <1>8. ASSUME NEW t \in Tx, FreeOld(t) PROVE UnfinishedInv'
    <2>1. phase' = [phase EXCEPT ![t] = "done"] /\ UNCHANGED commit_id
      BY <1>8 DEF FreeOld
    <2>2. \A u \in Tx : phase[u] \in Live \cup {"idle"} => undo'[u] = undo[u]
      BY <1>8, FreeOldKeeps DEF OldInv
    <2> QED BY <2>1, <2>2
  <1>9. ASSUME CleanupHead PROVE UnfinishedInv'
    <2>1. PICK u \in Tx : u = Head(recently_committed)
                          /\ u \in Elements(recently_committed)
      BY <1>9, CleanupElements
    <2>2. /\ undo' = [undo EXCEPT ![u] = "unlinked"]
          /\ UNCHANGED <<phase, commit_id>>
      BY <1>9, <2>1, CleanupEffect
    <2> QED BY <2>1, <2>2 DEF RecentInv
  <1>10. CASE UNCHANGED vars
    BY <1>10 DEF vars
  <1> QED
    BY <1>1, <1>2, <1>3, <1>4, <1>5, <1>6, <1>7, <1>8, <1>9, <1>10
       DEF Next, Client, Remove

LEMMA RemovedStep ==
  ASSUME TypeOK, LockInv, TimeInv, UnfinishedInv, RemovedInv, RecentInv,
         [Next]_vars
  PROVE  RemovedInv'
  <1> USE NoTxAssumption DEF Goto, counters, lists, objects, session,
                             remover, RemovedInv
  <1>0. /\ undo \in [Tx -> UndoStates]
        /\ commit_id \in [Tx -> Nat]
        /\ recently_committed \in Seq(Tx)
        /\ current_start_timestamp \in Nat
    BY DEF TypeOK, ManagerTypeOK, ObjectTypeOK, SessionTypeOK, RemoverTypeOK
  <1> USE <1>0
  <1>1. ASSUME NEW t \in Tx, StartTransaction(t) PROVE RemovedInv'
    BY <1>1 DEF StartTransaction, LockInv
  <1>2. ASSUME NEW t \in Tx, GetQueryNumber(t) \/ SetActiveQuery(t) \/
                             BeginStatement(t) \/ BeginScan(t) \/
                             EndScan(t) \/ EndQuery(t)
       PROVE RemovedInv'
    BY <1>2 DEF GetQueryNumber, SetActiveQuery, BeginStatement, BeginScan,
                EndScan, EndQuery
  <1>3. ASSUME NEW t \in Tx, PushTuple(t) PROVE RemovedInv'
    <2>1. stage = "visit" => lock_holder # t
      BY <1>3 DEF PushTuple, LockInv
    <2>2. undo' = [undo EXCEPT ![t] = "linked"]
          /\ UNCHANGED <<stage, lock_holder, commit_id, recently_committed>>
      BY <1>3 DEF PushTuple
    <2>3. stage = "visit" => undo'[lock_holder] = undo[lock_holder]
      BY <2>1, <2>2, <1>3 DEF LockInv
    <2> QED BY <2>2, <2>3 DEF Elements
  <1>4. ASSUME NEW t \in Tx, CommitTransaction(t) PROVE RemovedInv'
    <2>1. /\ commit_id[t] = 0
          /\ undo[t] \in {"empty", "linked"}
      BY <1>4 DEF CommitTransaction, UnfinishedInv, Live, InQuery
    <2>2. /\ commit_id' = [commit_id EXCEPT ![t] = current_start_timestamp]
          /\ lock_holder' = t
          /\ UNCHANGED <<undo, recently_committed>>
      BY <1>4 DEF CommitTransaction, Acquire
    <2>3. commit_id'[t] = current_start_timestamp
      BY <2>2
    <2>4. current_start_timestamp # 0
      BY <1>4 DEF TimeInv
    <2>5. ASSUME NEW u \in Elements(recently_committed), u # t
          PROVE  commit_id'[u] < commit_id'[t]
      <3>1. u \in Tx
        BY <2>5 DEF Elements
      <3> QED BY <3>1, <2>2, <2>3, <2>5 DEF TimeInv
    <2>6. t \notin Elements(recently_committed)
      BY <2>1 DEF RecentInv
    <2> QED BY <2>1, <2>2, <2>3, <2>4, <2>5, <2>6 DEF Elements
  <1>5. ASSUME NEW t \in Tx, RollbackTransaction(t) PROVE RemovedInv'
    <2>1. commit_id[t] = 0
      BY <1>5 DEF RollbackTransaction, UnfinishedInv, Live, InQuery
    <2>2. /\ undo' = [undo EXCEPT ![t] = "unlinked"]
          /\ lock_holder' = t
          /\ UNCHANGED commit_id
      BY <1>5 DEF RollbackTransaction, Acquire
    <2> QED BY <2>1, <2>2
  <1>6. ASSUME NEW t \in Tx, VisitActive(t) PROVE RemovedInv'
    BY <1>6 DEF VisitActive, Least
  <1>7. ASSUME NEW t \in Tx, MoveRemoved(t) PROVE RemovedInv'
    BY <1>7 DEF MoveRemoved
  <1>8. ASSUME NEW t \in Tx, FreeOld(t) PROVE RemovedInv'
    BY <1>8 DEF FreeOld, CanClean
  <1>9. ASSUME CleanupHead PROVE RemovedInv'
    <2>1. stage' # "visit"
      BY <1>9 DEF CleanupHead
    <2> QED BY <2>1
  <1>10. CASE UNCHANGED vars
    BY <1>10 DEF vars
  <1> QED
    BY <1>1, <1>2, <1>3, <1>4, <1>5, <1>6, <1>7, <1>8, <1>9, <1>10
       DEF Next, Client, Remove

LEMMA RecentStep ==
  ASSUME TypeOK, LockInv, TimeInv, RemovedInv, RecentInv, OldInv,
           RecentlyCommittedIsOrdered, [Next]_vars
  PROVE  RecentInv'
  <1> USE DEF Goto, counters, lists, objects, session, remover, RecentInv
  <1>0. /\ undo \in [Tx -> UndoStates]
        /\ commit_id \in [Tx -> Nat]
        /\ recently_committed \in Seq(Tx)
        /\ phase \in [Tx -> Phases]
        /\ active_transactions \subseteq Tx
        /\ current_start_timestamp \in Nat
    BY DEF TypeOK, ManagerTypeOK, ObjectTypeOK, SessionTypeOK, RemoverTypeOK
  <1> USE <1>0
  <1>1. ASSUME NEW t \in Tx, StartTransaction(t) PROVE RecentInv'
    BY <1>1 DEF StartTransaction
  <1>2. ASSUME NEW t \in Tx, GetQueryNumber(t) PROVE RecentInv'
    BY <1>2 DEF GetQueryNumber
  <1>3. ASSUME NEW t \in Tx, SetActiveQuery(t) PROVE RecentInv'
    BY <1>3 DEF SetActiveQuery
  <1>4. ASSUME NEW t \in Tx, BeginStatement(t) PROVE RecentInv'
    BY <1>4 DEF BeginStatement
  <1>5. ASSUME NEW t \in Tx, BeginScan(t) PROVE RecentInv'
    BY <1>5 DEF BeginScan
  <1>6. ASSUME NEW t \in Tx, EndScan(t) PROVE RecentInv'
    BY <1>6 DEF EndScan
  <1>7. ASSUME NEW t \in Tx, PushTuple(t) PROVE RecentInv'
    BY <1>7 DEF PushTuple
  <1>8. ASSUME NEW t \in Tx, EndQuery(t) PROVE RecentInv'
    BY <1>8 DEF EndQuery
  <1>9. ASSUME NEW t \in Tx, CommitTransaction(t) PROVE RecentInv'
    BY <1>9 DEF CommitTransaction, Acquire
  <1>10. ASSUME NEW t \in Tx, RollbackTransaction(t) PROVE RecentInv'
    BY <1>10 DEF RollbackTransaction, Acquire
  <1>11. ASSUME NEW t \in Tx, VisitActive(t) PROVE RecentInv'
    BY <1>11 DEF VisitActive, Least
  <1>12. ASSUME NEW t \in Tx, MoveRemoved(t) PROVE RecentInv'
    <2>1. /\ active_transactions' = active_transactions \ {t}
          /\ stage = "visit" /\ lock_holder = t
          /\ UNCHANGED <<commit_id, undo, phase>>
      BY <1>12 DEF MoveRemoved
    <2>2. CASE commit_id[t] # 0
      <3>1. recently_committed' = Append(recently_committed, t)
        BY <1>12, <2>2 DEF MoveRemoved
      <3>2. Elements(recently_committed)' = Elements(recently_committed) \cup {t}
        BY <3>1, ElementsAppend
      <3>3. phase[t] = "removing" /\ undo[t] \in {"empty", "linked"}
        BY <2>1, <2>2 DEF LockInv, RemovedInv
      <3> QED BY <2>1, <2>2, <3>2, <3>3
    <2>3. CASE commit_id[t] = 0
      <3>1. UNCHANGED recently_committed
        BY <1>12, <2>3 DEF MoveRemoved
      <3> QED BY <2>1, <3>1 DEF Elements
    <2> QED BY <2>2, <2>3
  <1>13. ASSUME NEW t \in Tx, FreeOld(t) PROVE RecentInv'
    <2>1. /\ phase' = [phase EXCEPT ![t] = "done"]
          /\ UNCHANGED <<commit_id, active_transactions, recently_committed>>
      BY <1>13 DEF FreeOld
    <2>2. ASSUME NEW u \in Elements(recently_committed)
          PROVE  u \in Tx /\ undo'[u] = undo[u]
      <3>1. u \in Tx /\ u \notin Elements(old_transactions)
        BY DEF Elements, OldInv
      <3> QED BY <1>13, <3>1, FreeOldKeeps
    <2> QED BY <2>1, <2>2 DEF Elements
  <1>14. ASSUME CleanupHead PROVE RecentInv'
    <2>1. PICK u \in Tx :
             /\ u = Head(recently_committed)
             /\ \A v \in Elements(recently_committed)' :
                    v \in Elements(recently_committed)
      BY <1>14, CleanupElements
    <2>2. /\ recently_committed # << >>
          /\ recently_committed' = Tail(recently_committed)
          /\ undo' = [undo EXCEPT ![u] = "unlinked"]
          /\ UNCHANGED <<commit_id, phase, active_transactions>>
      BY <1>14, <2>1, CleanupEffect
    <2>3. ASSUME NEW v \in Elements(recently_committed)'
          PROVE  v # u
      <3>1. PICK i \in 1..Len(recently_committed) - 1 :
                v = recently_committed[i + 1]
        BY <2>2 DEF Elements
      <3>2. u = recently_committed[1] /\ 1 < i + 1
            /\ 1 \in 1..Len(recently_committed)
            /\ i + 1 \in 1..Len(recently_committed)
        BY <2>1, <2>2
      <3>3. commit_id[u] < commit_id[v]
        BY <3>1, <3>2 DEF RecentlyCommittedIsOrdered
      <3>4. commit_id[u] \in Nat
        BY <2>1
      <3> QED BY <3>3, <3>4
    <2> QED BY <2>1, <2>2, <2>3
  <1>15. CASE UNCHANGED vars
    BY <1>15 DEF vars
  <1> QED
    BY <1>1, <1>2, <1>3, <1>4, <1>5, <1>6, <1>7, <1>8, <1>9, <1>10, <1>11,
       <1>12, <1>13, <1>14, <1>15
       DEF Next, Client, Remove

LEMMA OldStep ==
  ASSUME TypeOK, LockInv, RemovedInv, RecentInv, OldInv, OldIsDistinct,
           [Next]_vars
  PROVE  OldInv'
  <1> USE DEF Goto, counters, lists, objects, session, remover, OldInv
  <1>0. /\ undo \in [Tx -> UndoStates]
        /\ commit_id \in [Tx -> Nat]
        /\ old_transactions \in Seq(Tx)
        /\ phase \in [Tx -> Phases]
        /\ active_transactions \subseteq Tx
    BY DEF TypeOK, ManagerTypeOK, ObjectTypeOK, SessionTypeOK, RemoverTypeOK
  <1> USE <1>0
  <1>1. ASSUME NEW t \in Tx, StartTransaction(t) PROVE OldInv'
    BY <1>1 DEF StartTransaction
  <1>2. ASSUME NEW t \in Tx, GetQueryNumber(t) PROVE OldInv'
    BY <1>2 DEF GetQueryNumber
  <1>3. ASSUME NEW t \in Tx, SetActiveQuery(t) PROVE OldInv'
    BY <1>3 DEF SetActiveQuery
  <1>4. ASSUME NEW t \in Tx, BeginStatement(t) PROVE OldInv'
    BY <1>4 DEF BeginStatement
  <1>5. ASSUME NEW t \in Tx, BeginScan(t) PROVE OldInv'
    BY <1>5 DEF BeginScan
  <1>6. ASSUME NEW t \in Tx, EndScan(t) PROVE OldInv'
    BY <1>6 DEF EndScan
  <1>7. ASSUME NEW t \in Tx, PushTuple(t) PROVE OldInv'
    <2>1. phase[t] \in {"planning", "executing"}
          /\ phase' = [phase EXCEPT ![t] = "executing"]
          /\ undo' = [undo EXCEPT ![t] = "linked"]
          /\ UNCHANGED <<active_transactions, old_transactions>>
      BY <1>7 DEF PushTuple
    <2> QED BY <2>1
  <1>8. ASSUME NEW t \in Tx, EndQuery(t) PROVE OldInv'
    BY <1>8 DEF EndQuery
  <1>9. ASSUME NEW t \in Tx, CommitTransaction(t) PROVE OldInv'
    BY <1>9 DEF CommitTransaction, Acquire
  <1>10. ASSUME NEW t \in Tx, RollbackTransaction(t) PROVE OldInv'
    BY <1>10 DEF RollbackTransaction, Acquire
  <1>11. ASSUME NEW t \in Tx, VisitActive(t) PROVE OldInv'
    BY <1>11 DEF VisitActive, Least
  <1>12. ASSUME NEW t \in Tx, MoveRemoved(t) PROVE OldInv'
    <2>1. /\ active_transactions' = active_transactions \ {t}
          /\ stage = "visit" /\ lock_holder = t
          /\ UNCHANGED <<undo, phase>>
      BY <1>12 DEF MoveRemoved
    <2>2. CASE commit_id[t] # 0
      <3>1. UNCHANGED old_transactions
        BY <1>12, <2>2 DEF MoveRemoved
      <3> QED BY <2>1, <3>1
    <2>3. CASE commit_id[t] = 0
      <3>1. old_transactions' = Append(old_transactions, t)
        BY <1>12, <2>3 DEF MoveRemoved
      <3>2. Elements(old_transactions)' = Elements(old_transactions) \cup {t}
        BY <3>1, ElementsAppend
      <3>3. phase[t] = "removing" /\ undo[t] = "unlinked"
        BY <2>1, <2>3 DEF LockInv, RemovedInv
      <3> QED BY <2>1, <3>2, <3>3
    <2> QED BY <2>2, <2>3
  <1>13. ASSUME NEW t \in Tx, FreeOld(t) PROVE OldInv'
    <2>1. /\ phase' = [phase EXCEPT ![t] = "done"]
          /\ UNCHANGED active_transactions
      BY <1>13 DEF FreeOld
    <2>2. PICK n \in 0..Len(old_transactions) :
            /\ undo' = [u \in Tx |->
                          IF \E i \in 1..n : old_transactions[i] = u
                          THEN "freed" ELSE undo[u]]
            /\ \A u : u \in Elements(old_transactions)'
                          <=> \E i \in n+1..Len(old_transactions) :
                                  old_transactions[i] = u
      BY <1>13, FreeOldEffect
    <2>3. ASSUME NEW u \in Elements(old_transactions)'
          PROVE  u \in Tx /\ u \in Elements(old_transactions) /\ undo'[u] = undo[u]
      <3>1. PICK i \in n+1..Len(old_transactions) : old_transactions[i] = u
        BY <2>2, <2>3
      <3>2. i \in 1..Len(old_transactions) /\ u \in Tx
        BY <3>1
      <3>3. ASSUME NEW j \in 1..n PROVE old_transactions[j] # u
        <4>1. j \in 1..Len(old_transactions) /\ j # i
          BY <3>1
        <4> QED BY <4>1, <3>1, <3>2 DEF OldIsDistinct
      <3> QED BY <2>2, <3>1, <3>2, <3>3 DEF Elements
    <2> QED BY <2>1, <2>3
  <1>14. ASSUME CleanupHead PROVE OldInv'
    <2>1. PICK u \in Elements(recently_committed) :
             /\ u \in Tx
             /\ u = Head(recently_committed)
             /\ Elements(old_transactions)' = Elements(old_transactions) \cup {u}
      BY <1>14, CleanupElements
    <2>2. /\ undo' = [undo EXCEPT ![u] = "unlinked"]
          /\ UNCHANGED <<phase, active_transactions>>
      BY <1>14, <2>1, CleanupEffect
    <2> QED BY <2>1, <2>2 DEF RecentInv
  <1>15. CASE UNCHANGED vars
    BY <1>15 DEF vars
  <1> QED
    BY <1>1, <1>2, <1>3, <1>4, <1>5, <1>6, <1>7, <1>8, <1>9, <1>10, <1>11,
       <1>12, <1>13, <1>14, <1>15
       DEF Next, Client, Remove

LEMMA AppendDistinct ==
  ASSUME old_transactions \in Seq(Tx), OldIsDistinct,
         NEW t \in Tx, t \notin Elements(old_transactions),
         old_transactions' = Append(old_transactions, t)
  PROVE  OldIsDistinct'
  <1>1. /\ Len(old_transactions') = Len(old_transactions) + 1
        /\ old_transactions'[Len(old_transactions) + 1] = t
        /\ \A i \in 1..Len(old_transactions) :
               old_transactions'[i] = old_transactions[i]
    OBVIOUS
  <1>2. \A i \in 1..Len(old_transactions) : old_transactions[i] # t
    BY DEF Elements
  <1> QED BY <1>1, <1>2 DEF OldIsDistinct

LEMMA OldDistinctStep ==
  ASSUME TypeOK, LockInv, RecentInv, OldInv, OldIsDistinct, [Next]_vars
  PROVE  OldIsDistinct'
  <1> USE DEF Goto, counters, lists, objects, session, remover,
              OldIsDistinct
  <1>0. /\ old_transactions \in Seq(Tx)
    BY DEF TypeOK, ManagerTypeOK, ObjectTypeOK, SessionTypeOK, RemoverTypeOK
  <1> USE <1>0
  <1>1. ASSUME NEW t \in Tx, StartTransaction(t) PROVE OldIsDistinct'
    BY <1>1 DEF StartTransaction
  <1>2. ASSUME NEW t \in Tx, GetQueryNumber(t) PROVE OldIsDistinct'
    BY <1>2 DEF GetQueryNumber
  <1>3. ASSUME NEW t \in Tx, SetActiveQuery(t) PROVE OldIsDistinct'
    BY <1>3 DEF SetActiveQuery
  <1>4. ASSUME NEW t \in Tx, BeginStatement(t) PROVE OldIsDistinct'
    BY <1>4 DEF BeginStatement
  <1>5. ASSUME NEW t \in Tx, BeginScan(t) PROVE OldIsDistinct'
    BY <1>5 DEF BeginScan
  <1>6. ASSUME NEW t \in Tx, EndScan(t) PROVE OldIsDistinct'
    BY <1>6 DEF EndScan
  <1>7. ASSUME NEW t \in Tx, PushTuple(t) PROVE OldIsDistinct'
    BY <1>7 DEF PushTuple
  <1>8. ASSUME NEW t \in Tx, EndQuery(t) PROVE OldIsDistinct'
    BY <1>8 DEF EndQuery
  <1>9. ASSUME NEW t \in Tx, CommitTransaction(t) PROVE OldIsDistinct'
    BY <1>9 DEF CommitTransaction, Acquire
  <1>10. ASSUME NEW t \in Tx, RollbackTransaction(t) PROVE OldIsDistinct'
    BY <1>10 DEF RollbackTransaction, Acquire
  <1>11. ASSUME NEW t \in Tx, VisitActive(t) PROVE OldIsDistinct'
    BY <1>11 DEF VisitActive, Least
  <1>12. ASSUME NEW t \in Tx, MoveRemoved(t) PROVE OldIsDistinct'
    <2>1. t \notin Elements(old_transactions)
      BY <1>12 DEF MoveRemoved, LockInv, OldInv
    <2>2. CASE UNCHANGED old_transactions
      BY <2>2
    <2>3. CASE old_transactions' = Append(old_transactions, t)
      BY <2>1, <2>3, AppendDistinct
    <2> QED BY <1>12, <2>2, <2>3 DEF MoveRemoved
  <1>13. ASSUME NEW t \in Tx, FreeOld(t) PROVE OldIsDistinct'
    <2>1. PICK n \in 0..Len(old_transactions) :
              old_transactions' =
                  SubSeq(old_transactions, n + 1, Len(old_transactions))
      BY <1>13, FreeOldEffect
    <2>2. /\ Len(old_transactions') = Len(old_transactions) - n
          /\ \A i \in 1..Len(old_transactions) - n :
                 old_transactions'[i] = old_transactions[n + i]
      BY <2>1
    <2>3. \A i \in 1..Len(old_transactions) - n :
             n + i \in 1..Len(old_transactions)
      OBVIOUS
    <2>4. ASSUME NEW i \in 1..Len(old_transactions'),
                 NEW j \in 1..Len(old_transactions'),
                 old_transactions'[i] = old_transactions'[j]
          PROVE  i = j
      <3>1. n + i = n + j
        BY <2>2, <2>3, <2>4
      <3> QED BY <3>1, <2>2
    <2> QED BY <2>4
  <1>14. ASSUME CleanupHead PROVE OldIsDistinct'
    <2>1. PICK u \in Elements(recently_committed) :
             u \in Tx /\ u = Head(recently_committed)
      BY <1>14, CleanupElements
    <2>2. u \notin Elements(old_transactions)
      BY <2>1 DEF RecentInv, OldInv
    <2>3. old_transactions' = Append(old_transactions, u)
      BY <1>14, <2>1, CleanupEffect
    <2> QED BY <2>1, <2>2, <2>3, AppendDistinct
  <1>15. CASE UNCHANGED vars
    BY <1>15 DEF vars
  <1> QED
    BY <1>1, <1>2, <1>3, <1>4, <1>5, <1>6, <1>7, <1>8, <1>9, <1>10, <1>11,
       <1>12, <1>13, <1>14, <1>15
       DEF Next, Client, Remove

LEMMA OrderedStep ==
  ASSUME TypeOK, LockInv, RemovedInv, RecentInv, RecentlyCommittedIsOrdered,
           [Next]_vars
  PROVE  RecentlyCommittedIsOrdered'
  <1> USE DEF Goto, counters, lists, objects, session, remover,
              RecentlyCommittedIsOrdered
  <1>0. /\ recently_committed \in Seq(Tx)
        /\ commit_id \in [Tx -> Nat]
    BY DEF TypeOK, ManagerTypeOK, ObjectTypeOK, SessionTypeOK, RemoverTypeOK
  <1> USE <1>0
  <1>1. ASSUME NEW t \in Tx, StartTransaction(t) PROVE RecentlyCommittedIsOrdered'
    BY <1>1 DEF StartTransaction
  <1>2. ASSUME NEW t \in Tx, GetQueryNumber(t) PROVE RecentlyCommittedIsOrdered'
    BY <1>2 DEF GetQueryNumber
  <1>3. ASSUME NEW t \in Tx, SetActiveQuery(t) PROVE RecentlyCommittedIsOrdered'
    BY <1>3 DEF SetActiveQuery
  <1>4. ASSUME NEW t \in Tx, BeginStatement(t) PROVE RecentlyCommittedIsOrdered'
    BY <1>4 DEF BeginStatement
  <1>5. ASSUME NEW t \in Tx, BeginScan(t) PROVE RecentlyCommittedIsOrdered'
    BY <1>5 DEF BeginScan
  <1>6. ASSUME NEW t \in Tx, EndScan(t) PROVE RecentlyCommittedIsOrdered'
    BY <1>6 DEF EndScan
  <1>7. ASSUME NEW t \in Tx, PushTuple(t) PROVE RecentlyCommittedIsOrdered'
    BY <1>7 DEF PushTuple
  <1>8. ASSUME NEW t \in Tx, EndQuery(t) PROVE RecentlyCommittedIsOrdered'
    BY <1>8 DEF EndQuery
  <1>9. ASSUME NEW t \in Tx,
           CommitTransaction(t) PROVE RecentlyCommittedIsOrdered'
    <2>1. t \in active_transactions
      BY <1>9 DEF CommitTransaction, LockInv, Live, InQuery
    <2>2. \A i \in 1..Len(recently_committed) : recently_committed[i] # t
      BY <2>1 DEF RecentInv, Elements
    <2>3. /\ commit_id' = [commit_id EXCEPT ![t] = current_start_timestamp]
          /\ UNCHANGED recently_committed
      BY <1>9 DEF CommitTransaction
    <2> QED BY <2>2, <2>3
  <1>10. ASSUME NEW t \in Tx,
           RollbackTransaction(t) PROVE RecentlyCommittedIsOrdered'
    BY <1>10 DEF RollbackTransaction, Acquire
  <1>11. ASSUME NEW t \in Tx, VisitActive(t) PROVE RecentlyCommittedIsOrdered'
    BY <1>11 DEF VisitActive, Least
  <1>12. ASSUME NEW t \in Tx, MoveRemoved(t) PROVE RecentlyCommittedIsOrdered'
    <2>1. UNCHANGED commit_id /\ stage = "visit" /\ lock_holder = t
      BY <1>12 DEF MoveRemoved
    <2>2. CASE commit_id[t] = 0
      <3>1. UNCHANGED recently_committed
        BY <1>12, <2>2 DEF MoveRemoved
      <3> QED BY <2>1, <3>1
    <2>3. CASE commit_id[t] # 0
      <3>1. recently_committed' = Append(recently_committed, t)
        BY <1>12, <2>3 DEF MoveRemoved
      <3>2. \A i \in 1..Len(recently_committed) :
               commit_id[recently_committed[i]] < commit_id[t]
        BY <2>1, <2>3 DEF RemovedInv, Elements
      <3>3. /\ Len(recently_committed') = Len(recently_committed) + 1
            /\ recently_committed'[Len(recently_committed) + 1] = t
            /\ \A i \in 1..Len(recently_committed) :
                   recently_committed'[i] = recently_committed[i]
        BY <3>1
      <3>4. ASSUME NEW i \in 1..Len(recently_committed) + 1,
                   NEW j \in 1..Len(recently_committed) + 1, i < j
            PROVE  commit_id[recently_committed'[i]]
                       < commit_id[recently_committed'[j]]
        <4>1. i \in 1..Len(recently_committed)
          BY <3>4
        <4>2. CASE j = Len(recently_committed) + 1
          BY <3>2, <3>3, <4>1, <4>2
        <4>3. CASE j \in 1..Len(recently_committed)
          BY <3>3, <3>4, <4>1, <4>3
        <4> QED BY <4>2, <4>3
      <3> QED BY <2>1, <3>3, <3>4
    <2> QED BY <2>2, <2>3
  <1>13. ASSUME NEW t \in Tx, FreeOld(t) PROVE RecentlyCommittedIsOrdered'
    BY <1>13 DEF FreeOld
  <1>14. ASSUME CleanupHead PROVE RecentlyCommittedIsOrdered'
    <2>1. /\ recently_committed # << >>
          /\ recently_committed' = Tail(recently_committed)
          /\ UNCHANGED commit_id
      BY <1>14, CleanupEffect, CleanupElements
    <2>2. /\ Len(recently_committed') = Len(recently_committed) - 1
          /\ \A i \in 1..Len(recently_committed) - 1 :
                 recently_committed'[i] = recently_committed[i + 1]
                 /\ i + 1 \in 1..Len(recently_committed)
      BY <2>1
    <2> QED BY <2>1, <2>2
  <1>15. CASE UNCHANGED vars
    BY <1>15 DEF vars
  <1> QED
    BY <1>1, <1>2, <1>3, <1>4, <1>5, <1>6, <1>7, <1>8, <1>9, <1>10, <1>11,
       <1>12, <1>13, <1>14, <1>15
       DEF Next, Client, Remove

-----------------------------------------------------------------------------
(* What the remover knows, and what follows for readers. *)

LEMMA BoundsStep ==
  ASSUME TypeOK, LockInv, BoundsInv, [Next]_vars
  PROVE  BoundsInv'
  <1> USE NoTxAssumption, TransactionIdStartAssumption DEF Goto, counters,
                                                           lists, objects,
                                                           session, remover,
                                                           BoundsInv
  <1>0. /\ active_transactions \subseteq Tx
        /\ start_time \in [Tx -> Nat]
        /\ active_query \in [Tx -> Nat]
        /\ lowest_start_time \in Nat
        /\ lowest_active_query \in Nat
    BY MaximumQueryIdAssumption DEF TypeOK, ManagerTypeOK, ObjectTypeOK,
           SessionTypeOK, RemoverTypeOK
  <1> USE <1>0
  <1>1. ASSUME NEW t \in Tx, StartTransaction(t) PROVE BoundsInv'
    BY <1>1 DEF StartTransaction, LockInv
  <1>2. ASSUME NEW t \in Tx, GetQueryNumber(t) PROVE BoundsInv'
    BY <1>2 DEF GetQueryNumber
  <1>3. ASSUME NEW t \in Tx, SetActiveQuery(t) PROVE BoundsInv'
    <2>1. stage # "free" /\ t \notin unvisited => t \in late'
      BY <1>3 DEF SetActiveQuery, LockInv
    <2>2. /\ active_query' = [active_query EXCEPT ![t] = query_number[t]]
          /\ \A u \in late : u \in late'
          /\ UNCHANGED <<active_transactions, unvisited, lock_holder, stage,
                         lowest_start_time, lowest_active_query, start_time>>
      BY <1>3 DEF SetActiveQuery
    <2> QED BY <2>1, <2>2
  <1>4. ASSUME NEW t \in Tx, BeginStatement(t) PROVE BoundsInv'
    BY <1>4 DEF BeginStatement
  <1>5. ASSUME NEW t \in Tx, BeginScan(t) PROVE BoundsInv'
    BY <1>5 DEF BeginScan
  <1>6. ASSUME NEW t \in Tx, EndScan(t) PROVE BoundsInv'
    BY <1>6 DEF EndScan
  <1>7. ASSUME NEW t \in Tx, PushTuple(t) PROVE BoundsInv'
    BY <1>7 DEF PushTuple
  <1>8. ASSUME NEW t \in Tx, EndQuery(t) PROVE BoundsInv'
    <2>1. /\ active_query' = [active_query EXCEPT ![t] = MaximumQueryId]
          /\ late' = late \ {t}
          /\ UNCHANGED <<active_transactions, unvisited, lock_holder, stage,
                         lowest_start_time, lowest_active_query, start_time>>
      BY <1>8 DEF EndQuery
    <2>2. lowest_active_query <= MaximumQueryId
      BY MaximumQueryIdAssumption DEF TypeOK, RemoverTypeOK
    <2> QED BY <2>1, <2>2
  <1>9. ASSUME NEW t \in Tx, CommitTransaction(t) PROVE BoundsInv'
    <2>1. /\ unvisited' = active_transactions
          /\ lowest_start_time' = TransactionIdStart
          /\ UNCHANGED active_transactions
      BY <1>9 DEF CommitTransaction, Acquire
    <2> QED BY <2>1
  <1>10. ASSUME NEW t \in Tx, RollbackTransaction(t) PROVE BoundsInv'
    <2>1. /\ unvisited' = active_transactions
          /\ lowest_start_time' = TransactionIdStart
          /\ UNCHANGED active_transactions
      BY <1>10 DEF RollbackTransaction, Acquire
    <2> QED BY <2>1
  <1>11. ASSUME NEW t \in Tx, VisitActive(t) PROVE BoundsInv'
    <2>1. /\ stage = "visit"
          /\ t \in unvisited
          /\ t \in active_transactions
          /\ unvisited' = unvisited \ {t}
          /\ UNCHANGED <<active_transactions, lock_holder, stage, start_time,
                   late,
                         active_query>>
      BY <1>11 DEF VisitActive, LockInv
    <2>2. CASE t = lock_holder
      <3>1. UNCHANGED <<lowest_start_time, lowest_active_query>>
        BY <1>11, <2>2 DEF VisitActive
      <3> QED BY <2>1, <2>2, <3>1
    <2>3. CASE t # lock_holder
      <3>1. /\ lowest_start_time' = Least(lowest_start_time, start_time[t])
            /\ lowest_active_query' = Least(lowest_active_query, active_query[t])
        BY <1>11, <2>3 DEF VisitActive
      <3>2. /\ lowest_start_time' <= lowest_start_time
            /\ lowest_start_time' <= start_time[t]
            /\ lowest_active_query' <= lowest_active_query
            /\ lowest_active_query' <= active_query[t]
            /\ lowest_start_time' \in Nat
            /\ lowest_active_query' \in Nat
        BY <3>1 DEF Least
      <3>3. ASSUME NEW u \in active_transactions \ (unvisited' \cup {lock_holder})
            PROVE  /\ lowest_start_time' <= start_time[u]
                   /\ u \notin late => lowest_active_query' <= active_query[u]
        <4>1. CASE u = t
          BY <3>2, <4>1
        <4>2. CASE u # t
          BY <2>1, <3>2, <4>2
        <4> QED BY <4>1, <4>2
      <3>4. t \in active_transactions \ unvisited' /\ t \notin {lock_holder'}
        BY <2>1, <2>3
      <3> QED BY <2>1, <3>3, <3>4
    <2> QED BY <2>2, <2>3
  <1>12. ASSUME NEW t \in Tx, MoveRemoved(t) PROVE BoundsInv'
    <2>1. /\ active_transactions' = active_transactions \ {t}
          /\ stage = "visit" /\ lock_holder = t /\ unvisited = {}
          /\ UNCHANGED <<unvisited, lock_holder, start_time, late, active_query,
                         lowest_start_time, lowest_active_query>>
      BY <1>12 DEF MoveRemoved
    <2> QED BY <2>1
  <1>13. ASSUME NEW t \in Tx, FreeOld(t) PROVE BoundsInv'
    BY <1>13 DEF FreeOld, CanClean
  <1>14. ASSUME CleanupHead PROVE BoundsInv'
    <2>1. /\ stage = "clean"
          /\ UNCHANGED <<active_transactions, start_time, session, remover>>
      BY <1>14 DEF CleanupHead
    <2> QED BY <2>1
  <1>15. CASE UNCHANGED vars
    BY <1>15 DEF vars
  <1> QED
    BY <1>1, <1>2, <1>3, <1>4, <1>5, <1>6, <1>7, <1>8, <1>9, <1>10, <1>11,
       <1>12, <1>13, <1>14, <1>15
       DEF Next, Client, Remove

LEMMA CleanedStep ==
  ASSUME TypeOK, LockInv, TimeInv, UnfinishedInv, OldInv, BoundsInv,
           CleanedBehindEveryReader, [Next]_vars
  PROVE  CleanedBehindEveryReader'
  <1> USE DEF Goto, counters, lists, objects, session, remover,
              CleanedBehindEveryReader
  <1>0. /\ active_transactions \subseteq Tx
        /\ start_time \in [Tx -> Nat]
        /\ commit_id \in [Tx -> Nat]
        /\ undo \in [Tx -> UndoStates]
        /\ current_start_timestamp \in Nat
        /\ lowest_start_time \in Nat
    BY DEF TypeOK, ManagerTypeOK, ObjectTypeOK, SessionTypeOK, RemoverTypeOK
  <1> USE <1>0
  <1>1. ASSUME NEW t \in Tx, StartTransaction(t) PROVE CleanedBehindEveryReader'
    <2>1. /\ start_time' = [start_time EXCEPT ![t] = current_start_timestamp]
          /\ active_transactions' = active_transactions \cup {t}
          /\ UNCHANGED <<commit_id, undo>>
      BY <1>1 DEF StartTransaction
    <2> QED BY <2>1 DEF TimeInv
  <1>2. ASSUME NEW t \in Tx, GetQueryNumber(t) PROVE CleanedBehindEveryReader'
    BY <1>2 DEF GetQueryNumber
  <1>3. ASSUME NEW t \in Tx, SetActiveQuery(t) PROVE CleanedBehindEveryReader'
    BY <1>3 DEF SetActiveQuery
  <1>4. ASSUME NEW t \in Tx, BeginStatement(t) PROVE CleanedBehindEveryReader'
    BY <1>4 DEF BeginStatement
  <1>5. ASSUME NEW t \in Tx, BeginScan(t) PROVE CleanedBehindEveryReader'
    BY <1>5 DEF BeginScan
  <1>6. ASSUME NEW t \in Tx, EndScan(t) PROVE CleanedBehindEveryReader'
    BY <1>6 DEF EndScan
  <1>7. ASSUME NEW t \in Tx, PushTuple(t) PROVE CleanedBehindEveryReader'
    BY <1>7 DEF PushTuple
  <1>8. ASSUME NEW t \in Tx, EndQuery(t) PROVE CleanedBehindEveryReader'
    BY <1>8 DEF EndQuery
  <1>9. ASSUME NEW t \in Tx, CommitTransaction(t) PROVE CleanedBehindEveryReader'
    <2>1. undo[t] \in {"empty", "linked"}
      BY <1>9 DEF CommitTransaction, UnfinishedInv, Live, InQuery
    <2>2. /\ commit_id' = [commit_id EXCEPT ![t] = current_start_timestamp]
          /\ UNCHANGED <<active_transactions, start_time, undo>>
      BY <1>9 DEF CommitTransaction
    <2> QED BY <2>1, <2>2
  <1>10. ASSUME NEW t \in Tx,
           RollbackTransaction(t) PROVE CleanedBehindEveryReader'
    <2>1. commit_id[t] = 0
      BY <1>10 DEF RollbackTransaction, UnfinishedInv, Live, InQuery
    <2>2. /\ undo' = [undo EXCEPT ![t] = "unlinked"]
          /\ UNCHANGED <<active_transactions, start_time, commit_id>>
      BY <1>10 DEF RollbackTransaction
    <2> QED BY <2>1, <2>2
  <1>11. ASSUME NEW t \in Tx, VisitActive(t) PROVE CleanedBehindEveryReader'
    BY <1>11 DEF VisitActive, Least
  <1>12. ASSUME NEW t \in Tx, MoveRemoved(t) PROVE CleanedBehindEveryReader'
    BY <1>12 DEF MoveRemoved
  <1>13. ASSUME NEW t \in Tx, FreeOld(t) PROVE CleanedBehindEveryReader'
    <2>1. UNCHANGED <<active_transactions, start_time, commit_id>>
      BY <1>13 DEF FreeOld
    <2>2. ASSUME NEW u \in Tx, undo'[u] \in {"unlinked", "freed"}
          PROVE  undo[u] \in {"unlinked", "freed"}
      BY <1>13, <2>2, FreeOldKeeps DEF OldInv
    <2> QED BY <2>1, <2>2
  <1>14. ASSUME CleanupHead PROVE CleanedBehindEveryReader'
    <2>1. PICK u \in Tx : u = Head(recently_committed)
      BY <1>14, CleanupElements
    <2>2. /\ stage = "clean"
          /\ commit_id[u] < lowest_start_time
          /\ undo' = [undo EXCEPT ![u] = "unlinked"]
          /\ UNCHANGED <<active_transactions, start_time, commit_id>>
      BY <1>14, <2>1, CleanupEffect
    <2>3. ASSUME NEW v \in active_transactions
          PROVE  lowest_start_time <= start_time[v]
      <3>1. v \in Tx /\ v \notin unvisited /\ v # lock_holder
        BY <2>2 DEF LockInv
      <3> QED BY <2>2, <3>1 DEF BoundsInv
    <2>4. ASSUME NEW v \in active_transactions PROVE commit_id[u] < start_time[v]
      <3>1. v \in Tx
        OBVIOUS
      <3> QED BY <2>2, <2>3, <3>1
    <2> QED BY <2>2, <2>4
  <1>15. CASE UNCHANGED vars
    BY <1>15 DEF vars
  <1> QED
    BY <1>1, <1>2, <1>3, <1>4, <1>5, <1>6, <1>7, <1>8, <1>9, <1>10, <1>11,
       <1>12, <1>13, <1>14, <1>15
       DEF Next, Client, Remove

LEMMA QuiescentStep ==
  ASSUME TypeOK, LockInv, TimeInv, BoundsInv, QuiescentMeansCollected, [Next]_vars
  PROVE  QuiescentMeansCollected'
  <1> USE NoTxAssumption, TransactionIdStartAssumption DEF Goto, counters,
                                                           lists, objects,
                                                           session, remover,
                                                           QuiescentMeansCollected
  <1>0. /\ current_start_timestamp \in Nat
        /\ commit_id \in [Tx -> Nat]
        /\ recently_committed \in Seq(Tx)
        /\ old_transactions \in Seq(Tx)
        /\ active_transactions \subseteq Tx
    BY DEF TypeOK, ManagerTypeOK, ObjectTypeOK, SessionTypeOK, RemoverTypeOK
  <1> USE <1>0
  <1>1. ASSUME NEW t \in Tx, StartTransaction(t) PROVE QuiescentMeansCollected'
    <2>1. t \in active_transactions'
      BY <1>1 DEF StartTransaction
    <2> QED BY <2>1
  <1>2. ASSUME NEW t \in Tx, GetQueryNumber(t) PROVE QuiescentMeansCollected'
    BY <1>2 DEF GetQueryNumber
  <1>3. ASSUME NEW t \in Tx, SetActiveQuery(t) PROVE QuiescentMeansCollected'
    BY <1>3 DEF SetActiveQuery
  <1>4. ASSUME NEW t \in Tx, BeginStatement(t) PROVE QuiescentMeansCollected'
    BY <1>4 DEF BeginStatement
  <1>5. ASSUME NEW t \in Tx, BeginScan(t) PROVE QuiescentMeansCollected'
    BY <1>5 DEF BeginScan
  <1>6. ASSUME NEW t \in Tx, EndScan(t) PROVE QuiescentMeansCollected'
    BY <1>6 DEF EndScan
  <1>7. ASSUME NEW t \in Tx, PushTuple(t) PROVE QuiescentMeansCollected'
    BY <1>7 DEF PushTuple
  <1>8. ASSUME NEW t \in Tx, EndQuery(t) PROVE QuiescentMeansCollected'
    BY <1>8 DEF EndQuery
  <1>9. ASSUME NEW t \in Tx, CommitTransaction(t) PROVE QuiescentMeansCollected'
    <2>1. lock_holder' = t
      BY <1>9 DEF CommitTransaction, Acquire
    <2> QED BY <2>1
  <1>10. ASSUME NEW t \in Tx,
           RollbackTransaction(t) PROVE QuiescentMeansCollected'
    <2>1. lock_holder' = t
      BY <1>10 DEF RollbackTransaction, Acquire
    <2> QED BY <2>1
  <1>11. ASSUME NEW t \in Tx, VisitActive(t) PROVE QuiescentMeansCollected'
    BY <1>11 DEF VisitActive, Least
  <1>12. ASSUME NEW t \in Tx, MoveRemoved(t) PROVE QuiescentMeansCollected'
    <2>1. lock_holder' = t
      BY <1>12 DEF MoveRemoved
    <2> QED BY <2>1
  <1>13. ASSUME NEW t \in Tx, FreeOld(t) PROVE QuiescentMeansCollected'
    <2> SUFFICES ASSUME active_transactions' = {},
                        current_start_timestamp' <= TransactionIdStart
                 PROVE  /\ recently_committed' = << >>
                        /\ old_transactions' = << >>
      OBVIOUS
    <2>1. /\ stage = "clean" /\ ~CanClean
          /\ UNCHANGED <<active_transactions, current_start_timestamp,
                         recently_committed, commit_id>>
      BY <1>13 DEF FreeOld
    <2>2. lowest_start_time = TransactionIdStart
      BY <2>1 DEF BoundsInv
    <2>3. recently_committed = << >>
      <3>1. SUFFICES ASSUME recently_committed # << >> PROVE FALSE
        OBVIOUS
      <3>2. Head(recently_committed) \in Tx
        BY <3>1
      <3>3. commit_id[Head(recently_committed)] < TransactionIdStart
        BY <2>1, <3>2 DEF TimeInv
      <3> QED BY <2>1, <2>2, <3>1, <3>3 DEF CanClean
    <2>4. PICK n \in 0..Len(old_transactions) :
             /\ Freeable(n)
             /\ old_transactions' =
                    SubSeq(old_transactions, n + 1, Len(old_transactions))
      BY <1>13, FreeOldEffect
    <2>5. n = Len(old_transactions)
      BY <2>1, <2>4 DEF Freeable
    <2>6. old_transactions' = << >>
      BY <2>4, <2>5, SubSeqEmpty
    <2> QED BY <2>1, <2>3, <2>6
  <1>14. ASSUME CleanupHead PROVE QuiescentMeansCollected'
    <2>1. stage = "clean" /\ UNCHANGED lock_holder
      BY <1>14 DEF CleanupHead
    <2> QED BY <2>1 DEF LockInv
  <1>15. CASE UNCHANGED vars
    BY <1>15 DEF vars
  <1> QED
    BY <1>1, <1>2, <1>3, <1>4, <1>5, <1>6, <1>7, <1>8, <1>9, <1>10, <1>11,
       <1>12, <1>13, <1>14, <1>15
       DEF Next, Client, Remove

\* What FreeOld frees cannot be held by a scan whose query registered in time.
LEMMA FreedIsNotHeld ==
  ASSUME TypeOK, LockInv, OldInv, BoundsInv, HoldingInv,
         NEW t \in Tx, FreeOld(t),
         NEW q \in Tx \ late, NEW u \in holding[q]
  PROVE  undo'[u] = undo[u]
  <1>1. PICK n \in 0..Len(old_transactions) :
            /\ Freeable(n)
            /\ undo' = [v \in Tx |->
                          IF \E i \in 1..n : old_transactions[i] = v
                          THEN "freed" ELSE undo[v]]
    BY FreeOldEffect
  <1>2. u \in Tx
    BY DEF TypeOK, SessionTypeOK
  <1>3. SUFFICES ASSUME NEW i \in 1..n, old_transactions[i] = u PROVE FALSE
    BY <1>1, <1>2
  <1>4. u \in Elements(old_transactions)
    <2>1. i \in 1..Len(old_transactions)
      BY DEF TypeOK, ManagerTypeOK
    <2> QED BY <1>3, <2>1 DEF Elements
  <1>5. phase[q] = "scanning"
    BY DEF HoldingInv
  <1>6. /\ q \in active_transactions
        /\ q # lock_holder
        /\ unvisited = {}
        /\ stage = "clean"
    BY <1>5 DEF LockInv, Live, InQuery, FreeOld
  <1>7. lowest_active_query <= query_number[q]
    <2>1. lowest_active_query <= active_query[q]
      BY <1>6 DEF BoundsInv
    <2>2. active_query[q] = query_number[q]
      BY <1>5 DEF HoldingInv, InQuery
    <2> QED BY <2>1, <2>2
  <1>8. query_number[q] < highest_active_query[u]
    BY <1>4 DEF HoldingInv, OldInv
  <1>9. highest_active_query[u] < lowest_active_query
    BY <1>1, <1>3, <1>6 DEF Freeable, Unreachable
  <1>10. /\ query_number[q] \in Nat
         /\ highest_active_query[u] \in Nat
         /\ lowest_active_query \in Nat
    BY <1>2, MaximumQueryIdAssumption
       DEF TypeOK, SessionTypeOK, ObjectTypeOK, RemoverTypeOK
  <1> QED BY <1>7, <1>8, <1>9, <1>10

LEMMA HoldingStep ==
  ASSUME TypeOK, LockInv, UnfinishedInv, RecentInv, OldInv, BoundsInv,
           HoldingInv, [Next]_vars
  PROVE  HoldingInv'
  <1> USE DEF Goto, counters, lists, objects, session, remover, HoldingInv,
              InQuery
  <1>0. /\ active_transactions \subseteq Tx
        /\ active_query \in [Tx -> Nat]
        /\ query_number \in [Tx -> Nat]
        /\ current_query_number \in Nat
        /\ highest_active_query \in [Tx -> Nat]
        /\ holding \in [Tx -> SUBSET Tx]
        /\ undo \in [Tx -> UndoStates]
        /\ phase \in [Tx -> Phases]
        /\ old_transactions \in Seq(Tx)
        /\ late \subseteq Tx
        /\ commit_id \in [Tx -> Nat]
    BY MaximumQueryIdAssumption DEF TypeOK, ManagerTypeOK, ObjectTypeOK,
           SessionTypeOK, RemoverTypeOK
  <1> USE <1>0
  <1>1. ASSUME NEW t \in Tx, StartTransaction(t) PROVE HoldingInv'
    BY <1>1 DEF StartTransaction
  <1>2. ASSUME NEW t \in Tx, GetQueryNumber(t) PROVE HoldingInv'
    <2>1. /\ phase[t] \in {"started", "between"}
          /\ phase' = [phase EXCEPT ![t] = "numbered"]
          /\ query_number' = [query_number EXCEPT ![t] = current_query_number]
          /\ current_query_number' = current_query_number + 1
          /\ UNCHANGED <<active_query, holding, late, undo, old_transactions,
                         highest_active_query>>
      BY <1>2 DEF GetQueryNumber
    <2>2. holding[t] = {}
      BY <2>1
    <2> QED BY <2>1, <2>2
  <1>3. ASSUME NEW t \in Tx, SetActiveQuery(t) PROVE HoldingInv'
    <2>1. /\ phase[t] = "numbered"
          /\ phase' = [phase EXCEPT ![t] = "planning"]
          /\ active_query' = [active_query EXCEPT ![t] = query_number[t]]
          /\ \A u \in late : u \in late'
          /\ UNCHANGED <<query_number, current_query_number, holding, undo,
                         old_transactions, highest_active_query>>
      BY <1>3 DEF SetActiveQuery
    <2>2. holding[t] = {}
      BY <2>1
    <2> QED BY <2>1, <2>2
  <1>4. ASSUME NEW t \in Tx, BeginStatement(t) PROVE HoldingInv'
    BY <1>4 DEF BeginStatement
  <1>5. ASSUME NEW t \in Tx, BeginScan(t) PROVE HoldingInv'
    <2>1. /\ phase[t] \in {"planning", "executing"}
          /\ phase' = [phase EXCEPT ![t] = "scanning"]
          /\ holding' = [holding EXCEPT ![t] = {u \in Tx : undo[u] = "linked"}]
          /\ UNCHANGED <<query_number, current_query_number, active_query, late,
                         undo, old_transactions, highest_active_query>>
      BY <1>5 DEF BeginScan
    <2> QED BY <2>1
  <1>6. ASSUME NEW t \in Tx, EndScan(t) PROVE HoldingInv'
    BY <1>6 DEF EndScan
  <1>7. ASSUME NEW t \in Tx, PushTuple(t) PROVE HoldingInv'
    BY <1>7 DEF PushTuple
  <1>8. ASSUME NEW t \in Tx, EndQuery(t) PROVE HoldingInv'
    <2>1. /\ phase[t] \in {"planning", "executing", "executed"}
          /\ phase' = [phase EXCEPT ![t] = "between"]
          /\ active_query' = [active_query EXCEPT ![t] = MaximumQueryId]
          /\ late' = late \ {t}
          /\ UNCHANGED <<query_number, current_query_number, holding, undo,
                         old_transactions, highest_active_query>>
      BY <1>8 DEF EndQuery
    <2>2. holding[t] = {}
      BY <2>1
    <2> QED BY <2>1, <2>2
  <1>9. ASSUME NEW t \in Tx, CommitTransaction(t) PROVE HoldingInv'
    <2>1. /\ phase[t] \in {"planning", "between"}
          /\ phase' = [phase EXCEPT ![t] = "removing"]
          /\ late' = late \ {t}
          /\ UNCHANGED <<query_number, current_query_number, active_query,
                   holding,
                         undo, old_transactions, highest_active_query>>
      BY <1>9 DEF CommitTransaction, Acquire
    <2>2. holding[t] = {}
      BY <2>1
    <2> QED BY <2>1, <2>2
  <1>10. ASSUME NEW t \in Tx, RollbackTransaction(t) PROVE HoldingInv'
    <2>1. /\ phase[t] \in {"planning", "between"}
          /\ phase' = [phase EXCEPT ![t] = "removing"]
          /\ undo' = [undo EXCEPT ![t] = "unlinked"]
          /\ late' = late \ {t}
          /\ UNCHANGED <<query_number, current_query_number, active_query,
                   holding,
                         old_transactions, highest_active_query>>
      BY <1>10 DEF RollbackTransaction, Acquire
    <2>2. holding[t] = {}
      BY <2>1
    <2>3. t \notin Elements(old_transactions)
      BY <2>1 DEF OldInv
    <2> QED BY <2>1, <2>2, <2>3
  <1>11. ASSUME NEW t \in Tx, VisitActive(t) PROVE HoldingInv'
    BY <1>11 DEF VisitActive, Least
  <1>12. ASSUME NEW t \in Tx, MoveRemoved(t) PROVE HoldingInv'
    <2>1. UNCHANGED <<undo, session>>
      BY <1>12 DEF MoveRemoved
    <2>2. CASE commit_id[t] # 0
      <3>1. UNCHANGED <<old_transactions, highest_active_query>>
        BY <1>12, <2>2 DEF MoveRemoved
      <3> QED BY <2>1, <3>1
    <2>3. CASE commit_id[t] = 0
      <3>1. /\ highest_active_query' =
                   [highest_active_query EXCEPT ![t] = current_query_number]
            /\ old_transactions' = Append(old_transactions, t)
        BY <1>12, <2>3 DEF MoveRemoved
      <3>2. Elements(old_transactions)' = Elements(old_transactions) \cup {t}
        BY <3>1, ElementsAppend
      <3>3. ASSUME NEW q \in Tx \ late, NEW u \in holding[q]
            PROVE  \/ undo[u] = "linked"
                   \/ /\ undo[u] = "unlinked"
                      /\ u \in Elements(old_transactions)' =>
                             query_number[q] < highest_active_query'[u]
        <4>1. u \in Tx /\ query_number[q] < current_query_number
          BY <3>3
        <4>2. CASE u = t
          BY <3>1, <4>1, <4>2
        <4>3. CASE u # t
          BY <3>1, <3>2, <4>1, <4>3
        <4> QED BY <4>2, <4>3
      <3> QED BY <2>1, <3>3
    <2> QED BY <2>2, <2>3
  <1>13. ASSUME NEW t \in Tx, FreeOld(t) PROVE HoldingInv'
    <2>1. /\ phase[t] = "removing"
          /\ phase' = [phase EXCEPT ![t] = "done"]
          /\ UNCHANGED <<query_number, current_query_number, active_query,
                   holding,
                         late, highest_active_query>>
      BY <1>13 DEF FreeOld, LockInv
    <2>2. \A u \in Elements(old_transactions)' : u \in Elements(old_transactions)
      BY <1>13, FreeOldKeeps
    <2>3. ASSUME NEW q \in Tx \ late, NEW u \in holding[q]
          PROVE  undo'[u] = undo[u]
      BY <1>13, FreedIsNotHeld
    <2> QED BY <2>1, <2>2, <2>3
  <1>14. ASSUME CleanupHead PROVE HoldingInv'
    <2>1. PICK u \in Tx :
             /\ u = Head(recently_committed)
             /\ Elements(old_transactions)' = Elements(old_transactions) \cup {u}
      BY <1>14, CleanupElements
    <2>2. /\ undo' = [undo EXCEPT ![u] = "unlinked"]
          /\ highest_active_query' =
                 [highest_active_query EXCEPT ![u] = current_query_number]
          /\ UNCHANGED session
      BY <1>14, <2>1, CleanupEffect
    <2>3. ASSUME NEW q \in Tx \ late, NEW v \in holding[q]
          PROVE  \/ undo'[v] = "linked"
                 \/ /\ undo'[v] = "unlinked"
                    /\ v \in Elements(old_transactions)' =>
                           query_number[q] < highest_active_query'[v]
      <3>1. v \in Tx /\ query_number[q] < current_query_number
        BY <2>3
      <3>2. CASE v = u
        BY <2>2, <3>1, <3>2
      <3>3. CASE v # u
        BY <2>1, <2>2, <3>1, <3>3
      <3> QED BY <3>2, <3>3
    <2> QED BY <2>2, <2>3
  <1>15. CASE UNCHANGED vars
    BY <1>15 DEF vars
  <1> QED
    BY <1>1, <1>2, <1>3, <1>4, <1>5, <1>6, <1>7, <1>8, <1>9, <1>10, <1>11,
       <1>12, <1>13, <1>14, <1>15
       DEF Next, Client, Remove

-----------------------------------------------------------------------------
(* The invariant as a whole, and the properties it implies. *)

LEMMA InvInit == Init => IInv
  <1> SUFFICES ASSUME Init PROVE IInv
    OBVIOUS
  <1>1. TypeOK
    BY TypeInit
  <1>2. Elements(recently_committed) = {} /\ Elements(old_transactions) = {}
    BY DEF Init, Elements
  <1>3. LockInv /\ TimeInv /\ UnfinishedInv /\ RemovedInv
    BY NoTxAssumption DEF Init, LockInv, TimeInv, UnfinishedInv, RemovedInv,
                          Live, InQuery
  <1>4. RecentInv /\ OldInv /\ BoundsInv
    BY <1>2 DEF Init, RecentInv, OldInv, BoundsInv
  <1>5. HoldingInv
    BY DEF Init, HoldingInv, InQuery
  <1>6. OldIsDistinct /\ RecentlyCommittedIsOrdered
    BY DEF Init, OldIsDistinct, RecentlyCommittedIsOrdered
  <1>7. CleanedBehindEveryReader /\ QuiescentMeansCollected
    BY DEF Init, CleanedBehindEveryReader, QuiescentMeansCollected
  <1> QED
    BY <1>1, <1>3, <1>4, <1>5, <1>6, <1>7 DEF IInv

LEMMA InvStep == IInv /\ [Next]_vars => IInv'
  <1> SUFFICES ASSUME IInv, [Next]_vars PROVE IInv'
    OBVIOUS
  <1> USE DEF IInv
  <1>1. TypeOK' /\ LockInv' /\ TimeInv'
    BY TypeStep, LockStep, TimeStep
  <1>2. UnfinishedInv' /\ RemovedInv' /\ RecentInv' /\ OldInv'
    BY UnfinishedStep, RemovedStep, RecentStep, OldStep
  <1>3. BoundsInv' /\ HoldingInv'
    BY BoundsStep, HoldingStep
  <1>4. OldIsDistinct' /\ RecentlyCommittedIsOrdered'
    BY OldDistinctStep, OrderedStep
  <1>5. CleanedBehindEveryReader' /\ QuiescentMeansCollected'
    BY CleanedStep, QuiescentStep
  <1> QED BY <1>1, <1>2, <1>3, <1>4, <1>5

\* The invariant is inductive: it holds in every reachable state.
THEOREM InvCorrect == Spec => []IInv
  BY InvInit, InvStep, PTL DEF Spec

\* Cleanup never unlinks a commit that an active transaction does not see.
THEOREM CleanedBehindEveryReaderCorrect == Spec => []CleanedBehindEveryReader
  <1>1. IInv => CleanedBehindEveryReader
    BY DEF IInv
  <1> QED BY <1>1, InvCorrect, PTL

\* The garbage collector never frees what a registered query may dereference.
THEOREM RegisteredReadersSafeCorrect == Spec => []RegisteredReadersSafe
  <1>1. IInv => RegisteredReadersSafe
    BY DEF IInv, HoldingInv, RegisteredReadersSafe
  <1> QED BY <1>1, InvCorrect, PTL

\* recently_committed_transactions is ordered on commit_id, as its loop assumes.
THEOREM RecentlyCommittedIsOrderedCorrect == Spec => []RecentlyCommittedIsOrdered
  <1>1. IInv => RecentlyCommittedIsOrdered
    BY DEF IInv
  <1> QED BY <1>1, InvCorrect, PTL

\* An idle transaction manager keeps no finished transaction.
THEOREM QuiescentMeansCollectedCorrect == Spec => []QuiescentMeansCollected
  <1>1. IInv => QuiescentMeansCollected
    BY DEF IInv
  <1> QED BY <1>1, InvCorrect, PTL

LEMMA UnlinkedFirst ==
  ASSUME TypeOK, OldInv, [Next]_vars, NEW u \in Tx, undo[u] = "linked"
  PROVE  undo'[u] # "freed"
  <1> USE DEF counters, lists, objects, session, remover
  <1>0. undo \in [Tx -> UndoStates]
    BY DEF TypeOK, ObjectTypeOK
  <1>1. ASSUME NEW t \in Tx, PushTuple(t) PROVE undo'[u] # "freed"
    BY <1>0, <1>1 DEF PushTuple
  <1>2. ASSUME NEW t \in Tx, RollbackTransaction(t) PROVE undo'[u] # "freed"
    BY <1>0, <1>2 DEF RollbackTransaction
  <1>3. ASSUME NEW t \in Tx, FreeOld(t) PROVE undo'[u] # "freed"
    BY <1>3, FreeOldKeeps DEF OldInv
  <1>4. ASSUME CleanupHead PROVE undo'[u] # "freed"
    <2>1. undo' = [undo EXCEPT ![Head(recently_committed)] = "unlinked"]
      BY <1>4 DEF CleanupHead
    <2> QED BY <1>0, <2>1
  <1>5. ASSUME NEW t \in Tx,
               \/ StartTransaction(t) \/ GetQueryNumber(t) \/ SetActiveQuery(t)
               \/ BeginStatement(t) \/ BeginScan(t) \/ EndScan(t) \/ EndQuery(t)
               \/ CommitTransaction(t) \/ VisitActive(t) \/ MoveRemoved(t)
        PROVE  undo'[u] # "freed"
    BY <1>5 DEF StartTransaction, GetQueryNumber, SetActiveQuery, BeginStatement,
                BeginScan, EndScan, EndQuery, CommitTransaction, VisitActive,
                MoveRemoved
  <1>6. CASE UNCHANGED vars
    BY <1>6 DEF vars
  <1> QED
    BY <1>1, <1>2, <1>3, <1>4, <1>5, <1>6 DEF Next, Client, Remove

\* Memory is freed only after its versions have left the tables.
THEOREM FreedOnlyAfterUnlinkingCorrect == Spec => FreedOnlyAfterUnlinking
  <1>1. IInv /\ [Next]_vars =>
            [\A u \in Tx : undo[u] = "linked" => undo'[u] # "freed"]_vars
    BY UnlinkedFirst DEF IInv
  <1> QED BY <1>1, InvCorrect, PTL DEF Spec, FreedOnlyAfterUnlinking
=============================================================================
