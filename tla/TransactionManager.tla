------------------------- MODULE TransactionManager -------------------------
(***************************************************************************)
(* The transaction manager, with the part of a connection that talks to    *)
(* it: timestamps, the three lists a transaction object travels through    *)
(* (active, recently committed, old), the unsynchronised registration of   *)
(* running queries, and the garbage collection that decides when the undo  *)
(* buffer of a finished transaction is cleaned up and when it is freed.    *)
(*                                                                         *)
(* A member of Tx is a transaction object together with the connection     *)
(* that runs it.  Its undo buffer is one value: the versions in it are     *)
(* linked into the tables, unlinked, or their memory is freed.  Which      *)
(* version a row shows is the business of module DataTable.                *)
(***************************************************************************)
EXTENDS Naturals, Sequences

CONSTANTS
    Tx,                 \* the transaction objects the run creates
    NoTx,               \* "nobody holds transaction_lock"
    TransactionIdStart, \* TRANSACTION_ID_START, 2^32 in the code
    MaximumQueryId      \* MAXIMUM_QUERY_ID, the largest transaction_t

ASSUME NoTxAssumption == NoTx \notin Tx
ASSUME TransactionIdStartAssumption == TransactionIdStart \in Nat \ {0, 1, 2}
ASSUME MaximumQueryIdAssumption == MaximumQueryId \in Nat \ {0, 1}

VARIABLES
    current_start_timestamp,    \* members of TransactionManager
    current_transaction_id,
    current_query_number,
    active_transactions,        \* a set: the vector's order is never used
    recently_committed,
    old_transactions,
    start_time,                 \* members of Transaction
    transaction_id,
    commit_id,
    highest_active_query,
    active_query,
    undo,           \* where the versions of the undo buffer are
    auto_commit,    \* TransactionContext::auto_commit of t's connection
    phase,          \* how far t's connection is
    query_number,   \* result of GetQueryNumber before it is stored
    holding,        \* transactions whose versions a running scan may hold
    lock_holder,    \* transaction_lock
    stage,          \* locals and program counter of RemoveTransaction
    unvisited,
    lowest_start_time,
    lowest_active_query,
    late            \* history: queries registered behind the remover's loop

counters == <<current_start_timestamp, current_transaction_id>>
lists    == <<active_transactions, recently_committed, old_transactions>>
objects  == <<start_time, transaction_id, commit_id, highest_active_query, undo>>
session  == <<auto_commit, phase, query_number, holding, active_query, late,
              current_query_number>>
remover  == <<lock_holder, stage, unvisited, lowest_start_time, lowest_active_query>>
vars     == <<counters, lists, objects, session, remover>>

Phases == {"idle", "started", "numbered", "planning", "scanning", "executing",
           "executed", "between", "removing", "done"}
UndoStates == {"empty", "linked", "unlinked", "freed"}
Stages == {"free", "visit", "clean"}

ManagerTypeOK ==
    /\ current_start_timestamp \in Nat
    /\ current_transaction_id \in Nat \ 0..TransactionIdStart - 1
    /\ current_query_number \in 1..MaximumQueryId
    /\ active_transactions \subseteq Tx
    /\ recently_committed \in Seq(Tx)
    /\ old_transactions \in Seq(Tx)

ObjectTypeOK ==
    /\ start_time \in [Tx -> 0..TransactionIdStart - 1]
    /\ transaction_id \in [Tx -> Nat \ 1..TransactionIdStart - 1]
    /\ commit_id \in [Tx -> Nat]
    /\ highest_active_query \in [Tx -> 0..MaximumQueryId]
    /\ undo \in [Tx -> UndoStates]

SessionTypeOK ==
    /\ auto_commit \in [Tx -> BOOLEAN]
    /\ phase \in [Tx -> Phases]
    /\ query_number \in [Tx -> 0..MaximumQueryId]
    /\ holding \in [Tx -> SUBSET Tx]
    /\ active_query \in [Tx -> 0..MaximumQueryId]
    /\ late \subseteq Tx

RemoverTypeOK ==
    /\ lock_holder \in Tx \cup {NoTx}
    /\ stage \in Stages
    /\ unvisited \subseteq Tx
    /\ lowest_start_time \in Nat
    /\ lowest_active_query \in 0..MaximumQueryId

\* The variables keep their types; timestamps and transaction ids are kept apart
\* as the constructor demands: a snapshot that is not older than every id (0 is
\* that of no transaction) takes uncommitted writes for committed ones.
TypeOK == ManagerTypeOK /\ ObjectTypeOK /\ SessionTypeOK /\ RemoverTypeOK

(***************************************************************************)
(* The constructor, and the bootstrap transaction with which               *)
(* StorageManager::Initialize creates the default schema before any        *)
(* connection exists: it used timestamps 0 and 1 and the first             *)
(* transaction id, and was freed at once since it was alone.               *)
(***************************************************************************)
Init ==
    /\ current_start_timestamp = 2
    /\ current_transaction_id = TransactionIdStart + 1
    /\ current_query_number = 1
    /\ active_transactions = {}
    /\ recently_committed = << >>
    /\ old_transactions = << >>
    /\ start_time = [t \in Tx |-> 0]
    /\ transaction_id = [t \in Tx |-> 0]
    /\ commit_id = [t \in Tx |-> 0]
    /\ highest_active_query = [t \in Tx |-> 0]
    /\ active_query = [t \in Tx |-> MaximumQueryId]
    /\ undo = [t \in Tx |-> "empty"]
    /\ auto_commit = [t \in Tx |-> TRUE]
    /\ phase = [t \in Tx |-> "idle"]
    /\ query_number = [t \in Tx |-> 0]
    /\ holding = [t \in Tx |-> {}]
    /\ lock_holder = NoTx
    /\ stage = "free"
    /\ unvisited = {}
    /\ lowest_start_time = TransactionIdStart
    /\ lowest_active_query = MaximumQueryId
    /\ late = {}

-----------------------------------------------------------------------------
(* A connection: Query, the statements and the scans it executes.          *)

Goto(t, p) == phase' = [phase EXCEPT ![t] = p]

\* Mutant of StartTransaction: the two numbers are passed to the constructor of
\* Transaction in the wrong order.
StartSwapped(t) ==
    /\ phase[t] = "idle"
    /\ lock_holder = NoTx
    /\ current_start_timestamp < TransactionIdStart
    /\ start_time' = [start_time EXCEPT ![t] = current_transaction_id]
    /\ transaction_id' = [transaction_id EXCEPT ![t] = current_start_timestamp]
    /\ current_start_timestamp' = current_start_timestamp + 1
    /\ current_transaction_id' = current_transaction_id + 1
    /\ active_transactions' = active_transactions \cup {t}
    /\ Goto(t, "started")
    /\ UNCHANGED <<recently_committed, old_transactions, commit_id,
                   highest_active_query, undo, auto_commit, query_number, holding,
                   active_query, late, current_query_number, remover>>

\* The transaction is created when a query arrives in auto-commit mode; the
\* call throws, and changes nothing, once the timestamps are used up.
StartTransaction(t) ==
    /\ phase[t] = "idle"
    /\ lock_holder = NoTx
    /\ current_start_timestamp < TransactionIdStart
    /\ start_time' = [start_time EXCEPT ![t] = current_start_timestamp]
    /\ transaction_id' = [transaction_id EXCEPT ![t] = current_transaction_id]
    /\ current_start_timestamp' = current_start_timestamp + 1
    /\ current_transaction_id' = current_transaction_id + 1
    /\ active_transactions' = active_transactions \cup {t}
    /\ Goto(t, "started")
    /\ UNCHANGED <<recently_committed, old_transactions, commit_id,
                   highest_active_query, undo, auto_commit, query_number, holding,
                   active_query, late, current_query_number, remover>>

\* The counter is atomic and read without transaction_lock.  A query after
\* the first one belongs to an explicit transaction.
GetQueryNumber(t) ==
    /\ \/ phase[t] = "started"
       \/ phase[t] = "between" /\ ~auto_commit[t]
    /\ current_query_number < MaximumQueryId
    /\ query_number' = [query_number EXCEPT ![t] = current_query_number]
    /\ current_query_number' = current_query_number + 1
    /\ Goto(t, "numbered")
    /\ UNCHANGED <<counters, lists, objects, auto_commit, holding, active_query,
                   late, remover>>

\* The number is stored in the transaction, again without the lock.  A query
\* that does so after the remover's loop has passed its transaction is late.
SetActiveQuery(t) ==
    /\ phase[t] = "numbered"
    /\ active_query' = [active_query EXCEPT ![t] = query_number[t]]
    /\ late' = IF lock_holder # NoTx /\ t \notin unvisited
               THEN late \cup {t} ELSE late
    /\ Goto(t, "planning")
    /\ UNCHANGED <<counters, lists, objects, auto_commit, query_number, holding,
                   current_query_number, remover>>

BeginStatement(t) ==
    /\ phase[t] = "planning"
    /\ auto_commit[t]
    /\ auto_commit' = [auto_commit EXCEPT ![t] = FALSE]
    /\ Goto(t, "executed")
    /\ UNCHANGED <<counters, lists, objects, query_number, holding, active_query,
                   late, current_query_number, remover>>

\* A scan may from now on dereference every version that is linked now.
BeginScan(t) ==
    /\ phase[t] \in {"planning", "executing"}
    /\ holding' = [holding EXCEPT ![t] = {u \in Tx : undo[u] = "linked"}]
    /\ Goto(t, "scanning")
    /\ UNCHANGED <<counters, lists, objects, auto_commit, query_number,
                   active_query, late, current_query_number, remover>>

EndScan(t) ==
    /\ phase[t] = "scanning"
    /\ holding' = [holding EXCEPT ![t] = {}]
    /\ Goto(t, "executing")
    /\ UNCHANGED <<counters, lists, objects, auto_commit, query_number,
                   active_query, late, current_query_number, remover>>

\* An insert, update or delete puts a version of t in front of a row.
PushTuple(t) ==
    /\ phase[t] \in {"planning", "executing"}
    /\ undo' = [undo EXCEPT ![t] = "linked"]
    /\ Goto(t, "executing")
    /\ UNCHANGED <<counters, lists, start_time, transaction_id, commit_id,
                   highest_active_query, auto_commit, query_number, holding,
                   active_query, late, current_query_number, remover>>

\* The query is over, with or without success.
EndQuery(t) ==
    /\ phase[t] \in {"planning", "executing", "executed"}
    /\ active_query' = [active_query EXCEPT ![t] = MaximumQueryId]
    /\ late' = late \ {t}
    /\ Goto(t, "between")
    /\ UNCHANGED <<counters, lists, objects, auto_commit, query_number, holding,
                   current_query_number, remover>>

-----------------------------------------------------------------------------
(* Commit, rollback and RemoveTransaction, under transaction_lock.          *)

\* The lock is taken and the loop of RemoveTransaction is about to start.
Acquire(t) ==
    /\ lock_holder = NoTx
    /\ lock_holder' = t
    /\ stage' = "visit"
    /\ unvisited' = active_transactions
    /\ lowest_start_time' = TransactionIdStart
    /\ lowest_active_query' = MaximumQueryId
    /\ late' = late \ {t}
    /\ Goto(t, "removing")

\* Mutant of CommitTransaction: commit under the time the transaction started.
CommitAtStartTime(t) ==
    /\ phase[t] = "between" /\ auto_commit[t]
    /\ Acquire(t)
    /\ commit_id' = [commit_id EXCEPT ![t] = start_time[t]]
    /\ UNCHANGED <<counters, lists, start_time, transaction_id, highest_active_query,
                   undo, auto_commit, query_number, holding, active_query,
                   current_query_number>>

\* A COMMIT statement runs inside a query, whose number stays registered;
\* auto-commit comes after the query is deregistered.
CommitTransaction(t) ==
    /\ \/ phase[t] = "planning" /\ ~auto_commit[t]
       \/ phase[t] = "between" /\ auto_commit[t]
    /\ Acquire(t)
    /\ commit_id' = [commit_id EXCEPT ![t] = current_start_timestamp]
    /\ current_start_timestamp' = current_start_timestamp + 1
    /\ UNCHANGED <<current_transaction_id, lists, start_time, transaction_id,
                   highest_active_query, undo, auto_commit, query_number, holding,
                   active_query, current_query_number>>

\* A ROLLBACK statement, a failed query in auto-commit mode, or the destructor
\* of a connection that leaves an explicit transaction behind.
RollbackTransaction(t) ==
    /\ \/ phase[t] = "planning" /\ ~auto_commit[t]
       \/ phase[t] = "between"
    /\ Acquire(t)
    /\ undo' = [undo EXCEPT ![t] = "unlinked"]
    /\ UNCHANGED <<counters, lists, start_time, transaction_id, commit_id,
                   highest_active_query, auto_commit, query_number, holding,
                   active_query, current_query_number>>

\* Mutant of Least: the comparison is turned round.
Greatest(a, b) == IF a <= b THEN b ELSE a

Least(a, b) == IF a <= b THEN a ELSE b

\* One round of the loop over the active transactions.
VisitActive(u) ==
    /\ stage = "visit"
    /\ u \in unvisited
    /\ unvisited' = unvisited \ {u}
    /\ \/ /\ u = lock_holder
          /\ UNCHANGED <<lowest_start_time, lowest_active_query>>
       \/ /\ u # lock_holder
          /\ lowest_start_time' = Least(lowest_start_time, start_time[u])
          /\ lowest_active_query' = Least(lowest_active_query, active_query[u])
    /\ UNCHANGED <<counters, lists, objects, session, lock_holder, stage>>

\* The removed transaction changes lists.
MoveRemoved(t) ==
    /\ stage = "visit"
    /\ lock_holder = t
    /\ unvisited = {}
    /\ \/ /\ commit_id[t] # 0
          /\ recently_committed' = Append(recently_committed, t)
          /\ UNCHANGED <<highest_active_query, old_transactions>>
       \/ /\ commit_id[t] = 0
          /\ highest_active_query' =
                 [highest_active_query EXCEPT ![t] = current_query_number]
          /\ old_transactions' = Append(old_transactions, t)
          /\ UNCHANGED recently_committed
    /\ active_transactions' = active_transactions \ {t}
    /\ stage' = "clean"
    /\ UNCHANGED <<counters, start_time, transaction_id, commit_id, undo, session,
                   lock_holder, unvisited, lowest_start_time, lowest_active_query>>

\* Mutant of CanClean: active transactions are not looked at.
CanCleanAny == recently_committed # << >>

CanClean ==
    /\ recently_committed # << >>
    /\ commit_id[Head(recently_committed)] < lowest_start_time

\* Mutant of CleanupHead: the undo buffer is retired and not cleaned up.
RetireHead ==
    /\ stage = "clean"
    /\ CanClean
    /\ old_transactions' = Append(old_transactions, Head(recently_committed))
    /\ recently_committed' = Tail(recently_committed)
    /\ UNCHANGED <<counters, active_transactions, objects, session, remover>>

\* The oldest recently committed transaction is older than every active one:
\* its versions leave the tables, its memory has to wait for running queries.
CleanupHead ==
    /\ stage = "clean"
    /\ CanClean
    /\ LET u == Head(recently_committed) IN
        /\ undo' = [undo EXCEPT ![u] = "unlinked"]
        /\ highest_active_query' =
               [highest_active_query EXCEPT ![u] = current_query_number]
        /\ old_transactions' = Append(old_transactions, u)
    /\ recently_committed' = Tail(recently_committed)
    /\ UNCHANGED <<counters, active_transactions, start_time, transaction_id,
                   commit_id, session, remover>>

\* Mutant of Unreachable: the bound on start times in place of that on queries.
OlderThanActive(u) == commit_id[u] < lowest_start_time

\* No query that the loop saw can hold a version of u.
Unreachable(u) == highest_active_query[u] < lowest_active_query

\* Mutants of Freeable: no shortcut when nobody is active; the whole list or
\* nothing.
FreeableByQuery(n) ==
    /\ \A i \in 1..n : Unreachable(old_transactions[i])
    /\ n < Len(old_transactions) => ~Unreachable(old_transactions[n + 1])

FreeableAtOnce(n) ==
    /\ n = Len(old_transactions)
    /\ active_transactions = {} \/ \A i \in 1..n : Unreachable(old_transactions[i])

\* The first n old transactions can go: all of them if nobody is active,
\* otherwise those in front of the first that a running query may be using.
Freeable(n) ==
    IF active_transactions = {}
    THEN n = Len(old_transactions)
    ELSE /\ \A i \in 1..n : Unreachable(old_transactions[i])
         /\ n < Len(old_transactions) => ~Unreachable(old_transactions[n + 1])

\* The end of RemoveTransaction; its locals go, and the lock is released.
FreeOld(t) ==
    /\ stage = "clean"
    /\ lock_holder = t
    /\ ~CanClean
    /\ \E n \in 0..Len(old_transactions) :
        /\ Freeable(n)
        /\ undo' = [u \in Tx |->
                      IF \E i \in 1..n : old_transactions[i] = u
                      THEN "freed" ELSE undo[u]]
        /\ old_transactions' =
               SubSeq(old_transactions, n + 1, Len(old_transactions))
    /\ lock_holder' = NoTx
    /\ stage' = "free"
    /\ lowest_start_time' = TransactionIdStart
    /\ lowest_active_query' = MaximumQueryId
    /\ Goto(t, "done")
    /\ UNCHANGED <<counters, active_transactions, recently_committed, start_time,
                   transaction_id, commit_id, highest_active_query, auto_commit,
                   query_number, holding, active_query, late, current_query_number,
                   unvisited>>

-----------------------------------------------------------------------------
Client(t) ==
    \/ StartTransaction(t) \/ GetQueryNumber(t) \/ SetActiveQuery(t)
    \/ BeginStatement(t) \/ BeginScan(t) \/ EndScan(t) \/ PushTuple(t)
    \/ EndQuery(t) \/ CommitTransaction(t) \/ RollbackTransaction(t)

Remove(t) == VisitActive(t) \/ MoveRemoved(t) \/ FreeOld(t)

Next == CleanupHead \/ \E t \in Tx : Client(t) \/ Remove(t)

Spec == Init /\ [][Next]_vars

\* A query runs to its end on its own thread, auto-commit follows it, and the
\* holder of transaction_lock never blocks.  Nothing makes a client begin a
\* transaction, issue another statement, or end an explicit transaction.
\* The mutex lets in everyone who keeps asking.
AutoCommit(t) == auto_commit[t] /\ (CommitTransaction(t) \/ RollbackTransaction(t))

Fairness ==
    /\ WF_vars(CleanupHead)
    /\ \A t \in Tx :
        /\ WF_vars(SetActiveQuery(t))
        /\ WF_vars(EndScan(t))
        /\ WF_vars(EndQuery(t))
        /\ WF_vars(Remove(t))
        /\ SF_vars(AutoCommit(t))

FairSpec == Spec /\ Fairness

-----------------------------------------------------------------------------
(* Properties. *)

\* Cleanup unlinks the versions of a committed transaction only when no active
\* transaction started before that commit: condition (2) in the comment of
\* UndoBuffer::Cleanup, across every later start and removal.
CleanedBehindEveryReader ==
    \A u, t \in Tx :
        t \in active_transactions /\ commit_id[u] # 0 /\ undo[u] \in {"unlinked", "freed"}
            => commit_id[u] < start_time[t]

\* A query that had registered its number when the remover looked at its
\* transaction never holds a version whose memory has been freed, however
\* scans, cleanups and removals interleave afterwards.
RegisteredReadersSafe ==
    \A q \in Tx \ late : \A u \in holding[q] : undo[u] # "freed"

\* What the comment in RemoveTransaction promises of every query, registered
\* in time or not: memory is freed only "when all the currently active
\* queries have finished running".
NoQueryUsesFreedMemory ==
    \A q, u \in Tx : u \in holding[q] => undo[u] # "freed"

\* The cleanup loop stops at the first transaction it must keep; that is
\* right because the list is ordered on commit_id, which nothing sorts.
RecentlyCommittedIsOrdered ==
    \A i, j \in 1..Len(recently_committed) :
        i < j => commit_id[recently_committed[i]] < commit_id[recently_committed[j]]

\* When nobody is active and no removal is under way, no finished transaction
\* is kept: the last one to leave collects what all the others left behind.
QuiescentMeansCollected ==
    active_transactions = {} /\ lock_holder = NoTx
        /\ current_start_timestamp <= TransactionIdStart
    => recently_committed = << >> /\ old_transactions = << >>

\* The memory of an undo buffer is never freed while rows still point to it:
\* every way into old_transactions passes through Cleanup or Rollback.
FreedOnlyAfterUnlinking ==
    [][\A u \in Tx : undo[u] = "linked" => undo'[u] # "freed"]_vars

\* Auto-commit never hangs: the transaction of a query that ended leaves the
\* manager, whoever else is committing, scanning or idling in a transaction.
AutoCommitCompletes ==
    \A t \in Tx : phase[t] = "between" /\ auto_commit[t] ~> phase[t] = "done"

\* Garbage does not pile up behind readers that come and go: if the manager is
\* idle again and again, every finished transaction is eventually freed.
GarbageIsCollected ==
    []<>(active_transactions = {})
        => \A t \in Tx : (phase[t] = "done") ~> (undo[t] = "freed")

-----------------------------------------------------------------------------
(* The inductive invariant behind the safety properties. *)

Elements(s) == {s[i] : i \in 1..Len(s)}

InQuery == {"planning", "scanning", "executing", "executed"}
Live    == InQuery \cup {"started", "numbered", "between"}

\* The lock, the phase of its holder and the list the holder is in agree.
LockInv ==
    /\ lock_holder = NoTx <=> stage = "free"
    /\ \A t \in Tx :
        /\ phase[t] = "removing" <=> lock_holder = t
        /\ phase[t] \in Live => t \in active_transactions
        /\ phase[t] \in {"idle", "done"} => t \notin active_transactions
        /\ lock_holder = t => (t \in active_transactions <=> stage = "visit")
    /\ unvisited \subseteq active_transactions
    /\ stage # "visit" => unvisited = {}

\* Every timestamp in use was handed out by the one counter.
TimeInv ==
    /\ \A u \in Tx : commit_id[u] < current_start_timestamp
    /\ \A t \in active_transactions : start_time[t] < current_start_timestamp

\* A transaction that has not ended has no commit id, and its versions are
\* still linked.
UnfinishedInv ==
    \A t \in Tx : phase[t] \in Live \cup {"idle"} =>
        commit_id[t] = 0 /\ undo[t] \in {"empty", "linked"}

\* The removed transaction, on its way to recently_committed (as the newest)
\* or, rolled back, to old_transactions.
RemovedInv ==
    stage = "visit" =>
        IF commit_id[lock_holder] = 0
        THEN undo[lock_holder] = "unlinked"
        ELSE /\ undo[lock_holder] \in {"empty", "linked"}
             /\ \A u \in Elements(recently_committed) :
                    commit_id[u] < commit_id[lock_holder]

RecentInv ==
    \A u \in Elements(recently_committed) :
        /\ u \notin active_transactions
        /\ phase[u] \in {"removing", "done"}
        /\ commit_id[u] # 0
        /\ undo[u] \in {"empty", "linked"}

OldInv ==
    \A u \in Elements(old_transactions) :
        /\ u \notin active_transactions
        /\ phase[u] \in {"removing", "done"}
        /\ undo[u] = "unlinked"

\* The loop of the remover has seen a bound on every transaction behind it,
\* except on the active_query of a late one.
BoundsInv ==
    /\ stage # "free" =>
        \A t \in active_transactions \ (unvisited \cup {lock_holder}) :
            /\ lowest_start_time <= start_time[t]
            /\ t \notin late => lowest_active_query <= active_query[t]
    /\ stage # "free" /\ active_transactions \ unvisited \subseteq {lock_holder}
            => lowest_start_time = TransactionIdStart

\* A query in time holds versions that are linked, or whose transaction left
\* the tables after the query got its number.
HoldingInv ==
    \A q \in Tx :
        /\ phase[q] \in InQuery => active_query[q] = query_number[q]
        /\ phase[q] \in InQuery \cup {"numbered"} =>
               query_number[q] < current_query_number
        /\ holding[q] # {} => phase[q] = "scanning"
        /\ q \notin late =>
            \A u \in holding[q] :
                \/ undo[u] = "linked"
                \/ /\ undo[u] = "unlinked"
                   /\ u \in Elements(old_transactions) =>
                          query_number[q] < highest_active_query[u]

OldIsDistinct ==
    \A i, j \in 1..Len(old_transactions) :
        old_transactions[i] = old_transactions[j] => i = j

IInv ==
    /\ TypeOK
    /\ LockInv
    /\ TimeInv
    /\ UnfinishedInv
    /\ RemovedInv
    /\ RecentInv
    /\ OldInv
    /\ BoundsInv
    /\ HoldingInv
    /\ OldIsDistinct
    /\ RecentlyCommittedIsOrdered
    /\ CleanedBehindEveryReader
    /\ QuiescentMeansCollected
=============================================================================
