-------------------------- MODULE SnapshotIsolation --------------------------
(***************************************************************************)
(* What a table promises its transactions, with no version chain, undo     *)
(* buffer, lock or garbage collection in sight: each transaction works on  *)
(* the store as it was when it started plus its own writes, two running    *)
(* transactions never both have written a row, a commit publishes all      *)
(* writes of a transaction at once, and a rollback leaves no trace.  The   *)
(* code does not promise that a row written was not changed since the      *)
(* transaction started, and neither does this module.                      *)
(***************************************************************************)
CONSTANTS Tx, Row, Value, Dead

VARIABLES
    store,      \* the last committed value of each row
    status,     \* where each transaction is in its life
    view,       \* what each running transaction would read
    dirty       \* the rows each running transaction has written

vars == <<store, status, view, dirty>>

NoView == [r \in Row |-> Dead]

Init ==
    /\ store \in [Row -> Value \cup {Dead}]
    /\ status = [t \in Tx |-> "idle"]
    /\ view = [t \in Tx |-> NoView]
    /\ dirty = [t \in Tx |-> {}]

Begin(t) ==
    /\ status[t] = "idle"
    /\ status' = [status EXCEPT ![t] = "running"]
    /\ view' = [view EXCEPT ![t] = store]
    /\ UNCHANGED <<store, dirty>>

Write(t, rows, v) ==
    /\ status[t] = "running"
    /\ \A u \in Tx \ {t} : dirty[u] \cap rows = {}
    /\ view' = [view EXCEPT ![t] = [r \in Row |-> IF r \in rows THEN v ELSE @[r]]]
    /\ dirty' = [dirty EXCEPT ![t] = @ \cup rows]
    /\ UNCHANGED <<store, status>>

Leave(t) ==
    /\ status[t] = "running"
    /\ status' = [status EXCEPT ![t] = "ended"]
    /\ view' = [view EXCEPT ![t] = NoView]
    /\ dirty' = [dirty EXCEPT ![t] = {}]

Commit(t) ==
    /\ Leave(t)
    /\ store' = [r \in Row |-> IF r \in dirty[t] THEN view[t][r] ELSE store[r]]

Abort(t) ==
    /\ Leave(t)
    /\ UNCHANGED store

Next ==
    \E t \in Tx :
        \/ Begin(t)
        \/ \E rows \in SUBSET Row, v \in Value \cup {Dead} : Write(t, rows, v)
        \/ Commit(t)
        \/ Abort(t)

Spec == Init /\ [][Next]_vars
=============================================================================
