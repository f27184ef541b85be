------------------------------ MODULE CatalogSet ------------------------------
(***************************************************************************)
(* The versions of catalog entries, their undo entries and the tables they *)
(* own.  Per name a chain of entries hangs from data, newest first, linked *)
(* by owning child and plain parent pointers.  CreateEntry, DropEntry,     *)
(* GetEntry and Undo hold catalog_lock; committing and cleaning up an undo *)
(* buffer hold transaction_lock only and follow parent pointers.  An entry *)
(* owns its table: destroying the one destroys the chunks of the other.    *)
(*                                                                         *)
(* Entries are numbered in the order of their allocation; destroyed ones   *)
(* stay in the heap, so that a use of one can be told.  A timestamp is a   *)
(* commit id or, standing for its id above TRANSACTION_ID_START, the       *)
(* transaction itself.                                                     *)
(***************************************************************************)
EXTENDS Naturals, FiniteSets, Sequences

CONSTANTS
    Tx,             \* transactions, each with the connection that runs it
    NoTx,
    Name,           \* names of tables
    MaxStatements   \* bound on the statements of a run

ASSUME TxAssumption == NoTx \notin Tx /\ Tx \cap Nat = {}
ASSUME MaxStatementsAssumption == MaxStatements \in Nat

VARIABLES
    current_start_timestamp,
    start_time,
    commit_id,
    transaction_lock,
    recently_committed,
    phase,          \* program counter of t's connection
    issued,         \* statements begun so far
    catalog_lock,
    data,           \* the newest entry of each name
    heap,           \* every entry ever allocated
    freed,          \* those that were destroyed
    wanted,         \* GetEntry: the name looked up, and for which statement
    current,        \* GetEntry: where the walk is; then the entry it found
    undo,           \* undo buffers, oldest entry first
    visited,        \* entries that the loop over an undo buffer is done with
    written_by      \* history: the transaction that allocated each entry

transactions == <<current_start_timestamp, start_time, commit_id, transaction_lock,
                  recently_committed>>
entries == <<data, heap, freed, written_by>>
lookup  == <<wanted, current>>
buffers == <<undo, visited>>
vars == <<transactions, phase, issued, catalog_lock, entries, lookup, buffers>>

Nil == 0                            \* nullptr
Entry == 1..Len(heap)
Running == {"ready", "lookup", "found"}

ClockTypeOK ==
    /\ current_start_timestamp \in Nat
    /\ start_time \in [Tx -> Nat]
    /\ commit_id \in [Tx -> Nat]
    /\ transaction_lock \in Tx \cup {NoTx}
    /\ recently_committed \in Seq(Tx)
    /\ phase \in [Tx -> Running \cup {"idle", "committing", "undoing", "cleaning", "done"}]
    /\ issued \in 0..MaxStatements

EntryTypeOK ==
    /\ data \in [Name -> Entry \cup {Nil}]
    /\ heap \in Seq([name : Name, deleted : BOOLEAN, timestamp : Nat \cup Tx,
                     child : Entry \cup {Nil}, parent : Entry \cup {Nil}])
    /\ freed \subseteq Entry
    /\ written_by \in Seq(Tx \cup {NoTx})
    /\ Len(written_by) = Len(heap)

LookupTypeOK ==
    /\ catalog_lock \in Tx \cup {NoTx}
    /\ wanted \in [Tx -> [name : Name, use : {"drop", "insert"}] \cup {<< >>}]
    /\ current \in [Tx -> Entry \cup {Nil}]

BufferTypeOK ==
    /\ undo \in [Tx -> Seq([type : {"CATALOG_ENTRY", "TUPLE_ENTRY"}, entry : Entry])]
    /\ visited \in [Tx -> Nat]

TypeOK == ClockTypeOK /\ EntryTypeOK /\ LookupTypeOK /\ BufferTypeOK

Version(n, deleted, timestamp, child) ==
    [name |-> n, deleted |-> deleted, timestamp |-> timestamp, child |-> child,
     parent |-> Nil]

\* One table was loaded before any connection: its log was replayed after the
\* default schema had been committed.
Init ==
    /\ current_start_timestamp = 4
    /\ start_time = [t \in Tx |-> 0]
    /\ commit_id = [t \in Tx |-> 0]
    /\ transaction_lock = NoTx
    /\ recently_committed = << >>
    /\ phase = [t \in Tx |-> "idle"]
    /\ issued = 0
    /\ catalog_lock = NoTx
    /\ \E loaded \in Name :
        /\ data = [n \in Name |-> IF n = loaded THEN 1 ELSE Nil]
        /\ heap = <<Version(loaded, FALSE, 3, Nil)>>
    /\ freed = {}
    /\ wanted = [t \in Tx |-> << >>]
    /\ current = [t \in Tx |-> Nil]
    /\ undo = [t \in Tx |-> << >>]
    /\ visited = [t \in Tx |-> 0]
    /\ written_by = <<NoTx>>

Goto(t, p) == phase' = [phase EXCEPT ![t] = p]

StartTransaction(t) ==
    /\ phase[t] = "idle"
    /\ transaction_lock = NoTx
    /\ start_time' = [start_time EXCEPT ![t] = current_start_timestamp]
    /\ current_start_timestamp' = current_start_timestamp + 1
    /\ Goto(t, "ready")
    /\ UNCHANGED <<commit_id, transaction_lock, recently_committed, issued, catalog_lock,
                   entries, lookup, buffers>>

-----------------------------------------------------------------------------
(* GetEntry: one step per entry of the chain. *)

\* Mutant of Sees: a transaction does not look for its own versions.
SeesCommitted(t, e) ==
    heap[e].timestamp \notin Tx /\ heap[e].timestamp < start_time[t]

Sees(t, e) ==
    \/ heap[e].timestamp = t
    \/ heap[e].timestamp \notin Tx /\ heap[e].timestamp < start_time[t]

\* DROP TABLE and INSERT both look their table up first.
BeginLookup(t, n, use) ==
    /\ phase[t] = "ready"
    /\ issued < MaxStatements
    /\ catalog_lock = NoTx
    /\ issued' = issued + 1
    /\ wanted' = [wanted EXCEPT ![t] = [name |-> n, use |-> use]]
    /\ current' = [current EXCEPT ![t] = data[n]]
    /\ catalog_lock' = t
    /\ Goto(t, "lookup")
    /\ UNCHANGED <<transactions, entries, buffers>>

\* "we created this version", or it "was commited before we started".
WalksOn(t) ==
    /\ current[t] # Nil
    /\ heap[current[t]].child # Nil
    /\ ~Sees(t, current[t])

Walk(t) ==
    /\ phase[t] = "lookup"
    /\ WalksOn(t)
    /\ current' = [current EXCEPT ![t] = heap[@].child]
    /\ UNCHANGED <<transactions, phase, issued, catalog_lock, entries, wanted, buffers>>

Live(e) == IF e = Nil \/ heap[e].deleted THEN Nil ELSE e

EndLookup(t) ==
    /\ phase[t] = "lookup"
    /\ ~WalksOn(t)
    /\ current' = [current EXCEPT ![t] = Live(@)]
    /\ wanted' = IF Live(current[t]) = Nil THEN [wanted EXCEPT ![t] = << >>] ELSE wanted
    /\ Goto(t, IF Live(current[t]) = Nil THEN "ready" ELSE "found")
    /\ catalog_lock' = NoTx
    /\ UNCHANGED <<transactions, issued, entries, buffers>>

-----------------------------------------------------------------------------
(* New versions. *)

\* "current version has been written to by a currently active transaction"
WrittenByOther(t, e) == heap[e].timestamp \in Tx \ {t}

PushUndo(t, type, e) ==
    /\ undo' = [undo EXCEPT ![t] = Append(@, [type |-> type, entry |-> e])]
    /\ UNCHANGED visited

\* t puts a version of name n in front of entry e, which ends the heap h or is
\* in it; allocated are the writers of the entries of h.
PushVersion(t, n, deleted, e, h, allocated) ==
    LET value == Len(h) + 1 IN
    /\ heap' = Append([h EXCEPT ![e].parent = value], Version(n, deleted, t, e))
    /\ written_by' = Append(allocated, t)
    /\ data' = [data EXCEPT ![n] = value]
    /\ PushUndo(t, "CATALOG_ENTRY", e)
    /\ UNCHANGED freed

\* Mutant of Replaceable: uncommitted versions of others are no conflict.
ReplaceableByAny(t, e) == heap[e].deleted

\* CreateEntry replaces a version that is deleted, for whoever reads it.
Replaceable(t, e) == ~WrittenByOther(t, e) /\ heap[e].deleted

\* A refused CREATE, by a conflict or because the name is taken, changes nothing.
CreateEntry(t, n) ==
    /\ phase[t] = "ready"
    /\ issued < MaxStatements
    /\ catalog_lock = NoTx
    /\ issued' = issued + 1
    /\ \/ /\ data[n] = Nil
          /\ PushVersion(t, n, FALSE, Len(heap) + 1,
                         Append(heap, Version(n, TRUE, 0, Nil)), Append(written_by, NoTx))
       \/ /\ data[n] # Nil
          /\ Replaceable(t, data[n])
          /\ PushVersion(t, n, FALSE, data[n], heap, written_by)
       \/ /\ data[n] # Nil
          /\ ~Replaceable(t, data[n])
          /\ UNCHANGED <<entries, buffers>>
    /\ UNCHANGED <<transactions, phase, catalog_lock, lookup>>

EndStatement(t) ==
    /\ wanted' = [wanted EXCEPT ![t] = << >>]
    /\ current' = [current EXCEPT ![t] = Nil]
    /\ Goto(t, "ready")

\* The lock was released since the lookup.  A table that is deleted by now,
\* whoever did it, counts as dropped.
DropEntry(t) ==
    /\ phase[t] = "found"
    /\ wanted[t].use = "drop"
    /\ catalog_lock = NoTx
    /\ LET n == wanted[t].name
           e == data[n]
       IN \/ /\ ~WrittenByOther(t, e)
             /\ ~heap[e].deleted
             /\ PushVersion(t, n, TRUE, e, heap, written_by)
          \/ /\ WrittenByOther(t, e) \/ heap[e].deleted
             /\ UNCHANGED <<entries, buffers>>
    /\ EndStatement(t)
    /\ UNCHANGED <<transactions, issued, catalog_lock>>

\* Append, through the pointer found: the version of the new row refers to a
\* chunk of the table that the entry owns.
AppendToTable(t) ==
    /\ phase[t] = "found"
    /\ wanted[t].use = "insert"
    /\ PushUndo(t, "TUPLE_ENTRY", current[t])
    /\ EndStatement(t)
    /\ UNCHANGED <<transactions, issued, catalog_lock, entries>>

-----------------------------------------------------------------------------
(* The end of a transaction. *)

CommitTransaction(t) ==
    /\ phase[t] = "ready"
    /\ transaction_lock = NoTx
    /\ transaction_lock' = t
    /\ commit_id' = [commit_id EXCEPT ![t] = current_start_timestamp]
    /\ current_start_timestamp' = current_start_timestamp + 1
    /\ Goto(t, "committing")
    /\ UNCHANGED <<start_time, recently_committed, issued, catalog_lock, entries, lookup,
                   buffers>>

\* The entry of buffer u that a loop from the front visits next.
NextEntry(u) == undo[u][visited[u] + 1]
IsCatalog(u) == NextEntry(u).type = "CATALOG_ENTRY"

Stamp(t) ==
    IF IsCatalog(t)
    THEN heap' = [heap EXCEPT ![heap[NextEntry(t).entry].parent].timestamp = commit_id[t]]
    ELSE UNCHANGED heap

\* UndoBuffer::Commit, one entry.  The timestamp of the version in front of a
\* catalog entry is stored without catalog_lock.
CommitEntry(t) ==
    /\ phase[t] = "committing"
    /\ visited[t] < Len(undo[t])
    /\ Stamp(t)
    /\ visited' = [visited EXCEPT ![t] = @ + 1]
    /\ UNCHANGED <<transactions, phase, issued, catalog_lock, data, freed, written_by,
                   lookup, undo>>

RollbackTransaction(t) ==
    /\ phase[t] = "ready"
    /\ transaction_lock = NoTx
    /\ transaction_lock' = t
    /\ Goto(t, "undoing")
    /\ UNCHANGED <<current_start_timestamp, start_time, commit_id, recently_committed,
                   issued, catalog_lock, entries, lookup, buffers>>

\* CatalogSet::Undo puts e back in the place of its parent, which it destroys.
Undo(e) ==
    LET removed == heap[e].parent
        above   == heap[removed].parent
    IN /\ heap' = IF above # Nil
                  THEN [heap EXCEPT ![above].child = heap[removed].child,
                                    ![e].parent = above]
                  ELSE [heap EXCEPT ![e].parent = Nil]
       /\ data' = IF above # Nil THEN data
                  ELSE [data EXCEPT ![heap[e].name] = heap[removed].child]
       /\ freed' = freed \cup {removed}
       /\ UNCHANGED written_by

\* Mutant of Youngest: the buffer is undone from its front.
Oldest(t) == 1

Youngest(t) == Len(undo[t])

\* UndoBuffer::Rollback, one entry.
UndoEntry(t) ==
    /\ phase[t] = "undoing"
    /\ undo[t] # << >>
    /\ LET i == Youngest(t) IN
        /\ \/ /\ undo[t][i].type = "CATALOG_ENTRY"
              /\ catalog_lock = NoTx
              /\ Undo(undo[t][i].entry)
           \/ /\ undo[t][i].type = "TUPLE_ENTRY"
              /\ UNCHANGED entries
        /\ undo' = [undo EXCEPT ![t] = SubSeq(@, 1, i - 1) \o SubSeq(@, i + 1, Len(@))]
    /\ UNCHANGED <<transactions, phase, issued, catalog_lock, lookup, visited>>

\* RemoveTransaction, up to its garbage collection.
BeginRemove(t) ==
    /\ \/ /\ phase[t] = "committing"
          /\ visited[t] = Len(undo[t])
          /\ recently_committed' = Append(recently_committed, t)
       \/ /\ phase[t] = "undoing"
          /\ undo[t] = << >>
          /\ UNCHANGED recently_committed
    /\ visited' = [visited EXCEPT ![t] = 0]
    /\ Goto(t, "cleaning")
    /\ UNCHANGED <<current_start_timestamp, start_time, commit_id, transaction_lock,
                   issued, catalog_lock, entries, lookup, undo>>

Active == {t \in Tx : phase[t] \in Running}

\* Mutant of Cleanable: active transactions are not looked at.
CleanableAny == recently_committed # << >>

Cleanable ==
    /\ recently_committed # << >>
    /\ \A t \in Active : commit_id[Head(recently_committed)] < start_time[t]

\* Mutant of Destroy: what the backed up entry hides goes, not the entry.
DestroyHidden(e) ==
    /\ heap' = [heap EXCEPT ![e].child = Nil]
    /\ freed' = freed \cup {heap[e].child}

\* Mutant of Destroy: only entries that a DROP replaced are destroyed.
DestroyDropped(e) ==
    IF heap[heap[e].parent].deleted
    THEN /\ heap' = [heap EXCEPT ![heap[e].parent].child = heap[e].child]
         /\ freed' = freed \cup {e}
    ELSE UNCHANGED <<heap, freed>>

Destroy(e) ==
    /\ heap' = [heap EXCEPT ![heap[e].parent].child = heap[e].child]
    /\ freed' = freed \cup {e}

\* UndoBuffer::Cleanup of the oldest commit, one entry, without catalog_lock.
\* A tuple's version leaves its chunk, which no variable shows.
CleanupEntry(t) ==
    /\ phase[t] = "cleaning"
    /\ Cleanable
    /\ LET u == Head(recently_committed) IN
        /\ visited[u] < Len(undo[u])
        /\ \/ IsCatalog(u) /\ Destroy(NextEntry(u).entry)
           \/ ~IsCatalog(u) /\ UNCHANGED <<heap, freed>>
        /\ visited' = [visited EXCEPT ![u] = @ + 1]
    /\ UNCHANGED <<transactions, phase, issued, catalog_lock, data, written_by, lookup,
                   undo>>

CleanupDone(t) ==
    /\ phase[t] = "cleaning"
    /\ Cleanable
    /\ visited[Head(recently_committed)] = Len(undo[Head(recently_committed)])
    /\ recently_committed' = Tail(recently_committed)
    /\ UNCHANGED <<current_start_timestamp, start_time, commit_id, transaction_lock,
                   phase, issued, catalog_lock, entries, lookup, buffers>>

EndRemove(t) ==
    /\ phase[t] = "cleaning"
    /\ ~Cleanable
    /\ transaction_lock' = NoTx
    /\ Goto(t, "done")
    /\ UNCHANGED <<current_start_timestamp, start_time, commit_id, recently_committed,
                   issued, catalog_lock, entries, lookup, buffers>>

Next ==
    \E t \in Tx :
        \/ StartTransaction(t)
        \/ \E n \in Name : \E use \in {"drop", "insert"} : BeginLookup(t, n, use)
        \/ Walk(t) \/ EndLookup(t)
        \/ \E n \in Name : CreateEntry(t, n)
        \/ DropEntry(t) \/ AppendToTable(t)
        \/ CommitTransaction(t) \/ CommitEntry(t)
        \/ RollbackTransaction(t) \/ UndoEntry(t)
        \/ BeginRemove(t) \/ CleanupEntry(t) \/ CleanupDone(t) \/ EndRemove(t)

Spec == Init /\ [][Next]_vars

-----------------------------------------------------------------------------
(* Properties. *)

\* What name n stands for in the snapshot of t: the last entry that t or a
\* transaction committed before its start made of it.  The history decides,
\* whatever became of timestamps and pointers.
InSnapshot(t, e) ==
    LET u == written_by[e] IN u \in {t, NoTx} \/ commit_id[u] \in 1..start_time[t] - 1

Snapshot(t, n) ==
    LET visible == {e \in Entry : heap[e].name = n /\ InSnapshot(t, e)}
    IN IF visible = {} THEN Nil
       ELSE Live(CHOOSE e \in visible : \A f \in visible : f <= e)

\* A lookup ends at the entry of its transaction's snapshot and none but that,
\* although commits stamp and cleanups cut the chain while it walks.
LookupSeesSnapshot ==
    \A t \in Tx : phase[t] = "lookup" /\ ~WalksOn(t) =>
        Live(current[t]) = Snapshot(t, wanted[t].name)

\* The entries that the next step of t follows a pointer to: a walk and a
\* statement follow current, the loops over undo buffers the entry and, if it
\* is a catalog entry, its parent.
Follows(u, i) ==
    LET e == undo[u][i].entry IN
    IF undo[u][i].type = "CATALOG_ENTRY" THEN {e, heap[e].parent} ELSE {}

Used(t) ==
    CASE phase[t] \in Running -> {current[t]} \ {Nil}
      [] phase[t] = "committing" /\ visited[t] < Len(undo[t]) ->
            Follows(t, visited[t] + 1)
      [] phase[t] = "undoing" /\ undo[t] # << >> -> Follows(t, Youngest(t))
      [] phase[t] = "cleaning" /\ Cleanable ->
            LET u == Head(recently_committed) IN
            IF visited[u] < Len(undo[u]) THEN Follows(u, visited[u] + 1) ELSE {}
      [] OTHER -> {}

\* No lookup, statement, commit, rollback or cleanup follows a pointer to a
\* catalog entry that was destroyed.  (Tables behind tuple versions: below.)
NoDestroyedEntryIsUsed == \A t \in Tx : Used(t) \cap (freed \cup {Nil}) = {}

\* Undo always removes the newest version.  The other branch of Undo reads
\* the entry it has just destroyed.
UndoneIsNewest ==
    \A t \in Tx : phase[t] = "undoing" /\ undo[t] # << >> =>
        LET u == undo[t][Youngest(t)] IN
        u.type = "CATALOG_ENTRY" => data[heap[u.entry].name] = heap[u.entry].parent

\* Child and parent pointers agree, and along a chain come the versions of one
\* unfinished transaction, then stamped ones with timestamps that never grow.
ChainsIntact ==
    /\ \A n \in Name : data[n] # Nil => data[n] \notin freed /\ heap[data[n]].parent = Nil
    /\ \A e \in Entry \ freed :
        LET c == heap[e].child IN c # Nil =>
            /\ c \notin freed
            /\ heap[c].parent = e
            /\ heap[c].name = heap[e].name
            /\ \/ heap[e].timestamp \in Tx /\ ~WrittenByOther(heap[e].timestamp, c)
               \/ heap[c].timestamp \notin Tx /\ heap[c].timestamp <= heap[e].timestamp

\* When the last transaction has left, each name keeps its newest version and
\* all others are destroyed.
OldVersionsDestroyed ==
    transaction_lock = NoTx /\ Active = {} =>
        Entry \ freed = {data[n] : n \in Name} \ {Nil}
=============================================================================
