---------------------------- MODULE WriteAheadLog ----------------------------
(***************************************************************************)
(* The write-ahead log, from the undo buffer of a commit to the replay     *)
(* after a crash.  A commit logs its insertions as tuples, collected in    *)
(* chunks, and its updates and deletions as the text of the query; a flush *)
(* mark ends its entries.  Replay runs the entries up to each mark in a    *)
(* transaction and stops at the first thing it cannot read or run; then    *)
(* the file is opened for appending.                                       *)
(*                                                                         *)
(* The database is one table, a set of rows, or NoTable.  Tables and rows  *)
(* in memory are those of CatalogSet and DataTable: a transaction works on *)
(* a snapshot and publishes what it changed.  The query is a DELETE of     *)
(* every row that its transaction sees.                                    *)
(***************************************************************************)
EXTENDS Naturals, FiniteSets, Sequences

CONSTANTS
    Tx,
    NoTx,
    Row,
    NoTable,
    VectorSize,     \* STANDARD_VECTOR_SIZE, the tuples of a chunk
    MaxCrashes      \* bound on the crashes of a run

ASSUME WALAssumption == NoTx \notin Tx /\ (\A rows \in SUBSET Row : rows # NoTable)
                        /\ VectorSize \in Nat \ {0} /\ MaxCrashes \in Nat

VARIABLES
    mode,           \* of the database: "running", or coming up
    crashes,
    store,          \* the committed table
    phase,          \* of each transaction
    start,          \* the table when the transaction started
    view,           \* the table as the transaction sees it
    removed,        \* rows its queries deleted
    undo,           \* its undo buffer, the versions of deleted rows left out
    transaction_lock,
    inserted,       \* bound: the rows inserted so far
    visited,        \* entries of the undo buffer that a commit has logged
    appends,        \* tuples it collected for the next INSERT_TUPLE
    file,           \* the log, with what the operating system has not written
    synced,         \* entries that are known to be on disk
    position,       \* entries that Replay has read
    stored_entries, \* those of them after the last flush mark
    promised,       \* history: the tables a recovery may come up with
    absorbed,       \* history: appended to a log that ends in the middle
    overlapped,     \* history: logged for another state than it ran on
    reordered,      \* history: tuples waited while the DROP of their table was logged
    refused         \* history: transactions that carried on after a failed DELETE

memory  == <<store, phase, start, view, removed, undo, transaction_lock, inserted>>
writer  == <<visited, appends>>
log     == <<file, synced>>
replay  == <<position, stored_entries>>
history == <<promised, absorbed, overlapped, reordered, refused>>
vars == <<mode, crashes, memory, writer, log, replay, history>>

Table == {NoTable} \cup SUBSET Row

InsertTuple(rows) == [type |-> "INSERT_TUPLE", rows |-> rows]
Plain(type) == [type |-> type, rows |-> {}]
\* What is left of an entry that was not written to its end.
Torn == Plain("TORN")

LogEntry ==
    {InsertTuple(rows) : rows \in SUBSET Row}
    \cup {Plain(type) : type \in {"CREATE_TABLE", "DROP_TABLE", "QUERY", "WAL_FLUSH", "TORN"}}

UndoEntry ==
    {InsertTuple({r}) : r \in Row}
    \cup {Plain(type) : type \in {"CREATE_TABLE", "DROP_TABLE", "QUERY"}}

Live == {"running", "logging", "syncing"}

MemoryTypeOK ==
    /\ mode \in {"running", "replaying", "recovered"}
    /\ crashes \in 0..MaxCrashes
    /\ store \in Table
    /\ phase \in [Tx -> Live \cup {"idle", "ended"}]
    /\ start \in [Tx -> Table]
    /\ view \in [Tx -> Table]
    /\ removed \in [Tx -> SUBSET Row]
    /\ undo \in [Tx -> Seq(UndoEntry)]
    /\ transaction_lock \in Tx \cup {NoTx}
    /\ inserted \subseteq Row

LogTypeOK ==
    /\ visited \in Nat
    /\ appends \in SUBSET Row /\ Cardinality(appends) <= VectorSize
    /\ file \in Seq(LogEntry)
    /\ synced \in 0..Len(file)
    /\ position \in 0..Len(file)
    /\ stored_entries \in Seq(LogEntry)

HistoryTypeOK ==
    /\ promised \in SUBSET Table
    /\ absorbed \in BOOLEAN
    /\ overlapped \in BOOLEAN
    /\ reordered \in BOOLEAN
    /\ refused \subseteq Tx

TypeOK == MemoryTypeOK /\ LogTypeOK /\ HistoryTypeOK

Idle ==
    /\ phase = [t \in Tx |-> "idle"]
    /\ start = [t \in Tx |-> NoTable]
    /\ view = [t \in Tx |-> NoTable]
    /\ removed = [t \in Tx |-> {}]
    /\ undo = [t \in Tx |-> << >>]

\* A new database: LoadDatabase has created the directory and an empty log.
Init ==
    /\ mode = "running"
    /\ crashes = 0
    /\ store = NoTable
    /\ Idle
    /\ transaction_lock = NoTx
    /\ inserted = {}
    /\ visited = 0
    /\ appends = {}
    /\ file = << >>
    /\ synced = 0
    /\ position = 0
    /\ stored_entries = << >>
    /\ promised = {}
    /\ absorbed = FALSE
    /\ overlapped = FALSE
    /\ reordered = FALSE
    /\ refused = {}

-----------------------------------------------------------------------------
(* Transactions. *)

BeginTransaction(t) ==
    /\ mode = "running"
    /\ phase[t] = "idle"
    /\ transaction_lock = NoTx
    /\ phase' = [phase EXCEPT ![t] = "running"]
    /\ start' = [start EXCEPT ![t] = store]
    /\ view' = [view EXCEPT ![t] = store]
    /\ UNCHANGED <<mode, crashes, store, removed, undo, inserted, transaction_lock,
                   writer, log, replay, history>>

\* One statement: what t sees afterwards and what its undo buffer gets.
Statement(t, table, entry) ==
    /\ phase[t] = "running"
    /\ view' = [view EXCEPT ![t] = table]
    /\ undo' = [undo EXCEPT ![t] = Append(@, entry)]
    /\ UNCHANGED <<mode, crashes, store, phase, start, transaction_lock, writer, log,
                   replay, promised, absorbed, overlapped, reordered>>

Others(t) == {u \in Tx \ {t} : phase[u] \in Live}

Changes(u, type) == \E i \in 1..Len(undo[u]) : undo[u][i].type = type

\* Bound: a name is used again only when nobody works on the dropped table.
CreateTable(t) ==
    /\ view[t] = NoTable /\ store = NoTable
    /\ \A u \in Others(t) : view[u] = NoTable
    /\ Statement(t, {}, Plain("CREATE_TABLE"))
    /\ UNCHANGED <<removed, inserted, refused>>

DropTable(t) ==
    /\ view[t] # NoTable /\ store # NoTable
    /\ \A u \in Others(t) : ~Changes(u, "DROP_TABLE")
    /\ Statement(t, NoTable, Plain("DROP_TABLE"))
    /\ UNCHANGED <<removed, inserted, refused>>

\* Bound: every row is inserted once in a run.
Insert(t, r) ==
    /\ view[t] # NoTable
    /\ r \notin inserted
    /\ inserted' = inserted \cup {r}
    /\ Statement(t, view[t] \cup {r}, InsertTuple({r}))
    /\ UNCHANGED <<removed, refused>>

\* A DELETE of every row.  Bound: where it would meet a row that a running
\* transaction has deleted, its client ends the transaction.
Query(t) ==
    /\ view[t] \notin {NoTable, {}}
    /\ \A u \in Others(t) : removed[u] \cap view[t] = {}
    /\ Statement(t, {}, Plain("QUERY"))
    /\ removed' = [removed EXCEPT ![t] = @ \cup view[t]]
    /\ UNCHANGED <<inserted, refused>>

\* A DELETE that finds no table.  Its text is in the undo buffer before it is
\* planned, and stays there for a client that carries on.  Bound: one at a time,
\* as the first statement.
FailedQuery(t) ==
    /\ view[t] = NoTable
    /\ undo[t] = << >> /\ refused = {}
    /\ Statement(t, NoTable, Plain("QUERY"))
    /\ refused' = refused \cup {t}
    /\ UNCHANGED <<removed, inserted>>

\* The transaction object moves on to the transaction manager's garbage.
Leave(t) ==
    /\ phase' = [phase EXCEPT ![t] = "ended"]
    /\ start' = [start EXCEPT ![t] = NoTable]
    /\ view' = [view EXCEPT ![t] = NoTable]
    /\ removed' = [removed EXCEPT ![t] = {}]
    /\ undo' = [undo EXCEPT ![t] = << >>]
    /\ UNCHANGED inserted

RollbackTransaction(t) ==
    /\ phase[t] = "running"
    /\ transaction_lock = NoTx
    /\ Leave(t)
    /\ refused' = refused \ {t}
    /\ UNCHANGED <<mode, crashes, store, transaction_lock, writer, log, replay, promised,
                   absorbed, overlapped, reordered>>

-----------------------------------------------------------------------------
(* Commit. *)

CommitTransaction(t) ==
    /\ phase[t] = "running"
    /\ transaction_lock = NoTx
    /\ transaction_lock' = t
    /\ phase' = [phase EXCEPT ![t] = "logging"]
    /\ UNCHANGED <<mode, crashes, store, start, view, removed, undo, inserted, writer, log,
                   replay, history>>

\* FlushAppends, for one table.
Flushed(rows) == IF rows = {} THEN << >> ELSE <<InsertTuple(rows)>>

\* Mutant of Logged: queries do not wait for the appends before them.
LoggedUnordered(e) ==
    IF e.type = "INSERT_TUPLE"
    THEN IF Cardinality(appends) = VectorSize
         THEN [entries |-> Flushed(appends), appends |-> e.rows]
         ELSE [entries |-> << >>, appends |-> appends \cup e.rows]
    ELSE [entries |-> <<e>>, appends |-> appends]

\* Mutant of Logged: a chunk is written when it is over full.
LoggedOverfull(e) ==
    CASE e.type = "INSERT_TUPLE" /\ Cardinality(appends) > VectorSize ->
            [entries |-> Flushed(appends), appends |-> e.rows]
      [] e.type = "INSERT_TUPLE" /\ Cardinality(appends) <= VectorSize ->
            [entries |-> << >>, appends |-> appends \cup e.rows]
      [] OTHER -> [entries |-> <<e>>, appends |-> appends]

\* What UndoBuffer::Commit writes for one undo entry, and the appends it keeps.
\* Tuples wait until their chunk is full or a query may refer to them; catalog
\* entries do not make them leave.
Logged(e) ==
    CASE e.type = "INSERT_TUPLE" /\ Cardinality(appends) = VectorSize ->
            [entries |-> Flushed(appends), appends |-> e.rows]
      [] e.type = "INSERT_TUPLE" /\ Cardinality(appends) # VectorSize ->
            [entries |-> << >>, appends |-> appends \cup e.rows]
      [] e.type = "QUERY" -> [entries |-> Append(Flushed(appends), e), appends |-> {}]
      [] OTHER -> [entries |-> <<e>>, appends |-> appends]

WriteEntry(t) ==
    /\ phase[t] = "logging"
    /\ visited < Len(undo[t])
    /\ LET e == undo[t][visited + 1]
           written == Logged(e)
       IN /\ file' = file \o written.entries
          /\ appends' = written.appends
          /\ reordered' = (reordered \/ (e.type = "DROP_TABLE" /\ appends' # {}))
    /\ visited' = visited + 1
    /\ UNCHANGED <<mode, crashes, memory, synced, replay, promised, absorbed, overlapped,
                   refused>>

\* The table after the commit of t.
After(t) ==
    IF Changes(t, "CREATE_TABLE") \/ Changes(t, "DROP_TABLE") THEN view[t]
    ELSE IF NoTable \in {store, view[t]} THEN store
    ELSE (store \ removed[t]) \cup (view[t] \ start[t])

\* The last appends and the flush mark.  fwrite has returned, nothing more.
WriteFlush(t) ==
    /\ phase[t] = "logging"
    /\ visited = Len(undo[t])
    /\ file' = file \o Flushed(appends) \o <<Plain("WAL_FLUSH")>>
    /\ appends' = {}
    /\ visited' = 0
    /\ phase' = [phase EXCEPT ![t] = "syncing"]
    /\ overlapped' = (overlapped
                      \/ /\ store # start[t]
                         /\ store = NoTable \/ Changes(t, "QUERY"))
    /\ UNCHANGED <<mode, crashes, store, start, view, removed, undo, transaction_lock,
                   inserted, synced, replay, promised, absorbed, reordered, refused>>

\* Mutant of Flush: the commit returns before the file is on disk.
FlushToCache(t) ==
    /\ phase[t] = "syncing"
    /\ store' = After(t)
    /\ Leave(t)
    /\ transaction_lock' = NoTx
    /\ UNCHANGED <<mode, crashes, writer, log, replay, history>>

\* FileSync returns, the transaction leaves and the client hears of its commit.
Flush(t) ==
    /\ phase[t] = "syncing"
    /\ synced' = Len(file)
    /\ store' = After(t)
    /\ Leave(t)
    /\ transaction_lock' = NoTx
    /\ UNCHANGED <<mode, crashes, writer, file, replay, history>>

-----------------------------------------------------------------------------
(* Crash and replay. *)

\* Memory is lost, and so is any end of the file that was not synced; the cut
\* may go through an entry.  A shutdown is a crash that loses nothing.
Crash ==
    /\ crashes < MaxCrashes
    /\ crashes' = crashes + 1
    /\ mode' = "replaying"
    /\ \E kept \in synced..Len(file) :
        /\ file' \in {SubSeq(file, 1, kept)}
                     \cup (IF kept < Len(file) THEN {Append(SubSeq(file, 1, kept), Torn)}
                           ELSE {})
        /\ synced' = Len(file')
    /\ promised' = IF mode = "replaying" THEN promised
                   ELSE {store} \cup {After(t) : t \in {u \in Tx : phase[u] = "syncing"}}
    /\ store' = NoTable
    /\ phase' = [t \in Tx |-> IF phase[t] \in Live THEN "ended" ELSE phase[t]]
    /\ start' = [t \in Tx |-> NoTable]
    /\ view' = [t \in Tx |-> NoTable]
    /\ removed' = [t \in Tx |-> {}]
    /\ undo' = [t \in Tx |-> << >>]
    /\ transaction_lock' = NoTx
    /\ visited' = 0
    /\ appends' = {}
    /\ position' = 0
    /\ stored_entries' = << >>
    /\ refused' = refused \ {t \in Tx : phase[t] = "running"}
    /\ UNCHANGED <<inserted, absorbed, overlapped, reordered>>

\* ReplayEntry on a table: the tables it may leave, none if it fails.
Replayed(table, e) ==
    CASE (table = NoTable) # (e.type = "CREATE_TABLE") -> {}
      [] table = NoTable /\ e.type = "CREATE_TABLE" -> {{}}
      [] table # NoTable /\ e.type = "DROP_TABLE" -> {NoTable}
      [] table # NoTable /\ e.type = "INSERT_TUPLE" -> {table \cup e.rows}
      [] table # NoTable /\ e.type = "QUERY" -> {{}}

\* The tables after the first i stored entries.
ReplayedAll ==
    LET after[i \in 0..Len(stored_entries)] ==
            IF i = 0 THEN {store}
            ELSE UNION {Replayed(table, stored_entries[i]) : table \in after[i - 1]}
    IN after[Len(stored_entries)]

\* The locals of Replay are gone.
CloseFile ==
    /\ position' = 0
    /\ stored_entries' = << >>

StopReplay ==
    /\ mode' = "recovered"
    /\ UNCHANGED store
    /\ CloseFile

\* Mutant of ReplayEnd: what follows the last flush mark is replayed as well.
ReplayRest ==
    /\ position = Len(file)
    /\ mode' = "recovered"
    /\ \/ ReplayedAll = {} /\ UNCHANGED store
       \/ store' \in ReplayedAll
    /\ CloseFile

ReplayEnd ==
    /\ position = Len(file)
    /\ StopReplay

\* A torn entry cannot be read to its end.  Where more was appended behind it,
\* its size reaches into what follows, and reading goes astray from there.
ReplayTorn ==
    /\ position < Len(file)
    /\ file[position + 1] = Torn
    /\ StopReplay

ReplayFlush ==
    /\ position < Len(file)
    /\ file[position + 1].type = "WAL_FLUSH"
    /\ \/ ReplayedAll = {} /\ StopReplay
       \/ /\ store' \in ReplayedAll
          /\ position' = position + 1
          /\ stored_entries' = << >>
          /\ UNCHANGED mode

StoreEntry ==
    /\ position < Len(file)
    /\ file[position + 1].type \notin {"WAL_FLUSH", "TORN"}
    /\ position' = position + 1
    /\ stored_entries' = Append(stored_entries, file[position + 1])
    /\ UNCHANGED <<mode, store>>

Replay ==
    /\ mode = "replaying"
    /\ ReplayEnd \/ ReplayTorn \/ ReplayFlush \/ StoreEntry
    /\ UNCHANGED <<crashes, phase, start, view, removed, undo, transaction_lock, inserted,
                   writer, log, history>>

\* fopen(path, "a+"): new entries follow whatever the file ends with.
Initialize ==
    /\ mode = "recovered"
    /\ mode' = "running"
    /\ promised' = {}
    /\ absorbed' = (absorbed \/ /\ file # << >>
                                /\ file[Len(file)].type # "WAL_FLUSH")
    /\ UNCHANGED <<crashes, memory, writer, log, replay, overlapped, reordered, refused>>

Next ==
    \/ \E t \in Tx :
        \/ BeginTransaction(t)
        \/ CreateTable(t) \/ DropTable(t)
        \/ \E r \in Row : Insert(t, r)
        \/ Query(t) \/ FailedQuery(t)
        \/ RollbackTransaction(t)
        \/ CommitTransaction(t) \/ WriteEntry(t) \/ WriteFlush(t) \/ Flush(t)
    \/ Crash
    \/ Replay
    \/ Initialize

Spec == Init /\ [][Next]_vars

-----------------------------------------------------------------------------
(* Properties. *)

Recovered == mode = "recovered" => store \in promised

\* A recovery brings back what the acknowledged commits made, whole, and at
\* most the one commit that was about to be acknowledged besides.  Exempt are
\* the four kinds of log that the code gets wrong: one appended to after a cut
\* went through its last commit, one with queries or tuples that ran on another
\* table than the log arrives at, one with tuples behind the DROP of their
\* table, and one with a query that failed.
CleanLogRecovers == absorbed \/ overlapped \/ reordered \/ refused # {} \/ Recovered
=============================================================================
