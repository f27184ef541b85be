# A TLA+ verification project for SummerDB

SummerDB is an embedded analytical SQL database in C++17, an early relative of
DuckDB: a Postgres-derived parser, a planner, pull operators over vectors of
1024 values, and an in-memory store with multi-version concurrency control, an
undo buffer per transaction, a catalog versioned the same way and a write-ahead
log. This directory holds TLA+ models of its concurrent core and of the way a
statement goes from parse tree to result, the TLC runs that check them and TLAPS
proofs about them. Paths below are relative to the
repository; line numbers are those of the commit that was modelled. The
repository has no tests: comments are the only statement of intent beside the
code.

## 1. Inventory

### Components, their state and their operations

| Component | State | Operations | Talks to |
|---|---|---|---|
| `TransactionManager` (`lib/Transaction/TransactionManager.cc`) | two timestamp counters, the query counter, three lists of transactions, `transaction_lock` | start, commit, rollback, remove with garbage collection | calls every undo buffer; called by `TransactionContext` on many threads |
| `Transaction`, `UndoBuffer` | start time, transaction id, commit id, active query; a list of tuple, catalog and query entries | push, commit (stamp and log), rollback, cleanup | storage chunks, catalog sets, the log |
| `TransactionContext`, `SummerDBConnection` | current transaction, auto-commit flag | query, begin, commit, rollback, destruction | transaction manager, planner, executor |
| `DataTable`, `StorageChunk` | chunks of 10240 rows: columns, deleted flags, version pointers, count, lock and reader count; tail pointer; statistics | scan, append, delete, update, undo, cleanup | undo buffers, unique indexes |
| `UniqueIndex` | a binary tree of keys with row identifiers | add, remove, append, update | chunks of the table |
| `Catalog`, `SchemaCatalog`, `CatalogSet` | per name a chain of versions | create, drop, lookup, undo | undo buffers |
| `WriteAheadLog`, `StorageManager` | a file of entries and flush marks | write, flush, replay, initialize | undo buffer at commit, the whole system at replay |
| Transformer, `Binder`, `BindContext`, `LogicalPlanGenerator`, optimizer (stub) | a chain of contexts: tables, columns read so far, aliases; the plan | transform, bind names, plan | catalog, statistics of tables |
| `PhysicalPlanGenerator`, `ColumnBindingResolver` | tables in the chunks of each operator, with offsets | choose operators, replace bindings by positions | plans of subqueries |
| `Executor`, physical operators | per operator: child chunk, positions, buffered rows; the result collection | `GetChunk`, until a chunk is empty | tables, expression executor |
| `ExpressionExecutor` | the vector of the last subexpression, the chunk, that of the query around it | execute, merge a predicate, aggregate | vector kernels, plans of subqueries |
| `SuperLargeHashTable` | cells of a group with its aggregates and count | add a chunk, resize, scan | scatter and gather kernels |
| Common types | values, vectors with selection and NULL marks, chunks, chunk collections, statistics | element-wise kernels, casts, copies | - |
| Buffer pool, pages | declarations only | - | - |

A connection runs one query at a time on the thread that calls it; any number
of connections run at once. They meet in the transaction manager (one mutex and
one atomic counter), in the chunks of each table (one mutex and a reader count
per chunk), in the catalog sets (one mutex each), in the indexes (one mutex
each) and in the log (written under `transaction_lock`).

### What is hard, and what makes each component correct

* *Garbage collection of versions.* A commit leaves versions behind that older
  transactions read. They may leave the tables when no active transaction
  started before the commit, and their memory may be freed when no running
  scan can hold a pointer to them. Both decisions are made by another
  transaction, much later, from counters that other threads write.
* *Snapshot reads.* A scan has the lock of the chunk, but commits, rollbacks and
  cleanups change version numbers and chains without it. Every scan must see
  its snapshot and its own writes.
* *Exact commits and rollbacks.* Writers check for conflicts under the chunk
  lock with row identifiers found earlier without it; statements can fail in
  the middle; rollback must bring back what was there.
* *Locks.* Reader count and mutex, exceptions with the lock held, the tail chunk
  changing between choosing and locking it.
* *Catalog versions, index reverts, log and replay.* The same questions for
  tables, keys and files: what a transaction started earlier sees, what is left
  after a failure in the middle, what a crash and a replay bring back.
* *Names and positions.* A column is a name, then a number within its table,
  then a position in a chunk that joins, filters and subqueries have put
  together. Every stage has its own state; a wrong position reads another column
  without any complaint.
* *Vectors.* A vector is a constant, or full, or selected, with NULL marks and
  old memory at the other positions; types are chosen from statistics that must
  bound every value.
* *Pull operators and the hash table.* Sequential, but resumable, with
  boundaries (vector size, capacity, offsets) that need long inputs to reach.

`PROJECT.json` lists each of these hazards at its line, with the properties
that would catch it or the reason why none does.

## 2. Modules

`TransactionManager` models the manager together with the part of a connection
that calls it. A member of `Tx` is a transaction object with its connection.
`phase` is the connection's program counter; `stage`, `unvisited`,
`lowest_start_time` and `lowest_active_query` are the program counter and locals
of `RemoveTransaction`, whose holder is `lock_holder`. An undo buffer is one
value: *empty*, *linked* into tables, *unlinked* (cleaned up or rolled back) or
*freed*. What is atomic in the model is atomic in the code or ordered by the
lock: `StartTransaction` is one step under `transaction_lock`; registering a
query is two (`GetQueryNumber` increments the atomic counter, `SetActiveQuery`
stores the result, both without the lock); commit and rollback are a step that
takes the lock, then one step per active transaction that the loop visits, one
that changes lists, one per transaction cleaned up, and one that frees and
releases the lock. A scan may hold a pointer to each version that was linked
when it began (`holding`). `late` remembers the queries that registered behind
the loop of a removal under way. The vector of active transactions is a set
because its order decides nothing; the two others are sequences.

`TransactionManagerProofs` holds the theorems about it. `DataTableProofs`,
`SnapshotIsolationProofs`, `CatalogSetProofs`, `WriteAheadLogProofs`,
`TableLocksProofs`, `UniqueIndexProofs` and `UniqueKeysProofs` do the same for
the models below (section 4).

`SnapshotIsolation` is the abstract promise of a table: a store, and for each
transaction a view, taken from the store at its start and changed by its own
writes only, published at commit.

`DataTable` models the rows of one chunk in detail: table data, deleted flags,
chains of versions, undo buffers entry by entry, the shared and exclusive lock.
A statement is a scan row by row, the wait for the exclusive lock, one step per
row pushed, and the step that overwrites the data and unlocks. Commit stamps
entry by entry, rollback undoes entry by entry, cleanup unlinks entry by entry,
interleaved with the statements of other transactions as the code allows. Data
are abstracted to the transaction that wrote them. `Committed` is the history a
transaction should see, kept apart from the versions in `writes`. Two details
of the code matter and are kept: a conflict leaves the function with the lock
held, and `PushTuple` saves the data of a row but not its deleted flag.
`clobbered` collects the rows where that loses information. `Unlink` is what
cleanup and undo do to a chain, one version at a time.

`CatalogSet` models the tables of a schema. Its heap is a sequence of entries
with the parent and child pointers of the code; `freed` marks those that a moved
`unique_ptr` destroyed, so that a use of one can be told. `CreateEntry` and
`DropEntry` are a step each, under `catalog_lock`. `GetEntry` takes a step per
entry of the chain, because commits stamp entries while it walks
(`transaction_lock` only). A DROP and an INSERT look their table up, release the
lock and act later. Commit, rollback and cleanup visit the undo buffer entry by
entry. An INSERT leaves a tuple entry that refers to the table its catalog entry
owns, nothing else of it is kept. Queries and the freeing of undo buffers are
left to `TransactionManager`. `written_by` is a history variable: who allocated
each entry. One table is loaded, because the log is replayed before connections
open; a name never used has no entry, which the dummy entry of the first CREATE
changes.

`WriteAheadLog` models one table with its rows, the undo buffers as far as they
are logged, the file and its replay. A commit holds `transaction_lock`, logs its
undo entries one by one and keeps inserted tuples in `appends`, as
`UndoBuffer::Commit` does; then the flush mark, then the sync that makes it
durable and lets the client know. A crash can fall between any two of these
steps. It keeps what was synced and any prefix of the rest, with the next entry
cut or not: the model assumes that the file system keeps a prefix of what
was written. `Replay` reads the file entry by entry, runs what it stored at each
flush mark, and may be interrupted by the next crash. `Initialize` opens the
same file for appending, behind whatever it ends with. A query is a DELETE of
all rows, which depends on every row before it; it is logged as text and run
again on what replay arrives at. Bounds: a row is inserted once in a run, a name
is created again only when nobody works on the dropped table, a client whose
DELETE meets a conflict ends its transaction, one failed DELETE at a time. Four
history variables tell the logs that the code gets wrong (section 3).

`TableLocks` models what `DataTable` leaves out: the list of chunks with its
unprotected tail pointer, the mutex and reader count of each chunk, the mutex of
the index. A member of `Thread` is a connection with one statement at a time and
`pc` is where it is in it. `Lock` and `Drain` are the two halves of
`GetExclusiveLock`, so that a thread can hold the mutex and still wait for
readers. An append reads the tail, locks it, checks it, asks the index, writes
what fits, counts it, links the next chunk and fills it, a step each;
`current_count` is the local that says how much fits. A scan is one step per
vector. What rows hold is left open: which chunk has an equal key
and whether it conflicts is any choice, a row is its identifier. `placed` and
`appended` are the set and the number of rows written, which differ as soon as
two are written in one place. Bounds: one index, one equal key per statement and
that of a counted row; an append that would subtract past zero in a chunk filled
over its size is not followed, which only unlocked appends can reach; the build
has no assertions, since the one in `Delete` and `Update` on a row's position
fails in every chunk but the first (section 5).

`UniqueIndex` models a table with UNIQUE and PRIMARY KEY constraints and the
binary tree of each, node by node: `AddEntry`, `RemoveEntry`, `Append` and
`Update` with the revert of a statement that fails in the middle. An entry has
its key, the number of its row and pointers to its parent and children; a key is
the tuple of its columns, ordered column by column; columns are small integers
and NULL, which keeps a row out of a UNIQUE index. A search is `Walk` along
`Towards`, the next entry for the key. A statement enters the keys of one index
after the other (`EnterKeys`, under `index_lock`), each with the comparisons
that `AddEntry` makes on its way (`Compared`, `Conflicts`), then writes its
rows. A rollback takes back one entry of its undo buffer per step, in any order
of rows, each row newest first. It holds `transaction_lock`, so that nobody
begins or commits meanwhile, but neither the lock of the chunk nor `index_lock`:
its steps fall between those of any statement. They fall inside a call of
`AddEntries` as well, which is one step, taken when it ends: `earlier` is what
each row held before the undos that came since the call may have begun, and
`Readings` lets the call read any of that, the flag and the columns each on
their own; the version pointer it reads later (`UniqueIndex.cc:76`).
`RevertIndex` is what `Append` takes back of one index. The code holds no
`index_lock` there; the model lets the statements of other connections fall
between two indexes, not between two entries of one. A commit and the writes of
a statement are one step each and versions stay in their chains, because
`DataTable` has the rest. `fault` names what stops the process: an entry
that leads past the counted rows (`chunk_of_no_row`), and a removal of a null
pointer (`no_entry`), of an entry with children (`inner_entry`), of one whose
parent is gone (`freed_parent`) or does not link to it (`wrong_parent`).
`unlocked`, `dirty`, `torn` and `clobbered` mark the rows for which the code
does not keep the constraint (section 3).

`Vectors` has the data that queries compute with: values, vectors of
`VectorSize` positions, chunks, the kernels on them and the statistics of
columns. A vector has all of its positions, so that what a kernel leaves at an
unselected one is there to be read later. `junk` is what uninitialized memory
holds. Integers have as many bits as `Width` says and wrap around; booleans are
0 and 1. It has no behaviour and is the ground of the next two.

`Expressions` computes a query over one table: `Bind` resolves types and
statistics and adds the casts of the planner; `Scan`, `Filter`, `Project`,
`Aggregate` and `Finish` are a call of an operator each, on a chunk. `Eval` is
the `ExpressionExecutor` with arithmetic, comparisons, AND, OR, NOT, IN, EXISTS,
CASE, casts, constants, columns and subqueries, which run for every row with the
chunk of the query around them. Beside each chunk the model keeps the rows that
SQL asks for, computed from `Meaning`, one row at a time with numbers of any
size. `Flawed` names what the code is known to compute wrongly; a query that
meets one of these is `excused` from then on.

`QueryExecution` runs plans. `root` is the tree of operators, each with the
state it keeps between calls: child chunk, positions, buffered and sorted rows,
hash table, and `bad`, set when the operator meets a known flaw. `Fetch` is a
round of the loop of `Executor::Execute`: one `GetChunk` of the root with all
calls that it makes below, then the append to the result. `Insert` is a row of
an INSERT of values, or the whole of one from a query; `Write` is a chunk of a
DELETE or UPDATE. The expressions in it are columns, constants and comparisons, because
`Expressions` has the others. `RowsOf` and `Meant` are what a plan means.

`QueryPlanning` takes a parse tree through `Bind`, `PlanLogical`, `PlanPhysical`
and `Execute`. The first three translate the transformer, the binder with its
contexts, the logical plan generator with join conditions and visitors, and the
physical plan generator with the column binding resolver; all of them may
reject a statement. `Execute` reads columns at the positions the plan has for
them. `MeantRows` and `MeantContents` compute a statement from its parse tree
alone, with names looked up where SQL says.

`MCTransactionManager`, `MCDataTable`, `MCCatalogSet`, `MCWriteAheadLog`,
`MCUniqueIndex`, `MCTableLocks`, `MCExpressions`, `MCQueryExecution` and
`MCQueryPlanning` are the instances for TLC; the first five add the symmetry of
transactions, names and rows, the last three the tables, plans and statements.

Operators named as mutants in a comment are deliberately wrong versions of the
definition below them; replacing the definition by one of them must make the
property named for it in `PROJECT.json` fail.

## 3. Runs

| Run | Question | Bounds |
|---|---|---|
| `tm_safety` | Are cleanup and freeing right for every active transaction and every query registered in time? | 3 transactions, query numbers to 4 |
| `tm_liveness` | Does auto-commit always end, is garbage collected, is the invariant of the proofs true? | 2 transactions, query numbers to 4 |
| `tm_late_registration` | Does the same hold for every query? (no) | as `tm_safety` |
| `dt_snapshots` | Does every transaction read its snapshot, and are commits and rollbacks exact? | 3 transactions, 4 statements, 1 row loaded and 1 to insert |
| `dt_refinement` | Does the table implement `SnapshotIsolation` without deletes? | 3 transactions, 3 statements, same rows |
| `cs_versions` | Does every lookup find the version of its snapshot, is no destroyed entry used, are chains and undo consistent, are old versions destroyed? | 3 transactions, 2 names, 4 statements |
| `wal_recovery` | Does a recovery bring back exactly the acknowledged commits? | 3 transactions, 3 rows, chunks of 2, 2 crashes |
| `tl_locks` | Do statements on a growing table exclude each other, place and scan every row once, and end? | 2 threads, 4 statements, chunks of 4 rows, vectors of 2, 7 rows loaded |
| `ui_keys` | Have no two visible rows equal keys, does a search find every key, does a rejected INSERT leave no entry and what does taking it back meet? | 2 transactions, 2 indexes, one on two columns, 3 statements, 5 rows, chunks of 2 (213318 states) |
| `expressions` | Does every chunk of a query hold the rows that SQL asks for, well formed, and do statistics bound every value? | vectors of 3, integers of 3, 4, 5 and 8 bits, 1 or 2 chunks, 49 queries |
| `query_execution` | Do plans return what they mean however rows fall into chunks, do collections, sorting and hash table keep their order? | vectors of 3, tables of up to 3 chunks, hash tables of 3, 6 and 12 cells, 57 plans |
| `query_planning` | Is a statement accepted when its names are unambiguous, and does its plan mean what it means? | 2 tables of 3 rows, 3 tables in a FROM, subqueries 2 deep, 1511 statements |

*Why the bounds are enough.* Garbage collection needs three roles: one
transaction that committed, one whose query reads, one whose end triggers the
collection. Each is a member of `Tx`, and each needs a query number, with one
to spare for a second statement. Timestamps are bounded by the number of
transactions, so `TransactionIdStart` = 20 is never reached. In a chunk, three
transactions give a reader, a writer and a transaction between them, and chains
of three versions; two rows give statements that hit one row and fail on the
next. In the catalog, four
statements on one name give a chain of a loaded, a dropped, a created and a
dropped version, from up to three transactions, of which one can be the reader
whose snapshot lies between; the second name is one that nobody has used. For
the log, three commits give one before, one across and one after a crash; three
rows fill a chunk of two and begin the next; the second crash can hit the replay
of the first or the commits after it. For the locks, two threads give a holder
and a waiting statement; the last of the two loaded chunks has room for one row,
so that appends end it and link a third and a fourth; four statements reach
every way in which the locks go wrong, and its consequences: without the
exemption of an unbalanced count, `MutualExclusion` is violated. For the
indexes, two transactions are one that rolls back and one whose call reads around
an undo, and three statements are an insert or delete, its undo and a rival; when
`torn` exempts nothing, `UniqueKeys` is violated after 11 steps. In the last
three runs the inputs decide: vectors of three positions have a first, a middle
and a last one, so that selections leave out any of them; the widths of the
integers are such that sums and products leave each type, but not BIGINT;
tables of two or three chunks end before, at and after the end of a vector; the
hash of the instance sends groups to one cell and to the last one, and six
groups double the table twice. The statements of `query_planning` combine every SELECT
list with every FROM and WHERE of the instance: a table twice, two tables with a
column of one name, joins on either side of a join, subqueries in subqueries
that read both levels around them. For the manager, the data table, the
catalog, the locks, the log and the indexes, the theorems of section 4 say what the runs
say, without these bounds; where a bound is a guard of the model (a row is
inserted once, a name is created again when nobody works on it), the theorems
have it too.

*Deadlock.* The runs say `CHECK_DEADLOCK FALSE`: clients may stop, every
transaction may end, the last crash may be over, and in `DataTable` and
`TableLocks` the lock left behind by a conflict does stop the statements of the
chunk. In `Expressions`, `QueryExecution` and `QueryPlanning` a query ends.

*Fairness.* `FairSpec` assumes weak fairness of the steps a running thread takes
by itself: storing its query number, ending a scan, ending a query, each step
of a removal. It assumes strong fairness of the commit or rollback that follows
a query in auto-commit mode, because its thread waits for a mutex that others
take again and again, and a thread that keeps waiting is let in eventually.
Nothing makes a client start a transaction, issue another statement or end an
explicit transaction. `GarbageIsCollected` is therefore conditional: it asks for
the collection of finished transactions only where the manager is idle again
and again. In `TableLocks` weak fairness of a thread's own steps is enough, also
where it waits for a mutex: the statements of a run are bounded, so nothing
overtakes a waiting thread for ever. How fair a mutex is, is not modelled.

*What the violated run shows.* `tm_late_registration`: `RemoveTransaction` reads
`active_query` of the other transactions in its loop and frees memory at its end
with the bound found then. `Connection.cc:93` stores `active_query` without the
lock. A query that stores it after the loop has passed is not counted, and the
versions it walks are unlinked and freed by the same call. The comment in lines
112-123 of `TransactionManager.cc` says this must not happen.
`RegisteredReadersSafe`, which holds and is proved, says it cannot happen to any
other query.

*What the passing runs exempt.* Where the code goes wrong, the model follows it,
marks what it has spoiled, and the properties are stated for the rest. Each
exemption is needed: without it TLC finds the property violated.

* `DataTable`: a transaction deletes a row whose delete was committed after it
  started, and rolls back; the row is there again for everybody (`clobbered`).
* `CatalogSet`: a transaction that still sees a table whose DROP has committed
  inserts into it and commits. Cleanup goes in commit order, so the DROP destroys
  the table before the versions in its chunks are cleaned up.
  `NoDestroyedEntryIsUsed` speaks of lookups, stamps and undo, which never meet
  a destroyed entry.
* `WriteAheadLog`, four kinds of log. The tail that a crash leaves behind the
  last flush mark is skipped once, then appended to: whole entries in it are
  replayed as part of the next commit, behind an entry that was cut nothing is
  read any more (`absorbed`). `INSERT` and `DROP TABLE` in one transaction are
  logged in the opposite order; replay fails at the tuples and gives up
  everything behind them (`reordered`). The text of a DELETE or UPDATE is in the
  undo buffer before the statement is planned; if it fails in an explicit
  transaction that goes on and commits, replay fails at it and stops
  (`refused`). Since queries are logged as text and tuples by the name of their
  table, a transaction whose snapshot is not the table that the log arrives at
  may be replayed with another outcome (`overlapped`).
* `UniqueIndex`, rows and not keys: an update of an earlier chunk compares with
  rows of the last one, whose lock it does not hold, so that an INSERT may be
  writing them meanwhile (`unlocked`); `Update` takes the columns
  it does not set from the row before it looks for a conflict, and indexes what
  another transaction may roll back (`dirty`); `AddEntry` reads the flag and the
  columns of a row, then its version pointer, and a rollback in between shows it
  a deleted or changed row and no version, so that it lets in the key which the
  rollback restores (`torn`); a row is written over a delete
  that was committed meanwhile, and a rollback brings it back (`clobbered`); for
  its own snapshot, a row that a transaction wrote over a newer commit
  (`Overtaken`). Of all other rows `UniqueKeys` holds.
* `Expressions`: the comment above `Flawed` lists them. The most common ones:
  AND and OR with a constant side under a selection, an operator computed in the
  type of its operands although its own was widened, division that compares with
  uninitialized memory, IN over selected rows. An aggregate that has seen no row
  reads a vector that nobody filled. `Scan` marks rows to which old NULL marks
  of the reused chunk add a NULL. The statistics of remainders are
  right for numbers that are not negative, those of SUM for columns that are not
  negative throughout.
* `QueryExecution`, where an operator sets `bad` or a table `flawed`: ORDER BY
  over more than one vector of rows repeats the first ones
  (`PhysicalOrder.cc:148` has no position); LIMIT returns an empty chunk before
  its offset is reached, which ends the query, and hands selected rows on
  unselected; NULL marks behind the end of a vector count for the rows appended
  next, and those of a vector that is split move; a probe of the hash table that
  runs over its end uses the memory behind the last cell before it wraps around,
  so that `GroupsFound` speaks of tables in which none did; the hash table
  initializes COUNT by the kind of another aggregate, loses counts when it grows
  and all groups behind the first vector when it is scanned.
* `QueryPlanning` (`Flawed`): an alias used in WHERE or in the SELECT list reads
  the column of that number; columns added for ORDER BY count in DISTINCT; the
  bottom of a UNION reads the columns that its top reads; ON conditions that are
  no comparisons of columns are dropped or pushed where their columns are not; a
  DELETE without WHERE dereferences a null pointer.

In `TableLocks`, `spoiled` and `Deadlocked` tell how the locks go wrong, and
each property exempts only the ways that affect it. When the tail changes while
`Append` waits for it, the `continue` of `DataTable.cc:142` leaves
`do ... while (false)`, and the append goes on without the lock of the new tail,
which another append may be filling. Besides the unlocked append:
a conflict is thrown with the chunk locked (`abandoned`); an equal key that does
not conflict leaves a count behind (`leaked`); a comparison asks twice whether a
chunk is the last and, when an append moved the tail between, gives back a count
it never took (`unbalanced`); and a comparison waits for a chunk that its own
update holds, or whose holder waits for the index (`Deadlocked`).

*Modelled and not promised.* The conflict check looks for uncommitted versions
only, so of two concurrent updates the later one may overwrite a commit it did
not see. Nothing in the repository promises otherwise, and `SnapshotIsolation`
allows it. A transaction that goes on after a failed UPDATE may read newer data
of the rows that the statement pushed; `ReadsSnapshot` exempts them.
`DropEntry` does nothing and reports success when the newest version is deleted,
also when another transaction committed that since the lookup.
`StartTransaction` checks the timestamp counter against `TRANSACTION_ID_START`,
commits do not; the models stay below it.

## 4. Proofs

Each module `...Proofs` proves theorems about the model of that name for every
value of its constants: any number of transactions, rows, names, threads,
statements and crashes, any size of a chunk. The assumptions are the named
`ASSUME`s of the modules (counters are natural numbers, `NoTx` is no
transaction, sizes are positive), no more; TLC evaluates them on every run.
Each theorem about a property is `Spec => []Property`, with the property as the
runs check it, exemptions included. None of the properties is inductive alone.
Each module states an inductive invariant, one named conjunct per idea, with a
lemma per conjunct that every step preserves it and, in each, one step per
action. The one of the manager is also checked by a run (`tm_liveness`);
those of the log and of the indexes were checked by TLC on the instances of
`wal_recovery` and `ui_keys` first.

*`TransactionManagerProofs`*: type correctness, `IInv`,
`CleanedBehindEveryReader`, `RegisteredReadersSafe`,
`RecentlyCommittedIsOrdered`, `QuiescentMeansCollected` and the action property
`FreedOnlyAfterUnlinking`. That a reader in time keeps its versions needs: a
bound in the remover's local is a true bound on every transaction behind its
loop (`BoundsInv`), which needs the lock, the lists and the phases to agree
(`LockInv`); a version that a reader holds was retired under a query number
above the reader's (`HoldingInv`), which needs numbers to come from one counter.
That versions are cleaned up behind every reader needs the order of timestamps
(`TimeInv`), and what is in which list in which condition (`UnfinishedInv`,
`RemovedInv`, `RecentInv`, `OldInv`).

*`DataTableProofs`*: type correctness, `ChainOrdered`, `NewestIsCommitted` and
`ReadsSnapshot`. The chain of a row goes from uncommitted versions to older and
older commits (`OrderInv`), because a writer that finds an uncommitted version
of another transaction in front gives up, and commit ids are drawn under the
lock from one clock (`ClockInv`). Chains and undo buffers name each other's
entries (`LinkInv`), and a version is in its chain until no running transaction
overlaps its writer (`KeptInv`): so cleanup never takes one that a reader still
needs. `ContentInv` is the heart: the oldest version that was not committed at
some time `s` has the data that were committed at `s`. With it, what a reader
finds behind the versions it must not see is its snapshot, and what rollback
puts back is what was committed. `PresentInv` says the same of the row itself,
`StatementInv` what a statement in the middle has already pushed.

*`SnapshotIsolationProofs`* proves that `DataTable` implements
`SnapshotIsolation`, under the same two conditions as the run `dt_refinement`:
no DELETE is issued, and a failed statement ends its transaction. (Without the
first, `clobbered` rows lose a commit; without the second, a transaction that
goes on reads what its own failed UPDATE let through: see section 3.) Every
action is shown to be a step of the abstract specification or a stutter: a
commit publishes all at once when its id is drawn, and stamps, undone entries
and cleanups are stutters (`RefinementStep`). It needs in addition that a statement only found rows that its
snapshot has (`FoundInv`), that an UPDATE is half done only while it runs
(`HalfInv`), that it never pushes a row twice (`OnceInv`), and that no row is
exempt under these conditions (`NoDeleteInv`).

*`CatalogSetProofs`*: type correctness, `LookupSeesSnapshot`,
`NoDestroyedEntryIsUsed`, `UndoneIsNewest`, `ChainsIntact` and
`OldVersionsDestroyed`. Parents and children are inverse to each other and
nothing in a chain is freed (`LinkInv`, `NewestInv`); each version but the
newest is in exactly the undo buffer of the transaction that replaced it, in the
order of the chain (`PendingInv`, `BufferInv`); writers follow each other in
commit order (`SuccessionInv`, `WriterInv`, `StampInv`), and whatever cleanup
takes is behind the last version that any active transaction could stop at
(`LastInv`, `GapInv`). `LookupInv` says of a walk that is under way that no
version it has passed belongs to its snapshot, whatever was stamped meanwhile.
From the order of undo follows that the branch of `CatalogSet::Undo` for an
entry that is not the newest is never taken.

*`WriteAheadLogProofs`*: type correctness (a chunk of tuples is never over full)
and `CleanLogRecovers`. `Leads(s, m, n, a, b)` says that the entries of `s`
behind `m`, up to `n`, bring replay from table `a` to table `b`. What is synced
ends with a flush mark and leads from no table to the committed one
(`SyncedInv`); what a running commit has logged leads from there, with the
tuples that wait, as far as the part of its undo buffer that it has visited
(`LoggingInv`, where the order of tuples, queries and catalog entries matters),
and with its mark to the table after the commit (`SyncingInv`). This needs that
the undo buffer leads from a transaction's snapshot to its view (`StatedInv`),
that it does so from the committed table as well if the commit overlaps no other
one or depends on no row (`UndoLeadsToAfter`), and that a table which a
transaction has created is the only one (`CreatedInv`). Behind a crash,
`ReplayingInv` says that what replay has not run yet, up to the last mark, leads
from where it is to a table that was promised. `ReplayedAll` is a recursive
function; what it computes is found by looking at the smallest index where it
would differ, which needs no induction over data.

*`TableLocksProofs`*: type correctness, `MutualExclusion`, `RowsOnce` and
`ScanComplete`. Whoever is inside a chunk holds its mutex, and an append is in
the last chunk (`HeldInv`); every reader is counted (`DrainedInv`); all chunks
but the last are full, and the rows placed are those counted and those that the
one append has written but not counted yet (`RowsInv`); a scan has read all rows
up to its place (`ScanInv`).

*`UniqueIndexProofs`*: type correctness, `EveryKeyIsFound`,
`RejectedInsertsLeaveNoEntry` and `RevertsRemoveLeaves`. The heart is
`SearchTree`: every entry is linked once (`Linked`) and the search for its own
key comes past it (`Placed`). It holds of the loaded trees and survives
`Attach`, the removal of a leaf, and that of a root, which hangs one subtree
into the other. A search is the smallest set of entries that has the root and
with each entry the next one for the key (`SearchClosed`, `SearchWithin`); that
an entry is still found after a change is shown by adding the removed root to
the search in the changed tree, which gives such a set in the old one. So no
induction over trees is needed. `VersionsHaveEntries` says that every value a
row has or a rollback could restore has its entry, `UpdatesHaveEntries` that so
do the values an UPDATE is about to write; reverts leave these entries alone,
because `EntriesOfInserts` says that entries past the counted rows are those
that the one INSERT on its way has remembered, youngest last, each hung below an
older one, and so a leaf or the root
when its turn comes, unless an update has hung another entry below it.

*`UniqueKeysProofs`*: `UniqueKeys`. `View(r, S)` is what a reader finds in row
`r` who sees the versions of the transactions `S`; both what is committed and
every snapshot are views (`ReadIsView`). `CommitsApart` is stronger than the
property: keys stay apart whichever running transactions commit next, and
`SnapshotsApart` is the property's second half. A statement that has entered its
keys and not yet written its rows has excluded them for all others: no other row
shows the key to a reader who sees the statement (`KeysFree`), and no other
statement has entered it (`KeysDiffer`). This is where the trees come in: a row
that shows the key has an entry for it, the search comes past that entry, and
`AddEntry` takes it for a conflict unless the view is none of the readers'
(`ConflictInView`) or it has read the row as it was before an undo; those rows
are excepted (`ReadOrTorn`). `ChainsOrdered` says that uncommitted versions are in front
and of one transaction, `ClockAhead` that a new snapshot sees all that is
committed. A commit needs `CommitsApart` in its full strength: what others see
afterwards is what they would have seen if it was the next to commit. A
transaction that has begun to roll back will not commit (`Running`), and an
undone entry changes no view but its own (`UndoneView`).

*What stays with TLC.* Liveness (`AutoCommitCompletes`, `GarbageIsCollected`,
`StatementsEnd`), which depends on fairness and ENABLED. `Expressions`,
`QueryExecution` and `QueryPlanning` are written with RECURSIVE operators, over
expressions, plans and parse trees, which the prover does not take; what these
compute for every input is an induction over data.

## 5. Not modelled yet, and the plan

In this order; each with its own TLC run, and proofs where named.

1. *Relinking of versions*: the loads and stores of `PushTuple`, `Cleanup` and
   `Undo` under their different locks.
2. *Row identifiers across chunks*: alternate versions without `start`, and the
   assertion on a row's position, which subtracts it first.
3. *Proofs*: of `Vectors`, what the kernels do to positions that are not
   selected.

Not modelled:

* of `Expressions` and `Vectors`: strings, decimals, dates and pointers, whose
  kernels are those of the integers with another operation; string functions,
  LIKE, CONCAT and EXTRACT; what a hash computes.
* of `QueryExecution`: `PhysicalCopy` and `PhysicalCreate` (files and the
  catalog), index updates and versions of the rows that are written, which
  `DataTable` and `UniqueIndex` have.
* of `QueryPlanning`: the transformation of expressions, node by node, from the
  vendored grammar; types and casts; CREATE, COPY and EXPLAIN; outer joins,
  which the operators refuse; HAVING other than on aliases, and with DISTINCT or
  UNION; ON conditions that read a query around theirs; names in the column list of an INSERT
  that the table does not have; chains of UNION and UNION ALL; ORDER BY of a
  UNION, which is dropped; aggregates without groups beside columns; subqueries
  in SET, which are never planned. In the last seven the code either throws or
  does what it likes, and there is no meaning to compare it with.
* the vendored parser, the optimizer and the buffer pool (stubs), the profiler,
  the C interface, string and file helpers.

## 6. Running

`tlc -config MCTransactionManager.cfg MCTransactionManager.tla`, likewise with
the other configurations; `tlapm TransactionManagerProofs.tla`, likewise with
the other modules named `...Proofs`. The runs take from seconds to about two
minutes with two workers, the proofs of a module between half a minute and a
quarter of an hour.
