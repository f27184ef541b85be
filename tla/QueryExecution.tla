--------------------------- MODULE QueryExecution ---------------------------
(***************************************************************************)
(* How a plan runs: a tree of operators, each with the state that it keeps *)
(* between two calls of its GetChunk, and the loop of Executor::Execute    *)
(* that pulls chunks from the root until one is empty.  Every operator     *)
(* takes the first empty chunk of a child for the end of its rows, may     *)
(* call a child again after that, and is handed the same chunk again and   *)
(* again, whose NULL marks Reset leaves alone.                             *)
(*                                                                         *)
(* Expressions are columns, constants and comparisons of the two; all      *)
(* columns have one type.  Expressions.tla has the rest of them.           *)
(***************************************************************************)
EXTENDS Vectors

CONSTANTS
    Tables,            \* contents at the start: table -> sequence of chunks of rows
    Plans,             \* statements: [op, arg, kids] with plans as kids
    Hash,              \* what a value adds to the hash of a group
    InitialCapacity,   \* cells of a hash table: 1024, the size of a vector
    TupleSize,         \* bytes of a cell
    Empty,             \* a cell without a group
    Gone               \* a row that was deleted

VARIABLES
    tables,    \* what the statement reads
    root,      \* the plan, with the state of every operator
    result,    \* ChunkCollection of Executor::Execute
    written,   \* the tables with what the statement has written
    pc

vars == <<junk, tables, root, result, written, pc>>

Writing == {"INSERT", "UPDATE", "DELETE"}

-----------------------------------------------------------------------------
(* Chunks and ChunkCollection                                              *)

\* DataChunk::Reset
Reset(c) ==
    [count |-> 0, sel |-> NoSel,
     cols |-> [k \in DOMAIN c.cols |-> [Initialize(c.cols[k].type) EXCEPT !.null = c.cols[k].null]]]

Truncated(c, n) ==
    [c EXCEPT !.count = n, !.cols = [k \in DOMAIN c.cols |-> [c.cols[k] EXCEPT !.count = n]]]

Rows(collection) == FlattenSeq([i \in DOMAIN collection |-> ChunkRows(collection[i])])

\* the new chunk that takes the rows of c for which the last one has no room
Rest(c, added) ==
    [count |-> c.count - added, sel |-> NoSel,
     cols |-> [k \in DOMAIN c.cols |-> Copy(c.cols[k], Initialize(c.cols[k].type), added)]]

\* mutant: the last chunk is not filled up
AppendApart(collection, c) == IF c.count = 0 THEN collection ELSE Append(collection, Rest(c, 0))

\* ChunkCollection::Append: first the last chunk is filled
AppendChunk(collection, c) ==
    LET n == Len(collection)
        last == collection[n]
        added == IF n = 0 THEN 0 ELSE Smaller(c.count, VectorSize - last.count)
        part == Truncated(c, added)
        filled == IF added = 0 THEN collection
                  ELSE [collection EXCEPT ![n] =
                           [count |-> last.count + added, sel |-> NoSel,
                            cols |-> [k \in DOMAIN last.cols |-> AppendVector(last.cols[k], part.cols[k])]]]
    IN  IF c.count = 0 THEN collection
        ELSE IF added = c.count THEN filled
        ELSE Append(filled, Rest(c, added))

\* a known flaw: marks past the end of a vector count for the rows appended next,
\* and marks of a vector that is split are shifted away from their rows
Mismarks(collection, c) ==
    /\ c.count > 0
    /\ LET last == collection[Len(collection)]
           split == collection # <<>> /\ last.count \in VectorSize - c.count + 1 .. VectorSize - 1
       IN  \/ split /\ \E v \in ToSet(c.cols) : v.sel = NoSel /\ v.null # {}
           \/ collection # <<>> /\ last.count < VectorSize
              /\ \E v \in ToSet(last.cols) : \E p \in v.null : p >= last.count

-----------------------------------------------------------------------------
(* AggregateHashtable.cc: open addressing with linear probing              *)

NewTable(size) ==
    [cells |-> [i \in 0 .. size |-> Empty], capacity |-> size, entries |-> 0, flawed |-> FALSE]

\* a probe leaves the table at cell `capacity', one past its end, before it wraps around
Path(ht, key, n) ==
    ((FoldLeft(LAMBDA h, x : h + Hash[x], 0, key) % ht.capacity) + n) % (ht.capacity + 1)

\* mutant: cells are taken for those of the group before they are compared
ProbeUncompared(ht, key) ==
    Path(ht, key, Min({n \in 0 .. ht.capacity :
        ht.cells[Path(ht, key, n)] = Empty \/ (n > 0 /\ ht.cells[Path(ht, key, n)].key[1] = key[1])}))

\* the cell of a group, or where it will be
Probe(ht, key) ==
    Path(ht, key, Min({n \in 0 .. ht.capacity :
        ht.cells[Path(ht, key, n)] = Empty \/ ht.cells[Path(ht, key, n)].key = key}))

\* the aggregates that have a place in a cell: COUNT(*) is the count of every cell
Payload(aggs) == SelectSeq(aggs, LAMBDA a : a.fn # "COUNT_STAR")

\* mutant: a NULL is a number like others
ScatterNull(fn, x, old) ==
    IF Null \in {x, old} THEN x ELSE IF fn = "SUM" THEN Wrap(old + x, INTEGER) ELSE Smaller(old, x)

\* VectorScatter.cc: a NULL changes nothing, and a NULL in the cell is replaced
Scatter(fn, x, old) ==
    CASE x = Null -> old
      [] x # Null /\ old = Null -> x
      [] x # Null /\ old # Null ->
            CASE fn = "COUNT" -> old + 1
              [] fn = "SUM" -> Wrap(old + x, INTEGER)
              [] fn = "MIN" -> Smaller(old, x)
              [] fn = "MAX" -> Larger(old, x)
              [] fn = "FIRST" -> old

\* one row of AddChunk.  The cell is initialized by the kinds of the aggregates in
\* the order of the payload, which is another one where COUNT(*) is among them.
AddRow(ht, aggs, key, values) ==
    LET pay == Payload(aggs)
        at == Probe(ht, key)
        new == ht.cells[at] = Empty
        zero == [j \in DOMAIN pay |-> IF aggs[j].fn = "COUNT" THEN 0 ELSE Null]
        cell == IF new THEN [key |-> key, pay |-> zero, count |-> 0] ELSE ht.cells[at]
    IN  [ht EXCEPT !.entries = IF new THEN @ + 1 ELSE @,
                   !.flawed = @ \/ at = ht.capacity
                                \/ \E j \in DOMAIN pay : (aggs[j].fn = "COUNT") # (pay[j].fn = "COUNT"),
                   !.cells[at] = [cell EXCEPT !.count = @ + 1,
                       !.pay = [j \in DOMAIN pay |-> Scatter(pay[j].fn, values[j], cell.pay[j])]]]

\* SuperLargeHashTable::Scan: the next vector of full cells, from a position that
\* is left behind in bytes and taken for a number of cells
ScanTable(ht, position) ==
    LET start == position * TupleSize
        full == SelectSeq([i \in 1 .. ht.capacity - start |-> start + i - 1],
                          LAMBDA i : ht.cells[i] # Empty)
        found == SubSeq(full, 1, Smaller(Len(full), VectorSize))
        stop == IF Len(found) = VectorSize THEN found[VectorSize] + 1 ELSE ht.capacity
    IN  IF found = <<>> THEN [found |-> <<>>, position |-> position]
        ELSE [found |-> [i \in DOMAIN found |-> ht.cells[found[i]]],
              position |-> (stop - start) * TupleSize]

RECURSIVE AddChunk(_, _, _), Rehash(_, _, _, _)

\* Resize, of a table with no room for a vector
Room(ht, aggs) ==
    IF ht.entries <= ht.capacity \div 2 /\ ht.capacity - ht.entries > VectorSize THEN ht
    ELSE IF ht.entries = 0 THEN [NewTable(2 * ht.capacity) EXCEPT !.flawed = ht.flawed]
    ELSE Rehash(ht, aggs, ScanTable(ht, 0), NewTable(2 * ht.capacity))

\* rows are records of a key and the values of the payload
AddChunk(ht, aggs, rows) ==
    IF rows = <<>> THEN ht
    ELSE FoldLeft(LAMBDA t, r : AddRow(t, aggs, r.key, r.values), Room(ht, aggs), rows)

\* Resize of a table with entries: a group comes as one row, whatever it counted
Rehash(ht, aggs, scan, new) ==
    IF scan.found = <<>>
    THEN [new EXCEPT !.entries = ht.entries,
                     !.flawed = ht.flawed \/ new.entries # ht.entries
                                \/ \E a \in ToSet(aggs) : a.fn \in {"COUNT", "COUNT_STAR"}]
    ELSE Rehash(ht, aggs, ScanTable(ht, scan.position),
                AddChunk(new, aggs, [i \in DOMAIN scan.found |->
                    [key |-> scan.found[i].key, values |-> scan.found[i].pay]]))

-----------------------------------------------------------------------------
(* PhysicalOrder.cc                                                        *)

\* ChunkCollection::GetValue, of the rows that are sorted and of the columns that
\* they are sorted by
At(data, i, col) == GetValue(data[(i \div VectorSize) + 1].cols[col], i % VectorSize)

\* Value::Equals and Value::LessThan: NULL comes first, and the number of a Value that
\* is NULL was never written
ValueEquals(a, b) == IF Null \notin {a, b} THEN a = b ELSE a = b \/ junk \in {a, b}
ValueLess(a, b) == IF Null \in {a, b} THEN a = Null /\ b # Null ELSE a < b

\* mutant: rows equal in the first column are not compared any further
CompareFirst(data, orders, l, r) ==
    LET a == At(data, l, orders[1].col)
        b == At(data, r, orders[1].col)
    IN  IF ValueEquals(a, b) THEN 0 ELSE IF ValueLess(a, b) = orders[1].asc THEN -1 ELSE 1

\* compare_tuple: negative, zero or positive
CompareTuple(data, orders, l, r) ==
    LET differ == {o \in DOMAIN orders :
                      ~ValueEquals(At(data, l, orders[o].col), At(data, r, orders[o].col))}
        first == orders[Min(differ)]
    IN  IF differ = {} THEN 0
        ELSE IF ValueLess(At(data, l, first.col), At(data, r, first.col)) = first.asc THEN -1 ELSE 1

Swap(f, i, j) == [f EXCEPT ![i] = f[j], ![j] = f[i]]

\* how far the two walks of _quicksort_inplace go
Upper(data, orders, f, i, j, pivot) ==
    Min({k \in i .. j : CompareTuple(data, orders, f[k], pivot) > 0} \cup {j + 1})
Lower(data, orders, f, i, j, pivot) ==
    Max({k \in i .. j : CompareTuple(data, orders, f[k], pivot) <= 0} \cup {i - 1})

RECURSIVE Partition(_, _, _, _, _, _), Quicksort(_, _, _, _, _)

\* the loop of _quicksort_inplace: what is not above the pivot goes to the left
Partition(data, orders, f, i, j, pivot) ==
    LET up == Upper(data, orders, f, i, j, pivot)
        down == Lower(data, orders, f, up, j, pivot)
    IN  IF i > j THEN [f |-> f, i |-> i]
        ELSE Partition(data, orders, IF up < down THEN Swap(f, up, down) ELSE f, up, down, pivot)

Quicksort(data, orders, f, left, right) ==
    LET middle == left + ((right - left) \div 2)
        split == Partition(data, orders, Swap(f, middle, left), left + 1, right, f[middle])
        part == split.i - 1
        lower == Quicksort(data, orders, Swap(split.f, part, left), left, part - 1)
    IN  IF left >= right THEN f ELSE Quicksort(data, orders, lower, part + 1, right)

\* quicksort: the first pass goes from the rows to the vector of their positions
SortedVector(data, orders) ==
    LET n == Len(Rows(data))
        place(acc, i) ==
            IF CompareTuple(data, orders, i, 0) <= 0
            THEN [acc EXCEPT !.f[acc.low] = i, !.low = @ + 1]
            ELSE [acc EXCEPT !.f[acc.high] = i, !.high = @ - 1]
        first == FoldLeft(place, [f |-> [i \in 0 .. n - 1 |-> 0], low |-> 0, high |-> n - 1],
                          [i \in 1 .. n - 1 |-> i])
        lower == Quicksort(data, orders, first.f, 0, first.low)
    IN  IF n = 0 THEN <<>> ELSE Quicksort(data, orders, lower, first.low + 1, n - 1)

-----------------------------------------------------------------------------
(* PhysicalOperatorState: one for every operator of a plan, `child' is the  *)
(* chunk that its first child fills                                         *)

\* GetTypes: the number of columns, as all have one type
RECURSIVE Arity(_), Open(_), Bad(_), Pull(_, _), Drain(_, _), Filter(_, _), Join(_, _), Collect(_)

Arity(p) ==
    CASE p.op = "SCAN" -> Len(p.arg.cols)
      [] p.op \in {"DUMMY", "INSERT", "UPDATE", "DELETE"} -> 1
      [] p.op \in {"PROJECTION", "AGGREGATE"} -> Len(p.arg.select)
      [] p.op \in {"CROSS", "JOIN"} -> Arity(p.kids[1]) + Arity(p.kids[2])
      [] p.op \in {"FILTER", "LIMIT", "UNION", "ORDER"} -> Arity(p.kids[1])

ChunkFor(p) == NewChunk([i \in 1 .. Arity(p) |-> INTEGER])

InitialState(p) ==
    CASE p.op \in {"SCAN", "LIMIT"} -> 0
      [] p.op \in {"DUMMY", "UNION"} -> FALSE
      [] p.op = "CROSS" -> [open |-> FALSE, left |-> 0, right |-> ChunkFor(p.kids[2])]
      [] p.op = "JOIN" -> [right |-> <<>>, row |-> 0, chunk |-> 0]
      [] p.op = "ORDER" -> [position |-> 0, data |-> <<>>, sorted |-> <<>>]
      [] p.op = "AGGREGATE" -> [ht |-> NewTable(InitialCapacity), position |-> 0, finished |-> FALSE,
                                 masks |-> [g \in DOMAIN p.arg.groups |-> {}]]
      [] p.op \in {"FILTER", "PROJECTION"} \cup Writing -> 0

\* GetOperatorState, which the constructor of a state calls for the first child
Open(p) ==
    [plan |-> p, kids |-> [k \in DOMAIN p.kids |-> Open(p.kids[k])],
     child |-> IF p.kids = <<>> THEN NewChunk(<<>>) ELSE ChunkFor(p.kids[1]),
     st |-> InitialState(p), bad |-> FALSE]

\* whether a known flaw of the code has met an operator of the plan
Bad(s) == s.bad \/ \E k \in DOMAIN s.kids : Bad(s.kids[k])

Returned(chunk, s) == [chunk |-> chunk, s |-> s]
Flag(s, flaw) == [s EXCEPT !.bad = @ \/ flaw]

\* the next chunk of the first child
Advanced(s, r) == [s EXCEPT !.kids[1] = r.s, !.child = r.chunk]
Advance(s) == Advanced(s, Pull(s.kids[1], s.child))

\* all chunks of a child, into one collection
Drained(collection, more) ==
    IF more.chunk.count = 0 THEN [chunk |-> more.chunk, s |-> more.s, rows |-> collection]
    ELSE Drain(AppendChunk(collection, more.chunk),
               [more EXCEPT !.s = Flag(@, Mismarks(collection, more.chunk))])
Drain(collection, r) == Drained(collection, Pull(r.s, r.chunk))

\* ExpressionExecutor::Execute for a column, or for a constant where col is 0
Expression(item, c) ==
    LET v == Constant(Value(INTEGER, item.val))
    IN  IF item.col # 0 THEN c.cols[item.col]
        ELSE IF c.count > 1 \/ c.sel # NoSel
        THEN Set([Initialize(INTEGER) EXCEPT !.count = c.count, !.sel = c.sel], Value(INTEGER, item.val))
        ELSE v

-----------------------------------------------------------------------------
(* The operators: _GetChunk(chunk, state)                                  *)

\* PhysicalTableScan: column 0 is the row identifier.  Marks that an earlier
\* chunk left behind are not taken away.
Scan(s, into) ==
    LET chunks == tables[s.plan.arg.table]
        before == FoldLeft(LAMBDA n, rows : n + Len(rows), 0, SubSeq(chunks, 1, s.st))
        column(row, i, col) == IF col = 0 THEN before + i - 1 ELSE row[col]
        values == [i \in DOMAIN chunks[s.st + 1] |->
                      [k \in DOMAIN s.plan.arg.cols |->
                          column(chunks[s.st + 1][i], i, s.plan.arg.cols[k])]]
        masks == [k \in DOMAIN into.cols |-> into.cols[k].null]
        stale == \E i \in DOMAIN values, k \in DOMAIN masks : i - 1 \in masks[k] /\ values[i][k] # Null
    IN  IF s.st >= Len(chunks) THEN Returned(Reset(into), s)
        ELSE Returned(ScanChunk([k \in DOMAIN masks |-> INTEGER], masks, values),
                      Flag([s EXCEPT !.st = @ + 1], stale))

\* PhysicalDummyScan
Dummy(s, into) ==
    IF s.st THEN Returned(Reset(into), s)
    ELSE Returned([Reset(into) EXCEPT !.count = 1, !.cols[1].count = 1], [s EXCEPT !.st = TRUE])

\* the first condition is executed and the others are merged into it
Matches(conditions, c) ==
    LET test(f) == Comparison(f.op, c.cols[f.col], Constant(Value(INTEGER, f.val)), Initialize(BOOLEAN_))
    IN  FoldLeft(LAMBDA acc, f : BoolLoop("AND", test(f), acc, acc), test(Head(conditions)), Tail(conditions))

\* PhysicalFilter: chunks of which nothing is left are passed over
Passed(next, into, chunk) ==
    IF next.child.count = 0 THEN Returned(into, next)
    ELSE IF chunk.count = 0 THEN Filter(next, chunk)
    ELSE Returned(chunk, next)
Filtered(next, into) == Passed(next, into, SetSelectionVector(next.child, Matches(next.plan.arg, next.child)))
Filter(s, into) == Filtered(Advance(s), into)

\* PhysicalProjection
Projection(next, into) ==
    LET cols == [k \in DOMAIN next.plan.arg.select |-> Expression(next.plan.arg.select[k], next.child)]
    IN  IF next.child.count = 0 THEN Returned(Reset(into), next)
        ELSE Returned([count |-> cols[1].count, sel |-> next.child.sel, cols |-> cols], next)

\* PhysicalLimit: of a chunk in which the offset is reached the data is moved up,
\* its marks and selection vector are not, and where the offset is not reached
\* before its end the empty chunk ends the rows
LimitedChunk(next, into) ==
    LET c == next.child
        limit == next.plan.arg.limit
        offset == next.plan.arg.offset
        before == next.st < offset
        start == IF before THEN Smaller(offset - next.st, c.count) ELSE 0
        n == IF before THEN Smaller(limit, c.count - start) ELSE Smaller(limit + offset - next.st, c.count)
        shifted(v) == [v EXCEPT !.count = n,
                          !.data = [p \in Positions |-> IF p + start \in Positions THEN @[p + start] ELSE junk]]
    IN  IF c.count = 0 THEN Returned(Reset(into), next)
        ELSE Returned([count |-> n, sel |-> NoSel, cols |-> [k \in DOMAIN c.cols |-> shifted(c.cols[k])]],
                      Flag([next EXCEPT !.st = @ + c.count],
                           before /\ (start = c.count \/ \E v \in ToSet(c.cols) :
                                                            v.sel # NoSel \/ v.null # {})))
Limited(s, into) ==
    IF s.st >= s.plan.arg.limit + s.plan.arg.offset THEN Returned(Reset(into), s)
    ELSE LimitedChunk(Advance(s), into)

\* PhysicalUnion: both children fill the same chunk
Bottom(s, bottom) == Returned(bottom.chunk, [s EXCEPT !.kids[2] = bottom.s, !.st = TRUE])
Top(s, top) ==
    IF top.chunk.count > 0 THEN Returned(top.chunk, [s EXCEPT !.kids[1] = top.s])
    ELSE Bottom([s EXCEPT !.kids[1] = top.s], Pull(s.kids[2], top.chunk))
Union(s, into) ==
    Top(s, IF s.st THEN Returned(Reset(into), s.kids[1]) ELSE Pull(s.kids[1], Reset(into)))

\* DataChunk::Flatten
Flat(c) ==
    [c EXCEPT !.sel = NoSel,
              !.cols = [k \in DOMAIN c.cols |-> IF c.cols[k].sel = NoSel THEN c.cols[k]
                                                ELSE Copy(c.cols[k], Initialize(INTEGER), 0)]]

\* a row of the left side next to vectors of the right one
Beside(left, row, right, chunk) ==
    LET value(k) == Set([Initialize(INTEGER) EXCEPT !.count = chunk.count, !.sel = chunk.sel],
                        Value(INTEGER, GetValue(left.cols[k], row)))
    IN  [chunk EXCEPT !.cols = [k \in DOMAIN left.cols |-> value(k)] \o
            [k \in DOMAIN right.cols |-> [right.cols[k] EXCEPT !.count = chunk.count, !.sel = chunk.sel]]]

\* PhysicalCrossProduct: for every chunk of the left side the right side is run again
CrossRow(s, right, row, into) ==
    LET flat == Flat(right.chunk)
    IN  Returned(Beside(s.child, row, flat, [Reset(into) EXCEPT !.count = flat.count]),
                 [s EXCEPT !.kids[2] = right.s, !.st = [open |-> TRUE, left |-> row + 1, right |-> flat]])

CrossLeft(s, into) ==
    IF s.child.count = 0 THEN Returned(Reset(into), [s EXCEPT !.st.open = FALSE, !.st.left = 0])
    ELSE CrossRow(s, Pull(Open(s.plan.kids[2]), ChunkFor(s.plan.kids[2])), 0, into)

CrossRight(s, right, into) ==
    IF right.chunk.count = 0 THEN CrossLeft(Advance(Flag(s, Bad(right.s))), into)
    ELSE CrossRow(s, right, 0, into)

Cross(s, into) ==
    IF ~s.st.open THEN CrossLeft(Advance(s), into)
    ELSE IF s.st.left >= s.child.count THEN CrossRight(s, Pull(s.kids[2], s.st.right), into)
    ELSE CrossRow(s, Returned(s.st.right, s.kids[2]), s.st.left, into)

\* PhysicalNestedLoopJoin: the right side is collected, and every row of the left
\* one is compared with a chunk of it at a time
WithRight(s, collected) == [s EXCEPT !.kids[2] = collected.s, !.st.right = collected.rows]
JoinOpened(s) ==
    IF s.st.right # <<>> THEN s
    ELSE WithRight(s, Drain(<<>>, Returned(ChunkFor(s.plan.kids[2]), Open(s.plan.kids[2]))))

JoinAdvanced(s) ==
    IF s.st.right = <<>> \/ s.st.row < s.child.count THEN s
    ELSE [Advance(s) EXCEPT !.st.row = 0, !.st.chunk = 0]

JoinMatches(s, right) ==
    LET test(f) == Comparison(f.op, Constant(Value(INTEGER, GetValue(s.child.cols[f.left], s.st.row))),
                              right.cols[f.right], Initialize(BOOLEAN_))
    IN  FoldLeft(LAMBDA acc, f : BoolLoop("AND", test(f), acc, acc), test(Head(s.plan.arg)), Tail(s.plan.arg))

JoinStep(s) ==
    LET last == s.st.chunk + 1 = Len(s.st.right)
    IN  [s EXCEPT !.st.chunk = IF last THEN 0 ELSE @ + 1, !.st.row = IF last THEN @ + 1 ELSE @]

JoinChunk(s, right, chunk, into) ==
    IF chunk.count = 0 THEN Join(JoinStep(s), Reset(into))
    ELSE Returned(Beside(s.child, s.st.row, right, chunk), JoinStep(s))

JoinRow(s, into) ==
    LET right == s.st.right[s.st.chunk + 1]
    IN  IF s.st.right = <<>> \/ s.child.count = 0 THEN Returned(Reset(into), s)
        ELSE JoinChunk(s, right, SetSelectionVector([Reset(into) EXCEPT !.count = right.count],
                                                    JoinMatches(s, right)), into)

Join(s, into) == JoinRow(JoinAdvanced(JoinOpened(s)), into)

\* PhysicalOrder: a later vector of the output begins with the first row again
OrderCollected(s, drained) ==
    [s EXCEPT !.kids[1] = drained.s, !.child = drained.chunk,
              !.st.data = drained.rows, !.st.sorted = SortedVector(drained.rows, s.plan.arg)]

OrderChunk(s, into) ==
    LET count == Len(Rows(s.st.data))
        n == Smaller(VectorSize, count - s.st.position)
        column(k) == FoldLeft(LAMBDA v, j : SetValue(v, j, At(s.st.data, s.st.sorted[j], k)),
                              [Reset(into).cols[k] EXCEPT !.count = n], [j \in 1 .. n |-> j - 1])
        keys(o) == {At(s.st.data, i, s.plan.arg[o].col) : i \in 0 .. count - 1}
    IN  IF s.st.position >= count THEN Returned(Reset(into), s)
        ELSE Returned([count |-> n, sel |-> NoSel, cols |-> [k \in DOMAIN into.cols |-> column(k)]],
                      Flag([s EXCEPT !.st.position = @ + VectorSize],
                           s.st.position > 0 \/ \E o \in DOMAIN s.plan.arg : {Null, junk} \subseteq keys(o)))

Order(s, into) ==
    OrderChunk(IF s.st.position > 0 THEN s
               ELSE OrderCollected(s, Drain(s.st.data, Returned(s.child, s.kids[1]))), into)

\* the loop of PhysicalHashAggregate over the chunks of its child
Collected(next) ==
    LET rows == ChunkRows(next.child)
        aggs == Payload(next.plan.arg.aggs)
        groups == next.plan.arg.groups
    IN  IF next.child.count = 0 THEN next
        ELSE Collect([next EXCEPT
                         !.st.ht = AddChunk(@, next.plan.arg.aggs,
                                            [i \in DOMAIN rows |->
                                                [key |-> [g \in DOMAIN groups |-> rows[i][groups[g]]],
                                                 values |-> [j \in DOMAIN aggs |-> rows[i][aggs[j].col]]]]),
                         !.st.masks = [g \in DOMAIN groups |-> next.child.cols[groups[g]].null]])
Collect(s) == Collected(Advance(s))

\* PhysicalHashAggregate with groups: the chunk of the groups keeps the marks of
\* the last chunk of the child
GroupColumn(found, aggs, item) ==
    LET place == Cardinality({b \in 1 .. item.at : aggs[b].fn # "COUNT_STAR"})
        value(cell) == IF item.of = "GROUP" THEN cell.key[item.at]
                       ELSE IF aggs[item.at].fn = "COUNT_STAR" THEN cell.count ELSE cell.pay[place]
    IN  AppendNull(Initialize(INTEGER), [i \in DOMAIN found |-> value(found[i])])

GroupChunk(next, scan, into) ==
    LET arg == next.plan.arg
        stale == \E i \in DOMAIN scan.found, g \in DOMAIN arg.groups :
                     i - 1 \in next.st.masks[g] /\ scan.found[i].key[g] # Null
    IN  IF scan.found = <<>> THEN Returned(Reset(into), [next EXCEPT !.st.finished = TRUE])
        ELSE Returned([count |-> Len(scan.found), sel |-> NoSel,
                       cols |-> [k \in DOMAIN arg.select |-> GroupColumn(scan.found, arg.aggs, arg.select[k])]],
                      Flag([next EXCEPT !.st.position = scan.position],
                           stale \/ next.st.ht.flawed \/ next.st.ht.entries > VectorSize))

NextGroups(next, into) == GroupChunk(next, ScanTable(next.st.ht, next.st.position), into)

HashAggregate(s, into) ==
    IF s.st.finished THEN Returned(Reset(into), s) ELSE NextGroups(Collect(s), into)

Pull(s, into) ==
    CASE s.plan.op = "SCAN" -> Scan(s, into)
      [] s.plan.op = "DUMMY" -> Dummy(s, into)
      [] s.plan.op = "FILTER" -> Filter(s, Reset(into))
      [] s.plan.op = "PROJECTION" -> Projection(Advance(s), into)
      [] s.plan.op = "LIMIT" -> Limited(s, into)
      [] s.plan.op = "UNION" -> Union(s, into)
      [] s.plan.op = "CROSS" -> Cross(s, into)
      [] s.plan.op = "JOIN" -> Join(s, into)
      [] s.plan.op = "ORDER" -> Order(s, into)
      [] s.plan.op = "AGGREGATE" -> HashAggregate(s, into)

-----------------------------------------------------------------------------
(* Statements that write, which are roots: rows of a table by row           *)
(* identifier, Gone where one was deleted                                   *)

\* PhysicalInsert of values: the marks of a chunk that was flushed stay in it
InsertValues(arg) ==
    LET place(v, list, k) ==
            IF arg.map # <<>> /\ arg.map[k] = 0
            THEN SetValue([v EXCEPT !.count = @ + 1], v.count, arg.defaults[k])
            ELSE AppendVector(v, Constant(Value(INTEGER, list[IF arg.map = <<>> THEN k ELSE arg.map[k]])))
        step(acc, list) ==
            LET chunk == [count |-> acc.chunk.count + 1, sel |-> NoSel,
                          cols |-> [k \in DOMAIN acc.chunk.cols |-> place(acc.chunk.cols[k], list, k)]]
                stale == \E k \in DOMAIN chunk.cols :
                             /\ acc.chunk.count \in acc.chunk.cols[k].null
                             /\ ~(arg.map # <<>> /\ arg.map[k] = 0)
            IN  IF chunk.count = VectorSize
                THEN [chunk |-> Reset(chunk), rows |-> acc.rows \o ChunkRows(chunk), bad |-> acc.bad \/ stale]
                ELSE [chunk |-> chunk, rows |-> acc.rows, bad |-> acc.bad \/ stale]
        done == FoldLeft(step, [chunk |-> NewChunk([k \in DOMAIN arg.defaults |-> INTEGER]),
                                rows |-> <<>>, bad |-> FALSE], arg.values)
    IN  [rows |-> done.rows \o ChunkRows(done.chunk), bad |-> done.bad]

\* PhysicalInsert from a query, of which all rows are collected first
InsertQuery(arg, collection) ==
    LET column(c, k) ==
            IF arg.map = <<>> THEN c.cols[k]
            ELSE IF arg.map[k] = 0
            THEN Set([Initialize(INTEGER) EXCEPT !.count = c.count], Value(INTEGER, arg.defaults[k]))
            ELSE c.cols[arg.map[k]]
    IN  FlattenSeq([i \in DOMAIN collection |->
            ChunkRows([collection[i] EXCEPT !.cols = [k \in DOMAIN arg.defaults |-> column(collection[i], k)]])])

\* PhysicalUpdate and PhysicalDelete for one chunk of the child, whose last column
\* has the row identifiers: the new contents of the table
Rewritten(rows, plan, c) ==
    LET value(item) == IF item.default
                       THEN Set([Initialize(INTEGER) EXCEPT !.count = c.count], Value(INTEGER, item.val))
                       ELSE Expression(item, c)
        news == [k \in DOMAIN plan.arg.set |-> value(plan.arg.set[k])]
        id(i) == GetValue(c.cols[Len(c.cols)], i) + 1
        step(acc, i) ==
            IF plan.op = "DELETE" THEN [acc EXCEPT ![id(i)] = Gone]
            ELSE [acc EXCEPT ![id(i)] = [col \in DOMAIN @ |->
                     IF \E k \in DOMAIN news : plan.arg.set[k].column = col
                     THEN GetValue(news[CHOOSE k \in DOMAIN news : plan.arg.set[k].column = col], i)
                     ELSE @[col]]]
    IN  FoldLeft(step, rows, [i \in 1 .. c.count |-> i - 1])

-----------------------------------------------------------------------------
(* Executor::Execute                                                       *)

Rows0(t) == FlattenSeq(tables[t])

Init ==
    /\ junk \in {0, 1}
    /\ tables \in Tables
    /\ root \in {Open(p) : p \in Plans}
    /\ result = <<>>
    /\ written = [t \in DOMAIN tables |-> Rows0(t)]
    /\ pc = "run"

\* every chunk that the plan returns goes into the result
Fetch ==
    /\ pc = "run" /\ root.plan.op \notin Writing
    /\ \E r \in {Pull(root, ChunkFor(root.plan))} :
          /\ root' = Flag(r.s, r.chunk.count > 0 /\ Mismarks(result, r.chunk))
          /\ result' = AppendChunk(result, r.chunk)
          /\ pc' = IF r.chunk.count = 0 THEN "done" ELSE "run"
    /\ UNCHANGED <<junk, tables, written>>

\* the one row of a statement that writes: how many rows it has written
Report == [NewChunk(<<INTEGER>>) EXCEPT !.count = 1, !.cols = <<Constant(Value(INTEGER, root'.st))>>]

NewRows(arg, drained) ==
    IF drained = <<>> THEN InsertValues(arg)
    ELSE [rows |-> InsertQuery(arg, drained[1].rows), bad |-> FALSE]

Insert ==
    /\ pc = "run" /\ root.plan.op = "INSERT"
    /\ \E drained \in {[k \in DOMAIN root.kids |-> Drain(<<>>, Returned(root.child, root.kids[k]))]} :
       \E new \in {NewRows(root.plan.arg, drained)} :
          /\ root' = Flag([root EXCEPT !.st = Len(new.rows),
                                       !.kids = [k \in DOMAIN drained |-> drained[k].s]], new.bad)
          /\ written' = [written EXCEPT ![root.plan.arg.table] = @ \o new.rows]
          /\ result' = <<Report>>
    /\ pc' = "done"
    /\ UNCHANGED <<junk, tables>>

\* UPDATE and DELETE write the rows of a chunk before they ask for the next one
Write ==
    /\ pc = "run" /\ root.plan.op \in {"UPDATE", "DELETE"}
    /\ \E next \in {Advance(root)} :
          /\ root' = [next EXCEPT !.st = @ + next.child.count]
          /\ \/ /\ next.child.count > 0
                /\ written' = [written EXCEPT ![root.plan.arg.table] = Rewritten(@, root.plan, next.child)]
                /\ UNCHANGED <<result, pc>>
             \/ /\ next.child.count = 0
                /\ result' = <<Report>>
                /\ pc' = "done"
                /\ UNCHANGED written
    /\ UNCHANGED <<junk, tables>>

Next == Fetch \/ Insert \/ Write

Spec == Init /\ [][Next]_vars

-----------------------------------------------------------------------------
(* What a plan means: sequences of rows                                    *)

Passes(op, a, b) == Null \notin {a, b} /\ Compare(op, a, b)
Pick(item, row) == IF item.col = 0 THEN item.val ELSE row[item.col]
Pairs(left, right) ==
    FlattenSeq([i \in DOMAIN left |-> [j \in DOMAIN right |-> left[i] \o right[j]]])

\* NULL is less than every number
Precedes(a, b) == a # b /\ (a = Null \/ (b # Null /\ a < b))
Before(orders, r, q) ==
    \E o \in DOMAIN orders :
        /\ \A before \in 1 .. o - 1 : r[orders[before].col] = q[orders[before].col]
        /\ IF orders[o].asc THEN Precedes(r[orders[o].col], q[orders[o].col])
           ELSE Precedes(q[orders[o].col], r[orders[o].col])

GroupValue(agg, rows) ==
    LET known == SelectSeq([i \in DOMAIN rows |-> rows[i][agg.col]], LAMBDA x : x # Null)
    IN  CASE agg.fn = "COUNT_STAR" -> Len(rows)
          [] agg.fn = "COUNT" -> Len(known)
          [] agg.fn \in {"SUM", "MIN", "MAX", "FIRST"} ->
                IF known = <<>> THEN Null
                ELSE CASE agg.fn = "SUM" -> FoldLeft(LAMBDA a, b : a + b, 0, known)
                       [] agg.fn = "MIN" -> Min(ToSet(known))
                       [] agg.fn = "MAX" -> Max(ToSet(known))
                       [] agg.fn = "FIRST" -> known[1]

GroupRows(arg, rows) ==
    LET key(r) == [g \in DOMAIN arg.groups |-> r[arg.groups[g]]]
        output(k) ==
            [i \in DOMAIN arg.select |->
                IF arg.select[i].of = "GROUP" THEN k[arg.select[i].at]
                ELSE GroupValue(arg.aggs[arg.select[i].at], SelectSeq(rows, LAMBDA r : key(r) = k))]
    IN  [i \in DOMAIN SetToSeq({key(r) : r \in ToSet(rows)}) |->
            output(SetToSeq({key(r) : r \in ToSet(rows)})[i])]

RECURSIVE RowsOf(_)
RowsOf(p) ==
    LET kid == RowsOf(p.kids[1])
        other == RowsOf(p.kids[2])
    IN  CASE p.op = "SCAN" ->
                [i \in DOMAIN Rows0(p.arg.table) |->
                    [k \in DOMAIN p.arg.cols |->
                        IF p.arg.cols[k] = 0 THEN i - 1 ELSE Rows0(p.arg.table)[i][p.arg.cols[k]]]]
          [] p.op = "DUMMY" -> << <<junk>> >>
          [] p.op = "FILTER" ->
                SelectSeq(kid, LAMBDA r : \A f \in ToSet(p.arg) : Passes(f.op, r[f.col], f.val))
          [] p.op = "PROJECTION" ->
                [i \in DOMAIN kid |-> [k \in DOMAIN p.arg.select |-> Pick(p.arg.select[k], kid[i])]]
          [] p.op = "LIMIT" -> SubSeq(kid, p.arg.offset + 1, Smaller(Len(kid), p.arg.offset + p.arg.limit))
          [] p.op = "UNION" -> kid \o other
          [] p.op = "CROSS" -> Pairs(kid, other)
          [] p.op = "JOIN" ->
                SelectSeq(Pairs(kid, other), LAMBDA r :
                    \A f \in ToSet(p.arg) : Passes(f.op, r[f.left], r[Arity(p.kids[1]) + f.right]))
          [] p.op = "ORDER" -> SortSeq(kid, LAMBDA r, q : Before(p.arg, r, q))
          [] p.op = "AGGREGATE" -> GroupRows(p.arg, kid)

\* the table that a statement leaves, and the number of rows that it writes
Assigned(item, row) == IF item.default THEN item.val ELSE Pick(item, row)
Meant(p) ==
    LET rows == Rows0(p.arg.table)
        hit(i) == \E r \in ToSet(RowsOf(p.kids[1])) : r[Len(r)] = i - 1
        from(i) == CHOOSE r \in ToSet(RowsOf(p.kids[1])) : r[Len(r)] = i - 1
        placed(list) ==
            [k \in DOMAIN p.arg.defaults |->
                IF p.arg.map = <<>> THEN list[k]
                ELSE IF p.arg.map[k] = 0 THEN p.arg.defaults[k] ELSE list[p.arg.map[k]]]
        source == IF p.kids = <<>> THEN p.arg.values ELSE RowsOf(p.kids[1])
    IN  CASE p.op = "INSERT" -> rows \o [i \in DOMAIN source |-> placed(source[i])]
          [] p.op = "DELETE" -> [i \in DOMAIN rows |-> IF hit(i) THEN Gone ELSE rows[i]]
          [] p.op = "UPDATE" ->
                [i \in DOMAIN rows |->
                    [c \in DOMAIN rows[i] |->
                        IF hit(i) /\ \E item \in ToSet(p.arg.set) : item.column = c
                        THEN Assigned(CHOOSE item \in ToSet(p.arg.set) : item.column = c, from(i))
                        ELSE rows[i][c]]]

Times_(row, rows) == Cardinality({i \in DOMAIN rows : rows[i] = row})
Within(part, whole) == \A r \in ToSet(part) : Times_(r, part) <= Times_(r, whole)

\* the columns by which the rows of a plan are sorted, if they are
Orders(p) ==
    CASE p.op = "ORDER" -> p.arg
      [] p.op = "LIMIT" -> IF p.kids[1].op = "ORDER" THEN p.kids[1].arg ELSE <<>>
      [] p.op \notin {"ORDER", "LIMIT"} -> <<>>
Keys(orders, rows) == [i \in DOMAIN rows |-> [o \in DOMAIN orders |-> rows[i][orders[o].col]]]

-----------------------------------------------------------------------------
(* Properties                                                              *)

RECURSIVE States(_)
States(s) == {s} \cup UNION {States(s.kids[k]) : k \in DOMAIN s.kids}

\* A statement returns the rows that its plan means, no more than these at any
\* time, all of them in the end and in the order asked for; one that writes
\* leaves the table that it means.  So it is unless an operator has met one of
\* the known flaws that set `bad'.
ResultIsRight ==
    ~Bad(root) =>
        IF root.plan.op \in Writing
        THEN LET table == written[root.plan.arg.table]
                 meant == Meant(root.plan)
             IN  pc = "done" => IF root.plan.op = "INSERT"
                                THEN Len(table) = Len(meant) /\ Within(table, meant) ELSE table = meant
        ELSE LET meant == RowsOf(root.plan)
             IN  /\ Within(Rows(result), meant)
                 /\ pc = "done" =>
                        /\ Len(Rows(result)) = Len(meant)
                        /\ Keys(Orders(root.plan), Rows(result)) = Keys(Orders(root.plan), meant)

\* Every chunk of a collection but the last is full, which GetValue computes with
\* (ChunkCollection.cc:9), and none is empty or has a selection vector.
CollectionsFilled ==
    \A c \in {result} \cup {s.st.data : s \in {x \in States(root) : x.plan.op = "ORDER"}}
                      \cup {s.st.right : s \in {x \in States(root) : x.plan.op = "JOIN"}} :
        \A i \in DOMAIN c :
            /\ c[i].count \in 1 .. VectorSize
            /\ i < Len(c) => c[i].count = VectorSize
            /\ \A v \in ToSet(c[i].cols) : v.count = c[i].count /\ v.sel = NoSel

\* The hash table has every group in one cell, which is the one that probing for
\* the group ends at, whatever collided or moved when it grew, and `entries'
\* counts the cells in use.  Of tables in which no probe ran over the end: such a
\* probe uses the cell behind the last one before it wraps around.
GroupsFound ==
    \A s \in {x \in States(root) : x.plan.op = "AGGREGATE" /\ ~x.st.ht.flawed} :
        LET ht == s.st.ht
            full == {i \in DOMAIN ht.cells : ht.cells[i] # Empty}
        IN  /\ ht.entries = Cardinality(full)
            /\ \A i \in full : Probe(ht, ht.cells[i].key) = i

\* The sorted vector of ORDER BY has every row once, and no row sorts before the
\* one in front of it.
SortedVectorSorts ==
    \A s \in {x \in States(root) : x.plan.op = "ORDER"} :
        LET n == Len(Rows(s.st.data))
            key(i) == Rows(s.st.data)[s.st.sorted[i] + 1]
        IN  /\ {s.st.sorted[i] : i \in 0 .. n - 1} = 0 .. n - 1
            /\ ~s.bad => \A i \in 1 .. n - 1 : ~Before(s.plan.arg, key(i), key(i - 1))
=============================================================================
