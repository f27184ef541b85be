---------------------------- MODULE Expressions ----------------------------
(***************************************************************************)
(* How a query computes: the types and statistics that the binder gives an *)
(* expression (ResolveType), the casts that the planner adds to it, the    *)
(* executor that evaluates it over one chunk of vectors, and the operators *)
(* that call the executor: scan, filter, projection and aggregate.  Next   *)
(* to every chunk the model keeps the rows that SQL asks for.              *)
(***************************************************************************)
EXTENDS Vectors

CONSTANTS ColumnTypes,   \* types of the columns of the table
          Tables,        \* its contents: sequences of chunks of rows
          InnerTypes,    \* the same of the table of the subqueries
          Inner,
          Queries        \* [where, select, aggregates]: sequences of expressions

VARIABLES
    query,        \* the query, resolved and with its casts
    columns,      \* types and statistics of the columns
    table,        \* the chunks not yet scanned
    masks,        \* null bits that the chunk of the scan keeps between scans
    chunk,        \* the chunk that the last operator returned
    rows,         \* the rows that it should hold
    aggregates,   \* PhysicalAggregateOperatorState::aggregates
    seen,         \* the rows that went into them
    pc,
    failed,       \* an exception or an assertion has ended the query
    excused       \* the query has met a known flaw of the code (Flawed, below)

vars == <<junk, query, columns, table, masks, chunk, rows, aggregates, seen, pc, failed, excused>>

Arith == {"ADD", "SUB", "MUL", "DIV", "MOD"}
Operators == Arith \cup {"NOT", "ISNULL", "NOTNULL", "EXISTS", "IN"}
Comparisons == {"EQ", "NE", "LT", "LE", "GT", "GE"}
Aggregates == {"COUNT_STAR", "COUNT", "SUM", "MIN", "MAX"}

-----------------------------------------------------------------------------
(* Expressions                                                             *)

\* a sequence that TLC computes at once instead of at every use
All(seq) == <<>> \o seq

Node(op, kids, arg) == [op |-> op, kids |-> kids, arg |-> arg]
Column(i) == Node("COLUMN", <<>>, [index |-> i, depth |-> 0])
Outer(i) == Node("COLUMN", <<>>, [index |-> i, depth |-> 1])
Literal(n) == Node("CONSTANT", <<>>, Value(INTEGER, n))
Unary(op, a) == Node(op, <<a>>, 0)
Binary(op, a, b) == Node(op, <<a, b>>, 0)
CastTo(type, a) == Node("CAST", <<a>>, type)
Subquery(kind, where, select) ==
    Node("SUBQUERY", <<>>, [kind |-> kind, where |-> where, select |-> select])

\* whether an expression has one value for all rows
RECURSIVE IsScalar(_)
IsScalar(e) ==
    e.op \notin {"COLUMN", "SUBQUERY", "COUNT_STAR"} /\ \A k \in DOMAIN e.kids : IsScalar(e.kids[k])

ColumnStatistics(type, chunks) ==
    FoldLeft(LAMBDA s, values : Update(s, AppendNull(Initialize(type), values)), NoStatistics, chunks)

\* types and statistics of the columns of a table, when a query is bound
ColumnsOf(types, chunks) ==
    [i \in DOMAIN types |->
        [type |-> types[i],
         stats |-> ColumnStatistics(types[i],
                       [c \in DOMAIN chunks |-> [r \in DOMAIN chunks[c] |-> chunks[c][r][i]]])]]

\* AggregateExpression::ResolveType
ResolveAggregate(e, arg) ==
    LET stats == CASE IsScalar(e.kids[1]) \/ e.op \in {"MIN", "MAX"} -> NoStatistics
                   [] ~IsScalar(e.kids[1]) /\ e.op = "COUNT" -> CountStatistics(arg.stats)
                   [] ~IsScalar(e.kids[1]) /\ e.op = "SUM" -> SumStatistics(arg.stats)
        type == IF e.op = "COUNT" \/ (e.op = "SUM" /\ IsScalar(e.kids[1])) THEN BIGINT
                ELSE Larger(arg.type, MinimalTypeOf(stats))
    IN  [op |-> e.op, kids |-> <<arg>>, arg |-> e.arg, type |-> type, stats |-> stats]

\* ResolveType of the other expression classes, children first; `env' has the columns
\* of the query and then of those around it
RECURSIVE Resolve(_, _)
Resolve(e, env) ==
    LET kids == All([k \in DOMAIN e.kids |-> Resolve(e.kids[k], env)])
        typed(type, stats) ==
            [op |-> e.op, kids |-> kids, arg |-> e.arg, type |-> type, stats |-> stats]
        fitting(type, stats) ==
            typed(IF FitsInType(stats, type) THEN type ELSE MinimalTypeOf(stats), stats)
        inner == <<ColumnsOf(InnerTypes, Inner)>> \o env
        select == Resolve(e.arg.select, inner)
        where == [k \in DOMAIN e.arg.where |-> Resolve(e.arg.where[k], inner)]
    IN  CASE e.op = "COLUMN" -> LET c == env[e.arg.depth + 1][e.arg.index] IN typed(c.type, c.stats)
          [] e.op = "CONSTANT" -> typed(e.arg.type, ConstantStatistics(e.arg))
          [] e.op \in Arith ->
                fitting(Larger(kids[1].type, kids[2].type),
                        OperatorStatistics(e.op, kids[1].stats, kids[2].stats))
          [] e.op = "CAST" -> fitting(e.arg, kids[1].stats)
          [] e.op = "CASE" -> typed(Larger(kids[2].type, kids[3].type), NoStatistics)
          [] e.op = "ABS" -> typed(kids[1].type, NoStatistics)
          [] e.op = "COUNT_STAR" -> typed(BIGINT, NoStatistics)
          [] e.op \in Aggregates \ {"COUNT_STAR"} -> ResolveAggregate(e, kids[1])
          [] e.op = "SUBQUERY" ->
                [typed(IF e.arg.kind = "EXISTS" THEN BOOLEAN_ ELSE select.type, NoStatistics)
                    EXCEPT !.arg.select = select, !.arg.where = where]
          [] OTHER -> typed(BOOLEAN_, NoStatistics)

\* LogicalPlanGenerator: operands of one operator get one type
RECURSIVE WithCasts(_)
WithCasts(e) ==
    LET kids == All([k \in DOMAIN e.kids |-> WithCasts(e.kids[k])])
        castTo(type, k) ==
            IF kids[k].type = type THEN kids[k]
            ELSE [op |-> "CAST", kids |-> <<kids[k]>>, arg |-> type, type |-> type,
                  stats |-> NoStatistics]
        equal(from) ==
            LET widest == Max({kids[k].type : k \in from .. Len(kids)})
            IN  [k \in DOMAIN kids |-> IF k < from THEN castTo(BOOLEAN_, k) ELSE castTo(widest, k)]
        as(type) == [k \in DOMAIN kids |-> castTo(type, k)]
    IN  CASE e.op = "SUBQUERY" ->
                [e EXCEPT !.arg.select = WithCasts(@),
                          !.arg.where = [k \in DOMAIN @ |-> WithCasts(@[k])]]
          [] e.op \in {"AND", "OR", "NOT"} -> [e EXCEPT !.kids = as(BOOLEAN_)]
          [] e.op = "CASE" -> [e EXCEPT !.kids = equal(2)]
          [] e.op \in Aggregates -> [e EXCEPT !.kids = as(e.type)]
          [] e.op \in Comparisons \cup (Operators \ {"NOT"}) -> [e EXCEPT !.kids = equal(1)]
          [] OTHER -> [e EXCEPT !.kids = kids]

Planned(e, env) == WithCasts(Resolve(e, env))

-----------------------------------------------------------------------------
(* ExpressionExecutor: `s' is a stack of chunks, that of the executor first *)
(* and then those of the executors around it                               *)

\* Visit(OperatorExpression) for IN with a list: the early abort asks for the
\* least of booleans, which is a Value without a number
InEither(or) == [result |-> or, done |-> Throws(or) \/ junk = 1]
InCompared(acc, comparison) ==
    IF Throws(comparison) THEN [result |-> comparison, done |-> TRUE]
    ELSE InEither(BoolLoop("OR", Copy(acc.result, Initialize(BOOLEAN_), 0), comparison, acc.result))

InList(args) ==
    LET l == args[1]
        none == Set([Initialize(BOOLEAN_) EXCEPT !.count = l.count], Value(INTEGER, 0))
    IN  FoldLeft(LAMBDA acc, r : IF acc.done THEN acc
                                 ELSE InCompared(acc, Comparison("EQ", l, r, Initialize(BOOLEAN_))),
                 [result |-> none, done |-> FALSE], Tail(args)).result

\* a chunk that holds row r of another, for a correlated subquery
RowChunk(c, r) ==
    [count |-> 1, sel |-> NoSel,
     cols |-> [i \in DOMAIN c.cols |->
                  Constant(Value(c.cols[i].type, GetValue(c.cols[i], r)))]]

\* mutant: not where the rows are selected ones
ReplicatedUnselected(v, type, c) ==
    IF v.count = 1 /\ c.count > 1
    THEN Set([Initialize(type) EXCEPT !.count = c.count, !.sel = c.sel], Value(v.type, GetValue(v, 0)))
    ELSE v

\* Execute: a single value stands for all rows
Replicated(v, type, c) ==
    IF v.count = 1 /\ (c.count > 1 \/ v.sel # c.sel)
    THEN Set([Initialize(type) EXCEPT !.count = c.count, !.sel = c.sel], Value(v.type, GetValue(v, 0)))
    ELSE IF v.count # c.count THEN Throw("lengths do not match")
    ELSE IF v.sel # c.sel THEN Throw("assertion") ELSE v

\* Visit(OperatorExpression) but for IN
Operate(op, args) ==
    LET flags == Initialize(BOOLEAN_)
        like == Initialize(args[1].type)
    IN  CASE op = "DIV" -> Divide(args[1], args[2], like)
          [] op \in Arith \ {"DIV"} -> Arithmetic(op, args[1], args[2], like)
          [] op = "NOT" -> Not(args[1], like)
          [] op = "ISNULL" -> IsNull(FALSE, args[1], flags)
          [] op = "NOTNULL" -> IsNull(TRUE, args[1], flags)
          [] op = "EXISTS" -> args[1]

RECURSIVE Eval(_, _), Evaluated(_, _, _), ForEachRow(_, _), Execute(_, _), FilterChunk(_, _, _), PlanChunk(_, _, _), PlanChunks(_, _), RunPlan(_, _), InSubquery(_, _, _)

Eval(e, s) ==
    Evaluated(e, s, All([k \in DOMAIN e.kids |->
                            IF e.op = "IN" /\ e.kids[k].op = "SUBQUERY" THEN Initialize(BOOLEAN_)
                            ELSE Eval(e.kids[k], s)]))

Evaluated(e, s, args) ==
    LET thrown == {k \in DOMAIN args : Throws(args[k])}
        flags == Initialize(BOOLEAN_)
    IN  CASE thrown # {} -> args[Min(thrown)]
          [] thrown = {} /\ e.op = "COLUMN" -> s[e.arg.depth + 1].cols[e.arg.index]
          [] thrown = {} /\ e.op = "CONSTANT" -> Constant(e.arg)
          [] thrown = {} /\ e.op \in Operators \ {"IN"} -> Operate(e.op, args)
          [] thrown = {} /\ e.op \in Comparisons -> Comparison(e.op, args[1], args[2], flags)
          [] thrown = {} /\ e.op \in {"AND", "OR"} -> BoolLoop(e.op, args[1], args[2], flags)
          [] thrown = {} /\ e.op = "ABS" -> Abs(args[1], Initialize(args[1].type))
          [] thrown = {} /\ e.op = "CASE" ->
                Case(args[1], args[2], args[3],
                     [Initialize(args[2].type) EXCEPT !.count = Max({args[k].count : k \in 1 .. 3})])
          [] thrown = {} /\ e.op = "CAST" ->
                IF args[1].type = e.type THEN args[1] ELSE Cast(args[1], Initialize(e.type))
          [] thrown = {} /\ e.op = "IN" ->
                IF e.kids[2].op = "SUBQUERY" THEN InSubquery(args[1], e.kids[2], s) ELSE InList(args)
          [] thrown = {} /\ e.op = "SUBQUERY" -> ForEachRow(e, s)

\* Visit(SubqueryExpression): row r gets what the subquery has found
Answered(e, v, r, found) ==
    IF Throws(v) THEN v ELSE IF Throws(found) THEN found
    ELSE SetValue(v, r, IF e.arg.kind # "DEFAULT" THEN Bit(found.count # 0)
                        ELSE IF found.count = 0 THEN Null ELSE GetValue(found, 0))

ForEachRow(e, s) ==
    FoldLeft(LAMBDA v, r : Answered(e, v, r, RunPlan(e.arg, <<RowChunk(s[1], r)>> \o Tail(s))),
             [Initialize(e.type) EXCEPT !.count = s[1].count, !.sel = s[1].sel],
             [r \in 1 .. s[1].count |-> r - 1])

\* Visit(OperatorExpression) for IN with a subquery, which reads one chunk of it
Contained(left, v, r, found) ==
    LET equal == Comparison("EQ", Constant(Value(left.type, GetValue(left, r))), found, Initialize(BOOLEAN_))
    IN  IF Throws(v) THEN v ELSE IF Throws(found) THEN found
        ELSE SetValue(v, r, IF found.count = 0 THEN 0
                            ELSE IF AnyTrue(equal) THEN 1 ELSE IF HasNull(equal) THEN Null ELSE 0)

InSubquery(l, plan, s) ==
    LET c == s[1]
        left == IF l.count = c.count THEN l
                ELSE Set([l EXCEPT !.count = c.count], Value(l.type, GetValue(l, 0)))
    IN  FoldLeft(LAMBDA v, r : Contained(left, v, r, RunPlan(plan.arg, <<RowChunk(c, r)>> \o Tail(s))),
                 Set([Initialize(BOOLEAN_) EXCEPT !.count = c.count], Value(INTEGER, 0)),
                 [r \in 1 .. c.count |-> r - 1])

WithType(w, type) == IF Throws(w) \/ w.type = type THEN w ELSE Cast(w, Initialize(type))
Executed(e, v, c) == IF Throws(v) THEN v ELSE WithType(Replicated(v, e.type, c), e.type)
Execute(e, s) == Executed(e, Eval(e, s), s[1])

\* PhysicalFilter: the first predicate is executed, the others are merged into it
Merged(matches, v) ==
    IF Throws(matches) THEN matches ELSE IF Throws(v) THEN v
    ELSE IF v.type # BOOLEAN_ THEN Throw("expected a boolean") ELSE BoolLoop("AND", v, matches, matches)
Selecting(c, matches) == IF Throws(matches) THEN matches ELSE SetSelectionVector(c, matches)

FilterChunk(where, c, outer) ==
    Selecting(c, FoldLeft(LAMBDA matches, e : Merged(matches, Eval(e, <<c>> \o outer)),
                          Execute(where[1], <<c>> \o outer), Tail(where)))

\* the first chunk that the plan of a subquery returns: its one column
PlanChunk(plan, outer, i) ==
    LET c == ScanChunk(InnerTypes, <<{}, {}>>, Inner[i])
    IN  IF plan.where = <<>> THEN c ELSE FilterChunk(plan.where, c, outer)

Returns(c) == Throws(c) \/ c.count > 0
PlanChunks(plan, outer) == {i \in DOMAIN Inner : Returns(PlanChunk(plan, outer, i))}

FirstColumn(plan, outer, first) == IF Throws(first) THEN first ELSE Execute(plan.select, <<first>> \o outer)
FirstOf(plan, outer, found) ==
    IF found = {} THEN Initialize(plan.select.type)
    ELSE FirstColumn(plan, outer, PlanChunk(plan, outer, Min(found)))

RunPlan(plan, outer) == FirstOf(plan, outer, PlanChunks(plan, outer))

\* Execute and Merge of an aggregate, over one chunk and with those before it
AggregateVector(e, v, count) ==
    LET all == IF v.count = 1 /\ v.count < count
               THEN Set([v EXCEPT !.count = count], Value(v.type, GetValue(v, 0))) ELSE v
    IN  CASE e.op = "COUNT" -> Count(all)
          [] e.op = "SUM" -> Sum(all)
          [] e.op = "MIN" -> MinOf(all)
          [] e.op = "MAX" -> MaxOf(all)
AggregateArgument(e, v, count) == IF Throws(v) THEN v ELSE AggregateVector(e, v, count)

AggregateChunk(e, c) ==
    IF e.op = "COUNT_STAR" THEN Value(e.type, c.count)
    ELSE AggregateArgument(e, Eval(e.kids[1], <<c>>), c.count)

MergeAggregate(e, before, v) ==
    CASE e.op = "MIN" -> ValuePick("MIN", before, v)
      [] e.op = "MAX" -> ValuePick("MAX", before, v)
      [] OTHER -> ValueOp("ADD", before, v)

\* Visit(AggregateExpression): where no chunk came, a constant argument is the result
FinalAggregate(e, k) ==
    WithType(CASE aggregates # <<>> -> Constant(aggregates[k])
               [] aggregates = <<>> /\ e.op # "COUNT_STAR" /\ IsScalar(e) -> Eval(e.kids[1], <<chunk>>)
               [] OTHER -> Constant(Value(e.type, IF e.op \in {"COUNT", "COUNT_STAR"} THEN 0 ELSE Null)),
             e.type)

-----------------------------------------------------------------------------
(* What SQL asks for: numbers without a width and three-valued logic       *)

Truth(op, a, b) ==
    LET decisive == IF op = "AND" THEN 0 ELSE 1
    IN  IF decisive \in {a, b} THEN decisive ELSE IF Null \in {a, b} THEN Null ELSE 1 - decisive

MemberOf(x, values) ==
    IF values = {} THEN 0 ELSE IF x = Null THEN Null ELSE IF x \in values THEN 1
    ELSE IF Null \in values THEN Null ELSE 0

Computed(op, a, b) ==
    CASE op = "ADD" -> a + b
      [] op = "SUB" -> a - b
      [] op = "MUL" -> a * b
      [] op \in {"DIV", "MOD"} -> IF b = 0 THEN Null ELSE IF op = "DIV" THEN Quotient(a, b) ELSE Remainder(a, b)

\* the value of an expression, where s has the row and the rows around it
RECURSIVE Meaning(_, _)
Meaning(e, s) ==
    LET args == All([k \in DOMAIN e.kids |-> Meaning(e.kids[k], s)])
        found(plan) ==
            LET hits == SelectSeq(FlattenSeq(Inner),
                            LAMBDA r : \A k \in DOMAIN plan.where : Meaning(plan.where[k], <<r>> \o s) = 1)
            IN  [i \in DOMAIN hits |-> Meaning(plan.select, <<hits[i]>> \o s)]
        strict == Null \in ToSet(args)
    IN  CASE e.op = "COLUMN" -> s[e.arg.depth + 1][e.arg.index]
          [] e.op = "CONSTANT" -> e.arg.val
          [] e.op \in Arith -> IF strict THEN Null ELSE Computed(e.op, args[1], args[2])
          [] e.op \in Comparisons -> IF strict THEN Null ELSE Bit(Compare(e.op, args[1], args[2]))
          [] e.op \in {"AND", "OR"} -> Truth(e.op, args[1], args[2])
          [] e.op = "NOT" -> IF strict THEN Null ELSE 1 - args[1]
          [] e.op = "ABS" -> IF strict THEN Null ELSE Larger(args[1], -args[1])
          [] e.op \in {"ISNULL", "NOTNULL"} -> Bit((args[1] = Null) # (e.op = "NOTNULL"))
          [] e.op = "CASE" -> IF args[1] = 1 THEN args[2] ELSE args[3]
          [] e.op \in {"CAST", "EXISTS"} -> args[1]
          [] e.op = "IN" -> MemberOf(args[1], IF e.kids[2].op = "SUBQUERY" THEN ToSet(found(e.kids[2].arg))
                                              ELSE ToSet(Tail(args)))
          [] e.op = "SUBQUERY" ->
                IF e.arg.kind = "DEFAULT"
                THEN IF found(e.arg) = <<>> THEN Null ELSE found(e.arg)[1]
                ELSE Bit(found(e.arg) # <<>>)

\* the value of an aggregate of rows
Total(e, rs) ==
    LET all == IF e.op = "COUNT_STAR" THEN rs ELSE [i \in DOMAIN rs |-> Meaning(e.kids[1], <<rs[i]>>)]
        known == SelectSeq(all, LAMBDA x : x # Null)
    IN  CASE e.op \in {"COUNT", "COUNT_STAR"} -> Len(known)
          [] e.op \notin {"COUNT", "COUNT_STAR"} ->
                IF known = <<>> THEN Null
                ELSE CASE e.op = "SUM" -> FoldLeft(LAMBDA a, b : a + b, 0, known)
                       [] e.op = "MIN" -> Min(ToSet(known))
                       [] e.op = "MAX" -> Max(ToSet(known))

-----------------------------------------------------------------------------
(* Where the code is known not to compute what SQL asks for, with the       *)
(* expression evaluated over chunk c, whose rows are rs:                    *)
(*   - a constant in AND and OR next to selected rows marks the wrong rows; *)
(*   - an operator is computed in the type of its operands, although its    *)
(*     own type was widened, so it overflows, or meets an operand whose     *)
(*     vector has not the type that was resolved for it;                    *)
(*   - a cast narrows without a test, and a remainder by zero traps;        *)
(*   - a division compares its divisors with uninitialized memory;          *)
(*   - CASE reads every row at position 0 when its check is constant;       *)
(*   - IN reads selected rows at unselected positions, ends early if an     *)
(*     uninitialized number says so, reads one chunk of a subquery, and     *)
(*     counts the NULLs of rows that a filter has removed from it;          *)
(*   - IN with a subquery of a narrower type tests whether it has rows.     *)
HasHoles(found) == found.null \ Selected(found) # {}

FlawedNode(e, c, rs, args) ==
    LET exact == {Meaning(e, <<r>>) : r \in ToSet(rs)} \ {Null}
        overflows(type) == \E n \in exact : ~InType(n, type)
        selected == c.sel # NoSel
    IN  \/ e.op \in {"AND", "OR"} /\ selected /\ \E k \in DOMAIN args : IsConstant(args[k])
        \/ e.op \in Arith \cup Comparisons /\ args[1].type # args[2].type
        \/ e.op \in Arith \cup {"ABS"} /\ overflows(args[1].type)
        \/ e.op = "CAST" /\ overflows(e.type)
        \/ e.op = "MOD" /\ \E p \in Selected(args[2]) : args[2].data[p] = 0
        \/ e.op = "DIV" /\ junk = 1 /\ ~IsConstant(args[2])
        \/ e.op = "CASE" /\ IsConstant(args[1]) /\ \E k \in {2, 3} : ~IsConstant(args[k])
        \/ e.op = "IN" /\ (selected \/ (junk = 1 /\ Len(args) > 2))
        \/ /\ e.op = "IN"
           /\ \/ e.kids[2].op = "CAST" /\ e.kids[2].kids[1].op = "SUBQUERY"
              \/ /\ e.kids[2].op = "SUBQUERY"
                 /\ \E r \in 0 .. c.count - 1 :
                        \/ HasHoles(RunPlan(e.kids[2].arg, <<RowChunk(c, r)>>))
                        \/ Cardinality(PlanChunks(e.kids[2].arg, <<RowChunk(c, r)>>)) > 1

RECURSIVE Flawed(_, _, _)
Flawed(e, c, rs) ==
    \/ \E k \in DOMAIN e.kids : Flawed(e.kids[k], c, rs)
    \/ FlawedNode(e, c, rs, All([k \in DOMAIN e.kids |-> Eval(e.kids[k], <<c>>)]))

\* an argument that was widened as above reaches the aggregate without a cast
FlawedArgument(e, c, rs) ==
    \E k \in DOMAIN e.kids :
        Flawed(e.kids[k], c, rs) \/ Eval(e.kids[k], <<c>>).type # e.kids[k].type

\* the least value of a column that holds nothing but the greatest of its type is
\* NULL, and nobody watches over a sum of values without statistics
FlawedAggregate(e, rs) ==
    LET known == SelectSeq([i \in DOMAIN rs |-> Meaning(e.kids[1], <<rs[i]>>)], LAMBDA x : x # Null)
    IN  \/ e.op = "MIN" /\ known # <<>> /\ ToSet(known) = {MaximumValue(e.type)}
        \/ e.op = "SUM" /\ ~e.stats.has
           /\ \E i \in DOMAIN known : ~InType(FoldLeft(LAMBDA a, b : a + b, 0, SubSeq(known, 1, i)), e.type)

-----------------------------------------------------------------------------
(* The pipeline of one query: scan, filter, then projection or aggregate    *)

EmptyChunk == ScanChunk(ColumnTypes, [i \in DOMAIN ColumnTypes |-> {}], <<>>)
Grouped == query.aggregates # <<>>
Predicates(q) == ToSet(q.where)
Expressions == Predicates(query) \cup ToSet(query.select)

Init ==
    /\ junk \in {0, 1}
    /\ table \in Tables
    /\ query \in Queries
    /\ columns = <<>> /\ masks = [i \in DOMAIN ColumnTypes |-> {}]
    /\ chunk = EmptyChunk
    /\ rows = <<>> /\ aggregates = <<>> /\ seen = <<>>
    /\ pc = "bind" /\ failed = FALSE /\ excused = FALSE

\* the binder and the planner, with the statistics that the table has by now
Bind ==
    /\ pc = "bind"
    /\ columns' = ColumnsOf(ColumnTypes, table)
    /\ query' = [part \in DOMAIN query |->
                    [k \in DOMAIN query[part] |-> Planned(query[part][k], <<columns'>>)]]
    /\ pc' = "scan"
    /\ UNCHANGED <<junk, table, masks, chunk, rows, aggregates, seen, failed, excused>>

\* DataTable::Scan fills the chunk that the operator keeps; null bits of the
\* chunk before are still in it
Scan ==
    /\ pc \in {"scan", "output"} /\ table # <<>>
    /\ chunk' = ScanChunk(ColumnTypes, masks, Head(table))
    /\ masks' = [i \in DOMAIN columns |-> chunk'.cols[i].null]
    /\ excused' = (excused \/ \E i \in DOMAIN columns, r \in DOMAIN Head(table) :
                                  Head(table)[r][i] # Null /\ r - 1 \in masks[i])
    /\ rows' = Head(table)
    /\ table' = Tail(table)
    /\ pc' = IF query.where = <<>> THEN "produce" ELSE "filter"
    /\ UNCHANGED <<junk, query, columns, aggregates, seen, failed>>

Fail ==
    /\ failed' = TRUE
    /\ pc' = "done"
    /\ UNCHANGED <<junk, query, columns, table, masks, chunk, rows, aggregates, seen>>

\* PhysicalFilter::_GetChunk: where nothing is left it asks for the next chunk
Filter ==
    /\ pc = "filter"
    /\ excused' = (excused \/ \E e \in Predicates(query) : Flawed(e, chunk, rows))
    /\ \E filtered \in {FilterChunk(query.where, chunk, <<>>)} :
          \/ Throws(filtered) /\ Fail
          \/ /\ ~Throws(filtered)
             /\ chunk' = filtered
             /\ rows' = SelectSeq(rows, LAMBDA r : \A e \in Predicates(query) : Meaning(e, <<r>>) = 1)
             /\ pc' = IF filtered.count = 0 THEN "scan" ELSE "produce"
             /\ UNCHANGED <<junk, query, columns, table, masks, aggregates, seen, failed>>

\* PhysicalProjection::_GetChunk
Project ==
    /\ pc = "produce" /\ ~Grouped
    /\ excused' = (excused \/ \E e \in ToSet(query.select) : Flawed(e, chunk, rows))
    /\ \E made \in {[k \in DOMAIN query.select |-> Execute(query.select[k], <<chunk>>)]} :
          \/ (\E k \in DOMAIN made : Throws(made[k])) /\ Fail
          \/ /\ ~\E k \in DOMAIN made : Throws(made[k])
             /\ chunk' = [count |-> made[1].count, sel |-> chunk.sel, cols |-> made]
             /\ rows' = [i \in DOMAIN rows |->
                            [k \in DOMAIN query.select |-> Meaning(query.select[k], <<rows[i]>>)]]
             /\ pc' = "output"
             /\ UNCHANGED <<junk, query, columns, table, masks, aggregates, seen, failed>>

\* PhysicalHashAggregate::_GetChunk without groups
Aggregate ==
    /\ pc = "produce" /\ Grouped
    /\ excused' = (excused \/ \E e \in ToSet(query.aggregates) : FlawedArgument(e, chunk, rows))
    /\ \E made \in {[k \in DOMAIN query.aggregates |-> AggregateChunk(query.aggregates[k], chunk)]} :
          \/ (\E k \in DOMAIN made : Throws(made[k])) /\ Fail
          \/ /\ ~\E k \in DOMAIN made : Throws(made[k])
             /\ aggregates' = IF aggregates = <<>> THEN made
                              ELSE [k \in DOMAIN made |->
                                       MergeAggregate(query.aggregates[k], aggregates[k], made[k])]
             /\ seen' = seen \o rows
             /\ pc' = "scan"
             /\ UNCHANGED <<junk, query, columns, table, masks, chunk, rows, failed>>

\* the one row of an aggregate without groups, which has a row even of no rows
Finish ==
    /\ pc = "scan" /\ table = <<>> /\ Grouped
    /\ \E made \in {[k \in DOMAIN query.aggregates |-> FinalAggregate(query.aggregates[k], k)]} :
          /\ chunk' = [count |-> made[1].count, sel |-> NoSel, cols |-> made]
          /\ rows' = <<[k \in DOMAIN made |-> Total(query.aggregates[k], seen)]>>
    /\ excused' = (excused \/ \E e \in ToSet(query.aggregates) :
                       FlawedAggregate(e, seen) \/ (aggregates = <<>> /\ IsScalar(e)))
    /\ pc' = "done"
    /\ UNCHANGED <<junk, query, columns, table, masks, aggregates, seen, failed>>

Next == Bind \/ Scan \/ Filter \/ Project \/ Aggregate \/ Finish

Spec == Init /\ [][Next]_vars

-----------------------------------------------------------------------------
(* Properties                                                              *)

Aligned(c) ==
    /\ c.count \in 0 .. VectorSize
    /\ \A v \in ToSet(c.cols) : v.count = c.count /\ v.sel = c.sel
    /\ c.sel # NoSel => /\ Len(c.sel) = c.count
                        /\ \A i \in 1 .. c.count : c.sel[i] \in Positions
                        /\ \A i, j \in 1 .. c.count : i < j => c.sel[i] < c.sel[j]

\* Every vector of a chunk has the chunk's count and selection vector and the
\* type resolved for it, and a selection lists distinct positions in order: what
\* every operator assumes of the one below it.
TypeOK ==
    /\ pc \in {"bind", "scan", "filter", "produce", "output", "done"}
    /\ failed \in BOOLEAN /\ excused \in BOOLEAN
    /\ Aligned(chunk)
    /\ \A v \in ToSet(chunk.cols) : v.null \subseteq Positions /\ DOMAIN v.data = Positions
    /\ pc = "output" => \A k \in DOMAIN chunk.cols : chunk.cols[k].type = query.select[k].type

\* A chunk of any operator holds the rows that SQL asks for at this point, NULLs
\* included, whatever selection vectors, constants, NULL marks and uninitialized
\* memory the evaluation went through, and the query does not fail; unless the
\* query has met one of the flaws above.
RowsAreRight ==
    ~excused =>
        /\ ~failed
        /\ pc \notin {"bind", "scan"} =>
               [i \in 1 .. chunk.count |->
                   [k \in DOMAIN chunk.cols |-> GetValue(chunk.cols[k], i - 1)]] = rows

WithinStatistics(e, n) ==
    e.stats.has => IF n = Null THEN e.stats.canNull
                   ELSE /\ e.stats.min.val # Null => n >= e.stats.min.val
                        /\ e.stats.max.val # Null => n <= e.stats.max.val

RECURSIVE Parts(_)
Parts(e) == {e} \cup UNION {Parts(e.kids[k]) : k \in DOMAIN e.kids}

\* a remainder takes the sign of its dividend, whatever that of the divisor, and
\* one by zero is NULL
OutOfRange(e, r) ==
    e.op = "MOD" /\ \E k \in {1, 2} : Meaning(e.kids[k], <<r>>) \notin {Null} \cup (k - 1 .. MaximumValue(BIGINT))

\* The statistics with which a type was chosen for an expression bound the value
\* it has, computed with numbers of any size, in every row; and so for the
\* aggregates.  Remainders are bounded for numbers that are not negative, sums
\* for a column that is not negative throughout.
StatisticsHold ==
    /\ pc \in {"filter", "produce"} =>
           \A e \in UNION {Parts(x) : x \in Expressions}, r \in ToSet(rows) :
               WithinStatistics(e, Meaning(e, <<r>>)) \/ \E part \in Parts(e) : OutOfRange(part, r)
    /\ pc = "done" /\ ~failed =>
           \A e \in ToSet(query.aggregates) :
               \/ WithinStatistics(e, Total(e, seen))
               \/ e.op = "SUM" /\ e.kids[1].stats.max.val < 0
=============================================================================
