--------------------------- MODULE QueryPlanning ---------------------------
(***************************************************************************)
(* From the text of a statement to the plan that runs: the parse tree is   *)
(* transformed, the Binder looks every name up and numbers the columns it  *)
(* reads, the LogicalPlanGenerator builds the tree of operators, and the   *)
(* PhysicalPlanGenerator has the ColumnBindingResolver replace the numbers *)
(* by positions in the chunks of each operator.  A column that comes out   *)
(* of this at another position is read without any complaint.              *)
(*                                                                         *)
(* All values are numbers, so that no cast is needed; Expressions.tla has  *)
(* what casts and operators compute, QueryExecution.tla how operators run. *)
(* Here an operator returns the rows that it stands for.                   *)
(***************************************************************************)
EXTENDS Integers, FiniteSets, Sequences, SequencesExt, TLC

CONSTANTS
    Columns,       \* the catalog: table -> sequence of its columns
    Contents,      \* table -> sequence of its rows
    Statements,    \* the parse trees
    RowId,         \* COLUMN_IDENTIFIER_ROW_ID
    Null

ASSUME CatalogAssumption == DOMAIN Columns = DOMAIN Contents

VARIABLES
    statement,    \* the parse tree
    bound,        \* the statement after the Binder
    plan,         \* the logical, then the physical plan
    result,       \* rows of a query, or contents of the table after another statement
    pc

vars == <<statement, bound, plan, result, pc>>

Comparisons == {"EQ", "NE", "LT", "GT", "LE", "GE"}
Aggregates == {"COUNT_STAR", "SUM", "MIN", "FIRST"}

\* an expression: `binding', `index', `depth' and `reference' of a column are set on
\* the way; `id' stands for the address of an element of the SELECT list
Expression ==
    [op |-> "", args |-> <<>>, as |-> "", table |-> "", name |-> "", value |-> 0, query |-> <<>>,
     binding |-> <<>>, index |-> -1, depth |-> 0, reference |-> -1, id |-> -1]

\* an operator of a plan
Operator ==
    [op |-> "", kids |-> <<>>, list |-> <<>>, groups |-> <<>>, on |-> <<>>, order |-> <<>>,
     limit |-> <<>>, table |-> "", index |-> -1, columns |-> <<>>, refs |-> {}]

Exception == [Expression EXCEPT !.op = "EXCEPTION"]
NoPlan == [Operator EXCEPT !.op = "EXCEPTION"]

RECURSIVE IsAggregate(_)
IsAggregate(e) == e.op \in Aggregates \/ \E k \in DOMAIN e.args : IsAggregate(e.args[k])

\* Expression::Equals and those of its subclasses
RECURSIVE SameExpression(_, _)
SameExpression(e, f) ==
    /\ e.op = f.op /\ Len(e.args) = Len(f.args)
    /\ \A k \in DOMAIN e.args : SameExpression(e.args[k], f.args[k])
    /\ e.op = "COLUMN" => <<e.table, e.name>> = <<f.table, f.name>>
    /\ e.op = "CONST" => e.value = f.value

\* the predicates that an AND holds together
RECURSIVE Conjuncts(_)
Conjuncts(e) == IF e.op = "AND" THEN Conjuncts(e.args[1]) \o Conjuncts(e.args[2]) ELSE <<e>>

-----------------------------------------------------------------------------
(* Transform: from the parse tree to the statement                         *)

Cross(l, r) == [op |-> "CROSS", name |-> "", alias |-> "", kids |-> <<l, r>>, on |-> <<>>]

RECURSIVE TransformJoin(_)
TransformJoin(f) ==
    IF f.op # "JOIN" THEN f
    ELSE LET l == TransformJoin(f.kids[1])
             r == TransformJoin(f.kids[2])
         IN  IF f.on = <<>> THEN Cross(l, r) ELSE [f EXCEPT !.kids = <<l, r>>]

TransformFrom(list) ==
    IF list = <<>> THEN <<>>
    ELSE <<FoldLeft(LAMBDA l, f : Cross(l, TransformJoin(f)), TransformJoin(list[1]), Tail(list))>>

\* the bottom of a UNION goes to the end of the chain that starts with its top
RECURSIVE WithUnion(_, _, _)
WithUnion(top, bottom, all) ==
    IF top.union = <<>> THEN [top EXCEPT !.union = <<bottom>>, !.distinct = ~all]
    ELSE [top EXCEPT !.union = <<WithUnion(top.union[1], bottom, all)>>]

RECURSIVE TransformSelect(_)
TransformSelect(tree) ==
    IF tree.op = "UNION"
    THEN WithUnion(TransformSelect(tree.larg), TransformSelect(tree.rarg), tree.all)
    ELSE [tree EXCEPT !.from = TransformFrom(tree.from)]

-----------------------------------------------------------------------------
(* BindContext: a chain of them, that of the innermost query first         *)

NewContext == [tables |-> <<>>, bound |-> <<>>, names |-> <<>>]

\* what the Binders of a statement share, and whether one has thrown an exception
NewBinder == [chain |-> <<NewContext>>, next |-> 0, failed |-> FALSE]
Failing(st) == [st EXCEPT !.failed = TRUE]

Aliases(c) == {t.alias : t \in ToSet(c.tables)}
TableOf(c, alias) == CHOOSE t \in ToSet(c.tables) : t.alias = alias
ColumnsOf(c, alias) == Columns[TableOf(c, alias).name]

AddBaseTable(f, st) ==
    LET alias == IF f.alias = "" THEN f.name ELSE f.alias
    IN  IF f.name \notin DOMAIN Columns \/ alias \in Aliases(st.chain[1]) THEN Failing(st)
        ELSE [st EXCEPT !.chain[1].tables = Append(@, [alias |-> alias, name |-> f.name, index |-> st.next]),
                        !.chain[1].bound = (alias :> <<>>) @@ @,
                        !.next = @ + 1]

AddExpression(st, alias, i) == [st EXCEPT !.chain[1].names = (alias :> i) @@ @]

\* the alias whose table has the column, "" for an alias of the SELECT list, <<>> for neither
GetMatchingTable(chain, name) ==
    LET having(k) == {a \in Aliases(chain[k]) : name \in ToSet(ColumnsOf(chain[k], a))}
        known == {k \in DOMAIN chain : having(k) # {} \/ name \in DOMAIN chain[k].names}
        k == Min(known)
    IN  IF known = {} THEN <<>>
        ELSE IF having(k) = {} THEN <<"">>
        ELSE IF Cardinality(having(k)) > 1 THEN <<>>
        ELSE <<CHOOSE a \in having(k) : TRUE>>

\* a column without table is one of the SELECT list; another is looked up from here
\* outwards and takes a place among the columns that are read of its table
BindColumn(e, st) ==
    LET chain == st.chain
        known == {k \in DOMAIN chain : e.table \in Aliases(chain[k])}
        k == Min(known)
        list == chain[k].bound[e.table]
        at == IF e.name \in ToSet(list) THEN CHOOSE i \in DOMAIN list : list[i] = e.name
              ELSE Len(list) + 1
    IN  IF e.table = ""
        THEN IF e.name \in DOMAIN chain[1].names
             THEN [e |-> [e EXCEPT !.index = chain[1].names[e.name], !.reference = chain[1].names[e.name]],
                   st |-> st]
             ELSE [e |-> e, st |-> Failing(st)]
        ELSE IF known = {} \/ e.name \notin ToSet(ColumnsOf(chain[k], e.table))
        THEN [e |-> e, st |-> Failing(st)]
        ELSE [e |-> [e EXCEPT !.binding = <<TableOf(chain[k], e.table).index, at - 1>>, !.depth = k - 1],
              st |-> IF at <= Len(list) THEN st
                     ELSE [st EXCEPT !.chain[k].bound[e.table] = Append(@, e.name)]]

GenerateAllColumnExpressions(c) ==
    FlattenSeq([t \in DOMAIN c.tables |->
        [i \in DOMAIN Columns[c.tables[t].name] |->
            [Expression EXCEPT !.op = "COLUMN", !.table = c.tables[t].alias,
                               !.name = Columns[c.tables[t].name][i]]]])

-----------------------------------------------------------------------------
(* Binder                                                                  *)

RECURSIVE BindExpression(_, _), BindFrom(_, _), BindSelect(_, _)

Appended(acc, b) == [list |-> Append(acc.list, b.e), st |-> b.st]

BindAll(list, st) ==
    FoldLeft(LAMBDA acc, e : Appended(acc, BindExpression(e, acc.st)), [list |-> <<>>, st |-> st], list)

BindColumnRef(e, st) ==
    LET found == GetMatchingTable(st.chain, e.name)
    IN  IF e.name = "" THEN [e |-> e, st |-> st]
        ELSE IF e.table # "" THEN BindColumn(e, st)
        ELSE IF found = <<>> THEN [e |-> e, st |-> Failing(st)]
        ELSE BindColumn([e EXCEPT !.table = found[1]], st)

\* a subquery has a Binder of its own, with this one's context for a parent
Subquery(e, inner) == [e |-> [e EXCEPT !.query = <<inner.s>>], st |-> [inner.st EXCEPT !.chain = Tail(@)]]
Arguments(e, b) == [e |-> [e EXCEPT !.args = b.list], st |-> b.st]

BindExpression(e, st) ==
    CASE e.op = "COLUMN" -> BindColumnRef(e, st)
      [] e.op = "SUBQUERY" ->
            Subquery(e, BindSelect(TransformSelect(e.query[1]), [st EXCEPT !.chain = <<NewContext>> \o @]))
      [] OTHER -> Arguments(e, BindAll(e.args, st))

\* the tables of a join, then its condition
BindSides(f, sides) ==
    LET on == BindAll(f.on, sides.st)
    IN  [e |-> [f EXCEPT !.kids = sides.list, !.on = on.list], st |-> on.st]

BindFrom(f, st) ==
    IF f.op = "TABLE" THEN [e |-> f, st |-> AddBaseTable(f, st)]
    ELSE BindSides(f, FoldLeft(LAMBDA acc, kid : Appended(acc, BindFrom(kid, acc.st)),
                               [list |-> <<>>, st |-> st], f.kids))

\* every element of the list is bound before its alias is known
Element(acc, e, b) ==
    LET i == Len(acc.list)
    IN  [list |-> Append(acc.list, [b.e EXCEPT !.id = i]),
         st |-> IF e.as = "" THEN b.st ELSE AddExpression(b.st, e.as, i)]

BindSelectList(list, st) ==
    FoldLeft(LAMBDA acc, e : Element(acc, e, BindExpression(e, acc.st)), [list |-> <<>>, st |-> st], list)

\* ORDER BY: a number is that of an element of the list
OrderReference(e, list) ==
    IF e.op = "COLUMN" /\ e.name = "" THEN [e EXCEPT !.reference = e.index - 1] ELSE e

\* what is ordered by and not in the list becomes an element at its end
Projected(list, e) ==
    LET same == {j \in DOMAIN list : SameExpression(e, list[j]) \/ (e.op = "COLUMN" /\ e.reference = list[j].id)}
    IN  IF same # {} THEN [list |-> list, at |-> Min(same) - 1]
        ELSE [list |-> Append(list, [e EXCEPT !.id = Len(list)]), at |-> Len(list)]

ProjectOrders(list, orders) ==
    FoldLeft(LAMBDA acc, o :
                 LET p == Projected(acc.list, o.e)
                 IN  [list |-> p.list,
                      orders |-> Append(acc.orders,
                                        [o EXCEPT !.e = [Expression EXCEPT !.op = "COLUMN", !.index = p.at]])],
             [list |-> list, orders |-> <<>>], orders)

\* GROUP BY an alias: its expression moves from the list to the groups
GroupRef(g) == [Expression EXCEPT !.op = "GROUP_REF", !.index = g]
MoveGroup(acc, i) ==
    LET g == acc.groups[i]
    IN  IF g.reference = -1 THEN acc
        ELSE [groups |-> [acc.groups EXCEPT ![i] = acc.list[g.index + 1]],
              list |-> [acc.list EXCEPT ![g.index + 1] = GroupRef(i - 1)]]

\* an element that is neither an aggregate nor a group becomes the FIRST of its values
GroupElement(e, groups) ==
    LET matching == {j \in DOMAIN groups :
                        IF e.reference # -1 THEN e.reference = groups[j].id
                        ELSE groups[j].op = "COLUMN" /\ groups[j].binding = e.binding}
    IN  CASE e.op = "GROUP_REF" \/ IsAggregate(e) -> e
          [] e.op = "COLUMN" /\ matching # {} -> GroupRef(Min(matching) - 1)
          [] OTHER -> [Expression EXCEPT !.op = "FIRST", !.args = <<e>>]

\* The Binder goes through a query clause by clause: `b' has what the query has become,
\* and the state.
Bound(b, clause, r) == [s |-> [b.s EXCEPT ![clause] = r.list], st |-> r.st]
Requiring(ok, b) == IF ok THEN b ELSE [b EXCEPT !.st = Failing(@)]

BindClause(b, clause) == Bound(b, clause, BindAll(b.s[clause], b.st))

BindTables(b) ==
    Bound(b, "from", FoldLeft(LAMBDA acc, f : Appended(acc, BindFrom(f, acc.st)),
                              [list |-> <<>>, st |-> b.st], b.s.from))

\* stars become columns; there are none without tables
BindList(b) ==
    LET stars == {i \in DOMAIN b.s.select : b.s.select[i].op = "STAR"}
        all == GenerateAllColumnExpressions(b.st.chain[1])
    IN  Requiring(stars = {} \/ b.s.from # <<>>,
            Bound(b, "select", BindSelectList(
                FlattenSeq([i \in DOMAIN b.s.select |-> IF i \in stars THEN all ELSE <<b.s.select[i]>>]), b.st)))

Ordered(b, keyed) ==
    LET list == b.s.select
        keys == [o \in DOMAIN b.s.order |-> [b.s.order[o] EXCEPT !.e = OrderReference(keyed.list[o], list)]]
        projected == ProjectOrders(list, keys)
    IN  Requiring(\A k \in ToSet(keys) : k.e.name = "" /\ k.e.op = "COLUMN" => k.e.index \in 1 .. Len(list),
            [s |-> [b.s EXCEPT !.select = projected.list, !.order = projected.orders], st |-> keyed.st])

BindOrder(b) == Ordered(b, BindAll([o \in DOMAIN b.s.order |-> b.s.order[o].e], b.st))

\* a group is a column
GroupList(b) ==
    LET moved == FoldLeft(MoveGroup, [groups |-> b.s.groups, list |-> b.s.select],
                          [i \in DOMAIN b.s.groups |-> i])
    IN  IF b.s.groups = <<>> \/ b.st.failed THEN b
        ELSE IF \E g \in ToSet(b.s.groups) : g.op # "COLUMN" THEN Requiring(FALSE, b)
        ELSE [b EXCEPT !.s.groups = moved.groups,
                       !.s.select = [i \in DOMAIN moved.list |-> GroupElement(moved.list[i], moved.groups)]]

\* the bottom of a UNION has a Binder that knows nothing of this one
Bottom(acc, b) ==
    [list |-> Append(acc.list, b.s), st |-> IF b.st.failed THEN Failing(acc.st) ELSE acc.st]

BindBottom(b) ==
    Bound(b, "union", FoldLeft(LAMBDA acc, u : Bottom(acc, BindSelect(u, NewBinder)),
                               [list |-> <<>>, st |-> b.st], b.s.union))

InContext(b) == [b EXCEPT !.s = [context |-> b.st.chain[1]] @@ @]

BindSelect(s, st) ==
    InContext(BindBottom(BindClause(GroupList(BindClause(BindClause(
        BindOrder(BindList(BindTables([s |-> s, st |-> st]))), "where"), "groups")), "having")))

InContexts(b) == [b EXCEPT !.s.context = <<b.st.chain[1]>>]

\* UPDATE and DELETE read one table; INSERT binds the query that it reads, if any
BindStatement(s) ==
    CASE s.op \in {"SELECT", "UNION"} -> BindSelect(TransformSelect(s), NewBinder)
      [] s.op = "INSERT" ->
            IF s.query = <<>> THEN [s |-> s, st |-> NewBinder]
            ELSE Bound([s |-> s], "query", Bottom([list |-> <<>>, st |-> NewBinder],
                                                  BindSelect(TransformSelect(s.query[1]), NewBinder)))
      [] s.op \in {"UPDATE", "DELETE"} ->
            InContexts(BindClause(BindClause([s |-> s, st |-> BindFrom(s.from, NewBinder).st], "where"), "list"))

-----------------------------------------------------------------------------
(* LogicalJoin: the condition of a JOIN                                    *)

Negate(cmp) == CASE cmp = "EQ" -> "NE" [] cmp = "NE" -> "EQ" [] cmp = "LT" -> "GE"
                 [] cmp = "GT" -> "LE" [] cmp = "LE" -> "GT" [] cmp = "GE" -> "LT"

\* mutant: sides are exchanged as if the comparison had to be negated (LogicalJoin.cc:117)
FlipNegated(cmp) == Negate(cmp)

Flip(cmp) == CASE cmp \in {"EQ", "NE"} -> cmp [] cmp = "LT" -> "GT"
               [] cmp = "GT" -> "LT" [] cmp = "LE" -> "GE" [] cmp = "GE" -> "LE"

\* an operand without columns after one with columns makes BOTH out of a side
RECURSIVE JoinSide(_, _)
JoinSide(join, e) ==
    IF e.op = "COLUMN"
    THEN IF e.binding[1] \in join.kids[1].refs THEN "LEFT"
         ELSE IF e.binding[1] \in join.kids[2].refs THEN "RIGHT" ELSE "NONE"
    ELSE FoldLeft(LAMBDA side, k : IF JoinSide(join, k) = side THEN side
                                   ELSE IF side = "NONE" THEN JoinSide(join, k) ELSE "BOTH",
                  "NONE", e.args)

FilterOver(p, e) ==
    [Operator EXCEPT !.op = "FILTER", !.kids = <<p>>, !.list = Conjuncts(e), !.refs = p.refs]

\* a comparison of the left with the right is a condition of the join, any other
\* one a filter of a child; what is no comparison is left out
AddCondition(join, c) ==
    LET e == IF c.op = "NOT" THEN [c.args[1] EXCEPT !.op = Negate(@)] ELSE c
        l == JoinSide(join, e.args[1])
        r == JoinSide(join, e.args[2])
    IN  CASE c.op = "NOT" /\ c.args[1].op \notin Comparisons -> [join EXCEPT !.kids[1] = NoPlan]
          [] c.op \notin Comparisons \cup {"NOT"} -> join
          [] OTHER ->
                CASE l = "LEFT" /\ r = "RIGHT" ->
                        [join EXCEPT !.on = Append(@, [cmp |-> e.op, left |-> e.args[1], right |-> e.args[2]])]
                  [] l = "RIGHT" /\ r = "LEFT" ->
                        [join EXCEPT !.on = Append(@, [cmp |-> Flip(e.op), left |-> e.args[2], right |-> e.args[1]])]
                  [] OTHER -> LET k == IF "LEFT" \in {l, r} THEN 1 ELSE 2
                              IN  [join EXCEPT !.kids[k] = FilterOver(@, e)]

-----------------------------------------------------------------------------
(* LogicalPlanGenerator                                                    *)

RECURSIVE PlanExpression(_), PlanSelect(_, _), PlanFrom(_, _, _)

PlanAll(list) == [i \in DOMAIN list |-> PlanExpression(list[i])]

\* a subquery is planned in the context that its own Binder has left
PlanExpression(e) ==
    IF e.op = "SUBQUERY" THEN [e EXCEPT !.query = <<PlanSelect(e.query[1], e.query[1].context)>>]
    ELSE [e EXCEPT !.args = PlanAll(e.args)]

\* the scan has the columns that the context says are read, or row identifiers
Get(f, c, rowId) ==
    LET alias == IF f.alias = "" THEN f.name ELSE f.alias
        read == c.bound[alias]
        index == TableOf(c, alias).index
    IN  IF alias \notin Aliases(c) THEN NoPlan
        ELSE [Operator EXCEPT !.op = "GET", !.table = f.name, !.index = index, !.refs = {index},
                              !.columns = IF rowId \/ read = <<>> THEN Append(read, RowId) ELSE read]

\* a join that no condition is left of is a cross product
PlanFrom(f, c, rowId) ==
    LET l == PlanFrom(f.kids[1], c, rowId)
        r == PlanFrom(f.kids[2], c, rowId)
        both == [Operator EXCEPT !.op = "CROSS", !.kids = <<l, r>>, !.refs = l.refs \cup r.refs]
        join == FoldLeft(AddCondition, both, Conjuncts(f.on[1]))
    IN  CASE f.op = "TABLE" -> Get(f, c, rowId)
          [] f.op = "CROSS" -> both
          [] f.op = "JOIN" -> IF join.on = <<>> THEN join ELSE [join EXCEPT !.op = "JOIN"]

Over(op, p) == [Operator EXCEPT !.op = op, !.kids = <<p>>, !.refs = p.refs]

\* the bottom of a UNION is planned in the context of its top
UnionOf(top, bottom) ==
    IF {top.op, bottom.op} \subseteq {"PROJECTION", "AGGREGATE", "UNION"} /\ Len(top.list) = Len(bottom.list)
    THEN [Operator EXCEPT !.op = "UNION", !.kids = <<top, bottom>>,
             !.list = [i \in DOMAIN top.list |-> [Expression EXCEPT !.op = "COLUMN", !.index = i - 1]]]
    ELSE NoPlan

\* DISTINCT groups by every column
DistinctOf(p) ==
    [Over("AGGREGATE", p) EXCEPT !.list = [i \in DOMAIN p.list |-> GroupRef(i - 1)],
                                 !.groups = [i \in DOMAIN p.list |->
                                                [Expression EXCEPT !.op = "COLUMN", !.index = i - 1]]]

SourceOf(s, c) == IF s.from = <<>> THEN [Operator EXCEPT !.op = "GET"] ELSE PlanFrom(s.from[1], c, FALSE)
Filtered(p, condition) == IF condition = <<>> THEN p ELSE FilterOver(p, PlanExpression(condition[1]))

\* a projection, or an aggregation with its HAVING
Selected(s, p) ==
    IF s.groups = <<>> /\ ~\E e \in ToSet(s.select) : IsAggregate(e)
    THEN [Over("PROJECTION", p) EXCEPT !.list = PlanAll(s.select)]
    ELSE Filtered([Over("AGGREGATE", p) EXCEPT !.list = PlanAll(s.select), !.groups = s.groups], s.having)

United(s, c, p) == IF s.union = <<>> THEN p ELSE UnionOf(p, PlanSelect(s.union[1], c))

Distinguished(s, p) ==
    IF ~s.distinct THEN p
    ELSE IF p.op \in {"PROJECTION", "AGGREGATE", "UNION"} THEN DistinctOf(p) ELSE NoPlan

Sorted(s, p) == IF s.order = <<>> THEN p ELSE [Over("ORDER", p) EXCEPT !.order = s.order]
Cut(s, p) == IF s.limit = <<>> THEN p ELSE [Over("LIMIT", p) EXCEPT !.limit = s.limit]

PlanSelect(s, c) ==
    Cut(s, Sorted(s, Distinguished(s, United(s, c, Selected(s, Filtered(SourceOf(s, c), s.where))))))

\* where a column of the table is in the list of an INSERT, -1 for its default;
\* of columns named twice the last one counts
ColumnIndexMap(s) ==
    IF s.columns = <<>> THEN <<>>
    ELSE [i \in DOMAIN Columns[s.table] |->
             Max({-1} \cup {k - 1 : k \in {j \in DOMAIN s.columns : s.columns[j] = Columns[s.table][i]}})]

PlanInsert(s) ==
    LET insert == [Operator EXCEPT !.op = "INSERT", !.table = s.table, !.columns = ColumnIndexMap(s)]
        width == IF s.columns = <<>> THEN Len(Columns[s.table]) ELSE Len(s.columns)
    IN  CASE s.table \notin DOMAIN Columns -> NoPlan
          [] s.table \in DOMAIN Columns /\ s.query # <<>> ->
                [insert EXCEPT !.kids = <<PlanSelect(s.query[1], s.query[1].context)>>]
          [] s.table \in DOMAIN Columns /\ s.query = <<>> ->
                IF Len(s.values[1]) = width THEN [insert EXCEPT !.list = s.values] ELSE NoPlan

\* UPDATE and DELETE: the last column of the scan is the row identifier
PlanWrite(s) ==
    IF \E n \in ToSet(s.columns) : n \notin ToSet(Columns[s.from.name]) THEN NoPlan
    ELSE [Over(s.op, Filtered(PlanFrom(s.from, s.context[1], TRUE), s.where))
             EXCEPT !.table = s.from.name, !.columns = s.columns, !.list = s.list]

PlanStatement(op, s) ==
    CASE op \in {"SELECT", "UNION"} -> PlanSelect(s, s.context)
      [] op = "INSERT" -> PlanInsert(s)
      [] op \in {"UPDATE", "DELETE"} -> PlanWrite(s)

\* whether an exception or a failed assertion ended the making of a plan
RECURSIVE Thrown(_)
Thrown(p) ==
    \/ p.op = "EXCEPTION"
    \/ "kids" \in DOMAIN p /\ p.op # "INSERT" /\ \E e \in ToSet(p.list \o p.groups) : Thrown(e)
    \/ "kids" \in DOMAIN p /\ \E k \in DOMAIN p.kids : Thrown(p.kids[k])
    \/ "kids" \in DOMAIN p /\ \E k \in DOMAIN p.on : Thrown(p.on[k].left) \/ Thrown(p.on[k].right)
    \/ "args" \in DOMAIN p /\ \E q \in ToSet(p.args \o p.query) : Thrown(q)

-----------------------------------------------------------------------------
(* ColumnBindingResolver and PhysicalPlanGenerator                         *)

\* the position behind the last of the tables
NextOffset(tables) == IF tables = <<>> THEN 0 ELSE Last(tables).offset + Last(tables).count

AppendTables(tables, more) ==
    tables \o [i \in DOMAIN more |-> [more[i] EXCEPT !.offset = @ + NextOffset(tables)]]

RECURSIVE ResolveExpression(_, _, _), Resolve(_, _, _)

ResolveAll(list, tables, depth) ==
    FoldLeft(LAMBDA acc, e : LET r == ResolveExpression(e, acc.tables, depth)
                             IN  [list |-> Append(acc.list, r.e), tables |-> r.tables],
             [list |-> <<>>, tables |-> tables], list)

\* columns of a query further out are left to its own resolver, which gets here
\* with a depth; the assertion at the end aborts the program
ResolveColumn(e, tables, depth) ==
    LET here == {i \in DOMAIN tables : tables[i].index = e.binding[1]}
    IN  IF e.index # -1 \/ e.reference # -1 \/ e.depth # depth THEN e
        ELSE IF here = {} THEN Exception
        ELSE [e EXCEPT !.index = tables[Min(here)].offset + e.binding[2]]

ResolveExpression(e, tables, depth) ==
    CASE e.op = "COLUMN" -> [e |-> ResolveColumn(e, tables, depth), tables |-> tables]
      [] e.op = "SUBQUERY" -> LET r == Resolve(e.query[1], tables, depth + 1)
                              IN  [e |-> [e EXCEPT !.query = <<r.plan>>], tables |-> r.tables]
      [] OTHER -> LET r == ResolveAll(e.args, tables, depth)
                  IN  [e |-> [e EXCEPT !.args = r.list], tables |-> r.tables]

\* the right child of two starts without tables, its own come after those of the left one
ResolveBoth(p, tables, depth) ==
    LET left == Resolve(p.kids[1], tables, depth)
        leftOn == ResolveAll([i \in DOMAIN p.on |-> p.on[i].left], left.tables, depth)
        right == Resolve(p.kids[2], <<>>, depth)
        rightOn == ResolveAll([i \in DOMAIN p.on |-> p.on[i].right], right.tables, depth)
    IN  [plan |-> [p EXCEPT !.kids = <<left.plan, right.plan>>,
                            !.on = [i \in DOMAIN p.on |-> [p.on[i] EXCEPT !.left = leftOn.list[i],
                                                                          !.right = rightOn.list[i]]]],
         tables |-> AppendTables(leftOn.tables, rightOn.tables)]

Resolve(p, tables, depth) ==
    CASE p.op = "GET" ->
            [plan |-> p,
             tables |-> IF p.table = "" THEN tables
                        ELSE Append(tables, [index |-> p.index, count |-> Len(p.columns),
                                             offset |-> NextOffset(tables)])]
      [] p.op \in {"CROSS", "JOIN", "UNION"} -> ResolveBoth(p, tables, depth)
      [] p.op = "INSERT" /\ p.kids = <<>> -> [plan |-> p, tables |-> tables]
      [] OTHER ->
            LET kid == Resolve(p.kids[1], tables, depth)
                groups == ResolveAll(p.groups, kid.tables, depth)
                list == ResolveAll(p.list, groups.tables, depth)
            IN  [plan |-> [p EXCEPT !.kids = <<kid.plan>>, !.groups = groups.list, !.list = list.list],
                 tables |-> list.tables]

\* CreatePlan of PhysicalPlanGenerator: a subquery is resolved and planned once more
RECURSIVE Generate(_), GenerateExpression(_)
CreatePlan(p) == Generate(Resolve(p, <<>>, 0).plan)

GenerateExpression(e) ==
    IF e.op = "SUBQUERY" THEN [e EXCEPT !.query = <<CreatePlan(e.query[1])>>]
    ELSE [e EXCEPT !.args = [k \in DOMAIN e.args |-> GenerateExpression(e.args[k])]]

Generate(p) ==
    [p EXCEPT !.kids = [k \in DOMAIN p.kids |-> Generate(p.kids[k])],
              !.list = IF p.op = "INSERT" THEN p.list ELSE [i \in DOMAIN p.list |-> GenerateExpression(p.list[i])]]

-----------------------------------------------------------------------------
(* What the operators of a physical plan return                            *)

Compare(op, x, y) ==
    CASE op = "EQ" -> x = y [] op = "NE" -> x # y [] op = "LT" -> x < y
      [] op = "GT" -> x > y [] op = "LE" -> x <= y [] op = "GE" -> x >= y

Apply(op, xs) ==
    CASE Null \in ToSet(xs) -> Null
      [] Null \notin ToSet(xs) /\ op \in Comparisons -> Compare(op, xs[1], xs[2])
      [] Null \notin ToSet(xs) /\ op = "ADD" -> xs[1] + xs[2]
      [] Null \notin ToSet(xs) /\ op = "AND" -> xs[1] /\ xs[2]
      [] Null \notin ToSet(xs) /\ op = "OR" -> xs[1] \/ xs[2]
      [] Null \notin ToSet(xs) /\ op = "NOT" -> ~xs[1]

AggregateOf(op, xs) ==
    CASE op = "COUNT_STAR" -> Len(xs)
      [] op # "COUNT_STAR" /\ xs = <<>> -> Null
      [] op = "SUM" /\ xs # <<>> -> FoldLeft(+, 0, xs)
      [] op = "MIN" /\ xs # <<>> -> Min(ToSet(xs))
      [] op = "FIRST" /\ xs # <<>> -> xs[1]

\* what a subquery yields that stands for a value
FirstValue(rows) == IF rows = <<>> THEN Null ELSE rows[1][1]

\* the rows of equal keys, and their keys, in the order in which the keys turn up
Grouped(rows, keys) ==
    LET first == SelectSeq([i \in DOMAIN keys |-> i], LAMBDA i : \A j \in 1 .. i - 1 : keys[j] # keys[i])
        with(k) == SelectSeq([i \in DOMAIN keys |-> i], LAMBDA i : keys[i] = k)
    IN  [g \in DOMAIN first |-> [key |-> keys[first[g]],
                                 rows |-> [n \in DOMAIN with(keys[first[g]]) |-> rows[with(keys[first[g]])[n]]]]]

\* whether k comes before l, and rows in the order of their keys
Before(orders, k, l) ==
    \E o \in DOMAIN orders :
        /\ \A q \in 1 .. o - 1 : k[q] = l[q]
        /\ IF orders[o].desc THEN k[o] > l[o] ELSE k[o] < l[o]

InOrder(orders, rows, keys) ==
    LET ahead(i) == {j \in DOMAIN rows : Before(orders, keys[j], keys[i]) \/ (keys[i] = keys[j] /\ j < i)}
    IN  [n \in DOMAIN rows |-> rows[CHOOSE i \in DOMAIN rows : Cardinality(ahead(i)) = n - 1]]

Limited(limit, rows) ==
    IF limit = <<>> THEN rows ELSE SubSeq(rows, limit[2] + 1, Min({limit[1] + limit[2], Len(rows)}))

\* the rows of l beside those of r
Pairs(l, r, Join(_, _)) ==
    FlattenSeq([i \in DOMAIN l |-> [j \in DOMAIN r |-> Join(l[i], r[j])]])

RECURSIVE Value(_, _, _), RowsOf(_, _)

\* a column counts in the row of the query `depth' steps further out; an aggregate
\* and a group in those of the group that is given
Value(e, rows, group) ==
    CASE e.op = "COLUMN" -> rows[e.depth + 1][e.index + 1]
      [] e.op = "CONST" -> e.value
      [] e.op = "GROUP_REF" -> group.key[e.index + 1]
      [] e.op \in Aggregates ->
            AggregateOf(e.op, [i \in DOMAIN group.rows |->
                IF e.args = <<>> THEN Null ELSE Value(e.args[1], <<group.rows[i]>> \o Tail(rows), group)])
      [] e.op = "SUBQUERY" -> FirstValue(RowsOf(e.query[1], rows))
      [] e.op = "EXISTS" -> RowsOf(e.args[1].query[1], rows) # <<>>
      [] e.op = "IN" -> Value(e.args[1], rows, group) \in {r[1] : r \in ToSet(RowsOf(e.args[2].query[1], rows))}
      [] OTHER -> Apply(e.op, [k \in DOMAIN e.args |-> Value(e.args[k], rows, group)])

NoGroup == [key |-> <<>>, rows |-> <<>>]
Values(list, row, outer) == [i \in DOMAIN list |-> Value(list[i], <<row>> \o outer, NoGroup)]

\* name_map has position 0 for a column that the table has not
ScanOf(p) ==
    LET names == Columns[p.table]
        at(c) == IF c \in ToSet(names) THEN CHOOSE i \in DOMAIN names : names[i] = c ELSE 1
    IN  [i \in DOMAIN Contents[p.table] |->
            [c \in DOMAIN p.columns |-> IF p.columns[c] = RowId THEN i ELSE Contents[p.table][i][at(p.columns[c])]]]

AggregateRows(p, rows, outer) ==
    LET groups == IF p.groups = <<>> THEN <<[key |-> <<>>, rows |-> rows]>>
                  ELSE Grouped(rows, [i \in DOMAIN rows |-> Values(p.groups, rows[i], outer)])
    IN  [g \in DOMAIN groups |->
            [c \in DOMAIN p.list |-> Value(p.list[c], << <<>> >> \o outer, groups[g])]]

\* what an INSERT puts into the columns that it does not name: their default
InsertedRow(p, row) ==
    IF p.columns = <<>> THEN row
    ELSE [c \in DOMAIN p.columns |-> IF p.columns[c] = -1 THEN Null ELSE row[p.columns[c] + 1]]

\* the contents of the table after UPDATE or DELETE of the rows, each with its identifier
WrittenRows(p, rows) ==
    LET table == Contents[p.table]
        names == Columns[p.table]
        of(i) == {r \in ToSet(rows) : Last(r) = i}
        new(i, c) == LET row == CHOOSE r \in of(i) : TRUE
                         sets == {k \in DOMAIN p.columns : p.columns[k] = names[c]}
                     IN  IF sets = {} THEN table[i][c] ELSE Value(p.list[Max(sets)], <<row>>, NoGroup)
        kept == SelectSeq([i \in DOMAIN table |-> i], LAMBDA i : p.op = "UPDATE" \/ of(i) = {})
    IN  [n \in DOMAIN kept |-> IF of(kept[n]) = {} THEN table[kept[n]]
                               ELSE [c \in DOMAIN names |-> new(kept[n], c)]]

RowsOf(p, outer) ==
    LET rows == RowsOf(p.kids[1], outer)
        right == RowsOf(p.kids[2], outer)
        pairs == Pairs(rows, right, LAMBDA l, r : [row |-> l \o r, left |-> l, right |-> r])
        matching == SelectSeq(pairs, LAMBDA q : \A k \in DOMAIN p.on :
                        Compare(p.on[k].cmp, Values(<<p.on[k].left>>, q.left, <<>>)[1],
                                             Values(<<p.on[k].right>>, q.right, <<>>)[1]))
    IN  CASE p.op = "GET" -> IF p.table = "" THEN << <<>> >> ELSE ScanOf(p)
          [] p.op = "FILTER" -> SelectSeq(rows, LAMBDA r : \A x \in ToSet(Values(p.list, r, outer)) : x = TRUE)
          [] p.op = "PROJECTION" -> [i \in DOMAIN rows |-> Values(p.list, rows[i], outer)]
          [] p.op \in {"CROSS", "JOIN"} -> [q \in DOMAIN matching |-> matching[q].row]
          [] p.op = "UNION" -> rows \o right
          [] p.op = "AGGREGATE" -> AggregateRows(p, rows, outer)
          [] p.op = "ORDER" ->
                InOrder(p.order, rows, [i \in DOMAIN rows |-> Values([o \in DOMAIN p.order |-> p.order[o].e], rows[i], outer)])
          [] p.op = "LIMIT" -> Limited(p.limit, rows)
          [] p.op = "INSERT" ->
                LET new == IF p.kids = <<>> THEN [i \in DOMAIN p.list |-> Values(p.list[i], <<>>, <<>>)] ELSE rows
                IN  Contents[p.table] \o [i \in DOMAIN new |-> InsertedRow(p, new[i])]
          [] p.op \in {"UPDATE", "DELETE"} -> WrittenRows(p, rows)

-----------------------------------------------------------------------------
(* The steps of a statement                                                *)

Init ==
    /\ statement \in Statements
    /\ pc = "parsed" /\ bound = <<>> /\ plan = <<>> /\ result = <<>>

\* the Binder visits the condition of a DELETE even if there is none
NoCondition == statement.op = "DELETE" /\ statement.where = <<>>

\* Planner::CreatePlan: an exception ends the statement
Bind ==
    /\ pc = "parsed"
    /\ LET b == BindStatement(statement)
       IN  IF NoCondition THEN pc' = "aborted" /\ UNCHANGED bound
           ELSE IF b.st.failed THEN pc' = "rejected" /\ UNCHANGED bound
           ELSE pc' = "bound" /\ bound' = <<b.s>>
    /\ UNCHANGED <<statement, plan, result>>

PlanLogical ==
    /\ pc = "bound"
    /\ LET p == PlanStatement(statement.op, bound[1])
       IN  IF Thrown(p) THEN pc' = "rejected" /\ UNCHANGED plan
           ELSE pc' = "planned" /\ plan' = <<p>>
    /\ UNCHANGED <<statement, bound, result>>

PlanPhysical ==
    /\ pc = "planned"
    /\ LET p == CreatePlan(plan[1])
       IN  IF Thrown(p) THEN pc' = "aborted" /\ UNCHANGED plan
           ELSE pc' = "ready" /\ plan' = <<p>>
    /\ UNCHANGED <<statement, bound, result>>

Execute ==
    /\ pc = "ready"
    /\ result' = RowsOf(plan[1], <<>>)
    /\ pc' = "done"
    /\ UNCHANGED <<statement, bound, plan>>

Next == Bind \/ PlanLogical \/ PlanPhysical \/ Execute
Spec == Init /\ [][Next]_vars

-----------------------------------------------------------------------------
(* What a parse tree means: names are looked up where SQL says, the        *)
(* clauses computed in their order, without contexts, bindings or plans.   *)
(* A level is a row for the tables in scope, alias -> column -> value,     *)
(* and the expressions that have an alias; that of the innermost query     *)
(* comes first.                                                            *)

Level(row, names) == [row |-> row, names |-> names]

AliasOf(f) == IF f.alias = "" THEN f.name ELSE f.alias

\* the level that a column belongs to, and the tables there that have it
Knows(l, e) ==
    IF e.table # "" THEN e.table \in DOMAIN l.row
    ELSE e.name \in DOMAIN l.names \/ \E a \in DOMAIN l.row : e.name \in DOMAIN l.row[a]
LevelOf(e, levels) == Min({k \in DOMAIN levels : Knows(levels[k], e)})
TablesWith(e, l) == {a \in DOMAIN l.row : e.table \in {"", a} /\ e.name \in DOMAIN l.row[a]}

Outside(levels) == [k \in DOMAIN levels |-> [levels[k] EXCEPT !.names = <<>>]]

RECURSIVE TablesOf(_)
TablesOf(f) == IF f.op = "TABLE" THEN <<f>> ELSE TablesOf(f.kids[1]) \o TablesOf(f.kids[2])
AllTablesOf(list) == FlattenSeq([i \in DOMAIN list |-> TablesOf(list[i])])

\* the SELECT list without stars, and its expressions by their alias
Listed(s) ==
    LET tables == AllTablesOf(s.from)
        columns == FlattenSeq([t \in DOMAIN tables |->
                       [i \in DOMAIN Columns[tables[t].name] |->
                           [Expression EXCEPT !.op = "COLUMN", !.table = AliasOf(tables[t]),
                                              !.name = Columns[tables[t].name][i]]]])
    IN  FlattenSeq([i \in DOMAIN s.select |-> IF s.select[i].op = "STAR" THEN columns ELSE <<s.select[i]>>])

NamesOf(s) ==
    [n \in {e.as : e \in ToSet(s.select)} \ {""} |-> Last(SelectSeq(s.select, LAMBDA e : e.as = n))]

RECURSIVE Resolves(_, _), ResolvesFrom(_, _), Meaningful(_, _)

Resolves(e, levels) ==
    CASE e.op = "COLUMN" /\ e.name # "" ->
            /\ \E k \in DOMAIN levels : Knows(levels[k], e)
            /\ LET l == levels[LevelOf(e, levels)]
               IN  \/ Cardinality(TablesWith(e, l)) = 1
                   \/ TablesWith(e, l) = {} /\ e.table = "" /\ e.name \in DOMAIN l.names
      [] e.op = "SUBQUERY" -> Meaningful(e.query[1], Outside(levels))
      [] OTHER -> \A k \in DOMAIN e.args : Resolves(e.args[k], levels)

\* a row of the right shape for every table
AnyRow(tables) ==
    [a \in {AliasOf(t) : t \in ToSet(tables)} |->
        LET t == CHOOSE u \in ToSet(tables) : AliasOf(u) = a
        IN  [c \in ToSet(Columns[t.name]) |-> Null]]

ResolvesFrom(f, outer) ==
    CASE f.op = "TABLE" -> f.name \in DOMAIN Columns
      [] f.op # "TABLE" ->
            /\ \A k \in DOMAIN f.kids : ResolvesFrom(f.kids[k], outer)
            /\ \A i \in DOMAIN f.on :
                  /\ Resolves(f.on[i], <<Level(AnyRow(TablesOf(f)), <<>>)>> \o outer)
                  /\ \A c \in ToSet(Conjuncts(f.on[i])) : c.op = "NOT" => c.args[1].op \in Comparisons

\* whether the Binder is to accept a query: every name stands for one thing, GROUP BY
\* has columns only, and numbers in ORDER BY are those of columns
Meaningful(s, outer) ==
    IF s.op = "UNION"
    THEN /\ Meaningful(s.larg, outer) /\ Meaningful(s.rarg, <<>>)
         /\ s.rarg.order = <<>> /\ Len(Listed(s.larg)) = Len(Listed(s.rarg))
    ELSE LET tables == AllTablesOf(s.from)
             level == Level(AnyRow(tables), NamesOf(s))
         IN  /\ \A i \in DOMAIN s.from : ResolvesFrom(s.from[i], outer)
             /\ IsInjective([t \in DOMAIN tables |-> AliasOf(tables[t])])
             /\ \E e \in ToSet(s.select) : e.op = "STAR" => s.from # <<>>
             /\ \A e \in ToSet(s.select \o s.where \o s.groups \o s.having) : Resolves(e, <<level>> \o outer)
             /\ \A g \in ToSet(s.groups) : g.op = "COLUMN"
             /\ \A o \in ToSet(s.order) :
                   /\ Resolves(o.e, <<level>> \o outer)
                   /\ o.e.op = "COLUMN" /\ o.e.name = "" => o.e.index \in 1 .. Len(Listed(s))

RECURSIVE Meaning(_, _, _), RowsFrom(_, _), MeantRows(_, _)

\* the value of an expression for the rows of a group, of which the first stands for
\* all of them where an aggregate does not say otherwise
Meaning(e, levels, rows) ==
    LET k == LevelOf(e, levels)
        with == TablesWith(e, levels[k])
        at(row) == <<[levels[1] EXCEPT !.row = row]>> \o Tail(levels)
    IN  CASE e.op = "COLUMN" -> IF with = {} THEN Meaning(levels[1].names[e.name], levels, rows)
                                ELSE levels[k].row[CHOOSE a \in with : TRUE][e.name]
          [] e.op = "CONST" -> e.value
          [] e.op \in Aggregates ->
                AggregateOf(e.op, [i \in DOMAIN rows |->
                    IF e.args = <<>> THEN Null ELSE Meaning(e.args[1], at(rows[i]), <<>>)])
          [] e.op = "SUBQUERY" -> FirstValue(MeantRows(e.query[1], Outside(levels)))
          [] e.op = "EXISTS" -> MeantRows(e.args[1].query[1], Outside(levels)) # <<>>
          [] e.op = "IN" -> Meaning(e.args[1], levels, rows)
                                \in {r[1] : r \in ToSet(MeantRows(e.args[2].query[1], Outside(levels)))}
          [] OTHER -> Apply(e.op, [i \in DOMAIN e.args |-> Meaning(e.args[i], levels, rows)])

RowsFrom(f, outer) ==
    IF f.op = "TABLE"
    THEN [i \in DOMAIN Contents[f.name] |->
            AliasOf(f) :> [c \in ToSet(Columns[f.name]) |->
                Contents[f.name][i][CHOOSE n \in DOMAIN Columns[f.name] : Columns[f.name][n] = c]]]
    ELSE SelectSeq(Pairs(RowsFrom(f.kids[1], outer), RowsFrom(f.kids[2], outer), LAMBDA l, r : l @@ r),
                   LAMBDA row : \A i \in DOMAIN f.on :
                                    Meaning(f.on[i], <<Level(row, <<>>)>> \o outer, <<>>) = TRUE)

RowsFromAll(list, outer) ==
    IF list = <<>> THEN << <<>> >>
    ELSE FoldLeft(LAMBDA rows, f : Pairs(rows, RowsFrom(f, outer), LAMBDA l, r : l @@ r),
                  RowsFrom(list[1], outer), Tail(list))

Distinct(rows) == LET g == Grouped(rows, rows) IN [i \in DOMAIN g |-> g[i].key]

\* a query, clause by clause: the rows of FROM and WHERE, groups of them, those that
\* HAVING keeps, one of those that yield the same, in their order
LevelsFor(s, row, outer) == <<Level(row, NamesOf(s))>> \o outer
ValueFor(e, s, group, outer) == Meaning(e, LevelsFor(s, IF group = <<>> THEN <<>> ELSE group[1], outer), group)
RowFor(s, group, outer) == [i \in DOMAIN Listed(s) |-> ValueFor(Listed(s)[i], s, group, outer)]

SourceRows(s, outer) ==
    SelectSeq(RowsFromAll(s.from, outer),
              LAMBDA row : \A w \in ToSet(s.where) : Meaning(w, LevelsFor(s, row, outer), <<>>) = TRUE)

GroupsOf(s, rows, outer) ==
    IF s.groups # <<>>
    THEN LET keyed == Grouped(rows, [i \in DOMAIN rows |->
                          [g \in DOMAIN s.groups |-> Meaning(s.groups[g], LevelsFor(s, rows[i], outer), <<>>)]])
         IN  [g \in DOMAIN keyed |-> keyed[g].rows]
    ELSE IF \E e \in ToSet(s.select) : IsAggregate(e) THEN <<rows>>
    ELSE [i \in DOMAIN rows |-> <<rows[i]>>]

Kept(s, groups, outer) ==
    SelectSeq(groups, LAMBDA g : \A h \in ToSet(s.having) : ValueFor(h, s, g, outer) = TRUE)

Unlike(s, groups, outer) ==
    IF ~s.distinct THEN groups
    ELSE LET same == Grouped(groups, [i \in DOMAIN groups |-> RowFor(s, groups[i], outer)])
         IN  [i \in DOMAIN same |-> same[i].rows[1]]

KeyFor(o, s, group, outer) ==
    ValueFor(IF o.e.op = "COLUMN" /\ o.e.name = "" THEN Listed(s)[o.e.index] ELSE o.e, s, group, outer)
Sorting(s, groups, outer) ==
    InOrder(s.order, groups, [i \in DOMAIN groups |->
                                 [o \in DOMAIN s.order |-> KeyFor(s.order[o], s, groups[i], outer)]])

RowsOfAll(s, groups, outer) == [i \in DOMAIN groups |-> RowFor(s, groups[i], outer)]

MeantRows(s, outer) ==
    IF s.op = "UNION"
    THEN LET rows == MeantRows(s.larg, outer) \o MeantRows(s.rarg, <<>>)
         IN  IF s.all THEN rows ELSE Distinct(rows)
    ELSE Limited(s.limit, RowsOfAll(s, Sorting(s, Unlike(s, Kept(s, GroupsOf(s, SourceRows(s, outer), outer),
                                                              outer), outer), outer), outer))

\* the contents of a table after a statement that writes it
MeantContents(s) ==
    LET table == Contents[s.table]
        names == Columns[s.table]
        row(i) == <<Level((AliasOf(s.from) :> [c \in ToSet(names) |->
                               table[i][CHOOSE n \in DOMAIN names : names[n] = c]]), <<>>)>>
        hit(i) == \A w \in ToSet(s.where) : Meaning(w, row(i), <<>>) = TRUE
        set(c) == {k \in DOMAIN s.columns : s.columns[k] = names[c]}
        new == IF s.query # <<>> THEN MeantRows(s.query[1], <<>>)
               ELSE [i \in DOMAIN s.values |-> [c \in DOMAIN s.values[i] |-> Meaning(s.values[i][c], <<>>, <<>>)]]
    IN  CASE s.op = "DELETE" ->
                LET kept == SelectSeq([i \in DOMAIN table |-> i], LAMBDA i : ~hit(i))
                IN  [n \in DOMAIN kept |-> table[kept[n]]]
          [] s.op = "UPDATE" ->
                [i \in DOMAIN table |-> [c \in DOMAIN names |->
                    IF hit(i) /\ set(c) # {} THEN Meaning(s.list[Max(set(c))], row(i), <<>>) ELSE table[i][c]]]
          [] s.op = "INSERT" ->
                table \o [i \in DOMAIN new |->
                    IF s.columns = <<>> THEN new[i]
                    ELSE [c \in DOMAIN names |-> IF set(c) = {} THEN Null ELSE new[i][Max(set(c))]]]

-----------------------------------------------------------------------------
(* Property                                                                *)

RECURSIVE RefersToAlias(_), PlainOn(_)
RefersToAlias(e) == e.reference # -1 \/ \E k \in DOMAIN e.args : RefersToAlias(e.args[k])

\* a condition that SetJoinCondition neither drops nor puts where it cannot be computed
PlainOn(f) ==
    /\ \A k \in DOMAIN f.kids : PlainOn(f.kids[k])
    /\ \A i \in DOMAIN f.on : \A c \in ToSet(Conjuncts(f.on[i])) :
          LET e == IF c.op = "NOT" THEN c.args[1] ELSE c
          IN  e.op \in Comparisons /\ \A k \in DOMAIN e.args : e.args[k].op \in {"COLUMN", "CONST"}

\* the known flaws.  An alias in WHERE or in the SELECT list reads the column of that
\* number; an element that ORDER BY has added counts in DISTINCT; the bottom of a
\* UNION reads the columns that its top reads, if these are not the same ones.
FlawedSelect(s) ==
    \/ \E e \in ToSet(s.where \o s.select) : RefersToAlias(e)
    \/ s.distinct /\ \E o \in ToSet(s.order) : o.e.index >= Len(Listed(statement))
    \/ s.from # <<>> /\ ~PlainOn(s.from[1])
    \/ s.union # <<>> /\ \E t \in ToSet(s.union[1].context.tables) :
           \/ t \notin ToSet(s.context.tables)
           \/ ~IsPrefix(s.union[1].context.bound[t.alias], s.context.bound[t.alias])

Queries == {"SELECT", "UNION"}
Flawed == NoCondition \/ (statement.op \in Queries /\ bound # <<>> /\ FlawedSelect(bound[1]))

\* what is to be planned and run
Acceptable ==
    CASE statement.op \in Queries -> Meaningful(statement, <<>>)
      [] statement.op = "INSERT" ->
            IF statement.query # <<>> THEN Meaningful(statement.query[1], <<>>)
            ELSE Len(statement.values[1]) = Len(IF statement.columns = <<>> THEN Columns[statement.table]
                                                ELSE statement.columns)
      [] statement.op \in {"UPDATE", "DELETE"} ->
            /\ ToSet(statement.columns) \subseteq ToSet(Columns[statement.table])
            /\ \A e \in ToSet(statement.where \o statement.list) :
                  Resolves(e, <<Level(AnyRow(<<statement.from>>), <<>>)>>)

\* A statement is run if every name in it stands for one thing, and the plan made of
\* it yields the rows, or leaves the table, that it means: each column is read where
\* the operators below have put it, in whatever join or subquery it is.  ORDER BY may
\* leave columns of its own behind those of the SELECT list.
PlanMeansStatement ==
    ~Flawed =>
        /\ pc = "rejected" => ~Acceptable
        /\ pc # "aborted"
        /\ pc = "done" =>
              /\ Acceptable
              /\ IF statement.op \in Queries
                 THEN LET meant == MeantRows(statement, <<>>)
                      IN  /\ Len(result) = Len(meant)
                          /\ \A i \in DOMAIN meant : SubSeq(result[i], 1, Len(meant[i])) = meant[i]
                 ELSE result = MeantContents(statement)
=============================================================================
