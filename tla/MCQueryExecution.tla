-------------------------- MODULE MCQueryExecution --------------------------
EXTENDS QueryExecution

MCWidth == TINYINT :> 4 @@ SMALLINT :> 6 @@ INTEGER :> 8 @@ BIGINT :> 9

\* numbers that meet in a hash table of 3, 6 or 12 cells
MCHash == Null :> 2 @@ 0 :> 0 @@ 1 :> 3 @@ 2 :> 5 @@ 3 :> 2 @@ 4 :> 6 @@ 5 :> 5 @@ 6 :> 1

\* T has up to three chunks of rows of two columns, U one or two of one column
Row == {<<1, 2>>, <<3, 1>>}
RowWithNull == {<<Null, 3>>, <<2, Null>>}
MCTables ==
    {[t \in {"T", "U"} |-> IF t = "T" THEN tt ELSE uu] :
        tt \in {<<>>} \cup
               {<< <<r, <<2, 3>>, q>>, <<q, r>> >> : r \in Row, q \in Row} \cup
               {<< <<r, <<2, 2>>, <<1, 1>> >>, <<<<3, 3>>, q>>, <<n>> >> : r \in Row, q \in Row, n \in RowWithNull} \cup
               {<< <<q, r, n>>, <<r, q>> >> : r \in Row, q \in Row, n \in RowWithNull} \cup
               {<< <<n, r, m>> >> : r \in Row, n \in RowWithNull, m \in RowWithNull} \cup
               {<< <<n, r, <<4, 4>> >>, <<m, <<5, 6>> >> >> : r \in Row, n \in RowWithNull, m \in RowWithNull},
        uu \in {<< << <<2>>, <<Null>> >> >>, << << <<3>>, <<1>>, <<2>> >>, << <<3>>, <<1>> >> >>,
                << << <<4>>, <<1>> >> >>}}

Plan(op, arg, kids) == [op |-> op, arg |-> arg, kids |-> kids]
Get(t, cols) == Plan("SCAN", [table |-> t, cols |-> cols], <<>>)
Cond(col, op, val) == [col |-> col, op |-> op, val |-> val]
Where(p, conditions) == Plan("FILTER", conditions, <<p>>)
Col(i) == [col |-> i, val |-> 0]
Const(x) == [col |-> 0, val |-> x]
Select(p, items) == Plan("PROJECTION", [select |-> items], <<p>>)
By(col, asc) == [col |-> col, asc |-> asc]
OrderBy(p, orders) == Plan("ORDER", orders, <<p>>)
LimitTo(p, limit, offset) == Plan("LIMIT", [limit |-> limit, offset |-> offset], <<p>>)
JoinOn(l, r, conditions) == Plan("JOIN", conditions, <<l, r>>)
On(l, op, r) == [left |-> l, op |-> op, right |-> r]
CrossOf(l, r) == Plan("CROSS", 0, <<l, r>>)
UnionOf(l, r) == Plan("UNION", 0, <<l, r>>)
Agg(fn, col) == [fn |-> fn, col |-> col]
Of(what, at) == [of |-> what, at |-> at]
GroupBy(p, groups, aggs) ==
    Plan("AGGREGATE",
         [groups |-> groups, aggs |-> aggs,
          select |-> [g \in DOMAIN groups |-> Of("GROUP", g)] \o [a \in DOMAIN aggs |-> Of("AGG", a)]], <<p>>)

T == Get("T", <<1, 2>>)
U == Get("U", <<1>>)
Some == Where(T, <<Cond(2, "GE", 2)>>)
Odd == Where(U, <<Cond(1, "NE", 2)>>)

MCPlans ==
    {T, Some, Where(T, <<Cond(1, "GT", 1), Cond(2, "LT", 4), Cond(1, "NE", 3)>>),
     Select(Some, <<Col(2), Const(5), Const(Null)>>),
     Select(Plan("DUMMY", 0, <<>>), <<Const(1), Const(Null)>>),
     UnionOf(T, Some), UnionOf(Some, Get("T", <<2, 1>>)), UnionOf(Odd, U),
     CrossOf(T, U), CrossOf(U, Some), CrossOf(Odd, Odd), CrossOf(Odd, Where(U, <<Cond(1, "GT", 6)>>)),
     JoinOn(T, U, <<On(1, "EQ", 1)>>), JoinOn(T, Odd, <<On(1, "LT", 1), On(2, "GE", 1)>>),
     JoinOn(U, T, <<On(1, "LE", 2)>>), JoinOn(Some, Where(U, <<Cond(1, "GT", 6)>>), <<On(1, "EQ", 1)>>),
     Select(JoinOn(Odd, Some, <<On(1, "NE", 1)>>), <<Col(3), Col(1)>>),
     OrderBy(T, <<By(1, TRUE), By(2, FALSE)>>), OrderBy(Some, <<By(2, FALSE)>>),
     OrderBy(UnionOf(U, U), <<By(1, TRUE)>>), OrderBy(CrossOf(U, Odd), <<By(2, TRUE), By(1, TRUE)>>),
     LimitTo(T, 2, 0), LimitTo(T, 3, 1), LimitTo(Some, 4, 0), LimitTo(T, 1, 4),
     LimitTo(OrderBy(T, <<By(2, TRUE), By(1, TRUE)>>), 2, 1),
     GroupBy(T, <<1>>, <<Agg("SUM", 2), Agg("COUNT_STAR", 1)>>),
     GroupBy(T, <<2>>, <<Agg("MIN", 1), Agg("MAX", 1)>>),
     GroupBy(UnionOf(U, U), <<1>>, <<Agg("COUNT", 1), Agg("SUM", 1)>>),
     GroupBy(UnionOf(U, Odd), <<1>>, <<Agg("SUM", 1)>>),
     GroupBy(JoinOn(T, U, <<On(1, "LE", 1)>>), <<1, 3>>, <<Agg("FIRST", 2)>>),
     GroupBy(Some, <<2>>, <<Agg("COUNT_STAR", 1), Agg("COUNT", 1)>>),
     OrderBy(GroupBy(Some, <<1>>, <<Agg("COUNT_STAR", 1)>>), <<By(1, FALSE)>>)} \cup
    {Plan("DELETE", [table |-> "T"], <<p>>) :
        p \in {Get("T", <<0>>), Where(Get("T", <<1, 2, 0>>), <<Cond(1, "LT", 4), Cond(2, "NE", 3)>>)}} \cup
    {Plan("UPDATE", [table |-> "T", set |-> set], <<p>>) :
        p \in {Get("T", <<2, 1, 0>>), Where(Get("T", <<2, 1, 0>>), <<Cond(1, "GE", 2)>>)},
        set \in {<<[column |-> 1, default |-> FALSE, col |-> 1, val |-> 0],
                   [column |-> 2, default |-> FALSE, col |-> 2, val |-> 0]>>,
                 <<[column |-> 2, default |-> TRUE, col |-> 0, val |-> 6],
                   [column |-> 1, default |-> FALSE, col |-> 0, val |-> Null]>>}} \cup
    {Plan("INSERT", [table |-> "T", map |-> map, defaults |-> <<Null, 5>>, values |-> values], <<>>) :
        map \in {<<>>, <<2, 1>>, <<0, 1>>},
        values \in {<< <<1, 2>> >>,
                    << <<1, 2>>, <<Null, 1>>, <<2, Null>>, <<3, 3>>, <<Null, Null>> >>,
                    << <<1, 2>>, <<2, 3>>, <<4, 4>>, <<Null, 1>> >> }} \cup
    {Plan("INSERT", [table |-> "T", map |-> map, defaults |-> <<6, Null>>, values |-> <<>>], <<p>>) :
        map \in {<<>>, <<2, 1>>, <<0, 1>>}, p \in {T, Some, CrossOf(U, Odd)}}
=============================================================================
