--------------------------- MODULE MCExpressions ---------------------------
EXTENDS Expressions, TLC

MCWidth == TINYINT :> 3 @@ SMALLINT :> 4 @@ INTEGER :> 5 @@ BIGINT :> 8

MCColumnTypes == <<TINYINT, INTEGER>>

\* a chunk of three rows, each of four kinds, and perhaps one of two rows
First == {<<Null, Null>>, <<1, -2>>, <<3, 15>>, <<-3, 0>>}
MCTables ==
    {<<a>> : a \in [1 .. 3 -> First]} \cup
    {<<a, << <<0, 1>>, <<Null, 3>> >> >> : a \in [1 .. 3 -> First]}

MCInnerTypes == <<TINYINT, SMALLINT>>
MCInner == << << <<1, 7>>, <<Null, -2>>, <<3, 0>> >>, << <<0, 1>> >> >>

A == Column(1)
B == Column(2)
N(n) == Literal(n)

Sub(kind, where, select) == Subquery(kind, where, select)
Cond(a, b, c) == Node("CASE", <<a, b, c>>, 0)
InList_(x, values) == Node("IN", <<x>> \o values, 0)
Among(x, plan) == Node("IN", <<x, plan>>, 0)
Exists(plan) == Unary("EXISTS", plan)

Where(w) == [where |-> w, select |-> <<A, B>>, aggregates |-> <<>>]
Select(s) == [where |-> <<>>, select |-> s, aggregates |-> <<>>]
WhereSelect(w, s) == [where |-> w, select |-> s, aggregates |-> <<>>]
Totals(w, es) == [where |-> w, select |-> <<>>, aggregates |-> es]

Less == Binary("LT", A, B)
Known == Unary("NOTNULL", B)
Small == Binary("LE", A, N(1))

MCQueries ==
    {Where(w) : w \in
        {<<Binary("OR", Unary("ISNULL", A), Less)>>,
         <<Binary("OR", Binary("EQ", A, N(1)), Binary("EQ", B, N(0)))>>,
         <<Unary("NOT", Binary("AND", Less, Known))>>,
         <<Binary("OR", Binary("EQ", N(1), N(1)), Less)>>,
         <<Less, Known, Binary("NE", A, N(3))>>,
         <<Binary("GE", Binary("ADD", A, A), B)>>,
         <<Known, InList_(B, <<A, N(15)>>)>>,
         <<InList_(A, <<N(0)>>)>>,
         <<Among(A, Sub("DEFAULT", <<>>, Column(1)))>>,
         <<Among(A, Sub("DEFAULT", <<Binary("LT", Column(2), N(1))>>, Column(2)))>>,
         <<Among(A, Sub("DEFAULT", <<Binary("OR", Unary("ISNULL", Column(1)), Binary("EQ", Column(1), N(3)))>>,
                        Column(1)))>>,
         <<Exists(Sub("EXISTS", <<Binary("GT", Column(1), Outer(1))>>, Column(1)))>>}} \cup
    {Select(s) : s \in
        {<<Binary("SUB", A, B), N(5), Binary("ADD", N(5), N(7))>>,
         <<Binary("MUL", A, N(2)), Unary("ABS", B)>>,
         <<Binary("DIV", B, A), Binary("DIV", A, N(2)), Binary("DIV", N(7), N(0))>>,
         <<Binary("MOD", B, N(2)), Binary("MOD", B, A)>>,
         <<Cond(Less, A, N(7)), Cond(Unary("ISNULL", A), N(0), A)>>,
         <<CastTo(BIGINT, A), CastTo(TINYINT, B)>>,
         <<Less, Binary("ADD", Binary("SUB", A, N(1)), B)>>,
         <<Sub("DEFAULT", <<Binary("EQ", Column(1), Outer(1))>>, Column(2)), A>>,
         <<Sub("DEFAULT", <<Binary("LT", Column(2), N(-9))>>, Column(1))>>}} \cup
    {WhereSelect(<<w>>, s) : w \in {Known, Less, Small}, s \in
        {<<N(5), Binary("ADD", A, N(1))>>,
         <<Binary("AND", Less, Small), Binary("SUB", B, A)>>,
         <<Cond(Small, B, N(0)), Binary("DIV", B, N(2))>>,
         <<Sub("DEFAULT", <<Binary("EQ", Column(1), Outer(1))>>, Column(2)), B>>}} \cup
    {Totals(w, s) : w \in {<<>>, <<Known>>, <<Less>>, <<Binary("GT", A, N(5))>>}, s \in
        {<<Unary("SUM", B), Unary("COUNT", A), Node("COUNT_STAR", <<>>, 0)>>,
         <<Unary("MIN", A), Unary("MAX", B), Unary("MAX", A)>>,
         <<Unary("SUM", N(5)), Unary("SUM", Binary("SUB", A, B))>>,
         <<Unary("COUNT", Binary("ADD", A, B)), Unary("MIN", N(2)), Unary("SUM", Binary("MUL", A, B))>>}}
=============================================================================
