--------------------------- MODULE MCQueryPlanning ---------------------------
EXTENDS QueryPlanning

MCColumns == ("R" :> <<"a", "b">>) @@ ("S" :> <<"a", "c">>)
MCContents == ("R" :> << <<1, 5>>, <<2, 3>>, <<2, 7>> >>) @@ ("S" :> << <<2, 5>>, <<1, 3>>, <<4, 2>> >>)

Op(op, args) == [Expression EXCEPT !.op = op, !.args = args]
C(table, name) == [Expression EXCEPT !.op = "COLUMN", !.table = table, !.name = name]
N(x) == [Expression EXCEPT !.op = "CONST", !.value = x]
As(e, name) == [e EXCEPT !.as = name]
Number(n) == [Expression EXCEPT !.op = "COLUMN", !.index = n]
Sub(s) == [Expression EXCEPT !.op = "SUBQUERY", !.query = <<s>>]
Star == Op("STAR", <<>>)
By(e, desc) == [e |-> e, desc |-> desc]

Table(name, alias) == [op |-> "TABLE", name |-> name, alias |-> alias, kids |-> <<>>, on |-> <<>>]
Join(l, r, on) == [op |-> "JOIN", name |-> "", alias |-> "", kids |-> <<l, r>>, on |-> on]

Select(list, from, where) ==
    [op |-> "SELECT", select |-> list, from |-> from, where |-> where, groups |-> <<>>, having |-> <<>>,
     order |-> <<>>, limit |-> <<>>, distinct |-> FALSE, union |-> <<>>]
Union(l, r, all) == [op |-> "UNION", larg |-> l, rarg |-> r, all |-> all]
Write(op, table, where, columns, list) ==
    [op |-> op, table |-> table, from |-> Table(table, ""), where |-> where, columns |-> columns, list |-> list,
     query |-> <<>>, values |-> <<>>, context |-> <<>>]

x == Table("R", "x")
y == Table("S", "y")
z == Table("R", "z")
On == {Op("LT", <<C("y", "c"), C("x", "b")>>),
       Op("AND", <<Op("EQ", <<C("x", "a"), C("y", "a")>>), Op("GE", <<C("", "c"), N(3)>>)>>),
       Op("NOT", <<Op("LE", <<C("y", "a"), C("x", "a")>>)>>),
       Op("AND", <<Op("GT", <<N(6), C("x", "b")>>), Op("NE", <<C("y", "c"), C("x", "b")>>)>>),
       Op("OR", <<Op("EQ", <<C("x", "a"), C("y", "a")>>), Op("EQ", <<C("x", "a"), N(2)>>)>>),
       Op("EQ", <<Op("ADD", <<C("x", "a"), N(1)>>), C("y", "a")>>),
       Op("LT", <<C("", "a"), C("x", "b")>>)}

Froms ==
    {<<>>, <<x>>, <<Table("R", "")>>, <<x, y>>, <<y, x>>, <<x, y, z>>, <<x, x>>, <<Table("Q", "x")>>} \cup
    {<<Join(x, y, <<on>>)>> : on \in On} \cup
    {<<z, Join(y, x, <<on>>)>> : on \in On} \cup
    {<<Join(z, Join(x, y, <<Op("GT", <<C("x", "b"), C("y", "c")>>)>>), <<on>>)>> :
        on \in {Op("LE", <<C("y", "c"), C("z", "b")>>), Op("NE", <<C("z", "a"), C("x", "a")>>)}}

Lists ==
    {<<Star>>, <<C("", "b")>>, <<C("x", "a"), C("", "c")>>, <<As(Op("ADD", <<C("x", "b"), N(1)>>), "s"), C("x", "a")>>,
     <<C("y", "c"), C("x", "b")>>, <<Op("COUNT_STAR", <<>>), Op("SUM", <<C("x", "b")>>)>>}

Inner(list, from, where) == Sub(Select(list, from, where))
Wheres ==
    {<<>>, <<Op("AND", <<Op("GE", <<C("x", "b"), N(4)>>), Op("NE", <<C("x", "a"), N(5)>>)>>)>>,
     <<Op("GT", <<C("", "s"), N(4)>>)>>,
     <<Op("EXISTS", <<Inner(<<Star>>, <<Table("S", "w")>>, <<Op("EQ", <<C("w", "c"), C("x", "b")>>)>>)>>)>>,
     <<Op("EXISTS", <<Inner(<<N(1)>>, <<Table("S", "w"), Table("R", "v")>>,
                            <<Op("AND", <<Op("EQ", <<C("v", "a"), C("w", "a")>>), Op("LT", <<C("v", "b"), C("x", "b")>>)>>)>>)>>)>>,
     <<Op("IN", <<C("x", "a"), Inner(<<C("", "a")>>, <<Table("S", "w")>>,
                      <<Op("EXISTS", <<Inner(<<N(1)>>, <<Table("R", "v")>>,
                            <<Op("AND", <<Op("EQ", <<C("v", "b"), C("", "c")>>),
                                          Op("LE", <<C("v", "b"), C("x", "b")>>)>>)>>)>>)>>)>>)>>,
     <<Op("LT", <<Inner(<<Op("MIN", <<C("", "c")>>)>>, <<Table("S", "w")>>, <<Op("NE", <<C("w", "a"), C("x", "a")>>)>>),
                  C("x", "b")>>)>>}

\* what follows WHERE
Tails(s) ==
    {s, [s EXCEPT !.order = <<By(C("x", "b"), TRUE)>>], [s EXCEPT !.distinct = TRUE],
     [s EXCEPT !.order = <<By(Number(1), FALSE), By(C("", "b"), TRUE)>>, !.limit = <<2, 1>>],
     [s EXCEPT !.order = <<By(Number(2), TRUE)>>, !.distinct = TRUE],
     [s EXCEPT !.order = <<By(C("", "s"), TRUE)>>],
     [s EXCEPT !.groups = <<C("x", "a")>>],
     [s EXCEPT !.groups = <<C("", "s")>>, !.having = <<Op("GT", <<C("", "s"), N(4)>>)>>],
     [s EXCEPT !.groups = <<C("", "a"), C("", "b")>>, !.order = <<By(Op("SUM", <<C("x", "b")>>), TRUE)>>]}

Simple == {Select(<<C("", "b")>>, <<x>>, <<>>), Select(<<C("", "a")>>, <<x>>, <<>>), Select(<<Star>>, <<x>>, <<>>),
           Select(<<C("x", "a"), C("", "b")>>, <<Table("R", "x")>>, <<Op("EQ", <<C("", "b"), N(7)>>)>>),
           Select(<<N(2)>>, <<>>, <<>>), Select(<<C("", "c")>>, <<y>>, <<>>),
           Select(<<C("", "c"), C("", "a")>>, <<Table("S", "x")>>, <<>>)}
Nested == {Union(l, r, all) : l \in Simple, r \in Simple, all \in BOOLEAN}

Source == Select(<<C("", "c"), C("", "a")>>, <<y>>, <<Op("GT", <<C("", "c"), N(2)>>)>>)
Conditions == {<<>>, <<Op("GT", <<C("", "b"), N(4)>>)>>, <<Op("EQ", <<C("", "c"), N(4)>>)>>,
               <<Op("IN", <<C("", "b"), Inner(<<C("", "c")>>, <<Table("S", "")>>, <<Op("NE", <<C("S", "a"), C("R", "a")>>)>>)>>)>>}
Writes ==
    {Write("DELETE", "R", w, <<>>, <<>>) : w \in Conditions} \cup
    {Write("UPDATE", "R", w, cols, <<Op("ADD", <<C("", "a"), N(1)>>), C("R", "a")>>) :
        w \in Conditions, cols \in {<<"a", "b">>, <<"b", "a">>, <<"b", "c">>}} \cup
    {[Write("INSERT", "R", <<>>, cols, <<>>) EXCEPT !.query = <<Source>>] : cols \in {<<>>, <<"b", "a">>, <<"a", "b">>}} \cup
    {[Write("INSERT", "R", <<>>, cols, <<>>) EXCEPT !.values = << <<N(8), N(9)>>, <<N(1), N(0)>> >>] :
        cols \in {<<>>, <<"b", "a">>, <<"b">>}} \cup
    {[Write("INSERT", "R", <<>>, <<"b">>, <<>>) EXCEPT !.values = << <<N(8)>> >>]}

\* lists with every FROM, with every WHERE over two of them, and with all that follows WHERE
Joined == {<<x>>, <<y, x>>, <<Join(y, x, <<Op("LT", <<C("y", "c"), C("x", "b")>>)>>)>>, <<x, y, z>>}
MCStatements ==
    {Select(l, f, w) : l \in Lists, f \in Froms, w \in Wheres} \cup
    {s \in UNION {Tails(Select(l, f, w)) : l \in Lists, f \in Joined, w \in {<<>>, <<Op("NE", <<C("x", "a"), N(5)>>)>>}} :
        s.groups = <<>> /\ (\E e \in ToSet(s.select) : IsAggregate(e)) => s.order = <<>>} \cup
    Nested \cup Writes
==============================================================================
