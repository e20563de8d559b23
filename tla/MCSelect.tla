------------------------------ MODULE MCSelect ------------------------------
(***************************************************************************)
(* Instances of Select.                                                    *)
(***************************************************************************)
EXTENDS Select

Key(c) == [ColumnDef(c, "i64") EXCEPT !.nullable = FALSE]
Indexed(def, columns, unique) ==
    [def EXCEPT !.indexes = Append(@, IndexDef(<<"ix">> \o columns, columns, unique))]

\* Items with an index on two columns, tags that refer to an item.
ItemDef == TableDef(1, <<Key("id"), ColumnDef("n", "i64"), ColumnDef("s", "text")>>, <<"id">>)
TagDef == TableDef(2, <<Key("id"), ColumnDef("item", "i64"), ColumnDef("w", "f64")>>, <<"id">>)

Fill(def, rows) ==
    FoldLeft(LAMBDA t, row : PutRow(t, PkKeyOf(def, row), <<>>, row), NewTable(def), rows)

ItemRow(i, ns, ss) == {<<>>} \cup {<<<<I64(i), n, s>>>> : n \in ns, s \in ss}
ThreeItems == <<<<I64(2), I64(0), Null>>, <<I64(3), I64(0), Text(1)>>>>
Ns == {Null, I64(0), I64(1)}
Tags == {<<>>, <<<<I64(1), I64(1), F64(1)>>>>,
         <<<<I64(1), I64(2), F64(2)>>, <<I64(2), I64(1), Null>>>>}

DatabasesOf(item, firsts, seconds) ==
    {(1 :> Fill(item, a \o b)) @@ (2 :> Fill(Indexed(TagDef, <<"item">>, FALSE), tags)) :
        a \in firsts, b \in seconds, tags \in Tags}

PlainDatabases ==
    DatabasesOf(Indexed(ItemDef, <<"n", "s">>, FALSE),
                ItemRow(1, Ns, {Null, Text(1), Text(WordText)}),
                ItemRow(2, Ns, {Null, Text(1)}) \cup {ThreeItems})

\* Expressions.
C(c) == Col(0, c)
L(n) == Lit(I64(n))
Eq(a, b) == Cmp("eq", a, b)
And(a, b) == Call("and", <<a, b>>)
Arith(op, a, b) == Op("arith", op, <<a, b>>)
Count == Op("agg", "count", <<L(1)>>)

Equalities == {Eq(C("n"), L(1)), Eq(L(0), Col(1, "n")), Eq(C("id"), L(1)),
               And(Eq(C("s"), Lit(Text(1))), Eq(C("n"), L(1))), And(Eq(C("n"), L(1)), Eq(C("n"), L(0)))}
Others == {Call("or", <<Eq(C("n"), L(0)), Call("is_null", <<C("s")>>)>>),
           Call("not", <<Cmp("lt", C("n"), L(1))>>),
           Call("between", <<C("n"), L(0), C("id")>>),
           Call("in", <<C("n"), L(0), Arith("div", L(1), C("n")), Lit(Null)>>),
           Like(C("s"), {1}),
           Eq(Call("coalesce", <<C("n"), L(0)>>), L(0)),
           Call("is_not_null", <<Call("nullif", <<C("n"), C("id")>>)>>),
           Eq(Op("cast", "i64", <<C("s")>>), L(1)),
           Eq(Arith("mod", L(1), C("n")), L(0)),
           Cmp("gte", Arith("add", C("n"), L(3)), L(1))}
Ill == {Eq(C("n"), Lit(Text(1))), Like(C("n"), {1}), Eq(Arith("add", C("s"), L(1)), L(1)),
        Eq(C("x"), L(1)), Eq(Count, L(1)), C("n")}

Pipe(stages) == <<"pipeline", stages>>
Filters == {Pipe(<<Scan(1, 0), Match(p)>>) : p \in Equalities \cup Others \cup Ill}
           \cup {Pipe(<<Scan(1, 0), Match(And(p, q))>>) : p \in Equalities, q \in Others}

Ons == {Eq(Col(1, "id"), C("item"))}
JoinFilters == {Eq(C("n"), L(1)), Eq(C("item"), L(1)), Call("is_null", <<C("w")>>),
                And(Eq(Col(1, "n"), L(1)), Eq(Col(2, "id"), L(1))), Cmp("ne", C("n"), C("item"))}
Joins == {Pipe(<<Scan(1, 0), Join(kind, 2, 0, <<on>>), Match(p)>>) :
             kind \in {"inner", "left"}, on \in Ons, p \in JoinFilters}
         \cup {Pipe(<<Scan(1, 0), Join("cross", 2, 0, <<>>), Match(p)>>) : p \in JoinFilters}
         \cup {Pipe(<<Scan(1, 11), Join("inner", 1, 12, <<Eq(Col(11, "n"), Col(12, "id"))>>),
                      Match(Eq(Col(q, "n"), L(1)))>>) : q \in {1, 11, 12}}

\* The clause form: groups, projection, order, limits.
Item(name, e) == <<name, e>>
From == [NoClause EXCEPT !.from = <<Scan(1, 0)>>]
Asc(c) == <<C(c), "asc">>
Desc(c) == <<C(c), "desc">>
Aggs == <<Item("", Count), Item("lo", Op("agg", "min", <<C("s")>>)),
          Item("hi", Op("agg", "max", <<C("n")>>)), Item("", Op("agg", "avg", <<C("n")>>)),
          Item("", Op("agg", "sum", <<C("n")>>))>>
Clauses ==
    {[From EXCEPT !.select = <<Aggs>>],
     [From EXCEPT !.group_by = <<C("n")>>, !.select = <<<<Item("", C("n")), Item("", Count)>>>>,
                  !.having = <<Cmp("gt", C("count"), L(1))>>],
     [From EXCEPT !.select = <<<<Item("", C("s")), Item("m", Arith("sub", C("id"), L(1)))>>>>,
                  !.order_by = <<Desc("s"), Asc("m")>>],
     [From EXCEPT !.select = <<<<Item("", C("n"))>>>>, !.distinct = TRUE, !.order_by = <<Asc("n")>>],
     [From EXCEPT !.joins = <<Join("left", 2, 0, Append(<<>>, Eq(Col(1, "id"), C("item"))))>>,
                  !.select = <<<<Item("", C("w")), Item("", Arith("add", C("w"), L(1)))>>>>],
     [From EXCEPT !.having = <<Eq(C("n"), L(1))>>],
     [From EXCEPT !.select = <<<<Item("", Call("not", <<Count>>))>>>>],
     [From EXCEPT !.select = <<<<Item("", Count), Item("", Count)>>>>],
     NoClause}
    \cup {[From EXCEPT !.order_by = <<Asc("n"), Asc("id")>>, !.limit = <<l>>, !.offset = o] :
             l \in 0..1, o \in 0..1}

Shapes == {Pipe(<<>>), Pipe(<<Match(L(1))>>), Pipe(<<Scan(1, 0), Scan(2, 0)>>),
           Pipe(<<Scan(1, 0), Group(<<>>, <<<<"m", C("n")>>>>)>>),
           Pipe(<<Scan(1, 0), DistinctRows(FALSE), Limit(<<1>>, 0), Match(Cmp("ne", C("n"), L(1)))>>),
           Pipe(<<Scan(3, 0)>>),
           Pipe(<<Scan(1, 0), Join("cross", 2, 0, <<>>), Join("cross", 2, 22, <<>>)>>)}

\* Walks: an order with a descending and an ascending key over a projection, and one
\* over a filtered join.  Meanwhile rows come, go and change their place.
PlainWalks ==
    {<<"clause", c>> : c \in
        {[From EXCEPT !.select = <<<<Item("", C("n")), Item("", C("id"))>>>>,
                      !.order_by = <<Desc("n"), Asc("id")>>],
         [From EXCEPT !.joins = <<Join("inner", 2, 0, <<Eq(Col(1, "id"), C("item"))>>)>>,
                      !.where = <<Cmp("gte", C("n"), L(0))>>,
                      !.order_by = <<<<Col(2, "id"), "asc">>>>]}}
LaterDatabases ==
    DatabasesOf(Indexed(ItemDef, <<"n", "s">>, FALSE),
                {<<>>, <<<<I64(1), I64(0), Null>>>>, <<<<I64(1), I64(1), Text(1)>>>>}, {ThreeItems})

PlainSelects == PlainWalks \cup Filters \cup Joins \cup {<<"clause", c>> : c \in Clauses} \cup Shapes
=============================================================================
