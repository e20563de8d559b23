----------------------------- MODULE MCCatalog -----------------------------
(***************************************************************************)
(* Instances of Catalog.                                                   *)
(***************************************************************************)
EXTENDS Catalog

\* One table with every kind of constraint and generated column: a key from the
\* sequence, a unique and a checked column, a version.
Num0 == <<"n", I64(0)>>
IdCol == [ColumnDef("id", "i64") EXCEPT !.auto_increment = TRUE]
UCol == [ColumnDef("u", "i64") EXCEPT !.unique = TRUE]
NCol == [ColumnDef("n", "i64") EXCEPT !.nullable = FALSE]
VerCol == [ColumnDef("ver", "i64") EXCEPT !.rowversion = TRUE, !.nullable = FALSE]
Small == [k |-> "cmp", col |-> "n", op |-> "lte", value |-> I64(1)]
ItemDef == [TableDef(4, <<IdCol, UCol, NCol, VerCol>>, <<"id">>) EXCEPT !.checks = <<Small>>]

ItemColumns == {<<4, [ColumnDef("w", "i64") EXCEPT !.unique = TRUE]>>,
                <<4, [ColumnDef("d", "i64") EXCEPT !.nullable = FALSE, !.default = <<"value", I64(1)>>]>>}
ItemIndexes == {<<4, IndexDef(<<"ix", "n">>, <<"n">>, FALSE)>>,
                <<4, IndexDef(<<"ix", "un">>, <<"n", "u">>, TRUE)>>}
ItemInserts == {<<4, <<<<Num0>>, <<Num0, <<"u", I64(1)>>>>>>>>,
                <<4, <<<<<<"id", I64(2)>>, <<"u", I64(1)>>, <<"n", I64(1)>>>>>>>>}
ItemUpdates == {<<4, <<I64(i)>>, <<<<"u", v>>>>>> : i \in 1..2, v \in {Null, I64(1), I64(2)}}
Is(c, n) == <<"where", Cmp("eq", Col(0, c), Lit(I64(n)))>>
Plus(c, n) == Op("arith", "add", <<Col(0, c), Lit(I64(n))>>)
SetAll(c, e) == [selector |-> <<"all">>, sets |-> <<<<c, e>>>>]
ItemPolicies == {<<4, SetAll("n", Plus("n", 1))>>}
ItemFilters == {<<4, <<"where", Call("is_null", <<Col(0, "u")>>)>>>>}
ItemBatches == {<<<<"delete", 4, Is("u", 2)>>, <<"update", 4, SetAll("n", Lit(I64(0)))>>>>}

\* Three tables in a chain: a child refers to a unique column of its parent, a
\* grandchild to the key of the child, with every action on delete and on update.
Actions == {"restrict", "cascade", "set_null"}
ActionPairs == {<<"restrict", "cascade">>, <<"cascade", "set_null">>, <<"set_null", "restrict">>}
ParentDef == TableDef(1, <<ColumnDef("id", "i64"), UCol>>, <<"id">>)
ChildDef(onDelete, onUpdate) ==
    [TableDef(2, <<ColumnDef("id", "i64"), ColumnDef("p", "i64")>>, <<"id">>) EXCEPT
        !.foreign_keys = <<ForeignKey("p", <<"p">>, 1, <<"u">>, onDelete, onUpdate)>>]
GrandDef(onDelete) ==
    [TableDef(3, <<ColumnDef("id", "i64"), ColumnDef("c", "i64")>>, <<"id">>) EXCEPT
        !.foreign_keys = <<ForeignKey("c", <<"c">>, 2, <<"id">>, onDelete, "restrict")>>]

Pair(a, m, b, n) == <<<<a, I64(m)>>, <<b, I64(n)>>>>

ChainDefs == {ParentDef} \cup {ChildDef(a[1], a[2]) : a \in ActionPairs} \cup {GrandDef(d) : d \in Actions}
ChainIndexes == {<<2, IndexDef(<<"ix", "p">>, <<"p">>, FALSE)>>}
ChainInserts == {<<1, <<Pair("id", 1, "u", 1), Pair("id", 2, "u", 2)>>>>,
                 <<2, <<Pair("id", 1, "p", 1)>>>>, <<2, <<Pair("id", 2, "p", 2)>>>>,
                 <<3, <<Pair("id", 1, "c", 1)>>>>}
ChainUpdates == {<<1, <<I64(1)>>, <<<<"u", v>>>>>> : v \in {Null, I64(1), I64(3)}}
                \cup {<<2, <<I64(1)>>, <<<<"p", v>>>>>> : v \in {Null, I64(2)}}
ChainPolicies == {<<2, SetAll("p", Lit(I64(2)))>>}
ChainFilters == {<<1, Is("u", 2)>>, <<2, <<"all">>>>}
ChainBatches == {<<<<"insert", 2, <<Pair("id", 2, "p", 1)>>>>, <<"insert", 3, <<Pair("id", 2, "c", 2)>>>>>>}

\* Both in one run, though never in one database.
AllDefs == {ItemDef} \cup ChainDefs
AllIndexes == ItemIndexes \cup ChainIndexes
AllInserts == ItemInserts \cup ChainInserts
AllUpdates == ItemUpdates \cup ChainUpdates
AllPolicies == ItemPolicies \cup ChainPolicies
AllFilters == ItemFilters \cup ChainFilters
AllBatches == ItemBatches \cup ChainBatches
Apart == 4 \in DOMAIN db => DOMAIN db = {4}

\* The chain when a statement moves a unique value from one row to another.
NoOps == {}
ShiftPolicies == {<<1, SetAll("u", Plus("u", 1))>>}
=============================================================================
