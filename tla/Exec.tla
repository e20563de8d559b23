-------------------------------- MODULE Exec --------------------------------
(***************************************************************************)
(* Executing a plan over a database state: the reference executor          *)
(* (crates/query/src/exec.rs), which materializes every operator, and the  *)
(* pull-based one (stream.rs), which pages.  A relation is an error ("" if *)
(* none), its slots and its rows.  A stream is a sequence of items: a row  *)
(* or the error met in its place, which matters only if it is pulled.      *)
(***************************************************************************)
EXTENDS Query

Rel(slots, rows) == [err |-> "", slots |-> slots, rows |-> rows]
Fail(err) == [err |-> err, slots |-> <<>>, rows |-> <<>>]

RowItem(row) == <<"row", row>>
ErrItem(v) == <<"err", v[2]>>
IsRow(item) == item[1] = "row"
Items(rows) == [i \in DOMAIN rows |-> RowItem(rows[i])]

\* collect: the rows, unless an error or the row after the last one the cap
\* allows comes first.
Collect(slots, items, cap) ==
    LET errs == {i \in DOMAIN items : ~IsRow(items[i]) /\ i <= cap}
    IN IF errs # {} THEN Fail(items[Min(errs)][2])
       ELSE IF Len(items) > cap THEN Fail("resource_limit")
       ELSE Rel(slots, [i \in DOMAIN items |-> items[i][2]])

-----------------------------------------------------------------------------
(* Row at a time operators.                                                *)

\* The rows of a leaf, in the order of the primary key.
RowsAt(t, pks) == [i \in DOMAIN pks |-> RowAt(t, pks[i])]

IndexCandidates(t, index, prefix) ==
    LET tree == t.idx[index]
        pks == {tree[key] : key \in WithPrefix(tree, prefix)}
    IN RowsAt(t, SetToSortSeq(pks \cap DOMAIN t.rows, KeyLess))

LeafRows(t, p) ==
    CASE p.k = "scan" -> RowsAt(t, ScanKeys(t))
      [] p.k = "pk_lookup" -> IF p.key \in DOMAIN t.rows THEN <<RowAt(t, p.key)>> ELSE <<>>
      [] p.k = "index_scan" ->
             LET columns == t.def.indexes[IndexPos(t.def, p.index)].columns
                 led == SubSeq(columns, 1, Len(p.prefix))
             IN SelectSeq(IndexCandidates(t, p.index, p.prefix),
                          LAMBDA row : Cells(t.def, led, row) = p.prefix)

\* What a filter makes of an item: the item, nothing, or the error of its verdict.
Dropped == <<"dropped">>
Verdict(item, v) == IF IsError(v) THEN ErrItem(v) ELSE IF v = True THEN item ELSE Dropped

FilterItems(items, pred, slots) ==
    SelectSeq([i \in DOMAIN items |-> IF ~IsRow(items[i]) THEN items[i]
                                      ELSE Verdict(items[i], Eval(pred, items[i][2], slots))],
              LAMBDA item : item # Dropped)

ProjectSlots(items) == [i \in DOMAIN items |-> Slot(0, OutputNameOf(items[i], i), "", TRUE)]

Projected(vals) == IF FirstError(vals) # <<>> THEN ErrItem(FirstError(vals)[1]) ELSE RowItem(vals)
ProjectItem(item, list, slots) ==
    IF ~IsRow(item) THEN item
    ELSE Projected([i \in DOMAIN list |-> Eval(list[i][2], item[2], slots)])
ProjectItems(items, list, slots) ==
    [i \in DOMAIN items |-> ProjectItem(items[i], list, slots)]

\* The items one left item of a join gives: a left join pads a row without a match.
Pairs(left, rows) == [i \in DOMAIN rows |-> RowItem(left \o rows[i])]
Padded(kind, left, padding, out) ==
    IF kind = "left" /\ ~\E i \in DOMAIN out : IsRow(out[i])
    THEN Append(out, RowItem(left \o [i \in DOMAIN padding |-> Null])) ELSE out
Matches(pairs, on, slots) == IF on = <<>> THEN pairs ELSE FilterItems(pairs, on[1], slots)
JoinItem(kind, item, right, on, slots) ==
    IF ~IsRow(item) THEN <<item>>
    ELSE Padded(kind, item[2], right.slots, Matches(Pairs(item[2], right.rows), on, slots))

JoinItems(kind, items, right, on, slots) ==
    FlattenSeq([i \in DOMAIN items |-> JoinItem(kind, items[i], right, on, slots)])

LimitItems(items, limit, offset) ==
    SubSeq(items, offset + 1, IF limit = <<>> THEN Len(items) ELSE Min({offset + limit[1], Len(items)}))

-----------------------------------------------------------------------------
(* Blocking operators.                                                     *)

SumF64(vals) == FoldLeft(LAMBDA acc, v : Num(FloatArith("add", acc,
                    IF Kind(v) \in {"i64", "f64"} THEN Scaled(v) ELSE NonFinite)), 0, vals)

AggSum(vals) ==
    CASE vals = <<>> -> Null
      [] \E v \in Range(vals) : Kind(v) = "f64" -> F64(SumF64(vals))
      [] OTHER -> FoldLeft(LAMBDA acc, v : IF IsError(acc) \/ Kind(v) # "i64" THEN acc
                                           ELSE IntArith("add", Num(acc), Num(v)), I64(0), vals)

AggAvg(vals) == IF vals = <<>> THEN Null ELSE FloatArith("div", SumF64(vals), 2 * Len(vals))

AggOf(op, vals) ==
    CASE op = "count" -> I64(Len(vals))
      [] op = "sum" -> AggSum(vals)
      [] op = "avg" -> AggAvg(vals)
      [] vals = <<>> -> Null
      [] op = "min" -> vals[Min({i \in DOMAIN vals : \A v \in Range(vals) : ValueOrder(vals[i], v) <= 0})]
      [] op = "max" -> vals[Max({i \in DOMAIN vals : \A v \in Range(vals) : ValueOrder(vals[i], v) >= 0})]

AggOver(op, all) ==
    IF FirstError(all) # <<>> THEN FirstError(all)[1]
    ELSE AggOf(op, SelectSeq(all, LAMBDA v : v # Null))
ComputeAgg(agg, rows, slots) ==
    AggOver(agg.op, [i \in DOMAIN rows |-> Eval(agg.args[1], rows[i], slots)])

\* One pair per group key in the order of appearance: the first row of the group
\* and its rows.  A group without keys exists even if there are no rows.
Firsts(keys) == {i \in DOMAIN keys : \A j \in 1..(i - 1) : keys[j] # keys[i]}
GroupsAt(rows, keys, firsts) ==
    [i \in DOMAIN firsts |-> <<rows[firsts[i]],
                               PickAt(rows, {j \in DOMAIN keys : keys[j] = keys[firsts[i]]})>>]
Groups(rel, by, keys) ==
    IF by = <<>> /\ rel.rows = <<>> THEN << <<[i \in DOMAIN rel.slots |-> Null], <<>>>> >>
    ELSE GroupsAt(rel.rows, keys, SetToSortSeq(Firsts(keys), <))

FailFirst(failed, rel) == IF failed # <<>> THEN Fail(failed[1][2]) ELSE rel

\* The row of a group is its first row and the aggregates.
AggregateRows(aggs, groups, slots) ==
    [i \in DOMAIN groups |->
        groups[i][1] \o [j \in DOMAIN aggs |-> ComputeAgg(aggs[j][2], groups[i][2], slots)]]
Aggregated(rel, aggs, keys, rows) ==
    FailFirst(FirstError(FlattenSeq(keys) \o FlattenSeq(rows)),
              Rel(rel.slots \o [i \in DOMAIN aggs |-> Slot(0, aggs[i][1], "", TRUE)], rows))
AggregateOn(rel, by, aggs, keys) ==
    Aggregated(rel, aggs, keys, AggregateRows(aggs, Groups(rel, by, keys), rel.slots))
Aggregate(rel, by, aggs) ==
    AggregateOn(rel, by, aggs,
                [i \in DOMAIN rel.rows |-> [j \in DOMAIN by |-> Eval(by[j], rel.rows[i], rel.slots)]])

KeyOf(row, keys, slots) == [i \in DOMAIN keys |-> Eval(keys[i][1], row, slots)]

\* Negative, zero or positive, under the directions of the sort keys.
FirstNonZero(ord) ==
    IF \A i \in DOMAIN ord : ord[i] = 0 THEN 0 ELSE ord[Min({i \in DOMAIN ord : ord[i] # 0})]
KeyCmp(a, b, keys) ==
    FirstNonZero([i \in DOMAIN keys |-> (IF keys[i][2] = "desc" THEN -1 ELSE 1) * ValueOrder(a[i], b[i])])

SortedBefore(c, i, j) == c < 0 \/ (c = 0 /\ i < j)
SortOn(rel, keys, by) ==
    FailFirst(FirstError(FlattenSeq(by)),
              Rel(rel.slots, Pick(rel.rows, SetToSortSeq(DOMAIN by,
                  LAMBDA i, j : SortedBefore(KeyCmp(by[i], by[j], keys), i, j)))))
SortRows(rel, keys) ==
    SortOn(rel, keys, [i \in DOMAIN rel.rows |-> KeyOf(rel.rows[i], keys, rel.slots)])

DistinctRel(rel) == Rel(rel.slots, PickAt(rel.rows, Firsts(rel.rows)))

Blocking(rel, p) ==
    CASE rel.err # "" -> rel
      [] p.k = "group" -> Aggregate(rel, p.by, p.aggs)
      [] p.k = "sort" -> SortRows(rel, p.keys)
      [] p.k = "distinct" -> DistinctRel(rel)

-----------------------------------------------------------------------------
(* build: the stream of a plan.  An error here ends the query before any   *)
(* row is pulled.                                                          *)

Stream(slots, items) == [err |-> "", slots |-> slots, items |-> items]
FromRel(rel) == [err |-> rel.err, slots |-> rel.slots, items |-> Items(rel.rows)]

JoinWith(p, in, right) ==
    IF right.err # "" THEN FromRel(right)
    ELSE Stream(in.slots \o right.slots,
                JoinItems(p.kind, in.items, right, p.on, in.slots \o right.slots))

BuildJoin(p, in, rs, cap) ==
    CASE in.err # "" -> in
      [] rs.err # "" -> rs
      [] OTHER -> JoinWith(p, in, Collect(rs.slots, rs.items, cap))

BuildOn(p, in, cap) ==
    CASE in.err # "" -> in
      [] p.k = "filter" -> Stream(in.slots, FilterItems(in.items, p.pred, in.slots))
      [] p.k = "project" ->
             Stream(ProjectSlots(p.items), ProjectItems(in.items, p.items, in.slots))
      [] p.k = "limit" -> Stream(in.slots, LimitItems(in.items, p.limit, p.offset))
      [] OTHER -> FromRel(Blocking(Collect(in.slots, in.items, cap), p))

LeafRel(d, p) == Rel(SlotsOf(d[p.table].def, Qualifier(p)), LeafRows(d[p.table], p))

RECURSIVE Build(_, _, _)
Build(d, p, cap) ==
    CASE p.k = "cursor" -> FromRel(Fail("unsupported"))
      [] p.k \in Leaves -> FromRel(LeafRel(d, p))
      [] p.k = "join" -> BuildJoin(p, Build(d, p.input, cap), Build(d, p.right, cap), cap)
      [] OTHER -> BuildOn(p, Build(d, p.input, cap), cap)

\* execute: every operator collects what it makes before the next one starts.
All(slots, items) == Collect(slots, items, Len(items))

ExecuteJoin(p, in, right) ==
    CASE in.err # "" -> in
      [] right.err # "" -> right
      [] OTHER -> All(in.slots \o right.slots,
                      JoinItems(p.kind, Items(in.rows), right, p.on, in.slots \o right.slots))

ExecuteOn(p, in) ==
    CASE in.err # "" -> in
      [] p.k = "filter" -> All(in.slots, FilterItems(Items(in.rows), p.pred, in.slots))
      [] p.k = "project" ->
             All(ProjectSlots(p.items), ProjectItems(Items(in.rows), p.items, in.slots))
      [] p.k = "limit" -> All(in.slots, LimitItems(Items(in.rows), p.limit, p.offset))
      [] OTHER -> Blocking(in, p)

RECURSIVE Execute(_, _)
Execute(d, p) ==
    CASE p.k = "cursor" -> Fail("unsupported")
      [] p.k \in Leaves -> LeafRel(d, p)
      [] p.k = "join" -> ExecuteJoin(p, Execute(d, p.input), Execute(d, p.right))
      [] OTHER -> ExecuteOn(p, Execute(d, p.input))

-----------------------------------------------------------------------------
(* execute_page.                                                           *)

RECURSIVE CountJoins(_)
CountJoins(p) ==
    CASE p.k \in Leaves -> 0
      [] p.k = "join" -> 1 + CountJoins(p.input) + CountJoins(p.right)
      [] OTHER -> CountJoins(p.input)

\* Mutant: a token above the limit is dropped.
RECURSIVE PeelLosesOuter(_, _)
PeelLosesOuter(p, acc) ==
    CASE p.k = "limit" -> PeelLosesOuter(p.input, [acc EXCEPT !.limit = p.limit, !.offset = p.offset])
      [] p.k = "cursor" -> PeelLosesOuter(p.input, IF acc.limit = <<>> THEN acc
                                                   ELSE [acc EXCEPT !.resume = <<p.token>>])
      [] OTHER -> [acc EXCEPT !.core = p]

\* Take the limits and cursors off the top; the innermost one of each counts.
RECURSIVE Peel(_, _)
Peel(p, acc) ==
    CASE p.k = "limit" -> Peel(p.input, [acc EXCEPT !.limit = p.limit, !.offset = p.offset])
      [] p.k = "cursor" -> Peel(p.input, [acc EXCEPT !.resume = <<p.token>>])
      [] OTHER -> [acc EXCEPT !.core = p]

\* A token carries the sort key of the last row of its page.
KeyAfter(key, resume, keys) == FirstError(key) = <<>> /\ KeyCmp(key, resume, keys) > 0
RowAfter(row, resume, keys, slots) == KeyAfter(KeyOf(row, keys, slots), resume, keys)

FailPage(err) == [err |-> err, slots |-> <<>>, rows |-> <<>>, cursor |-> <<>>]

\* The rows left after the resume point and the offset, and the page of them.
AfterResume(rel, top) ==
    IF top.resume = <<>> THEN rel.rows
    ELSE SelectSeq(rel.rows, LAMBDA row :
             RowAfter(row, top.resume[1], top.core.keys, rel.slots))
AfterOffset(rows, offset) == SubSeq(rows, offset + 1, Len(rows))

\* Mutant: the limit of a page is ignored.
PageOfAll(rows, limit) == rows

PageOf(rows, limit) == IF limit = <<>> THEN rows ELSE SubSeq(rows, 1, Min({limit[1], Len(rows)}))

\* A token is handed out if rows remain behind a page of a sorted result.
MakePage(top, slots, rows, more) ==
    [err |-> "", slots |-> slots, rows |-> rows,
     cursor |-> IF more /\ top.core.k = "sort" /\ rows # <<>>
                THEN <<KeyOf(Last(rows), top.core.keys, slots)>> ELSE <<>>]
PageOn(top, slots, rest) ==
    MakePage(top, slots, PageOf(rest, top.limit), Len(PageOf(rest, top.limit)) < Len(rest))
PageFrom(top, rel) ==
    CASE rel.err # "" -> FailPage(rel.err)
      [] top.resume # <<>> /\ top.core.k # "sort" -> FailPage("bad_cursor")
      [] OTHER -> PageOn(top, rel.slots, AfterOffset(AfterResume(rel, top), top.offset))
Pull(top, node, cap) ==
    IF node.err # "" THEN FailPage(node.err)
    ELSE PageFrom(top, Collect(node.slots, node.items, cap))
PageTop(d, top, cap) == Pull(top, Build(d, top.core, cap), cap)

ExecutePage(d, p, maxRows, maxJoins) ==
    IF CountJoins(p) > maxJoins THEN FailPage("resource_limit")
    ELSE PageTop(d, Peel(p, [limit |-> <<>>, offset |-> 0, resume |-> <<>>, core |-> NoPlan]), maxRows)
=============================================================================
