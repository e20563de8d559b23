------------------------------- MODULE Query -------------------------------
(***************************************************************************)
(* Queries: lowering (crates/query/src/lower.rs), validation (validate.rs) *)
(* and planning (plan.rs).  A plan node is a record: its kind k, the       *)
(* fields of its stage and its input; a join has a right side too.  An     *)
(* absent limit, ON or clause is <<>>.                                     *)
(***************************************************************************)
EXTENDS Rows

\* The stages of a pipeline, and so the nodes of a plan.
Scan(t, alias) == [k |-> "scan", table |-> t, alias |-> alias]
Match(pred) == [k |-> "filter", pred |-> pred]
Join(kind, t, alias, on) == [k |-> "join", kind |-> kind, right |-> Scan(t, alias), on |-> on]
Group(by, aggs) == [k |-> "group", by |-> by, aggs |-> aggs]
Sort(keys) == [k |-> "sort", keys |-> keys]
Project(items) == [k |-> "project", items |-> items]
DistinctRows(on) == [k |-> "distinct", on |-> on]
Limit(limit, offset) == [k |-> "limit", limit |-> limit, offset |-> offset]
Cursor(token) == [k |-> "cursor", token |-> token]

Over(input, stage) == [input |-> input] @@ stage
Filter(input, pred) == Over(input, Match(pred))
NoPlan == [k |-> "error"]

Leaves == {"scan", "index_scan", "pk_lookup"}
Qualifier(p) == IF p.alias = 0 THEN p.table ELSE p.alias

\* A projection item is a pair: the alias, "" if there is none, and the expression.
OutputNameOf(item, i) ==
    CASE item[1] # "" -> item[1]
      [] item[2].k = "col" -> item[2].c
      [] OTHER -> "col" \o ToString(i)

-----------------------------------------------------------------------------
(* lower.rs.                                                               *)

LowerPipeline(stages) ==
    LET bad(s) == \/ s.k = "scan"
                  \/ s.k = "group" /\ \E i \in DOMAIN s.aggs : s.aggs[i][2].k # "agg"
    IN IF \/ stages = <<>> \/ Head(stages).k # "scan"
          \/ \E s \in Range(Tail(stages)) : bad(s)
       THEN NoPlan
       ELSE FoldLeft(LAMBDA p, s : IF s.k = "distinct" /\ ~s.on THEN p ELSE Over(p, s),
                     Head(stages), Tail(stages))

AggName(item) == IF item[1] # "" THEN item[1] ELSE item[2].op
IsAgg(item) == item[2].k = "agg"

\* The pipeline of a clause; <<>> if it is malformed.
AggItems(items) == LET calls == SelectSeq(items, IsAgg)
                   IN [i \in DOMAIN calls |-> <<AggName(calls[i]), calls[i][2]>>]
PlainItems(items) ==
    [i \in DOMAIN items |-> IF IsAgg(items[i]) THEN <<"", Col(0, AggName(items[i]))>> ELSE items[i]]
Maybe(on, s) == IF on THEN <<s>> ELSE <<>>
MaybeMatch(clause) == [i \in DOMAIN clause |-> Match(clause[i])]

Desugar(c, items, aggs, grouped) ==
    IF \/ c.from = <<>>
       \/ ~Distinct([i \in DOMAIN aggs |-> aggs[i][1]])
       \/ \E i \in DOMAIN items : ~IsAgg(items[i]) /\ ContainsAgg(items[i][2])
       \/ c.having # <<>> /\ ~grouped
    THEN <<>>
    ELSE c.from \o c.joins \o MaybeMatch(c.where)
         \o Maybe(grouped, Group(c.group_by, aggs)) \o MaybeMatch(c.having)
         \o Maybe(c.select # <<>>, Project(PlainItems(items)))
         \o Maybe(c.distinct, DistinctRows(TRUE))
         \o Maybe(c.order_by # <<>>, Sort(c.order_by))
         \o Maybe(c.limit # <<>> \/ c.offset # 0, Limit(c.limit, c.offset))
         \o [i \in DOMAIN c.cursor |-> Cursor(c.cursor[i])]
DesugarItems(c, items, aggs) == Desugar(c, items, aggs, c.group_by # <<>> \/ aggs # <<>>)
DesugarClause(c) == DesugarItems(c, FlattenSeq(c.select), AggItems(FlattenSeq(c.select)))

NoClause == [from |-> <<>>, joins |-> <<>>, where |-> <<>>, group_by |-> <<>>, having |-> <<>>,
             select |-> <<>>, distinct |-> FALSE, order_by |-> <<>>, limit |-> <<>>, offset |-> 0,
             cursor |-> <<>>]

\* A select is a pair: <<"pipeline", stages>> or <<"clause", clause>>.
Lower(select) ==
    LowerPipeline(IF select[1] = "pipeline" THEN select[2] ELSE DesugarClause(select[2]))

-----------------------------------------------------------------------------
(* check_plan: the slots of a plan's rows, or BadSlots.                    *)

BadSlots == <<Slot(0, "error", "error", FALSE)>>

\* Mutant: the right side of a left join keeps its NOT NULL.
MadeNullableNot(slots) == slots

MadeNullable(slots) == [i \in DOMAIN slots |-> [slots[i] EXCEPT !.nullable = TRUE]]

AggregateType(op, arg) ==
    CASE arg.kind = "error" -> BadType
      [] op = "count" -> FieldType("i64", FALSE)
      [] op = "avg" -> FieldType("f64", TRUE)
      [] OTHER -> FieldType(arg.kind, TRUE)
CheckAggregate(agg, slots) == AggregateType(agg.op, CheckExpr(agg.args[1], slots))

Orderable(e, slots) == CheckExpr(e, slots).kind \notin {"error", "json"}

Sound(types) == \A t \in Range(types) : t.kind # "error"
Named(names, types) ==
    [i \in DOMAIN types |-> Slot(0, names[i], types[i].kind, types[i].nullable)]
SlotsIf(ok, slots) == IF ok THEN slots ELSE BadSlots

CheckGroup(p, in, types) ==
    SlotsIf((\A e \in Range(p.by) : Orderable(e, in)) /\ Sound(types),
            in \o Named([i \in DOMAIN p.aggs |-> p.aggs[i][1]], types))
CheckProject(p, types) ==
    SlotsIf(Sound(types), Named([i \in DOMAIN p.items |-> OutputNameOf(p.items[i], i)], types))
CheckOn(on, slots) == SlotsIf(on # <<>> => PredicateOk(on[1], slots), slots)
CheckJoin(p, left, right) ==
    IF BadSlots \in {left, right} THEN BadSlots
    ELSE CheckOn(p.on, left \o IF p.kind = "left" THEN MadeNullable(right) ELSE right)
CheckStage(p, in) ==
    CASE in = BadSlots -> BadSlots
      [] p.k = "filter" -> SlotsIf(PredicateOk(p.pred, in), in)
      [] p.k = "group" ->
             CheckGroup(p, in, [i \in DOMAIN p.aggs |-> CheckAggregate(p.aggs[i][2], in)])
      [] p.k = "project" ->
             CheckProject(p, [i \in DOMAIN p.items |-> CheckExpr(p.items[i][2], in)])
      [] p.k = "sort" -> SlotsIf(\A key \in Range(p.keys) : Orderable(key[1], in), in)
      [] p.k \in {"distinct", "limit", "cursor"} -> in

RECURSIVE CheckPlan(_, _)
CheckPlan(d, p) ==
    CASE p.k = "error" -> BadSlots
      [] p.k \in Leaves -> IF p.table \in DOMAIN d THEN SlotsOf(d[p.table].def, Qualifier(p))
                           ELSE BadSlots
      [] p.k = "join" -> CheckJoin(p, CheckPlan(d, p.input), CheckPlan(d, p.right))
      [] OTHER -> CheckStage(p, CheckPlan(d, p.input))

-----------------------------------------------------------------------------
(* plan.rs.                                                                *)

RECURSIVE FlattenAnd(_)
FlattenAnd(pred) ==
    IF pred.k = "and" THEN FlattenSeq([i \in DOMAIN pred.args |-> FlattenAnd(pred.args[i])])
    ELSE <<pred>>

AndOf(conjuncts) == IF Len(conjuncts) = 1 THEN conjuncts[1] ELSE Call("and", conjuncts)
WrapFilter(input, conjuncts) == IF conjuncts = <<>> THEN input ELSE Filter(input, AndOf(conjuncts))

\* equality_on: the column and the literal of "column = literal", either way round.
EqualityOn(e, q) ==
    LET Pair(x, y) == IF x.k = "col" /\ x.q \in {0, q} /\ y.k = "lit" THEN <<x.c, y.v>> ELSE <<>>
    IN IF e.k # "cmp" THEN <<>>
       ELSE IF e.op # "eq" THEN <<>>
       ELSE Pair(e.args[1], e.args[2]) \o Pair(e.args[2], e.args[1])

\* The conjunct that fixes column c: the first one, 0 if there is none.
FirstOr(set, none) == IF set = {} THEN none ELSE Min(set)
Fixing(conjuncts, q, c) ==
    FirstOr({i \in DOMAIN conjuncts : \E eq \in {EqualityOn(conjuncts[i], q)} :
                                           eq # <<>> /\ eq[1] = c}, 0)

\* How many leading columns the equalities cover.
Covered(conjuncts, q, columns) ==
    FirstOr({i \in DOMAIN columns : Fixing(conjuncts, q, columns[i]) = 0}, Len(columns) + 1) - 1

\* The leaf of kind k with the literals of the conjuncts at, over which the others
\* stay as a filter.
Fix(conjuncts, q, columns) == [i \in DOMAIN columns |-> Fixing(conjuncts, q, columns[i])]
Values(conjuncts, q, at) == [i \in DOMAIN at |-> EqualityOn(conjuncts[at[i]], q)[2]]
Unused(conjuncts, at) == PickAt(conjuncts, DOMAIN conjuncts \ Range(at))

PkLookup(p, conjuncts, at) ==
    WrapFilter([k |-> "pk_lookup", table |-> p.table, alias |-> p.alias,
                key |-> Values(conjuncts, Qualifier(p), at)], Unused(conjuncts, at))
IndexScan(p, conjuncts, index, at) ==
    WrapFilter([k |-> "index_scan", table |-> p.table, alias |-> p.alias, index |-> index.name,
                prefix |-> Values(conjuncts, Qualifier(p), at)], Unused(conjuncts, at))

\* The first index with the longest covered prefix.
Longest(cover) == Min({i \in DOMAIN cover : \A j \in DOMAIN cover : cover[j] <= cover[i]})
IndexScanOn(p, conjuncts, index, n) ==
    IndexScan(p, conjuncts, index, Fix(conjuncts, Qualifier(p), SubSeq(index.columns, 1, n)))
BestIndex(p, pred, conjuncts, indexes, cover) ==
    IF \A i \in DOMAIN cover : cover[i] = 0 THEN Filter(p, pred)
    ELSE IndexScanOn(p, conjuncts, indexes[Longest(cover)], cover[Longest(cover)])

SelectOn(p, pred, conjuncts, def) ==
    IF Covered(conjuncts, Qualifier(p), def.pk) = Len(def.pk)
    THEN PkLookup(p, conjuncts, Fix(conjuncts, Qualifier(p), def.pk))
    ELSE BestIndex(p, pred, conjuncts, def.indexes,
                   [i \in DOMAIN def.indexes |-> Covered(conjuncts, Qualifier(p), def.indexes[i].columns)])
IndexSelect(d, p, pred) == SelectOn(p, pred, FlattenAnd(pred), d[p.table].def)

\* exposed: the slots of a plan, for the choice of a side; kinds do not matter.
RECURSIVE Exposed(_, _)
Exposed(d, p) ==
    CASE p.k \in Leaves -> SlotsOf(d[p.table].def, Qualifier(p))
      [] p.k = "join" -> Exposed(d, p.input) \o Exposed(d, p.right)
      [] p.k = "group" -> Exposed(d, p.input)
                          \o [i \in DOMAIN p.aggs |-> Slot(0, p.aggs[i][1], "", TRUE)]
      [] p.k = "project" -> [i \in DOMAIN p.items |-> Slot(0, OutputNameOf(p.items[i], i), "", TRUE)]
      [] OTHER -> Exposed(d, p.input)

\* The conjuncts that go to the left side, to the right side and nowhere.
On(slots, c) == \A r \in ColumnRefs(c) : Hits(slots, r) # {}
SplitOver(left, right, conjuncts) ==
    <<SelectSeq(conjuncts, LAMBDA c : On(left, c)),
      SelectSeq(conjuncts, LAMBDA c : ~On(left, c) /\ On(right, c)),
      SelectSeq(conjuncts, LAMBDA c : ~On(left, c) /\ ~On(right, c))>>
SplitConjuncts(d, p, pred) ==
    SplitOver(Exposed(d, p.input), Exposed(d, p.right), FlattenAnd(pred))

\* Mutant: predicates are pushed below a left join too.
PushableAny(join) == TRUE

Pushable(join) == join.kind \in {"inner", "cross"}

RECURSIVE BuildFilter(_, _, _)
Push(d, side, conjuncts) ==
    IF conjuncts = <<>> THEN side ELSE BuildFilter(d, side, AndOf(conjuncts))
Pushdown(d, join, s) ==
    WrapFilter([join EXCEPT !.input = Push(d, @, s[1]), !.right = Push(d, @, s[2])], s[3])
BuildFilter(d, input, pred) ==
    CASE input.k = "scan" -> IndexSelect(d, input, pred)
      [] input.k = "join" /\ Pushable(input) ->
             Pushdown(d, input, SplitConjuncts(d, input, pred))
      [] OTHER -> Filter(input, pred)

RECURSIVE Optimize(_, _)
Optimize(d, p) ==
    CASE p.k \in Leaves -> p
      [] p.k = "filter" -> BuildFilter(d, Optimize(d, p.input), p.pred)
      [] p.k = "join" -> [p EXCEPT !.input = Optimize(d, @), !.right = Optimize(d, @)]
      [] OTHER -> [p EXCEPT !.input = Optimize(d, @)]
=============================================================================
