-------------------------------- MODULE Expr --------------------------------
(***************************************************************************)
(* Expressions: their values (crates/query/src/eval.rs) and their static   *)
(* types (check_expr of crates/query/src/validate.rs).  A column reference *)
(* resolves against a sequence of slots, the columns of the row.  Tables   *)
(* and aliases are numbers; 0 is an absent qualifier.                      *)
(***************************************************************************)
EXTENDS Schema

CONSTANT I64Max     \* the largest i64

ASSUME I64Assumption == I64Max \in Nat

InI64(n) == -I64Max - 1 <= n /\ n <= I64Max

\* A text is named by a number in the order of the texts: 0 to 9 are the decimal
\* digits, the ones from WordText on no number.  An f64 is counted in halves; the
\* values that are not finite are one value above the others.
WordText == 10
FalseText == 20
TrueText == 21
NonFinite == 1000

Boolean(b) == <<"bool", IF b THEN 1 ELSE 0>>
Text(n) == <<"text", n>>
F64(halves) == <<"f64", halves>>
True == Boolean(TRUE)

\* A failed evaluation.
Error(e) == <<"error", e>>
IsError(v) == Kind(v) = "error"
FirstError(vals) == SelectSeq(vals, IsError)

\* The expression nodes.  A LIKE pattern is the set of texts it matches.
Col(q, c) == [k |-> "col", q |-> q, c |-> c, args |-> <<>>]
Lit(v) == [k |-> "lit", v |-> v, args |-> <<>>]
Call(k, args) == [k |-> k, args |-> args]
Op(k, op, args) == [k |-> k, op |-> op, args |-> args]
Cmp(op, a, b) == Op("cmp", op, <<a, b>>)
Like(e, texts) == [k |-> "like", texts |-> texts, args |-> <<e>>]

RECURSIVE SubExprs(_)
SubExprs(e) == {e} \cup UNION {SubExprs(e.args[i]) : i \in DOMAIN e.args}

ColumnRefs(e) == {x \in SubExprs(e) : x.k = "col"}
ContainsAgg(e) == \E x \in SubExprs(e) : x.k = "agg"

-----------------------------------------------------------------------------
(* Slots.                                                                  *)

Slot(q, name, kind, nullable) == [q |-> q, name |-> name, kind |-> kind, nullable |-> nullable]

SlotsOf(def, q) ==
    [i \in DOMAIN def.columns |->
        Slot(q, def.columns[i].name, def.columns[i].kind, IsNullable(def, i))]

Hits(slots, ref) == {i \in DOMAIN slots : /\ slots[i].name = ref.c
                                          /\ ref.q # 0 => slots[i].q = ref.q}

-----------------------------------------------------------------------------
(* Values.                                                                 *)

\* value_order: the two numeric kinds compare by value, NULL is first.
KindRank == [null |-> 0, bool |-> 1, i64 |-> 2, f64 |-> 2, text |-> 4, blob |-> 5,
             uuid |-> 6, json |-> 7, timestamp |-> 8]
Scaled(v) == IF Kind(v) = "i64" THEN 2 * Num(v) ELSE Num(v)
RankedOrder(ra, rb, a, b) == IF ra # rb THEN ra - rb ELSE Scaled(a) - Scaled(b)
ValueOrder(a, b) == RankedOrder(KindRank[Kind(a)], KindRank[Kind(b)], a, b)

EvalCmp(op, a, b) ==
    IF Null \in {a, b} THEN Null ELSE Boolean(Compare(op, ValueOrder(a, b), 0))

\* 3VL over the values of the operands.
Kleene(v) == IF Kind(v) = "bool" THEN Bool3(v = True) ELSE "U"
Truth(t) == IF t = "U" THEN Null ELSE Boolean(t = "T")

\* Division of i64 truncates towards zero.
Quotient(x, y) ==
    LET m == (IF x < 0 THEN -x ELSE x) \div (IF y < 0 THEN -y ELSE y)
    IN IF (x < 0) = (y < 0) THEN m ELSE -m

IntArith(op, x, y) ==
    LET n == CASE op = "add" -> x + y [] op = "sub" -> x - y [] op = "mul" -> x * y
               [] op \in {"div", "mod"} -> Quotient(x, y)
    IN IF op \in {"div", "mod"} /\ y = 0 THEN Error("div_by_zero")
       ELSE IF ~InI64(n) THEN Error("overflow")
       ELSE I64(IF op = "mod" THEN x - y * n ELSE n)

\* In halves, rounded to the grid.
FloatArith(op, x, y) ==
    IF NonFinite \in {x, y} \/ (y = 0 /\ op \in {"div", "mod"}) THEN F64(NonFinite)
    ELSE F64(CASE op = "add" -> x + y [] op = "sub" -> x - y [] op = "mul" -> Quotient(x * y, 2)
               [] op = "div" -> Quotient(2 * x, y) [] op = "mod" -> x - y * Quotient(x, y))

EvalArith(op, a, b) ==
    CASE Null \in {a, b} -> Null
      [] {Kind(a), Kind(b)} = {"i64"} -> IntArith(op, Num(a), Num(b))
      [] {Kind(a), Kind(b)} \subseteq {"i64", "f64"} -> FloatArith(op, Scaled(a), Scaled(b))
      [] OTHER -> Error("type_error")

RenderText(v) ==
    CASE Kind(v) = "bool" -> Text(IF v = True THEN TrueText ELSE FalseText)
      [] Kind(v) \in {"i64", "timestamp"} -> Text(Num(v))
      [] Kind(v) = "f64" -> Text(Num(v) \div 2)
      [] OTHER -> Error("bad_cast")

EvalCast(v, to) ==
    LET from == Kind(v)
        n == Num(v)
    IN CASE v = Null \/ from = to -> v
         [] to = "f64" /\ from = "i64" -> F64(2 * n)
         [] to = "i64" /\ from = "f64" ->
                IF n = NonFinite \/ ~InI64(Quotient(n, 2)) THEN Error("cast_range")
                ELSE I64(Quotient(n, 2))
         [] to = "i64" /\ from \in {"bool", "timestamp"} -> I64(n)
         [] to = "timestamp" /\ from = "i64" -> <<"timestamp", n>>
         [] to \in {"i64", "f64"} /\ from = "text" ->
                IF n >= WordText \/ ~InI64(n) THEN Error("cast_range")
                ELSE IF to = "i64" THEN I64(n) ELSE F64(2 * n)
         [] to = "bool" /\ from = "text" ->
                IF n \in {FalseText, TrueText} THEN Boolean(n = TrueText) ELSE Error("cast_range")
         [] to = "text" -> RenderText(v)
         [] OTHER -> Error("bad_cast")

\* IN stops at the first equal item, so a later item that fails is never met.
EvalIn(v, items) ==
    LET Stops(x) == IsError(x) \/ EvalCmp("eq", v, x) = True
        found == SelectSeq(items, Stops)
    IN IF v = Null THEN Null
       ELSE IF found # <<>> THEN IF IsError(found[1]) THEN found[1] ELSE True
       ELSE IF Null \in Range(items) THEN Null ELSE Boolean(FALSE)

EvalCoalesce(vals) ==
    LET set == SelectSeq(vals, LAMBDA v : v # Null) IN IF set = <<>> THEN Null ELSE set[1]

\* A node whose operands are all evaluated first.
EvalStrict(e, vals) ==
    LET set == {Kleene(v) : v \in Range(vals)}
    IN CASE e.k = "cmp" -> EvalCmp(e.op, vals[1], vals[2])
         [] e.k = "and" -> Truth(And3(set))
         [] e.k = "or" -> Truth(Or3(set))
         [] e.k = "not" -> IF Kind(vals[1]) \in {"null", "bool"}
                           THEN Truth(Not3(Kleene(vals[1]))) ELSE Error("type_error")
         [] e.k = "arith" -> EvalArith(e.op, vals[1], vals[2])
         [] e.k = "is_null" -> Boolean(vals[1] = Null)
         [] e.k = "is_not_null" -> Boolean(vals[1] # Null)
         [] e.k = "between" -> Truth(And3({Kleene(EvalCmp("gte", vals[1], vals[2])),
                                           Kleene(EvalCmp("lte", vals[1], vals[3]))}))
         [] e.k = "like" -> CASE vals[1] = Null -> Null
                              [] Kind(vals[1]) = "text" -> Boolean(Num(vals[1]) \in e.texts)
                              [] OTHER -> Error("type_error")
         [] e.k = "nullif" -> IF EvalCmp("eq", vals[1], vals[2]) = True THEN Null ELSE vals[1]
         [] e.k = "cast" -> EvalCast(vals[1], e.op)

RECURSIVE Eval(_, _, _)
Eval(e, row, slots) ==
    LET hits == Hits(slots, e)
        vals == [i \in DOMAIN e.args |-> Eval(e.args[i], row, slots)]
    IN CASE e.k = "col" -> IF hits = {} THEN Error("unresolved_column") ELSE row[Min(hits)]
         [] e.k = "lit" -> e.v
         [] e.k = "agg" -> Error("unexpected_aggregate")
         [] e.k = "coalesce" -> EvalCoalesce(vals)
         [] e.k = "in" /\ ~IsError(vals[1]) -> EvalIn(vals[1], Tail(vals))
         [] FirstError(vals) # <<>> -> FirstError(vals)[1]
         [] OTHER -> EvalStrict(e, vals)

-----------------------------------------------------------------------------
(* Types.  A type is its kind ("null" for the untyped NULL) and whether it *)
(* may be null; BadType is a rejected expression.                          *)

FieldType(kind, nullable) == [kind |-> kind, nullable |-> nullable]
BadType == FieldType("error", FALSE)

CompatibleCmp(a, b) ==
    \/ "null" \in {a, b}
    \/ "json" \notin {a, b} /\ (a = b \/ {a, b} \subseteq {"i64", "f64"})

Unify(a, b) ==
    CASE a = "null" -> b
      [] b = "null" \/ a = b -> a
      [] {a, b} \subseteq {"i64", "f64"} -> "f64"
      [] OTHER -> "error"

ArithKind(kinds) == IF "f64" \in kinds THEN "f64" ELSE IF "i64" \in kinds THEN "i64" ELSE "null"

\* Mutant: arithmetic takes operands of any kind.
NumericOperandsAny(kinds) == TRUE

NumericOperands(kinds) == kinds \subseteq {"i64", "f64", "null"}

\* The type of a node from the types of its operands.
CheckNode(e, types) ==
    LET kinds == {t.kind : t \in Range(types)}
        null == \E t \in Range(types) : t.nullable
        Typed(ok, kind, nullable) == IF ok THEN FieldType(kind, nullable) ELSE BadType
    IN CASE e.k \in {"and", "or", "not"} -> Typed(kinds \subseteq {"bool", "null"}, "bool", null)
         [] e.k \in {"is_null", "is_not_null"} -> FieldType("bool", FALSE)
         [] e.k \in {"cmp", "between", "in"} ->
                Typed(\A i \in 2..Len(types) : CompatibleCmp(types[1].kind, types[i].kind), "bool", null)
         [] e.k = "arith" -> Typed(NumericOperands(kinds), ArithKind(kinds), null)
         [] e.k = "like" -> Typed(kinds \subseteq {"text", "null"}, "bool", null)
         [] e.k = "coalesce" ->
                FieldType(FoldLeft(LAMBDA acc, t : Unify(acc, t.kind), "null", types),
                          \A t \in Range(types) : t.nullable)
         [] e.k = "nullif" -> Typed(CompatibleCmp(types[1].kind, types[2].kind), types[1].kind, TRUE)
         [] e.k = "cast" -> Typed("json" \notin {e.op} \cup kinds, e.op, null)

RECURSIVE CheckExpr(_, _)
CheckExpr(e, slots) ==
    LET hits == Hits(slots, e)
        types == [i \in DOMAIN e.args |-> CheckExpr(e.args[i], slots)]
    IN CASE e.k = "col" ->
                IF hits = {} \/ (e.q = 0 /\ Cardinality(hits) > 1) THEN BadType
                ELSE FieldType(slots[Max(hits)].kind, slots[Max(hits)].nullable)
         [] e.k = "lit" -> FieldType(Kind(e.v), e.v = Null)
         [] e.k = "agg" -> BadType
         [] \E t \in Range(types) : t.kind = "error" -> BadType
         [] OTHER -> CheckNode(e, types)

PredicateOk(e, slots) == CheckExpr(e, slots).kind \in {"bool", "null"}
=============================================================================
