------------------------------- MODULE Schema -------------------------------
(***************************************************************************)
(* Values and table definitions: crates/catalog/src/schema.rs.  A value is *)
(* its kind and a number that orders it within the kind; a definition is a *)
(* record with the fields of TableDef.  Columns and indexes are named by   *)
(* strings, tables by numbers in the order of their names.                 *)
(***************************************************************************)
EXTENDS Integers, Sequences, FiniteSets, SequencesExt

Null == <<"null", 0>>
I64(n) == <<"i64", n>>
Kind(v) == v[1]
Num(v) == v[2]

\* types::validate_json is outside: document 0 is the malformed one.
WellFormed(v) == Kind(v) = "json" => Num(v) > 0

\* Order within a kind, NULL first.
ValLess(a, b) == b # Null /\ (a = Null \/ Num(a) < Num(b))

\* encode_key keeps the order of the components and loses nothing, so an encoded
\* key is the sequence of its values.
KeyLess(s, t) ==
    \/ IsStrictPrefix(s, t)
    \/ \E i \in DOMAIN s \cap DOMAIN t :
           ValLess(s[i], t[i]) /\ \A j \in 1..(i - 1) : s[j] = t[j]

-----------------------------------------------------------------------------
(* Definitions.                                                            *)

ColumnDef(name, kind) ==
    [name |-> name, kind |-> kind, nullable |-> TRUE, unique |-> FALSE, default |-> <<>>,
     auto_increment |-> FALSE, rowversion |-> FALSE, on_update_now |-> FALSE,
     guarded |-> FALSE]

IndexDef(name, columns, unique) == [name |-> name, columns |-> columns, unique |-> unique]

ForeignKey(name, columns, parent, parentColumns, onDelete, onUpdate) ==
    [name |-> name, columns |-> columns, parent |-> parent,
     parent_columns |-> parentColumns, on_delete |-> onDelete, on_update |-> onUpdate]

TableDef(name, columns, pk) ==
    [name |-> name, columns |-> columns, pk |-> pk, checks |-> <<>>,
     indexes |-> <<>>, foreign_keys |-> <<>>]

\* A default is absent, <<"value", v>>, <<"now">> or <<"uuid_v7">>.
HasDefaultValue(col) == col.default # <<>> /\ col.default[1] = "value"

Names(defs) == {defs[i].name : i \in DOMAIN defs}
Distinct(s) == \A i, j \in DOMAIN s : s[i] = s[j] => i = j

ColIndex(def, name) ==
    IF name \in Names(def.columns)
    THEN CHOOSE i \in DOMAIN def.columns : def.columns[i].name = name ELSE 0

Column(def, name) == def.columns[ColIndex(def, name)]

IndexPos(def, name) ==
    IF name \in Names(def.indexes)
    THEN CHOOSE i \in DOMAIN def.indexes : def.indexes[i].name = name ELSE 0

IsPk(def, i) == def.columns[i].name \in Range(def.pk)
IsNullable(def, i) == def.columns[i].nullable /\ ~IsPk(def, i)

ImplicitIndexName(def, col) == <<"uniq", def.name, col>>

BacksUniqueColumn(def, idx) ==
    /\ idx.unique /\ Len(idx.columns) = 1
    /\ idx.name = ImplicitIndexName(def, idx.columns[1])
    /\ \E i \in DOMAIN def.columns :
           def.columns[i].name = idx.columns[1] /\ def.columns[i].unique

\* The values of the named columns in a full row, in the order of the names.
Cells(def, names, row) == [i \in DOMAIN names |-> row[ColIndex(def, names[i])]]

\* The elements of a sequence at some positions, and at a set of positions in order.
Pick(s, at) == [i \in DOMAIN at |-> s[at[i]]]
PickAt(s, set) == Pick(s, SetToSortSeq(set, <))

-----------------------------------------------------------------------------
(* CHECK expressions, in three-valued logic: T, F, U.                      *)

And3(s) == IF "F" \in s THEN "F" ELSE IF "U" \in s THEN "U" ELSE "T"
Or3(s) == IF "T" \in s THEN "T" ELSE IF "U" \in s THEN "U" ELSE "F"
Not3(t) == CASE t = "T" -> "F" [] t = "F" -> "T" [] OTHER -> "U"
Bool3(b) == IF b THEN "T" ELSE "F"

Compare(op, a, b) ==
    CASE op = "eq" -> a = b [] op = "ne" -> a # b
      [] op = "lt" -> a < b [] op = "lte" -> a <= b
      [] op = "gt" -> a > b [] op = "gte" -> a >= b

RECURSIVE CheckEval(_, _, _)
CheckEval(c, def, row) ==
    LET Cell == row[ColIndex(def, c.col)]
        Items == {CheckEval(c.items[i], def, row) : i \in DOMAIN c.items}
    IN CASE c.k = "cmp" -> IF Cell = Null THEN "U"
                           ELSE Bool3(Compare(c.op, Num(Cell), Num(c.value)))
         [] c.k = "is_null" -> Bool3(Cell = Null)
         [] c.k = "is_not_null" -> Bool3(Cell # Null)
         [] c.k = "and" -> And3(Items)
         [] c.k = "or" -> Or3(Items)
         [] c.k = "not" -> Not3(CheckEval(c.items[1], def, row))

MAX_CHECK_DEPTH == 16

RECURSIVE CheckValid(_, _, _)
CheckValid(c, def, depth) ==
    /\ depth <= MAX_CHECK_DEPTH
    /\ c.k \in {"cmp", "is_null", "is_not_null"} => ColIndex(def, c.col) # 0
    /\ c.k = "cmp" => Kind(c.value) = Column(def, c.col).kind
    /\ c.k \in {"and", "or", "not"} =>
           c.items # <<>> /\ \A i \in DOMAIN c.items : CheckValid(c.items[i], def, depth + 1)

-----------------------------------------------------------------------------
(* TableDef::validate.                                                     *)

DefaultValid(col) ==
    CASE col.default = <<>> -> TRUE
      [] col.default[1] = "now" -> col.kind = "timestamp"
      [] col.default[1] = "uuid_v7" -> col.kind = "uuid"
      [] OTHER -> LET v == col.default[2]
                  IN IF v = Null THEN col.nullable
                     ELSE Kind(v) = col.kind /\ WellFormed(v)

ColumnValid(col) ==
    /\ col.auto_increment => col.kind = "i64"
    /\ col.rowversion => /\ col.kind = "i64" /\ ~col.auto_increment
                         /\ col.default = <<>> /\ ~col.on_update_now
    /\ col.on_update_now => col.kind = "timestamp"
    /\ DefaultValid(col)

AtMostOne(def, flag) == Cardinality({i \in DOMAIN def.columns : def.columns[i][flag]}) <= 1

KeyColumns(def, names) ==
    /\ names # <<>> /\ Distinct(names)
    /\ \A n \in Range(names) : ColIndex(def, n) # 0 /\ Column(def, n).kind # "json"

ForeignKeyValid(def, fk) ==
    /\ fk.columns # <<>> /\ Distinct(fk.columns)
    /\ Len(fk.columns) = Len(fk.parent_columns)
    /\ \A n \in Range(fk.columns) :
           /\ ColIndex(def, n) # 0
           /\ "set_null" \in {fk.on_delete, fk.on_update} => IsNullable(def, ColIndex(def, n))

TableDefValid(def) ==
    /\ def.columns # <<>>
    /\ Cardinality(Names(def.columns)) = Len(def.columns)
    /\ \A i \in DOMAIN def.columns : ColumnValid(def.columns[i])
    /\ AtMostOne(def, "auto_increment")
    /\ AtMostOne(def, "rowversion")
    /\ KeyColumns(def, def.pk)
    /\ \A n \in Range(def.pk) : ~Column(def, n).rowversion
    /\ \A i \in DOMAIN def.checks : CheckValid(def.checks[i], def, 0)
    /\ Cardinality(Names(def.indexes)) = Len(def.indexes)
    /\ \A i \in DOMAIN def.indexes : KeyColumns(def, def.indexes[i].columns)
    /\ Cardinality(Names(def.foreign_keys)) = Len(def.foreign_keys)
    /\ \A i \in DOMAIN def.foreign_keys : ForeignKeyValid(def, def.foreign_keys[i])

\* Mutant: unique columns get no index.
MaterializeNothing(def) == def

MaterializeImplicitIndexes(def) ==
    LET backing == [i \in DOMAIN def.columns |->
                       IndexDef(ImplicitIndexName(def, def.columns[i].name),
                                <<def.columns[i].name>>, def.columns[i].unique)]
        needed == SelectSeq(backing, LAMBDA idx : idx.unique /\ IndexPos(def, idx.name) = 0)
    IN [def EXCEPT !.indexes = @ \o needed]
=============================================================================
