-------------------------------- MODULE Rows --------------------------------
(***************************************************************************)
(* Rows, index entries and foreign-key probes of one database state: the   *)
(* helpers of crates/catalog/src/job.rs and crates/index/src/lib.rs.  A    *)
(* database d maps a table to its definition, its stored rows by primary   *)
(* key, its auto-increment sequence and the entries of its indexes.        *)
(***************************************************************************)
EXTENDS Expr

-----------------------------------------------------------------------------
(* Index entries: crates/index/src/lib.rs.  An entry is its key; its value *)
(* is the row's primary key.  <<>> stands for "no entry".                  *)

IndexEntry(cols, pk, unique) ==
    IF unique THEN IF Null \in Range(cols) THEN <<>> ELSE cols
              ELSE cols \o pk

EntryFor(def, idx, row, pk) == IndexEntry(Cells(def, idx.columns, row), pk, idx.unique)

InsertEntry(tree, key, pk) == (key :> pk) @@ tree
RemoveEntry(tree, key) == Restrict(tree, DOMAIN tree \ {key})
WithPrefix(tree, cols) == {key \in DOMAIN tree : IsPrefix(cols, key)}

\* Mutant: the old entry of a moved row stays in the index.
MoveEntryKeepsOld(tree, old, new, pk) == IF new = <<>> THEN tree ELSE InsertEntry(tree, new, pk)

\* Move a row's entry from its old to its new key, if they differ.
MoveEntry(tree, old, new, pk) ==
    LET gone == IF old = <<>> THEN tree ELSE RemoveEntry(tree, old)
    IN IF old = new THEN tree ELSE IF new = <<>> THEN gone ELSE InsertEntry(gone, new, pk)

-----------------------------------------------------------------------------
(* Rows.                                                                   *)

\* What the catalog tree holds of a table: its definition, the root of its data
\* tree, its sequence and the root of each index tree.
NewTable(def) ==
    [def |-> def, rows |-> <<>>, seq |-> 1, idx |-> [n \in Names(def.indexes) |-> <<>>]]

Tables(d) == SetToSortSeq(DOMAIN d, <)

\* decode_padded: columns added after the row was written read as their
\* constant default or NULL.
DecodePadded(def, stored) ==
    stored \o [i \in 1..(Len(def.columns) - Len(stored)) |->
                  LET col == def.columns[Len(stored) + i]
                  IN IF HasDefaultValue(col) THEN col.default[2] ELSE Null]

RowAt(t, pk) == DecodePadded(t.def, t.rows[pk])
ScanKeys(t) == SetToSortSeq(DOMAIN t.rows, KeyLess)

PkKeyOf(def, row) == Cells(def, def.pk, row)

CheckCellType(def, i, v) ==
    IF v = Null THEN IF IsNullable(def, i) THEN "" ELSE "not_null"
    ELSE IF Kind(v) = def.columns[i].kind /\ WellFormed(v) THEN "" ELSE "type_mismatch"

EncodePk(def, pk) ==
    IF Len(pk) # Len(def.pk) THEN "invalid_schema"
    ELSE LET bad == {CheckCellType(def, ColIndex(def, def.pk[i]), pk[i]) : i \in DOMAIN pk} \ {""}
         IN IF bad = {} THEN "" ELSE CHOOSE e \in bad : TRUE

\* Mutant: a CHECK fails when it is unknown, not when it is false.
RunChecksUnknownFails(def, row) ==
    IF \E i \in DOMAIN def.checks : CheckEval(def.checks[i], def, row) = "U"
    THEN "check_violation" ELSE ""

RunChecks(def, row) ==
    IF \E i \in DOMAIN def.checks : CheckEval(def.checks[i], def, row) = "F"
    THEN "check_violation" ELSE ""

SaturatingInc(n) == IF n >= I64Max THEN I64Max ELSE n + 1

Engine(col) == col.rowversion \/ col.on_update_now

\* Mutant: an explicit key does not advance the sequence.
AdvanceNot(seq, v) == seq

\* build_row, with the sequence it advances.
Advance(seq, v) == IF Kind(v) = "i64" THEN Max({seq, SaturatingInc(Num(v))}) ELSE seq

FreshUuid(used) == <<"uuid", Min((1..(Cardinality(used) + 1)) \ {Num(v) : v \in used})>>

GeneratedCell(col, seq, now, used) ==
    CASE col.auto_increment -> I64(seq)
      [] col.rowversion -> I64(1)
      [] col.on_update_now -> <<"timestamp", now>>
      [] col.default = <<>> -> Null
      [] col.default = <<"now">> -> <<"timestamp", now>>
      [] col.default = <<"uuid_v7">> -> FreshUuid(used)
      [] OTHER -> col.default[2]

GivenCell(provided, name) ==
    provided[CHOOSE i \in DOMAIN provided : provided[i][1] = name][2]
RowCells(def, provided, given, seq, now, used) ==
    [i \in DOMAIN def.columns |->
        IF def.columns[i].name \in given THEN GivenCell(provided, def.columns[i].name)
        ELSE GeneratedCell(def.columns[i], seq, now, used)]

FirstErr(errs) == LET bad == SelectSeq(errs, LAMBDA e : e # "")
                  IN IF bad = <<>> THEN "" ELSE bad[1]

RowErr(def, provided, given, row) ==
    CASE \E n \in given : ColIndex(def, n) = 0 -> "unknown_column"
      [] \E n \in given : Engine(Column(def, n)) -> "engine_managed"
      [] Cardinality(given) # Len(provided) -> "duplicate_column"
      [] OTHER -> FirstErr([i \in DOMAIN row |-> CheckCellType(def, i, row[i])])

\* The sequence after the cell of the auto-increment column, if there is one.
NextSeq(def, given, seq, row) ==
    IF \A i \in DOMAIN row : ~def.columns[i].auto_increment THEN seq
    ELSE LET i == CHOOSE j \in DOMAIN row : def.columns[j].auto_increment
         IN IF def.columns[i].name \in given THEN Advance(seq, row[i]) ELSE SaturatingInc(seq)

BuiltRow(def, provided, given, seq, row) ==
    [err |-> RowErr(def, provided, given, row), row |-> row,
     seq |-> NextSeq(def, given, seq, row)]
BuildGiven(def, provided, given, seq, now, used) ==
    BuiltRow(def, provided, given, seq, RowCells(def, provided, given, seq, now, used))
BuildRow(def, provided, seq, now, used) ==
    BuildGiven(def, provided, {provided[i][1] : i \in DOMAIN provided}, seq, now, used)

\* Mutant: the engine-managed columns are left as they are.
BumpNothing(def, row, now) == row

\* transform_row: absolute sets, then the engine-managed columns.
BumpEngineColumns(def, row, now) ==
    [i \in DOMAIN row |->
        CASE def.columns[i].rowversion ->
                 IF row[i] = Null THEN I64(1) ELSE I64(SaturatingInc(Num(row[i])))
          [] def.columns[i].on_update_now -> <<"timestamp", now>>
          [] OTHER -> row[i]]

SetCellErr(def, i, v) ==
    CASE i = 0 -> "unknown_column"
      [] IsPk(def, i) -> "pk_immutable"
      [] Engine(def.columns[i]) -> "engine_managed"
      [] OTHER -> CheckCellType(def, i, v)
Transformed(def, err, row) ==
    IF err # "" THEN [err |-> err, row |-> <<>>]
    ELSE [err |-> RunChecks(def, row), row |-> row]
TransformRow(def, old, sets, now) ==
    Transformed(def,
        FirstErr([i \in DOMAIN sets |-> SetCellErr(def, ColIndex(def, sets[i][1]), sets[i][2])]),
        BumpEngineColumns(def,
            FoldLeft(LAMBDA row, s : [row EXCEPT ![ColIndex(def, s[1])] = s[2]], old, sets), now))

\* Write a row and move its index entries: insert (old = <<>>), update,
\* update_where and rewrite_row_indexed all end in this.
PutRow(t, pk, old, new) ==
    LET Moved(idx) == MoveEntry(t.idx[idx.name],
                          IF old = <<>> THEN <<>> ELSE EntryFor(t.def, idx, old, pk),
                          EntryFor(t.def, idx, new, pk), pk)
    IN [t EXCEPT !.rows = (pk :> new) @@ @,
                 !.idx = [n \in DOMAIN @ |-> Moved(t.def.indexes[IndexPos(t.def, n)])]]

DeleteRowIndexed(t, pk, row) ==
    [t EXCEPT !.rows = Restrict(@, DOMAIN @ \ {pk}),
              !.idx = [n \in DOMAIN @ |->
                          RemoveEntry(@[n], EntryFor(t.def, t.def.indexes[IndexPos(t.def, n)], row, pk))]]

-----------------------------------------------------------------------------
(* Foreign keys.  <<>> stands for "some column is NULL": not checked.      *)

KeyOrNone(vals) == IF Null \in Range(vals) THEN <<>> ELSE vals
FkValues(child, fk, row) == KeyOrNone(Cells(child, fk.columns, row))
ParentKeyOf(parent, fk, row) == KeyOrNone(Cells(parent, fk.parent_columns, row))

UniqueIndexOn(def, columns) ==
    {i \in DOMAIN def.indexes : def.indexes[i].unique /\ def.indexes[i].columns = columns}

\* The error of a reference to vals: none if a parent row has that key.
ParentKeyErr(d, fk, vals) ==
    LET parent == d[fk.parent]
        found == UniqueIndexOn(parent.def, fk.parent_columns)
    IN CASE parent.def.pk = fk.parent_columns ->
                IF vals \in DOMAIN parent.rows THEN "" ELSE "fk_violation"
         [] found = {} -> "lost_index"
         [] OTHER -> IF vals \in DOMAIN parent.idx[parent.def.indexes[Min(found)].name]
                     THEN "" ELSE "fk_violation"

CheckInsertFks(d, child, row, staged) ==
    FirstErr([i \in DOMAIN child.foreign_keys |->
        LET fk == child.foreign_keys[i]
            vals == FkValues(child, fk, row)
        IN IF \/ vals = <<>>
              \/ fk.parent = child.name /\ fk.parent_columns = child.pk /\ vals \in staged
           THEN "" ELSE ParentKeyErr(d, fk, vals)])

CheckUpdateFks(d, child, old, new) ==
    FirstErr([i \in DOMAIN child.foreign_keys |->
        LET fk == child.foreign_keys[i]
            vals == FkValues(child, fk, new)
        IN IF vals = <<>> \/ vals = FkValues(child, fk, old) THEN ""
           ELSE ParentKeyErr(d, fk, vals)])

\* scan_children: the primary keys of the rows of child that reference vals,
\* through the first index that starts with the referencing columns if any.
ScanChildren(t, fk, vals) ==
    LET usable == {i \in DOMAIN t.def.indexes : IsPrefix(fk.columns, t.def.indexes[i].columns)}
        tree == t.idx[t.def.indexes[Min(usable)].name]
        probed == SetToSortSeq(WithPrefix(tree, vals), KeyLess)
        pks == IF usable = {} THEN ScanKeys(t) ELSE [i \in DOMAIN probed |-> tree[probed[i]]]
    IN SelectSeq(pks, LAMBDA pk : pk \in DOMAIN t.rows
                                  /\ FkValues(t.def, fk, RowAt(t, pk)) = vals)

SetFkColumns(child, fk, row, vals) ==
    [i \in DOMAIN row |->
        IF child.columns[i].name \notin Range(fk.columns) THEN row[i]
        ELSE IF vals = <<>> THEN Null
        ELSE vals[CHOOSE j \in DOMAIN fk.columns : fk.columns[j] = child.columns[i].name]]
=============================================================================
