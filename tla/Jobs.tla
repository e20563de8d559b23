-------------------------------- MODULE Jobs --------------------------------
(***************************************************************************)
(* The catalog's write jobs: crates/catalog/src/job.rs.  A job runs alone  *)
(* in the writer and is applied as a whole or rejected as a whole.  Inside *)
(* it the checks read the committed state and the changes are made row by  *)
(* row in the order of the code.                                           *)
(***************************************************************************)
EXTENDS Rows

\* A job's result: the error, or "" and the new database, and the rows affected.
Rejected(d, err) == [err |-> err, db |-> d, affected |-> 0]
Committed(d, n) == [err |-> "", db |-> d, affected |-> n]
Ended(d, err, new, n) == IF err # "" THEN Rejected(d, err) ELSE Committed(new, n)

-----------------------------------------------------------------------------
(* The referential closure of a write.  An effect is a parent row that     *)
(* loses its key: deleted (new = <<>>) or rewritten.  A row is referred to *)
(* by its table and primary key.                                           *)

Effect(table, old, new) == [table |-> table, old |-> old, new |-> new]

\* The action of fk for an effect: "none" when the edge does not apply.
FkAction(d, fk, eff) ==
    LET key == ParentKeyOf(d[eff.table].def, fk, eff.old)
    IN IF fk.parent # eff.table \/ key = <<>> THEN "none"
       ELSE IF eff.new = <<>> THEN fk.on_delete
       ELSE IF ParentKeyOf(d[eff.table].def, fk, eff.new) = key THEN "none" ELSE fk.on_update

\* Every row that refers to the effect's old key, with the foreign key it does
\* it through, in the order of tables, foreign keys and the scan.
Edges(d, eff) ==
    LET Of(c, i) == LET fk == d[c].def.foreign_keys[i]
                        pks == IF FkAction(d, fk, eff) = "none" THEN <<>>
                               ELSE ScanChildren(d[c], fk, ParentKeyOf(d[eff.table].def, fk, eff.old))
                    IN [j \in DOMAIN pks |-> [child |-> c, fk |-> fk, pk |-> pks[j],
                                              action |-> FkAction(d, fk, eff)]]
        tables == Tables(d)
    IN FlattenSeq([k \in DOMAIN tables |->
           FlattenSeq([i \in DOMAIN d[tables[k]].def.foreign_keys |-> Of(tables[k], i)])])

\* One edge of the closure: delete the child, or rewrite its columns on top of
\* a rewrite that is already planned.
PlanEdge(d, plan, e, eff) ==
    LET ref == <<e.child, e.pk>>
        crow == RowAt(d[e.child], e.pk)
        planned == ref \in DOMAIN plan.rewrites
        vals == IF e.action = "cascade" THEN ParentKeyOf(d[eff.table].def, e.fk, eff.new) ELSE <<>>
        base == IF planned THEN plan.rewrites[ref][2] ELSE crow
        cnew == SetFkColumns(d[e.child].def, e.fk, base, vals)
    IN IF e.action = "restrict" \/ ref \in DOMAIN plan.deletes THEN plan
       ELSE IF e.action = "cascade" /\ eff.new = <<>>
       THEN [plan EXCEPT !.rewrites = Restrict(@, DOMAIN @ \ {ref}),
                         !.deletes = (ref :> crow) @@ @,
                         !.queue = Append(@, Effect(e.child, crow, <<>>))]
       ELSE [plan EXCEPT !.rewrites = (ref :> <<crow, cnew>>) @@ @,
                         !.queue = IF planned /\ base = cnew THEN @
                                   ELSE Append(@, Effect(e.child, crow, cnew))]

RECURSIVE PlanLoop(_, _)
PlanLoop(d, plan) ==
    IF plan.queue = <<>> THEN plan
    ELSE LET eff == Head(plan.queue)
             done == FoldLeft(LAMBDA p, e : PlanEdge(d, p, e, eff),
                              [plan EXCEPT !.queue = Tail(@)], Edges(d, eff))
         IN PlanLoop(d, [done EXCEPT !.effects = Append(@, eff)])

\* The closure before its first step.
SeedPlan(d, deletes, queue) ==
    [deletes |-> [ref \in deletes |-> RowAt(d[ref[1]], ref[2])], rewrites |-> <<>>,
     queue |-> queue, effects |-> <<>>]

\* Mutant: foreign keys have no effect.
PlanSeedsOnly(d, deletes, changes) == SeedPlan(d, deletes, <<>>)

\* plan_cascade.  Seeds: a set of references to delete, a sequence of changes.
PlanCascade(d, deletes, changes) ==
    LET seeds == SetToSortSeq(deletes, LAMBDA r, s : KeyLess(r[2], s[2]))
    IN PlanLoop(d, SeedPlan(d, deletes,
           [i \in DOMAIN seeds |->
               Effect(seeds[i][1], RowAt(d[seeds[i][1]], seeds[i][2]), <<>>)] \o changes))

\* check_cascade_restrict: a child that survives and still has the old key.
RestrictErr(d, plan) ==
    LET Holds(eff, e) ==
            LET ref == <<e.child, e.pk>>
                row == IF ref \in DOMAIN plan.rewrites THEN plan.rewrites[ref][2]
                       ELSE RowAt(d[e.child], e.pk)
            IN /\ e.action = "restrict" /\ ref \notin DOMAIN plan.deletes
               /\ FkValues(d[e.child].def, e.fk, row)
                      = ParentKeyOf(d[eff.table].def, e.fk, eff.old)
    IN IF \E i \in DOMAIN plan.effects :
              \E e \in Range(Edges(d, plan.effects[i])) : Holds(plan.effects[i], e)
       THEN "referenced_by_children" ELSE ""

\* validate_cascade_rewrites: CHECK, NOT NULL and the unique indexes over the
\* whole closure.
RewriteErr(d, plan) ==
    LET refs == DOMAIN plan.rewrites
        New(ref) == plan.rewrites[ref][2]
        Def(ref) == d[ref[1]].def
        Uniques(ref) == {i \in DOMAIN Def(ref).indexes : Def(ref).indexes[i].unique}
        Entry(ref, i, row) == EntryFor(Def(ref), Def(ref).indexes[i], row, ref[2])
        Moves(ref, i) == Entry(ref, i, plan.rewrites[ref][1]) # Entry(ref, i, New(ref))
        Gone(t, i) == {Entry(ref, i, plan.deletes[ref]) : ref \in {r \in DOMAIN plan.deletes : r[1] = t}}
                      \cup {Entry(ref, i, plan.rewrites[ref][1]) :
                               ref \in {r \in refs : r[1] = t /\ Moves(r, i)}}
        Clash(ref, i) ==
            LET key == Entry(ref, i, New(ref))
                t == ref[1]
            IN /\ Moves(ref, i) /\ key # <<>>
               /\ \/ key \in DOMAIN d[t].idx[Def(ref).indexes[i].name] /\ key \notin Gone(t, i)
                  \/ \E o \in refs \ {ref} : o[1] = t /\ Moves(o, i) /\ Entry(o, i, New(o)) = key
    IN CASE \E ref \in refs : RunChecks(Def(ref), New(ref)) # "" -> "check_violation"
         [] \E ref \in refs : \E c \in DOMAIN New(ref) :
                New(ref)[c] = Null /\ ~IsNullable(Def(ref), c) -> "not_null"
         [] \E ref \in refs : \E i \in Uniques(ref) : Clash(ref, i) -> "unique_violation"
         [] OTHER -> ""

ClosureErr(d, plan) == FirstErr(<<RestrictErr(d, plan), RewriteErr(d, plan)>>)

RefLess(r, s) == r[1] < s[1] \/ (r[1] = s[1] /\ KeyLess(r[2], s[2]))

\* apply_cascade, onto the state x the job has already written to.
ApplyCascade(x, plan) ==
    LET del == FoldLeft(LAMBDA y, r : [y EXCEPT ![r[1]] = DeleteRowIndexed(@, r[2], plan.deletes[r])],
                        x, SetToSortSeq(DOMAIN plan.deletes, RefLess))
    IN FoldLeft(LAMBDA y, r : [y EXCEPT ![r[1]] =
                    PutRow(@, r[2], plan.rewrites[r][1], plan.rewrites[r][2])],
                del, SetToSortSeq(DOMAIN plan.rewrites, RefLess))

-----------------------------------------------------------------------------
(* Schema changes.                                                         *)

\* validate_fks; a key that refers to its own table is checked against def.
ValidateFks(d, def) ==
    FirstErr([i \in DOMAIN def.foreign_keys |->
        LET fk == def.foreign_keys[i]
            known == fk.parent = def.name \/ fk.parent \in DOMAIN d
            parent == IF fk.parent = def.name THEN def ELSE d[fk.parent].def
            moves == fk.on_update = "cascade" /\ Range(fk.columns) \cap Range(def.pk) # {}
            SameKind(j) == /\ ColIndex(parent, fk.parent_columns[j]) # 0
                           /\ Column(def, fk.columns[j]).kind = Column(parent, fk.parent_columns[j]).kind
        IN IF /\ ~moves /\ known
              /\ parent.pk = fk.parent_columns \/ UniqueIndexOn(parent, fk.parent_columns) # {}
              /\ \A j \in DOMAIN fk.columns : SameKind(j)
           THEN "" ELSE "invalid_schema"])

CreateTableJob(d, given) ==
    LET def == MaterializeImplicitIndexes(given)
    IN CASE ~TableDefValid(def) -> Rejected(d, "invalid_schema")
         [] ValidateFks(d, def) # "" -> Rejected(d, ValidateFks(d, def))
         [] def.name \in DOMAIN d -> Rejected(d, "table_exists")
         [] OTHER -> Committed((def.name :> NewTable(def)) @@ d, 0)

\* Mutant: a table that others refer to can be dropped.
DropTableUnchecked(d, t) ==
    IF t \notin DOMAIN d THEN Rejected(d, "unknown_table")
    ELSE Committed(Restrict(d, DOMAIN d \ {t}), 0)

DropTableJob(d, t) ==
    LET referrers == {o \in DOMAIN d \ {t} :
                         \E i \in DOMAIN d[o].def.foreign_keys : d[o].def.foreign_keys[i].parent = t}
    IN CASE t \notin DOMAIN d -> Rejected(d, "unknown_table")
         [] referrers # {} -> Rejected(d, "table_referenced")
         [] OTHER -> Committed(Restrict(d, DOMAIN d \ {t}), 0)

\* compute_backfill: the entries of a new index over the rows.
BackfillDuplicate(def, t, idx) ==
    idx.unique /\ \E p, q \in DOMAIN t.rows :
        /\ p # q
        /\ EntryFor(def, idx, DecodePadded(def, t.rows[p]), p) # <<>>
        /\ EntryFor(def, idx, DecodePadded(def, t.rows[p]), p)
               = EntryFor(def, idx, DecodePadded(def, t.rows[q]), q)

ComputeBackfill(def, t, idx) ==
    FoldLeft(LAMBDA tree, pk : MoveEntry(tree, <<>>, EntryFor(def, idx, DecodePadded(def, t.rows[pk]), pk), pk),
             <<>>, ScanKeys(t))

\* Store a changed definition and build the indexes it has gained.
Redefine(d, t, def) ==
    LET known == DOMAIN d[t].idx
        gained == {i \in DOMAIN def.indexes : def.indexes[i].name \notin known}
        Of(n) == def.indexes[IndexPos(def, n)]
    IN CASE ~TableDefValid(def) -> Rejected(d, "invalid_schema")
         [] \E i \in gained : BackfillDuplicate(def, d[t], def.indexes[i]) ->
                Rejected(d, "unique_violation")
         [] OTHER -> Committed([d EXCEPT ![t].def = def,
                         ![t].idx = [n \in Names(def.indexes) |->
                             IF n \in known THEN @[n] ELSE ComputeBackfill(def, d[t], Of(n))]], 0)

AddColumnJob(d, t, col) ==
    CASE t \notin DOMAIN d -> Rejected(d, "unknown_table")
      [] col.name \in Names(d[t].def.columns) -> Rejected(d, "invalid_schema")
      [] ~(col.nullable \/ HasDefaultValue(col)) -> Rejected(d, "invalid_schema")
      [] OTHER -> Redefine(d, t, MaterializeImplicitIndexes(
                                     [d[t].def EXCEPT !.columns = Append(@, col)]))

CreateIndexJob(d, t, idx) ==
    CASE t \notin DOMAIN d -> Rejected(d, "unknown_table")
      [] idx.name \in Names(d[t].def.indexes) -> Rejected(d, "index_exists")
      [] OTHER -> Redefine(d, t, [d[t].def EXCEPT !.indexes = Append(@, idx)])

\* Mutant: the tree of a dropped index stays.
DropIndexKeepsTree(d, t, name) ==
    Committed([d EXCEPT ![t].def.indexes = RemoveAt(@, IndexPos(d[t].def, name))], 0)

DropIndexJob(d, t, name) ==
    LET def == d[t].def
        pos == IndexPos(def, name)
    IN CASE t \notin DOMAIN d -> Rejected(d, "unknown_table")
         [] name \notin Names(def.indexes) -> Rejected(d, "unknown_index")
         [] BacksUniqueColumn(def, def.indexes[pos]) -> Rejected(d, "invalid_schema")
         [] OTHER -> Committed([d EXCEPT ![t].def.indexes = RemoveAt(@, pos),
                                         ![t].idx = Restrict(@, DOMAIN @ \ {name})], 0)

-----------------------------------------------------------------------------
(* Row changes.                                                            *)

UuidsOf(rows) == {v \in UNION {Range(r) : r \in rows} : Kind(v) = "uuid"}

\* One row of an insert: built and checked against the committed state and the
\* rows staged before it.
Taken(d, t, staged, idx, key) ==
    /\ idx.unique /\ key # <<>>
    /\ \/ key \in DOMAIN d[t].idx[idx.name]
       \/ \E s \in Range(staged) : EntryFor(d[t].def, idx, s[2], s[1]) = key

StageErr(d, t, acc, pk, row) ==
    FirstErr(<<RunChecks(d[t].def, row),
               CheckInsertFks(d, d[t].def, row, {s[1] : s \in Range(acc.staged)}),
               IF pk \in {s[1] : s \in Range(acc.staged)} \cup DOMAIN d[t].rows
               THEN "duplicate_key" ELSE "",
               IF \E idx \in Range(d[t].def.indexes) :
                      Taken(d, t, acc.staged, idx, EntryFor(d[t].def, idx, row, pk))
               THEN "unique_violation" ELSE "">>)

Stage(d, t, acc, pk, built) ==
    [err |-> StageErr(d, t, acc, pk, built.row), seq |-> built.seq,
     staged |-> Append(acc.staged, <<pk, built.row>>)]
StageBuilt(d, t, acc, built) ==
    IF built.err # "" THEN [acc EXCEPT !.err = built.err]
    ELSE Stage(d, t, acc, PkKeyOf(d[t].def, built.row), built)
StageRow(d, t, acc, provided, now) ==
    IF acc.err # "" THEN acc
    ELSE StageBuilt(d, t, acc,
             BuildRow(d[t].def, provided, acc.seq, now,
                      UuidsOf(Range(d[t].rows) \cup {s[2] : s \in Range(acc.staged)})))

InsertStaged(d, t, acc) ==
    Ended(d, acc.err,
          [d EXCEPT ![t] = FoldLeft(LAMBDA tab, s : PutRow(tab, s[1], <<>>, s[2]),
                                    [@ EXCEPT !.seq = acc.seq], acc.staged)],
          Len(acc.staged))
InsertJob(d, t, input, now) ==
    IF t \notin DOMAIN d THEN Rejected(d, "unknown_table")
    ELSE InsertStaged(d, t, FoldLeft(LAMBDA a, row : StageRow(d, t, a, row, now),
                                     [err |-> "", seq |-> d[t].seq, staged |-> <<>>], input))

HasUnique(def) == \E i \in DOMAIN def.indexes : def.indexes[i].unique

\* The closure of changed parent rows; only a table with a unique index has one.
ChangePlan(d, t, changes) ==
    IF HasUnique(d[t].def) THEN PlanCascade(d, {}, changes) ELSE SeedPlan(d, {}, <<>>)

\* The last part of a job: the checks of the closure, those that follow them, and
\* its writes on top of x.
WriteClosed(d, x, plan, err, n) ==
    Ended(d, FirstErr(<<ClosureErr(d, plan), err>>), ApplyCascade(x, plan), n)

UpdateClash(d, t, idx, old, new) ==
    idx.unique /\ new \notin {<<>>, old} /\ new \in DOMAIN d[t].idx[idx.name]
UpdateTo(d, t, pk, old, new) ==
    WriteClosed(d, [d EXCEPT ![t] = PutRow(@, pk, old, new)],
                ChangePlan(d, t, <<Effect(t, old, new)>>),
                IF \E idx \in Range(d[t].def.indexes) :
                       UpdateClash(d, t, idx, EntryFor(d[t].def, idx, old, pk),
                                              EntryFor(d[t].def, idx, new, pk))
                THEN "unique_violation" ELSE "", 1)
UpdateRow(d, t, pk, old, tr) ==
    CASE tr.err # "" -> Rejected(d, tr.err)
      [] CheckUpdateFks(d, d[t].def, old, tr.row) # "" ->
             Rejected(d, CheckUpdateFks(d, d[t].def, old, tr.row))
      [] OTHER -> UpdateTo(d, t, pk, old, tr.row)
UpdateJob(d, t, pk, sets, now) ==
    CASE t \notin DOMAIN d -> Rejected(d, "unknown_table")
      [] EncodePk(d[t].def, pk) # "" -> Rejected(d, EncodePk(d[t].def, pk))
      [] pk \notin DOMAIN d[t].rows -> Rejected(d, "row_not_found")
      [] OTHER -> UpdateRow(d, t, pk, RowAt(d[t], pk),
                            TransformRow(d[t].def, RowAt(d[t], pk), sets, now))

DeleteRefs(d, refs) == WriteClosed(d, d, PlanCascade(d, refs, <<>>), "", Cardinality(refs))

DeleteJob(d, t, pk) ==
    CASE t \notin DOMAIN d -> Rejected(d, "unknown_table")
      [] EncodePk(d[t].def, pk) # "" -> Rejected(d, EncodePk(d[t].def, pk))
      [] pk \notin DOMAIN d[t].rows -> Committed(d, 0)
      [] OTHER -> DeleteRefs(d, {<<t, pk>>})

\* The selector and the set expressions of a write, evaluated in the writer against
\* a row as it is then.  A selector is absent (<<>>), <<"all">> or <<"where", e>>.
SelectorMatches(selector, def, row) ==
    CASE selector = <<>> -> Boolean(FALSE)
      [] selector[1] = "all" -> True
      [] OTHER -> Eval(selector[2], row, SlotsOf(def, def.name))

NewValues(def, row, sets) ==
    [i \in DOMAIN sets |-> <<sets[i][1], Eval(sets[i][2], row, SlotsOf(def, def.name))>>]

TransformTo(def, row, new, failed, now) ==
    IF failed # <<>> THEN [err |-> failed[1][2], row |-> row] ELSE TransformRow(def, row, new, now)
TransformBySets(def, row, new, now) ==
    TransformTo(def, row, new, FirstError([i \in DOMAIN new |-> new[i][2]]), now)
TransformByPolicy(def, row, policy, now) ==
    TransformBySets(def, row, NewValues(def, row, policy.sets), now)

\* The rows a selector picks, in the order of the scan, and the error of the first
\* row it fails on.
Picked(keys, verdicts) ==
    [failed |-> FirstError(verdicts), pks |-> PickAt(keys, {i \in DOMAIN keys : verdicts[i] = True})]
PickedOf(t, selector, keys) ==
    Picked(keys, [i \in DOMAIN keys |-> SelectorMatches(selector, t.def, RowAt(t, keys[i]))])
Selected(t, selector) == PickedOf(t, selector, ScanKeys(t))

\* update_where writes a sequence of changes: a row before and after.
Change(pk, old, tr) == [pk |-> pk, old |-> old, new |-> tr.row, err |-> tr.err]
ChangeErr(d, t, c) == IF c.err # "" THEN c.err ELSE CheckUpdateFks(d, d[t].def, c.old, c.new)

\* A change of a unique key clashes with another change or with a row that keeps it.
MovedKeys(def, idx, changes) ==
    SelectSeq([i \in DOMAIN changes |->
                  <<EntryFor(def, idx, changes[i].old, changes[i].pk),
                    EntryFor(def, idx, changes[i].new, changes[i].pk)>>],
              LAMBDA m : m[1] # m[2])
MovesClash(tree, moves) ==
    \E i \in DOMAIN moves :
        /\ moves[i][2] # <<>>
        /\ \/ \E j \in DOMAIN moves \ {i} : moves[j][2] = moves[i][2]
           \/ /\ moves[i][2] \in DOMAIN tree
              /\ \A j \in DOMAIN moves : moves[j][1] # moves[i][2]

WriteChanges(d, t, changes) ==
    IF \E idx \in Range(d[t].def.indexes) :
           idx.unique /\ MovesClash(d[t].idx[idx.name], MovedKeys(d[t].def, idx, changes))
    THEN Rejected(d, "unique_violation")
    ELSE WriteClosed(d, [d EXCEPT ![t] = FoldLeft(LAMBDA tab, c : PutRow(tab, c.pk, c.old, c.new),
                                                  @, changes)],
                     ChangePlan(d, t, [i \in DOMAIN changes |->
                                          Effect(t, changes[i].old, changes[i].new)]),
                     "", Len(changes))
CheckChanges(d, t, err, changes) ==
    IF err # "" THEN Rejected(d, err) ELSE WriteChanges(d, t, changes)
UpdateChanges(d, t, changes) ==
    CheckChanges(d, t, FirstErr([i \in DOMAIN changes |-> ChangeErr(d, t, changes[i])]), changes)
UpdateSelected(d, t, policy, sel, now) ==
    IF sel.failed # <<>> THEN Rejected(d, sel.failed[1][2])
    ELSE UpdateChanges(d, t, [i \in DOMAIN sel.pks |->
             Change(sel.pks[i], RowAt(d[t], sel.pks[i]),
                    TransformByPolicy(d[t].def, RowAt(d[t], sel.pks[i]), policy, now))])
UpdateWhereJob(d, t, policy, now) ==
    IF t \notin DOMAIN d THEN Rejected(d, "unknown_table")
    ELSE UpdateSelected(d, t, policy, Selected(d[t], policy.selector), now)

DeleteSelected(d, t, sel) ==
    IF sel.failed # <<>> THEN Rejected(d, sel.failed[1][2])
    ELSE DeleteRefs(d, {<<t, pk>> : pk \in Range(sel.pks)})
DeleteWhereJob(d, t, selector) ==
    IF t \notin DOMAIN d THEN Rejected(d, "unknown_table")
    ELSE DeleteSelected(d, t, Selected(d[t], selector))

\* A batch: every write sees the ones before it, one failure rejects them all.
SpecJob(d, spec, now) ==
    CASE spec[1] = "insert" -> InsertJob(d, spec[2], spec[3], now)
      [] spec[1] = "update" -> UpdateWhereJob(d, spec[2], spec[3], now)
      [] spec[1] = "delete" -> DeleteWhereJob(d, spec[2], spec[3])

Also(acc, r) == [r EXCEPT !.affected = acc.affected + @]
Whole(d, all) == IF all.err # "" THEN Rejected(d, all.err) ELSE all
BatchJob(d, specs, now) ==
    Whole(d, FoldLeft(LAMBDA acc, spec : IF acc.err # "" THEN acc
                                         ELSE Also(acc, SpecJob(acc.db, spec, now)),
                      Committed(d, 0), specs))
=============================================================================
