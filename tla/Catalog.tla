------------------------------ MODULE Catalog ------------------------------
(***************************************************************************)
(* The catalog: the database it keeps in one tree and the jobs its clients *)
(* submit (crates/catalog/src/db.rs).  The writer runs one job at a time,  *)
(* so a job is one step.                                                   *)
(***************************************************************************)
EXTENDS Jobs

CONSTANTS
    Times,      \* the clock readings a job may see
    Defs,       \* table definitions a client may create
    AddColumns, \* columns it may add: pairs <<table, column>>
    NewIndexes, \* indexes it may create: pairs <<table, index>>
    Inserts,    \* pairs <<table, sequence of rows of <<column, value>> pairs>>
    Updates,    \* triples <<table, primary key, sequence of <<column, value>>>>
    Policies,   \* conditional updates: pairs <<table, policy>>
    Filters,    \* conditional deletes: pairs <<table, filter>>
    Batches     \* sequences of write specs <<op, table, argument>>

ASSUME TimesAssumption == Times \subseteq Nat

VARIABLE db

-----------------------------------------------------------------------------
(* The writer.  A rejected job leaves the database as it is.               *)

Init == db = <<>>

CreateTable == \E def \in Defs : db' = CreateTableJob(db, def).db
DropTable == \E t \in DOMAIN db : db' = DropTableJob(db, t).db
AddColumn == \E c \in AddColumns : db' = AddColumnJob(db, c[1], c[2]).db
CreateIndex == \E i \in NewIndexes : db' = CreateIndexJob(db, i[1], i[2]).db
DropIndex == \E t \in DOMAIN db : \E i \in DOMAIN db[t].def.indexes :
                 db' = DropIndexJob(db, t, db[t].def.indexes[i].name).db
Insert == \E i \in Inserts, now \in Times : db' = InsertJob(db, i[1], i[2], now).db
Update == \E u \in Updates, now \in Times : db' = UpdateJob(db, u[1], u[2], u[3], now).db
Delete == \E t \in DOMAIN db : \E pk \in DOMAIN db[t].rows : db' = DeleteJob(db, t, pk).db
UpdateWhere == \E p \in Policies, now \in Times : db' = UpdateWhereJob(db, p[1], p[2], now).db
DeleteWhere == \E f \in Filters : db' = DeleteWhereJob(db, f[1], f[2]).db
Batch == \E b \in Batches, now \in Times : db' = BatchJob(db, b, now).db

Next ==
    \/ CreateTable \/ DropTable \/ AddColumn \/ CreateIndex \/ DropIndex
    \/ Insert \/ Update \/ Delete \/ UpdateWhere \/ DeleteWhere \/ Batch

Spec == Init /\ [][Next]_db

-----------------------------------------------------------------------------
(* Properties.                                                             *)

\* Every table has a valid definition, one tree per index and a sequence in range.
TypeOK ==
    \A t \in DOMAIN db :
        /\ db[t].def.name = t /\ TableDefValid(db[t].def)
        /\ DOMAIN db[t].idx = Names(db[t].def.indexes)
        /\ db[t].seq \in 1..I64Max

\* The entries of an index are those of the rows, no more and no less.
IndexInSync(t, idx) ==
    LET keyed == {pk \in DOMAIN t.rows : EntryFor(t.def, idx, RowAt(t, pk), pk) # <<>>}
        expected == {<<EntryFor(t.def, idx, RowAt(t, pk), pk), pk>> : pk \in keyed}
    IN expected = {<<key, t.idx[idx.name][key]>> : key \in DOMAIN t.idx[idx.name]}

\* Snapshot::validate: every index holds exactly the entries of the rows of its
\* table, so base and indexes are never out of sync (job.rs:6-8).
IndexesInSync ==
    \A t \in DOMAIN db : \A i \in DOMAIN db[t].def.indexes : IndexInSync(db[t], db[t].def.indexes[i])

\* Every stored row, read under the current definition, satisfies it: the types,
\* NOT NULL, no CHECK that is false, and the key it is stored under.
RowsSatisfySchema ==
    \A t \in DOMAIN db : \A pk \in DOMAIN db[t].rows :
        LET def == db[t].def
            row == RowAt(db[t], pk)
        IN /\ \A i \in DOMAIN row : IF row[i] = Null THEN IsNullable(def, i)
                                     ELSE Kind(row[i]) = def.columns[i].kind
           /\ \A i \in DOMAIN def.checks : CheckEval(def.checks[i], def, row) # "F"
           /\ PkKeyOf(def, row) = pk

\* No two rows share a value of a unique column, NULL apart: the implicit index
\* always enforces the constraint (schema.rs:639-641).
UniqueColumnsHold ==
    \A t \in DOMAIN db : \A c \in DOMAIN db[t].def.columns :
        db[t].def.columns[c].unique =>
            \A p, q \in DOMAIN db[t].rows :
                p # q => \/ RowAt(db[t], p)[c] # RowAt(db[t], q)[c]
                         \/ RowAt(db[t], p)[c] = Null

\* Every reference without a NULL has a parent row with that key.
ReferencesResolve ==
    \A t \in DOMAIN db : \A i \in DOMAIN db[t].def.foreign_keys :
        LET fk == db[t].def.foreign_keys[i]
            parent == db[fk.parent]
            keys == {ParentKeyOf(parent.def, fk, RowAt(parent, q)) : q \in DOMAIN parent.rows}
        IN fk.parent \in DOMAIN db => \A pk \in DOMAIN db[t].rows :
               FkValues(db[t].def, fk, RowAt(db[t], pk)) \in keys \cup {<<>>}

\* A foreign key refers to its parent's primary key or to a unique index of it,
\* as long as both tables exist (schema.rs:346-347).
ForeignKeysIndexed ==
    \A t \in DOMAIN db : \A i \in DOMAIN db[t].def.foreign_keys :
        LET fk == db[t].def.foreign_keys[i]
        IN /\ fk.parent \in DOMAIN db
           /\ \/ db[fk.parent].def.pk = fk.parent_columns
              \/ UniqueIndexOn(db[fk.parent].def, fk.parent_columns) # {}

\* The next generated key is above every key of the auto-increment column, until
\* the sequence reaches the largest i64 and stays there (job.rs:1623-1626).
SequenceAhead ==
    \A t \in DOMAIN db : \A c \in DOMAIN db[t].def.columns :
        db[t].def.columns[c].auto_increment =>
            \A pk \in DOMAIN db[t].rows :
                db[t].seq = I64Max \/ Num(RowAt(db[t], pk)[c]) < db[t].seq

\* A step that changes a row of a table with a rowversion column raises its
\* version, unless it is at the largest i64 already (SPEC.md:85: "engine
\* auto-increments it on every write to the row").
RowVersionsMove ==
    [][\A t \in DOMAIN db \cap DOMAIN db' : \A c \in DOMAIN db[t].def.columns :
          db[t].def.columns[c].rowversion =>
              \A pk \in DOMAIN db[t].rows \cap DOMAIN db'[t].rows :
                  \/ db'[t].rows[pk] = db[t].rows[pk]
                  \/ Num(db[t].rows[pk][c]) = I64Max
                  \/ Num(db'[t].rows[pk][c]) > Num(db[t].rows[pk][c])]_db
=============================================================================
