------------------------------ MODULE Requests ------------------------------
(***************************************************************************)
(* Clients of the engine: execute_query of crates/query/src/engine.rs,     *)
(* write validation (validate.rs) and the write path (write.rs).  A        *)
(* request is validated against a snapshot; a write then runs in the       *)
(* writer, against the database of that moment.  A read uses the snapshot  *)
(* it was validated against and is one step.                               *)
(***************************************************************************)
EXTENDS Jobs, Exec

CONSTANTS
    Clients,
    Program(_, _, _),   \* what a client may send, from its last reply and its acknowledged writes
    Start,              \* the database at the start
    Defs,               \* table definitions that may be created
    AddColumns,         \* columns that may be added: pairs <<table, column>>
    Now,                \* the clock
    MaxRows, MaxJoins   \* ResourceLimits

ASSUME NowAssumption == Now \in Nat

\* A write names what its client means by it: intent, a sequence of <<"add", key, n>>,
\* <<"put", key, n>> and <<"drop", key>>.  The engine does not see it.
InsertOf(t, rows, intent) == [op |-> "insert", table |-> t, rows |-> rows, intent |-> intent]
UpdateOf(t, selector, sets, unconditional, intent) ==
    [op |-> "update", table |-> t, selector |-> selector, sets |-> sets,
     unconditional |-> unconditional, intent |-> intent]
DeleteOf(t, selector, intent) == [op |-> "delete", table |-> t, selector |-> selector, intent |-> intent]
TransactionOf(ops, intent) == [op |-> "transaction", ops |-> ops, intent |-> intent]
SelectOf(select) == [op |-> "select", select |-> select]
NoRequest == [op |-> "none"]

VARIABLES
    db,         \* the committed database
    req,        \* by client, the validated write on its way to the writer
    reply,      \* by client, the last reply
    acks,       \* by client, its acknowledged writes
    ledger      \* what the acknowledged writes mean: a number by key

vars == <<db, req, reply, acks, ledger>>

-----------------------------------------------------------------------------
(* validate: "" or the error.                                              *)

SelectorOk(def, selector) ==
    selector[1] = "where" => PredicateOk(selector[2], SlotsOf(def, def.name))

GuardsColumn(e, def) ==
    /\ e.k = "col" /\ e.q \in {0, def.name}
    /\ \E col \in Range(def.columns) : col.name = e.c /\ (col.guarded \/ col.rowversion)

RECURSIVE HasGuardPredicate(_, _)
HasGuardPredicate(pred, def) ==
    CASE pred.k = "and" -> \E p \in Range(pred.args) : HasGuardPredicate(p, def)
      [] pred.k = "cmp" -> \E p \in Range(pred.args) : GuardsColumn(p, def)
      [] pred.k \in {"between", "in"} -> GuardsColumn(pred.args[1], def)
      [] OTHER -> FALSE

\* Mutant: any assignment to a guarded column is let through.
MayWriteAny(r, def, set) == TRUE

\* A guarded column takes a relative expression or a guarded statement.
MayWrite(r, def, set) ==
    Column(def, set[1]).guarded =>
        /\ ~r.unconditional
        /\ \/ ColumnRefs(set[2]) # {}
           \/ r.selector[1] = "where" /\ HasGuardPredicate(r.selector[2], def)

SetErr(r, def, set) ==
    LET i == ColIndex(def, set[1])
        kind == CheckExpr(set[2], SlotsOf(def, def.name)).kind
    IN CASE i = 0 -> "unknown_column"
         [] IsPk(def, i) -> "pk_immutable"
         [] Engine(def.columns[i]) -> "engine_managed"
         [] kind \notin {"null", def.columns[i].kind} -> "type_mismatch"
         [] ~MayWrite(r, def, set) -> "guarded_blind_set"
         [] OTHER -> ""

ValidateInsert(def, r) ==
    LET named == UNION {{row[i][1] : i \in DOMAIN row} : row \in Range(r.rows)}
    IN CASE \E n \in named : ColIndex(def, n) = 0 -> "unknown_column"
         [] \E n \in named : Engine(Column(def, n)) -> "engine_managed"
         [] OTHER -> ""

ValidateSelector(def, r) ==
    CASE r.selector = <<>> -> "missing_selector"
      [] ~SelectorOk(def, r.selector) -> "bad_predicate"
      [] OTHER -> ""

ValidateUpdate(def, r) ==
    FirstErr(<<ValidateSelector(def, r)>> \o [i \in DOMAIN r.sets |-> SetErr(r, def, r.sets[i])])

RECURSIVE ValidateErr(_, _)
ValidateErr(d, r) ==
    CASE r.op = "select" -> IF CheckPlan(d, Lower(r.select)) = BadSlots THEN "bad_select" ELSE ""
      [] r.op = "transaction" -> FirstErr([i \in DOMAIN r.ops |-> ValidateErr(d, r.ops[i])])
      [] r.table \notin DOMAIN d -> "unknown_table"
      [] r.op = "insert" -> ValidateInsert(d[r.table].def, r)
      [] r.op = "update" -> ValidateUpdate(d[r.table].def, r)
      [] r.op = "delete" -> ValidateSelector(d[r.table].def, r)

-----------------------------------------------------------------------------
(* Replies.                                                                *)

Reply(err, rows, applied, affected) ==
    [err |-> err, rows |-> rows, applied |-> applied, affected |-> affected]
NoReply == Reply("", <<>>, <<>>, 0)
ErrReply(err) == Reply(err, <<>>, <<>>, 0)

\* write_spec: the catalog's form of a write; <<>> for any other request.
WriteSpec(r) ==
    CASE r.op = "insert" -> <<"insert", r.table, r.rows>>
      [] r.op = "update" -> <<"update", r.table, [selector |-> r.selector, sets |-> r.sets]>>
      [] r.op = "delete" -> <<"delete", r.table, r.selector>>
      [] OTHER -> <<>>

\* Whether a conditional write took effect.
Applied(res) == res.affected > 0

WriteReply(r, res) ==
    IF res.err # "" THEN ErrReply(res.err)
    ELSE Reply("", <<>>, IF r.op \in {"update", "delete"} THEN <<Applied(res)>> ELSE <<>>, res.affected)

RunSpecs(d, specs) ==
    IF <<>> \in Range(specs) THEN Rejected(d, "unsupported") ELSE BatchJob(d, specs, Now)
RunTransaction(d, r) == RunSpecs(d, [i \in DOMAIN r.ops |-> WriteSpec(r.ops[i])])

\* Mutant: a select reads an old snapshot.
RunSelectStale(d, r) == Reply("", ExecutePage(Start, Lower(r.select), MaxRows, MaxJoins).rows, <<>>, 0)

PageReply(page) == IF page.err # "" THEN ErrReply(page.err) ELSE Reply("", page.rows, <<>>, 0)
RunSelect(d, r) ==
    PageReply(ExecutePage(d, Optimize(d, Lower(r.select)), MaxRows, MaxJoins))

Mean(m, change) ==
    CASE change[1] = "put" -> (change[2] :> change[3]) @@ m
      [] change[1] = "drop" -> Restrict(m, DOMAIN m \ {change[2]})
      [] OTHER -> [m EXCEPT ![change[2]] = @ + change[3]]

-----------------------------------------------------------------------------
(* The clients, the writer and schema changes.                             *)

Sent(c) == IF req[c] = NoRequest THEN Program(c, reply[c], acks[c]) ELSE {}

Init ==
    /\ db = Start
    /\ req = [c \in Clients |-> NoRequest]
    /\ reply = [c \in Clients |-> NoReply]
    /\ acks = [c \in Clients |-> 0]
    /\ ledger = [key \in {RowAt(Start[1], pk)[1] : pk \in DOMAIN Start[1].rows} |->
                    Num(RowAt(Start[1], <<key>>)[2])]

Refuse(c, err) ==
    /\ err # ""
    /\ reply' = [reply EXCEPT ![c] = ErrReply(err)]
    /\ UNCHANGED <<db, req, acks, ledger>>

Read(c, r, err) ==
    /\ err = "" /\ r.op = "select"
    /\ reply' = [reply EXCEPT ![c] = RunSelect(db, r)]
    /\ UNCHANGED <<db, req, acks, ledger>>

Accept(c, r, err) ==
    /\ err = "" /\ r.op # "select"
    /\ req' = [req EXCEPT ![c] = r]
    /\ UNCHANGED <<db, reply, acks, ledger>>

Send(c) ==
    \E r \in Sent(c) : \E err \in {ValidateErr(db, r)} :
        Refuse(c, err) \/ Read(c, r, err) \/ Accept(c, r, err)

\* The writer runs a client's job and answers it.
Acknowledged(rep) == rep.err = "" /\ rep.applied # <<FALSE>>
Note(c, rep) ==
    /\ reply' = [reply EXCEPT ![c] = rep]
    /\ acks' = IF Acknowledged(rep) THEN [acks EXCEPT ![c] = @ + 1] ELSE acks
    /\ ledger' = IF Acknowledged(rep) THEN FoldLeft(Mean, ledger, req[c].intent) ELSE ledger
Answer(c, res) ==
    /\ db' = res.db
    /\ req' = [req EXCEPT ![c] = NoRequest]
    /\ Note(c, WriteReply(req[c], res))

Write(c) ==
    /\ req[c].op \in {"insert", "update", "delete"}
    /\ \E res \in {SpecJob(db, WriteSpec(req[c]), Now)} : Answer(c, res)

Transact(c) ==
    /\ req[c].op = "transaction"
    /\ \E res \in {RunTransaction(db, req[c])} : Answer(c, res)

Schema(res) ==
    /\ res.err = ""
    /\ db' = res.db
    /\ UNCHANGED <<req, reply, acks, ledger>>

CreateTable == \E def \in Defs : Schema(CreateTableJob(db, def))
DropTable == \E def \in Defs : Schema(DropTableJob(db, def.name))
AddColumn == \E col \in AddColumns : Schema(AddColumnJob(db, col[1], col[2]))

Step(c) == Send(c) \/ Write(c) \/ Transact(c)

Next == (\E c \in Clients : Step(c)) \/ CreateTable \/ DropTable \/ AddColumn

Spec == Init /\ [][Next]_vars

\* A client goes on to its next request, and the writer runs every job it is given:
\* weak fairness of Step(c), with the condition that enables it written out.
Waiting(c) == Sent(c) # {} \/ req[c] # NoRequest
FairSpec == Spec /\ \A c \in Clients : []<>~Waiting(c) \/ []<><<Step(c)>>_vars

-----------------------------------------------------------------------------
(* Properties.                                                             *)

\* No update is lost and no transaction is applied in part (SPEC.md 6.3, 6.4 and 7):
\* the rows of table 1, key and number, are what the acknowledged writes add up to,
\* however the reads, the validations and the jobs of the clients interleave.
AcknowledgedAddsUp ==
    1 \in DOMAIN db =>
        {<<k, I64(ledger[k])>> : k \in DOMAIN ledger}
            = {<<pk[1], RowAt(db[1], pk)[2]>> : pk \in DOMAIN db[1].rows}

\* First committer wins: a client that reads again and retries when its write was not
\* applied gets its writes through, whatever the others do (SPEC.md:247-248).
ClientsFinish == <>(\A c \in Clients : ~Waiting(c))
=============================================================================
