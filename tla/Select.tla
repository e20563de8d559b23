------------------------------- MODULE Select -------------------------------
(***************************************************************************)
(* One select request on a pinned snapshot: validate, plan and execute     *)
(* (execute_query and run_select of crates/query/src/engine.rs), and the   *)
(* two ways to walk through its result in pages while the writer commits:  *)
(* a cursor that owns its snapshot (crates/edb/src/cursor.rs), and requests *)
(* that carry the token of the page before, each on a snapshot of its own. *)
(***************************************************************************)
EXTENDS Exec

CONSTANTS
    Databases,      \* the snapshots
    Selects,        \* the requests
    MaxRows,        \* ResourceLimits::max_rows
    MaxJoins,       \* ResourceLimits::max_joins
    Walks,          \* the clauses that are walked: they sort by a unique key
    PageSize,       \* rows per page of a walk
    Later,          \* what the writer may commit during a walk
    MaxCommits      \* bound: commits during a walk

ASSUME LimitsAssumption == MaxRows \in Nat /\ MaxJoins \in Nat /\ PageSize \in Nat \ {0}

VARIABLES
    snap,       \* the pinned database
    select,     \* the request
    phase,      \* "validate", "plan", "execute", "done", "rejected" or "walk"
    output,     \* the output schema of the validated request
    physical,   \* the plan chosen for it
    page,       \* the result
    latest,     \* the committed database
    walk        \* the walk, or NoWalk

vars == <<snap, select, phase, output, physical, page, latest, walk>>

NoWalk == [mode |-> "none"]

Init ==
    /\ snap \in Databases
    /\ select \in Selects
    /\ phase = "validate"
    /\ output = <<>>
    /\ physical = NoPlan
    /\ page = FailPage("")
    /\ latest = snap
    /\ walk = NoWalk

Reject ==
    /\ phase' = "rejected"
    /\ UNCHANGED <<snap, select, output, physical, page, latest, walk>>

Accept(slots) ==
    /\ output' = slots
    /\ phase' = "plan"
    /\ UNCHANGED <<snap, select, physical, page, latest, walk>>

Validate ==
    /\ phase = "validate"
    /\ \E slots \in {CheckPlan(snap, Lower(select))} :
           IF slots = BadSlots THEN Reject ELSE Accept(slots)

Plan ==
    /\ phase = "plan"
    /\ physical' = Optimize(snap, Lower(select))
    /\ phase' = "execute"
    /\ UNCHANGED <<snap, select, output, page, latest, walk>>

Run ==
    /\ phase = "execute"
    /\ page' = ExecutePage(snap, physical, MaxRows, MaxJoins)
    /\ phase' = "done"
    /\ UNCHANGED <<snap, select, output, physical, latest, walk>>

-----------------------------------------------------------------------------
(* A walk: the rows delivered, the rows of the result that no commit has   *)
(* touched since it began, the token of the last page, and whether it was  *)
(* the last one.                                                           *)

RowsIn(d) == Range(Execute(d, Lower(select)).rows)

Open(mode) ==
    /\ phase = "execute" /\ select \in Walks
    /\ phase' = "walk"
    /\ walk' = [mode |-> mode, out |-> <<>>, kept |-> RowsIn(snap), token |-> <<>>,
                done |-> FALSE, commits |-> 0]
    /\ UNCHANGED <<snap, select, output, physical, page, latest>>

\* A page that fails leaves the walk where it is.
Deliver(p) ==
    /\ p.err = ""
    /\ walk' = [walk EXCEPT !.out = @ \o p.rows, !.token = p.cursor, !.done = p.cursor = <<>>]
    /\ UNCHANGED <<snap, select, phase, output, physical, page, latest>>

Walking(mode) == phase = "walk" /\ walk.mode = mode /\ ~walk.done

\* Mutant: a cursor fetches from the latest version.
FetchLatest == latest

\* Cursor::fetch: the plan of open, resumed and cut to a page, on the cursor's snapshot.
FetchView == snap
FetchPlan ==
    Over(IF walk.token = <<>> THEN physical ELSE Over(physical, Cursor(walk.token[1])),
         Limit(<<PageSize>>, 0))
Fetch ==
    /\ Walking("held")
    /\ \E p \in {ExecutePage(FetchView, FetchPlan, MaxRows, MaxJoins)} : Deliver(p)

\* The same request again with the token, planned and run on a new snapshot.
PageRequest == <<"clause", [select[2] EXCEPT !.limit = <<PageSize>>, !.cursor = walk.token]>>
Resend ==
    /\ Walking("fresh")
    /\ CheckPlan(latest, Lower(PageRequest)) # BadSlots
    /\ \E p \in {ExecutePage(latest, Optimize(latest, Lower(PageRequest)), MaxRows, MaxJoins)} :
           Deliver(p)

Commit ==
    /\ phase = "walk" /\ ~walk.done /\ walk.commits < MaxCommits
    /\ \E d \in Later : /\ latest' = d
                        /\ walk' = [walk EXCEPT !.kept = @ \cap RowsIn(d), !.commits = @ + 1]
    /\ UNCHANGED <<snap, select, phase, output, physical, page>>

Next ==
    \/ Validate \/ Plan \/ Run
    \/ Open("held") \/ Open("fresh") \/ Fetch \/ Resend \/ Commit

Spec == Init /\ [][Next]_vars

-----------------------------------------------------------------------------
(* Properties.                                                             *)

Preserved(ref) == ref.err = "" => Execute(snap, physical) = ref

\* The planner preserves what a query means (plan.rs:5-6): if the logical plan
\* runs without an error, so does the physical plan, to the same rows.
PlannedEqualsReference ==
    phase = "execute" => Preserved(Execute(snap, Lower(select)))

SameAnswer(ref) ==
    ref.err = "" => page.err = "" /\ page.rows = ref.rows /\ page.slots = ref.slots

\* What the pull-based executor returns for the physical plan is what the
\* reference executor returns for it (stream.rs:10-12), unless a cap stops it.
PageEqualsReference ==
    phase = "done" /\ page.err # "resource_limit" => SameAnswer(Execute(snap, physical))

\* Every cell of a result has the kind the validator gave its column and is
\* NULL only where the validator allows it.
OutputTyped ==
    phase = "done" => \A row \in Range(page.rows) :
        /\ Len(row) = Len(output)
        /\ \A i \in DOMAIN row : IF row[i] = Null THEN output[i].nullable
                                 ELSE Kind(row[i]) = output[i].kind

\* A validated request fails only on its data: the evaluator never meets an
\* operand of the wrong kind, an unknown column or an aggregate.
OnlyDataErrors ==
    page.err \notin {"type_error", "unresolved_column", "unexpected_aggregate"}

Delivered(all) == IsPrefix(walk.out, all) /\ (walk.done => walk.out = all)

\* A cursor delivers the rows of its snapshot in their order, none twice and none
\* left out, whatever is committed meanwhile (cursor.rs:6-7: "no row is skipped or
\* duplicated relative to the cursor's snapshot").
HeldWalkExact ==
    phase = "walk" /\ walk.mode = "held" => Delivered(Execute(snap, Lower(select)).rows)

Times(row) == Cardinality({i \in DOMAIN walk.out : walk.out[i] = row})

\* Requests that go on from a token deliver a row that no commit touches exactly
\* once, although every page is computed anew from another snapshot: a token is a
\* key and not a position (stream.rs:13-20).
FreshWalkStable ==
    phase = "walk" /\ walk.mode = "fresh" =>
        \A row \in walk.kept : Times(row) <= 1 /\ (walk.done => Times(row) = 1)

=============================================================================
