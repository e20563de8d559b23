----------------------------- MODULE PageStore -----------------------------
(***************************************************************************)
(* What the pager promises the layers above it: whole versions of a paged  *)
(* file, committed atomically.  A version is a function from the pages it  *)
(* reaches to what they hold.  A commit is in flight from the moment its   *)
(* meta page is handed to the operating system until that page is durable; *)
(* a crash in between keeps all of it or none.                             *)
(***************************************************************************)
CONSTANT Empty

VARIABLES
    working,    \* the version being edited
    committed,  \* the version a crash would go back to
    inflight    \* the set of versions (at most one) a crash may keep instead

vars == <<working, committed, inflight>>

Init == working = Empty /\ committed = Empty /\ inflight = {}

Edit == UNCHANGED <<committed, inflight>>

WriteMeta ==
    /\ inflight' = {working}
    /\ UNCHANGED <<working, committed>>

Land ==
    /\ committed' \in inflight
    /\ inflight' = {}
    /\ UNCHANGED working

\* The machine stops; what was in flight is kept whole or lost whole.
Crash ==
    /\ committed' \in {committed} \cup inflight
    /\ working' = committed'
    /\ inflight' = {}

\* The process stops, the machine does not.
Reopen ==
    /\ working' \in {committed} \cup inflight
    /\ UNCHANGED <<committed, inflight>>

Next == Edit \/ WriteMeta \/ Land \/ Crash \/ Reopen

Spec == Init /\ [][Next]_vars
=============================================================================
