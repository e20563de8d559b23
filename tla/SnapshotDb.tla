----------------------------- MODULE SnapshotDb -----------------------------
(***************************************************************************)
(* What the transaction layer promises its clients, with no pages, no      *)
(* batches and no writer thread.  The database is the set of requests it   *)
(* includes.  Commits add requests and are atomic and durable; a version   *)
(* is visible only after it is durable; a snapshot shows one version and   *)
(* never changes; a request answered Ok is durable and visible, and one    *)
(* answered with a rejection never takes effect.                           *)
(***************************************************************************)
CONSTANTS Request, Reader, NoView

VARIABLES
    durable,   \* the requests a restart would find
    visible,   \* the requests a new snapshot sees
    view,      \* reader -> the requests its snapshot shows, or NoView
    status     \* request -> what its client knows

vars == <<durable, visible, view, status>>

Init ==
    /\ durable = {} /\ visible = {}
    /\ view = [r \in Reader |-> NoView]
    /\ status = [q \in Request |-> "new"]

Queued == {q \in Request : status[q] = "queued"}

Submit(q) ==
    /\ status[q] = "new"
    /\ \E s \in {"queued", "stopped"} : status' = [status EXCEPT ![q] = s]
    /\ UNCHANGED <<durable, visible, view>>

\* A group of waiting requests becomes durable in one step.
Commit(S) ==
    /\ S \subseteq Queued
    /\ durable' = durable \cup S
    /\ UNCHANGED <<visible, view, status>>

Publish ==
    /\ visible' = durable
    /\ UNCHANGED <<durable, view, status>>

Answer(q) ==
    /\ status[q] = "queued"
    /\ \E s \in {"ok", "noop", "rejected"} :
          /\ IF s = "ok" THEN q \in durable \cap visible ELSE q \notin durable
          /\ status' = [status EXCEPT ![q] = s]
    /\ UNCHANGED <<durable, visible, view>>

\* The writer gives up on the requests Q.  A commit that was in progress may
\* be durable all the same, with all of its requests or with none.
Fail(Q, S) ==
    /\ S \subseteq Q /\ Q \subseteq Queued
    /\ durable' = durable \cup S
    /\ status' = [q \in Request |-> IF q \in Q THEN "stopped" ELSE status[q]]
    /\ UNCHANGED <<visible, view>>

Pin(r) ==
    /\ view[r] = NoView
    /\ view' = [view EXCEPT ![r] = visible]
    /\ UNCHANGED <<durable, visible, status>>

Unpin(r) ==
    /\ view[r] # NoView
    /\ view' = [view EXCEPT ![r] = NoView]
    /\ UNCHANGED <<durable, visible, status>>

Restart ==
    /\ visible' = durable
    /\ view' = [r \in Reader |-> NoView]
    /\ status' = [q \in Request |-> IF status[q] = "queued" THEN "lost" ELSE status[q]]
    /\ UNCHANGED durable

Next ==
    \/ \E q \in Request : Submit(q) \/ Answer(q)
    \/ \E S \in SUBSET Request : Commit(S)
    \/ \E Q, S \in SUBSET Request : Fail(Q, S)
    \/ \E r \in Reader : Pin(r) \/ Unpin(r)
    \/ Publish \/ Restart

Spec == Init /\ [][Next]_vars
=============================================================================
