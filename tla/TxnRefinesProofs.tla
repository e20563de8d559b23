-------------------------- MODULE TxnRefinesProofs --------------------------
(***************************************************************************)
(* Proof that Txn implements SnapshotDb.                                   *)
(***************************************************************************)
EXTENDS TxnServiceProofs

-----------------------------------------------------------------------------
(* Txn implements SnapshotDb.                                              *)

\* Because its pages are intact, a snapshot shows the version it pinned.
LEMMA ViewIsVersion ==
    ASSUME PageInv, NEW r \in Reader
    PROVE  View(r) = IF r \in pinned THEN snap[r].applied ELSE NoView
BY DEF PageInv, SnapshotsProtected, Protected, View

LEMMA ViewStep ==
    ASSUME PageInv, PageInv', UNCHANGED <<pinned, snap>>
    PROVE  [r \in Reader |-> View(r)]' = [r \in Reader |-> View(r)]
<1>1. ASSUME NEW r \in Reader PROVE View(r)' = View(r)
  <2>1. View(r)' = IF r \in pinned' THEN snap'[r].applied ELSE NoView
    BY DEF PageInv, SnapshotsProtected, Protected, View, NoView
  <2> QED
    BY <2>1, ViewIsVersion
<1> QED
  BY <1>1

LEMMA AppliedIsAView == \A v \in Version : v.applied # NoView
BY ContentAssumption DEF Version, NoView

LEMMA AbsInit == Init => Abs!Init
<1> SUFFICES ASSUME Init PROVE Abs!Init
  OBVIOUS
<1>1. durable.version.applied = {} /\ reg.applied = {} /\ pinned = {}
      /\ status = [q \in Request |-> "new"]
  BY DEF Init
<1>2. [r \in Reader |-> View(r)] = [r \in Reader |-> NoView]
  BY <1>1 DEF View
<1> QED
  BY <1>1, <1>2 DEF Abs!Init

LEMMA AbsStep ==
    ASSUME TypeOK, PageInv, PageInv', ServiceInv, [Next]_vars
    PROVE  [Abs!Next]_(Abs!vars)
<1> USE DEF pagerVars, registryVars, jobVars, writerVars, clientVars
<1> DEFINE view == [r \in Reader |-> View(r)]
           db == durable.version.applied
<1>0. RequestsOnce /\ VersionsNest /\ JobScope
  BY DEF PageInv, ServiceInv
<1>a. /\ status \in [Request -> Status] /\ outcome \in [Request -> Outcome]
      /\ applied \subseteq Request /\ pinned \subseteq Reader
      /\ reg \in Version /\ snap \in [Reader -> Version] /\ db \subseteq Request
  BY DEF TypeOK, Version
<1>b. /\ \A r \in Reader : view[r] = IF r \in pinned THEN snap[r].applied ELSE NoView
      /\ \A r \in Reader : view'[r] = IF r \in pinned' THEN snap'[r].applied ELSE NoView
  BY ViewIsVersion DEF PageInv, SnapshotsProtected, Protected, View, NoView
<1>c. UNCHANGED <<pinned, snap>> => view' = view
  BY ViewStep
<1>1. CASE UNCHANGED <<pinned, snap, durable, reg, status>>
  BY <1>1, <1>c DEF Abs!vars
<1>2. ASSUME NEW q \in Request, Submit(q) PROVE Abs!Next
  <2>1. /\ status[q] = "new" /\ \E s \in {"queued", "stopped"} : status' = [status EXCEPT ![q] = s]
        /\ UNCHANGED <<pinned, snap, durable, reg>>
    BY <1>2 DEF Submit
  <2> QED
    BY <1>c, <2>1, Zenon DEF Abs!Next, Abs!Submit
<1>3. ASSUME NEW r \in Reader, Acquire(r) PROVE Abs!Next
  <2>1. /\ r \notin pinned /\ pinned' = pinned \cup {r} /\ snap' = [snap EXCEPT ![r] = reg]
        /\ UNCHANGED <<durable, reg, status>>
    BY <1>3 DEF Acquire
  <2>2. view[r] = NoView /\ view' = [view EXCEPT ![r] = reg.applied]
    BY <1>a, <1>b, <2>1, Zenon
  <2> QED
    BY <2>1, <2>2, Zenon DEF Abs!Next, Abs!Pin
<1>4. ASSUME NEW r \in Reader, Release(r) PROVE Abs!Next
  <2>1. /\ r \in pinned /\ pinned' = pinned \ {r} /\ snap' = [snap EXCEPT ![r] = NullVersion]
        /\ UNCHANGED <<durable, reg, status>>
    BY <1>4 DEF Release
  <2>2. view[r] # NoView
    BY <1>a, <1>b, <2>1, AppliedIsAView
  <2>3. view' = [view EXCEPT ![r] = NoView]
    BY <1>a, <1>b, <2>1, Zenon
  <2> QED
    BY <2>1, <2>2, <2>3, Zenon DEF Abs!Next, Abs!Unpin
<1>5. ASSUME NEW Q \in SUBSET Request, NEW S \in SUBSET Request, S \subseteq Q,
             \A q \in Q : status[q] = "queued", db' = db \cup S,
             status' = [q \in Request |-> IF q \in Q THEN "stopped" ELSE status[q]],
             UNCHANGED <<pinned, snap, reg>>
      PROVE  Abs!Next
  BY <1>c, <1>5 DEF Abs!Next, Abs!Fail, Abs!Queued
<1> DEFINE Dropped == {q \in Request : outcome[q] # "none" \/ In(q, batch)}
           Added == db' \ db
<1>6. ASSUME StopBatch, Added \subseteq Dropped, db \subseteq db' PROVE Abs!Next
  <2>1. /\ status' = [q \in Request |-> IF q \in Dropped THEN "stopped" ELSE status[q]]
        /\ UNCHANGED <<pinned, snap, reg>>
    BY <1>6 DEF StopBatch, In
  <2>2. \A q \in Dropped : status[q] = "queued"
    BY <1>0 DEF RequestsOnce
  <2>3. db' = db \cup Added
    BY <1>6
  <2> HIDE DEF Dropped, Added
  <2>4. Dropped \in SUBSET Request /\ Added \in SUBSET Request
    BY <1>6 DEF Dropped
  <2> QED
    BY <1>5, <1>6, <2>1, <2>2, <2>3, <2>4
<1>7. CASE Fatal
  BY <1>6, <1>7 DEF Fatal
<1>8. ASSUME wpc = "flush", durable' = NewDurable PROVE db \subseteq db' /\ Added \subseteq Dropped
  <2>1. db' = applied /\ db \subseteq applied
    BY <1>0, <1>8 DEF NewDurable, VersionsNest
  <2>2. \A q \in applied : q \in db \/ outcome[q] = "ok"
    BY <1>0, <1>8 DEF VersionsNest, Running
  <2> QED
    BY <1>a, <2>1, <2>2
<1>9. CASE CommitFails
  BY <1>6, <1>8, <1>9 DEF CommitFails
<1>10. CASE CommitDurable
  <2>1. Added \subseteq {q \in Request : status[q] = "queued"} /\ db' = db \cup Added
    BY <1>0, <1>8, <1>10 DEF CommitDurable, RequestsOnce
  <2>2. UNCHANGED <<pinned, snap, reg, status>>
    BY <1>10 DEF CommitDurable
  <2> QED
    BY <1>c, <2>1, <2>2, Zenon DEF Abs!Next, Abs!Commit, Abs!Queued
<1>11. CASE DropQueue
  <2> DEFINE Q == {q \in Request : In(q, queue)}
  <2>1. /\ status' = [q \in Request |-> IF q \in Q THEN "stopped" ELSE status[q]]
        /\ UNCHANGED <<pinned, snap, reg, durable>>
    BY <1>11 DEF DropQueue, In
  <2>2. \A q \in Q : status[q] = "queued"
    BY <1>0 DEF RequestsOnce
  <2>3. Q \in SUBSET Request /\ {} \in SUBSET Request /\ {} \subseteq Q /\ db' = db \cup {}
    BY <2>1
  <2> HIDE DEF Q
  <2> QED
    BY <1>5, <2>1, <2>2, <2>3, Zenon
<1>12. CASE Publish
  <2>1. reg'.applied = db /\ UNCHANGED <<pinned, snap, durable, status>>
    BY <1>12 DEF Publish
  <2> QED
    BY <1>c, <2>1 DEF Abs!Next, Abs!Publish
<1>13. ASSUME NEW q \in Request, Reply(q) PROVE Abs!Next
  <2>1. /\ outcome[q] \in {"ok", "noop", "rejected"} /\ status' = [status EXCEPT ![q] = outcome[q]]
        /\ applied = reg.applied /\ UNCHANGED <<pinned, snap, durable, reg>>
    BY <1>0, <1>a, <1>13 DEF Reply, Outcome, JobScope
  <2>2. /\ status[q] = "queued"
        /\ IF outcome[q] = "ok" THEN q \in db \cap reg.applied ELSE q \notin db
    BY <1>0, <2>1 DEF RequestsOnce, VersionsNest
  <2> QED
    BY <1>c, <2>1, <2>2, Zenon DEF Abs!Next, Abs!Answer
<1>14. CASE Crash \/ Reopen
  <2>1. status' = [q \in Request |-> IF status[q] = "queued" THEN "lost" ELSE status[q]]
    BY <1>a, <1>14 DEF Crash, Reopen
  <2>2. reg'.applied = db /\ pinned' = {} /\ UNCHANGED durable
    BY <1>14 DEF Crash, Reopen, Recover
  <2>3. view' = [r \in Reader |-> NoView]
    BY <1>b, <2>2, SMTT(20)
  <2> QED
    BY <2>1, <2>2, <2>3 DEF Abs!Next, Abs!Restart
<1>15. CASE \/ Drain \/ BeginJob \/ JobNoop \/ JobReject \/ EndBatch \/ ReadWatermark \/ Reclaim
            \/ BeginCommit \/ Promote
            \/ \E p \in Page : AllocPage(p) \/ Supersede(p) \/ JobOk(p)
  BY <1>1, <1>15, Zenon
  DEF Drain, BeginJob, JobNoop, JobReject, JobOk, FinishJob, EndBatch, ReadWatermark, Reclaim,
      BeginCommit, Promote, AllocPage, Supersede
<1>16. CASE UNCHANGED vars
  BY <1>1, <1>16 DEF vars
<1> QED
  BY <1>2, <1>3, <1>4, <1>7, <1>9, <1>10, <1>11, <1>12, <1>13, <1>14, <1>15, <1>16
  DEF Next, WriterStep

\* The transaction layer implements SnapshotDb: through snapshots, submits and
\* restarts, group commit over recycled pages is an atomic, durable,
\* snapshot-isolated set of transactions (writer.rs process_batch, registry.rs).
THEOREM Implements == Spec => ImplementsSnapshotDb
<1>1. TypeOK /\ PageInv /\ PageInv' /\ ServiceInv /\ [Next]_vars => [Abs!Next]_(Abs!vars)
  BY AbsStep
<1> QED
  BY <1>1, AbsInit, TypeCorrect, PageSafety, ServiceSafety, PTL
  DEF Spec, ImplementsSnapshotDb, Abs!Spec

=============================================================================
