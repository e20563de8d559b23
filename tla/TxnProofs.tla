----------------------------- MODULE TxnProofs ------------------------------
(***************************************************************************)
(* Proofs about Txn, for any number of requests, readers, pages, commits   *)
(* and crashes: the second half of the proof that PageInv is inductive     *)
(* (snapshots, the phases of a commit, the durable image), and the theorems *)
(* that follow from it.                                                    *)
(***************************************************************************)
EXTENDS TxnPageProofs

-----------------------------------------------------------------------------

\* What the steps below use of the type invariant.
LEMMA VersionFacts ==
    \A v \in Version : v.tree \subseteq Page /\ v.txn \in TxnId /\ v.txn \in Nat
BY DEF Version, TxnId

LEMMA TypeFacts ==
    ASSUME TypeOK
    PROVE  /\ reg \in Version /\ durable.version \in Version /\ pinned \subseteq Reader
           /\ \A r \in Reader : snap[r] \in Version
           /\ store \in [Page -> Content] /\ page_count \in Nat
           /\ \A e \in pending : e[1] \in Nat /\ e[2] \in Page
<1>1. reg \in Version /\ durable.version \in Version /\ pinned \subseteq Reader
  BY DEF TypeOK
<1>2. \A r \in Reader : snap[r] \in Version
  BY DEF TypeOK
<1>3. store \in [Page -> Content] /\ page_count \in Nat
  BY DEF TypeOK
<1>4. pending \subseteq TxnId \X Page
  BY DEF TypeOK
<1>5. \A e \in pending : e[1] \in Nat /\ e[2] \in Page
  BY <1>4 DEF TxnId
<1> QED
  BY <1>1, <1>2, <1>3, <1>5

\* Every page some snapshot can still read stays out of the allocator's reach.
LEMMA SnapshotsStep ==
    ASSUME TypeOK, PageInv, [Next]_vars, ~Recover
    PROVE  SnapshotsProtected'
<1> USE DEF pagerVars, registryVars, jobVars, writerVars, clientVars
<1>0. /\ SnapshotsProtected /\ JobScope /\ NoDoubleUse /\ InFile /\ CommitPhase
      /\ RefCounts /\ DurableIntact
  BY DEF PageInv
<1>a. /\ reg \in Version /\ durable.version \in Version /\ pinned \subseteq Reader
      /\ \A r \in Reader : snap[r] \in Version
      /\ \A e \in pending : e[1] \in Nat /\ e[2] \in Page
  BY TypeFacts
\* It is enough to look at the versions one by one.
<1>b. ASSUME \A v \in Version : Protected(v) => Protected(v)',
             pending' \subseteq pending, UNCHANGED <<reg, pinned, snap>>, wpc' # "reclaim"
      PROVE  SnapshotsProtected'
  BY <1>0, <1>a, <1>b DEF SnapshotsProtected
\* A step that writes no page and moves none but between tree and freed.
<1>c. ASSUME UNCHANGED <<store, pending>>, alloc_log' \subseteq alloc_log,
             (tree \cup freed) \ alloc_log \subseteq tree' \cup freed',
             NEW v \in Version, Protected(v)
      PROVE  Protected(v)'
  <2>1. Intact(v)' /\ v.tree \cap alloc_log' = {} /\ v.root \in v.tree
    BY <1>c DEF Protected, Intact
  <2>2. ASSUME NEW p \in v.tree
        PROVE  p \in tree' \cup freed' \/ \E e \in pending' : e[2] = p /\ e[1] > v.txn
    BY <1>c, <2>2 DEF Protected
  <2> QED
    BY <2>1, <2>2 DEF Protected
<1>d. ASSUME UNCHANGED <<store, pending, reg, pinned, snap>>, alloc_log' \subseteq alloc_log,
             (tree \cup freed) \ alloc_log \subseteq tree' \cup freed', wpc' # "reclaim"
      PROVE  SnapshotsProtected'
  BY <1>b, <1>c, <1>d
<1>1. CASE UNCHANGED <<store, tree, freed, pending, alloc_log, reg, pinned, snap, wpc, wm>>
  <2>1. \A v \in Version : Protected(v) => Protected(v)'
    BY <1>1, <1>c
  <2> QED
    BY <1>0, <1>a, <1>1, <2>1 DEF SnapshotsProtected
<1>2. ASSUME NEW r \in Reader, Acquire(r) PROVE SnapshotsProtected'
  <2>1. /\ UNCHANGED <<store, pending, alloc_log, tree, freed, reg, wpc, wm>>
        /\ pinned' = pinned \cup {r} /\ snap' = [snap EXCEPT ![r] = reg]
    BY <1>2 DEF Acquire
  <2>2. \A v \in Version : Protected(v) => Protected(v)'
    BY <1>c, <2>1
  <2>3. Protected(reg)'
    BY <1>0, <1>a, <2>1, <2>2 DEF SnapshotsProtected
  <2>4. ASSUME NEW x \in pinned'
        PROVE  snap'[x] \in Version /\ Protected(snap'[x]) /\ snap'[x].txn <= reg.txn
    <3>1. snap'[x] = reg \/ (x \in pinned /\ snap'[x] = snap[x])
      BY <1>a, <2>1 DEF TypeOK
    <3> QED
      BY <1>0, <1>a, <3>1, VersionFacts DEF SnapshotsProtected
  <2>5. ASSUME NEW x \in pinned' PROVE Protected(snap[x])'
    BY <2>2, <2>4
  <2>6. ASSUME wpc' = "reclaim", NEW x \in pinned', NEW e \in pending', e[1] <= wm'
        PROVE  e[1] <= snap'[x].txn
    <3>1. snap'[x] = reg \/ (x \in pinned /\ snap'[x] = snap[x])
      BY <1>a, <2>1 DEF TypeOK
    <3> QED
      BY <1>0, <2>1, <2>6, <3>1 DEF SnapshotsProtected
  <2>7. \A e \in pending' : e[1] <= reg'.txn
    BY <1>0, <2>1 DEF SnapshotsProtected
  <2> QED
    BY <2>1, <2>3, <2>4, <2>5, <2>6, <2>7 DEF SnapshotsProtected
<1>3. ASSUME NEW r \in Reader, Release(r) PROVE SnapshotsProtected'
  <2>1. /\ UNCHANGED <<store, pending, alloc_log, tree, freed, reg, wpc, wm>>
        /\ pinned' = pinned \ {r} /\ snap' = [snap EXCEPT ![r] = NullVersion]
    BY <1>3 DEF Release
  <2>2. \A v \in Version : Protected(v) => Protected(v)'
    BY <1>c, <2>1
  <2>3. \A x \in pinned' : x \in pinned /\ snap'[x] = snap[x]
    BY <1>a, <2>1 DEF TypeOK
  <2>4. Protected(reg)' /\ \A e \in pending' : e[1] <= reg'.txn
    BY <1>0, <1>a, <2>1, <2>2 DEF SnapshotsProtected
  <2>5. ASSUME NEW x \in pinned' PROVE Protected(snap[x])' /\ snap'[x].txn <= reg'.txn
    BY <1>0, <1>a, <2>1, <2>2, <2>3 DEF SnapshotsProtected
  <2>6. ASSUME wpc' = "reclaim", NEW x \in pinned', NEW e \in pending', e[1] <= wm'
        PROVE  e[1] <= snap'[x].txn
    BY <1>0, <2>1, <2>3, <2>6 DEF SnapshotsProtected
  <2> QED
    BY <2>4, <2>5, <2>6 DEF SnapshotsProtected
<1>4. CASE Drain
  BY <1>0, <1>4, <1>d DEF Drain, JobScope
<1>5. CASE BeginJob
  BY <1>5, <1>d DEF BeginJob
<1>6. ASSUME NEW p \in Page, AllocPage(p) PROVE SnapshotsProtected'
  <2>0. /\ store' = [store EXCEPT ![p] = Head(batch)] /\ alloc_log' = alloc_log \cup {p}
        /\ tree' = tree \cup {p} /\ wpc = "job" /\ UNCHANGED <<freed, pending, reg, pinned, snap, wpc>>
    BY <1>6 DEF AllocPage
  <2>1. p \notin tree \cup freed \cup PendingPages
    <3>1. CASE p \in free
      BY <1>0, <3>1 DEF NoDoubleUse
    <3>2. CASE p = page_count
      BY <1>0, <3>2, TypeFacts DEF InFile
    <3> QED
      BY <1>6, <3>1, <3>2 DEF AllocPage
  <2>2. ASSUME NEW v \in Version, Protected(v) PROVE Protected(v)'
    <3>1. p \notin v.tree
      BY <2>1, <2>2 DEF Protected, PendingPages
    <3>2. Intact(v)'
      BY <2>0, <2>2, <3>1, TypeFacts, VersionFacts DEF Protected, Intact
    <3> QED
      BY <2>0, <2>2, <3>1, <3>2 DEF Protected
  <2> QED
    BY <1>b, <2>0, <2>2
<1>7. ASSUME NEW p \in Page, Supersede(p) PROVE SnapshotsProtected'
  BY <1>7, <1>d DEF Supersede
<1>8. ASSUME NEW p \in Page, JobOk(p) PROVE SnapshotsProtected'
  BY <1>8, <1>d DEF JobOk, FinishJob
<1>9. CASE JobNoop
  BY <1>9, <1>d DEF JobNoop, FinishJob
<1>10. CASE JobReject
  <2>1. (tree \cup freed) \ alloc_log \subseteq tree' \cup freed' /\ alloc_log' = {}
    BY <1>0, <1>10 DEF JobReject, FinishJob, JobScope
  <2>2. UNCHANGED <<store, pending, reg, pinned, snap>> /\ wpc' = "batch"
    BY <1>10 DEF JobReject, FinishJob
  <2> QED
    BY <1>d, <2>1, <2>2
<1>11. CASE ReadWatermark
  <2>1. ASSUME NEW r \in pinned PROVE wm' <= snap[r].txn
    <3> DEFINE At == {x \in pinned : snap[x].txn = snap[r].txn}
    <3>1. IsFiniteSet(At) /\ At # {}
      BY <1>a, FS_Subset, ReadersAssumption
    <3>2. snap[r].txn \in TxnId /\ live[snap[r].txn] = Cardinality(At)
      BY <1>0, <1>a, VersionFacts, Zenon DEF RefCounts
    <3>3. live[snap[r].txn] > 0
      <4> HIDE DEF At
      <4>1. Cardinality(At) \in Nat /\ Cardinality(At) # 0
        BY <3>1, FS_EmptySet, FS_CardinalityType
      <4> QED
        BY <3>2, <4>1
    <3> QED
      BY <1>11, <3>2, <3>3, WatermarkType DEF ReadWatermark
  <2>2. ASSUME NEW r \in pinned, NEW e \in pending, e[1] <= wm' PROVE e[1] <= snap[r].txn
    <3>1. e[1] \in Nat /\ snap[r].txn \in Nat
      BY <1>a, VersionFacts
    <3>2. wm' \in Nat
      BY <1>11, WatermarkType, BoundsAssumption DEF ReadWatermark, UNBOUNDED
    <3> QED
      BY <2>1, <2>2, <3>1, <3>2
  <2>3. UNCHANGED <<store, tree, freed, pending, alloc_log, reg, pinned, snap>>
    BY <1>11 DEF ReadWatermark
  <2>4. \A v \in Version : Protected(v) => Protected(v)'
    BY <1>c, <2>3
  <2> QED
    BY <1>0, <1>a, <2>2, <2>3, <2>4 DEF SnapshotsProtected
<1>12. CASE Reclaim
  <2>1. ASSUME NEW v \in Version, Protected(v),
               \A e \in pending : e[1] <= wm => e[1] <= v.txn
        PROVE  Protected(v)'
    <3>0. v.txn \in Nat /\ UNCHANGED <<store, tree, freed, alloc_log>>
      BY <1>12, VersionFacts DEF Reclaim
    <3>1. \A e \in pending : e[1] > v.txn => e \in pending'
      BY <1>a, <1>12, <2>1, <3>0 DEF Reclaim, Reclaimable
    <3> QED
      BY <2>1, <3>0, <3>1 DEF Protected, Intact
  <2>2. pending' \subseteq pending /\ UNCHANGED <<reg, pinned, snap>> /\ wpc' = "commit"
    BY <1>12 DEF Reclaim
  <2>3. wpc = "reclaim"
    BY <1>12 DEF Reclaim
  <2> QED
    BY <1>0, <1>a, <2>1, <2>2, <2>3 DEF SnapshotsProtected
<1>13. CASE BeginCommit
  <2>1. PICK T \in SUBSET free : store' = [p \in Page |-> IF p \in T THEN Trunk ELSE store[p]]
    BY <1>13 DEF BeginCommit
  <2>2. UNCHANGED <<tree, freed, pending, alloc_log, reg, pinned, snap>> /\ wpc' = "flush"
    BY <1>13 DEF BeginCommit
  <2>3. ASSUME NEW v \in Version, Protected(v) PROVE Protected(v)'
    <3>1. v.tree \cap T = {}
      <4>1. ASSUME NEW p \in v.tree PROVE p \in tree \cup freed \cup PendingPages
        BY <2>3, <4>1 DEF Protected, PendingPages
      <4>2. free \cap (tree \cup freed \cup PendingPages) = {}
        BY <1>0 DEF NoDoubleUse
      <4> QED
        BY <4>1, <4>2
    <3>2. Intact(v)'
      BY <2>1, <2>3, <3>1, VersionFacts DEF Protected, Intact
    <3> QED
      BY <2>2, <2>3, <3>2 DEF Protected
  <2> QED
    BY <1>b, <2>2, <2>3
<1>14. CASE CommitDurable \/ Promote \/ EndBatch
  BY <1>14, <1>d DEF CommitDurable, Promote, EndBatch
<1>15. CASE Publish
  <2>0. /\ UNCHANGED <<pinned, snap, store, tree, alloc_log>> /\ wpc' = "reply" /\ freed' = {}
        /\ pending' = pending \cup ({durable.version.txn} \X freed) /\ reg' = durable.version
    BY <1>15, SMTT(20) DEF Publish
  <2>1. reg.txn < durable.version.txn /\ durable.version.tree = tree /\ alloc_log = {}
    BY <1>0, <1>15 DEF Publish, CommitPhase, JobScope, Running
  <2>t. reg.txn \in Nat /\ durable.version.txn \in Nat
    BY <1>a, VersionFacts
  <2>2. ASSUME NEW v \in Version, Protected(v), v.txn <= reg.txn PROVE Protected(v)'
    <3>1. v.txn < durable.version.txn /\ v.txn \in Nat
      BY <2>1, <2>2, <2>t, VersionFacts
    <3>2. ASSUME NEW p \in freed PROVE \E e \in pending' : e[2] = p /\ e[1] > v.txn
      <4>1. <<durable.version.txn, p>> \in pending'
        BY <2>0
      <4> QED
        BY <2>t, <3>1, <4>1
    <3>3. pending \subseteq pending'
      BY <2>0
    <3> QED
      BY <2>0, <2>2, <3>2, <3>3 DEF Protected, Intact
  <2>3. Protected(reg)'
    BY <1>0, <2>0, <2>1 DEF Protected, Intact, DurableIntact, CommitPhase
  <2>4. ASSUME NEW e \in pending' PROVE e[1] <= reg'.txn
    <3>1. CASE e \in pending
      BY <1>0, <1>a, <2>0, <2>1, <2>t, <3>1 DEF SnapshotsProtected
    <3>2. CASE e \in {durable.version.txn} \X freed
      BY <2>0, <2>t, <3>2
    <3> QED
      BY <2>0, <3>1, <3>2
  <2>5. ASSUME NEW r \in pinned PROVE snap[r].txn <= reg'.txn
    BY <1>0, <1>a, <2>0, <2>1, <2>t, VersionFacts DEF SnapshotsProtected
  <2> QED
    BY <1>0, <1>a, <2>0, <2>2, <2>3, <2>4, <2>5 DEF SnapshotsProtected
<1>16. CASE Fatal \/ CommitFails \/ DropQueue
  BY <1>16, <1>d DEF Fatal, CommitFails, StopBatch, DropQueue
<1>17. ASSUME NEW q \in Request, Reply(q) PROVE SnapshotsProtected'
  BY <1>17, <1>d, SMTT(20) DEF Reply
<1> QED
  BY <1>1, <1>2, <1>3, <1>4, <1>5, <1>6, <1>7, <1>8, <1>9, <1>10, <1>11, <1>12, <1>13, <1>14,
     <1>15, <1>16, <1>17
  DEF Next, WriterStep, vars, Crash, Reopen, Submit

\* What is on disk and what the pager remembers stay in step through the
\* phases of a commit.
LEMMA CommitPhaseStep ==
    ASSUME TypeOK, PageInv, [Next]_vars, ~Recover
    PROVE  CommitPhase'
<1> USE DEF pagerVars, registryVars, jobVars, writerVars, clientVars
<1>0. CommitPhase /\ JobScope /\ NoDoubleUse /\ SnapshotsProtected
  BY DEF PageInv
<1>a. reg.txn \in Nat /\ durable.version.txn \in Nat
  BY TypeFacts, VersionFacts
<1>1. CASE UNCHANGED <<wpc, store, trunks, dead_trunks, durable, reg, root, tree, applied>>
  BY <1>0, <1>1 DEF CommitPhase, Running
<1>2. CASE Drain
  <2>1. root \in tree
    <3>1. root = reg.root /\ freed = {}
      BY <1>0, <1>2 DEF Drain, JobScope
    <3>2. \A e \in pending : ~(e[1] > reg.txn)
      BY <1>0, <1>a, TypeFacts, SMTT(20) DEF SnapshotsProtected
    <3> QED
      BY <1>0, <3>1, <3>2, SMTT(20) DEF SnapshotsProtected, Protected
  <2> QED
    BY <1>0, <1>2, <2>1 DEF Drain, CommitPhase, Running
<1>3. CASE BeginJob
  BY <1>0, <1>3, ZenonT(30) DEF BeginJob, CommitPhase, Running
<1>4. ASSUME NEW p \in Page, AllocPage(p) \/ Supersede(p) PROVE CommitPhase'
  BY <1>0, <1>4 DEF AllocPage, Supersede, CommitPhase, Running
<1>5. ASSUME NEW p \in Page, JobOk(p) PROVE CommitPhase'
  BY <1>0, <1>5 DEF JobOk, FinishJob, CommitPhase, Running
<1>6. CASE JobNoop
  <2>1. root \in tree
    BY <1>0, <1>6 DEF JobNoop, JobScope, NoDoubleUse
  <2> QED
    BY <1>0, <1>6, <2>1 DEF JobNoop, FinishJob, CommitPhase, Running
<1>7. CASE JobReject
  BY <1>0, <1>7 DEF JobReject, FinishJob, CommitPhase, Running, JobScope
<1>8. CASE EndBatch \/ ReadWatermark \/ Reclaim
  BY <1>0, <1>8, SMTT(20) DEF EndBatch, ReadWatermark, Reclaim, CommitPhase, Running
<1>9. CASE BeginCommit
  <2>1. \A p \in trunks' : store'[p] = Trunk
    BY <1>9, SMTT(20) DEF BeginCommit, TypeOK
  <2> QED
    BY <1>0, <1>9, <2>1 DEF BeginCommit, CommitPhase, Running
<1>10. ASSUME wpc = "flush", durable' = NewDurable,
              UNCHANGED <<store, trunks, reg, root, tree, applied>>,
              wpc' \in {"promote", "stopping"}
       PROVE  CommitPhase'
  <2>1. reg.txn < durable'.version.txn
    <3>1. durable'.version.txn = durable.version.txn + 1
      BY <1>10 DEF NewDurable
    <3>2. reg.txn <= durable.version.txn
      BY <1>0 DEF CommitPhase
    <3> QED
      BY <1>a, <3>1, <3>2
  <2>2. reg'.txn < durable'.version.txn /\ reg'.txn <= durable'.version.txn
    <3>1. reg' = reg /\ durable'.version.txn \in Nat
      BY <1>a, <1>10 DEF NewDurable
    <3> QED
      BY <1>a, <2>1, <3>1
  <2>3. /\ durable'.version.tree = tree' /\ durable'.version.root = root'
        /\ durable'.version.applied = applied' /\ durable'.alloc.trunks = trunks'
    BY <1>10 DEF NewDurable
  <2>4. root \in tree /\ tree \cap trunks = {} /\ \A p \in trunks : store[p] = Trunk
    BY <1>0, <1>10 DEF CommitPhase, NoDoubleUse
  <2> QED
    BY <1>10, <2>2, <2>3, <2>4 DEF CommitPhase, Running
<1>11. CASE Promote
  BY <1>0, <1>11, SMTT(20) DEF Promote, CommitPhase, Running
<1>12. CASE Publish
  <2>1. /\ reg' = durable.version /\ wpc = "publish" /\ wpc' = "reply"
        /\ UNCHANGED <<store, trunks, dead_trunks, durable, root, tree, applied>>
    BY <1>12 DEF Publish
  <2>2. reg'.txn <= durable'.version.txn
    BY <1>a, <2>1
  <2> QED
    BY <1>0, <2>1, <2>2 DEF CommitPhase, Running
<1>13. ASSUME wpc' \in {"stopping", "stopped"}, UNCHANGED <<store, trunks, durable, reg>>
       PROVE  CommitPhase'
  BY <1>0, <1>13 DEF CommitPhase, Running
<1>14. ASSUME NEW q \in Request, Reply(q) PROVE CommitPhase'
  <2>1. wpc = "reply" /\ wpc' \in {"idle", "reply"}
    BY <1>14 DEF Reply
  <2>2. UNCHANGED <<store, trunks, dead_trunks, durable, reg, root, tree, applied>>
    BY <1>14, SMTT(20) DEF Reply
  <2> QED
    BY <1>0, <2>1, <2>2 DEF CommitPhase, Running
<1> QED
  BY <1>1, <1>2, <1>3, <1>4, <1>5, <1>6, <1>7, <1>8, <1>9, <1>10, <1>11, <1>12, <1>13, <1>14,
     ZenonT(30)
  DEF Next, WriterStep, vars, Crash, Reopen, Acquire, Release, Submit, CommitDurable, CommitFails,
      Fatal, StopBatch, DropQueue

\* No write ever lands on a page of the committed version or of its free list.
LEMMA DurableStep ==
    ASSUME TypeOK, PageInv, [Next]_vars, ~Recover
    PROVE  DurableIntact'
<1> USE DEF pagerVars, registryVars, jobVars, writerVars, clientVars
<1>0. /\ DurableIntact /\ CommitPhase /\ JobScope /\ NoDoubleUse /\ InFile
      /\ SnapshotsProtected
  BY DEF PageInv
<1>a. /\ durable.version.tree \subseteq Page /\ durable.alloc.trunks \subseteq Page
      /\ store \in [Page -> Content]
  BY DEF TypeOK, Version, Allocator
<1>1. CASE UNCHANGED <<store, unsynced, durable>>
  BY <1>0, <1>1, SMTT(20) DEF DurableIntact, Intact
<1>2. ASSUME NEW p \in Page, AllocPage(p) PROVE DurableIntact'
  <2>1. p \notin tree \cup freed \cup PendingPages \cup trunks
    <3>1. CASE p \in free
      BY <1>0, <3>1 DEF NoDoubleUse
    <3>2. CASE p = page_count
      BY <1>0, <3>2, TypeFacts, SMTT(20) DEF InFile
    <3> QED
      BY <1>2, <3>1, <3>2, Zenon DEF AllocPage
  <2>2. durable.version = reg /\ durable.alloc.trunks = trunks
    BY <1>0, <1>2 DEF AllocPage, CommitPhase, Running
  <2>3. p \notin durable.version.tree \cup durable.alloc.trunks
    <3>1. \A x \in reg.tree : x \in tree \cup freed \cup PendingPages
      BY <1>0, SMTT(20) DEF SnapshotsProtected, Protected, PendingPages
    <3> QED
      BY <2>1, <2>2, <3>1, SMTT(20)
  <2> QED
    BY <1>0, <1>a, <1>2, <2>3, SMTT(20) DEF AllocPage, DurableIntact, Intact
<1>3. CASE BeginCommit
  <2>1. PICK T \in SUBSET free : /\ store' = [p \in Page |-> IF p \in T THEN Trunk ELSE store[p]]
                                /\ unsynced' = unsynced \cup T
    BY <1>3, SMTT(20) DEF BeginCommit
  <2>2. durable.version = reg /\ durable.alloc.trunks = trunks /\ durable' = durable
    BY <1>0, <1>3 DEF BeginCommit, CommitPhase, Running
  <2>3. T \cap (durable.version.tree \cup durable.alloc.trunks) = {}
    <3>1. \A x \in reg.tree : x \in tree \cup freed \cup PendingPages
      BY <1>0 DEF SnapshotsProtected, Protected, PendingPages
    <3>2. free \cap (tree \cup freed \cup PendingPages \cup trunks) = {}
      BY <1>0, SMTT(20) DEF NoDoubleUse
    <3> QED
      BY <2>2, <3>1, <3>2, SMTT(20)
  <2> QED
    BY <1>0, <1>a, <2>1, <2>2, <2>3 DEF DurableIntact, Intact
<1>4. ASSUME wpc = "flush", durable' = NewDurable, unsynced' = {}, UNCHANGED store
      PROVE  DurableIntact'
  BY <1>0, <1>4, Zenon
  DEF NewDurable, Image, DurableIntact, Intact, CommitPhase, NoDoubleUse, TypeOK
<1> QED
  BY <1>1, <1>2, <1>3, <1>4, ZenonT(30)
  DEF Next, WriterStep, vars, Crash, Reopen, Acquire, Release, Submit, Drain, BeginJob, Supersede,
      JobOk, JobNoop, JobReject, FinishJob, StopBatch, Fatal, DropQueue, EndBatch, ReadWatermark,
      Reclaim, CommitDurable, CommitFails, Promote, Publish, Reply

-----------------------------------------------------------------------------
(* The theorems.                                                           *)

LEMMA Inductive == TypeOK /\ PageInv /\ [Next]_vars => TypeOK' /\ PageInv'
<1> SUFFICES ASSUME TypeOK, PageInv, [Next]_vars PROVE PageInv'
  BY TypeStep
<1>1. CASE Recover
  BY <1>1, PageInvRecover
<1>2. CASE ~Recover
  BY <1>2, RefCountsStep, OwnersStep, JobScopeStep, SnapshotsStep, CommitPhaseStep, DurableStep
  DEF PageInv
<1> QED
  BY <1>1, <1>2

\* Types hold and the inductive invariant holds in every reachable state.
THEOREM TypeCorrect == Spec => []TypeOK
<1>1. Init => TypeOK /\ PageInv
  BY TypeInit, PageInvInit
<1> QED
  BY <1>1, Inductive, PTL DEF Spec

THEOREM PageSafety == Spec => []PageInv
<1>1. Init => TypeOK /\ PageInv
  BY TypeInit, PageInvInit
<1> QED
  BY <1>1, Inductive, PTL DEF Spec

\* A snapshot's data never change while it is open (registry.rs watermark,
\* writer.rs reclaim), for any number of snapshots, commits and pages.
THEOREM SnapshotsStable == Spec => []SnapshotStable
<1>1. PageInv => SnapshotStable
  BY DEF PageInv, SnapshotsProtected, Protected, SnapshotStable
<1> QED
  BY <1>1, PageSafety, PTL

\* The committed version and its free list are whole on disk at every
\* instant (pager.rs commit, rebuild_free_list).
THEOREM DurableAlwaysIntact == Spec => []DurableIntact
<1>1. PageInv => DurableIntact
  BY DEF PageInv
<1> QED
  BY <1>1, PageSafety, PTL

\* No page ever has two owners (writer.rs process_batch, pager.rs alloc, free).
THEOREM PagesNeverShared == Spec => []NoDoubleUse
<1>1. PageInv => NoDoubleUse
  BY DEF PageInv
<1> QED
  BY <1>1, PageSafety, PTL

=============================================================================
