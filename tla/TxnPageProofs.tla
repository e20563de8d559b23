--------------------------- MODULE TxnPageProofs ----------------------------
(***************************************************************************)
(* The first half of the proof that PageInv is inductive: the initial and  *)
(* the recovered states, the reference counts of the registry, who owns a  *)
(* page, and what a job in progress may touch.                             *)
(***************************************************************************)
EXTENDS TxnTypeProofs

-----------------------------------------------------------------------------
(* The inductive invariant, one lemma per conjunct.                        *)

LEMMA PageInvInit == Init => PageInv
<1> SUFFICES ASSUME Init PROVE PageInv
  OBVIOUS
<1>1. RefCounts
  <2>1. ASSUME NEW t \in TxnId PROVE {r \in pinned : snap[r].txn = t} = {}
    BY DEF Init
  <2> QED
    BY <2>1, FS_EmptySet DEF RefCounts, Init
<1>2. JobScope /\ CommitPhase
  BY DEF Init, JobScope, CommitPhase, Running
<1>3. SnapshotsProtected
  BY DEF Init, SnapshotsProtected, Protected, Intact
<1>4. InFile /\ NoDoubleUse
  BY DEF Init, InFile, NoDoubleUse, PendingPages
<1>5. DurableIntact
  BY DEF Init, DurableIntact, Intact
<1> QED
  BY <1>1, <1>2, <1>3, <1>4, <1>5 DEF PageInv

\* Recovery finds the committed version and its free list as they were
\* committed, and starts from them alone.
LEMMA PageInvRecover ==
    ASSUME TypeOK, PageInv, Recover
    PROVE  PageInv'
<1>1. RefCounts'
  <2>1. ASSUME NEW t \in TxnId PROVE {r \in pinned' : snap'[r].txn = t} = {}
    BY DEF Recover
  <2> QED
    BY <2>1, FS_EmptySet DEF RefCounts, Recover
<1>2. JobScope'
  BY DEF Recover, JobScope, Running
<1>3. /\ DurableIntact' /\ Intact(durable.version)'
      /\ \A p \in durable.version.tree : store'[p] = durable.version.image[p]
  BY DEF PageInv, DurableIntact, Intact, Recover, TypeOK, Version, Allocator
<1>4. SnapshotsProtected'
  BY <1>3 DEF Recover, SnapshotsProtected, Protected, Intact, PageInv, CommitPhase
<1>5. CommitPhase'
  <2>1. reg'.txn <= durable'.version.txn
    BY DEF Recover, TypeOK, Version, TxnId
  <2> QED
    BY <2>1 DEF Recover, PageInv, CommitPhase, Running
<1>6. InFile'
  BY DEF Recover, InFile, PageInv, PendingPages
<1>7. NoDoubleUse'
  BY DEF Recover, NoDoubleUse, PageInv, PendingPages, DurableIntact, CommitPhase
<1> QED
  BY <1>1, <1>2, <1>3, <1>4, <1>5, <1>6, <1>7 DEF PageInv

LEMMA RefCountsStep ==
    ASSUME TypeOK, PageInv, [Next]_vars, ~Recover
    PROVE  RefCounts'
<1>1. ASSUME NEW r \in Reader, Acquire(r) PROVE RefCounts'
  BY <1>1, AcquireCounts DEF PageInv
<1>2. ASSUME NEW r \in Reader, Release(r) PROVE RefCounts'
  BY <1>2, ReleaseCounts DEF PageInv
<1>3. CASE UNCHANGED <<live, pinned, snap>>
  BY <1>3, SMTT(20) DEF PageInv, RefCounts
<1>4. ASSUME ~(\E r \in Reader : Acquire(r) \/ Release(r))
      PROVE  UNCHANGED <<live, pinned, snap>>
  BY <1>4, ZenonT(30)
  DEF Next, WriterStep, vars, registryVars, Crash, Reopen, Submit, Drain, BeginJob,
              AllocPage, Supersede, JobOk, JobNoop, JobReject, FinishJob, StopBatch, Fatal,
              DropQueue, EndBatch, ReadWatermark, Reclaim, BeginCommit, CommitDurable,
              CommitFails, Promote, Publish, Reply
<1> QED
  BY <1>1, <1>2, <1>3, <1>4

\* A page moves between owners one owner at a time, and a page taken from the
\* end of the file had none.
LEMMA OwnersStep ==
    ASSUME TypeOK, PageInv, [Next]_vars, ~Recover
    PROVE  InFile' /\ NoDoubleUse'
<1> USE DEF pagerVars, registryVars, jobVars, writerVars, clientVars
<1>0. InFile /\ NoDoubleUse
  BY DEF PageInv
<1>1. CASE UNCHANGED <<tree, freed, pending, orphaned, free, trunks, dead_trunks, page_count, durable>>
  BY <1>0, <1>1 DEF InFile, NoDoubleUse, PendingPages
<1>2. CASE Drain
  BY <1>0, <1>2 DEF Drain, InFile, NoDoubleUse, PendingPages
<1>3. ASSUME NEW p \in Page, AllocPage(p) PROVE InFile' /\ NoDoubleUse'
  <2>1. /\ p \notin tree \cup freed \cup PendingPages \cup orphaned \cup trunks \cup dead_trunks
        /\ p \notin free'
    <3>1. CASE p \in free /\ free' = free \ {p}
      BY <1>0, <3>1 DEF NoDoubleUse
    <3>2. CASE free = {} /\ p = page_count /\ free' = free
      BY <1>0, <3>2 DEF InFile, TypeOK
    <3> QED
      BY <1>3, <3>1, <3>2 DEF AllocPage
  <2>2. free' \subseteq free /\ tree' = tree \cup {p}
        /\ UNCHANGED <<freed, pending, orphaned, trunks, dead_trunks, durable>>
    BY <1>3 DEF AllocPage
  <2>3. page_count <= page_count' /\ p < page_count'
    BY <1>0, <1>3 DEF AllocPage, InFile, TypeOK
  <2>4. NoDoubleUse'
    BY <1>0, <2>1, <2>2 DEF NoDoubleUse, PendingPages
  <2>5. InFile'
    <3>1. ASSUME NEW x \in Page, x < page_count PROVE x < page_count'
      BY <2>3, <3>1, <1>3 DEF TypeOK, AllocPage, Page
    <3> QED
      BY <1>0, <2>2, <2>3, <3>1 DEF InFile, PendingPages, TypeOK
  <2> QED
    BY <2>4, <2>5
<1>4. ASSUME NEW p \in Page, Supersede(p) PROVE InFile' /\ NoDoubleUse'
  BY <1>0, <1>4 DEF Supersede, InFile, NoDoubleUse, PendingPages
<1>5. CASE JobReject
  <2>1. /\ tree \cup freed = at_start.tree \cup at_start.freed \cup alloc_log
        /\ at_start.tree \cap at_start.freed = {}
        /\ alloc_log \cap (at_start.tree \cup at_start.freed) = {}
    BY <1>5 DEF JobReject, PageInv, JobScope
  <2>2. /\ tree' = at_start.tree /\ freed' = at_start.freed /\ orphaned' = orphaned \cup alloc_log
        /\ UNCHANGED <<pending, free, trunks, dead_trunks, page_count, durable>>
    BY <1>5 DEF JobReject, FinishJob
  <2> QED
    BY <1>0, <2>1, <2>2 DEF InFile, NoDoubleUse, PendingPages
<1>6. CASE Reclaim
  <2>1. PendingPages' \subseteq PendingPages
    BY <1>6 DEF Reclaim, PendingPages
  <2>2. free' \subseteq free \cup orphaned \cup PendingPages
    BY <1>6 DEF Reclaim, PendingPages
  <2>3. ASSUME NEW p \in free' PROVE p \notin PendingPages'
    BY <1>0, <1>6 DEF Reclaim, PendingPages, NoDoubleUse
  <2>4. pending' \subseteq pending /\ orphaned' = {}
        /\ UNCHANGED <<tree, freed, trunks, dead_trunks, page_count, durable>>
    BY <1>6 DEF Reclaim
  <2> QED
    <3>1. InFile'
      BY <1>0, <2>1, <2>2, <2>4 DEF InFile
    <3>2. free' \cap (tree \cup freed \cup trunks \cup dead_trunks) = {}
      BY <1>0, <2>2 DEF NoDoubleUse
    <3>3. NoDoubleUse'
      BY <1>0, <2>1, <2>3, <2>4, <3>2 DEF NoDoubleUse
    <3> QED
      BY <3>1, <3>3
<1>7. CASE BeginCommit
  BY <1>0, <1>7, SMTT(20) DEF BeginCommit, InFile, NoDoubleUse, PendingPages, PageInv, CommitPhase
<1>8. ASSUME durable' \in {durable, NewDurable}, dead_trunks' \subseteq dead_trunks,
             UNCHANGED <<tree, freed, pending, orphaned, free, trunks, page_count>>
      PROVE  InFile' /\ NoDoubleUse'
  <2>1. UNCHANGED PendingPages
    BY <1>8 DEF PendingPages
  <2>2. NoDoubleUse'
    BY <1>0, <1>8, <2>1 DEF NoDoubleUse
  <2>3. InFile'
    <3>1. CASE durable' = durable
      BY <1>0, <1>8, <2>1, <3>1 DEF InFile
    <3>2. CASE durable' = NewDurable
      BY <1>0, <1>8, <2>1, <3>2 DEF InFile, NewDurable
    <3> QED
      BY <1>8, <3>1, <3>2
  <2> QED
    BY <2>2, <2>3
<1>9. CASE Promote
  BY <1>0, <1>9 DEF Promote, InFile, NoDoubleUse, PendingPages
<1>10. CASE Publish
  <2>1. PendingPages' = PendingPages \cup freed
    <3>1. ASSUME NEW p \in freed PROVE p \in PendingPages'
      <4>1. <<durable.version.txn, p>> \in pending'
        BY <1>10 DEF Publish
      <4> QED
        BY <4>1 DEF PendingPages
    <3>2. ASSUME NEW e \in pending' PROVE e[2] \in PendingPages \cup freed
      BY <1>10 DEF Publish, PendingPages
    <3>3. PendingPages \subseteq PendingPages'
      BY <1>10 DEF Publish, PendingPages
    <3>4. PendingPages' \subseteq PendingPages \cup freed
      BY <3>2 DEF PendingPages
    <3> QED
      BY <3>1, <3>3, <3>4
  <2>2. freed' = {} /\ UNCHANGED <<tree, orphaned, free, trunks, dead_trunks, page_count, durable>>
    BY <1>10 DEF Publish
  <2>3. ASSUME NEW e \in pending', NEW f \in pending', e[2] = f[2] PROVE e = f
    BY <1>0, <1>10, <2>3, SMTT(20) DEF Publish, PendingPages, NoDoubleUse
  <2> QED
    BY <1>0, <2>1, <2>2, <2>3 DEF InFile, NoDoubleUse
<1> QED
  BY <1>1, <1>2, <1>3, <1>4, <1>5, <1>6, <1>7, <1>8, <1>9, <1>10, ZenonT(30)
  DEF Next, WriterStep, vars, Crash, Reopen, Acquire, Release, Submit, BeginJob,
      JobOk, JobNoop, FinishJob, StopBatch, Fatal, DropQueue, EndBatch,
      ReadWatermark, CommitDurable, CommitFails, Reply

\* The bookkeeping of a batch: a rejection can restore what the job found, and
\* an unmoved root means an unchanged tree.
LEMMA JobScopeStep ==
    ASSUME TypeOK, PageInv, [Next]_vars, ~Recover
    PROVE  JobScope'
<1> USE DEF pagerVars, registryVars, jobVars, writerVars, clientVars
<1>0. JobScope /\ NoDoubleUse /\ InFile /\ CommitPhase /\ Protected(reg)
  BY DEF PageInv, SnapshotsProtected
<1>1. CASE UNCHANGED <<wpc, batch, tree, freed, alloc_log, at_start, root, applied, root_before, reg>>
  BY <1>0, <1>1 DEF JobScope, Running
<1>2. CASE Drain
  BY <1>0, <1>2 DEF Drain, JobScope, Running
<1>3. CASE BeginJob
  BY <1>0, <1>3, SMTT(20) DEF BeginJob, JobScope, Running, NoDoubleUse, CommitPhase
<1>4. ASSUME NEW p \in Page, AllocPage(p) PROVE JobScope'
  <2>1. p \notin tree \cup freed
    <3>1. CASE p \in free
      BY <1>0, <3>1 DEF NoDoubleUse
    <3>2. CASE p = page_count
      BY <1>0, <3>2 DEF InFile, TypeOK
    <3> QED
      BY <1>4, <3>1, <3>2 DEF AllocPage
  <2>2. /\ wpc = "job" /\ alloc_log' = alloc_log \cup {p} /\ tree' = tree \cup {p}
        /\ UNCHANGED <<wpc, batch, freed, at_start, root, applied, root_before, reg>>
    BY <1>4 DEF AllocPage
  <2> QED
    BY <1>0, <2>1, <2>2, Zenon DEF JobScope, Running
<1>5. ASSUME NEW p \in Page, Supersede(p) PROVE JobScope'
  BY <1>0, <1>5 DEF Supersede, JobScope, Running
<1>6. ASSUME NEW p \in Page, JobOk(p) PROVE JobScope'
  <2>1. root_before = reg.root /\ p # reg.root
    BY <1>0, <1>6 DEF JobOk, JobScope, Protected
  <2> QED
    BY <1>0, <1>6, <2>1 DEF JobOk, FinishJob, JobScope, Running
<1>7. CASE JobNoop
  BY <1>0, <1>7 DEF JobNoop, FinishJob, JobScope, Running
<1>8. CASE JobReject
  BY <1>0, <1>8 DEF JobReject, FinishJob, JobScope, Running
<1>9. CASE EndBatch
  BY <1>0, <1>9, SMTT(20) DEF EndBatch, JobScope, Running
<1>10. CASE ReadWatermark \/ Reclaim \/ BeginCommit \/ CommitDurable \/ Promote
  BY <1>0, <1>10, SMTT(20)
  DEF ReadWatermark, Reclaim, BeginCommit, CommitDurable, Promote, JobScope, Running
<1>11. CASE Publish
  BY <1>0, <1>11, ZenonT(30) DEF Publish, JobScope, Running, CommitPhase
<1>12. CASE Fatal \/ CommitFails \/ DropQueue
  BY <1>0, <1>12, ZenonT(30) DEF Fatal, CommitFails, StopBatch, DropQueue, JobScope, Running
<1>13. ASSUME NEW q \in Request, Reply(q) PROVE JobScope'
  BY <1>0, <1>13 DEF Reply, JobScope, Running
<1> QED
  BY <1>1, <1>2, <1>3, <1>4, <1>5, <1>6, <1>7, <1>8, <1>9, <1>10, <1>11, <1>12, <1>13
  DEF Next, WriterStep, vars, Crash, Reopen, Acquire, Release, Submit

=============================================================================
