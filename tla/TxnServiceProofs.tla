-------------------------- MODULE TxnServiceProofs --------------------------
(***************************************************************************)
(* Proofs that the answers a client gets are true, that readers see only   *)
(* committed versions, and that no page is lost while the database is open. *)
(***************************************************************************)
EXTENDS TxnProofs

-----------------------------------------------------------------------------
(* Sequences without repetition.                                           *)

LEMMA EmptySeq == \A q : ~In(q, <<>>) /\ Distinct(<<>>)
BY DEF In, Distinct

LEMMA HeadTail ==
    ASSUME NEW s \in Seq(Request), s # <<>>, Distinct(s)
    PROVE  /\ Head(s) \in Request /\ In(Head(s), s) /\ Distinct(Tail(s))
           /\ \A q : In(q, Tail(s)) => In(q, s) /\ q # Head(s)
<1>1. Len(s) > 0 /\ Head(s) = s[1] /\ Head(s) \in Request
  OBVIOUS
<1>2. In(Head(s), s)
  BY <1>1 DEF In
<1>3. \A i \in DOMAIN Tail(s) : i + 1 \in DOMAIN s /\ Tail(s)[i] = s[i + 1] /\ i + 1 # 1
  OBVIOUS
<1>4. Distinct(Tail(s))
  <2>1. ASSUME NEW i \in DOMAIN Tail(s), NEW j \in DOMAIN Tail(s), Tail(s)[i] = Tail(s)[j]
        PROVE  i = j
    <3>1. i + 1 = j + 1
      BY <1>3, <2>1 DEF Distinct
    <3> QED
      BY <3>1
  <2> QED
    BY <2>1 DEF Distinct
<1>5. ASSUME NEW q, In(q, Tail(s)) PROVE In(q, s) /\ q # Head(s)
  <2>1. PICK i \in DOMAIN Tail(s) : Tail(s)[i] = q
    BY <1>5 DEF In
  <2>2. i + 1 \in DOMAIN s /\ s[i + 1] = q /\ i + 1 # 1 /\ 1 \in DOMAIN s
    BY <1>1, <1>3, <2>1
  <2> QED
    BY <1>1, <2>2 DEF In, Distinct
<1> QED
  BY <1>1, <1>2, <1>4, <1>5

LEMMA AppendOne ==
    ASSUME NEW s \in Seq(Request), Distinct(s), NEW q \in Request, ~In(q, s)
    PROVE  /\ Distinct(Append(s, q))
           /\ \A x : In(x, Append(s, q)) => In(x, s) \/ x = q
<1> DEFINE t == Append(s, q)
<1>1. /\ DOMAIN t = DOMAIN s \cup {Len(s) + 1} /\ t[Len(s) + 1] = q
      /\ \A i \in DOMAIN s : t[i] = s[i]
  OBVIOUS
<1>2. \A i \in DOMAIN s : s[i] # q
  BY DEF In
<1> HIDE DEF t
<1>3. Distinct(t)
  BY <1>1, <1>2 DEF Distinct
<1>4. \A x : In(x, t) => In(x, s) \/ x = q
  BY <1>1 DEF In
<1> QED
  BY <1>3, <1>4 DEF t

-----------------------------------------------------------------------------
(* The inductive invariant, one lemma per conjunct.                        *)

LEMMA ServiceInit == Init => ServiceInv
<1> SUFFICES ASSUME Init PROVE ServiceInv
  OBVIOUS
<1>1. RequestsOnce
  BY EmptySeq DEF Init, RequestsOnce, NoReplies
<1>2. VersionsNest
  BY DEF Init, VersionsNest
<1>3. WritesTracked /\ OnlyAppliedWrites
  <2>1. 2 \in Page
    BY BoundsAssumption DEF Page, FIRST_DATA_PAGE
  <2>2. /\ store[2] = Seed /\ tree = {2} /\ freed = {}
        /\ durable.version.tree = {2} /\ durable.version.image[2] = Seed
    BY <2>1 DEF Init
  <2> QED
    BY <2>2 DEF WritesTracked, OnlyAppliedWrites
<1> QED
  BY <1>1, <1>2, <1>3 DEF ServiceInv

\* Only requests that were blocked in submit can be lost by a crash.
LEMMA ServiceRecover ==
    ASSUME TypeOK, PageInv, ServiceInv, Crash \/ Reopen
    PROVE  ServiceInv'
<1>1. /\ Recover
      /\ \A q \in Request : status'[q] = status[q] \/ (status[q] = "queued" /\ status'[q] = "lost")
  BY DEF Crash, Reopen
<1>2. RequestsOnce'
  <2>1. \A q \in Request : ~In(q, queue') /\ ~In(q, batch')
    BY <1>1, EmptySeq DEF Recover
  <2>2. Distinct(queue') /\ Distinct(batch')
    BY <1>1, EmptySeq DEF Recover
  <2>3. ASSUME NEW q \in Request, status'[q] \in {"new", "noop", "rejected"} PROVE q \notin applied'
    BY <1>1, <2>3 DEF Recover, ServiceInv, RequestsOnce, VersionsNest
  <2>4. ASSUME NEW q \in Request, status'[q] = "ok" PROVE q \in reg'.applied
    BY <1>1, <2>4 DEF Recover, ServiceInv, RequestsOnce, VersionsNest
  <2> QED
    BY <1>1, <2>1, <2>2, <2>3, <2>4 DEF Recover, RequestsOnce, NoReplies
<1>3. VersionsNest'
  BY <1>1 DEF Recover, VersionsNest
<1>4. OnlyAppliedWrites'
  BY <1>1 DEF Recover, ServiceInv, OnlyAppliedWrites
<1>5. WritesTracked'
  <2>1. ASSUME NEW p \in durable.version.tree PROVE store'[p] = durable.version.image[p]
    BY <1>1, <2>1 DEF Recover, PageInv, DurableIntact, Intact, TypeOK, Version
  <2> QED
    BY <1>1, <2>1, ZenonT(30) DEF Recover, WritesTracked, ServiceInv, OnlyAppliedWrites
<1> QED
  BY <1>2, <1>3, <1>4, <1>5 DEF ServiceInv

LEMMA RequestsStep ==
    ASSUME TypeOK, PageInv, ServiceInv, [Next]_vars, ~Crash, ~Reopen
    PROVE  RequestsOnce'
<1> USE DEF pagerVars, registryVars, jobVars, writerVars, clientVars
<1>0. RequestsOnce /\ VersionsNest /\ JobScope /\ CommitPhase
  BY DEF PageInv, ServiceInv
<1>a. queue \in Seq(Request) /\ batch \in Seq(Request) /\ outcome \in [Request -> Outcome]
      /\ status \in [Request -> Status]
  BY DEF TypeOK
<1>1. CASE UNCHANGED <<queue, batch, outcome, status, applied, reg, wpc>>
  BY <1>0, <1>1 DEF RequestsOnce
<1>2. ASSUME NEW q \in Request, Submit(q) PROVE RequestsOnce'
  <2>0. ~In(q, queue) /\ ~In(q, batch) /\ outcome[q] = "none" /\ q \notin applied
    BY <1>0, <1>2 DEF Submit, RequestsOnce
  <2>1. UNCHANGED <<batch, outcome, applied, reg, wpc>>
        /\ status' = [status EXCEPT ![q] = status'[q]] /\ status'[q] \in {"queued", "stopped"}
    BY <1>a, <1>2 DEF Submit
  <2>2. CASE queue' = queue
    <3>1. \A x \in Request : In(x, queue) => x # q
      BY <2>0
    <3> QED
      BY <1>0, <1>a, <2>0, <2>1, <2>2, <3>1 DEF RequestsOnce
  <2>3. CASE queue' = Append(queue, q) /\ status'[q] = "queued"
    <3>1. Distinct(queue') /\ \A x : In(x, queue') => In(x, queue) \/ x = q
      BY <1>0, <1>a, <2>0, <2>3, AppendOne DEF RequestsOnce
    <3> QED
      BY <1>0, <1>a, <2>0, <2>1, <2>3, <3>1 DEF RequestsOnce
  <2> QED
    BY <1>a, <1>2, <2>2, <2>3 DEF Submit
<1>3. CASE Drain
  BY <1>0, <1>3, EmptySeq DEF Drain, RequestsOnce, NoReplies
<1>4. CASE BeginJob
  BY <1>0, <1>4 DEF BeginJob, RequestsOnce
<1>5. ASSUME wpc = "job"
      PROVE  /\ Head(batch) \in Request /\ In(Head(batch), batch) /\ Distinct(Tail(batch))
             /\ \A q : In(q, Tail(batch)) => In(q, batch) /\ q # Head(batch)
  BY <1>0, <1>a, <1>5, HeadTail DEF RequestsOnce, JobScope
<1>6. ASSUME NEW p \in Page, JobOk(p) PROVE RequestsOnce'
  BY <1>0, <1>a, <1>5, <1>6 DEF JobOk, FinishJob, RequestsOnce
<1>7. CASE JobNoop
  BY <1>0, <1>a, <1>5, <1>7 DEF JobNoop, FinishJob, RequestsOnce
<1>8. CASE JobReject
  <2>1. applied' = applied
    BY <1>0, <1>8 DEF JobReject, JobScope
  <2> QED
    BY <1>0, <1>a, <1>5, <1>8, <2>1 DEF JobReject, FinishJob, RequestsOnce
<1>9. CASE StopBatch
  BY <1>0, <1>a, <1>9, EmptySeq DEF StopBatch, RequestsOnce, NoReplies, In
<1>10. CASE DropQueue
  <2>1. \A q \in Request : status'[q] = IF In(q, queue) THEN "stopped" ELSE status[q]
    BY <1>10 DEF DropQueue, In
  <2> QED
    BY <1>0, <1>10, <2>1, EmptySeq, SMTT(20) DEF DropQueue, RequestsOnce
<1>11. CASE EndBatch
  BY <1>0, <1>11, SMTT(20) DEF EndBatch, RequestsOnce
<1>12. CASE ReadWatermark \/ Reclaim \/ BeginCommit \/ CommitDurable \/ Promote
  BY <1>0, <1>12, SMTT(20)
  DEF ReadWatermark, Reclaim, BeginCommit, CommitDurable, Promote, RequestsOnce
<1>13. CASE Publish
  BY <1>0, <1>13, ZenonT(30) DEF Publish, RequestsOnce, VersionsNest
<1>14. ASSUME NEW q \in Request, Reply(q) PROVE RequestsOnce'
  <2>1. applied = reg.applied /\ batch = <<>> /\ batch' = <<>>
    BY <1>0, <1>14, Zenon DEF Reply, JobScope, RequestsOnce
  <2>2. /\ UNCHANGED <<queue, applied, reg>> /\ outcome' = [outcome EXCEPT ![q] = "none"]
        /\ status' = [status EXCEPT ![q] = outcome[q]] /\ outcome[q] # "none"
        /\ wpc' \in {"idle", "reply"} /\ (wpc' = "idle" => outcome' = NoReplies)
    BY <1>14 DEF Reply
  <2>3. ~In(q, queue)
    BY <1>0, <2>2 DEF RequestsOnce
  <2>4. outcome[q] \in {"ok", "noop", "rejected"}
    BY <1>a, <2>2 DEF Outcome
  <2>5. ASSUME NEW x \in Request
        PROVE  /\ In(x, queue) => status'[x] = "queued" /\ outcome'[x] = "none"
               /\ outcome'[x] # "none" => status'[x] = "queued"
               /\ \/ status'[x] \in {"new", "noop", "rejected"} \/ In(x, queue)
                  \/ outcome'[x] \in {"noop", "rejected"}
                  => x \notin applied
               /\ outcome'[x] = "ok" => x \in applied
               /\ status'[x] = "ok" => x \in reg.applied
    BY <1>0, <1>a, <2>1, <2>2, <2>3, <2>4 DEF RequestsOnce
  <2> QED
    BY <1>0, <2>1, <2>2, <2>5, EmptySeq, SMTT(20) DEF RequestsOnce
<1> QED
  BY <1>1, <1>2, <1>3, <1>4, <1>6, <1>7, <1>8, <1>9, <1>10, <1>11, <1>12, <1>13, <1>14
  DEF Next, WriterStep, vars, Acquire, Release, AllocPage, Supersede, Fatal, CommitFails

LEMMA VersionsStep ==
    ASSUME TypeOK, PageInv, ServiceInv, [Next]_vars, ~Crash, ~Reopen
    PROVE  VersionsNest'
<1> USE DEF pagerVars, registryVars, jobVars, writerVars, clientVars
<1>0. RequestsOnce /\ VersionsNest /\ JobScope /\ CommitPhase
  BY DEF PageInv, ServiceInv
<1>a. /\ batch \in Seq(Request) /\ outcome \in [Request -> Outcome]
      /\ applied \subseteq Request /\ snap \in [Reader -> Version] /\ pinned \subseteq Reader
  BY DEF TypeOK
<1>1. CASE /\ UNCHANGED <<pinned, snap, reg, durable, applied>>
           /\ Running' => Running /\ outcome' = outcome
  BY <1>0, <1>1 DEF VersionsNest
<1>2. ASSUME NEW r \in Reader, Acquire(r) PROVE VersionsNest'
  BY <1>0, <1>a, <1>2 DEF Acquire, VersionsNest, Running
<1>3. ASSUME NEW r \in Reader, Release(r) PROVE VersionsNest'
  BY <1>0, <1>a, <1>3 DEF Release, VersionsNest, Running
<1>4. CASE Drain
  BY <1>0, <1>a, <1>4 DEF Drain, VersionsNest, RequestsOnce, NoReplies, Running
<1>5. ASSUME wpc = "job"
      PROVE  Head(batch) \in Request /\ Head(batch) \notin applied
  BY <1>0, <1>a, <1>5, HeadTail DEF RequestsOnce, JobScope
<1>6. ASSUME NEW p \in Page, JobOk(p) PROVE VersionsNest'
  BY <1>0, <1>a, <1>5, <1>6 DEF JobOk, FinishJob, VersionsNest, Running
<1>7. CASE JobNoop \/ JobReject
  <2>1. /\ UNCHANGED <<pinned, snap, reg, durable, applied>> /\ wpc = "job"
        /\ \E o \in Outcome : outcome' = [outcome EXCEPT ![Head(batch)] = o]
    BY <1>0, <1>7 DEF JobNoop, JobReject, FinishJob, JobScope, Outcome
  <2> QED
    BY <1>0, <1>a, <1>5, <2>1, SMTT(20) DEF VersionsNest, Running
<1>8. ASSUME wpc = "flush", UNCHANGED <<pinned, snap, reg, applied, outcome>>, durable' = NewDurable
      PROVE  VersionsNest'
  BY <1>0, <1>8 DEF NewDurable, VersionsNest
<1>9. CASE CommitDurable
  BY <1>8, <1>9, SMTT(20) DEF CommitDurable
<1>10. CASE CommitFails
  <2>1. UNCHANGED <<pinned, snap, reg, applied>> /\ ~Running'
    BY <1>10 DEF CommitFails, StopBatch, Running
  <2>2. durable' = durable \/ durable' = NewDurable
    BY <1>10, Zenon DEF CommitFails
  <2>3. applied \subseteq applied /\ reg.applied \subseteq applied
    BY <1>0 DEF VersionsNest
  <2>4. NewDurable.version.applied = applied
    BY DEF NewDurable
  <2> QED
    BY <1>0, <2>1, <2>2, <2>3, <2>4 DEF VersionsNest
<1>11. CASE Publish
  BY <1>0, <1>11 DEF Publish, VersionsNest, Running
<1>12. ASSUME NEW q \in Request, Reply(q) PROVE VersionsNest'
  BY <1>0, <1>a, <1>12 DEF Reply, VersionsNest, JobScope, Running
<1>13. CASE Fatal
  BY <1>0, <1>13, SMTT(20) DEF Fatal, StopBatch, VersionsNest, Running
<1>14. CASE BeginJob \/ DropQueue \/ EndBatch \/ ReadWatermark \/ Reclaim \/ BeginCommit \/ Promote
  <2>1. UNCHANGED <<pinned, snap, reg, durable, applied>>
    BY <1>14, Zenon
    DEF BeginJob, DropQueue, EndBatch, ReadWatermark, Reclaim, BeginCommit, Promote
  <2>2. CASE DropQueue
    BY <1>1, <2>1, <2>2 DEF DropQueue, Running
  <2>3. CASE BeginJob \/ EndBatch \/ ReadWatermark \/ Reclaim \/ BeginCommit \/ Promote
    <3>1. outcome' = outcome /\ Running
      BY <2>3 DEF BeginJob, EndBatch, ReadWatermark, Reclaim, BeginCommit, Promote, Running
    <3> QED
      BY <1>1, <2>1, <3>1, Zenon
  <2> QED
    BY <1>14, <2>2, <2>3, Zenon
<1>15. ASSUME NEW p \in Page, AllocPage(p) \/ Supersede(p) PROVE VersionsNest'
  BY <1>1, <1>15, Zenon DEF AllocPage, Supersede, Running
<1>16. ASSUME NEW q \in Request, Submit(q) PROVE VersionsNest'
  BY <1>1, <1>16 DEF Submit, Running
<1>17. CASE UNCHANGED vars
  BY <1>1, <1>17 DEF vars, Running
<1> QED
  BY <1>2, <1>3, <1>4, <1>6, <1>7, <1>9, <1>10, <1>11, <1>12, <1>13, <1>14, <1>15, <1>16, <1>17
  DEF Next, WriterStep

LEMMA WritesStep ==
    ASSUME TypeOK, PageInv, ServiceInv, [Next]_vars, ~Crash, ~Reopen
    PROVE  WritesTracked'
<1> USE DEF pagerVars, registryVars, jobVars, writerVars, clientVars
<1>0. WritesTracked /\ JobScope /\ NoDoubleUse
  BY DEF PageInv, ServiceInv
<1>a. store \in [Page -> Content] /\ tree \subseteq Page /\ freed \subseteq Page
  BY DEF TypeOK
<1>1. CASE /\ UNCHANGED <<store, applied>>
           /\ tree' \cup freed' \subseteq tree \cup freed
           /\ Running' => Running /\ wpc # "job"
  BY <1>0, <1>1 DEF WritesTracked
<1>2. CASE /\ UNCHANGED <<store, applied, alloc_log, batch, wpc>>
           /\ tree' \cup freed' \subseteq tree \cup freed
  BY <1>0, <1>2 DEF WritesTracked, Running
<1>3. ASSUME NEW p \in Page, AllocPage(p) PROVE WritesTracked'
  <2>1. /\ store' = [store EXCEPT ![p] = Head(batch)] /\ alloc_log' = alloc_log \cup {p}
        /\ tree' = tree \cup {p} /\ UNCHANGED <<freed, applied, batch, wpc>> /\ wpc = "job"
    BY <1>3 DEF AllocPage
  <2> QED
    BY <1>0, <1>a, <2>1 DEF WritesTracked, Running
<1>4. ASSUME NEW p \in Page, Supersede(p) PROVE WritesTracked'
  BY <1>2, <1>4 DEF Supersede
<1>5. ASSUME NEW p \in Page, JobOk(p) PROVE WritesTracked'
  BY <1>0, <1>5 DEF JobOk, FinishJob, WritesTracked, Running
<1>6. CASE JobNoop
  BY <1>0, <1>6 DEF JobNoop, FinishJob, WritesTracked, Running
<1>7. CASE JobReject
  <2>1. /\ UNCHANGED <<store, applied>> /\ wpc = "job"
        /\ tree' = at_start.tree /\ freed' = at_start.freed
    BY <1>0, <1>7 DEF JobReject, FinishJob, JobScope
  <2>2. \A p \in tree' \cup freed' : p \in tree \cup freed /\ p \notin alloc_log
    BY <1>0, <2>1 DEF JobScope
  <2> QED
    BY <1>0, <2>1, <2>2 DEF WritesTracked, Running
<1>8. CASE BeginCommit
  <2>1. \A p \in tree \cup freed : store'[p] = store[p]
    BY <1>0, <1>a, <1>8 DEF BeginCommit, NoDoubleUse
  <2> QED
    BY <1>0, <1>8, <2>1 DEF BeginCommit, WritesTracked, Running
<1>9. CASE Fatal \/ CommitFails
  BY <1>9, SMTT(20) DEF Fatal, CommitFails, StopBatch, WritesTracked, Running
<1>10. CASE Drain \/ BeginJob \/ DropQueue \/ EndBatch \/ ReadWatermark
  BY <1>1, <1>10, SMTT(20) DEF Drain, BeginJob, DropQueue, EndBatch, ReadWatermark, Running
<1>11. CASE Reclaim \/ CommitDurable \/ Promote \/ Publish
  BY <1>1, <1>11, Zenon DEF Reclaim, CommitDurable, Promote, Publish, Running
<1>12. ASSUME NEW q \in Request, Reply(q) PROVE WritesTracked'
  BY <1>1, <1>12 DEF Reply, Running
<1>13. ASSUME NEW q \in Request, Submit(q) PROVE WritesTracked'
  BY <1>2, <1>13 DEF Submit
<1>14. ASSUME NEW r \in Reader, Acquire(r) \/ Release(r) PROVE WritesTracked'
  BY <1>2, <1>14 DEF Acquire, Release
<1>15. CASE UNCHANGED vars
  BY <1>2, <1>15, SMTT(20) DEF vars
<1> QED
  BY <1>3, <1>4, <1>5, <1>6, <1>7, <1>8, <1>9, <1>10, <1>11, <1>12, <1>13, <1>14, <1>15, SMTT(20)
  DEF Next, WriterStep

LEMMA OnlyAppliedStep ==
    ASSUME TypeOK, PageInv, ServiceInv, [Next]_vars, ~Crash, ~Reopen
    PROVE  OnlyAppliedWrites'
<1> USE DEF pagerVars, registryVars, jobVars, writerVars, clientVars
<1>1. CASE UNCHANGED durable
  BY <1>1 DEF ServiceInv, OnlyAppliedWrites
<1>2. ASSUME wpc = "flush", durable' = NewDurable PROVE OnlyAppliedWrites'
  <2>1. \A p \in tree : store[p] \in applied \cup {Seed}
    BY <1>2 DEF ServiceInv, WritesTracked, Running
  <2>2. tree \subseteq Page
    BY DEF TypeOK
  <2> QED
    BY <1>2, <2>1, <2>2 DEF NewDurable, Image, OnlyAppliedWrites
<1> QED
  BY <1>1, <1>2, ZenonT(30)
  DEF Next, WriterStep, vars, Acquire, Release, Submit, Drain, BeginJob, AllocPage, Supersede,
      JobOk, JobNoop, JobReject, FinishJob, Fatal, DropQueue, EndBatch, ReadWatermark, Reclaim,
      BeginCommit, CommitDurable, CommitFails, Promote, Publish, Reply

LEMMA ServiceInductive ==
    TypeOK /\ PageInv /\ ServiceInv /\ [Next]_vars => ServiceInv'
BY ServiceRecover, RequestsStep, VersionsStep, WritesStep, OnlyAppliedStep DEF ServiceInv

-----------------------------------------------------------------------------
(* The theorems.                                                           *)

\* The invariant that ties requests, versions and page contents together holds
\* in every reachable state (writer.rs process_batch and run, db.rs submit).
THEOREM ServiceSafety == Spec => []ServiceInv
BY ServiceInit, ServiceInductive, TypeCorrect, PageSafety, PTL DEF Spec

\* A request answered Ok is durable and visible; one answered with a rejection
\* or as a no-op is in no version (writer.rs process_batch).
THEOREM AnswersAlwaysTrue == Spec => []AnswersTrue
<1>1. ServiceInv => AnswersTrue
  BY DEF ServiceInv, RequestsOnce, VersionsNest, AnswersTrue
<1> QED
  BY <1>1, ServiceSafety, PTL

\* A rejected job leaves no trace in what its batch commits (writer.rs
\* process_batch, the rejected arm).
THEOREM RejectedLeaveNoTrace == Spec => []OnlyAppliedWrites
<1>1. ServiceInv => OnlyAppliedWrites
  BY DEF ServiceInv
<1> QED
  BY <1>1, ServiceSafety, PTL

\* A reader is never shown a version that a crash could take back (writer.rs
\* publish after commit).
THEOREM ReadersSeeCommitted == Spec => []ReadsAreCommitted
<1>1. ServiceInv /\ PageInv => ReadsAreCommitted
  BY ZenonT(30)
  DEF ServiceInv, VersionsNest, PageInv, SnapshotsProtected, CommitPhase, ReadsAreCommitted
<1> QED
  BY <1>1, ServiceSafety, PageSafety, PTL

-----------------------------------------------------------------------------
(* No page is forgotten while the database is open.                        *)

LEMMA NothingLostStep ==
    ASSUME TypeOK, PageInv, [Next]_vars
    PROVE  Lost' \subseteq Lost \/ Recover \/ CommitFails \/ UNCHANGED vars
<1> USE DEF pagerVars, registryVars, jobVars, writerVars, clientVars
<1>0. JobScope /\ CommitPhase /\ page_count \in Nat
  BY BoundsAssumption DEF PageInv, TypeOK
<1> DEFINE Owned == tree \cup freed \cup PendingPages \cup orphaned \cup free \cup trunks \cup dead_trunks
<1>1. ASSUME page_count' = page_count, Owned \subseteq Owned' PROVE Lost' \subseteq Lost
  BY <1>1 DEF Lost
<1>2. ASSUME NEW p \in Page, AllocPage(p) PROVE Lost' \subseteq Lost
  <2>1. Owned \cup {p} \subseteq Owned'
    BY <1>2 DEF AllocPage, PendingPages
  <2>2. page_count' = page_count \/ (p = page_count /\ page_count' = page_count + 1)
    BY <1>2 DEF AllocPage
  <2>3. ASSUME NEW x \in Lost' PROVE x \in Lost
    BY <1>0, <2>1, <2>2, <2>3 DEF Lost, FIRST_DATA_PAGE
  <2> QED
    BY <2>3
<1>3. ASSUME NEW p \in Page, Supersede(p) PROVE Lost' \subseteq Lost
  BY <1>1, <1>3 DEF Supersede, PendingPages
<1>4. CASE JobReject
  <2>1. tree \cup freed \subseteq tree' \cup freed' \cup orphaned' /\ orphaned \subseteq orphaned'
    BY <1>0, <1>4 DEF JobReject, JobScope
  <2>2. UNCHANGED <<PendingPages, free, trunks, dead_trunks, page_count>>
    BY <1>4 DEF JobReject, FinishJob, PendingPages
  <2> QED
    BY <1>1, <2>1, <2>2
<1>5. CASE Reclaim
  <2>1. PendingPages \subseteq PendingPages' \cup free'
    BY <1>5 DEF Reclaim, PendingPages
  <2>2. /\ free \subseteq free' /\ orphaned \subseteq free'
        /\ UNCHANGED <<tree, freed, trunks, dead_trunks, page_count>>
    BY <1>5 DEF Reclaim
  <2> QED
    BY <1>1, <2>1, <2>2
<1>6. CASE BeginCommit
  <2>1. dead_trunks = {}
    BY <1>0, <1>6 DEF BeginCommit, CommitPhase
  <2> QED
    BY <1>1, <1>6, <2>1, SMTT(20) DEF BeginCommit, PendingPages
<1>7. CASE Promote
  BY <1>1, <1>7 DEF Promote, PendingPages
<1>8. CASE Publish
  <2>1. PendingPages \cup freed \subseteq PendingPages'
    <3>1. ASSUME NEW p \in freed PROVE p \in PendingPages'
      <4>1. <<durable.version.txn, p>> \in pending' /\ <<durable.version.txn, p>>[2] = p
        BY <1>8 DEF Publish
      <4> QED
        BY <4>1 DEF PendingPages
    <3>2. pending \subseteq pending'
      BY <1>8 DEF Publish
    <3> QED
      BY <3>1, <3>2 DEF PendingPages
  <2> QED
    BY <1>1, <1>8, <2>1 DEF Publish
<1>9. CASE Drain
  BY <1>0, <1>1, <1>9 DEF Drain, PendingPages, JobScope
<1>10. CASE UNCHANGED <<tree, freed, pending, orphaned, free, trunks, dead_trunks, page_count>>
  BY <1>1, <1>10 DEF PendingPages
<1> QED
  BY <1>2, <1>3, <1>4, <1>5, <1>6, <1>7, <1>8, <1>9, <1>10, ZenonT(30)
  DEF Next, WriterStep, vars, Crash, Reopen, Acquire, Release, Submit, BeginJob, JobOk, JobNoop,
      FinishJob, StopBatch, Fatal, DropQueue, EndBatch, ReadWatermark, CommitDurable, Reply

\* No step but a reopen or a failed commit takes a page of the file out of the books (writer.rs
\* process_batch, pager.rs commit).
THEOREM NothingLost == Spec => NothingLostWhileOpen
<1>1. TypeOK /\ PageInv /\ [Next]_vars => [Lost' \subseteq Lost \/ Recover \/ CommitFails]_vars
  BY NothingLostStep
<1> QED
  BY <1>1, TypeCorrect, PageSafety, PTL DEF Spec, NothingLostWhileOpen

=============================================================================
