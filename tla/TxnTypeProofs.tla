--------------------------- MODULE TxnTypeProofs ----------------------------
(***************************************************************************)
(* Every step of Txn keeps the types, given PageInv.                       *)
(***************************************************************************)
EXTENDS Txn, FiniteSetTheorems, WellFoundedInduction, TLAPS

-----------------------------------------------------------------------------
(* Type correctness.                                                       *)

\* A page image, the null version and the version a commit installs are typed.
LEMMA ImageType ==
    ASSUME store \in [Page -> Content], NEW P \in SUBSET Page
    PROVE  Image(P) \in [Page -> Content]
BY DEF Image, Content

LEMMA NullVersionType == NullVersion \in Version
BY BoundsAssumption DEF NullVersion, Version, TxnId, Content

LEMMA NewDurableType ==
    ASSUME TypeOK, durable.version.txn < MaxTxn
    PROVE  NewDurable \in [version : Version, alloc : Allocator]
<1>1. Image(tree) \in [Page -> Content]
  BY ImageType DEF TypeOK
<1>2. durable.version.txn \in TxnId
  BY DEF TypeOK, Version
<1>3. durable.version.txn + 1 \in TxnId
  BY <1>2, BoundsAssumption DEF TxnId
<1> QED
  BY <1>1, <1>3 DEF TypeOK, NewDurable, Version, Allocator

\* A nonempty set of naturals has a least element.
LEMMA MinNat ==
    ASSUME NEW S \in SUBSET Nat, S # {}
    PROVE  \E x \in S : \A y \in S : x <= y
<1> DEFINE R == {ss \in Nat \X Nat : ss[1] < ss[2]}
<1>1. \E x \in S : \A y \in S : <<y, x>> \notin R
  <2> HIDE DEF R
  <2>1. IsWellFoundedOn(R, Nat)
    BY NatLessThanWellFounded DEF R, OpToRel
  <2> QED
    BY <2>1, WFMin, Zenon
<1>2. PICK x \in S : \A y \in S : <<y, x>> \notin R
  BY <1>1
<1>3. ASSUME NEW y \in S PROVE x <= y
  <2>1. ~ (<<y, x>>[1] < <<y, x>>[2])
    BY <1>2, Zenon
  <2> QED
    BY <2>1
<1> QED
  BY <1>3

\* The watermark is a transaction id or UNBOUNDED, and no pinned version is
\* older than it.
LEMMA WatermarkType ==
    ASSUME TypeOK
    PROVE  /\ Watermark \in 0 .. UNBOUNDED
           /\ \A t \in TxnId : live[t] > 0 => Watermark <= t
<1> DEFINE Pinned == {t \in TxnId : live[t] > 0}
<1>1. Pinned \subseteq Nat
  BY DEF TxnId
<1>2. CASE Pinned = {}
  BY <1>2, BoundsAssumption DEF Watermark, UNBOUNDED
<1>3. CASE Pinned # {}
  <2>1. \E t \in Pinned : \A u \in Pinned : t <= u
    BY <1>1, <1>3, MinNat, Zenon
  <2> QED
    BY <2>1, BoundsAssumption DEF Watermark, UNBOUNDED, TxnId
<1> QED
  BY <1>2, <1>3

\* Opening and dropping a snapshot keep every count equal to the number of
\* snapshots it stands for, so a drop never takes a count below zero.
LEMMA AcquireCounts ==
    ASSUME TypeOK, RefCounts, NEW r \in Reader, Acquire(r)
    PROVE  RefCounts' /\ live' \in [TxnId -> Nat]
<1> DEFINE At(t) == {x \in pinned : snap[x].txn = t}
<1> SUFFICES ASSUME NEW t \in TxnId
             PROVE  live'[t] = Cardinality(At(t)') /\ live'[t] \in Nat
  BY Zenon DEF RefCounts, Acquire, TypeOK
<1>1. IsFiniteSet(At(t)) /\ r \notin At(t)
  BY FS_Subset, ReadersAssumption DEF TypeOK, Acquire
<1>2. reg.txn \in TxnId /\ live[t] \in Nat /\ live[t] = Cardinality(At(t))
  BY DEF TypeOK, Version, RefCounts
<1>3. At(t)' = IF t = reg.txn THEN At(t) \cup {r} ELSE At(t)
  BY DEF TypeOK, Acquire
<1>4. live'[t] = IF t = reg.txn THEN live[t] + 1 ELSE live[t]
  BY <1>2 DEF TypeOK, Acquire
<1>5. Cardinality(At(t) \cup {r}) = Cardinality(At(t)) + 1
  BY <1>1, FS_AddElement, Zenon
<1>6. CASE t = reg.txn
  <2>1. Cardinality(At(t)') = Cardinality(At(t) \cup {r})
    BY <1>3, <1>6, Zenon
  <2> HIDE DEF At
  <2> QED
    BY <1>2, <1>4, <1>5, <1>6, <2>1
<1>7. CASE t # reg.txn
  BY <1>2, <1>3, <1>4, <1>7, Zenon
<1> QED
  BY <1>6, <1>7

LEMMA ReleaseCounts ==
    ASSUME TypeOK, RefCounts, NEW r \in Reader, Release(r)
    PROVE  RefCounts' /\ live' \in [TxnId -> Nat]
<1> DEFINE At(t) == {x \in pinned : snap[x].txn = t}
<1> SUFFICES ASSUME NEW t \in TxnId
             PROVE  live'[t] = Cardinality(At(t)') /\ live'[t] \in Nat
  BY Zenon DEF RefCounts, Release, TypeOK
<1>1. IsFiniteSet(At(t))
  BY FS_Subset, ReadersAssumption DEF TypeOK
<1>2. snap[r].txn \in TxnId /\ live[t] \in Nat /\ live[t] = Cardinality(At(t))
  BY DEF TypeOK, Version, RefCounts
<1>3. At(t)' = IF t = snap[r].txn THEN At(t) \ {r} ELSE At(t)
  BY DEF TypeOK, Release
<1>4. live'[t] = IF t = snap[r].txn THEN live[t] - 1 ELSE live[t]
  BY <1>2 DEF TypeOK, Release
<1>5. t = snap[r].txn => r \in At(t)
  BY DEF Release
<1>6. Cardinality(At(t) \ {r}) = IF r \in At(t) THEN Cardinality(At(t)) - 1 ELSE Cardinality(At(t))
  BY <1>1, FS_RemoveElement
<1>7. Cardinality(At(t) \ {r}) \in Nat
  BY <1>1, FS_RemoveElement, FS_CardinalityType, Zenon
<1> QED
  BY <1>2, <1>3, <1>4, <1>5, <1>6, <1>7, Zenon

LEMMA TypeInit == Init => TypeOK
<1> SUFFICES ASSUME Init PROVE TypeOK
  OBVIOUS
<1>1. 2 \in Page /\ 1 \in TxnId
  BY BoundsAssumption DEF Page, TxnId, FIRST_DATA_PAGE
<1> QED
  BY <1>1, NullVersionType, BoundsAssumption
  DEF Init, TypeOK, Content, Version, Allocator, NoJob, NoReplies, Outcome, Status, TxnId,
      WriterPc, UNBOUNDED

\* Recovery restores a typed state from the durable one.
LEMMA RecoverType ==
    ASSUME TypeOK, Recover, status' \in [Request -> Status], crashes' \in 0 .. MaxCrash
    PROVE  TypeOK'
<1>1. durable.version \in Version /\ durable.alloc \in Allocator
  BY DEF TypeOK
<1>2. store' \in [Page -> Content]
  BY DEF TypeOK, Recover, Content
<1>3. reg' \in Version /\ snap' \in [Reader -> Version]
  BY <1>1, NullVersionType DEF Recover
<1>4. root' \in Page \cup {0} /\ tree' \subseteq Page /\ applied' \subseteq Request
  BY <1>1 DEF Recover, Version
<1>5. free' \subseteq Page /\ trunks' \subseteq Page /\ page_count' \in 3 .. MaxPages
  BY <1>1 DEF Recover, Allocator
<1>6. root_before' \in Page \cup {0}
  BY <1>1 DEF Recover, Version
<1>7. wm' \in 0 .. UNBOUNDED /\ live' \in [TxnId -> Nat]
  BY BoundsAssumption DEF Recover, UNBOUNDED
<1> QED
  BY <1>1, <1>2, <1>3, <1>4, <1>5, <1>6, <1>7
  DEF TypeOK, Recover, NoJob, NoReplies, Outcome, WriterPc

\* Every step keeps the types.  The three facts it needs of PageInv are the
\* reference counts, that a running job has a request, and the room for one
\* more transaction id.
LEMMA TypeStep == TypeOK /\ PageInv /\ [Next]_vars => TypeOK'
<1> SUFFICES ASSUME TypeOK, PageInv, [Next]_vars PROVE TypeOK'
  OBVIOUS
<1> USE DEF pagerVars, registryVars, jobVars, writerVars, clientVars
<1>1. CASE UNCHANGED vars
  BY <1>1 DEF vars, TypeOK
<1>2. ASSUME NEW r \in Reader, Acquire(r) PROVE TypeOK'
  BY <1>2, AcquireCounts, Zenon DEF TypeOK, PageInv, Acquire
<1>3. ASSUME NEW r \in Reader, Release(r) PROVE TypeOK'
  BY <1>3, ReleaseCounts, NullVersionType, Zenon DEF TypeOK, PageInv, Release
<1>4. ASSUME NEW q \in Request, Submit(q) PROVE TypeOK'
  <2>1. status' \in [Request -> Status]
    BY <1>4, Zenon DEF TypeOK, Submit, Status
  <2>2. queue' \in Seq(Request)
    <3>1. queue \in Seq(Request)
      BY DEF TypeOK
    <3>2. queue' = queue \/ queue' = Append(queue, q)
      BY <1>4 DEF Submit
    <3> QED
      BY <3>1, <3>2
  <2>3. UNCHANGED <<pagerVars, registryVars, jobVars, writerVars, crashes>>
    BY <1>4 DEF Submit
  <2> QED
    BY <2>1, <2>2, <2>3 DEF TypeOK
<1>5. CASE Crash
  <2>1. status' \in [Request -> Status] /\ crashes' \in 0 .. MaxCrash
    BY <1>5, BoundsAssumption DEF Crash, TypeOK, Status
  <2> QED
    BY <1>5, <2>1, RecoverType DEF Crash
<1>6. CASE Reopen
  BY <1>6, RecoverType, SMTT(20) DEF Reopen, TypeOK
<1>7. CASE Drain
  BY <1>7 DEF Drain, TypeOK, NoReplies, Outcome, WriterPc
<1>8. CASE BeginJob
  BY <1>8 DEF BeginJob, TypeOK, WriterPc
<1>9. ASSUME NEW p \in Page, AllocPage(p) PROVE TypeOK'
  <2>1. Head(batch) \in Request
    BY <1>9, SMTT(20) DEF AllocPage, TypeOK, PageInv, JobScope
  <2> QED
    BY <1>9, <2>1, BoundsAssumption DEF AllocPage, TypeOK, Content
<1>10. ASSUME NEW p \in Page, Supersede(p) PROVE TypeOK'
  BY <1>10 DEF Supersede, TypeOK
<1>11. ASSUME NEW res \in Outcome, wpc = "job", FinishJob(res)
       PROVE  /\ outcome' \in [Request -> Outcome] /\ batch' \in Seq(Request)
              /\ at_start' \in [root : Page \cup {0}, tree : SUBSET Page, freed : SUBSET Page,
                                applied : SUBSET Request]
              /\ Head(batch) \in Request
  BY <1>11, SMTT(20) DEF FinishJob, TypeOK, PageInv, JobScope, NoJob
<1>12. ASSUME NEW p \in Page, JobOk(p) PROVE TypeOK'
  BY <1>12, <1>11 DEF JobOk, FinishJob, TypeOK, Outcome, WriterPc
<1>13. CASE JobNoop
  BY <1>13, <1>11 DEF JobNoop, FinishJob, TypeOK, Outcome, WriterPc
<1>14. CASE JobReject
  BY <1>14, <1>11 DEF JobReject, FinishJob, TypeOK, Outcome, WriterPc
<1>15. CASE Fatal
  BY <1>15 DEF Fatal, StopBatch, TypeOK, NoReplies, Outcome, Status, WriterPc
<1>16. CASE DropQueue
  BY <1>16 DEF DropQueue, TypeOK, Status, WriterPc
<1>17. CASE EndBatch
  BY <1>17 DEF EndBatch, TypeOK, WriterPc
<1>18. CASE ReadWatermark
  BY <1>18, WatermarkType, SMTT(20) DEF ReadWatermark, TypeOK, WriterPc
<1>19. CASE Reclaim
  <2>1. free' \subseteq Page /\ pending' \subseteq TxnId \X Page /\ orphaned' \subseteq Page
    BY <1>19, SMTT(20) DEF Reclaim, TypeOK
  <2>2. /\ wpc' \in WriterPc
        /\ UNCHANGED <<store, unsynced, trunks, dead_trunks, page_count, alloc_log, durable,
                       registryVars, jobVars, root_before, batch, outcome, wm, clientVars>>
    BY <1>19 DEF Reclaim, WriterPc
  <2> QED
    BY <2>1, <2>2 DEF TypeOK
<1>20. CASE BeginCommit
  BY <1>20 DEF BeginCommit, TypeOK, WriterPc, Content
<1>21. ASSUME wpc = "flush" PROVE NewDurable \in [version : Version, alloc : Allocator]
  BY <1>21, NewDurableType DEF PageInv, CommitPhase
<1>22. CASE CommitDurable
  BY <1>22, <1>21 DEF CommitDurable, TypeOK, WriterPc
<1>23. CASE CommitFails
  BY <1>23, <1>21 DEF CommitFails, StopBatch, TypeOK, NoReplies, Outcome, Status, WriterPc
<1>24. CASE Promote
  BY <1>24 DEF Promote, TypeOK, WriterPc
<1>25. CASE Publish
  BY <1>25 DEF Publish, TypeOK, WriterPc, Version
<1>26. ASSUME NEW q \in Request, Reply(q) PROVE TypeOK'
  BY <1>26 DEF Reply, TypeOK, Outcome, Status, WriterPc
<1> QED
  BY <1>1, <1>2, <1>3, <1>4, <1>5, <1>6, <1>7, <1>8, <1>9, <1>10, <1>12, <1>13, <1>14, <1>15,
     <1>16, <1>17, <1>18, <1>19, <1>20, <1>22, <1>23, <1>24, <1>25, <1>26
  DEF Next, WriterStep

=============================================================================
