-------------------------------- MODULE Txn --------------------------------
(***************************************************************************)
(* The transaction layer (crates/txn): the single writer thread with its   *)
(* queue and group commit, the registry of read snapshots, and the life of *)
(* a page from allocation to reclamation.                                  *)
(*                                                                         *)
(* The pager below is used through what it promises (module PageStore,     *)
(* which module Pager is checked to implement): a set of free pages, a     *)
(* high-water mark, and a commit that is atomic at its second fsync.  The  *)
(* B+trees above are used through their copy-on-write contract: a job      *)
(* allocates and writes fresh pages, reports the pages it superseded and   *)
(* moves the root to a page it allocated.  A database version is then the  *)
(* set of pages its root reaches and what was on them when it committed.   *)
(***************************************************************************)
EXTENDS Naturals, Sequences, FiniteSets

CONSTANTS
    Request,    \* write transactions, each submitted at most once
    Reader,     \* read snapshots that can be open at the same time
    CAPACITY,   \* free ids one trunk page holds
    MaxPages,   \* bound on page_count
    MaxTxn,     \* bound on the number of commits
    MaxCrash,   \* bound on crashes
    JobPages,   \* bound on the pages one job allocates
    Seed, Blank, Trunk, Torn   \* page contents other than "written by request q"

ASSUME BoundsAssumption ==
    /\ CAPACITY \in Nat \ {0}
    /\ MaxPages \in Nat /\ MaxPages > 2
    /\ MaxTxn \in Nat \ {0}
    /\ MaxCrash \in Nat
    /\ JobPages \in Nat

ASSUME ContentAssumption ==
    /\ {Seed, Blank, Trunk, Torn} \cap Request = {}
    /\ Cardinality({Seed, Blank, Trunk, Torn}) = 4

ASSUME ReadersAssumption == IsFiniteSet(Reader)

FIRST_DATA_PAGE == 2
Page == FIRST_DATA_PAGE .. (MaxPages - 1)
TxnId == 0 .. MaxTxn

\* u64::MAX: above every transaction id.
UNBOUNDED == MaxTxn + 1

\* A page holds what the last job to write it put there, the empty root of a
\* new database, a free-list trunk, or garbage after a crash.
Content == Request \cup {Seed, Blank, Trunk, Torn}

VARIABLES
    \* the pager, as this layer sees it
    store,        \* page -> content, cache over backend
    unsynced,     \* pages whose content may not be on disk yet
    free,         \* free_set
    trunks,       \* pages spent on the serialized free list
    dead_trunks,  \* trunks of the previous commit, held back during a commit
    page_count,
    alloc_log,    \* pages allocated by the running job
    durable,      \* what recovery would adopt: a version and its allocator
    \* the registry
    reg,          \* latest published version
    live,         \* txn id -> number of snapshots pinned at it
    pinned,       \* readers that hold a snapshot
    snap,         \* reader -> the version it pinned
    \* the writer
    wpc,          \* where the writer thread is
    root, tree,   \* live root and the pages it reaches
    applied,      \* requests whose effect is in tree
    root_before,  \* root when the batch began
    at_start,     \* root, tree and freed list when the running job began
    batch,        \* requests of the batch still to run
    outcome,      \* how the requests already run in this batch fared
    freed,        \* batch_freed
    pending,      \* <<T, page>>: page superseded by commit T, not yet reclaimed
    orphaned,     \* pages allocated by rejected jobs
    wm,           \* the watermark reclaim() read
    \* the clients
    queue, status, crashes

pagerVars == <<store, unsynced, free, trunks, dead_trunks, page_count, alloc_log, durable>>
registryVars == <<reg, live, pinned, snap>>
jobVars == <<root, tree, applied, freed, at_start>>
writerVars == <<wpc, root_before, batch, outcome, pending, orphaned, wm>>
clientVars == <<queue, status, crashes>>
vars == <<pagerVars, registryVars, jobVars, writerVars, clientVars>>

\* What a version's pages hold, as opposed to what they may hold later.
Image(pages) == [p \in Page |-> IF p \in pages THEN store[p] ELSE Blank]

Version == [txn : TxnId, root : Page \cup {0}, tree : SUBSET Page,
            image : [Page -> Content], applied : SUBSET Request]

NullVersion == [txn |-> 0, root |-> 0, tree |-> {},
                image |-> [p \in Page |-> Blank], applied |-> {}]

Allocator == [free : SUBSET Page, trunks : SUBSET Page, page_count : 3 .. MaxPages]

Outcome == {"none", "ok", "noop", "rejected"}
Status == {"new", "queued", "ok", "noop", "rejected", "stopped", "lost"}

NoReplies == [q \in Request |-> "none"]
NoJob == [root |-> 0, tree |-> {}, freed |-> {}, applied |-> {}]

-----------------------------------------------------------------------------
(* Opening a database.                                                     *)

\* JobDb::create has committed an empty root as transaction 1.
Init ==
    LET v == [txn |-> 1, root |-> 2, tree |-> {2}, applied |-> {},
              image |-> [p \in Page |-> IF p = 2 THEN Seed ELSE Blank]]
    IN  /\ store = v.image
        /\ unsynced = {} /\ free = {} /\ trunks = {} /\ dead_trunks = {}
        /\ page_count = 3 /\ alloc_log = {}
        /\ durable = [version |-> v,
                      alloc |-> [free |-> {}, trunks |-> {}, page_count |-> 3]]
        /\ reg = v
        /\ live = [t \in TxnId |-> 0]
        /\ pinned = {} /\ snap = [r \in Reader |-> NullVersion]
        /\ wpc = "idle" /\ root = 2 /\ tree = {2} /\ applied = {}
        /\ root_before = 2 /\ at_start = NoJob /\ batch = <<>> /\ outcome = NoReplies
        /\ freed = {} /\ pending = {} /\ orphaned = {} /\ wm = 0
        /\ queue = <<>> /\ status = [q \in Request |-> "new"] /\ crashes = 0

\* The process is gone and the file is opened again: only the durable version
\* and its free list survive.  A page that was not synced may hold anything.
\* Pager::open with load_free_list, then JobDb::open and spawn.
Recover ==
    /\ store' = [p \in Page |-> IF p \in unsynced THEN Torn ELSE store[p]]
    /\ unsynced' = {}
    /\ free' = durable.alloc.free /\ trunks' = durable.alloc.trunks
    /\ page_count' = durable.alloc.page_count
    /\ dead_trunks' = {} /\ alloc_log' = {}
    /\ reg' = durable.version
    /\ live' = [t \in TxnId |-> 0]
    /\ pinned' = {} /\ snap' = [r \in Reader |-> NullVersion]
    /\ wpc' = "idle"
    /\ root' = durable.version.root /\ tree' = durable.version.tree
    /\ applied' = durable.version.applied
    /\ root_before' = durable.version.root /\ at_start' = NoJob
    /\ batch' = <<>> /\ outcome' = NoReplies
    /\ freed' = {} /\ pending' = {} /\ orphaned' = {} /\ wm' = 0
    /\ queue' = <<>>
    /\ UNCHANGED durable

\* The process dies at any point; clients blocked in submit die with it.
Crash ==
    /\ crashes < MaxCrash
    /\ crashes' = crashes + 1
    /\ status' = [q \in Request |-> IF status[q] = "queued" THEN "lost" ELSE status[q]]
    /\ Recover

\* Every handle is dropped (no submit is blocked, no snapshot is held), the
\* writer is joined, and the file is opened again.
Reopen ==
    /\ wpc \in {"idle", "stopped"}
    /\ pinned = {}
    /\ \A q \in Request : status[q] # "queued"
    /\ Recover
    /\ UNCHANGED <<status, crashes>>

-----------------------------------------------------------------------------
(* Readers: registry.rs acquire and release, db.rs snapshot and Drop.      *)

\* Mutant: a second snapshot of a version does not raise its count.
AcquireUncounted(r) ==
    /\ r \notin pinned
    /\ pinned' = pinned \cup {r}
    /\ snap' = [snap EXCEPT ![r] = reg]
    /\ live' = [live EXCEPT ![reg.txn] = 1]
    /\ UNCHANGED <<pagerVars, reg, jobVars, writerVars, clientVars>>

Acquire(r) ==
    /\ r \notin pinned
    /\ pinned' = pinned \cup {r}
    /\ snap' = [snap EXCEPT ![r] = reg]
    /\ live' = [live EXCEPT ![reg.txn] = @ + 1]
    /\ UNCHANGED <<pagerVars, reg, jobVars, writerVars, clientVars>>

\* The entry leaves the map when its count reaches zero.
Release(r) ==
    /\ r \in pinned
    /\ pinned' = pinned \ {r}
    /\ snap' = [snap EXCEPT ![r] = NullVersion]
    /\ live' = [live EXCEPT ![snap[r].txn] = @ - 1]
    /\ UNCHANGED <<pagerVars, reg, jobVars, writerVars, clientVars>>

\* The oldest version a live snapshot is pinned at.
Watermark ==
    IF \E t \in TxnId : live[t] > 0
    THEN CHOOSE t \in TxnId : live[t] > 0 /\ \A u \in TxnId : live[u] > 0 => t <= u
    ELSE UNBOUNDED

-----------------------------------------------------------------------------
(* Clients: db.rs submit.                                                  *)

\* The send fails once the writer has dropped its receiver.
Submit(q) ==
    /\ status[q] = "new"
    /\ IF wpc = "stopped"
       THEN /\ status' = [status EXCEPT ![q] = "stopped"]
            /\ UNCHANGED queue
       ELSE /\ status' = [status EXCEPT ![q] = "queued"]
            /\ queue' = Append(queue, q)
    /\ UNCHANGED <<pagerVars, registryVars, jobVars, writerVars, crashes>>

-----------------------------------------------------------------------------
(* The writer thread: writer.rs run and process_batch, one action per step *)
(* that another thread or a crash can fall between.                        *)

\* recv, then try_recv until the channel is empty.
Drain ==
    /\ wpc = "idle" /\ queue # <<>>
    /\ batch' = queue /\ queue' = <<>>
    /\ root_before' = root /\ outcome' = NoReplies /\ freed' = {}
    /\ wpc' = "batch"
    /\ UNCHANGED <<pagerVars, registryVars, root, tree, applied, at_start,
                   pending, orphaned, wm, status, crashes>>

\* begin_alloc_recording; root_at_start and freed_at_start.
BeginJob ==
    /\ wpc = "batch" /\ batch # <<>>
    /\ alloc_log' = {}
    /\ at_start' = [root |-> root, tree |-> tree, freed |-> freed, applied |-> applied]
    /\ wpc' = "job"
    /\ UNCHANGED <<store, unsynced, free, trunks, dead_trunks, page_count, durable,
                   registryVars, root, tree, applied, freed,
                   root_before, batch, outcome, pending, orphaned, wm, clientVars>>

\* Pager::alloc and write_page, as BTree::write_node calls them: a free page
\* when there is one, else the next page of the file.
AllocPage(p) ==
    /\ wpc = "job"
    /\ Cardinality(alloc_log) < JobPages
    /\ \/ /\ p \in free
          /\ free' = free \ {p}
          /\ UNCHANGED page_count
       \/ /\ free = {} /\ p = page_count /\ page_count < MaxPages
          /\ page_count' = page_count + 1
          /\ UNCHANGED free
    /\ store' = [store EXCEPT ![p] = Head(batch)]
    /\ unsynced' = unsynced \cup {p}
    /\ alloc_log' = alloc_log \cup {p}
    /\ tree' = tree \cup {p}
    /\ UNCHANGED <<trunks, dead_trunks, durable, registryVars, root, applied, freed,
                   at_start, writerVars, clientVars>>

\* WriteCtx::insert, delete and free_tree extend the freed list with the
\* pages the edit superseded, some of them written by the same batch.
Supersede(p) ==
    /\ wpc = "job" /\ alloc_log # {} /\ p \in tree
    /\ freed' = freed \cup {p}
    /\ tree' = tree \ {p}
    /\ UNCHANGED <<pagerVars, registryVars, root, applied, at_start, writerVars, clientVars>>

FinishJob(result) ==
    /\ outcome' = [outcome EXCEPT ![Head(batch)] = result]
    /\ batch' = Tail(batch)
    /\ alloc_log' = {}
    /\ at_start' = NoJob
    /\ wpc' = "batch"
    /\ UNCHANGED <<store, unsynced, free, trunks, dead_trunks, page_count, durable,
                   registryVars, root_before, pending, wm, clientVars>>

\* The job moved the root to a page it wrote and superseded the old root.
JobOk(r) ==
    /\ wpc = "job"
    /\ r \in alloc_log \cap tree /\ root \notin tree
    /\ root' = r
    /\ applied' = applied \cup {Head(batch)}
    /\ FinishJob("ok")
    /\ UNCHANGED <<tree, freed, orphaned>>

\* The job changed nothing (a delete of an absent key).
JobNoop ==
    /\ wpc = "job" /\ alloc_log = {}
    /\ FinishJob("noop")
    /\ UNCHANGED <<root, tree, applied, freed, orphaned>>

\* Mutant: the root is not restored after a rejection.
JobRejectKeepsRoot ==
    /\ wpc = "job"
    /\ UNCHANGED <<root, tree, freed, applied, orphaned>>
    /\ FinishJob("rejected")

\* Mutant: the freed list is not truncated after a rejection.
JobRejectKeepsFreed ==
    /\ wpc = "job"
    /\ root' = at_start.root /\ tree' = at_start.tree
    /\ applied' = at_start.applied
    /\ orphaned' = orphaned \cup alloc_log
    /\ FinishJob("rejected")
    /\ UNCHANGED freed

\* Mutant: the rejected job's allocations are not parked.
JobRejectNoOrphans ==
    /\ wpc = "job"
    /\ root' = at_start.root /\ tree' = at_start.tree
    /\ freed' = at_start.freed /\ applied' = at_start.applied
    /\ FinishJob("rejected")
    /\ UNCHANGED orphaned

\* A rejection restores the root and the freed list and parks the pages the
\* job allocated.
JobReject ==
    /\ wpc = "job"
    /\ root' = at_start.root /\ tree' = at_start.tree
    /\ freed' = at_start.freed /\ applied' = at_start.applied
    /\ orphaned' = orphaned \cup alloc_log
    /\ FinishJob("rejected")

\* process_batch returns an error: every request of the batch is answered, by
\* a reply or by its channel closing, and the loop of run is left.
StopBatch ==
    /\ status' = [q \in Request |->
                     IF outcome[q] # "none" \/ \E i \in DOMAIN batch : batch[i] = q
                     THEN "stopped" ELSE status[q]]
    /\ batch' = <<>> /\ outcome' = NoReplies
    /\ wpc' = "stopping"
    /\ UNCHANGED <<registryVars, jobVars, root_before, pending, orphaned, wm,
                   queue, crashes>>

\* A job meets an I/O or corruption error.
Fatal ==
    /\ wpc = "job"
    /\ StopBatch
    /\ alloc_log' = {}
    /\ UNCHANGED <<store, unsynced, free, trunks, dead_trunks, page_count, durable>>

\* Mutant: the receiver is not dropped when run returns.
DropQueueLeaksReceiver ==
    /\ wpc = "stopping"
    /\ wpc' = "stopped"
    /\ UNCHANGED <<pagerVars, registryVars, jobVars, root_before, batch, outcome,
                   pending, orphaned, wm, clientVars>>

\* run returns and drops the receiver: whoever is still queued, or was sent
\* while the writer was stopping, sees the channel close.
DropQueue ==
    /\ wpc = "stopping"
    /\ status' = [q \in Request |->
                     IF \E i \in DOMAIN queue : queue[i] = q THEN "stopped" ELSE status[q]]
    /\ queue' = <<>>
    /\ wpc' = "stopped"
    /\ UNCHANGED <<pagerVars, registryVars, jobVars, root_before, batch, outcome,
                   pending, orphaned, wm, crashes>>

-----------------------------------------------------------------------------
(* The end of a batch: reclamation, commit, publication, replies.          *)

\* An unmoved root means that there is nothing to commit.
EndBatch ==
    /\ wpc = "batch" /\ batch = <<>>
    /\ wpc' = IF root = root_before THEN "reply" ELSE "clean"
    /\ UNCHANGED <<pagerVars, registryVars, jobVars, root_before, batch, outcome,
                   pending, orphaned, wm, clientVars>>

\* The registry lock is held for the read only: snapshots may be opened and
\* dropped between this step and the frees below.
ReadWatermark ==
    /\ wpc = "clean"
    /\ wm' = Watermark
    /\ wpc' = "reclaim"
    /\ UNCHANGED <<pagerVars, registryVars, jobVars, root_before, batch, outcome,
                   pending, orphaned, clientVars>>

\* Mutant: pages superseded right after the oldest snapshot are reclaimed.
ReclaimableOffByOne(e) == e[1] <= wm + 1

Reclaimable(e) == e[1] <= wm

\* reclaim, then free_pages(orphaned).  Their error arm is never taken: free
\* fails only for an id out of range, which InFile excludes, or for a free list
\* that cannot be loaded, and the allocation that moved the root has loaded it.
Reclaim ==
    /\ wpc = "reclaim"
    /\ free' = free \cup {e[2] : e \in {x \in pending : Reclaimable(x)}} \cup orphaned
    /\ pending' = {e \in pending : ~Reclaimable(e)}
    /\ orphaned' = {}
    /\ wpc' = "commit"
    /\ UNCHANGED <<store, unsynced, trunks, dead_trunks, page_count, alloc_log, durable,
                   registryVars, jobVars, root_before, batch, outcome, wm, clientVars>>

\* The number of trunk pages that hold n free pages, themselves included.
TrunkCount(n) == (n + CAPACITY) \div (CAPACITY + 1)

\* Mutant: the previous trunks are recycled before the commit is durable.
BeginCommitReusesTrunks ==
    /\ wpc = "commit" /\ durable.version.txn < MaxTxn
    /\ \E T \in SUBSET (free \cup trunks) :
          /\ Cardinality(T) = TrunkCount(Cardinality(free \cup trunks))
          /\ free' = (free \cup trunks) \ T
          /\ trunks' = T
          /\ store' = [p \in Page |-> IF p \in T THEN Trunk ELSE store[p]]
          /\ unsynced' = unsynced \cup T
    /\ dead_trunks' = {}
    /\ wpc' = "flush"
    /\ UNCHANGED <<page_count, alloc_log, durable, registryVars, jobVars, root_before, batch,
                   outcome, pending, orphaned, wm, clientVars>>

\* Pager::commit step 1: the free set is serialized into trunk pages drawn
\* from the free set itself; the previous trunks stay as they are.
BeginCommit ==
    /\ wpc = "commit" /\ durable.version.txn < MaxTxn
    /\ \E T \in SUBSET free :
          /\ Cardinality(T) = TrunkCount(Cardinality(free))
          /\ free' = free \ T
          /\ trunks' = T
          /\ store' = [p \in Page |-> IF p \in T THEN Trunk ELSE store[p]]
          /\ unsynced' = unsynced \cup T
    /\ dead_trunks' = trunks
    /\ wpc' = "flush"
    /\ UNCHANGED <<page_count, alloc_log, durable, registryVars, jobVars, root_before, batch,
                   outcome, pending, orphaned, wm, clientVars>>

NewDurable ==
    [version |-> [txn |-> durable.version.txn + 1, root |-> root, tree |-> tree,
                  image |-> Image(tree), applied |-> applied],
     alloc |-> [free |-> free, trunks |-> trunks, page_count |-> page_count]]

\* Pager::commit step 2 up to its second fsync, the durability point.
CommitDurable ==
    /\ wpc = "flush"
    /\ durable' = NewDurable
    /\ unsynced' = {}
    /\ wpc' = "promote"
    /\ UNCHANGED <<store, free, trunks, dead_trunks, page_count, alloc_log, registryVars,
                   jobVars, root_before, batch, outcome, pending, orphaned, wm, clientVars>>

\* Mutant: an I/O error in step 2 goes unnoticed.
CommitFailsIgnored ==
    /\ wpc = "flush"
    /\ wpc' = "promote"
    /\ UNCHANGED <<pagerVars, registryVars, jobVars, root_before, batch, outcome, pending,
                   orphaned, wm, clientVars>>

\* An I/O error in step 2.  When it is the last fsync that fails, the new
\* meta may have reached the disk all the same.  The old trunks, a local
\* variable of commit, are forgotten.
CommitFails ==
    /\ wpc = "flush"
    /\ \/ UNCHANGED <<durable, unsynced>>
       \/ durable' = NewDurable /\ unsynced' = {}
    /\ dead_trunks' = {}
    /\ StopBatch
    /\ UNCHANGED <<store, free, trunks, page_count, alloc_log>>

\* Pager::commit step 3: the old trunks join the free set.
Promote ==
    /\ wpc = "promote"
    /\ free' = free \cup dead_trunks
    /\ dead_trunks' = {}
    /\ wpc' = "publish"
    /\ UNCHANGED <<store, unsynced, trunks, page_count, alloc_log, durable, registryVars,
                   jobVars, root_before, batch, outcome, pending, orphaned, wm, clientVars>>

\* Mutant: the version is published under the next transaction id.
PublishAhead ==
    /\ wpc = "publish"
    /\ pending' = pending \cup ({durable.version.txn} \X freed)
    /\ freed' = {}
    /\ reg' = [durable.version EXCEPT !.txn = IF @ < MaxTxn THEN @ + 1 ELSE @]
    /\ wpc' = "reply"
    /\ UNCHANGED <<pagerVars, live, pinned, snap, root, tree, applied, at_start,
                   root_before, batch, outcome, orphaned, wm, clientVars>>

\* The batch's superseded pages are parked, then the version is published.
Publish ==
    /\ wpc = "publish"
    /\ pending' = pending \cup ({durable.version.txn} \X freed)
    /\ freed' = {}
    /\ reg' = durable.version
    /\ wpc' = "reply"
    /\ UNCHANGED <<pagerVars, live, pinned, snap, root, tree, applied, at_start,
                   root_before, batch, outcome, orphaned, wm, clientVars>>

\* One reply of the batch is sent; after the last the writer waits for work.
Reply(q) ==
    /\ wpc = "reply" /\ outcome[q] # "none"
    /\ status' = [status EXCEPT ![q] = outcome[q]]
    /\ outcome' = [outcome EXCEPT ![q] = "none"]
    /\ wpc' = IF outcome' = NoReplies THEN "idle" ELSE "reply"
    /\ UNCHANGED <<pagerVars, registryVars, jobVars, root_before, batch, pending, orphaned,
                   wm, queue, crashes>>

WriterStep ==
    \/ Drain \/ BeginJob \/ JobNoop \/ JobReject
    \/ \E p \in Page : AllocPage(p) \/ Supersede(p) \/ JobOk(p)
    \/ Fatal \/ DropQueue \/ EndBatch \/ ReadWatermark \/ Reclaim
    \/ BeginCommit \/ CommitDurable \/ CommitFails \/ Promote \/ Publish
    \/ \E q \in Request : Reply(q)

Next ==
    \/ WriterStep
    \/ \E r \in Reader : Acquire(r) \/ Release(r)
    \/ \E q \in Request : Submit(q)
    \/ Crash \/ Reopen

Spec == Init /\ [][Next]_vars

\* The writer is an operating-system thread that is never paused for good: it
\* takes a step whenever it has one.  Clients, readers and crashes owe nothing.
FairSpec == Spec /\ WF_vars(WriterStep)

-----------------------------------------------------------------------------
(* Properties.                                                             *)

WriterPc == {"idle", "batch", "job", "clean", "reclaim", "commit", "flush", "promote",
             "publish", "reply", "stopping", "stopped"}

\* Type correctness of the whole state; in particular a snapshot count never
\* drops below zero (registry.rs release).
TypeOK ==
    /\ store \in [Page -> Content]
    /\ unsynced \subseteq Page /\ free \subseteq Page
    /\ trunks \subseteq Page /\ dead_trunks \subseteq Page
    /\ page_count \in 3 .. MaxPages
    /\ alloc_log \subseteq Page
    /\ durable \in [version : Version, alloc : Allocator]
    /\ reg \in Version
    /\ live \in [TxnId -> Nat]
    /\ pinned \subseteq Reader /\ snap \in [Reader -> Version]
    /\ wpc \in WriterPc
    /\ root \in Page \cup {0} /\ tree \subseteq Page /\ applied \subseteq Request
    /\ root_before \in Page \cup {0}
    /\ at_start \in [root : Page \cup {0}, tree : SUBSET Page, freed : SUBSET Page,
                     applied : SUBSET Request]
    /\ batch \in Seq(Request) /\ outcome \in [Request -> Outcome]
    /\ freed \subseteq Page /\ pending \subseteq TxnId \X Page /\ orphaned \subseteq Page
    /\ wm \in 0 .. UNBOUNDED
    /\ queue \in Seq(Request) /\ status \in [Request -> Status] /\ crashes \in 0 .. MaxCrash

\* A version's pages all hold what they held when it committed.
Intact(v) == \A p \in v.tree : store[p] = v.image[p]

\* A snapshot reads the same data from the moment it is opened until it is
\* dropped, whatever the writer commits, reclaims and reuses meanwhile
\* (registry.rs watermark, writer.rs reclaim).
SnapshotStable == \A r \in pinned : Intact(snap[r])

\* At every instant, also in the middle of a commit, a crash would find the
\* committed version and its free list whole on disk: none of their pages has
\* been overwritten, and none is at the mercy of an unfinished fsync
\* (pager.rs commit and rebuild_free_list, writer.rs reclaim).
DurableIntact ==
    /\ Intact(durable.version)
    /\ \A p \in durable.alloc.trunks : store[p] = Trunk
    /\ unsynced \cap (durable.version.tree \cup durable.alloc.trunks) = {}
    /\ durable.alloc.free \cap (durable.version.tree \cup durable.alloc.trunks) = {}

PendingPages == {e[2] : e \in pending}

\* No page has two owners: the live tree, the pages the batch superseded, the
\* pages parked for reclamation, the orphans of rejected jobs, the free set
\* and the trunks never share one, so nothing in use is handed out by alloc
\* and nothing is freed twice (writer.rs process_batch, pager.rs alloc, free).
NoDoubleUse ==
    /\ tree \cap (freed \cup PendingPages \cup orphaned \cup free \cup trunks \cup dead_trunks) = {}
    /\ freed \cap (PendingPages \cup orphaned \cup free \cup trunks \cup dead_trunks) = {}
    /\ PendingPages \cap (orphaned \cup free \cup trunks \cup dead_trunks) = {}
    /\ orphaned \cap (free \cup trunks \cup dead_trunks) = {}
    /\ free \cap (trunks \cup dead_trunks) = {}
    /\ trunks \cap dead_trunks = {}
    /\ \A e, f \in pending : e[2] = f[2] => e = f

\* Every page of the file has an owner.
Lost == (FIRST_DATA_PAGE .. (page_count - 1))
           \ (tree \cup freed \cup PendingPages \cup orphaned \cup free \cup trunks \cup dead_trunks)

\* No page falls out of the books while the database is open, whatever mix of
\* jobs succeeds, is rejected or fails (writer.rs process_batch, pager.rs
\* commit).  Only a reopen, or the failed commit that stops the writer, forgets
\* pages.
NothingLostWhileOpen == [][Lost' \subseteq Lost \/ Recover \/ CommitFails]_vars

\* A committed version consists of pages written by the requests it includes
\* and no others: a rejected job of the same batch leaves no trace in it
\* (writer.rs process_batch, the rejected arm).
OnlyAppliedWrites ==
    \A p \in durable.version.tree : durable.version.image[p] \in durable.version.applied \cup {Seed}

\* A request answered Ok is durable, through any later crash, and every
\* snapshot opened from now on sees it; one answered with a rejection or as a
\* no-op is in no version (writer.rs process_batch, the order commit, publish,
\* reply).
AnswersTrue ==
    \A q \in Request :
       /\ status[q] = "ok" => q \in durable.version.applied \cap reg.applied
       /\ status[q] \in {"noop", "rejected"} => q \notin durable.version.applied

\* A reader is never shown a version that a crash could take back, and never
\* one newer than the latest published (writer.rs publish after commit).
ReadsAreCommitted ==
    \A r \in pinned : /\ snap[r].txn <= reg.txn /\ reg.txn <= durable.version.txn
                      /\ snap[r].applied \subseteq durable.version.applied

\* A blocked submit returns: the writer replies, or the channel closes
\* (db.rs submit, writer.rs run).
EverySubmitReturns == \A q \in Request : (status[q] = "queued") ~> (status[q] # "queued")

\* What a client of the transaction layer can observe.  A reader's view is
\* what it would read now from the pages of its snapshot.
NoView == {Blank}

View(r) == IF r \notin pinned THEN NoView
           ELSE IF Intact(snap[r]) THEN snap[r].applied ELSE {Torn}

Abs == INSTANCE SnapshotDb WITH
          NoView <- NoView, durable <- durable.version.applied, visible <- reg.applied,
          view <- [r \in Reader |-> View(r)]

\* The layer implements SnapshotDb: seen through snapshots, submits and
\* restarts, group commit over recycled pages is an atomic, durable,
\* snapshot-isolated set of transactions (writer.rs process_batch, registry.rs).
ImplementsSnapshotDb == Abs!Spec

-----------------------------------------------------------------------------
(* The inductive invariant behind SnapshotStable, DurableIntact and        *)
(* NoDoubleUse.                                                            *)

Running == wpc \notin {"stopping", "stopped"}

\* Every count in the registry is the number of snapshots pinned there.
RefCounts == \A t \in TxnId : live[t] = Cardinality({r \in pinned : snap[r].txn = t})

\* A running job knows where it started, and has only added pages since.
JobScope ==
    /\ wpc = "job" =>
          /\ batch # <<>>
          /\ tree \cup freed = at_start.tree \cup at_start.freed \cup alloc_log
          /\ at_start.tree \cap at_start.freed = {}
          /\ alloc_log \cap (at_start.tree \cup at_start.freed) = {}
          /\ alloc_log = {} => freed = at_start.freed
          /\ at_start.root \in at_start.tree
          /\ at_start.root = root /\ at_start.applied = applied
          /\ at_start.root = root_before => at_start.freed = {} /\ at_start.applied = reg.applied
    /\ Running /\ wpc # "job" => alloc_log = {}
    /\ wpc \in {"batch", "job"} => root_before = reg.root
    /\ wpc = "batch" /\ root = root_before => freed = {} /\ applied = reg.applied
    /\ wpc \in {"idle", "reply"} => freed = {} /\ applied = reg.applied /\ root = reg.root

\* The pages of a version that may still be read: each is in the live tree, or
\* was superseded by this batch, or is parked under a later commit; none is
\* one that the running job wrote.
Protected(v) ==
    /\ Intact(v)
    /\ v.root \in v.tree
    /\ \A p \in v.tree : p \in tree \cup freed \/ \E e \in pending : e[2] = p /\ e[1] > v.txn
    /\ v.tree \cap alloc_log = {}

SnapshotsProtected ==
    /\ Protected(reg)
    /\ \A r \in pinned : Protected(snap[r]) /\ snap[r].txn <= reg.txn
    /\ \A e \in pending : e[1] <= reg.txn
    /\ wpc = "reclaim" =>
          \A r \in pinned, e \in pending : e[1] <= wm => e[1] <= snap[r].txn

\* How the pager's memory relates to its disk in each phase of a commit.
CommitPhase ==
    /\ reg.txn <= durable.version.txn
    /\ wpc = "flush" => durable.version.txn < MaxTxn /\ dead_trunks = durable.alloc.trunks
    /\ Running /\ wpc # "flush" => trunks = durable.alloc.trunks
    /\ wpc \notin {"flush", "promote", "stopping", "stopped"} => dead_trunks = {}
    /\ wpc \in {"flush", "promote"} => \A p \in trunks : store[p] = Trunk
    /\ Running /\ wpc \notin {"promote", "publish"} => durable.version = reg
    /\ wpc \in {"promote", "publish"} =>
          /\ reg.txn < durable.version.txn
          /\ durable.version.tree = tree /\ durable.version.root = root
          /\ durable.version.applied = applied
    /\ wpc \in {"batch", "clean", "reclaim", "commit", "flush"} => root \in tree
    /\ durable.version.root \in durable.version.tree
    /\ durable.version.tree \cap durable.alloc.trunks = {}

\* Nothing beyond the end of the file is in use.
InFile ==
    /\ \A p \in tree \cup freed \cup PendingPages \cup orphaned \cup free \cup trunks
                \cup dead_trunks : p < page_count
    /\ \A p \in durable.version.tree \cup durable.alloc.free \cup durable.alloc.trunks :
          p < durable.alloc.page_count

\* Together: why a page that a snapshot or the disk still needs is never
\* handed out (writer.rs process_batch and reclaim, registry.rs, pager.rs
\* alloc, free and commit).
PageInv ==
    RefCounts /\ JobScope /\ SnapshotsProtected /\ CommitPhase /\ InFile /\ NoDoubleUse /\ DurableIntact

-----------------------------------------------------------------------------
(* The inductive invariant behind AnswersTrue, OnlyAppliedWrites,          *)
(* ReadsAreCommitted and ImplementsSnapshotDb.                             *)

In(q, s) == \E i \in DOMAIN s : s[i] = q
Distinct(s) == \A i, j \in DOMAIN s : s[i] = s[j] => i = j

\* Each request is in one place: the queue, the batch, or waiting for its
\* reply; and nothing that has yet to run, or came to nothing, is applied.
RequestsOnce ==
    /\ Distinct(queue) /\ Distinct(batch)
    /\ wpc \notin {"batch", "job"} => batch = <<>>
    /\ wpc \in {"idle", "stopping", "stopped"} => outcome = NoReplies
    /\ \A q \in Request :
          /\ In(q, queue) => status[q] = "queued" /\ ~In(q, batch) /\ outcome[q] = "none"
          /\ In(q, batch) => status[q] = "queued" /\ outcome[q] = "none"
          /\ outcome[q] # "none" => status[q] = "queued"
          /\ \/ status[q] \in {"new", "noop", "rejected"} \/ In(q, queue) \/ In(q, batch)
             \/ outcome[q] \in {"noop", "rejected"}
             => q \notin applied
          /\ outcome[q] = "ok" => q \in applied
          /\ status[q] = "ok" => q \in reg.applied

\* The versions are nested; what a commit will add is waiting for its reply.
VersionsNest ==
    /\ \A r \in pinned : snap[r].applied \subseteq reg.applied
    /\ reg.applied \subseteq durable.version.applied
    /\ durable.version.applied \subseteq applied
    /\ Running => \A q \in applied : q \in durable.version.applied \/ outcome[q] = "ok"

\* A page the live tree has, or had in this batch, was written by an applied
\* request or by the running job.
WritesTracked ==
    Running => \A p \in tree \cup freed :
                  \/ store[p] \in applied \cup {Seed}
                  \/ wpc = "job" /\ p \in alloc_log /\ store[p] = Head(batch)

\* Together: why an answer is true and a version is made of whole requests
\* (writer.rs process_batch and run, db.rs submit).
ServiceInv == RequestsOnce /\ VersionsNest /\ WritesTracked /\ OnlyAppliedWrites
=============================================================================
