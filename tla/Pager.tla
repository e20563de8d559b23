------------------------------- MODULE Pager -------------------------------
(***************************************************************************)
(* The pager (crates/pager/src/pager.rs, freelist.rs, meta.rs): allocation *)
(* from an in-memory free set, its serialization into trunk pages, the     *)
(* double-buffered commit, recovery and validate, over a block store whose *)
(* writes are durable only after an fsync.                                 *)
(*                                                                         *)
(* The client is the writer thread.  It keeps to the contract that module  *)
(* Txn is proved to keep: it writes only pages it allocated since the last *)
(* commit, and frees a page of the committed tree only after a commit that *)
(* no longer has it.                                                       *)
(***************************************************************************)
EXTENDS Naturals, Sequences, FiniteSets, Functions

CONSTANTS
    CAPACITY,   \* free ids one trunk page holds
    MaxPages,   \* bound on page_count
    MaxTxn,     \* bound on commits
    MaxFresh,   \* bound on the pages allocated for one commit
    MaxOpen     \* bound on crashes and reopens

ASSUME PagerBounds ==
    /\ CAPACITY \in Nat \ {0} /\ MaxPages \in Nat /\ MaxPages > 2
    /\ MaxTxn \in Nat /\ MaxFresh \in Nat /\ MaxOpen \in Nat

FIRST_DATA_PAGE == 2
Slot == {0, 1}
Page == FIRST_DATA_PAGE .. (MaxPages - 1)

\* The lists of pages that the pager keeps as vectors.  (SequencesExt has these
\* operators too, with so much else that proofs about them become slow.)
Last(s) == s[Len(s)]
Front(s) == SubSeq(s, 1, Len(s) - 1)
SetToSeq(S) == CHOOSE s \in [1 .. Cardinality(S) -> S] : IsInjective(s)
FlattenSeq(ss) ==
    LET upto[i \in 1 .. Len(ss)] == IF i = 1 THEN ss[i] ELSE upto[i - 1] \o ss[i]
    IN  IF Len(ss) = 0 THEN <<>> ELSE upto[Len(ss)]

\* What one trunk can list.
TrunkIds == UNION {[1 .. n -> Page] : n \in 0 .. CAPACITY}

\* Page frames.  A torn frame, and the zeros of a page never written, fail
\* their checksum.
Zero == [kind |-> "zero"]
Torn == [kind |-> "torn"]
Data(stamp) == [kind |-> "data", stamp |-> stamp]
TrunkFrame(next, ids) == [kind |-> "trunk", next |-> next, ids |-> ids]
MetaFrame(m) == [kind |-> "meta", meta |-> m]

VARIABLES
    disk,         \* frames on stable storage
    os,           \* frames as reads see them: written, perhaps not yet synced
    unsynced,     \* frames written since the last fsync
    dirty,        \* staged frames: the dirty part of the page cache
    meta, active_slot, free_set, trunks, free_loaded,   \* State
    commit,       \* pc, and the local variables of the commit in progress
    opens,        \* number of crashes and reopens so far
    \* the client
    tree,         \* pages of the version being built
    fresh,        \* pages allocated since the last commit
    superseded,   \* pages dropped from the tree since the last commit
    garbage       \* pages that the committed version no longer has

diskVars == <<disk, os, unsynced>>
stateVars == <<dirty, meta, active_slot, free_set, trunks, free_loaded>>
clientVars == <<tree, fresh, superseded, garbage>>
vars == <<diskVars, stateVars, commit, opens, clientVars>>

\* The root in a meta page stands for the pages it reaches.
Meta == [txn_id : 0 .. MaxTxn, page_count : 2 .. MaxPages, head : Page \cup {0},
         len : Nat, root : SUBSET Page]
InitialMeta == [txn_id |-> 0, page_count |-> FIRST_DATA_PAGE, head |-> 0, len |-> 0, root |-> {}]

\* Nothing is staged since the last commit or open.
NoCommit == [pc |-> "clean", meta |-> InitialMeta, dead |-> <<>>]

-----------------------------------------------------------------------------
(* Opening.                                                                *)

\* read_meta on both slots; the valid one with the higher txn_id, ties to 0.
ValidMeta(img, s) == img[s].kind = "meta"
BestSlot(img) ==
    IF /\ ValidMeta(img, 1)
       /\ ValidMeta(img, 0) => img[1].meta.txn_id > img[0].meta.txn_id
    THEN 1 ELSE 0
CanOpen(img) == \E s \in Slot : ValidMeta(img, s)
BestMeta(img) == IF CanOpen(img) THEN img[BestSlot(img)].meta ELSE InitialMeta

\* A frame that load_free_list accepts.
IsTrunk(img, m, p) ==
    /\ p \in FIRST_DATA_PAGE .. (m.page_count - 1)
    /\ img[p].kind = "trunk" /\ Len(img[p].ids) <= CAPACITY

\* The pages along the chain from the head; 0 after its end, or after a page
\* that is no trunk.
Walk(img, m) ==
    LET nth[k \in 0 .. MaxPages] ==
            IF k = 0 THEN m.head
            ELSE IF IsTrunk(img, m, nth[k - 1]) THEN img[nth[k - 1]].next ELSE 0
    IN  nth

\* load_free_list: the ids and the trunks along the chain from the head, or
\* an error at the first frame that is out of range, repeated or no trunk.
LoadFreeList(img, m) ==
    LET nth == Walk(img, m)
        ends == {k \in 0 .. MaxPages : ~IsTrunk(img, m, nth[k])}
        n == CHOOSE k \in ends : \A j \in ends : k <= j
    IN  IF ends # {} /\ (n = 0 => m.head = 0) /\ (n > 0 => img[nth[n - 1]].next = 0)
        THEN [ok |-> TRUE, trunks |-> [k \in 1 .. n |-> nth[k - 1]],
              free_set |-> FlattenSeq([k \in 1 .. n |-> img[nth[k - 1]].ids])]
        ELSE [ok |-> FALSE, trunks |-> <<>>, free_set |-> <<>>]

\* Pager::create, after its fsync.
Init ==
    /\ disk = [x \in Slot \cup Page |-> IF x = 0 THEN MetaFrame(InitialMeta) ELSE Zero]
    /\ os = disk /\ unsynced = {} /\ dirty = <<>>
    /\ meta = InitialMeta /\ active_slot = 0
    /\ free_set = <<>> /\ trunks = <<>> /\ free_loaded = TRUE
    /\ commit = NoCommit /\ opens = 0
    /\ tree = {} /\ fresh = {} /\ superseded = {} /\ garbage = {}

\* open_with_cache on what reads return; the client starts from the root it
\* finds and remembers nothing else.
OpenOn(img) ==
    /\ CanOpen(img)
    /\ meta' = BestMeta(img) /\ active_slot' = BestSlot(img)
    /\ dirty' = <<>> /\ free_set' = <<>> /\ trunks' = <<>> /\ free_loaded' = FALSE
    /\ commit' = NoCommit
    /\ opens < MaxOpen /\ opens' = opens + 1
    /\ tree' = BestMeta(img).root /\ fresh' = {} /\ superseded' = {} /\ garbage' = {}

\* Power fails: each unsynced frame is on disk, is not, or is torn.
Crash ==
    /\ \E fate \in [unsynced -> {"old", "new", "torn"}] :
          disk' = [x \in Slot \cup Page |->
                     IF x \notin unsynced \/ fate[x] = "old" THEN disk[x]
                     ELSE IF fate[x] = "new" THEN os[x] ELSE Torn]
    /\ os' = disk' /\ unsynced' = {}
    /\ OpenOn(disk')

\* The pager is dropped between commits, or after one failed, and reopened.
Reopen ==
    /\ commit.pc \in {"clean", "staged", "failed"}
    /\ OpenOn(os)
    /\ UNCHANGED diskVars

-----------------------------------------------------------------------------
(* Between commits.                                                        *)

Open == commit.pc \in {"clean", "staged"}
Staged == commit' = [commit EXCEPT !.pc = "staged"]

\* ensure_free_loaded.
Loaded == IF free_loaded
          THEN [ok |-> TRUE, free_set |-> free_set, trunks |-> trunks]
          ELSE LoadFreeList(os, meta)

Stage(frames, p, frame) ==
    [x \in DOMAIN frames \cup {p} |-> IF x = p THEN frame ELSE frames[x]]

\* Mutant: the high-water mark is not moved.
AllocWriteKeepsCount ==
    /\ Open /\ Loaded.ok /\ Cardinality(fresh) < MaxFresh
    /\ \E p \in Page :
          /\ IF Loaded.free_set # <<>>
             THEN p = Last(Loaded.free_set) /\ free_set' = Front(Loaded.free_set)
             ELSE p = meta.page_count /\ free_set' = <<>>
          /\ dirty' = Stage(dirty, p, Data(<<meta.txn_id, opens>>))
          /\ tree' = tree \cup {p} /\ fresh' = fresh \cup {p}
    /\ trunks' = Loaded.trunks /\ free_loaded' = TRUE
    /\ Staged
    /\ UNCHANGED <<diskVars, meta, active_slot, opens, superseded, garbage>>

\* Mutant: the page handed out stays in the free set.
AllocWritePeeks ==
    /\ Open /\ Loaded.ok /\ Cardinality(fresh) < MaxFresh
    /\ \E p \in Page :
          /\ IF Loaded.free_set # <<>>
             THEN p = Last(Loaded.free_set) /\ free_set' = Loaded.free_set /\ meta' = meta
             ELSE /\ p = meta.page_count /\ free_set' = <<>>
                  /\ meta' = [meta EXCEPT !.page_count = @ + 1]
          /\ dirty' = Stage(dirty, p, Data(<<meta.txn_id, opens>>))
          /\ tree' = tree \cup {p} /\ fresh' = fresh \cup {p}
    /\ trunks' = Loaded.trunks /\ free_loaded' = TRUE
    /\ Staged
    /\ UNCHANGED <<diskVars, active_slot, opens, superseded, garbage>>

\* alloc: the last id of the free set, else the next page of the file; then
\* write_page stages its frame.
AllocWrite ==
    /\ Open /\ Loaded.ok /\ Cardinality(fresh) < MaxFresh
    /\ \E p \in Page :
          /\ IF Loaded.free_set # <<>>
             THEN p = Last(Loaded.free_set) /\ free_set' = Front(Loaded.free_set) /\ meta' = meta
             ELSE /\ p = meta.page_count /\ free_set' = <<>>
                  /\ meta' = [meta EXCEPT !.page_count = @ + 1]
          /\ dirty' = Stage(dirty, p, Data(<<meta.txn_id, opens>>))
          /\ tree' = tree \cup {p} /\ fresh' = fresh \cup {p}
    /\ trunks' = Loaded.trunks /\ free_loaded' = TRUE
    /\ Staged
    /\ UNCHANGED <<diskVars, active_slot, opens, superseded, garbage>>

\* The client's tree stops using a page; it must not be freed before a commit.
Supersede(p) ==
    /\ Open /\ p \in tree
    /\ tree' = tree \ {p} /\ superseded' = superseded \cup {p}
    /\ Staged
    /\ UNCHANGED <<diskVars, stateVars, opens, fresh, garbage>>

\* free, for a list of pages, just before a commit: pages that the committed
\* version no longer has, and pages allocated by rejected jobs.
Free(S) ==
    /\ Open /\ Loaded.ok
    /\ S \subseteq garbage \cup (tree \cap fresh)
    /\ garbage' = garbage \ S /\ tree' = tree \ S /\ fresh' = fresh \ S
    /\ free_set' = Loaded.free_set \o SetToSeq(S)
    /\ trunks' = Loaded.trunks /\ free_loaded' = TRUE
    /\ commit' = [commit EXCEPT !.pc = "freed"]
    /\ UNCHANGED <<diskVars, dirty, meta, active_slot, opens, superseded>>

-----------------------------------------------------------------------------
(* commit.                                                                 *)

\* rebuild_free_list in closed form.  Counted from the end of a pool of n, every
\* (CAPACITY + 1)-st page becomes a trunk and holds the CAPACITY pages before
\* it; each trunk points to the one built before it.
TrunkCount(n) == (n + CAPACITY) \div (CAPACITY + 1)
Top(n, g) == n - (g - 1) * (CAPACITY + 1)
Low(n, g) == IF Top(n, g) > CAPACITY THEN Top(n, g) - CAPACITY ELSE 1
Container(pool, g) == pool[Top(Len(pool), g)]
TakenIds(pool, g) == SubSeq(pool, Low(Len(pool), g), Top(Len(pool), g) - 1)

Rebuild(pool) ==
    LET k == TrunkCount(Len(pool))
        containers == [g \in 1 .. k |-> Container(pool, g)]
    IN  [trunks |-> containers,
         head |-> IF k = 0 THEN 0 ELSE containers[k],
         stored |-> FlattenSeq([g \in 1 .. k |-> TakenIds(pool, g)]),
         frames |-> [p \in Range(containers) |->
                       LET g == CHOOSE g \in 1 .. k : containers[g] = p
                       IN  TrunkFrame(IF g = 1 THEN 0 ELSE containers[g - 1], TakenIds(pool, g))]]

\* Step 1, under the lock.
BeginCommitWith(pool, dead) ==
    LET r == Rebuild(pool)
        m == [meta EXCEPT !.head = r.head, !.len = Len(r.stored), !.root = tree]
    IN  /\ dirty' = [x \in DOMAIN dirty \cup DOMAIN r.frames |->
                        IF x \in DOMAIN r.frames THEN r.frames[x] ELSE dirty[x]]
        /\ meta' = m /\ free_set' = r.stored /\ trunks' = r.trunks
        /\ commit' = [pc |-> "flush", dead |-> dead, meta |-> [m EXCEPT !.txn_id = @ + 1]]
        /\ UNCHANGED <<diskVars, free_loaded, active_slot, opens, clientVars>>

\* The writer commits only when its root has moved to a page it wrote.
MayCommit == commit.pc = "freed" /\ fresh \cap tree # {} /\ meta.txn_id < MaxTxn

\* Mutant: the previous trunks are recycled at once.
BeginCommitRecycles == MayCommit /\ BeginCommitWith(free_set \o trunks, <<>>)

BeginCommit == MayCommit /\ BeginCommitWith(free_set, trunks)

\* Frames handed to the backend: reads see them, stable storage may not.
WriteFrames(frames) ==
    /\ os' = [x \in Slot \cup Page |-> IF x \in DOMAIN frames THEN frames[x] ELSE os[x]]
    /\ unsynced' = unsynced \cup DOMAIN frames
    /\ UNCHANGED disk

CommitStep(pc, next) == commit.pc = pc /\ commit' = [commit EXCEPT !.pc = next]

\* Step 2, without the lock: the dirty pages.  A crash that finds some of them
\* not yet written is one that lost them.
Flush ==
    /\ CommitStep("flush", "sync")
    /\ WriteFrames(dirty)
    /\ UNCHANGED <<stateVars, opens, clientVars>>

\* Mutant: the fsync between the data pages and the meta page is missing.
SyncDataSkipped ==
    /\ CommitStep("sync", "meta")
    /\ UNCHANGED <<diskVars, stateVars, opens, clientVars>>

SyncData ==
    /\ CommitStep("sync", "meta")
    /\ disk' = os /\ unsynced' = {}
    /\ UNCHANGED <<os, stateVars, opens, clientVars>>

WriteMeta ==
    /\ CommitStep("meta", "syncmeta")
    /\ WriteFrames([x \in {1 - active_slot} |-> MetaFrame(commit.meta)])
    /\ UNCHANGED <<stateVars, opens, clientVars>>

SyncMeta ==
    /\ CommitStep("syncmeta", "promote")
    /\ disk' = os /\ unsynced' = {}
    /\ UNCHANGED <<os, stateVars, opens, clientVars>>

\* Any of these I/O calls fails.  A write that fails may have torn its page; a
\* sync that fails leaves what was written as unsafe as it was.
CommitFails ==
    /\ commit.pc \in {"flush", "sync", "meta", "syncmeta"}
    /\ commit' = [commit EXCEPT !.pc = "failed"]
    /\ \/ UNCHANGED diskVars
       \/ /\ commit.pc = "flush"
          /\ \E W \in SUBSET DOMAIN dirty : \E bad \in W :
                WriteFrames([p \in W |-> IF p = bad THEN Torn ELSE dirty[p]])
       \/ commit.pc = "meta" /\ WriteFrames([x \in {1 - active_slot} |-> Torn])
    /\ UNCHANGED <<stateVars, opens, clientVars>>

\* Mutant: the previous trunks are forgotten after the commit.
PromoteDropsTrunks ==
    /\ commit.pc = "promote" /\ commit' = NoCommit
    /\ dirty' = <<>> /\ meta' = commit.meta /\ active_slot' = 1 - active_slot
    /\ garbage' = garbage \cup superseded /\ superseded' = {} /\ fresh' = {}
    /\ UNCHANGED <<diskVars, free_set, trunks, free_loaded, opens, tree>>

\* Mutant: the active slot is not switched.
PromoteKeepsSlot ==
    /\ commit.pc = "promote" /\ commit' = NoCommit
    /\ dirty' = <<>> /\ meta' = commit.meta
    /\ free_set' = free_set \o commit.dead
    /\ garbage' = garbage \cup superseded /\ superseded' = {} /\ fresh' = {}
    /\ UNCHANGED <<diskVars, active_slot, trunks, free_loaded, opens, tree>>

\* Step 3, under the lock; the client learns that the commit is durable.
Promote ==
    /\ commit.pc = "promote" /\ commit' = NoCommit
    /\ dirty' = <<>> /\ meta' = commit.meta /\ active_slot' = 1 - active_slot
    /\ free_set' = free_set \o commit.dead
    /\ garbage' = garbage \cup superseded /\ superseded' = {} /\ fresh' = {}
    /\ UNCHANGED <<diskVars, trunks, free_loaded, opens, tree>>

Next ==
    \/ AllocWrite \/ BeginCommit \/ Flush \/ SyncData \/ WriteMeta \/ SyncMeta \/ CommitFails \/ Promote
    \/ \E p \in Page : Supersede(p)
    \/ \E S \in SUBSET (garbage \cup fresh) : Free(S)
    \/ Crash \/ Reopen

Spec == Init /\ [][Next]_vars

-----------------------------------------------------------------------------
(* validate, and the properties.                                           *)

\* Pager::validate as another thread would find it now: the lock is free
\* between any two steps above, and reads bypass the cache.
Validate ==
    LET l == LoadFreeList(os, meta)
        ids == l.free_set \o l.trunks
    IN  /\ ValidMeta(os, active_slot) /\ os[active_slot].meta.txn_id = meta.txn_id
        /\ l.ok /\ Len(l.free_set) = meta.len
        /\ Range(ids) \subseteq FIRST_DATA_PAGE .. (meta.page_count - 1)
        /\ IsInjective(ids)

Frame == {Zero, Torn} \cup {Data(<<t, o>>) : t \in 0 .. MaxTxn, o \in 0 .. MaxOpen}
            \cup [kind : {"trunk"}, next : Page \cup {0}, ids : TrunkIds]

\* Types; and every staged page lies below the high-water mark (in_range).
TypeOK ==
    /\ \A img \in {disk, os} :
          /\ DOMAIN img = Slot \cup Page
          /\ \A p \in Page : img[p] \in Frame
          /\ \A x \in Slot : img[x] \in {Zero, Torn} \/ (img[x].kind = "meta" /\ img[x].meta \in Meta)
    /\ unsynced \subseteq Slot \cup Page
    /\ DOMAIN dirty \subseteq FIRST_DATA_PAGE .. (meta.page_count - 1)
    /\ \A p \in DOMAIN dirty : dirty[p] \in Frame
    /\ meta \in Meta /\ active_slot \in Slot /\ free_loaded \in BOOLEAN
    /\ Range(free_set) \cup Range(trunks) \subseteq Page
    /\ commit.pc \in {"clean", "staged", "freed", "flush", "sync", "meta", "syncmeta", "promote", "failed"}
    /\ commit.meta \in Meta /\ Range(commit.dead) \subseteq Page
    /\ opens \in 0 .. MaxOpen
    /\ tree \cup fresh \cup superseded \cup garbage \subseteq Page

\* What the file holds according to a meta page: a version and a free list.
VersionIn(img) == [p \in BestMeta(img).root |-> img[p]]

Current(p) == IF p \in DOMAIN dirty THEN dirty[p] ELSE os[p]

Store == INSTANCE PageStore WITH
    Empty <- <<>>,
    working <- [p \in tree |-> Current(p)],
    committed <- VersionIn(disk),
    inflight <- IF BestMeta(os).txn_id > BestMeta(disk).txn_id THEN {VersionIn(os)} ELSE {}

\* The pager implements PageStore: whatever frames a crash keeps, loses or
\* tears, at whatever point of whichever commit, failed ones included, the
\* file opens at a whole version: the last one committed or the one in flight
\* (pager.rs commit, open_with_cache).
ImplementsPageStore == Store!Spec

\* The file can be opened, and the free list that recovery would load is readable, lists no page twice
\* and lists none of the version's own pages, so the first write after a
\* crash can neither fail nor overwrite live data (pager.rs rebuild_free_list,
\* load_free_list).
FreeListRecoverable ==
    \A img \in {disk, os} :
       LET l == LoadFreeList(img, BestMeta(img))
           ids == l.free_set \o l.trunks
       IN  /\ CanOpen(img) /\ l.ok
           /\ Len(l.free_set) = BestMeta(img).len
           /\ IsInjective(ids)
           /\ Range(ids) \cap BestMeta(img).root = {}

\* The allocator, the trunk chain and the client never hold the same page,
\* and the free set lists no page twice (pager.rs alloc, free, commit).
NoSharing ==
    LET pool == Loaded.free_set \o Loaded.trunks \o commit.dead
        held == tree \cup superseded \cup garbage
    IN  /\ IsInjective(pool)
        /\ Range(pool) \cap held = {}
        /\ tree \cap (superseded \cup garbage) = {} /\ superseded \cap garbage = {}

\* While no commit is in progress, validate accepts what is on disk, staged
\* allocations and frees notwithstanding (pager.rs validate).
ValidateQuiet == Open => Validate

\* While the pager is open no page leaves its books and the client's: the
\* pages spent on trunks come back (pager.rs rebuild_free_list, commit).
TrunksComeBack ==
    Open /\ opens = 0 =>
       FIRST_DATA_PAGE .. (meta.page_count - 1)
          \subseteq tree \cup superseded \cup garbage \cup Range(free_set) \cup Range(trunks)

\* As documented for Db::validate, the check is "over the last committed
\* state", so it succeeds at any time on a file that is not damaged.
ValidateSeesCommittedState == commit.pc # "failed" => Validate

AllocatorPages == Range(Loaded.free_set) \cup Range(Loaded.trunks)

\* As documented for the free list, it "never leaks": closing a file with
\* nothing staged and opening it again keeps every page the allocator had.
ReopenKeepsFreePages ==
    [][Reopen /\ commit.pc = "clean" => AllocatorPages \subseteq AllocatorPages']_vars

-----------------------------------------------------------------------------
(* The inductive invariant behind these properties.                        *)

Books(l) == Range(l.free_set) \cup Range(l.trunks)

\* m's chain on img can be loaded, and it shares no page with m's version.
Recoverable(img, m) ==
    LET l == LoadFreeList(img, m)
    IN  /\ l.ok /\ Len(l.free_set) = m.len
        /\ l.free_set \in Seq(Page) /\ l.trunks \in Seq(Page)
        /\ IsInjective(l.free_set \o l.trunks)
        /\ Books(l) \cap m.root = {}
        /\ Books(l) \cup m.root \subseteq FIRST_DATA_PAGE .. (m.page_count - 1)

\* The pages img must keep to be opened: those of its version and of its chain.
Needed(img) == BestMeta(img).root \cup Range(LoadFreeList(img, BestMeta(img)).trunks)
Kept == Needed(disk) \cup Needed(os)

\* The file, as recovery after a crash and as an open would find it.  What either
\* needs is synced; the ids that the newer list holds the older one does not need.
FileInv ==
    /\ \A x \in (Slot \cup Page) \ unsynced : os[x] = disk[x]
    /\ \A img \in {disk, os} : CanOpen(img) /\ Recoverable(img, BestMeta(img))
    /\ Kept \cap unsynced = {}
    /\ Range(LoadFreeList(os, BestMeta(os)).free_set) \cap Needed(disk) = {}
    /\ BestMeta(disk).page_count <= BestMeta(os).page_count
    /\ BestMeta(os) = BestMeta(disk) \/ BestMeta(os).txn_id > BestMeta(disk).txn_id
    /\ \A s \in Slot \cap unsynced :
          1 - s \notin unsynced /\ ValidMeta(disk, 1 - s) /\ BestSlot(disk) = 1 - s

\* Before a commit has begun nothing staged, free or about to be freed is needed.
Editing == commit.pc \in {"clean", "staged", "freed"}
EditInv ==
    Editing =>
       /\ active_slot = BestSlot(os)
       /\ meta = [BestMeta(os) EXCEPT !.page_count = meta.page_count]
       /\ BestMeta(os).page_count <= meta.page_count
       /\ ~free_loaded => meta = BestMeta(os)
       /\ Range(Loaded.trunks) = Range(LoadFreeList(os, BestMeta(os)).trunks)
       /\ (DOMAIN dirty \cup fresh \cup garbage \cup Range(Loaded.free_set)) \cap Kept = {}
       /\ commit.dead = <<>>

\* The file as it will be when the staged frames are written.
Overlay == [x \in Slot \cup Page |-> Current(x)]

\* In a commit, the staged frames hold the new chain; what they and the new free
\* set replace is not needed; and what was written, and synced, is as the pc says.
Committing == commit.pc \in {"flush", "sync", "meta", "syncmeta", "promote"}
CommitInv ==
    /\ Committing =>
          /\ commit.meta = [meta EXCEPT !.txn_id = @ + 1] /\ meta.root = tree
          /\ Recoverable(Overlay, commit.meta)
          /\ Range(LoadFreeList(Overlay, commit.meta).trunks) = Range(trunks)
          /\ Range(LoadFreeList(Overlay, commit.meta).free_set) = Range(free_set)
    /\ commit.pc \in {"flush", "sync", "meta"} =>
          /\ active_slot = BestSlot(os) /\ BestMeta(os).txn_id = meta.txn_id
          /\ BestMeta(os).page_count <= meta.page_count
          /\ (DOMAIN dirty \cup Range(free_set)) \cap Kept = {}
    /\ commit.pc \in {"sync", "meta", "syncmeta", "promote"} =>
          \A p \in DOMAIN dirty : os[p] = dirty[p]
    /\ commit.pc \in {"meta", "promote"} => unsynced = {}
    /\ commit.pc \in {"syncmeta", "promote"} =>
          BestSlot(os) = 1 - active_slot /\ os[1 - active_slot] = MetaFrame(commit.meta)
    /\ commit.pc = "syncmeta" => unsynced = {1 - active_slot}

\* The allocator's and the client's books.
BooksInv ==
    /\ NoSharing
    /\ free_set \in Seq(Page) /\ trunks \in Seq(Page) /\ commit.dead \in Seq(Page)
    /\ ~free_loaded => free_set = <<>> /\ trunks = <<>> /\ Open /\ fresh = {} /\ dirty = <<>>
    /\ fresh \subseteq tree \cup superseded
    /\ Books(Loaded) \cup Range(commit.dead) \cup tree \cup superseded \cup garbage
          \subseteq FIRST_DATA_PAGE .. (meta.page_count - 1)
    /\ opens = 0 =>
          /\ free_loaded
          /\ FIRST_DATA_PAGE .. (meta.page_count - 1)
                \subseteq tree \cup superseded \cup garbage \cup Books(Loaded) \cup Range(commit.dead)

\* All of it: at every step of a commit, of recovery and of the allocator the file
\* can be opened, and nothing that opening it needs is staged, free or being freed
\* (pager.rs alloc, free, commit, open_with_cache).
PagerInv == TypeOK /\ FileInv /\ EditInv /\ CommitInv /\ BooksInv
=============================================================================
