----------------------------- MODULE PageCache -----------------------------
(***************************************************************************)
(* The page cache (crates/pager/src/cache.rs) under the pager's read path, *)
(* write path and commit.  Readers fetch pages at any time, also between   *)
(* the two locked sections of a commit; one writer stages and commits.     *)
(***************************************************************************)
EXTENDS Naturals, FiniteSets

CONSTANTS
    Page, Frame,
    Budget,     \* budget_bytes / PAGE_SIZE
    MaxTick     \* bound on cache operations

ASSUME CacheBounds == Budget \in Nat /\ MaxTick \in Nat

VARIABLES
    backend,    \* page -> frame
    entries,    \* resident page -> [frame, dirty, tick]
    tick,
    flushing,   \* the frames a commit collected and has yet to write
    in_commit,  \* between the locked sections of a commit
    written     \* page -> the frame last given to write_page, what a read must return

vars == <<backend, entries, tick, flushing, in_commit, written>>

Init ==
    /\ backend \in [Page -> Frame] /\ written = backend
    /\ entries = <<>> /\ tick = 0 /\ flushing = <<>> /\ in_commit = FALSE

\* The tick of the next operation; every get and insert takes one.
Bump == tick < MaxTick /\ tick' = tick + 1

Clean(es) == {p \in DOMAIN es : ~es[p].dirty}

\* The entries of S that go, the least recently used first, while es is over
\* budget.  No two entries have the same tick.
Older(es, S, p) == {q \in S : es[q].tick < es[p].tick}
Victims(es, S) == {p \in S : Budget + Cardinality(Older(es, S, p)) < Cardinality(DOMAIN es)}
Without(es, V) == [q \in DOMAIN es \ V |-> es[q]]

\* Mutant: eviction may take a dirty frame.
EvictToBudgetAny(es) == Without(es, Victims(es, DOMAIN es))

\* evict_to_budget: while over budget, drop the least recently used clean
\* entry, if there is one.
EvictToBudget(es) == Without(es, Victims(es, Clean(es)))

\* Mutant: a new entry gets the tick of the operation before.
InsertStaleTick(p, frame, dirty) ==
    EvictToBudget([q \in DOMAIN entries \cup {p} |->
        IF q = p
        THEN [frame |-> frame, tick |-> tick,
              dirty |-> dirty \/ (p \in DOMAIN entries /\ entries[p].dirty)]
        ELSE entries[q]])

\* insert: replaces the frame and never clears a dirty flag.
Insert(p, frame, dirty) ==
    EvictToBudget([q \in DOMAIN entries \cup {p} |->
        IF q = p
        THEN [frame |-> frame, tick |-> tick',
              dirty |-> dirty \/ (p \in DOMAIN entries /\ entries[p].dirty)]
        ELSE entries[q]])

\* Pager::fetch: a hit refreshes the tick; a miss reads the backend and
\* inserts the frame clean.
Fetch(p) ==
    /\ Bump
    /\ entries' = IF p \in DOMAIN entries
                  THEN [entries EXCEPT ![p].tick = tick']
                  ELSE Insert(p, backend[p], FALSE)
    /\ UNCHANGED <<backend, flushing, in_commit, written>>

\* Pager::write_page.  The writer is one thread: it stages nothing while it
\* is committing.
WritePage(p, f) ==
    /\ ~in_commit /\ Bump
    /\ entries' = Insert(p, f, TRUE)
    /\ written' = [written EXCEPT ![p] = f]
    /\ UNCHANGED <<backend, flushing, in_commit>>

\* Mutant: the flags are cleared when the pages are collected.
CollectDirtyClears ==
    /\ ~in_commit /\ in_commit' = TRUE
    /\ flushing' = [p \in DOMAIN entries \ Clean(entries) |-> entries[p].frame]
    /\ entries' = [p \in DOMAIN entries |-> [entries[p] EXCEPT !.dirty = FALSE]]
    /\ UNCHANGED <<backend, tick, written>>

\* commit step 1: dirty_pages.
CollectDirty ==
    /\ ~in_commit /\ in_commit' = TRUE
    /\ flushing' = [p \in DOMAIN entries \ Clean(entries) |-> entries[p].frame]
    /\ UNCHANGED <<backend, entries, tick, written>>

\* commit step 2, one page.
FlushPage(p) ==
    /\ p \in DOMAIN flushing
    /\ backend' = [backend EXCEPT ![p] = flushing[p]]
    /\ flushing' = [q \in DOMAIN flushing \ {p} |-> flushing[q]]
    /\ UNCHANGED <<entries, tick, in_commit, written>>

\* commit step 3: clear_dirty.
ClearDirty ==
    /\ in_commit /\ flushing = <<>> /\ in_commit' = FALSE
    /\ entries' = [p \in DOMAIN entries |-> [entries[p] EXCEPT !.dirty = FALSE]]
    /\ UNCHANGED <<backend, tick, flushing, written>>

Next ==
    \/ \E p \in Page : Fetch(p) \/ FlushPage(p) \/ \E f \in Frame : WritePage(p, f)
    \/ CollectDirty \/ ClearDirty

Spec == Init /\ [][Next]_vars

-----------------------------------------------------------------------------
\* Types; a resident frame always carries the tick of some past operation.
TypeOK ==
    /\ backend \in [Page -> Frame] /\ written \in [Page -> Frame]
    /\ DOMAIN entries \subseteq Page
    /\ \A p \in DOMAIN entries :
          entries[p] \in [frame : Frame, dirty : BOOLEAN, tick : 1 .. MaxTick]
    /\ tick \in 0 .. MaxTick /\ in_commit \in BOOLEAN
    /\ DOMAIN flushing \subseteq Page

\* What Pager::fetch would return for p now.
Read(p) == IF p \in DOMAIN entries THEN entries[p].frame ELSE backend[p]

\* Every read returns the frame last written, whatever was evicted, flushed or
\* fetched in between, in the middle of a commit too (cache.rs insert,
\* evict_to_budget, clear_dirty; pager.rs fetch, commit).
ReadsLatest == \A p \in Page : Read(p) = written[p]

\* A frame that the backend does not have is resident and dirty, so the next
\* commit writes it (cache.rs insert, dirty_pages).
UnwrittenIsDirty ==
    \A p \in Page : backend[p] # written[p] => p \in DOMAIN entries /\ entries[p].dirty

-----------------------------------------------------------------------------
(* What makes the two inductive.                                           *)

\* No two resident frames were used by the same operation.
TicksDiffer ==
    \A p, q \in DOMAIN entries : entries[p].tick <= tick /\ (p # q => entries[p].tick # entries[q].tick)

\* Between the locked sections of a commit, a dirty frame has reached the backend
\* or is about to, and what is about to is the last write.
FlushInv ==
    /\ ~in_commit => flushing = <<>>
    /\ \A p \in DOMAIN flushing : flushing[p] = written[p]
    /\ in_commit => \A p \in DOMAIN entries :
           entries[p].dirty => p \in DOMAIN flushing \/ backend[p] = written[p]

\* The inductive invariant of the cache.
CacheInv == TypeOK /\ TicksDiffer /\ ReadsLatest /\ UnwrittenIsDirty /\ FlushInv

=============================================================================
