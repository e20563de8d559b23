-------------------------- MODULE PageCacheProofs --------------------------
(***************************************************************************)
(* CacheInv is an invariant of PageCache, for every set of pages and       *)
(* frames and every budget.                                                *)
(***************************************************************************)
EXTENDS PageCache, TLAPS

\* Eviction only drops entries, and only clean ones, whatever the budget.
LEMMA EvictKeeps ==
    ASSUME NEW es
    PROVE  /\ DOMAIN EvictToBudget(es) \subseteq DOMAIN es
           /\ \A p \in DOMAIN es : es[p].dirty => p \in DOMAIN EvictToBudget(es)
           /\ \A p \in DOMAIN EvictToBudget(es) : EvictToBudget(es)[p] = es[p]
<1>1. Victims(es, Clean(es)) \subseteq Clean(es)
  BY DEF Victims
<1> QED
  BY <1>1 DEF EvictToBudget, Without, Clean

\* The entries after an insert: the page itself, unless it was evicted while
\* clean, and some of the others, all the dirty ones among them.
LEMMA InsertKeeps ==
    ASSUME NEW p, NEW f \in Frame, NEW d \in BOOLEAN, tick' \in 1 .. MaxTick,
           entries' = Insert(p, f, d)
    PROVE  /\ DOMAIN entries' \subseteq DOMAIN entries \cup {p}
           /\ \A q \in DOMAIN entries' : q # p => q \in DOMAIN entries /\ entries'[q] = entries[q]
           /\ \A q \in DOMAIN entries : q # p /\ entries[q].dirty => q \in DOMAIN entries'
           /\ p \in DOMAIN entries' =>
                 /\ entries'[p] \in [frame : Frame, dirty : BOOLEAN, tick : 1 .. MaxTick]
                 /\ entries'[p].frame = f /\ entries'[p].tick = tick'
                 /\ entries'[p].dirty <=> d \/ (p \in DOMAIN entries /\ entries[p].dirty)
           /\ d \/ (p \in DOMAIN entries /\ entries[p].dirty) => p \in DOMAIN entries'
<1> DEFINE new == [q \in DOMAIN entries \cup {p} |->
        IF q = p
        THEN [frame |-> f, tick |-> tick',
              dirty |-> d \/ (p \in DOMAIN entries /\ entries[p].dirty)]
        ELSE entries[q]]
<1>1. entries' = EvictToBudget(new)
  BY DEF Insert
<1>2. /\ DOMAIN new = DOMAIN entries \cup {p}
      /\ \A q \in DOMAIN new : q # p => new[q] = entries[q]
      /\ new[p] = [frame |-> f, tick |-> tick',
                   dirty |-> d \/ (p \in DOMAIN entries /\ entries[p].dirty)]
  OBVIOUS
<1>3. /\ new[p] \in [frame : Frame, dirty : BOOLEAN, tick : 1 .. MaxTick]
      /\ new[p].frame = f /\ new[p].tick = tick'
      /\ new[p].dirty <=> d \/ (p \in DOMAIN entries /\ entries[p].dirty)
  BY <1>2
<1> HIDE DEF new
<1>4. /\ DOMAIN entries' \subseteq DOMAIN new
      /\ \A q \in DOMAIN new : new[q].dirty => q \in DOMAIN entries'
      /\ \A q \in DOMAIN entries' : entries'[q] = new[q]
  BY <1>1, EvictKeeps
<1>5. \A q \in DOMAIN entries' : q # p => q \in DOMAIN entries /\ entries'[q] = entries[q]
  BY <1>2, <1>4
<1>6. \A q \in DOMAIN entries : q # p /\ entries[q].dirty => q \in DOMAIN entries'
  BY <1>2, <1>4
<1>7. p \in DOMAIN entries' => entries'[p] = new[p]
  BY <1>4
<1>8. d \/ (p \in DOMAIN entries /\ entries[p].dirty) => p \in DOMAIN entries'
  BY <1>2, <1>3, <1>4
<1> QED
  BY <1>2, <1>3, <1>4, <1>5, <1>6, <1>7, <1>8

\* A file whose pages are all on the backend and an empty cache.
LEMMA InitCache == Init => CacheInv
<1> SUFFICES ASSUME Init PROVE CacheInv
  OBVIOUS
<1>1. DOMAIN entries = {} /\ DOMAIN flushing = {}
  BY DEF Init
<1>2. TypeOK
  <2>1. in_commit \in BOOLEAN
    BY Zenon DEF Init
  <2>2. tick \in 0 .. MaxTick
    BY CacheBounds DEF Init
  <2>3. backend \in [Page -> Frame] /\ written \in [Page -> Frame]
    BY DEF Init
  <2> QED
    BY <1>1, <2>1, <2>2, <2>3 DEF TypeOK
<1>3. TicksDiffer /\ FlushInv
  BY <1>1 DEF Init, TicksDiffer, FlushInv
<1>4. ReadsLatest /\ UnwrittenIsDirty
  BY <1>1 DEF Init, ReadsLatest, Read, UnwrittenIsDirty
<1> QED
  BY <1>2, <1>3, <1>4 DEF CacheInv

\* A hit changes a tick and nothing else that is kept.
LEMMA HitKeeps ==
    ASSUME CacheInv, NEW p \in Page, Fetch(p), p \in DOMAIN entries
    PROVE  CacheInv'
<1> USE DEF CacheInv
<1>1. /\ DOMAIN entries' = DOMAIN entries
      /\ entries'[p] = [entries[p] EXCEPT !.tick = tick + 1]
      /\ \A q \in DOMAIN entries : q # p => entries'[q] = entries[q]
      /\ tick' = tick + 1 /\ tick' \in 1 .. MaxTick
  BY CacheBounds DEF Fetch, Bump, TypeOK
<1>2. entries[p] \in [frame : Frame, dirty : BOOLEAN, tick : 1 .. MaxTick]
  BY DEF TypeOK
<1>3. /\ entries'[p] \in [frame : Frame, dirty : BOOLEAN, tick : 1 .. MaxTick]
      /\ entries'[p].frame = entries[p].frame /\ entries'[p].dirty = entries[p].dirty
      /\ entries'[p].tick = tick + 1
  BY <1>1, <1>2
<1>4. UNCHANGED <<backend, flushing, in_commit, written>>
  BY DEF Fetch
<1>5. \A q \in DOMAIN entries : /\ entries'[q].frame = entries[q].frame
                                /\ entries'[q].dirty = entries[q].dirty
  BY <1>1, <1>3
<1>6. TypeOK'
  BY <1>1, <1>3, <1>4 DEF TypeOK
<1>7. TicksDiffer'
  BY <1>1, <1>3 DEF TicksDiffer, TypeOK
<1>8. ReadsLatest' /\ UnwrittenIsDirty' /\ FlushInv'
  BY <1>1, <1>4, <1>5 DEF ReadsLatest, Read, UnwrittenIsDirty, FlushInv
<1> QED
  BY <1>6, <1>7, <1>8

\* A miss inserts what the backend has, which is the last write.
LEMMA MissKeeps ==
    ASSUME CacheInv, NEW p \in Page, Fetch(p), p \notin DOMAIN entries
    PROVE  CacheInv'
<1> USE DEF CacheInv
<1>1. /\ entries' = Insert(p, backend[p], FALSE)
      /\ tick' = tick + 1 /\ tick' \in 1 .. MaxTick
      /\ UNCHANGED <<backend, flushing, in_commit, written>>
  BY CacheBounds DEF Fetch, Bump, TypeOK
<1>2. backend[p] \in Frame /\ backend[p] = written[p]
  BY DEF TypeOK, UnwrittenIsDirty
<1>3. /\ DOMAIN entries' \subseteq DOMAIN entries \cup {p}
      /\ \A q \in DOMAIN entries' : q # p => q \in DOMAIN entries /\ entries'[q] = entries[q]
      /\ \A q \in DOMAIN entries : entries[q].dirty => q \in DOMAIN entries'
      /\ p \in DOMAIN entries' =>
            /\ entries'[p] \in [frame : Frame, dirty : BOOLEAN, tick : 1 .. MaxTick]
            /\ entries'[p].frame = backend[p] /\ entries'[p].tick = tick'
            /\ ~entries'[p].dirty
  BY <1>1, <1>2, InsertKeeps
<1>4. TypeOK'
  <2>1. \A q \in DOMAIN entries' :
           entries'[q] \in [frame : Frame, dirty : BOOLEAN, tick : 1 .. MaxTick]
    BY <1>3 DEF TypeOK
  <2>2. DOMAIN entries' \subseteq Page
    BY <1>3 DEF TypeOK
  <2>3. tick' \in 0 .. MaxTick
    BY <1>1, CacheBounds
  <2> QED
    BY <1>1, <2>1, <2>2, <2>3 DEF TypeOK
<1>5. TicksDiffer'
  <2>1. \A q \in DOMAIN entries : entries[q].tick <= tick' /\ entries[q].tick # tick'
    BY <1>1, CacheBounds DEF TicksDiffer, TypeOK
  <2>2. tick' <= tick'
    BY <1>1, CacheBounds
  <2> QED
    BY <1>3, <2>1, <2>2 DEF TicksDiffer
<1>6. UnwrittenIsDirty'
  BY <1>1, <1>2, <1>3 DEF UnwrittenIsDirty
<1>7. ReadsLatest'
  BY <1>1, <1>2, <1>3 DEF ReadsLatest, Read, UnwrittenIsDirty
<1>8. FlushInv'
  BY <1>1, <1>3 DEF FlushInv, TypeOK
<1> QED
  BY <1>4, <1>5, <1>6, <1>7, <1>8

\* A write inserts a dirty frame, which no eviction drops.
LEMMA WriteKeeps ==
    ASSUME CacheInv, NEW p \in Page, NEW f \in Frame, WritePage(p, f)
    PROVE  CacheInv'
<1> USE DEF CacheInv
<1>1. /\ entries' = Insert(p, f, TRUE) /\ ~in_commit
      /\ tick' = tick + 1 /\ tick' \in 1 .. MaxTick
      /\ written' = [written EXCEPT ![p] = f]
      /\ UNCHANGED <<backend, flushing, in_commit>>
  BY CacheBounds DEF WritePage, Bump, TypeOK
<1>2. /\ DOMAIN entries' \subseteq DOMAIN entries \cup {p}
      /\ \A q \in DOMAIN entries' : q # p => q \in DOMAIN entries /\ entries'[q] = entries[q]
      /\ \A q \in DOMAIN entries : q # p /\ entries[q].dirty => q \in DOMAIN entries'
      /\ p \in DOMAIN entries' /\ entries'[p].dirty
      /\ entries'[p] \in [frame : Frame, dirty : BOOLEAN, tick : 1 .. MaxTick]
      /\ entries'[p].frame = f /\ entries'[p].tick = tick'
  BY <1>1, InsertKeeps
<1>3. /\ written' \in [Page -> Frame] /\ written'[p] = f
      /\ \A q \in Page : q # p => written'[q] = written[q]
  BY <1>1 DEF TypeOK
<1>4. TypeOK'
  <2>1. \A q \in DOMAIN entries' :
           entries'[q] \in [frame : Frame, dirty : BOOLEAN, tick : 1 .. MaxTick]
    BY <1>2 DEF TypeOK
  <2>2. DOMAIN entries' \subseteq Page
    BY <1>2 DEF TypeOK
  <2>3. tick' \in 0 .. MaxTick
    BY <1>1, CacheBounds
  <2> QED
    BY <1>1, <2>1, <2>2, <2>3, <1>3 DEF TypeOK
<1>5. TicksDiffer'
  <2>1. \A q \in DOMAIN entries : entries[q].tick <= tick' /\ entries[q].tick # tick'
    BY <1>1, CacheBounds DEF TicksDiffer, TypeOK
  <2>2. tick' <= tick'
    BY <1>1, CacheBounds
  <2> QED
    BY <1>2, <2>1, <2>2 DEF TicksDiffer
<1>6. UnwrittenIsDirty'
  BY <1>1, <1>2, <1>3 DEF UnwrittenIsDirty
<1>7. ReadsLatest'
  <2>1. Read(p)' = written'[p]
    BY <1>2, <1>3 DEF Read
  <2>2. ASSUME NEW q \in Page, q # p PROVE Read(q)' = written'[q]
    <3>1. CASE q \in DOMAIN entries'
      BY <1>2, <1>3, <2>2, <3>1 DEF ReadsLatest, Read
    <3>2. CASE q \notin DOMAIN entries'
      BY <1>1, <1>2, <1>3, <2>2, <3>2 DEF Read, UnwrittenIsDirty
    <3> QED
      BY <3>1, <3>2
  <2> QED
    BY <2>1, <2>2 DEF ReadsLatest
<1>8. FlushInv'
  <2>1. flushing' = <<>> /\ DOMAIN flushing' = {} /\ ~in_commit'
    BY <1>1 DEF FlushInv
  <2> QED
    BY <2>1 DEF FlushInv
<1> QED
  BY <1>4, <1>5, <1>6, <1>7, <1>8

\* The first step of a commit takes every frame that the backend may lack.
LEMMA CollectKeeps == CacheInv /\ CollectDirty => CacheInv'
<1> SUFFICES ASSUME CacheInv, CollectDirty PROVE CacheInv'
  OBVIOUS
<1> USE DEF CacheInv
<1>1. UNCHANGED <<backend, entries, tick, written>> /\ in_commit' = TRUE
  BY DEF CollectDirty
<1>2. /\ DOMAIN flushing' = DOMAIN entries \ Clean(entries)
      /\ \A p \in DOMAIN flushing' : flushing'[p] = entries[p].frame
  BY DEF CollectDirty
<1>3. DOMAIN entries \subseteq Page
  BY DEF TypeOK
<1>4. FlushInv'
  BY <1>1, <1>2, <1>3 DEF FlushInv, Clean, ReadsLatest, Read
<1>5. TypeOK'
  <2>1. in_commit' \in BOOLEAN
    BY <1>1, Zenon
  <2> QED
    BY <1>1, <1>2, <2>1 DEF TypeOK
<1> QED
  BY <1>1, <1>4, <1>5 DEF TicksDiffer, ReadsLatest, Read, UnwrittenIsDirty

\* A page that a commit writes is the last write of it, reads in between or not.
LEMMA FlushKeeps ==
    ASSUME CacheInv, NEW p \in Page, FlushPage(p)
    PROVE  CacheInv'
<1> USE DEF CacheInv
<1>1. /\ p \in DOMAIN flushing
      /\ backend' = [backend EXCEPT ![p] = flushing[p]]
      /\ DOMAIN flushing' = DOMAIN flushing \ {p}
      /\ \A q \in DOMAIN flushing' : flushing'[q] = flushing[q]
      /\ UNCHANGED <<entries, tick, in_commit, written>>
  BY DEF FlushPage
<1>2. in_commit
  BY <1>1 DEF FlushInv
<1>3. flushing[p] = written[p] /\ written[p] \in Frame
  BY <1>1 DEF FlushInv, TypeOK
<1>4. /\ backend' \in [Page -> Frame] /\ backend'[p] = written[p]
      /\ \A q \in Page : q # p => backend'[q] = backend[q]
  BY <1>1, <1>3 DEF TypeOK
<1>5. TypeOK' /\ TicksDiffer'
  BY <1>1, <1>4 DEF TypeOK, TicksDiffer
<1>6. UnwrittenIsDirty'
  BY <1>1, <1>4 DEF UnwrittenIsDirty
<1>7. ReadsLatest'
  BY <1>1, <1>4 DEF ReadsLatest, Read
<1>8. FlushInv'
  BY <1>1, <1>2, <1>4 DEF FlushInv, TypeOK
<1> QED
  BY <1>5, <1>6, <1>7, <1>8

\* When the flags are cleared every dirty frame is on the backend.
LEMMA ClearKeeps == CacheInv /\ ClearDirty => CacheInv'
<1> SUFFICES ASSUME CacheInv, ClearDirty PROVE CacheInv'
  OBVIOUS
<1> USE DEF CacheInv
<1>1. /\ in_commit /\ flushing = <<>> /\ in_commit' = FALSE
      /\ DOMAIN entries' = DOMAIN entries
      /\ \A p \in DOMAIN entries : entries'[p] = [entries[p] EXCEPT !.dirty = FALSE]
      /\ UNCHANGED <<backend, tick, flushing, written>>
  BY DEF ClearDirty
<1>2. \A p \in DOMAIN entries :
         /\ entries'[p] \in [frame : Frame, dirty : BOOLEAN, tick : 1 .. MaxTick]
         /\ entries'[p].frame = entries[p].frame /\ entries'[p].tick = entries[p].tick
  BY <1>1 DEF TypeOK
<1>3. DOMAIN flushing = {}
  BY <1>1
<1>4. \A p \in Page : backend[p] = written[p]
  BY <1>1, <1>3 DEF UnwrittenIsDirty, FlushInv
<1>5. TypeOK'
  <2>1. in_commit' \in BOOLEAN
    BY <1>1, Zenon
  <2> QED
    BY <1>1, <1>2, <2>1 DEF TypeOK
<1>6. TicksDiffer' /\ ReadsLatest'
  BY <1>1, <1>2 DEF TicksDiffer, ReadsLatest, Read
<1>7. UnwrittenIsDirty' /\ FlushInv'
  BY <1>1, <1>3, <1>4 DEF UnwrittenIsDirty, FlushInv
<1> QED
  BY <1>5, <1>6, <1>7

\* One case per action.
LEMMA NextCache == CacheInv /\ [Next]_vars => CacheInv'
<1> SUFFICES ASSUME CacheInv, [Next]_vars PROVE CacheInv'
  OBVIOUS
<1>1. ASSUME NEW p \in Page, Fetch(p) PROVE CacheInv'
  BY <1>1, HitKeeps, MissKeeps
<1>2. ASSUME NEW p \in Page, FlushPage(p) PROVE CacheInv'
  BY <1>2, FlushKeeps
<1>3. ASSUME NEW p \in Page, NEW f \in Frame, WritePage(p, f) PROVE CacheInv'
  BY <1>3, WriteKeeps
<1>4. CASE CollectDirty
  BY <1>4, CollectKeeps
<1>5. CASE ClearDirty
  BY <1>5, ClearKeeps
<1>6. CASE UNCHANGED vars
  BY <1>6 DEF vars, CacheInv, TypeOK, TicksDiffer, ReadsLatest, Read, UnwrittenIsDirty, FlushInv
<1> QED
  BY <1>1, <1>2, <1>3, <1>4, <1>5, <1>6 DEF Next

-----------------------------------------------------------------------------

\* CacheInv holds always.
LEMMA CacheInvariant == Spec => []CacheInv
BY InitCache, NextCache, PTL DEF Spec

\* The cache keeps its types (PageCache's fields).
THEOREM CacheTyped == Spec => []TypeOK
<1>1. CacheInv => TypeOK
  BY DEF CacheInv
<1> QED
  BY <1>1, CacheInvariant, PTL

\* Every read returns the frame last written, whatever is evicted, flushed or
\* fetched in between (cache.rs, and pager.rs fetch and commit).
THEOREM CacheReadsLatest == Spec => []ReadsLatest
<1>1. CacheInv => ReadsLatest
  BY DEF CacheInv
<1> QED
  BY <1>1, CacheInvariant, PTL

\* No frame that the backend lacks is dropped or marked clean (cache.rs
\* evict_to_budget, clear_dirty).
THEOREM CacheLosesNothing == Spec => []UnwrittenIsDirty
<1>1. CacheInv => UnwrittenIsDirty
  BY DEF CacheInv
<1> QED
  BY <1>1, CacheInvariant, PTL

=============================================================================
