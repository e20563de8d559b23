---------------------------- MODULE PagerProofs ----------------------------
(***************************************************************************)
(* The safety properties of module Pager, and that it implements           *)
(* PageStore, for every size of the file and of a trunk and any number of  *)
(* commits, crashes and reopens.                                           *)
(***************************************************************************)
EXTENDS FreeListProofs

-----------------------------------------------------------------------------
(* Opening.                                                                *)

\* The slot that open chooses is valid.
LEMMA BestIsValid ==
    ASSUME NEW img, CanOpen(img)
    PROVE  /\ BestSlot(img) \in Slot /\ ValidMeta(img, BestSlot(img))
           /\ BestMeta(img) = img[BestSlot(img)].meta
BY DEF CanOpen, BestSlot, BestMeta, Slot

\* The choice depends on the two slots alone.
LEMMA SameSlots ==
    ASSUME NEW img, NEW img2, img2[0] = img[0], img2[1] = img[1]
    PROVE  /\ CanOpen(img2) <=> CanOpen(img)
           /\ BestSlot(img2) = BestSlot(img) /\ BestMeta(img2) = BestMeta(img)
<1>1. ValidMeta(img2, 0) = ValidMeta(img, 0) /\ ValidMeta(img2, 1) = ValidMeta(img, 1)
  BY DEF ValidMeta
<1>2. CanOpen(img2) = CanOpen(img)
  BY <1>1 DEF CanOpen, Slot
<1>3. BestSlot(img2) = BestSlot(img) /\ BestSlot(img) \in Slot
  BY <1>1 DEF BestSlot, Slot
<1>4. img2[BestSlot(img)] = img[BestSlot(img)]
  BY <1>3 DEF Slot
<1> QED
  BY <1>2, <1>3, <1>4 DEF BestMeta

\* A list stays readable while its trunks are not written.
LEMMA RecoverStable ==
    ASSUME NEW img, NEW img2, NEW m, m.page_count \in Nat, Recoverable(img, m),
           \A p \in Range(LoadFreeList(img, m).trunks) : img2[p] = img[p]
    PROVE  Recoverable(img2, m) /\ LoadFreeList(img2, m) = LoadFreeList(img, m)
<1>1. LoadFreeList(img, m).ok
  BY DEF Recoverable
<1>2. LoadFreeList(img2, m) = LoadFreeList(img, m)
  BY <1>1, LoadStable
<1> QED
  BY <1>2 DEF Recoverable

\* So does a file that opens at the same meta page.
LEMMA FileKept ==
    ASSUME NEW img, NEW img2, Recoverable(img, BestMeta(img)),
           BestMeta(img).page_count \in Nat, BestMeta(img2) = BestMeta(img),
           \A p \in Needed(img) : img2[p] = img[p]
    PROVE  /\ Recoverable(img2, BestMeta(img2))
           /\ LoadFreeList(img2, BestMeta(img2)) = LoadFreeList(img, BestMeta(img))
           /\ Needed(img2) = Needed(img) /\ VersionIn(img2) = VersionIn(img)
<1>1. \A p \in Range(LoadFreeList(img, BestMeta(img)).trunks) : img2[p] = img[p]
  BY DEF Needed
<1>2. /\ Recoverable(img2, BestMeta(img))
      /\ LoadFreeList(img2, BestMeta(img)) = LoadFreeList(img, BestMeta(img))
  BY <1>1, RecoverStable
<1>3. Needed(img2) = Needed(img)
  BY <1>2 DEF Needed
<1>4. VersionIn(img2) = VersionIn(img)
  <2>1. \A p \in BestMeta(img).root : img2[p] = img[p]
    BY DEF Needed
  <2> QED
    BY <2>1 DEF VersionIn
<1> QED
  BY <1>2, <1>3, <1>4

\* A file that keeps its slots and the needed pages opens as before.
LEMMA FileStable ==
    ASSUME NEW img, NEW img2, CanOpen(img), Recoverable(img, BestMeta(img)),
           BestMeta(img).page_count \in Nat,
           img2[0] = img[0], img2[1] = img[1], \A p \in Needed(img) : img2[p] = img[p]
    PROVE  /\ CanOpen(img2) /\ BestSlot(img2) = BestSlot(img) /\ BestMeta(img2) = BestMeta(img)
           /\ Recoverable(img2, BestMeta(img2))
           /\ LoadFreeList(img2, BestMeta(img2)) = LoadFreeList(img, BestMeta(img))
           /\ Needed(img2) = Needed(img) /\ VersionIn(img2) = VersionIn(img)
BY SameSlots, FileKept

\* The best meta page of a typed file is typed.
FileType(img) ==
    /\ DOMAIN img = Slot \cup Page
    /\ \A p \in Page : img[p] \in Frame
    /\ \A x \in Slot : img[x] \in {Zero, Torn} \/ (img[x].kind = "meta" /\ img[x].meta \in Meta)

\* The meta that open chooses is a meta.
LEMMA BestMetaType ==
    ASSUME NEW img, FileType(img), CanOpen(img)
    PROVE  BestMeta(img) \in Meta
<1>1. BestSlot(img) \in Slot /\ img[BestSlot(img)].kind = "meta"
      /\ BestMeta(img) = img[BestSlot(img)].meta
  BY BestIsValid DEF ValidMeta
<1>2. Zero.kind # "meta" /\ Torn.kind # "meta"
  BY DEF Zero, Torn
<1> QED
  BY <1>1, <1>2 DEF FileType

\* The fields of a meta.
LEMMA MetaType ==
    ASSUME NEW m \in Meta
    PROVE  /\ m.page_count \in Nat /\ m.page_count >= 2 /\ m.page_count <= MaxPages
           /\ m.txn_id \in Nat /\ m.txn_id <= MaxTxn
           /\ m.root \subseteq Page /\ m.len \in Nat /\ m.head \in Page \cup {0}
           /\ FIRST_DATA_PAGE .. (m.page_count - 1) \subseteq Page
<1>1. MaxPages \in Nat /\ MaxTxn \in Nat
  BY PagerBounds
<1>2. /\ m.page_count \in 2 .. MaxPages /\ m.txn_id \in 0 .. MaxTxn
      /\ m.root \subseteq Page /\ m.len \in Nat /\ m.head \in Page \cup {0}
  BY DEF Meta
<1> QED
  BY <1>1, <1>2 DEF Page, FIRST_DATA_PAGE

\* Slots are not pages.
LEMMA SlotsNotPages == Slot \cap Page = {} /\ 0 \in Slot /\ 1 \in Slot
BY PagerBounds DEF Slot, Page, FIRST_DATA_PAGE

\* A recoverable list, part by part.
LEMMA RecoverableRange ==
    ASSUME NEW img, NEW m \in Meta, Recoverable(img, m)
    PROVE  /\ LoadFreeList(img, m).ok
           /\ LoadFreeList(img, m).free_set \in Seq(Page)
           /\ LoadFreeList(img, m).trunks \in Seq(Page)
           /\ IsInjective(LoadFreeList(img, m).free_set)
           /\ IsInjective(LoadFreeList(img, m).trunks)
           /\ Range(LoadFreeList(img, m).free_set) \cap Range(LoadFreeList(img, m).trunks) = {}
           /\ Range(LoadFreeList(img, m).free_set) \cap m.root = {}
           /\ Range(LoadFreeList(img, m).trunks) \cap m.root = {}
           /\ Range(LoadFreeList(img, m).free_set) \subseteq FIRST_DATA_PAGE .. (m.page_count - 1)
           /\ Range(LoadFreeList(img, m).trunks) \subseteq FIRST_DATA_PAGE .. (m.page_count - 1)
           /\ m.root \subseteq FIRST_DATA_PAGE .. (m.page_count - 1)
<1> DEFINE l == LoadFreeList(img, m)
<1>1. /\ l.ok /\ l.free_set \in Seq(Page) /\ l.trunks \in Seq(Page)
      /\ IsInjective(l.free_set \o l.trunks)
      /\ Books(l) \cap m.root = {}
      /\ Books(l) \cup m.root \subseteq FIRST_DATA_PAGE .. (m.page_count - 1)
  BY DEF Recoverable
<1> HIDE DEF l
<1>2. IsInjective(l.free_set) /\ IsInjective(l.trunks) /\ Range(l.free_set) \cap Range(l.trunks) = {}
  BY <1>1, InjConcat
<1>3. /\ Range(l.free_set) \cap m.root = {} /\ Range(l.trunks) \cap m.root = {}
      /\ Range(l.free_set) \subseteq FIRST_DATA_PAGE .. (m.page_count - 1)
      /\ Range(l.trunks) \subseteq FIRST_DATA_PAGE .. (m.page_count - 1)
      /\ m.root \subseteq FIRST_DATA_PAGE .. (m.page_count - 1)
  BY <1>1 DEF Books
<1> QED
  BY <1>1, <1>2, <1>3 DEF l

-----------------------------------------------------------------------------
(* What each kind of I/O does to the file.                                 *)

\* What the invariant says of one image of the file.
LEMMA FileFacts ==
    ASSUME TypeOK, FileInv, NEW img \in {disk, os}
    PROVE  /\ FileType(img) /\ CanOpen(img) /\ BestMeta(img) \in Meta
           /\ Recoverable(img, BestMeta(img)) /\ BestMeta(img).page_count \in Nat
           /\ Needed(img) \subseteq FIRST_DATA_PAGE .. (BestMeta(img).page_count - 1)
           /\ Needed(img) \subseteq Page /\ Needed(img) \subseteq Kept
<1>1. FileType(img)
  BY DEF TypeOK, FileType
<1>2. CanOpen(img) /\ Recoverable(img, BestMeta(img))
  BY DEF FileInv
<1>3. BestMeta(img) \in Meta
  BY <1>1, <1>2, BestMetaType
<1>4. Needed(img) \subseteq FIRST_DATA_PAGE .. (BestMeta(img).page_count - 1)
  BY <1>2, <1>3, RecoverableRange DEF Needed
<1>5. Needed(img) \subseteq Kept
  BY DEF Kept
<1> QED
  BY <1>1, <1>2, <1>3, <1>4, <1>5, MetaType

\* Writing pages that neither file needs.
LEMMA WritePages ==
    ASSUME TypeOK, FileInv, NEW frames, WriteFrames(frames),
           DOMAIN frames \subseteq Page, DOMAIN frames \cap Kept = {},
           \A p \in DOMAIN frames : frames[p] \in Frame
    PROVE  /\ FileInv' /\ FileType(os') /\ FileType(disk')
           /\ BestSlot(os') = BestSlot(os) /\ BestMeta(os') = BestMeta(os)
           /\ LoadFreeList(os', BestMeta(os')) = LoadFreeList(os, BestMeta(os))
           /\ Kept' = Kept /\ VersionIn(os') = VersionIn(os)
<1>1. /\ disk' = disk /\ unsynced' = unsynced \cup DOMAIN frames
      /\ os' = [x \in Slot \cup Page |-> IF x \in DOMAIN frames THEN frames[x] ELSE os[x]]
  BY DEF WriteFrames
<1>2. \A x \in Slot \cup Page : os'[x] = IF x \in DOMAIN frames THEN frames[x] ELSE os[x]
  BY <1>1
<1>3. \A x \in Slot : x \notin DOMAIN frames /\ os'[x] = os[x]
  BY <1>2, SlotsNotPages
<1>4. \A p \in Needed(os) : os'[p] = os[p]
  BY <1>2, FileFacts DEF Kept
<1>5. /\ CanOpen(os') /\ BestSlot(os') = BestSlot(os) /\ BestMeta(os') = BestMeta(os)
      /\ Recoverable(os', BestMeta(os'))
      /\ LoadFreeList(os', BestMeta(os')) = LoadFreeList(os, BestMeta(os))
      /\ Needed(os') = Needed(os) /\ VersionIn(os') = VersionIn(os)
  <2>1. os'[0] = os[0] /\ os'[1] = os[1]
    BY <1>3, SlotsNotPages
  <2> QED
    BY <1>4, <2>1, FileFacts, FileStable
<1>6. Kept' = Kept
  BY <1>1, <1>5 DEF Kept
<1>7. FileType(os') /\ FileType(disk')
  <2>1. DOMAIN os' = Slot \cup Page
    BY <1>1
  <2>2. FileType(os) /\ FileType(disk)
    BY FileFacts
  <2> QED
    BY <1>1, <1>2, <1>3, <2>1, <2>2 DEF FileType
<1>8. FileInv'
  <2>1. \A x \in (Slot \cup Page) \ unsynced' : os'[x] = disk'[x]
    BY <1>1, <1>2 DEF FileInv
  <2>2. \A img \in {disk', os'} : CanOpen(img) /\ Recoverable(img, BestMeta(img))
    BY <1>1, <1>5, FileFacts
  <2>3. Kept' \cap unsynced' = {}
    BY <1>1, <1>6 DEF FileInv
  <2>4. Range(LoadFreeList(os', BestMeta(os')).free_set) \cap Needed(disk') = {}
    BY <1>1, <1>5 DEF FileInv
  <2>5. /\ BestMeta(disk').page_count <= BestMeta(os').page_count
        /\ BestMeta(os') = BestMeta(disk') \/ BestMeta(os').txn_id > BestMeta(disk').txn_id
    BY <1>1, <1>5 DEF FileInv
  <2>6. \A s \in Slot \cap unsynced' :
           1 - s \notin unsynced' /\ ValidMeta(disk', 1 - s) /\ BestSlot(disk') = 1 - s
    <3> TAKE s \in Slot \cap unsynced'
    <3>1. s \in Slot \cap unsynced /\ 1 - s \in Slot
      BY <1>1, <1>3 DEF Slot
    <3> QED
      BY <1>1, <1>3, <3>1 DEF FileInv
  <2> QED
    BY <2>1, <2>2, <2>3, <2>4, <2>5, <2>6 DEF FileInv
<1> QED
  BY <1>5, <1>6, <1>7, <1>8

\* fsync.
LEMMA SyncFile ==
    ASSUME TypeOK, FileInv, disk' = os, os' = os, unsynced' = {}
    PROVE  FileInv' /\ FileType(os') /\ FileType(disk') /\ Kept' = Needed(os)
<1>1. FileType(os) /\ CanOpen(os) /\ Recoverable(os, BestMeta(os)) /\ BestMeta(os) \in Meta
  BY FileFacts
<1>2. Range(LoadFreeList(os, BestMeta(os)).free_set) \cap Needed(os) = {}
  BY <1>1, RecoverableRange DEF Needed
<1>3. BestMeta(os).page_count <= BestMeta(os).page_count
  BY <1>1, MetaType
<1>4. Kept' = Needed(os)
  BY DEF Kept
<1>5. FileInv'
  BY <1>1, <1>2, <1>3, <1>4 DEF FileInv
<1> QED
  BY <1>1, <1>4, <1>5

\* What was synced is what reads see.
LEMMA SyncedFile ==
    ASSUME TypeOK, FileInv, unsynced = {}
    PROVE  /\ \A x \in Slot \cup Page : disk[x] = os[x]
           /\ BestSlot(disk) = BestSlot(os) /\ BestMeta(disk) = BestMeta(os)
           /\ Needed(disk) = Needed(os)
<1>1. \A x \in Slot \cup Page : disk[x] = os[x]
  BY DEF FileInv
<1>2. disk[0] = os[0] /\ disk[1] = os[1] /\ \A p \in Needed(os) : disk[p] = os[p]
  BY <1>1, SlotsNotPages, FileFacts
<1> QED
  BY <1>1, <1>2, FileFacts, FileStable

\* Writing the inactive slot.
LEMMA WriteSlot ==
    ASSUME TypeOK, FileInv, unsynced = {}, NEW m \in Meta,
           WriteFrames([x \in {1 - BestSlot(os)} |-> MetaFrame(m)]),
           m.txn_id > BestMeta(os).txn_id, BestMeta(os).page_count <= m.page_count,
           Recoverable(os, m), Range(LoadFreeList(os, m).free_set) \cap Kept = {}
    PROVE  /\ FileInv' /\ FileType(os') /\ FileType(disk')
           /\ BestSlot(os') = 1 - BestSlot(os) /\ BestMeta(os') = m
           /\ os'[1 - BestSlot(os)] = MetaFrame(m)
           /\ \A p \in Page : os'[p] = os[p]
           /\ BestMeta(disk').txn_id < BestMeta(os').txn_id
           /\ disk' = disk /\ unsynced' = {1 - BestSlot(os)}
           /\ LoadFreeList(os', BestMeta(os')) = LoadFreeList(os, m)
<1> DEFINE a == BestSlot(os)
<1>1. a \in Slot /\ ValidMeta(os, a) /\ BestMeta(os) = os[a].meta
  BY FileFacts, BestIsValid
<1>2. 1 - a \in Slot /\ 1 - a # a /\ 1 - (1 - a) = a /\ Slot = {a, 1 - a}
  BY <1>1 DEF Slot
<1>3. /\ disk' = disk /\ unsynced' = {1 - a}
      /\ os' = [x \in Slot \cup Page |-> IF x \in {1 - a} THEN MetaFrame(m) ELSE os[x]]
  BY DEF WriteFrames
<1>4. /\ os'[1 - a] = MetaFrame(m) /\ os'[a] = os[a] /\ \A p \in Page : os'[p] = os[p]
      /\ DOMAIN os' = Slot \cup Page
  BY <1>1, <1>2, <1>3, SlotsNotPages
<1>5. ValidMeta(os', 1 - a) /\ ValidMeta(os', a) /\ os'[1 - a].meta = m /\ os'[a].meta = BestMeta(os)
  BY <1>1, <1>4 DEF ValidMeta, MetaFrame
<1>6. BestMeta(os).txn_id \in Nat /\ m.txn_id \in Nat
  BY FileFacts, MetaType
<1>7. BestSlot(os') = 1 - a
  <2>1. CASE a = 0
    BY <1>5, <1>6, <2>1 DEF BestSlot
  <2>2. CASE a = 1
    BY <1>5, <1>6, <2>2 DEF BestSlot
  <2> QED
    BY <1>1, <2>1, <2>2 DEF Slot
<1> HIDE DEF a
<1>8. CanOpen(os') /\ BestMeta(os') = m
  BY <1>2, <1>5, <1>7 DEF CanOpen, BestMeta
<1>9. m.page_count \in Nat
  BY MetaType
<1>10. Recoverable(os', m) /\ LoadFreeList(os', m) = LoadFreeList(os, m)
  <2>1. Range(LoadFreeList(os, m).trunks) \subseteq Page
    BY RecoverableRange, MetaType
  <2> QED
    BY <1>4, <1>9, <2>1, RecoverStable
<1>11. BestSlot(disk) = a /\ BestMeta(disk) = BestMeta(os)
  BY SyncedFile DEF a
<1>12. FileType(os') /\ FileType(disk')
  <2>1. FileType(os) /\ FileType(disk)
    BY FileFacts
  <2>2. os'[1 - a].kind = "meta"
    BY <1>4 DEF MetaFrame
  <2> QED
    BY <1>2, <1>3, <1>4, <1>5, <2>1, <2>2 DEF FileType
<1>13. FileInv'
  <2>1. \A x \in (Slot \cup Page) \ unsynced' : os'[x] = disk'[x]
    BY <1>2, <1>3, <1>4, SyncedFile
  <2>2. \A img \in {disk', os'} : CanOpen(img) /\ Recoverable(img, BestMeta(img))
    BY <1>3, <1>8, <1>10, FileFacts
  <2>3. Kept' \cap unsynced' = {}
    <3>1. Needed(os') \subseteq Page
      BY <1>8, <1>10, RecoverableRange, MetaType DEF Needed
    <3> QED
      BY <1>2, <1>3, <3>1, FileFacts, SlotsNotPages DEF Kept
  <2>4. Range(LoadFreeList(os', BestMeta(os')).free_set) \cap Needed(disk') = {}
    BY <1>3, <1>8, <1>10 DEF Kept
  <2>5. /\ BestMeta(disk').page_count <= BestMeta(os').page_count
        /\ BestMeta(os') = BestMeta(disk') \/ BestMeta(os').txn_id > BestMeta(disk').txn_id
    BY <1>3, <1>8, <1>11
  <2>6. \A s \in Slot \cap unsynced' :
           1 - s \notin unsynced' /\ ValidMeta(disk', 1 - s) /\ BestSlot(disk') = 1 - s
    <3>1. ValidMeta(disk, a)
      BY <1>11, FileFacts, BestIsValid
    <3> QED
      BY <1>2, <1>3, <1>11, <3>1
  <2> QED
    BY <2>1, <2>2, <2>3, <2>4, <2>5, <2>6 DEF FileInv
<1> QED
  BY <1>3, <1>4, <1>6, <1>7, <1>8, <1>10, <1>11, <1>12, <1>13 DEF a

\* Tearing the inactive slot.
LEMMA TearSlot ==
    ASSUME TypeOK, FileInv, unsynced = {},
           WriteFrames([x \in {1 - BestSlot(os)} |-> Torn])
    PROVE  /\ FileInv' /\ FileType(os') /\ FileType(disk')
           /\ BestMeta(os') = BestMeta(os) /\ VersionIn(os') = VersionIn(os)
           /\ disk' = disk /\ \A p \in Page : os'[p] = os[p]
<1> DEFINE a == BestSlot(os)
<1>1. a \in Slot /\ ValidMeta(os, a) /\ BestMeta(os) = os[a].meta
  BY FileFacts, BestIsValid
<1>2. 1 - a \in Slot /\ 1 - a # a /\ 1 - (1 - a) = a /\ Slot = {a, 1 - a}
  BY <1>1 DEF Slot
<1>3. /\ disk' = disk /\ unsynced' = {1 - a}
      /\ os' = [x \in Slot \cup Page |-> IF x \in {1 - a} THEN Torn ELSE os[x]]
  BY DEF WriteFrames
<1>4. /\ os'[1 - a] = Torn /\ os'[a] = os[a] /\ \A p \in Page : os'[p] = os[p]
      /\ DOMAIN os' = Slot \cup Page
  BY <1>1, <1>2, <1>3, SlotsNotPages
<1>5. ~ValidMeta(os', 1 - a) /\ ValidMeta(os', a) /\ os'[a].meta = BestMeta(os)
  BY <1>1, <1>4 DEF ValidMeta, Torn
<1>6. BestSlot(os') = a
  <2>1. CASE a = 0
    BY <1>5, <2>1 DEF BestSlot
  <2>2. CASE a = 1
    BY <1>5, <2>2 DEF BestSlot
  <2> QED
    BY <1>1, <2>1, <2>2 DEF Slot
<1> HIDE DEF a
<1>7. CanOpen(os') /\ BestMeta(os') = BestMeta(os)
  <2>1. CanOpen(os')
    BY <1>1, <1>5 DEF CanOpen
  <2> QED
    BY <1>5, <1>6, <2>1 DEF BestMeta
<1>8. /\ Recoverable(os', BestMeta(os')) /\ Needed(os') = Needed(os) /\ VersionIn(os') = VersionIn(os)
      /\ LoadFreeList(os', BestMeta(os')) = LoadFreeList(os, BestMeta(os))
  BY <1>4, <1>7, FileFacts, FileKept
<1>9. BestSlot(disk) = a /\ BestMeta(disk) = BestMeta(os)
  BY SyncedFile DEF a
<1>10. FileType(os') /\ FileType(disk')
  <2>1. FileType(os) /\ FileType(disk)
    BY FileFacts
  <2> QED
    BY <1>2, <1>3, <1>4, <2>1 DEF FileType
<1>11. FileInv'
  <2>1. \A x \in (Slot \cup Page) \ unsynced' : os'[x] = disk'[x]
    BY <1>2, <1>3, <1>4, SyncedFile
  <2>2. \A img \in {disk', os'} : CanOpen(img) /\ Recoverable(img, BestMeta(img))
    BY <1>3, <1>7, <1>8, FileFacts
  <2>3. Kept' \cap unsynced' = {}
    BY <1>2, <1>3, <1>8, FileFacts, SlotsNotPages DEF Kept
  <2>4. Range(LoadFreeList(os', BestMeta(os')).free_set) \cap Needed(disk') = {}
    BY <1>3, <1>8 DEF FileInv
  <2>5. /\ BestMeta(disk').page_count <= BestMeta(os').page_count
        /\ BestMeta(os') = BestMeta(disk') \/ BestMeta(os').txn_id > BestMeta(disk').txn_id
    BY <1>3, <1>7 DEF FileInv
  <2>6. \A s \in Slot \cap unsynced' :
           1 - s \notin unsynced' /\ ValidMeta(disk', 1 - s) /\ BestSlot(disk') = 1 - s
    <3>1. ValidMeta(disk, a)
      BY <1>9, FileFacts, BestIsValid
    <3> QED
      BY <1>2, <1>3, <1>9, <3>1
  <2> QED
    BY <2>1, <2>2, <2>3, <2>4, <2>5, <2>6 DEF FileInv
<1> QED
  BY <1>3, <1>4, <1>7, <1>8, <1>10, <1>11

\* Power fails.  Whatever becomes of the unsynced frames, the file opens at the
\* version on disk or at the one reads saw, whole, with its free list.
LEMMA CrashFile ==
    ASSUME TypeOK, FileInv, NEW fate \in [unsynced -> {"old", "new", "torn"}],
           disk' = [x \in Slot \cup Page |->
                      IF x \notin unsynced \/ fate[x] = "old" THEN disk[x]
                      ELSE IF fate[x] = "new" THEN os[x] ELSE Torn],
           os' = disk', unsynced' = {}
    PROVE  /\ FileInv' /\ FileType(disk') /\ Kept' = Needed(disk')
           /\ \E img \in {disk, os} : VersionIn(disk') = VersionIn(img)
<1>1. \A x \in Slot \cup Page :
         disk'[x] = IF x \notin unsynced \/ fate[x] = "old" THEN disk[x]
                    ELSE IF fate[x] = "new" THEN os[x] ELSE Torn
  OBVIOUS
<1>2. \A x \in Slot \cup Page : disk'[x] \in {disk[x], os[x], Torn}
  BY <1>1
<1>3. FileType(disk')
  <2>1. FileType(os) /\ FileType(disk) /\ DOMAIN disk' = Slot \cup Page
    BY FileFacts
  <2>2. Torn \in Frame
    BY DEF Frame
  <2> QED
    BY <1>2, <2>1, <2>2 DEF FileType
<1>4. \A p \in Kept : disk'[p] = disk[p] /\ disk'[p] = os[p]
  <2>1. \A p \in Kept : p \in Slot \cup Page /\ p \notin unsynced
    BY FileFacts DEF FileInv, Kept
  <2> QED
    BY <1>1, <2>1 DEF FileInv
<1> DEFINE Opens(img) ==
              /\ CanOpen(disk') /\ Recoverable(disk', BestMeta(disk'))
              /\ VersionIn(disk') = VersionIn(img)
<1>5. ASSUME NEW img \in {disk, os}, CanOpen(disk'), BestMeta(disk') = BestMeta(img)
      PROVE  Opens(img)
  <2>1. \A p \in Needed(img) : disk'[p] = img[p]
    BY <1>4, FileFacts
  <2> QED
    BY <1>5, <2>1, FileFacts, FileKept
<1>6. ASSUME NEW img \in {disk, os}, disk'[0] = img[0], disk'[1] = img[1]
      PROVE  Opens(img)
  BY <1>5, <1>6, SameSlots, FileFacts
<1>7. \E img \in {disk, os} : Opens(img)
  <2>1. CASE Slot \cap unsynced = {}
    BY <1>1, <1>6, <2>1, SlotsNotPages
  <2>2. ASSUME NEW s \in Slot \cap unsynced PROVE \E img \in {disk, os} : Opens(img)
    <3>1. 1 - s \in Slot /\ 1 - s # s /\ Slot = {s, 1 - s}
      BY DEF Slot
    <3>2. 1 - s \notin unsynced /\ ValidMeta(disk, 1 - s) /\ BestSlot(disk) = 1 - s
      BY DEF FileInv
    <3>3. disk'[1 - s] = disk[1 - s] /\ disk'[1 - s] = os[1 - s]
      BY <1>1, <3>1, <3>2 DEF FileInv
    <3>4. CASE disk'[s] = disk[s]
      BY <1>6, <3>1, <3>3, <3>4, SlotsNotPages
    <3>5. CASE disk'[s] = os[s]
      BY <1>6, <3>1, <3>3, <3>5, SlotsNotPages
    <3>6. CASE disk'[s] = Torn
      <4>1. ~ValidMeta(disk', s) /\ ValidMeta(disk', 1 - s)
        BY <3>2, <3>3, <3>6 DEF ValidMeta, Torn
      <4>2. BestSlot(disk') = 1 - s
        <5>1. CASE s = 0
          BY <4>1, <5>1 DEF BestSlot
        <5>2. CASE s = 1
          BY <4>1, <5>2 DEF BestSlot
        <5> QED
          BY <5>1, <5>2 DEF Slot
      <4>3. CanOpen(disk')
        BY <3>1, <4>1 DEF CanOpen
      <4>4. BestMeta(disk') = BestMeta(disk)
        BY <3>2, <3>3, <4>2, <4>3, FileFacts DEF BestMeta
      <4> QED
        BY <1>5, <4>3, <4>4
    <3> QED
      BY <1>2, <3>4, <3>5, <3>6
  <2> QED
    BY <2>1, <2>2
<1>8. CanOpen(disk') /\ Recoverable(disk', BestMeta(disk')) /\ BestMeta(disk') \in Meta
  BY <1>3, <1>7, BestMetaType
<1>9. Kept' = Needed(disk')
  BY DEF Kept
<1>10. FileInv'
  <2>1. Range(LoadFreeList(disk', BestMeta(disk')).free_set) \cap Needed(disk') = {}
    BY <1>8, RecoverableRange DEF Needed
  <2>2. BestMeta(disk').page_count <= BestMeta(disk').page_count
    BY <1>8, MetaType
  <2> QED
    BY <1>8, <1>9, <2>1, <2>2 DEF FileInv
<1> QED
  BY <1>3, <1>7, <1>9, <1>10

-----------------------------------------------------------------------------
(* The books.                                                              *)

\* Three lists and a set that share nothing, and the same piece by piece.
Disjoint(f, t, d, held) ==
    /\ IsInjective(f) /\ IsInjective(t) /\ IsInjective(d)
    /\ Range(f) \cap Range(t) = {} /\ Range(f) \cap Range(d) = {} /\ Range(t) \cap Range(d) = {}
    /\ Range(f) \cap held = {} /\ Range(t) \cap held = {} /\ Range(d) \cap held = {}

\* NoSharing, list by list.
LEMMA Sharing ==
    ASSUME NEW f \in Seq(Page), NEW t \in Seq(Page), NEW d \in Seq(Page), NEW held
    PROVE  (IsInjective(f \o t \o d) /\ Range(f \o t \o d) \cap held = {})
              <=> Disjoint(f, t, d, held)
<1> DEFINE u == f \o t
<1>1. u \in Seq(Page) /\ Range(u) = Range(f) \cup Range(t)
  BY RangeConcatenation
<1>2. IsInjective(u) <=> IsInjective(f) /\ IsInjective(t) /\ Range(f) \cap Range(t) = {}
  BY InjConcat
<1> HIDE DEF u
<1>3. Range(u \o d) = Range(u) \cup Range(d)
  BY <1>1, RangeConcatenation
<1>4. IsInjective(u \o d) <=> IsInjective(u) /\ IsInjective(d) /\ Range(u) \cap Range(d) = {}
  BY <1>1, InjConcat
<1>5. (IsInjective(u \o d) /\ Range(u \o d) \cap held = {}) <=> Disjoint(f, t, d, held)
  BY <1>1, <1>2, <1>3, <1>4 DEF Disjoint
<1> QED
  BY <1>5 DEF u

\* The empty list.
LEMMA EmptyList ==
    <<>> \in Seq(Page) /\ Range(<<>>) = {} /\ DOMAIN <<>> = {} /\ IsInjective(<<>>)
<1>1. <<>> \in Seq(Page) /\ DOMAIN <<>> = {}
  OBVIOUS
<1> QED
  BY <1>1 DEF Range, IsInjective

\* A reachable state's books, piece by piece.
LEMMA BookFacts ==
    ASSUME PagerInv
    PROVE  /\ Loaded.ok /\ Loaded.free_set \in Seq(Page) /\ Loaded.trunks \in Seq(Page)
           /\ commit.dead \in Seq(Page)
           /\ IsInjective(Loaded.free_set) /\ IsInjective(Loaded.trunks) /\ IsInjective(commit.dead)
           /\ Range(Loaded.free_set) \cap Range(Loaded.trunks) = {}
           /\ Range(Loaded.free_set) \cap Range(commit.dead) = {}
           /\ Range(Loaded.trunks) \cap Range(commit.dead) = {}
           /\ (tree \cup superseded \cup garbage) \cap Range(Loaded.free_set) = {}
           /\ (tree \cup superseded \cup garbage) \cap Range(Loaded.trunks) = {}
           /\ (tree \cup superseded \cup garbage) \cap Range(commit.dead) = {}
<1> USE DEF PagerInv
<1>1. /\ Loaded.ok /\ Loaded.free_set \in Seq(Page) /\ Loaded.trunks \in Seq(Page)
  <2>1. CASE free_loaded
    BY <2>1 DEF Loaded, BooksInv
  <2>2. CASE ~free_loaded
    <3>1. meta = BestMeta(os)
      BY <2>2 DEF BooksInv, EditInv, Editing, Open
    <3>2. Loaded = LoadFreeList(os, BestMeta(os))
      BY <2>2, <3>1 DEF Loaded
    <3> QED
      BY <3>2, FileFacts, RecoverableRange
  <2> QED
    BY <2>1, <2>2
<1>2. commit.dead \in Seq(Page)
  BY DEF BooksInv
<1> DEFINE held == tree \cup superseded \cup garbage
<1>3. /\ IsInjective(Loaded.free_set \o Loaded.trunks \o commit.dead)
      /\ Range(Loaded.free_set \o Loaded.trunks \o commit.dead) \cap held = {}
  BY DEF BooksInv, NoSharing
<1> HIDE DEF held
<1>4. Disjoint(Loaded.free_set, Loaded.trunks, commit.dead, held)
  BY <1>1, <1>2, <1>3, Sharing
<1>5. /\ IsInjective(Loaded.free_set) /\ IsInjective(Loaded.trunks) /\ IsInjective(commit.dead)
      /\ Range(Loaded.free_set) \cap Range(Loaded.trunks) = {}
      /\ Range(Loaded.free_set) \cap Range(commit.dead) = {}
      /\ Range(Loaded.trunks) \cap Range(commit.dead) = {}
      /\ Range(Loaded.free_set) \cap held = {}
      /\ Range(Loaded.trunks) \cap held = {} /\ Range(commit.dead) \cap held = {}
  BY <1>4 DEF Disjoint
<1> QED
  BY <1>1, <1>2, <1>5 DEF held

\* Opening a file that can be recovered establishes the invariant.
LEMMA OpenKeeps ==
    ASSUME TypeOK, FileInv', FileType(disk'), FileType(os'), unsynced' \subseteq Slot \cup Page,
           OpenOn(os')
    PROVE  PagerInv'
<1> DEFINE m == BestMeta(os')
           l == LoadFreeList(os', m)
<1>1. /\ CanOpen(os') /\ meta' = m /\ active_slot' = BestSlot(os')
      /\ dirty' = <<>> /\ free_set' = <<>> /\ trunks' = <<>> /\ free_loaded' = FALSE
      /\ commit' = NoCommit /\ opens < MaxOpen /\ opens' = opens + 1
      /\ tree' = m.root /\ fresh' = {} /\ superseded' = {} /\ garbage' = {}
  BY DEF OpenOn
<1>2. m \in Meta /\ BestSlot(os') \in Slot
  BY <1>1, BestMetaType, BestIsValid
<1>3. Recoverable(os', m)
  BY DEF FileInv
<1>4. commit'.pc = "clean" /\ commit'.dead = <<>> /\ commit'.meta = InitialMeta
  BY <1>1 DEF NoCommit
<1>5. InitialMeta \in Meta
  BY PagerBounds DEF InitialMeta, Meta, FIRST_DATA_PAGE
<1>6. opens' \in 0 .. MaxOpen /\ opens' # 0
  BY <1>1, PagerBounds DEF TypeOK
<1>7. TypeOK'
  <2>1. \A img \in {disk', os'} : FileType(img)
    OBVIOUS
  <2>2. m.root \subseteq Page
    BY <1>2, MetaType
  <2> QED
    BY <1>1, <1>2, <1>4, <1>5, <1>6, <2>1, <2>2, EmptyList DEF TypeOK, FileType
<1>8. Loaded' = l
  BY <1>1 DEF Loaded
<1>9. /\ l.ok /\ l.free_set \in Seq(Page) /\ l.trunks \in Seq(Page)
      /\ IsInjective(l.free_set) /\ IsInjective(l.trunks)
      /\ Range(l.free_set) \cap Range(l.trunks) = {}
      /\ Range(l.free_set) \cap m.root = {} /\ Range(l.trunks) \cap m.root = {}
      /\ Range(l.free_set) \subseteq FIRST_DATA_PAGE .. (m.page_count - 1)
      /\ Range(l.trunks) \subseteq FIRST_DATA_PAGE .. (m.page_count - 1)
      /\ m.root \subseteq FIRST_DATA_PAGE .. (m.page_count - 1)
  BY <1>2, <1>3, RecoverableRange
<1> HIDE DEF l, m
<1>10. BooksInv'
  <2>1. NoSharing'
    <3> DEFINE pool == l.free_set \o l.trunks \o <<>>
    <3>1. IsInjective(pool) /\ Range(pool) \cap m.root = {}
      <4>1. Disjoint(l.free_set, l.trunks, <<>>, m.root)
        BY <1>9, EmptyList DEF Disjoint
      <4> QED
        BY <1>9, <4>1, EmptyList, Sharing
    <3> HIDE DEF pool
    <3>2. NoSharing' <=> /\ IsInjective(pool) /\ Range(pool) \cap (m.root \cup {} \cup {}) = {}
                         /\ m.root \cap ({} \cup {}) = {}
      BY <1>1, <1>4, <1>8 DEF NoSharing, pool
    <3> QED
      BY <3>1, <3>2
  <2>2. Books(Loaded') \cup Range(commit'.dead) \cup tree' \cup superseded' \cup garbage'
           \subseteq FIRST_DATA_PAGE .. (meta'.page_count - 1)
    BY <1>1, <1>4, <1>8, <1>9, EmptyList DEF Books
  <2> QED
    BY <1>1, <1>4, <1>6, <2>1, <2>2, EmptyList DEF BooksInv, Open
<1>11. EditInv'
  <2>1. m.page_count <= m.page_count /\ m = [m EXCEPT !.page_count = m.page_count]
    BY <1>2, MetaType DEF Meta
  <2>2. Range(l.free_set) \cap Kept' = {}
    <3>1. Range(l.free_set) \cap Needed(os') = {}
      BY <1>9 DEF Needed, l, m
    <3>2. Range(l.free_set) \cap Needed(disk') = {}
      BY DEF FileInv, l, m
    <3> QED
      BY <3>1, <3>2 DEF Kept
  <2>3. (DOMAIN dirty' \cup fresh' \cup garbage' \cup Range(l.free_set)) \cap Kept' = {}
    BY <1>1, <2>2, EmptyList
  <2> QED
    BY <1>1, <1>4, <1>8, <2>1, <2>3 DEF EditInv, l, m
<1>12. CommitInv'
  BY <1>4 DEF CommitInv, Committing
<1> QED
  BY <1>7, <1>10, <1>11, <1>12 DEF PagerInv

\* NoSharing after a step, list by list.
LEMMA NoSharingNext ==
    ASSUME Loaded'.free_set \in Seq(Page), Loaded'.trunks \in Seq(Page), commit'.dead \in Seq(Page),
           Disjoint(Loaded'.free_set, Loaded'.trunks, commit'.dead, tree' \cup superseded' \cup garbage'),
           tree' \cap (superseded' \cup garbage') = {}, superseded' \cap garbage' = {}
    PROVE  NoSharing'
<1> DEFINE pool == Loaded'.free_set \o Loaded'.trunks \o commit'.dead
           held == tree' \cup superseded' \cup garbage'
<1>1. IsInjective(pool) /\ Range(pool) \cap held = {}
  <2> HIDE DEF held
  <2>1. Disjoint(Loaded'.free_set, Loaded'.trunks, commit'.dead, held)
    BY DEF held
  <2> QED
    BY <2>1, Sharing
<1> QED
  BY <1>1 DEF NoSharing

-----------------------------------------------------------------------------
(* Between commits.                                                        *)

\* A file just created (pager.rs create_with_cache).
LEMMA InitHolds == Init => PagerInv
<1> SUFFICES ASSUME Init PROVE PagerInv
  OBVIOUS
<1>1. /\ disk = [x \in Slot \cup Page |-> IF x = 0 THEN MetaFrame(InitialMeta) ELSE Zero]
      /\ os = disk /\ unsynced = {} /\ dirty = <<>>
      /\ meta = InitialMeta /\ active_slot = 0
      /\ free_set = <<>> /\ trunks = <<>> /\ free_loaded = TRUE
      /\ commit = NoCommit /\ opens = 0
      /\ tree = {} /\ fresh = {} /\ superseded = {} /\ garbage = {}
  BY DEF Init
<1>2. InitialMeta \in Meta
  BY PagerBounds DEF InitialMeta, Meta, FIRST_DATA_PAGE
<1>3. /\ disk[0] = MetaFrame(InitialMeta) /\ disk[1] = Zero /\ DOMAIN disk = Slot \cup Page
      /\ \A p \in Page : disk[p] = Zero
  BY <1>1, SlotsNotPages
<1>4. ValidMeta(disk, 0) /\ ~ValidMeta(disk, 1) /\ disk[0].meta = InitialMeta /\ disk[0].kind = "meta"
  BY <1>3 DEF ValidMeta, MetaFrame, Zero
<1>5. CanOpen(disk) /\ BestSlot(disk) = 0 /\ BestMeta(disk) = InitialMeta
  BY <1>4 DEF CanOpen, BestSlot, BestMeta, Slot
<1>6. InitialMeta.head = 0 /\ InitialMeta.len = 0 /\ InitialMeta.root = {} /\ InitialMeta.page_count = 2
  BY DEF InitialMeta, FIRST_DATA_PAGE
<1>7. LoadFreeList(disk, InitialMeta) = [ok |-> TRUE, trunks |-> <<>>, free_set |-> <<>>]
  BY <1>6, LoadNothing
<1>8. <<>> \o <<>> = <<>> /\ Len(<<>>) = 0
  OBVIOUS
<1>9. Recoverable(disk, InitialMeta)
  BY <1>6, <1>7, <1>8, EmptyList DEF Recoverable, Books
<1>10. Needed(disk) = {} /\ Kept = {}
  BY <1>1, <1>5, <1>6, <1>7, EmptyList DEF Needed, Kept
<1>11. commit.pc = "clean" /\ commit.dead = <<>> /\ commit.meta = InitialMeta
  BY <1>1 DEF NoCommit
<1>12. Loaded.free_set = <<>> /\ Loaded.trunks = <<>>
  BY <1>1 DEF Loaded
<1>13. TypeOK
  <2>1. Zero \in Frame
    BY DEF Frame
  <2>2. FileType(disk)
    BY <1>2, <1>3, <1>4, <2>1 DEF FileType, Slot
  <2>3. 0 \in 0 .. MaxOpen /\ 0 \in Slot
    BY PagerBounds DEF Slot
  <2> QED
    BY <1>1, <1>2, <1>11, <2>2, <2>3, EmptyList DEF TypeOK, FileType
<1>14. FileInv
  <2>1. InitialMeta.page_count <= InitialMeta.page_count
    BY <1>6
  <2> QED
    BY <1>1, <1>5, <1>7, <1>9, <1>10, <2>1, EmptyList DEF FileInv
<1>15. EditInv
  <2>1. InitialMeta = [InitialMeta EXCEPT !.page_count = InitialMeta.page_count]
        /\ InitialMeta.page_count <= InitialMeta.page_count
    BY DEF InitialMeta, FIRST_DATA_PAGE
  <2> QED
    BY <1>1, <1>5, <1>7, <1>10, <1>11, <1>12, <2>1 DEF EditInv
<1>16. CommitInv
  BY <1>11 DEF CommitInv, Committing
<1>17. BooksInv
  <2>1. NoSharing
    BY <1>1, <1>8, <1>11, <1>12, EmptyList DEF NoSharing
  <2>2. FIRST_DATA_PAGE .. (meta.page_count - 1) = {}
    <3>1. meta = InitialMeta
      BY <1>1
    <3>2. meta.page_count = 2
      BY <1>6, <3>1
    <3> QED
      BY <3>2 DEF FIRST_DATA_PAGE
  <2> QED
    BY <1>1, <1>11, <1>12, <2>1, <2>2, EmptyList DEF BooksInv, Books
<1> QED
  BY <1>13, <1>14, <1>15, <1>16, <1>17 DEF PagerInv

\* A step that leaves the disk alone.
LEMMA FileSame ==
    ASSUME TypeOK, FileInv, UNCHANGED diskVars
    PROVE  /\ FileInv' /\ Kept' = Kept /\ FileType(disk') /\ FileType(os')
           /\ unsynced' \subseteq Slot \cup Page
<1>1. disk' = disk /\ os' = os /\ unsynced' = unsynced
  BY DEF diskVars
<1> QED
  BY <1>1, FileFacts DEF FileInv, Kept, TypeOK

\* The parts of the invariant that editing does not touch.
LEMMA EditingNext ==
    ASSUME commit'.pc \in {"clean", "staged", "freed"}
    PROVE  CommitInv'
BY DEF CommitInv, Committing

\* The tree drops a page (job.rs delete, free_tree).
LEMMA SupersedeKeeps ==
    ASSUME PagerInv, NEW p \in Page, Supersede(p)
    PROVE  PagerInv'
<1> USE DEF PagerInv
<1>1. /\ Open /\ p \in tree /\ tree' = tree \ {p} /\ superseded' = superseded \cup {p}
      /\ commit' = [commit EXCEPT !.pc = "staged"]
      /\ UNCHANGED diskVars /\ disk' = disk /\ os' = os /\ unsynced' = unsynced
      /\ dirty' = dirty /\ meta' = meta /\ active_slot' = active_slot
      /\ free_set' = free_set /\ trunks' = trunks /\ free_loaded' = free_loaded
      /\ opens' = opens /\ fresh' = fresh /\ garbage' = garbage
  BY DEF Supersede, Staged, diskVars, stateVars
<1>2. FileInv' /\ Kept' = Kept
  BY <1>1, FileSame
<1>3. Loaded' = Loaded
  BY <1>1 DEF Loaded
<1>4. commit'.pc = "staged" /\ commit'.dead = commit.dead /\ commit'.meta = commit.meta
  BY <1>1
<1>5. TypeOK'
  BY <1>1, <1>4 DEF TypeOK
<1>6. EditInv'
  BY <1>1, <1>2, <1>3, <1>4 DEF EditInv, Editing, Open
<1>7. BooksInv'
  <2>1. tree' \cup superseded' \cup garbage' = tree \cup superseded \cup garbage
    BY <1>1
  <2>2. tree \cap (superseded \cup garbage) = {} /\ superseded \cap garbage = {}
    BY DEF BooksInv, NoSharing
  <2>3. tree' \cap (superseded' \cup garbage') = {} /\ superseded' \cap garbage' = {}
    BY <1>1, <2>2
  <2>4. Disjoint(Loaded'.free_set, Loaded'.trunks, commit'.dead, tree' \cup superseded' \cup garbage')
    BY <1>3, <1>4, <2>1, BookFacts DEF Disjoint
  <2>5. NoSharing'
    BY <1>3, <1>4, <2>3, <2>4, BookFacts, NoSharingNext
  <2>6. tree' \cup superseded' = tree \cup superseded
    BY <1>1
  <2> QED
    BY <1>1, <1>3, <1>4, <2>1, <2>5, <2>6 DEF BooksInv, Open
<1> QED
  BY <1>2, <1>4, <1>5, <1>6, <1>7, EditingNext

\* A page is allocated and written (pager.rs alloc, write_page).
LEMMA AllocWriteKeeps ==
    ASSUME PagerInv, AllocWrite
    PROVE  PagerInv'
<1> USE DEF PagerInv
<1> DEFINE f == Loaded.free_set
           t == Loaded.trunks
           held == tree \cup superseded \cup garbage
           file == FIRST_DATA_PAGE .. (meta.page_count - 1)
           file2 == FIRST_DATA_PAGE .. (meta'.page_count - 1)
<1>1. PICK p \in Page :
         /\ IF f # <<>>
            THEN p = Last(f) /\ free_set' = Front(f) /\ meta' = meta
            ELSE /\ p = meta.page_count /\ free_set' = <<>>
                 /\ meta' = [meta EXCEPT !.page_count = @ + 1]
         /\ dirty' = Stage(dirty, p, Data(<<meta.txn_id, opens>>))
         /\ tree' = tree \cup {p} /\ fresh' = fresh \cup {p}
  BY DEF AllocWrite
<1>2. /\ Open /\ trunks' = t /\ free_loaded' = TRUE
      /\ commit' = [commit EXCEPT !.pc = "staged"]
      /\ UNCHANGED diskVars /\ disk' = disk /\ os' = os /\ unsynced' = unsynced
      /\ active_slot' = active_slot /\ opens' = opens /\ superseded' = superseded /\ garbage' = garbage
  BY DEF AllocWrite, Staged, diskVars
<1>3. FileInv' /\ Kept' = Kept
  BY <1>2, FileSame
<1>4. commit'.pc = "staged" /\ commit'.dead = commit.dead /\ commit'.meta = commit.meta
  BY <1>2
<1>5. Loaded' = [ok |-> TRUE, free_set |-> free_set', trunks |-> t]
  BY <1>2 DEF Loaded
<1>6. /\ Editing /\ BestMeta(os).page_count <= meta.page_count
      /\ BestMeta(disk).page_count <= BestMeta(os).page_count
      /\ meta = [BestMeta(os) EXCEPT !.page_count = meta.page_count]
      /\ Range(t) = Range(LoadFreeList(os, BestMeta(os)).trunks)
      /\ (DOMAIN dirty \cup fresh \cup garbage \cup Range(f)) \cap Kept = {}
      /\ active_slot = BestSlot(os) /\ commit.dead = <<>>
  BY <1>2 DEF EditInv, Editing, Open, FileInv
<1>7. /\ f \in Seq(Page) /\ t \in Seq(Page) /\ IsInjective(f) /\ IsInjective(t)
      /\ Range(f) \cap Range(t) = {} /\ held \cap Range(f) = {} /\ held \cap Range(t) = {}
  BY BookFacts
<1>8. /\ Range(f) \subseteq file /\ Range(t) \subseteq file /\ held \subseteq file /\ DOMAIN dirty \subseteq file
      /\ tree \cap (superseded \cup garbage) = {} /\ superseded \cap garbage = {}
      /\ fresh \subseteq tree \cup superseded
  BY DEF BooksInv, Books, TypeOK, NoSharing
<1>9. meta \in Meta /\ meta.page_count \in Nat /\ meta.page_count >= 2
  BY MetaType DEF TypeOK
<1>10. Kept \subseteq file
  <2>1. BestMeta(os).page_count \in Nat /\ BestMeta(disk).page_count \in Nat
    BY FileFacts
  <2>2. /\ Needed(os) \subseteq FIRST_DATA_PAGE .. (BestMeta(os).page_count - 1)
        /\ Needed(disk) \subseteq FIRST_DATA_PAGE .. (BestMeta(disk).page_count - 1)
    BY FileFacts
  <2> QED
    BY <1>6, <1>9, <2>1, <2>2 DEF Kept, FIRST_DATA_PAGE
<1> HIDE DEF f, t, held
\* What both kinds of allocation have in common.
<1>11. /\ meta' \in Meta /\ meta' = [BestMeta(os) EXCEPT !.page_count = meta'.page_count]
       /\ BestMeta(os).page_count <= meta'.page_count
       /\ free_set' \in Seq(Page) /\ IsInjective(free_set')
       /\ Range(free_set') \subseteq Range(f) /\ Range(f) \subseteq Range(free_set') \cup {p}
       /\ p \notin Range(free_set') /\ p \notin Range(t) /\ p \notin held /\ p \notin Kept
       /\ file \cup {p} = file2
  <2>1. CASE f # <<>>
    <3>1. /\ p \in Range(f) /\ free_set' \in Seq(Page) /\ IsInjective(free_set')
          /\ Range(free_set') = Range(f) \ {p} /\ meta' = meta
      BY <1>1, <1>7, <2>1, FrontLast
    <3> QED
      BY <1>6, <1>7, <1>8, <1>9, <3>1
  <2>2. CASE f = <<>>
    <3>1. /\ p = meta.page_count /\ free_set' = <<>> /\ meta' = [meta EXCEPT !.page_count = @ + 1]
      BY <1>1, <2>2
    <3>2. meta.page_count + 1 \in 2 .. MaxPages
      BY <1>9, <3>1, PagerBounds DEF Page
    <3>3. meta' \in Meta /\ meta'.page_count = meta.page_count + 1
      BY <1>9, <3>1, <3>2 DEF Meta
    <3>4. meta' = [BestMeta(os) EXCEPT !.page_count = meta'.page_count]
      <4>1. BestMeta(os) \in Meta
        BY FileFacts
      <4> QED
        BY <1>6, <1>9, <3>1, <3>3, <4>1 DEF Meta
    <3>5. p \notin file /\ file \cup {p} = file2
      BY <1>9, <3>1, <3>3 DEF FIRST_DATA_PAGE
    <3>6. BestMeta(os).page_count <= meta'.page_count
      <4>1. BestMeta(os).page_count \in Nat
        BY FileFacts
      <4> QED
        BY <1>6, <1>9, <3>3, <4>1
    <3> QED
      BY <1>8, <1>10, <2>2, <3>1, <3>3, <3>4, <3>5, <3>6, EmptyList
  <2> QED
    BY <2>1, <2>2
<1>12. /\ DOMAIN dirty' = DOMAIN dirty \cup {p}
       /\ \A x \in DOMAIN dirty : x # p => dirty'[x] = dirty[x]
       /\ dirty'[p] = Data(<<meta.txn_id, opens>>)
  BY <1>1 DEF Stage
<1> HIDE DEF file, file2
<1>13. TypeOK'
  <2>1. Data(<<meta.txn_id, opens>>) \in Frame
    <3>1. meta.txn_id \in 0 .. MaxTxn /\ opens \in 0 .. MaxOpen
      BY DEF TypeOK, Meta
    <3> QED
      BY <3>1 DEF Frame
  <2>2. \A x \in DOMAIN dirty' : dirty'[x] \in Frame
    <3> TAKE x \in DOMAIN dirty'
    <3>1. CASE x = p
      <4>1. dirty'[x] = Data(<<meta.txn_id, opens>>)
        BY <1>12, <3>1
      <4> QED
        BY <2>1, <4>1, Zenon
    <3>2. CASE x # p
      BY <1>12, <3>2 DEF TypeOK
    <3> QED
      BY <3>1, <3>2
  <2>3. DOMAIN dirty' \subseteq file2
    BY <1>8, <1>11, <1>12
  <2>4. Range(free_set') \cup Range(t) \subseteq Page
    BY <1>7, <1>11, RangeOfSeq
  <2>5. tree' \cup fresh' \cup superseded' \cup garbage' \subseteq Page
    BY <1>1, <1>2 DEF TypeOK
  <2> QED
    BY <1>2, <1>4, <1>11, <2>2, <2>3, <2>4, <2>5 DEF TypeOK, file2
<1>14. EditInv'
  <2>1. (DOMAIN dirty' \cup fresh' \cup garbage' \cup Range(free_set')) \cap Kept' = {}
    BY <1>1, <1>2, <1>3, <1>6, <1>11, <1>12
  <2> QED
    BY <1>2, <1>3, <1>4, <1>5, <1>6, <1>11, <2>1 DEF EditInv
<1>15. BooksInv'
  <2>1. held' = held \cup {p}
    BY <1>1, <1>2 DEF held
  <2>2. tree' \cap (superseded' \cup garbage') = {} /\ superseded' \cap garbage' = {}
    BY <1>1, <1>2, <1>8, <1>11 DEF held
  <2>3. Disjoint(free_set', t, commit'.dead, held')
    BY <1>4, <1>6, <1>7, <1>11, <2>1, EmptyList DEF Disjoint
  <2>4. NoSharing'
    BY <1>4, <1>5, <1>6, <1>7, <1>11, <2>2, <2>3, EmptyList, NoSharingNext DEF held
  <2>5. fresh' \subseteq tree' \cup superseded'
    BY <1>1, <1>2, <1>8
  <2>6. Books(Loaded') \cup Range(commit'.dead) \cup tree' \cup superseded' \cup garbage' \subseteq file2
    <3>1. Books(Loaded') = Range(free_set') \cup Range(t)
      BY <1>5 DEF Books
    <3> QED
      BY <1>4, <1>6, <1>8, <1>11, <2>1, <3>1, EmptyList DEF held
  <2>7. opens' = 0 => file2 \subseteq tree' \cup superseded' \cup garbage' \cup Books(Loaded') \cup Range(commit'.dead)
    <3>1. Books(Loaded') = Range(free_set') \cup Range(t)
      BY <1>5 DEF Books
    <3>2. opens = 0 => file \subseteq held \cup Range(f) \cup Range(t) \cup Range(commit.dead)
      BY DEF BooksInv, Books, held, f, t, file
    <3> QED
      BY <1>2, <1>4, <1>11, <2>1, <3>1, <3>2 DEF held
  <2> QED
    BY <1>2, <1>4, <1>6, <1>7, <1>11, <2>4, <2>5, <2>6, <2>7, EmptyList DEF BooksInv, file2
<1> QED
  BY <1>3, <1>4, <1>13, <1>14, <1>15, EditingNext

\* The writer returns pages before it commits (pager.rs free).
LEMMA FreeKeeps ==
    ASSUME PagerInv, NEW S \in SUBSET (garbage \cup fresh), Free(S)
    PROVE  PagerInv'
<1> USE DEF PagerInv
<1> DEFINE f == Loaded.free_set
           t == Loaded.trunks
           q == SetToSeq(S)
           file == FIRST_DATA_PAGE .. (meta.page_count - 1)
<1>1. /\ Open /\ S \subseteq garbage \cup (tree \cap fresh)
      /\ garbage' = garbage \ S /\ tree' = tree \ S /\ fresh' = fresh \ S
      /\ free_set' = f \o q /\ trunks' = t /\ free_loaded' = TRUE
      /\ commit' = [commit EXCEPT !.pc = "freed"]
      /\ UNCHANGED diskVars /\ disk' = disk /\ os' = os /\ unsynced' = unsynced
      /\ dirty' = dirty /\ meta' = meta
      /\ active_slot' = active_slot /\ opens' = opens /\ superseded' = superseded
  BY DEF Free, diskVars
<1>2. FileInv' /\ Kept' = Kept
  BY <1>1, FileSame
<1>3. commit'.pc = "freed" /\ commit'.dead = commit.dead /\ commit'.meta = commit.meta
  BY <1>1
<1>4. Loaded' = [ok |-> TRUE, free_set |-> free_set', trunks |-> t]
  BY <1>1 DEF Loaded
<1>5. /\ Range(t) = Range(LoadFreeList(os, BestMeta(os)).trunks)
      /\ (DOMAIN dirty \cup fresh \cup garbage \cup Range(f)) \cap Kept = {}
      /\ commit.dead = <<>>
  BY <1>1 DEF EditInv, Editing, Open
<1>6. /\ f \in Seq(Page) /\ t \in Seq(Page) /\ IsInjective(f) /\ IsInjective(t)
      /\ Range(f) \cap Range(t) = {}
      /\ (tree \cup superseded \cup garbage) \cap Range(f) = {}
      /\ (tree \cup superseded \cup garbage) \cap Range(t) = {}
  BY BookFacts
<1>7. /\ Range(f) \subseteq file /\ Range(t) \subseteq file
      /\ tree \cup superseded \cup garbage \subseteq file
      /\ tree \cap (superseded \cup garbage) = {} /\ superseded \cap garbage = {}
      /\ fresh \subseteq tree \cup superseded
  BY DEF BooksInv, Books, NoSharing
<1>8. q \in Seq(Page) /\ IsInjective(q) /\ Range(q) = S
  <2>1. S \subseteq Page
    BY DEF TypeOK
  <2>2. IsFiniteSet(Page)
    BY PagerBounds, FS_Interval DEF Page, FIRST_DATA_PAGE
  <2>3. IsFiniteSet(S)
    BY <2>1, <2>2, FS_Subset
  <2>4. q \in Seq(S) /\ IsInjective(q) /\ Range(q) = S
    BY <2>3, SetToSeqLists
  <2> HIDE DEF q
  <2>5. q \in Seq(Page)
    BY <2>1, <2>4
  <2> QED
    BY <2>4, <2>5
<1> HIDE DEF f, t, q, file
<1>9. /\ free_set' \in Seq(Page) /\ Range(free_set') = Range(f) \cup S /\ IsInjective(free_set')
  <2>1. Range(f) \cap S = {}
    BY <1>1, <1>6
  <2>2. free_set' \in Seq(Page)
    BY <1>1, <1>6, <1>8, ConcatProperties
  <2>3. Range(free_set') = Range(f) \cup S
    BY <1>1, <1>6, <1>8, RangeConcatenation
  <2>4. IsInjective(free_set')
    BY <1>1, <1>6, <1>8, <2>1, InjConcat
  <2> QED
    BY <2>2, <2>3, <2>4
<1>10. TypeOK'
  <2>1. Range(free_set') \cup Range(t) \subseteq Page
    BY <1>6, <1>9, RangeOfSeq
  <2>2. tree' \cup fresh' \cup superseded' \cup garbage' \subseteq Page
    BY <1>1 DEF TypeOK
  <2> QED
    BY <1>1, <1>3, <2>1, <2>2 DEF TypeOK
<1>11. EditInv'
  <2>1. (DOMAIN dirty' \cup fresh' \cup garbage' \cup Range(free_set')) \cap Kept' = {}
    BY <1>1, <1>2, <1>5, <1>9
  <2> QED
    BY <1>1, <1>3, <1>4, <1>5, <2>1 DEF EditInv, Editing, Open
<1>12. BooksInv'
  <2>1. tree' \cap (superseded' \cup garbage') = {} /\ superseded' \cap garbage' = {}
    BY <1>1, <1>7
  <2>2. S \cap Range(t) = {} /\ S \cap (tree' \cup superseded' \cup garbage') = {}
    BY <1>1, <1>6, <1>7
  <2>3. Disjoint(free_set', t, commit'.dead, tree' \cup superseded' \cup garbage')
    BY <1>1, <1>3, <1>5, <1>6, <1>9, <2>2, EmptyList DEF Disjoint
  <2>4. NoSharing'
    BY <1>3, <1>4, <1>5, <1>6, <1>9, <2>1, <2>3, EmptyList, NoSharingNext
  <2>5. fresh' \subseteq tree' \cup superseded'
    BY <1>1, <1>7
  <2>6. Books(Loaded') = Range(f) \cup S \cup Range(t)
    BY <1>4, <1>9 DEF Books
  <2>7. Books(Loaded') \cup Range(commit'.dead) \cup tree' \cup superseded' \cup garbage' \subseteq file
    BY <1>1, <1>3, <1>5, <1>7, <2>6, EmptyList
  <2>8. opens' = 0 => file \subseteq tree' \cup superseded' \cup garbage' \cup Books(Loaded') \cup Range(commit'.dead)
    <3>1. opens = 0 => file \subseteq tree \cup superseded \cup garbage \cup Range(f) \cup Range(t) \cup Range(commit.dead)
      BY DEF BooksInv, Books, f, t, file
    <3> QED
      BY <1>1, <1>3, <2>6, <3>1
  <2> QED
    BY <1>1, <1>3, <1>5, <1>6, <1>9, <2>4, <2>5, <2>7, <2>8, EmptyList DEF BooksInv, file
<1> QED
  BY <1>2, <1>3, <1>10, <1>11, <1>12, EditingNext

-----------------------------------------------------------------------------
(* The commit.                                                             *)

\* The free list is rebuilt and the meta staged (pager.rs commit, step 1).
LEMMA BeginCommitKeeps ==
    ASSUME PagerInv, BeginCommit
    PROVE  PagerInv'
<1> USE DEF PagerInv
<1> DEFINE r == Rebuild(free_set)
           m == [meta EXCEPT !.head = r.head, !.len = Len(r.stored), !.root = tree]
           m2 == [m EXCEPT !.txn_id = @ + 1]
           file == FIRST_DATA_PAGE .. (meta.page_count - 1)
<1>1. /\ commit.pc = "freed" /\ meta.txn_id < MaxTxn
      /\ dirty' = [x \in DOMAIN dirty \cup DOMAIN r.frames |->
                     IF x \in DOMAIN r.frames THEN r.frames[x] ELSE dirty[x]]
      /\ meta' = m /\ free_set' = r.stored /\ trunks' = r.trunks
      /\ commit' = [pc |-> "flush", dead |-> trunks, meta |-> m2]
      /\ UNCHANGED diskVars /\ disk' = disk /\ os' = os /\ unsynced' = unsynced
      /\ free_loaded' = free_loaded /\ active_slot' = active_slot /\ opens' = opens
      /\ tree' = tree /\ fresh' = fresh /\ superseded' = superseded /\ garbage' = garbage
  BY DEF BeginCommit, MayCommit, BeginCommitWith, diskVars, clientVars
<1>2. FileInv' /\ Kept' = Kept
  BY <1>1, FileSame
<1>3. free_loaded /\ Loaded.free_set = free_set /\ Loaded.trunks = trunks
  BY <1>1 DEF BooksInv, Open, Loaded
<1>4. /\ BestMeta(os).page_count <= meta.page_count
      /\ meta = [BestMeta(os) EXCEPT !.page_count = meta.page_count]
      /\ (DOMAIN dirty \cup Range(free_set)) \cap Kept = {}
      /\ active_slot = BestSlot(os)
  BY <1>1, <1>3 DEF EditInv, Editing
<1>5. /\ free_set \in Seq(Page) /\ trunks \in Seq(Page) /\ IsInjective(free_set) /\ IsInjective(trunks)
      /\ Range(free_set) \cap Range(trunks) = {}
      /\ (tree \cup superseded \cup garbage) \cap Range(free_set) = {}
      /\ (tree \cup superseded \cup garbage) \cap Range(trunks) = {}
  BY <1>3, BookFacts
<1>6. /\ Range(free_set) \subseteq file /\ Range(trunks) \subseteq file /\ DOMAIN dirty \subseteq file
      /\ tree \cup superseded \cup garbage \subseteq file
      /\ tree \cap (superseded \cup garbage) = {} /\ superseded \cap garbage = {}
      /\ fresh \subseteq tree \cup superseded
  BY <1>3 DEF BooksInv, Books, NoSharing, TypeOK
<1>7. /\ r.trunks \in Seq(Page) /\ r.stored \in Seq(Page)
      /\ IsInjective(r.stored \o r.trunks)
      /\ Range(r.stored) \cup Range(r.trunks) = Range(free_set)
      /\ r.head \in Page \cup {0} /\ DOMAIN r.frames = Range(r.trunks)
      /\ \A p \in DOMAIN r.frames :
            r.frames[p] \in [kind : {"trunk"}, next : Page \cup {0}, ids : TrunkIds]
  BY <1>5, RebuildParts
<1>8. IsInjective(r.stored) /\ IsInjective(r.trunks) /\ Range(r.stored) \cap Range(r.trunks) = {}
  BY <1>7, InjConcat
<1>9. meta \in Meta /\ meta.page_count \in Nat /\ meta.txn_id \in Nat
  BY MetaType DEF TypeOK
<1>10. /\ m \in Meta /\ m2 \in Meta /\ m.txn_id = meta.txn_id /\ m2.txn_id = meta.txn_id + 1
       /\ m.page_count = meta.page_count /\ m2.page_count = meta.page_count
       /\ m.root = tree /\ m2.root = tree /\ m2.head = r.head /\ m2.len = Len(r.stored)
  <2>1. tree \subseteq Page /\ Len(r.stored) \in Nat
    BY <1>7 DEF TypeOK
  <2>2. meta.txn_id + 1 \in 0 .. MaxTxn
    BY <1>1, <1>9, PagerBounds
  <2>3. m \in Meta
    BY <1>7, <1>9, <2>1 DEF Meta
  <2>4. m2 \in Meta
    BY <1>7, <1>9, <2>1, <2>2 DEF Meta
  <2> QED
    BY <1>9, <2>3, <2>4 DEF Meta
<1>11. commit'.pc = "flush" /\ commit'.dead = trunks /\ commit'.meta = m2
  BY <1>1
<1> HIDE DEF r, m, file
<1>12. /\ DOMAIN dirty' = DOMAIN dirty \cup Range(r.trunks)
       /\ \A x \in DOMAIN r.frames : dirty'[x] = r.frames[x]
       /\ \A x \in DOMAIN dirty \ DOMAIN r.frames : dirty'[x] = dirty[x]
  BY <1>1, <1>7
<1>13. TypeOK'
  <2>1. \A x \in DOMAIN dirty' : dirty'[x] \in Frame
    <3> TAKE x \in DOMAIN dirty'
    <3>1. CASE x \in DOMAIN r.frames
      BY <1>7, <1>12, <3>1 DEF Frame
    <3>2. CASE x \notin DOMAIN r.frames
      BY <1>7, <1>12, <3>2 DEF TypeOK
    <3> QED
      BY <3>1, <3>2
  <2>2. DOMAIN dirty' \subseteq FIRST_DATA_PAGE .. (meta'.page_count - 1)
    BY <1>1, <1>6, <1>7, <1>10, <1>12 DEF file
  <2>3. Range(r.stored) \cup Range(r.trunks) \subseteq Page /\ Range(trunks) \subseteq Page
    BY <1>5, <1>7, RangeOfSeq
  <2> HIDE DEF m2
  <2> QED
    BY <1>1, <1>10, <1>11, <2>1, <2>2, <2>3 DEF TypeOK
<1>14. EditInv'
  BY <1>11 DEF EditInv, Editing
<1>15. CommitInv'
  <2> DEFINE l == LoadFreeList(Overlay', m2)
  <2>1. \A p \in DOMAIN r.frames : Overlay'[p] = r.frames[p]
    <3> TAKE p \in DOMAIN r.frames
    <3>1. p \in DOMAIN dirty' /\ p \in Slot \cup Page
      BY <1>7, <1>12, RangeOfSeq
    <3> QED
      BY <1>12, <3>1 DEF Overlay, Current
  <2>2. /\ l.ok /\ l.free_set \in Seq(Page) /\ l.trunks \in Seq(Page)
        /\ IsInjective(l.free_set \o l.trunks)
        /\ Range(l.trunks) = Range(r.trunks)
        /\ Range(l.free_set) = Range(r.stored)
        /\ Len(l.free_set) = Len(r.stored)
    <3>1. m2.head = r.head /\ m2.page_count \in Nat
          /\ Range(free_set) \subseteq FIRST_DATA_PAGE .. (m2.page_count - 1)
      BY <1>6, <1>9, <1>10 DEF file
    <3> HIDE DEF m2
    <3> QED
      BY <1>5, <2>1, <3>1, LoadRebuilt DEF r
  <2>3. Recoverable(Overlay', m2)
    <3>1. Books(l) = Range(free_set)
      BY <1>7, <2>2 DEF Books
    <3>2. Books(l) \cap m2.root = {} /\ Books(l) \cup m2.root \subseteq FIRST_DATA_PAGE .. (m2.page_count - 1)
      BY <1>5, <1>6, <1>10, <3>1 DEF file
    <3> HIDE DEF m2
    <3> QED
      BY <1>10, <2>2, <3>2 DEF Recoverable
  <2>4. commit'.meta = [meta' EXCEPT !.txn_id = @ + 1] /\ meta'.root = tree'
    BY <1>1, <1>10, <1>11
  <2>5. /\ BestMeta(os').txn_id = meta'.txn_id /\ BestMeta(os').page_count <= meta'.page_count
    <3>1. BestMeta(os) \in Meta
      BY FileFacts
    <3>2. meta.txn_id = BestMeta(os).txn_id
      BY <1>4, <3>1 DEF Meta
    <3> QED
      BY <1>1, <1>4, <1>10, <3>2
  <2>6. (DOMAIN dirty' \cup Range(free_set')) \cap Kept' = {}
    BY <1>1, <1>2, <1>4, <1>7, <1>12
  <2> HIDE DEF l, m2
  <2>7. Range(LoadFreeList(Overlay', m2).trunks) = Range(r.trunks)
        /\ Range(LoadFreeList(Overlay', m2).free_set) = Range(r.stored)
    BY <2>2 DEF l
  <2> QED
    BY <1>1, <1>4, <1>11, <2>3, <2>4, <2>5, <2>6, <2>7 DEF CommitInv, Committing
<1>16. BooksInv'
  <2>1. Loaded' = [ok |-> TRUE, free_set |-> r.stored, trunks |-> r.trunks]
    BY <1>1, <1>3 DEF Loaded
  <2>2. Disjoint(r.stored, r.trunks, trunks, tree \cup superseded \cup garbage)
    BY <1>5, <1>7, <1>8 DEF Disjoint
  <2>3. NoSharing'
    BY <1>1, <1>5, <1>6, <1>7, <1>11, <2>1, <2>2, NoSharingNext
  <2>4. Books(Loaded') = Range(free_set)
    BY <1>7, <2>1 DEF Books
  <2>5. Books(Loaded') \cup Range(commit'.dead) \cup tree' \cup superseded' \cup garbage'
           \subseteq FIRST_DATA_PAGE .. (meta'.page_count - 1)
    BY <1>1, <1>6, <1>10, <1>11, <2>4 DEF file
  <2>6. opens' = 0 => FIRST_DATA_PAGE .. (meta'.page_count - 1)
           \subseteq tree' \cup superseded' \cup garbage' \cup Books(Loaded') \cup Range(commit'.dead)
    <3>1. opens = 0 => file \subseteq tree \cup superseded \cup garbage \cup Range(free_set) \cup Range(trunks)
                                        \cup Range(commit.dead)
      BY <1>3 DEF BooksInv, Books, file
    <3>2. Range(commit.dead) = {}
      BY <1>1, EmptyList DEF EditInv, Editing
    <3> QED
      BY <1>1, <1>10, <1>11, <2>4, <3>1, <3>2 DEF file
  <2> QED
    BY <1>1, <1>3, <1>5, <1>6, <1>7, <1>11, <2>3, <2>5, <2>6 DEF BooksInv
<1> QED
  BY <1>2, <1>13, <1>14, <1>15, <1>16

\* The I/O steps of a commit change the file and the pc only.
LEMMA CommitIO ==
    ASSUME PagerInv, Committing, UNCHANGED <<stateVars, opens, clientVars>>,
           NEW pc \in {"sync", "meta", "syncmeta", "promote", "failed"},
           commit' = [commit EXCEPT !.pc = pc],
           FileType(disk'), FileType(os'), unsynced' \subseteq Slot \cup Page
    PROVE  /\ TypeOK' /\ EditInv' /\ BooksInv' /\ free_loaded
           /\ commit'.pc = pc /\ commit'.dead = commit.dead /\ commit'.meta = commit.meta
           /\ dirty' = dirty /\ meta' = meta /\ active_slot' = active_slot
           /\ free_set' = free_set /\ trunks' = trunks /\ tree' = tree
<1> USE DEF PagerInv
<1>1. commit'.pc = pc /\ commit'.dead = commit.dead /\ commit'.meta = commit.meta
  OBVIOUS
<1>2. /\ dirty' = dirty /\ meta' = meta /\ active_slot' = active_slot
      /\ free_set' = free_set /\ trunks' = trunks /\ free_loaded' = free_loaded
      /\ opens' = opens /\ tree' = tree /\ fresh' = fresh
      /\ superseded' = superseded /\ garbage' = garbage
  BY DEF stateVars, clientVars
<1>3. free_loaded
  BY DEF BooksInv, Open, Committing
<1>4. Loaded' = Loaded
  BY <1>2, <1>3 DEF Loaded
<1>5. TypeOK'
  BY <1>1, <1>2 DEF TypeOK, FileType
<1>6. EditInv'
  BY <1>1 DEF EditInv, Editing
<1>7. NoSharing'
  BY <1>1, <1>2, <1>4 DEF BooksInv, NoSharing
<1>8. BooksInv'
  BY <1>1, <1>2, <1>3, <1>4, <1>7 DEF BooksInv
<1> QED
  BY <1>1, <1>2, <1>3, <1>5, <1>6, <1>8

\* Writing frames, or the inactive slot, does not change what will be committed
\* as long as the pages it overlays come out the same.
LEMMA OverlaySame ==
    ASSUME PagerInv, Committing, NEW img, \A p \in Page : img[p] = Current(p)
    PROVE  /\ Recoverable(img, commit.meta)
           /\ LoadFreeList(img, commit.meta) = LoadFreeList(Overlay, commit.meta)
<1> USE DEF PagerInv
<1>1. commit.meta \in Meta /\ commit.meta.page_count \in Nat /\ Recoverable(Overlay, commit.meta)
  BY MetaType DEF TypeOK, CommitInv
<1>2. Range(LoadFreeList(Overlay, commit.meta).trunks) \subseteq Page
  BY <1>1, RecoverableRange, MetaType
<1>3. \A p \in Page : Overlay[p] = Current(p)
  BY DEF Overlay
<1> QED
  BY <1>1, <1>2, <1>3, RecoverStable

\* From Flush on the file holds what was staged.
LEMMA FlushedFile ==
    ASSUME PagerInv, commit.pc \in {"sync", "meta", "syncmeta", "promote"}
    PROVE  /\ Committing /\ \A p \in Page : os[p] = Current(p)
           /\ Recoverable(os, commit.meta)
           /\ LoadFreeList(os, commit.meta) = LoadFreeList(Overlay, commit.meta)
<1> USE DEF PagerInv
<1>1. Committing /\ \A p \in Page : os[p] = Current(p)
  BY DEF Committing, CommitInv, Current
<1> QED
  BY <1>1, OverlaySame

\* The dirty pages are written (pager.rs commit).
LEMMA FlushKeeps ==
    ASSUME PagerInv, Flush
    PROVE  PagerInv'
<1> USE DEF PagerInv
<1>1. /\ commit.pc = "flush" /\ commit' = [commit EXCEPT !.pc = "sync"] /\ WriteFrames(dirty)
      /\ UNCHANGED <<stateVars, opens, clientVars>>
  BY DEF Flush, CommitStep
<1>2. Committing
  BY <1>1 DEF Committing
<1>3. /\ DOMAIN dirty \subseteq Page /\ \A p \in DOMAIN dirty : dirty[p] \in Frame
  BY MetaType DEF TypeOK
<1>4. DOMAIN dirty \cap Kept = {} /\ Range(free_set) \cap Kept = {}
  BY <1>1 DEF CommitInv
<1>5. /\ FileInv' /\ FileType(os') /\ FileType(disk')
      /\ BestSlot(os') = BestSlot(os) /\ BestMeta(os') = BestMeta(os) /\ Kept' = Kept
  BY <1>1, <1>3, <1>4, WritePages
<1>6. /\ unsynced' = unsynced \cup DOMAIN dirty
      /\ \A x \in Slot \cup Page : os'[x] = IF x \in DOMAIN dirty THEN dirty[x] ELSE os[x]
  BY <1>1 DEF WriteFrames
<1>7. unsynced' \subseteq Slot \cup Page
  BY <1>3, <1>6 DEF TypeOK
<1>8. /\ TypeOK' /\ EditInv' /\ BooksInv'
      /\ commit'.pc = "sync" /\ commit'.meta = commit.meta
      /\ dirty' = dirty /\ meta' = meta /\ active_slot' = active_slot
      /\ free_set' = free_set /\ trunks' = trunks /\ tree' = tree
  BY <1>1, <1>2, <1>5, <1>7, CommitIO
<1>9. CommitInv'
  <2>1. \A p \in DOMAIN dirty' : os'[p] = dirty'[p]
    BY <1>3, <1>6, <1>8
  <2>2. \A p \in Page : Overlay'[p] = Current(p)
    BY <1>6, <1>8 DEF Overlay, Current
  <2>3. /\ Recoverable(Overlay', commit.meta)
        /\ LoadFreeList(Overlay', commit.meta) = LoadFreeList(Overlay, commit.meta)
    BY <1>2, <2>2, OverlaySame
  <2> QED
    BY <1>1, <1>2, <1>4, <1>5, <1>8, <2>1, <2>3 DEF CommitInv, Committing
<1> QED
  BY <1>5, <1>8, <1>9

\* The first sync (pager.rs commit).
LEMMA SyncDataKeeps ==
    ASSUME PagerInv, SyncData
    PROVE  PagerInv'
<1> USE DEF PagerInv
<1>1. /\ commit.pc = "sync" /\ commit' = [commit EXCEPT !.pc = "meta"]
      /\ disk' = os /\ unsynced' = {} /\ os' = os
      /\ UNCHANGED <<stateVars, opens, clientVars>>
  BY DEF SyncData, CommitStep
<1>2. Committing
  BY <1>1 DEF Committing
<1>3. FileInv' /\ FileType(os') /\ FileType(disk') /\ Kept' = Needed(os)
  BY <1>1, SyncFile
<1>4. /\ TypeOK' /\ EditInv' /\ BooksInv'
      /\ commit'.pc = "meta" /\ commit'.meta = commit.meta
      /\ dirty' = dirty /\ meta' = meta /\ active_slot' = active_slot
      /\ free_set' = free_set /\ trunks' = trunks /\ tree' = tree
  BY <1>1, <1>2, <1>3, CommitIO
<1>5. CommitInv'
  <2>1. Overlay' = Overlay
    BY <1>1, <1>4 DEF Overlay, Current
  <2>2. (DOMAIN dirty \cup Range(free_set)) \cap Kept' = {}
    BY <1>1, <1>3 DEF CommitInv, Kept
  <2> QED
    BY <1>1, <1>2, <1>4, <2>1, <2>2 DEF CommitInv, Committing
<1> QED
  BY <1>3, <1>4, <1>5

\* The meta goes to the inactive slot, and is the newer one (pager.rs commit).
LEMMA WriteMetaKeeps ==
    ASSUME PagerInv, WriteMeta
    PROVE  /\ PagerInv'
           /\ disk' = disk /\ BestMeta(os') = commit.meta
           /\ BestMeta(disk').txn_id < BestMeta(os').txn_id
           /\ \A p \in Page : os'[p] = os[p]
<1> USE DEF PagerInv
<1>1. /\ commit.pc = "meta" /\ commit' = [commit EXCEPT !.pc = "syncmeta"]
      /\ WriteFrames([x \in {1 - active_slot} |-> MetaFrame(commit.meta)])
      /\ UNCHANGED <<stateVars, opens, clientVars>>
  BY DEF WriteMeta, CommitStep
<1>2. Committing
  BY <1>1 DEF Committing
<1>3. /\ active_slot = BestSlot(os) /\ BestMeta(os).txn_id = meta.txn_id /\ unsynced = {}
      /\ BestMeta(os).page_count <= meta.page_count
      /\ (DOMAIN dirty \cup Range(free_set)) \cap Kept = {}
      /\ commit.meta = [meta EXCEPT !.txn_id = @ + 1]
      /\ Range(LoadFreeList(Overlay, commit.meta).free_set) = Range(free_set)
      /\ \A p \in DOMAIN dirty : os[p] = dirty[p]
  BY <1>1, <1>2 DEF CommitInv
<1>4. commit.meta \in Meta /\ meta \in Meta /\ meta.txn_id \in Nat
  BY MetaType DEF TypeOK
<1>5. commit.meta.txn_id = meta.txn_id + 1 /\ commit.meta.page_count = meta.page_count
  BY <1>3, <1>4 DEF Meta
<1>6. /\ Recoverable(os, commit.meta)
      /\ LoadFreeList(os, commit.meta) = LoadFreeList(Overlay, commit.meta)
  BY <1>1, FlushedFile
<1>7. /\ FileInv' /\ FileType(os') /\ FileType(disk')
      /\ BestSlot(os') = 1 - active_slot /\ BestMeta(os') = commit.meta
      /\ os'[1 - active_slot] = MetaFrame(commit.meta)
      /\ \A p \in Page : os'[p] = os[p]
      /\ BestMeta(disk').txn_id < BestMeta(os').txn_id
      /\ disk' = disk /\ unsynced' = {1 - active_slot}
  <2>1. commit.meta.txn_id > BestMeta(os).txn_id /\ BestMeta(os).page_count <= commit.meta.page_count
    BY <1>3, <1>4, <1>5
  <2>2. Range(LoadFreeList(os, commit.meta).free_set) \cap Kept = {}
    BY <1>3, <1>6
  <2> QED
    BY <1>1, <1>3, <1>4, <1>6, <2>1, <2>2, WriteSlot
<1>8. unsynced' \subseteq Slot \cup Page
  BY <1>7 DEF TypeOK, Slot
<1>9. /\ TypeOK' /\ EditInv' /\ BooksInv'
      /\ commit'.pc = "syncmeta" /\ commit'.meta = commit.meta
      /\ dirty' = dirty /\ meta' = meta /\ active_slot' = active_slot
      /\ free_set' = free_set /\ trunks' = trunks /\ tree' = tree
  BY <1>1, <1>2, <1>7, <1>8, CommitIO
<1>10. CommitInv'
  <2>1. \A p \in DOMAIN dirty' : os'[p] = dirty'[p]
    <3>1. DOMAIN dirty \subseteq Page
      BY MetaType DEF TypeOK
    <3> QED
      BY <1>3, <1>7, <1>9, <3>1
  <2>2. \A p \in Page : Overlay'[p] = Current(p)
    BY <1>7, <1>9 DEF Overlay, Current
  <2>3. /\ Recoverable(Overlay', commit.meta)
        /\ LoadFreeList(Overlay', commit.meta) = LoadFreeList(Overlay, commit.meta)
    BY <1>2, <2>2, OverlaySame
  <2> QED
    BY <1>2, <1>7, <1>9, <2>1, <2>3 DEF CommitInv, Committing
<1> QED
  BY <1>7, <1>9, <1>10

\* The second sync (pager.rs commit).
LEMMA SyncMetaKeeps ==
    ASSUME PagerInv, SyncMeta
    PROVE  PagerInv'
<1> USE DEF PagerInv
<1>1. /\ commit.pc = "syncmeta" /\ commit' = [commit EXCEPT !.pc = "promote"]
      /\ disk' = os /\ unsynced' = {} /\ os' = os
      /\ UNCHANGED <<stateVars, opens, clientVars>>
  BY DEF SyncMeta, CommitStep
<1>2. Committing
  BY <1>1 DEF Committing
<1>3. FileInv' /\ FileType(os') /\ FileType(disk')
  BY <1>1, SyncFile
<1>4. /\ TypeOK' /\ EditInv' /\ BooksInv'
      /\ commit'.pc = "promote" /\ commit'.meta = commit.meta
      /\ dirty' = dirty /\ meta' = meta /\ active_slot' = active_slot
      /\ free_set' = free_set /\ trunks' = trunks /\ tree' = tree
  BY <1>1, <1>2, <1>3, CommitIO
<1>5. CommitInv'
  <2>1. Overlay' = Overlay
    BY <1>1, <1>4 DEF Overlay, Current
  <2> QED
    BY <1>1, <1>2, <1>4, <2>1 DEF CommitInv, Committing
<1> QED
  BY <1>3, <1>4, <1>5

\* An I/O error anywhere in a commit leaves what open would find (pager.rs commit).
LEMMA CommitFailsKeeps ==
    ASSUME PagerInv, CommitFails
    PROVE  /\ PagerInv' /\ disk' = disk /\ commit'.pc = "failed"
           /\ BestMeta(os') = BestMeta(os) /\ VersionIn(os') = VersionIn(os)
           /\ \A p \in tree : Current(p)' = Current(p)
<1> USE DEF PagerInv
<1>1. /\ commit.pc \in {"flush", "sync", "meta", "syncmeta"}
      /\ commit' = [commit EXCEPT !.pc = "failed"]
      /\ UNCHANGED <<stateVars, opens, clientVars>>
  BY DEF CommitFails
<1>2. Committing
  BY <1>1 DEF Committing
<1>3. DOMAIN dirty \subseteq Page /\ \A p \in DOMAIN dirty : dirty[p] \in Frame
  BY MetaType DEF TypeOK
<1> DEFINE Harmless ==
              /\ FileInv' /\ FileType(disk') /\ FileType(os') /\ unsynced' \subseteq Slot \cup Page
              /\ disk' = disk /\ BestMeta(os') = BestMeta(os) /\ VersionIn(os') = VersionIn(os)
              /\ \A p \in Page \ DOMAIN dirty : os'[p] = os[p]
<1>4. Harmless
  <2>1. CASE UNCHANGED diskVars
    <3>1. disk' = disk /\ os' = os
      BY <2>1 DEF diskVars
    <3> QED
      BY <2>1, <3>1, FileSame
  <2>2. ASSUME commit.pc = "flush", NEW W \in SUBSET DOMAIN dirty, NEW bad \in W,
               WriteFrames([p \in W |-> IF p = bad THEN Torn ELSE dirty[p]])
        PROVE  Harmless
    <3> DEFINE frames == [p \in W |-> IF p = bad THEN Torn ELSE dirty[p]]
    <3>1. DOMAIN frames = W
      OBVIOUS
    <3>2. Torn \in Frame
      BY DEF Frame
    <3>3. \A p \in DOMAIN frames : frames[p] \in Frame
      BY <1>3, <3>2
    <3>4. W \cap Kept = {}
      BY <2>2 DEF CommitInv
    <3>5. WriteFrames(frames)
      BY <2>2
    <3> HIDE DEF frames
    <3>6. /\ FileInv' /\ FileType(os') /\ FileType(disk')
          /\ BestMeta(os') = BestMeta(os) /\ VersionIn(os') = VersionIn(os)
      BY <1>3, <3>1, <3>3, <3>4, <3>5, WritePages
    <3>7. /\ disk' = disk /\ unsynced' = unsynced \cup W
          /\ \A x \in Slot \cup Page : os'[x] = IF x \in W THEN frames[x] ELSE os[x]
      BY <3>1, <3>5 DEF WriteFrames
    <3>8. unsynced' \subseteq Slot \cup Page
      BY <1>3, <3>7 DEF TypeOK
    <3> QED
      BY <3>6, <3>7, <3>8
  <2>3. CASE commit.pc = "meta" /\ WriteFrames([x \in {1 - active_slot} |-> Torn])
    <3>1. active_slot = BestSlot(os) /\ unsynced = {}
      BY <2>3 DEF CommitInv
    <3>2. /\ FileInv' /\ FileType(os') /\ FileType(disk')
          /\ BestMeta(os') = BestMeta(os) /\ VersionIn(os') = VersionIn(os)
          /\ disk' = disk /\ \A p \in Page : os'[p] = os[p]
      BY <2>3, <3>1, TearSlot
    <3>3. unsynced' \subseteq Slot \cup Page
      <4>1. unsynced' = unsynced \cup {1 - active_slot}
        BY <2>3 DEF WriteFrames
      <4> QED
        BY <3>1, <4>1 DEF TypeOK, Slot
    <3> QED
      BY <3>2, <3>3
  <2> HIDE DEF Harmless
  <2> QED
    BY <2>1, <2>2, <2>3 DEF CommitFails
<1>5. /\ TypeOK' /\ EditInv' /\ BooksInv' /\ commit'.pc = "failed" /\ dirty' = dirty
  BY <1>1, <1>2, <1>4, CommitIO
<1>6. CommitInv'
  BY <1>5 DEF CommitInv, Committing
<1>7. \A p \in tree : Current(p)' = Current(p)
  BY <1>4, <1>5 DEF Current, TypeOK
<1> QED
  BY <1>4, <1>5, <1>6, <1>7

\* The new meta is adopted and the old trunks rejoin the free set (pager.rs commit, step 3).
LEMMA PromoteKeeps ==
    ASSUME PagerInv, Promote
    PROVE  PagerInv' /\ UNCHANGED diskVars /\ tree' = tree /\ \A p \in tree : Current(p)' = Current(p)
<1> USE DEF PagerInv
<1>1. /\ commit.pc = "promote" /\ commit' = NoCommit
      /\ dirty' = <<>> /\ meta' = commit.meta /\ active_slot' = 1 - active_slot
      /\ free_set' = free_set \o commit.dead
      /\ garbage' = garbage \cup superseded /\ superseded' = {} /\ fresh' = {}
      /\ UNCHANGED diskVars /\ disk' = disk /\ os' = os /\ unsynced' = unsynced
      /\ trunks' = trunks /\ free_loaded' = free_loaded /\ opens' = opens /\ tree' = tree
  BY DEF Promote, diskVars
<1>2. FileInv' /\ Kept' = Kept /\ FileType(disk') /\ FileType(os') /\ unsynced' \subseteq Slot \cup Page
  BY <1>1, FileSame
<1>3. free_loaded /\ Loaded.free_set = free_set /\ Loaded.trunks = trunks
  BY <1>1 DEF BooksInv, Open, Loaded
<1>4. commit'.pc = "clean" /\ commit'.dead = <<>> /\ commit'.meta = InitialMeta
  BY <1>1 DEF NoCommit
<1>5. /\ commit.meta = [meta EXCEPT !.txn_id = @ + 1] /\ meta.root = tree
      /\ Range(LoadFreeList(Overlay, commit.meta).trunks) = Range(trunks)
      /\ BestSlot(os) = 1 - active_slot /\ os[1 - active_slot] = MetaFrame(commit.meta)
      /\ unsynced = {}
  BY <1>1 DEF CommitInv, Committing
<1>6. commit.meta \in Meta /\ meta \in Meta /\ InitialMeta \in Meta
  BY PagerBounds DEF TypeOK, InitialMeta, Meta, FIRST_DATA_PAGE
<1>7. commit.meta.page_count = meta.page_count /\ commit.meta.root = tree
  BY <1>5, <1>6 DEF Meta
<1>8. BestMeta(os) = commit.meta
  <2>1. BestMeta(os) = os[1 - active_slot].meta
    BY <1>5, FileFacts, BestIsValid
  <2> QED
    BY <1>5, <2>1 DEF MetaFrame
<1>9. Range(LoadFreeList(os, BestMeta(os)).trunks) = Range(trunks)
  BY <1>1, <1>5, <1>8, FlushedFile
<1>10. /\ free_set \in Seq(Page) /\ trunks \in Seq(Page) /\ commit.dead \in Seq(Page)
       /\ IsInjective(free_set) /\ IsInjective(trunks) /\ IsInjective(commit.dead)
       /\ Range(free_set) \cap Range(trunks) = {} /\ Range(free_set) \cap Range(commit.dead) = {}
       /\ Range(trunks) \cap Range(commit.dead) = {}
       /\ (tree \cup superseded \cup garbage) \cap Range(free_set) = {}
       /\ (tree \cup superseded \cup garbage) \cap Range(trunks) = {}
       /\ (tree \cup superseded \cup garbage) \cap Range(commit.dead) = {}
  BY <1>3, BookFacts
<1>11. tree \cap (superseded \cup garbage) = {} /\ superseded \cap garbage = {}
  BY DEF BooksInv, NoSharing
<1>12. /\ free_set' \in Seq(Page) /\ IsInjective(free_set')
       /\ Range(free_set') = Range(free_set) \cup Range(commit.dead)
  <2>1. free_set' \in Seq(Page)
    BY <1>1, <1>10, ConcatProperties
  <2>2. Range(free_set') = Range(free_set) \cup Range(commit.dead)
    BY <1>1, <1>10, RangeConcatenation
  <2>3. IsInjective(free_set')
    BY <1>1, <1>10, InjConcat
  <2> QED
    BY <2>1, <2>2, <2>3
<1>13. TypeOK'
  <2>1. Range(free_set') \cup Range(trunks) \subseteq Page
    BY <1>10, <1>12, RangeOfSeq
  <2>2. 1 - active_slot \in Slot
    BY DEF TypeOK, Slot
  <2>3. tree' \cup fresh' \cup superseded' \cup garbage' \subseteq Page
    BY <1>1 DEF TypeOK
  <2> QED
    BY <1>1, <1>2, <1>4, <1>6, <2>1, <2>2, <2>3, EmptyList DEF TypeOK, FileType
<1>14. Loaded' = [ok |-> TRUE, free_set |-> free_set', trunks |-> trunks]
  BY <1>1, <1>3 DEF Loaded
<1>15. EditInv'
  <2>1. Needed(disk) = Needed(os) /\ Needed(os) = tree \cup Range(trunks)
    BY <1>5, <1>7, <1>8, <1>9, SyncedFile DEF Needed
  <2>2. Kept' = tree \cup Range(trunks)
    BY <1>2, <2>1 DEF Kept
  <2>3. (DOMAIN dirty' \cup fresh' \cup garbage' \cup Range(free_set')) \cap Kept' = {}
    BY <1>1, <1>10, <1>11, <1>12, <2>2, EmptyList
  <2>4. commit.meta = [commit.meta EXCEPT !.page_count = commit.meta.page_count]
        /\ commit.meta.page_count <= commit.meta.page_count
    BY <1>6, MetaType DEF Meta
  <2> QED
    BY <1>1, <1>3, <1>4, <1>5, <1>8, <1>9, <1>14, <2>3, <2>4 DEF EditInv
<1>16. BooksInv'
  <2>1. Disjoint(free_set', trunks, <<>>, tree \cup {} \cup garbage')
    BY <1>1, <1>10, <1>12, EmptyList DEF Disjoint
  <2>2. NoSharing'
    BY <1>1, <1>4, <1>10, <1>11, <1>12, <1>14, <2>1, EmptyList, NoSharingNext
  <2>3. Books(Loaded') = Range(free_set) \cup Range(commit.dead) \cup Range(trunks)
    BY <1>12, <1>14 DEF Books
  <2>4. Books(Loaded) = Range(free_set) \cup Range(trunks)
    BY <1>3 DEF Books
  <2>5. Books(Loaded') \cup Range(commit'.dead) \cup tree' \cup superseded' \cup garbage'
           = Books(Loaded) \cup Range(commit.dead) \cup tree \cup superseded \cup garbage
    BY <1>1, <1>4, <2>3, <2>4, EmptyList
  <2>6. tree' \cup superseded' \cup garbage' \cup Books(Loaded') \cup Range(commit'.dead)
           = tree \cup superseded \cup garbage \cup Books(Loaded) \cup Range(commit.dead)
    BY <1>1, <1>4, <2>3, <2>4, EmptyList
  <2> QED
    BY <1>1, <1>3, <1>4, <1>7, <1>10, <1>12, <2>2, <2>5, <2>6, EmptyList DEF BooksInv
<1>17. CommitInv'
  BY <1>4, EditingNext
<1>18. \A p \in tree : Current(p)' = Current(p)
  <2>1. \A p \in Page : os[p] = Current(p)
    BY <1>1, FlushedFile
  <2>2. \A p \in Page : Current(p)' = os[p]
    BY <1>1, EmptyList DEF Current
  <2> QED
    BY <2>1, <2>2 DEF TypeOK
<1> QED
  BY <1>1, <1>2, <1>13, <1>15, <1>16, <1>17, <1>18

\* After a crash the file is at the version of one of its images (pager.rs open_with_cache).
LEMMA CrashKeeps ==
    ASSUME PagerInv, Crash
    PROVE  /\ PagerInv' /\ os' = disk' /\ unsynced' = {} /\ tree' = BestMeta(disk').root
           /\ dirty' = <<>>
           /\ \E img \in {disk, os} : VersionIn(disk') = VersionIn(img)
<1> USE DEF PagerInv
<1>1. PICK fate \in [unsynced -> {"old", "new", "torn"}] :
         disk' = [x \in Slot \cup Page |->
                    IF x \notin unsynced \/ fate[x] = "old" THEN disk[x]
                    ELSE IF fate[x] = "new" THEN os[x] ELSE Torn]
  BY DEF Crash
<1>2. os' = disk' /\ unsynced' = {} /\ OpenOn(disk')
  BY DEF Crash
<1>3. /\ FileInv' /\ FileType(disk')
      /\ \E img \in {disk, os} : VersionIn(disk') = VersionIn(img)
  BY <1>1, <1>2, CrashFile
<1>4. FileType(os') /\ OpenOn(os') /\ unsynced' \subseteq Slot \cup Page
  BY <1>2, <1>3
<1>5. PagerInv'
  BY <1>3, <1>4, OpenKeeps
<1> QED
  BY <1>2, <1>3, <1>5 DEF OpenOn

\* The file is closed and opened (pager.rs open_with_cache).
LEMMA ReopenKeeps ==
    ASSUME PagerInv, Reopen
    PROVE  PagerInv' /\ UNCHANGED diskVars /\ tree' = BestMeta(os).root /\ dirty' = <<>>
<1> USE DEF PagerInv
<1>1. UNCHANGED diskVars /\ OpenOn(os)
  BY DEF Reopen
<1>2. os' = os
  BY <1>1 DEF diskVars
<1>3. OpenOn(os')
  BY <1>1, <1>2
<1>4. PagerInv'
  BY <1>1, <1>3, FileSame, OpenKeeps
<1> QED
  BY <1>1, <1>4 DEF OpenOn

\* A step of someone else.
LEMMA StutterKeeps ==
    ASSUME PagerInv, UNCHANGED vars
    PROVE  PagerInv'
<1>1. /\ disk' = disk /\ os' = os /\ unsynced' = unsynced /\ dirty' = dirty /\ meta' = meta
      /\ active_slot' = active_slot /\ free_set' = free_set /\ trunks' = trunks
      /\ free_loaded' = free_loaded /\ commit' = commit /\ opens' = opens
      /\ tree' = tree /\ fresh' = fresh /\ superseded' = superseded /\ garbage' = garbage
  BY DEF vars, diskVars, stateVars, clientVars
<1>2. Loaded' = Loaded /\ Kept' = Kept /\ Overlay' = Overlay
  BY <1>1 DEF Loaded, Kept, Overlay, Current
<1>3. TypeOK' /\ FileInv'
  BY <1>1, <1>2 DEF PagerInv, TypeOK, FileInv
<1>4. EditInv' /\ CommitInv'
  BY <1>1, <1>2 DEF PagerInv, EditInv, Editing, CommitInv, Committing
<1>5. BooksInv'
  BY <1>1, <1>2 DEF PagerInv, BooksInv, NoSharing, Open
<1> QED
  BY <1>3, <1>4, <1>5 DEF PagerInv

\* PagerInv is an inductive invariant of the pager.
THEOREM PagerInvariant == Spec => []PagerInv
<1>1. PagerInv /\ [Next]_vars => PagerInv'
  <2> SUFFICES ASSUME PagerInv, [Next]_vars PROVE PagerInv'
    OBVIOUS
  <2>1. CASE AllocWrite
    BY <2>1, AllocWriteKeeps
  <2>2. CASE BeginCommit
    BY <2>2, BeginCommitKeeps
  <2>3. CASE Flush
    BY <2>3, FlushKeeps
  <2>4. CASE SyncData
    BY <2>4, SyncDataKeeps
  <2>5. CASE WriteMeta
    BY <2>5, WriteMetaKeeps
  <2>6. CASE SyncMeta
    BY <2>6, SyncMetaKeeps
  <2>7. CASE CommitFails
    BY <2>7, CommitFailsKeeps
  <2>8. CASE Promote
    BY <2>8, PromoteKeeps
  <2>9. CASE \E p \in Page : Supersede(p)
    BY <2>9, SupersedeKeeps
  <2>10. CASE \E S \in SUBSET (garbage \cup fresh) : Free(S)
    BY <2>10, FreeKeeps
  <2>11. CASE Crash
    BY <2>11, CrashKeeps
  <2>12. CASE Reopen
    BY <2>12, ReopenKeeps
  <2>13. CASE UNCHANGED vars
    BY <2>13, StutterKeeps
  <2> QED
    BY <2>1, <2>2, <2>3, <2>4, <2>5, <2>6, <2>7, <2>8, <2>9, <2>10, <2>11, <2>12, <2>13 DEF Next
<1> QED
  BY <1>1, InitHolds, PTL DEF Spec

\* Types, and staged pages below the high-water mark (write_page's in_range).
THEOREM PagerTypes == Spec => []TypeOK
<1>1. PagerInv => TypeOK
  BY DEF PagerInv
<1> QED
  BY <1>1, PagerInvariant, PTL

\* At every moment, whatever a crash would leave on disk and whatever a reopen
\* would read can be opened; its free list loads, lists no page twice and none of
\* the version it belongs to (pager.rs rebuild_free_list, load_free_list).
THEOREM FreeListSafe == Spec => []FreeListRecoverable
<1>1. PagerInv => FreeListRecoverable
  <2> SUFFICES ASSUME PagerInv, NEW img \in {disk, os}
               PROVE  LET l == LoadFreeList(img, BestMeta(img))
                          ids == l.free_set \o l.trunks
                      IN  /\ CanOpen(img) /\ l.ok
                          /\ Len(l.free_set) = BestMeta(img).len
                          /\ IsInjective(ids)
                          /\ Range(ids) \cap BestMeta(img).root = {}
    BY DEF FreeListRecoverable
  <2> DEFINE l == LoadFreeList(img, BestMeta(img))
  <2>1. CanOpen(img) /\ Recoverable(img, BestMeta(img))
    BY DEF PagerInv, FileInv
  <2>2. /\ l.ok /\ Len(l.free_set) = BestMeta(img).len
        /\ l.free_set \in Seq(Page) /\ l.trunks \in Seq(Page)
        /\ IsInjective(l.free_set \o l.trunks)
        /\ Books(l) \cap BestMeta(img).root = {}
    BY <2>1 DEF Recoverable
  <2> HIDE DEF l
  <2>3. Range(l.free_set \o l.trunks) = Books(l)
    BY <2>2, RangeConcatenation DEF Books
  <2> QED
    BY <2>1, <2>2, <2>3 DEF l
<1> QED
  BY <1>1, PagerInvariant, PTL

\* The allocator, the trunk chain and the client never hold the same page, and
\* the free set lists no page twice (pager.rs alloc, free, commit).
THEOREM PagesNotShared == Spec => []NoSharing
<1>1. PagerInv => NoSharing
  BY DEF PagerInv, BooksInv
<1> QED
  BY <1>1, PagerInvariant, PTL

\* While no commit is in progress, validate accepts the file (pager.rs validate).
THEOREM ValidateAccepts == Spec => []ValidateQuiet
<1>1. PagerInv => ValidateQuiet
  <2> SUFFICES ASSUME PagerInv, Open PROVE Validate
    BY DEF ValidateQuiet
  <2> USE DEF PagerInv
  <2> DEFINE b == BestMeta(os)
             l == LoadFreeList(os, b)
  <2>1. /\ active_slot = BestSlot(os) /\ meta = [b EXCEPT !.page_count = meta.page_count]
        /\ b.page_count <= meta.page_count
    BY DEF EditInv, Editing, Open
  <2>2. CanOpen(os) /\ Recoverable(os, b) /\ b \in Meta /\ b.page_count \in Nat
    BY FileFacts
  <2>3. ValidMeta(os, active_slot) /\ b = os[active_slot].meta
    BY <2>1, <2>2, BestIsValid
  <2>4. meta \in Meta /\ meta.page_count \in Nat
    BY MetaType DEF TypeOK
  <2>5. meta.txn_id = b.txn_id /\ meta.head = b.head /\ meta.len = b.len
    BY <2>1, <2>2 DEF Meta
  <2>6. /\ l.ok /\ Len(l.free_set) = b.len /\ l.free_set \in Seq(Page) /\ l.trunks \in Seq(Page)
        /\ IsInjective(l.free_set \o l.trunks)
        /\ Books(l) \subseteq FIRST_DATA_PAGE .. (b.page_count - 1)
    BY <2>2 DEF Recoverable
  <2>7. LoadFreeList(os, meta) = l
    BY <2>1, <2>2, <2>4, <2>5, <2>6, LoadStable
  <2> HIDE DEF l, b
  <2>8. Range(l.free_set \o l.trunks) = Books(l)
    BY <2>6, RangeConcatenation DEF Books
  <2>9. Range(l.free_set \o l.trunks) \subseteq FIRST_DATA_PAGE .. (meta.page_count - 1)
    BY <2>1, <2>2, <2>4, <2>6, <2>8 DEF FIRST_DATA_PAGE
  <2> QED
    BY <2>3, <2>5, <2>6, <2>7, <2>9 DEF Validate
<1> QED
  BY <1>1, PagerInvariant, PTL

\* While the pager is open no page leaves its books and the client's: the pages
\* spent on trunks come back (pager.rs rebuild_free_list, commit).
THEOREM TrunksReturn == Spec => []TrunksComeBack
<1>1. PagerInv => TrunksComeBack
  <2> SUFFICES ASSUME PagerInv, Open, opens = 0
               PROVE  FIRST_DATA_PAGE .. (meta.page_count - 1)
                         \subseteq tree \cup superseded \cup garbage \cup Range(free_set) \cup Range(trunks)
    BY DEF TrunksComeBack
  <2>1. Range(commit.dead) = {}
    BY EmptyList DEF PagerInv, EditInv, Editing, Open
  <2>2. free_loaded
    BY DEF PagerInv, BooksInv
  <2>3. Books(Loaded) = Range(free_set) \cup Range(trunks)
    BY <2>2 DEF Books, Loaded
  <2> QED
    BY <2>1, <2>3 DEF PagerInv, BooksInv
<1> QED
  BY <1>1, PagerInvariant, PTL

-----------------------------------------------------------------------------
(* The pager implements PageStore.                                         *)

\* The refinement mapping of Store.
Working == [p \in tree |-> Current(p)]
Inflight == IF BestMeta(os).txn_id > BestMeta(disk).txn_id THEN {VersionIn(os)} ELSE {}

\* What reads see is the committed version or the one in flight.
LEMMA SeenVersion ==
    ASSUME PagerInv
    PROVE  /\ VersionIn(os) \in {VersionIn(disk)} \cup Inflight
           /\ Inflight # {} => Inflight = {VersionIn(os)}
           /\ Inflight = {} => VersionIn(os) = VersionIn(disk)
<1>1. CASE BestMeta(os).txn_id > BestMeta(disk).txn_id
  BY <1>1 DEF Inflight
<1>2. CASE ~(BestMeta(os).txn_id > BestMeta(disk).txn_id)
  <2>1. BestMeta(os) = BestMeta(disk)
    BY <1>2 DEF PagerInv, FileInv
  <2>2. \A p \in Needed(disk) : os[p] = disk[p]
    <3>1. Needed(disk) \subseteq Page /\ Needed(disk) \subseteq Kept
      BY FileFacts DEF PagerInv
    <3> QED
      BY <3>1 DEF PagerInv, FileInv
  <2>3. VersionIn(os) = VersionIn(disk)
    BY <2>1, <2>2, FileFacts, FileKept DEF PagerInv
  <2>4. Inflight = {}
    BY <1>2 DEF Inflight
  <2> QED
    BY <2>3, <2>4
<1> QED
  BY <1>1, <1>2

\* When all is synced nothing is in flight.
LEMMA NothingInflight ==
    ASSUME TypeOK', FileInv', os' = disk'
    PROVE  Inflight' = {}
<1>1. BestMeta(disk').txn_id \in Nat
  <2>1. FileType(disk') /\ CanOpen(disk')
    BY DEF TypeOK, FileInv, FileType
  <2>2. BestMeta(disk') \in Meta
    BY <2>1, BestMetaType
  <2> QED
    BY <2>2, MetaType
<1> QED
  BY <1>1 DEF Inflight

\* An fsync lands what is in flight, if anything is.
LEMMA SyncLands ==
    ASSUME PagerInv, PagerInv', disk' = os, os' = os, dirty' = dirty, tree' = tree
    PROVE  /\ Working' = Working
           /\ \/ VersionIn(disk') \in Inflight /\ Inflight' = {}
              \/ VersionIn(disk') = VersionIn(disk) /\ Inflight' = Inflight
<1>1. Working' = Working
  BY DEF Working, Current
<1>2. Inflight' = {}
  BY NothingInflight DEF PagerInv
<1> QED
  BY <1>1, <1>2, SeenVersion

\* Whatever frames a crash keeps, loses or tears, at whatever point of whichever
\* commit, failed ones included, the file opens at a whole version: the last one
\* committed or the one in flight (pager.rs commit, open_with_cache).
THEOREM PagerImplementsPageStore == Spec => ImplementsPageStore
<1>1. Init => Store!Init
  <2> SUFFICES ASSUME Init PROVE Store!Init
    OBVIOUS
  <2>1. PagerInv
    BY InitHolds
  <2>2. os = disk /\ tree = {} /\ unsynced = {} /\ meta = InitialMeta /\ commit.pc = "clean" /\ free_loaded
    BY DEF Init, NoCommit
  <2>3. BestMeta(disk).root = {}
    <3>1. /\ ValidMeta(disk, 0) /\ ~ValidMeta(disk, 1) /\ disk[0].meta = InitialMeta
      BY SlotsNotPages DEF Init, ValidMeta, MetaFrame, Zero
    <3>2. BestMeta(disk) = InitialMeta
      BY <3>1 DEF BestMeta, BestSlot, CanOpen, Slot
    <3> QED
      BY <3>2 DEF InitialMeta
  <2>4. BestMeta(disk).txn_id \in Nat
    BY <2>1, FileFacts, MetaType DEF PagerInv
  <2>5. VersionIn(disk) = <<>> /\ [p \in tree |-> Current(p)] = <<>>
    <3>1. VersionIn(disk) = [p \in {} |-> disk[p]]
      BY <2>3 DEF VersionIn
    <3>2. [p \in tree |-> Current(p)] = [p \in {} |-> Current(p)]
      BY <2>2
    <3>3. [p \in {} |-> disk[p]] = <<>> /\ [p \in {} |-> Current(p)] = <<>>
      OBVIOUS
    <3> QED
      BY <3>1, <3>2, <3>3
  <2> QED
    BY <2>2, <2>4, <2>5 DEF Store!Init
<1>2. PagerInv /\ PagerInv' /\ [Next]_vars => [Store!Next]_(Store!vars)
  <2> SUFFICES ASSUME PagerInv, PagerInv', [Next]_vars
               PROVE  Store!Next \/ UNCHANGED Store!vars
    OBVIOUS
  <2> DEFINE Edits == VersionIn(disk') = VersionIn(disk) /\ Inflight' = Inflight
  <2>1. ASSUME Edits PROVE Store!Next
    BY <2>1 DEF Store!Next, Store!Edit, Inflight
  <2>2. ASSUME disk' = disk, os' = os PROVE Edits
    BY <2>2 DEF Inflight
  <2>3. ASSUME disk' = disk, BestMeta(os') = BestMeta(os), VersionIn(os') = VersionIn(os) PROVE Edits
    BY <2>3 DEF Inflight
  <2>4. CASE AllocWrite
    BY <2>1, <2>2, <2>4 DEF AllocWrite, diskVars
  <2>5. CASE BeginCommit
    BY <2>1, <2>2, <2>5 DEF BeginCommit, BeginCommitWith, diskVars
  <2>6. CASE \E p \in Page : Supersede(p)
    BY <2>1, <2>2, <2>6 DEF Supersede, diskVars
  <2>7. CASE \E S \in SUBSET (garbage \cup fresh) : Free(S)
    BY <2>1, <2>2, <2>7 DEF Free, diskVars
  <2>8. CASE Promote
    BY <2>1, <2>2, <2>8 DEF Promote, diskVars
  <2>9. CASE UNCHANGED vars
    BY <2>1, <2>2, <2>9 DEF vars, diskVars
  <2>10. CASE CommitFails
    BY <2>1, <2>3, <2>10, CommitFailsKeeps
  <2>11. CASE Flush
    <3>1. commit.pc = "flush" /\ WriteFrames(dirty)
      BY <2>11 DEF Flush, CommitStep
    <3>2. /\ DOMAIN dirty \subseteq Page /\ \A p \in DOMAIN dirty : dirty[p] \in Frame
      BY MetaType DEF PagerInv, TypeOK
    <3>3. DOMAIN dirty \cap Kept = {}
      BY <3>1 DEF PagerInv, CommitInv
    <3>4. BestMeta(os') = BestMeta(os) /\ VersionIn(os') = VersionIn(os) /\ disk' = disk
      BY <3>1, <3>2, <3>3, WritePages DEF PagerInv, WriteFrames
    <3> QED
      BY <2>1, <2>3, <3>4
  <2>12. ASSUME disk' = os, os' = os, dirty' = dirty, tree' = tree PROVE Store!Next
    <3>1. /\ Working' = Working
          /\ \/ VersionIn(disk') \in Inflight /\ Inflight' = {}
             \/ Edits
      BY <2>12, SyncLands
    <3>2. CASE Edits
      BY <2>1, <3>2
    <3>3. CASE VersionIn(disk') \in Inflight /\ Inflight' = {}
      BY <3>1, <3>3 DEF Store!Next, Store!Land, Inflight, Working
    <3> QED
      BY <3>1, <3>2, <3>3
  <2>13. CASE SyncData
    BY <2>12, <2>13 DEF SyncData, stateVars, clientVars
  <2>14. CASE SyncMeta
    BY <2>12, <2>14 DEF SyncMeta, stateVars, clientVars
  <2>15. CASE WriteMeta
    <3>1. /\ disk' = disk /\ BestMeta(os') = commit.meta
          /\ BestMeta(disk').txn_id < BestMeta(os').txn_id
          /\ \A p \in Page : os'[p] = os[p]
      BY <2>15, WriteMetaKeeps
    <3>2. commit.pc = "meta" /\ dirty' = dirty /\ tree' = tree
      BY <2>15 DEF WriteMeta, CommitStep, stateVars, clientVars
    <3>3. commit.meta.root = tree /\ tree \subseteq Page
      <4>1. commit.meta = [meta EXCEPT !.txn_id = @ + 1] /\ meta.root = tree /\ meta \in Meta
        BY <3>2 DEF PagerInv, CommitInv, Committing, TypeOK
      <4> QED
        BY <4>1, MetaType DEF Meta
    <3>4. \A p \in Page : os[p] = Current(p)
      BY <3>2, FlushedFile
    <3>5. VersionIn(os') = Working
      BY <3>1, <3>3, <3>4 DEF VersionIn, Working
    <3>6. Working' = Working
      BY <3>1, <3>2, <3>3 DEF Working, Current
    <3>7. Inflight' = {Working}
      <4>1. BestMeta(os').txn_id > BestMeta(disk').txn_id
        <5>1. BestMeta(os').txn_id \in Nat /\ BestMeta(disk').txn_id \in Nat
          <6>1. BestMeta(disk) \in Meta
            BY FileFacts DEF PagerInv
          <6>2. commit.meta \in Meta
            BY DEF PagerInv, TypeOK
          <6> QED
            BY <3>1, <6>1, <6>2, MetaType
        <5> QED
          BY <3>1, <5>1
      <4> QED
        BY <3>5, <4>1 DEF Inflight
    <3>8. VersionIn(disk') = VersionIn(disk)
      BY <3>1
    <3> QED
      BY <3>6, <3>7, <3>8 DEF Store!Next, Store!WriteMeta, Inflight, Working
  <2>16. CASE Crash
    <3>1. /\ os' = disk' /\ tree' = BestMeta(disk').root /\ dirty' = <<>>
          /\ \E img \in {disk, os} : VersionIn(disk') = VersionIn(img)
      BY <2>16, CrashKeeps
    <3>2. Inflight' = {}
      BY <3>1, NothingInflight DEF PagerInv
    <3>3. Working' = VersionIn(disk')
      <4>1. \A p \in tree' : Current(p)' = disk'[p]
        BY <3>1, EmptyList DEF Current
      <4> QED
        BY <3>1, <4>1 DEF Working, VersionIn
    <3>4. VersionIn(disk') \in {VersionIn(disk)} \cup Inflight
      BY <3>1, SeenVersion
    <3> QED
      BY <3>2, <3>3, <3>4 DEF Store!Next, Store!Crash, Inflight, Working
  <2>17. CASE Reopen
    <3>1. disk' = disk /\ os' = os /\ tree' = BestMeta(os).root /\ dirty' = <<>>
      BY <2>17, ReopenKeeps DEF diskVars
    <3>2. Working' = VersionIn(os)
      <4>1. \A p \in tree' : Current(p)' = os[p]
        BY <3>1, EmptyList DEF Current
      <4> QED
        BY <3>1, <4>1 DEF Working, VersionIn
    <3>3. Working' \in {VersionIn(disk)} \cup Inflight
      BY <3>2, SeenVersion
    <3>4. Edits
      BY <2>2, <3>1
    <3> QED
      BY <3>3, <3>4 DEF Store!Next, Store!Reopen, Inflight, Working
  <2> QED
    BY <2>4, <2>5, <2>6, <2>7, <2>8, <2>9, <2>10, <2>11, <2>13, <2>14, <2>15, <2>16, <2>17 DEF Next
<1> QED
  BY <1>1, <1>2, PagerInvariant, PTL DEF Spec, ImplementsPageStore, Store!Spec
=============================================================================
