------------------------------- MODULE BTree -------------------------------
(***************************************************************************)
(* The copy-on-write B+tree of crates/btree (node.rs, tree.rs, cursor.rs)  *)
(* over pages, with the node sizes of the code: a node splits, merges or   *)
(* rotates by the number of bytes it encodes to, so keys and values have   *)
(* lengths and nothing else.  A client inserts, deletes, pins the current  *)
(* root as a snapshot and scans the snapshot with a cursor while the tree  *)
(* moves on.  Superseded pages are handed back as the transaction layer    *)
(* does it: at once, or when the snapshot that may read them is gone.      *)
(***************************************************************************)
EXTENDS Integers, Sequences, FiniteSets, Bags, FiniteSetsExt, SequencesExt

CONSTANTS
    NumKeys,    \* keys are 1..NumKeys in their byte order
    KeyLen,     \* KeyLen[k]: bytes of key k
    Value,      \* the values, named by their length in bytes
    Bounds,     \* the range bounds a cursor may be opened with (0: none)
    MaxBehind   \* bound: edits made while a snapshot is pinned (0: no snapshots)

Key == 1..NumKeys

ASSUME LengthsAssumption ==
    /\ NumKeys \in Nat
    /\ KeyLen \in [Key -> Nat]
    /\ Value \subseteq Nat
    /\ Bounds \subseteq Nat
    /\ MaxBehind \in Nat

VARIABLES
    pages,      \* page id -> decoded node, for every page that is not free
    root,       \* the root of the latest tree
    pin,        \* the root of the pinned snapshot, or NoPin
    behind,     \* edits made since the snapshot was pinned
    pending,    \* bag of superseded pages that wait for the snapshot
    cur         \* the open cursor, or NoCursor

vars == <<pages, root, pin, behind, pending, cur>>

NoPin == 0
NoCursor == [open |-> FALSE]

-----------------------------------------------------------------------------
(* Nodes and their encoded size: node.rs                                   *)

CAP == 4096 - 16
HDR_LEAF == 4
HDR_INTERNAL == 12
MIN_FILL == CAP \div 4
MAX_CELL == (CAP - HDR_INTERNAL) \div 2

Leaf(keys, vals) == [kind |-> "leaf", keys |-> keys, vals |-> vals]
Internal(keys, children) ==
    [kind |-> "internal", keys |-> keys, children |-> children]

EmptyLeaf == Leaf(<<>>, <<>>)
IsLeaf(node) == node.kind = "leaf"

HeaderLen(node) == IF IsLeaf(node) THEN HDR_LEAF ELSE HDR_INTERNAL

CellLen(node, i) ==
    IF IsLeaf(node) THEN 2 + KeyLen[node.keys[i]] + 2 + node.vals[i]
                    ELSE 2 + KeyLen[node.keys[i]] + 8

\* Bytes of the cells from..to.
CellsLen(node, from, to) ==
    FoldLeft(+, 0, [i \in 1..(to - from + 1) |-> CellLen(node, from + i - 1)])

EncodedLen(node) == HeaderLen(node) + CellsLen(node, 1, Len(node.keys))
IsOverfull(node) == EncodedLen(node) > CAP
IsUnderfull(node) == EncodedLen(node) < MIN_FILL

\* The number of keys at the front that satisfy k <= key (partition_point).
RouteIndex(keys, key) == Cardinality({i \in DOMAIN keys : keys[i] <= key})
Below(keys, key) == Cardinality({i \in DOMAIN keys : keys[i] < key})
Take(s, n) == SubSeq(s, 1, n)
After(s, n) == SubSeq(s, n + 1, Len(s))

\* split_at: of the splits that leave both halves within a page the one with
\* the least skew, the first of them in a tie, and 1 if there is none.
LeftLen(node, m) == CellsLen(node, 1, m)
RightLen(node, m) ==
    CellsLen(node, m + (IF IsLeaf(node) THEN 1 ELSE 2), Len(node.keys))
Skew(left, right) == IF left > right THEN left - right ELSE right - left
LeastSkew(skew) ==
    IF skew = <<>> THEN 1
    ELSE Min({m \in DOMAIN skew : \A o \in DOMAIN skew : skew[m] <= skew[o]})

SplitAt(node) ==
    LeastSkew([m \in {m \in 1..(Len(node.keys) - 1) :
                          /\ HeaderLen(node) + LeftLen(node, m) <= CAP
                          /\ HeaderLen(node) + RightLen(node, m) <= CAP}
                  |-> Skew(LeftLen(node, m), RightLen(node, m))])

SplitOn(node, m) ==
    [left  |-> IF IsLeaf(node)
               THEN Leaf(Take(node.keys, m), Take(node.vals, m))
               ELSE Internal(Take(node.keys, m), Take(node.children, m + 1)),
     sep   |-> node.keys[m + 1],
     right |-> IF IsLeaf(node)
               THEN Leaf(After(node.keys, m), After(node.vals, m))
               ELSE Internal(After(node.keys, m + 1), After(node.children, m + 1))]
Split(node) == SplitOn(node, SplitAt(node))

\* Mutant: merging internal nodes drops the separator between them.
MergeDropsSeparator(left, sep, right) ==
    IF IsLeaf(left) THEN Leaf(left.keys \o right.keys, left.vals \o right.vals)
    ELSE Internal(left.keys \o right.keys, left.children \o right.children)

Merge(left, sep, right) ==
    IF IsLeaf(left) THEN Leaf(left.keys \o right.keys, left.vals \o right.vals)
    ELSE Internal(left.keys \o <<sep>> \o right.keys,
                  left.children \o right.children)

-----------------------------------------------------------------------------
(* Tree operations: tree.rs.  An operation carries its effects on the      *)
(* pager in st: the pages, the ids pushed to Edit::freed, and whether a    *)
(* write was refused because its node is larger than a page.               *)

Edit0(ps) == [pages |-> ps, freed |-> EmptyBag, err |-> FALSE]

\* Pager::alloc: a page that is not in use.  Which one does not matter.
NewId(st) == Min((1..(Cardinality(DOMAIN st.pages) + 1)) \ DOMAIN st.pages)

WriteNode(st, node) ==
    [st EXCEPT !.pages = [id \in {NewId(st)} |-> node] @@ @,
               !.err = @ \/ IsOverfull(node)]

FreedPush(st, id) == [st EXCEPT !.freed = @ (+) SetToBag({id})]

CheckEntry(key, val) ==
    LET need == Max({4 + KeyLen[key] + val, 10 + KeyLen[key]})
    IN need <= MAX_CELL

\* Ins::Updated is a result with one id, Ins::Split one with two ids and the
\* separator between them.
WriteOne(st, node) ==
    [st |-> WriteNode(st, node), ids |-> <<NewId(st)>>, seps |-> <<>>]
WriteSecond(first, sep, node) ==
    [st |-> WriteNode(first.st, node),
     ids |-> Append(first.ids, NewId(first.st)), seps |-> <<sep>>]
WriteSplit(st, parts) == WriteSecond(WriteOne(st, parts.left), parts.sep, parts.right)

WriteBalanced(st, node) ==
    IF IsOverfull(node) THEN WriteSplit(st, Split(node)) ELSE WriteOne(st, node)

LeafInsertAt(node, i, key, val) ==
    IF \E j \in DOMAIN node.keys : node.keys[j] = key
    THEN Leaf(node.keys, [node.vals EXCEPT ![i] = val])
    ELSE Leaf(InsertAt(node.keys, i, key), InsertAt(node.vals, i, val))
LeafInsert(node, key, val) == LeafInsertAt(node, Below(node.keys, key) + 1, key, val)

LeafRemove(node, i) == Leaf(RemoveAt(node.keys, i), RemoveAt(node.vals, i))

\* The internal node with child ci, counted from 0, replaced by the nodes of sub.
Replaced(node, ci, sub) ==
    Internal(Take(node.keys, ci) \o sub.seps \o After(node.keys, ci),
             Take(node.children, ci) \o sub.ids \o After(node.children, ci + 1))
Replace(node, ci, sub) == WriteBalanced(sub.st, Replaced(node, ci, sub))

RECURSIVE InsertRec(_, _, _, _)
InsertInto(st, node, ci, key, val) ==
    IF IsLeaf(node) THEN WriteBalanced(st, LeafInsert(node, key, val))
    ELSE Replace(node, ci, InsertRec(st, node.children[ci + 1], key, val))
InsertRec(st, id, key, val) ==
    InsertInto(FreedPush(st, id), st.pages[id],
               RouteIndex(st.pages[id].keys, key), key, val)

\* A root that was split gets a new root above the two.
GrowRoot(ins) ==
    IF Len(ins.ids) = 1 THEN [st |-> ins.st, root |-> ins.ids[1]]
    ELSE [st |-> WriteNode(ins.st, Internal(ins.seps, ins.ids)),
          root |-> NewId(ins.st)]
TreeInsert(ps, rt, key, val) == GrowRoot(InsertRec(Edit0(ps), rt, key, val))

\* Mutant: only one of two merged nodes is reported as freed.
FreedLeftOnly(st, left, right) == FreedPush(st, left)

FreedBoth(st, left, right) == FreedPush(FreedPush(st, left), right)

\* rebalance: merge the underfull child ci (counted from 0) with its left, or
\* for the first with its right neighbour; split the result again if it is
\* too large.
Joined(keys, children, l, w) ==
    [st |-> w.st,
     node |-> Internal(Take(keys, l - 1) \o w.seps \o After(keys, l),
                       Take(children, l - 1) \o w.ids \o After(children, l + 1))]
RebalanceAt(st, keys, children, l) ==
    Joined(keys, children, l,
           WriteBalanced(FreedBoth(st, children[l], children[l + 1]),
                         Merge(st.pages[children[l]], keys[l], st.pages[children[l + 1]])))
Rebalance(st, keys, children, ci) ==
    RebalanceAt(st, keys, children, IF ci > 0 THEN ci ELSE 1)

\* Del::Unchanged is found = FALSE, Del::Done carries id and underfull.
Unchanged(st) == [found |-> FALSE, st |-> st, id |-> 0, underfull |-> FALSE]
Done(st, node) == [found |-> TRUE, st |-> WriteNode(st, node), id |-> NewId(st),
                   underfull |-> IsUnderfull(node)]

DoneWith(r) == Done(r.st, r.node)

\* The node above child ci once the key is gone from that child: sub.
Deleted(st, node, ci, sub) ==
    IF ~sub.found THEN sub
    ELSE DoneWith(
        IF sub.underfull
        THEN Rebalance(st, node.keys, [node.children EXCEPT ![ci + 1] = sub.id], ci)
        ELSE [st |-> st,
              node |-> Internal(node.keys, [node.children EXCEPT ![ci + 1] = sub.id])])

RECURSIVE DeleteRec(_, _, _)
DeleteAbove(id, node, ci, sub) == Deleted(FreedPush(sub.st, id), node, ci, sub)
DeleteFrom(st, id, node, ci, key) ==
    IF ~IsLeaf(node)
    THEN DeleteAbove(id, node, ci, DeleteRec(st, node.children[ci + 1], key))
    ELSE IF \A j \in DOMAIN node.keys : node.keys[j] # key THEN Unchanged(st)
    ELSE Done(FreedPush(st, id), LeafRemove(node, Below(node.keys, key) + 1))
DeleteRec(st, id, key) ==
    DeleteFrom(st, id, st.pages[id], RouteIndex(st.pages[id].keys, key), key)

\* A root with a single child gives way to that child.
ShrinkRoot(st, id, top) ==
    IF ~IsLeaf(top) /\ Len(top.children) = 1
    THEN [st |-> FreedPush(st, id), root |-> top.children[1]]
    ELSE [st |-> st, root |-> id]
NewRoot(del, rt) ==
    IF del.found THEN ShrinkRoot(del.st, del.id, del.st.pages[del.id])
    ELSE [st |-> del.st, root |-> rt]
TreeDelete(ps, rt, key) == NewRoot(DeleteRec(Edit0(ps), rt, key), rt)

\* The value as a set of at most one element.
LeafGet(node, key) == {node.vals[i] : i \in {j \in DOMAIN node.keys : node.keys[j] = key}}
Route(node, key) == node.children[RouteIndex(node.keys, key) + 1]

RECURSIVE Lookup(_, _, _)
Lookup(ps, id, key) ==
    IF IsLeaf(ps[id]) THEN LeafGet(ps[id], key) ELSE Lookup(ps, Route(ps[id], key), key)

\* pages: every page reachable from id.
RECURSIVE TreePages(_, _)
TreePages(ps, id) ==
    {id} \cup IF IsLeaf(ps[id]) THEN {}
              ELSE UNION {TreePages(ps, c) : c \in Range(ps[id].children)}

Ascending(keys) == \A i \in 1..(Len(keys) - 1) : keys[i] < keys[i + 1]

\* validate_rec, and the order of keys that decode checks on every read.  The
\* result is the depth, or 0 for any of the corruption errors.  Bounds are
\* keys; 0 and NumKeys + 1 stand for None.
RECURSIVE ValidateRec(_, _, _, _, _)
ValidateRec(ps, id, lo, hi, isRoot) ==
    LET node == ps[id]
        n == Len(node.keys)
        Sub(i) == ValidateRec(ps, node.children[i],
                              IF i = 1 THEN lo ELSE node.keys[i - 1],
                              IF i = n + 1 THEN hi ELSE node.keys[i], FALSE)
        sound == /\ Ascending(node.keys)
                 /\ \A i \in 1..n : node.keys[i] >= lo /\ node.keys[i] < hi
    IN IF IsLeaf(node)
       THEN IF sound /\ (isRoot \/ n > 0) /\ Len(node.vals) = n THEN 1 ELSE 0
       ELSE IF /\ sound
               /\ n >= 1 /\ Len(node.children) = n + 1
               /\ \A i \in 1..(n + 1) : Sub(i) # 0 /\ Sub(i) = Sub(1)
            THEN 1 + Sub(1) ELSE 0

Validate(ps, rt) == ValidateRec(ps, rt, 0, NumKeys + 1, TRUE) # 0
-----------------------------------------------------------------------------
(* The cursor: cursor.rs.  A frame keeps the decoded node and an index     *)
(* counted from 0: the child descended through, or in a leaf the entry a   *)
(* forward step yields next (a backward step yields the one before it).    *)

PlusInf == NumKeys + 1

\* Mutant: a range starts after its lower bound.
StartAfter(keys, bound) == RouteIndex(keys, bound)

StartAt(keys, bound) == Below(keys, bound)

\* descend_lower_bound; descend_leftmost and descend_rightmost are the descents
\* for a bound below and above every key.
RECURSIVE Descend(_, _, _)
Descend(ps, id, bound) ==
    LET node == ps[id]
        ci == RouteIndex(node.keys, bound)
    IN IF IsLeaf(node) THEN <<[node |-> node, idx |-> StartAt(node.keys, bound)]>>
       ELSE <<[node |-> node, idx |-> ci]>>
                \o Descend(ps, node.children[ci + 1], bound)

CursorOpen(ps, rt, dir, lo, hi) ==
    Descend(ps, rt, IF dir = "forward" THEN lo ELSE IF hi = 0 THEN PlusInf ELSE hi)

\* advance_to_next_subtree and retreat_to_prev_subtree, by the direction.
RECURSIVE NextSubtree(_, _, _)
NextSubtree(ps, path, dir) ==
    IF path = <<>> THEN <<>>
    ELSE LET top == Last(path)
             i == IF dir = "forward" THEN top.idx + 1 ELSE top.idx - 1
         IN IF ~IsLeaf(top.node) /\ i >= 0 /\ i < Len(top.node.children)
            THEN Append(Front(path), [top EXCEPT !.idx = i])
                     \o Descend(ps, top.node.children[i + 1],
                                IF dir = "forward" THEN 0 ELSE PlusInf)
            ELSE NextSubtree(ps, Front(path), dir)

\* next_entry: next_forward and next_backward.
RECURSIVE NextEntry(_, _)
NextEntry(ps, c) ==
    LET top == Last(c.path)
        at == IF c.dir = "forward" THEN top.idx + 1 ELSE top.idx
        key == top.node.keys[at]
        outside == IF c.dir = "forward" THEN c.hi # 0 /\ key >= c.hi
                                        ELSE c.lo # 0 /\ key < c.lo
        stop == [c EXCEPT !.path = <<>>, !.done = TRUE]
    IN IF c.path = <<>> THEN stop
       ELSE IF ~IsLeaf(top.node) \/ at \notin DOMAIN top.node.keys
            THEN NextEntry(ps, [c EXCEPT !.path = NextSubtree(ps, Front(@), c.dir)])
       ELSE IF outside THEN stop
       ELSE [c EXCEPT !.path[Len(c.path)].idx = IF c.dir = "forward" THEN @ + 1 ELSE @ - 1,
                      !.out = Append(@, <<key, top.node.vals[at]>>)]

-----------------------------------------------------------------------------
(* The client.                                                             *)

Init ==
    /\ pages = [id \in {1} |-> EmptyLeaf] /\ root = 1
    /\ pin = NoPin /\ behind = 0 /\ pending = EmptyBag
    /\ cur = NoCursor

\* The caller installs the new root and reclaims what the edit superseded, at
\* once or after the snapshot; a refused write drops the whole edit.
Apply(e) ==
    /\ UNCHANGED <<pin, cur>>
    /\ \/ e.st.err /\ UNCHANGED <<pages, root, behind, pending>>
       \/ /\ ~e.st.err /\ pin = NoPin
          /\ pages' = Restrict(e.st.pages, DOMAIN e.st.pages \ BagToSet(e.st.freed))
          /\ root' = e.root /\ UNCHANGED <<behind, pending>>
       \/ /\ ~e.st.err /\ pin # NoPin
          /\ pages' = e.st.pages /\ pending' = pending (+) e.st.freed
          /\ root' = e.root /\ behind' = behind + 1

MayEdit == pin = NoPin \/ behind < MaxBehind

Insert(k, v) ==
    /\ MayEdit /\ CheckEntry(k, v)
    /\ Apply(TreeInsert(pages, root, k, v))

Delete(k) == MayEdit /\ Apply(TreeDelete(pages, root, k))

Pin ==
    /\ pin = NoPin /\ MaxBehind > 0
    /\ pin' = root
    /\ UNCHANGED <<pages, root, behind, pending, cur>>

Unpin ==
    /\ pin # NoPin /\ cur = NoCursor
    /\ pin' = NoPin /\ behind' = 0
    /\ pages' = Restrict(pages, DOMAIN pages \ BagToSet(pending))
    /\ pending' = EmptyBag
    /\ UNCHANGED <<root, cur>>

Open(dir, lo, hi) ==
    /\ pin # NoPin /\ cur = NoCursor
    /\ cur' = [open |-> TRUE, dir |-> dir, lo |-> lo, hi |-> hi, out |-> <<>>,
               done |-> FALSE, path |-> CursorOpen(pages, pin, dir, lo, hi)]
    /\ UNCHANGED <<pages, root, pin, behind, pending>>

Step ==
    /\ cur.open /\ ~cur.done
    /\ cur' = NextEntry(pages, cur)
    /\ UNCHANGED <<pages, root, pin, behind, pending>>

Close ==
    /\ cur.open /\ cur' = NoCursor
    /\ UNCHANGED <<pages, root, pin, behind, pending>>

Next ==
    \/ \E k \in Key : Delete(k) \/ \E v \in Value : Insert(k, v)
    \/ Pin \/ Unpin \/ Step \/ Close
    \/ \E dir \in {"forward", "backward"}, lo, hi \in Bounds : Open(dir, lo, hi)

Spec == Init /\ [][Next]_vars

-----------------------------------------------------------------------------
(* Properties.                                                             *)

\* BTree::validate accepts the latest tree and the pinned one: keys sorted and
\* between the separators above them, all leaves at one depth, no empty leaf
\* and no internal node without a separator.
TreesValid == Validate(pages, root) /\ (pin # NoPin => Validate(pages, pin))

\* What Edit::freed reports (tree.rs:30-31) is exact: a superseded page is
\* reported once, is not part of the new tree, and every page that is not
\* reported is part of it, so nothing leaks and nothing is freed twice.
FreedExact ==
    LET live == TreePages(pages, root)
        gone == BagToSet(pending)
    IN /\ live \cup gone = DOMAIN pages
       /\ live \cap gone = {}
       /\ \A id \in gone : CopiesIn(id, pending) = 1

\* What lookup finds under a root, as a map.
Found(found) ==
    [k \in {x \in Key : found[x] # {}} |-> CHOOSE v \in Value : v \in found[k]]
Contents(id) == Found([k \in Key |-> Lookup(pages, id, k)])

KM == INSTANCE KeyMap WITH
    map <- Contents(root),
    snap <- IF pin = NoPin THEN <<>> ELSE <<Contents(pin)>>,
    scan <- IF cur.open THEN [f \in DOMAIN cur \ {"path"} |-> cur[f]] ELSE cur

\* The tree implements an ordered map with pinned views: what lookup finds under
\* the latest and the pinned root is the map and its view, and a cursor yields
\* the entries of the view between its bounds, each once and in order, while
\* the tree moves on.
ImplementsKeyMap == KM!Spec

=============================================================================
