------------------------------ MODULE MCBTree ------------------------------
(***************************************************************************)
(* Instances of BTree.  Key lengths are chosen so that a leaf holds two or *)
(* three entries and an internal node two or three separators: trees of    *)
(* three levels, merges, rotations and root collapses happen with a        *)
(* handful of keys.                                                        *)
(***************************************************************************)
EXTENDS BTree

\* Long and short keys mixed: separators change length when they change.
MixedKeys == <<2000, 2000, 2000, 2000, 20, 60, 2000, 900>>

\* Bound: a snapshot and a cursor are tried on trees of the five long keys only,
\* which reach three levels.
LongWhenPinned ==
    pin # NoPin => \A k \in {5, 6, 8} : Lookup(pages, root, k) = {}

\* Page ids are interchangeable: two states behave alike when the latest and the
\* pinned tree have the same nodes and share them at the same places, and no page
\* is reported wrongly.
RECURSIVE Walk(_)
Walk(id) ==
    <<id>> \o IF IsLeaf(pages[id]) THEN <<>>
              ELSE FlattenSeq([i \in DOMAIN pages[id].children |-> Walk(pages[id].children[i])])

NodesOf(walk) ==
    [i \in DOMAIN walk |->
        IF IsLeaf(pages[walk[i]]) THEN pages[walk[i]] ELSE Internal(pages[walk[i]].keys, <<>>)]

ShapeView ==
    LET latest == Walk(root)
        pinned == IF pin = NoPin THEN <<>> ELSE Walk(pin)
    IN <<NodesOf(latest), NodesOf(pinned),
         {<<i, j>> \in (DOMAIN latest) \X (DOMAIN pinned) : latest[i] = pinned[j]},
         behind, cur, FreedExact>>
=============================================================================
