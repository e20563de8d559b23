------------------------------- MODULE KeyMap -------------------------------
(***************************************************************************)
(* What the B+tree promises its caller: an ordered map, a pinned view of   *)
(* it that later changes leave alone, and an ordered scan of that view     *)
(* between two optional bounds, in either direction.                       *)
(***************************************************************************)
EXTENDS Integers, Sequences, FiniteSets, SequencesExt

CONSTANTS NumKeys, Value, Bounds

Key == 1..NumKeys

VARIABLES map, snap, scan

vars == <<map, snap, scan>>

None == <<>>
NoScan == [open |-> FALSE]

\* [lo, hi) with 0 for an absent bound.
InRange(k, lo, hi) == (lo = 0 \/ k >= lo) /\ (hi = 0 \/ k < hi)

\* The entries of m between the bounds in the order of the scan.
Listing(m, dir, lo, hi) ==
    LET up == SetToSortSeq({k \in DOMAIN m : InRange(k, lo, hi)}, <)
        ks == IF dir = "forward" THEN up ELSE Reverse(up)
    IN [i \in DOMAIN ks |-> <<ks[i], m[ks[i]]>>]

Init == map = None /\ snap = None /\ scan = NoScan

With(m, k, v) == [x \in DOMAIN m \cup {k} |-> IF x = k THEN v ELSE m[x]]
Without(m, k) == [x \in DOMAIN m \ {k} |-> m[x]]

\* One key is set or dropped between the two maps.
OneEdit(old, new) ==
    \E k \in Key : new = Without(old, k) \/ \E v \in Value : new = With(old, k, v)

Edit == UNCHANGED scan /\ OneEdit(map, map') /\ UNCHANGED snap

Pin == UNCHANGED scan /\ snap = None /\ snap' = <<map>> /\ UNCHANGED map

Unpin == scan = NoScan /\ UNCHANGED scan /\ snap # None /\ snap' = None /\ UNCHANGED map

Open(dir, lo, hi) ==
    /\ scan = NoScan
    /\ scan' = [open |-> TRUE, dir |-> dir, lo |-> lo, hi |-> hi,
                out |-> <<>>, done |-> FALSE]
    /\ snap # None
    /\ UNCHANGED <<map, snap>>

\* The next entry of the listing, or the end once all have been given.
Step ==
    /\ scan.open /\ ~scan.done
    /\ LET all == Listing(snap[1], scan.dir, scan.lo, scan.hi)
           n == Len(scan.out)
       IN scan' = IF n < Len(all) THEN [scan EXCEPT !.out = Append(@, all[n + 1])]
                                  ELSE [scan EXCEPT !.done = TRUE]
    /\ UNCHANGED <<map, snap>>

Close == scan.open /\ scan' = NoScan /\ UNCHANGED <<map, snap>>

Next ==
    \/ Edit \/ Pin \/ Unpin \/ Step \/ Close
    \/ \E dir \in {"forward", "backward"}, lo, hi \in Bounds : Open(dir, lo, hi)

Spec == Init /\ [][Next]_vars
=============================================================================
