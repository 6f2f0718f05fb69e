----------------------------- MODULE MCPickPack -----------------------------
(***************************************************************************)
(* Instances of Fulfilment for TLC: an order of two lines.                 *)
(***************************************************************************)
EXTENDS Fulfilment, TLC

CONSTANTS l1, l2, bread, milk, b1, b2, m1, p1, p2, d1, d2

TwoSkus == l1 :> bread @@ l2 :> milk
TwoOne == l1 :> 2 @@ l2 :> 1
Units == b1 :> bread @@ b2 :> bread @@ m1 :> milk

\* payments differ by their amounts only, scans of one SKU by nothing
FulfilSymmetry ==
    Permutations(Payments) \cup Permutations(Dispatchers) \cup Permutations({b1, b2})
=============================================================================
