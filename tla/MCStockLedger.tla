--------------------------- MODULE MCStockLedger ---------------------------
(***************************************************************************)
(* Instances of StoreAdmin for TLC.                                        *)
(***************************************************************************)
EXTENDS StoreAdmin, TLC

CONSTANTS main, branch, elsewhere, v1, v2, o1, o2, t1, e1, e2

\* two variants: a basket of either kind or of both
TwoVariantBaskets == {v1 :> 1 @@ v2 :> 0, v1 :> 1 @@ v2 :> 2}
TwoVariantOpening == v1 :> 1 @@ v2 :> 0

Adjustments == {-1, 2}
LedgerSymmetry == Permutations(Orders) \cup Permutations(Sales)
=============================================================================
