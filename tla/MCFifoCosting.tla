--------------------------- MODULE MCFifoCosting ---------------------------
(***************************************************************************)
(* Instances of FifoCosting for TLC: one variant.                          *)
(***************************************************************************)
EXTENDS FifoCosting, TLC

CONSTANTS main, branch, v1, o1, t1, e1

OneVariantBaskets == {v1 :> 2}
OneInStock == v1 :> 1
OneCent == v1 :> 1
Receipts == {-1, 2}
=============================================================================
