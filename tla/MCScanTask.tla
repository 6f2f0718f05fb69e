----------------------------- MODULE MCScanTask -----------------------------
(***************************************************************************)
(* Instances of ScanTask for TLC: the last unit of each of two lines.      *)
(***************************************************************************)
EXTENDS ScanTask, TLC

CONSTANTS l1, l2, bread, milk, s1, s2

TwoSkus == l1 :> bread @@ l2 :> milk
OneEach == l1 :> 1 @@ l2 :> 1

OneOfEach == s1 :> bread @@ s2 :> milk
=============================================================================
