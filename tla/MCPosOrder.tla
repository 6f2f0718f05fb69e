----------------------------- MODULE MCPosOrder -----------------------------
(***************************************************************************)
(* Instances of PosOrder for TLC.  o1 is a table order of 2, q the order   *)
(* of a quick sale.                                                        *)
(***************************************************************************)
EXTENDS PosOrder, TLC

CONSTANTS o1, q, cash1, cash2, quick, line, tab1, tab2

\* two customers share a bill, and one more buys at the register
RegisterOrderOf == cash1 :> o1 @@ cash2 :> o1 @@ quick :> q
RegisterAmount == cash1 :> 1 @@ cash2 :> 1 @@ quick :> 1

SplitOrderOf == cash1 :> o1 @@ cash2 :> o1
SplitAmount == cash1 :> 1 @@ cash2 :> 1

\* a tender and a quick sale in one batch
BatchOrderOf == cash1 :> o1 @@ quick :> q
BatchAmount == cash1 :> 2 @@ quick :> 2

LineOf == line :> o1
NoEdit == [e \in {} |-> o1]

Symmetry == Permutations({cash1, cash2}) \cup Permutations({tab1, tab2})
=============================================================================
