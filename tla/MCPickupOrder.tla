---------------------------- MODULE MCPickupOrder ---------------------------
(***************************************************************************)
(* Instances of PickupOrder for TLC: a pickup order p that staff may       *)
(* tender with cash1 and whose lines they may change.                      *)
(***************************************************************************)
EXTENDS PickupOrder, TLC

CONSTANTS p, cash1, line, tab

OneOrderOf == cash1 :> p
OneAmount == cash1 :> 2
LineOf == line :> p
NoEdit == [e \in {} |-> p]
=============================================================================
