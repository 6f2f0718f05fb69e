------------------------------ MODULE MCTeams ------------------------------
(***************************************************************************)
(* Instances of Teams for TLC: an owner, three people she may invite.      *)
(***************************************************************************)
EXTENDS Teams, TLC

CONSTANTS boss, ann, bob, cat, first, second, h1, h2, j1, j2

BothOfBoss == [s \in Subs |-> boss]
TeamThenDashboard == [s \in Subs |-> IF s = first THEN "team" ELSE NoPlan]
TwoThenOne == [s \in Subs |-> IF s = first THEN 2 ELSE 1]

TeamSymmetry == Permutations({ann, bob, cat}) \cup Permutations(Hooks) \cup Permutations(Joins)
=============================================================================
