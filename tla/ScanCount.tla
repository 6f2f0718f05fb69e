------------------------------ MODULE ScanCount ------------------------------
(***************************************************************************)
(* What a pick or pack task of grit-inventory promises to whoever scans    *)
(* it: every scan counts one unit of its line, up to the quantity          *)
(* required, and the task is complete exactly when no unit is missing      *)
(* (the comment of scanPickItem, lib/picking.ts).  Scans that disturb one  *)
(* another may lose units of their own lines, and the completion, until    *)
(* one is undisturbed again.                                               *)
(***************************************************************************)
EXTENDS Naturals

CONSTANTS
    Lines,
    Required \* units required of a line

VARIABLES
    status,   \* "absent" until the task is created
    count,    \* units counted of a line
    disturbed \* scans of the task overlap

countVars == <<status, count, disturbed>>

Complete(c) == \A l \in Lines : c[l] >= Required[l]

Counted(c, l) ==
    [c EXCEPT ![l] = IF c[l] < Required[l] THEN c[l] + 1 ELSE Required[l]]

CountInit ==
    /\ status = "absent"
    /\ count = [l \in Lines |-> 0]
    /\ disturbed = FALSE

Start ==
    /\ status = "absent"
    /\ status' = "pending"
    /\ UNCHANGED <<count, disturbed>>

Begin ==
    /\ status # "absent"
    /\ disturbed' \in BOOLEAN
    /\ UNCHANGED <<status, count>>

Count(l) ==
    /\ status # "absent" /\ ~ disturbed
    /\ count' = Counted(count, l)
    /\ status' = IF Complete(count') THEN "complete" ELSE "in_progress"
    /\ UNCHANGED disturbed

Disturb(l) ==
    /\ status # "absent" /\ disturbed
    /\ \E n \in 1..Required[l] : count' = [count EXCEPT ![l] = n]
    /\ status' \in {"in_progress", "complete"}
    /\ UNCHANGED disturbed

CountNext == Start \/ Begin \/ \E l \in Lines : Count(l) \/ Disturb(l)

CountSpec == CountInit /\ [][CountNext]_countVars
=============================================================================
