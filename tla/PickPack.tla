------------------------------ MODULE PickPack ------------------------------
(***************************************************************************)
(* The fulfilment of one order of grit-inventory: the pick task, the pack  *)
(* task copied from it, the parcel label, and the transition to fulfilled, *)
(* whose route looks at the pack task before its transaction.              *)
(*                                                                         *)
(* Both tasks are scanned as ScanTask says.  Each of the requests that     *)
(* start a task, make the label or ship the order reads first and writes   *)
(* later; only the transition itself locks the order.                      *)
(***************************************************************************)
EXTENDS ScanRequests

CONSTANT PackScans \* the requests that the pack task gets

ASSUME PackAssumption == PackScans \subseteq Scans

VARIABLES
    order,  \* Order.status
    ship,   \* the request to fulfil: what it found, kept when it succeeds
    starts, \* requests that start a task and have made their checks
    label,  \* the request for a ParcelLabel
    pickStatus, picked, pickStarted, pickCompleted, pickScan, pickRound, pickOverlap,
    packStatus, packed, packStarted, packCompleted, packScan, packRound, packOverlap

pickVars == <<pickStatus, picked, pickStarted, pickCompleted, pickScan, pickRound, pickOverlap>>
packVars == <<packStatus, packed, packStarted, packCompleted, packScan, packRound, packOverlap>>
requestVars == <<order, ship, starts, label>>
vars == <<requestVars, pickVars, packVars>>

Pick == INSTANCE ScanTask WITH
            status <- pickStatus, count <- picked, startedAt <- pickStarted,
            completedAt <- pickCompleted, scan <- pickScan,
            round <- pickRound, overlap <- pickOverlap
Pack == INSTANCE ScanTask WITH
            Scans <- PackScans, Scanned <- [s \in PackScans |-> Scanned[s]],
            status <- packStatus, count <- packed, startedAt <- packStarted,
            completedAt <- packCompleted, scan <- packScan,
            round <- packRound, overlap <- packOverlap

TypeOK ==
    /\ order \in {"pending", "paid", "fulfilling", "fulfilled", "cancelled"}
    /\ ship \in {"idle", "unpacked", "packed"}
    /\ starts \subseteq {"pick", "pack"}
    /\ label \in {"none", "checked", "made"}
    /\ Pick!ScanTypeOK
    /\ Pack!ScanTypeOK

Init ==
    /\ order = "pending"
    /\ ship = "idle"
    /\ starts = {}
    /\ label = "none"
    /\ Pick!ScanInit
    /\ Pack!ScanInit

-----------------------------------------------------------------------------
canTransition(from, to) ==
    <<from, to>> \in {<<"pending", "paid">>, <<"paid", "fulfilling">>, <<"fulfilling", "fulfilled">>}
                      \cup {"pending", "paid", "fulfilling"} \X {"cancelled"}

Transition(to) ==
    /\ to \in {"paid", "fulfilling", "cancelled"}
    /\ canTransition(order, to)
    /\ order' = to
    /\ UNCHANGED <<ship, starts, label, pickVars, packVars>>

CheckPick ==
    /\ order = "fulfilling" /\ pickStatus = "absent"
    /\ starts' = starts \cup {"pick"}
    /\ UNCHANGED <<order, ship, label, pickVars, packVars>>

CreatePick ==
    /\ "pick" \in starts
    /\ starts' = starts \ {"pick"}
    /\ Pick!Create
    /\ UNCHANGED <<order, ship, label, packVars>>

\* mutant: packing may start while the pick task is worked on
PickStarted == pickStatus \in {"in_progress", "complete"}

PickComplete == pickStatus = "complete"

CheckPack ==
    /\ PickComplete /\ packStatus = "absent"
    /\ starts' = starts \cup {"pack"}
    /\ UNCHANGED <<order, ship, label, pickVars, packVars>>

CreatePack ==
    /\ "pack" \in starts
    /\ starts' = starts \ {"pack"}
    /\ Pack!Create
    /\ UNCHANGED <<order, ship, label, pickVars>>

CheckLabel ==
    /\ label = "none" /\ packStatus = "complete"
    /\ label' = "checked"
    /\ UNCHANGED <<order, ship, starts, pickVars, packVars>>

CreateLabel ==
    /\ label = "checked"
    /\ label' = "made"
    /\ UNCHANGED <<order, ship, starts, pickVars, packVars>>

PackedStatus == {"complete"}

CheckShip ==
    /\ ship = "idle"
    /\ \/ packStatus = "absent" /\ ship' = "unpacked"
       \/ packStatus \in PackedStatus /\ ship' = "packed"
    /\ UNCHANGED <<order, starts, label, pickVars, packVars>>

Ship ==
    /\ ship # "idle" /\ order # "fulfilled"
    /\ IF canTransition(order, "fulfilled")
       THEN order' = "fulfilled" /\ UNCHANGED ship
       ELSE ship' = "idle" /\ UNCHANGED order
    /\ UNCHANGED <<starts, label, pickVars, packVars>>

Next ==
    \/ \E to \in {"paid", "fulfilling", "cancelled"} : Transition(to)
    \/ CheckPick
    \/ CreatePick
    \/ CheckPack
    \/ CreatePack
    \/ CheckLabel
    \/ CreateLabel
    \/ CheckShip
    \/ Ship
    \/ Pick!ScanStep /\ UNCHANGED <<requestVars, packVars>>
    \/ Pack!ScanStep /\ UNCHANGED <<requestVars, pickVars>>

Spec == Init /\ [][Next]_vars

-----------------------------------------------------------------------------
Picked == \A l \in Lines : Pick!DoneOn(l) >= Required[l]
Packed == \A l \in Lines : Pack!DoneOn(l) >= Required[l]

(***************************************************************************)
(* "three steps, each gated on the previous one completing": of what is    *)
(* packed, every unit was scanned before, and of what is labelled, or      *)
(* shipped by a request that found it packed, every unit was scanned       *)
(* twice - however scans overlap, and whatever a late or redundant one     *)
(* makes of the status that the gate looked at.                            *)
(***************************************************************************)
StepsAreGated ==
    /\ packStatus # "absent" => Picked
    /\ label # "none" \/ ship = "packed" => Picked /\ Packed

(***************************************************************************)
(* What ScanTask says of one task, of both: "let staff scan each unit; the *)
(* task auto-completes", the stamps stay, and each implements ScanCount.   *)
(***************************************************************************)
ScannedIsCounted == Pick!ScannedIsCounted /\ Pack!ScannedIsCounted
StampsKept == Pick!StampsKept /\ Pack!StampsKept
CounterSpec == Pick!CounterSpec /\ Pack!CounterSpec
=============================================================================
