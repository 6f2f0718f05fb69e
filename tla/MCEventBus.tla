----------------------------- MODULE MCEventBus -----------------------------
(***************************************************************************)
(* An instance of EventBus for TLC: a sale whose consumer may publish a    *)
(* threshold breach, which grit-taskboard is down to receive, and a        *)
(* promotion for grit-pos behind it in the same outbox.                    *)
(***************************************************************************)
EXTENDS EventBus, TLC

CONSTANTS sale, breach, promotion, pos, inventory, taskboard, posDrain, inventoryDrain

MCRoutes == sale :> {inventory} @@ breach :> {taskboard} @@ promotion :> {pos}
MCPublisher == sale :> pos @@ breach :> inventory @@ promotion :> inventory
MCConsequences == sale :> {breach} @@ breach :> {} @@ promotion :> {}
MCDrainOf == posDrain :> pos @@ inventoryDrain :> inventory
=============================================================================
