------------------------------ MODULE ScanTask ------------------------------
(***************************************************************************)
(* A pick or a pack task while its lines are scanned: scanPickItem and     *)
(* scanPackItem of grit-inventory, the same code over two tables.          *)
(*                                                                         *)
(* Granularity.  A scan is a READ COMMITTED transaction: it reads task and *)
(* items; it writes one item, which locks it until the end, and reads all  *)
(* items again, seeing its own write and what others have committed; it    *)
(* writes the task and commits.                                            *)
(*                                                                         *)
(* Nothing keeps two scans of a task apart.  Two history variables, which  *)
(* no step reads to decide anything, say which scans overlapped.           *)
(***************************************************************************)
EXTENDS ScanRequests

VARIABLES
    status,      \* "absent" until the task is created
    count,       \* quantityPicked or quantityPacked of a line
    startedAt,   \* the scan that stamped startedAt, NotSet before
    completedAt, \* the scan that stamped completedAt
    scan,        \* the transactions
    round,       \* history: the rounds of scans of a line that counted
    overlap      \* history: "now" from a scan that was not alone to the next
                 \* that is, "over" until one that is alone commits

scanVars == <<status, count, startedAt, completedAt, scan, round, overlap>>

Stamp == Scans \cup {NotSet}
TaskStatus == {"absent", "pending", "in_progress", "complete"}
NoTransaction == [step |-> "new"]
Ended == [step : {"done"}, line : Lines] \cup {[step |-> "failed"]}
Transaction ==
    [step : {"read", "written"}, line : Lines, value : Nat, all : BOOLEAN,
     started : Stamp, completed : Stamp]

ScanTypeOK ==
    /\ status \in TaskStatus
    /\ count \in [Lines -> Nat]
    /\ startedAt \in Stamp
    /\ completedAt \in Stamp
    /\ scan \in [Scans -> {NoTransaction} \cup Ended \cup Transaction]
    /\ round \in [Lines -> [number : Nat, counted : BOOLEAN]]
    /\ overlap \in {"none", "now", "over"}

ScanInit ==
    /\ status = "absent"
    /\ count = [l \in Lines |-> 0]
    /\ startedAt = NotSet
    /\ completedAt = NotSet
    /\ scan = [s \in Scans |-> NoTransaction]
    /\ round = [l \in Lines |-> [number |-> 0, counted |-> FALSE]]
    /\ overlap = "none"

Create ==
    /\ status = "absent"
    /\ status' = "pending"
    /\ UNCHANGED <<count, startedAt, completedAt, scan, round, overlap>>

Active == {s \in Scans : scan[s].step \in {"read", "written"}}

\* a round of scans of a line lasts while one of them is in progress
InRound(l) == \E s \in Active : scan[s].line = l

\* mutant: a scan takes a unit away
Removed(current, required) == current - 1

nextScannedQuantity(current, required) ==
    IF current < required THEN current + 1 ELSE required

\* the query has no ORDER BY: of two lines with one SKU it may find either
Read(s) ==
    /\ status # "absent"
    /\ scan[s] = NoTransaction
    /\ Cardinality(Active) < Scanners
    /\ \E l \in Lines :
         /\ Sku[l] = Scanned[s]
         /\ scan' = [scan EXCEPT ![s] =
              [step |-> "read", line |-> l, value |-> nextScannedQuantity(count[l], Required[l]),
               all |-> FALSE, started |-> startedAt, completed |-> completedAt]]
         /\ round' = IF InRound(l) THEN round ELSE [round EXCEPT ![l].counted = FALSE]
    /\ overlap' = IF Active # {} THEN "now" ELSE IF overlap = "now" THEN "over" ELSE overlap
    /\ UNCHANGED <<status, count, startedAt, completedAt>>

LineLocked(l) == \E s \in Active : scan[s].step = "written" /\ scan[s].line = l

\* mutant: the completion check looks at the scanned line alone
LineIsComplete(c, l) == c[l] >= Required[l]

\* mutant: a line is complete when it holds more than it should
MoreThanRequired(c, l) == \A k \in Lines : c[k] > Required[k]

isTaskComplete(c, l) == \A k \in Lines : c[k] >= Required[k]

Write(s) ==
    LET l == scan[s].line IN
    /\ scan[s].step = "read"
    /\ ~ LineLocked(l)
    /\ scan' = [scan EXCEPT ![s].step = "written",
                            ![s].all = isTaskComplete([count EXCEPT ![l] = scan[s].value], l)]
    /\ UNCHANGED <<status, count, startedAt, completedAt, round, overlap>>

\* mutant: every scan that finds the task complete stamps it
LastStamp(old, s) == s

FirstStamp(old, s) == IF old = NotSet THEN s ELSE old

Commit(s) ==
    LET t == scan[s] IN
    /\ t.step = "written"
    /\ count' = [count EXCEPT ![t.line] = t.value]
    /\ status' = IF t.all THEN "complete" ELSE "in_progress"
    /\ startedAt' = FirstStamp(t.started, s)
    /\ completedAt' = IF t.all THEN FirstStamp(t.completed, s) ELSE t.completed
    /\ scan' = [scan EXCEPT ![s] = [step |-> "done", line |-> t.line]]
    /\ round' = [round EXCEPT ![t.line] =
         [number |-> IF @.counted THEN @.number ELSE @.number + 1, counted |-> TRUE]]
    /\ overlap' = IF overlap = "over" THEN "none" ELSE overlap

Rollback(s) ==
    /\ s \in Active
    /\ scan' = [scan EXCEPT ![s] = [step |-> "failed"]]
    /\ UNCHANGED <<status, count, startedAt, completedAt, round, overlap>>

ScanStep == \E s \in Scans : Read(s) \/ Write(s) \/ Commit(s) \/ Rollback(s)

ScanNext == Create \/ ScanStep

ScanSpec == ScanInit /\ [][ScanNext]_scanVars

-----------------------------------------------------------------------------
\* units of a line that were scanned to the end
DoneOn(l) == Cardinality({s \in Scans : scan[s].step = "done" /\ scan[s].line = l})

AllCounted == \A l \in Lines : count[l] >= Required[l]

(***************************************************************************)
(* No line counts more units than the task requires, nor more than were    *)
(* scanned, and a task is complete only once every unit required was       *)
(* scanned (nextScannedQuantity, isPickTaskComplete).                      *)
(***************************************************************************)
NothingInvented ==
    /\ \A l \in Lines : count[l] <= Required[l] /\ count[l] <= DoneOn(l)
    /\ status = "complete" => \A l \in Lines : DoneOn(l) >= Required[l]

(***************************************************************************)
(* startedAt "stamps on first touch and never moves again", and            *)
(* completedAt "must NOT keep advancing" (resolveTaskTimestamps): a scan   *)
(* that no other overlaps leaves both, whatever overlapped before it, and  *)
(* no scan takes startedAt away.                                           *)
(***************************************************************************)
StampsKept ==
    [][/\ startedAt # NotSet => startedAt' # NotSet
       /\ overlap # "now" =>
            /\ startedAt # NotSet => startedAt' = startedAt
            /\ completedAt # NotSet => completedAt' = completedAt]_scanVars

(***************************************************************************)
(* "Once every item's quantityPicked meets its quantityRequired, the task  *)
(* auto-completes" (scanPickItem, lib/picking.ts).                         *)
(***************************************************************************)
AutoCompletes ==
    status # "absent" /\ Active = {} /\ AllCounted => status = "complete"

(***************************************************************************)
(* However scans overlap, the task is complete exactly when every unit is  *)
(* counted once a scan ran alone after them; and of the scans of a line    *)
(* that overlap one counts at least: they lose each other's units, never   *)
(* one that was counted before (scanPickItem writes what it read).         *)
(***************************************************************************)
ScannedIsCounted ==
    /\ status # "absent" /\ overlap = "none" => (status = "complete" <=> AllCounted)
    /\ \A l \in Lines : count[l] >= Required[l] \/ count[l] >= round[l].number

(***************************************************************************)
(* A task implements ScanCount: scans that overlap disturb one another.    *)
(***************************************************************************)
Counter == INSTANCE ScanCount WITH disturbed <- overlap = "now"
CounterSpec == Counter!CountSpec
=============================================================================
