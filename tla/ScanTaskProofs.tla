--------------------------- MODULE ScanTaskProofs ---------------------------
(***************************************************************************)
(* Proofs about ScanTask, for any lines, quantities and requests and any   *)
(* number of scanners: its type; that no unit is invented, and no task     *)
(* complete that was not scanned; what scans that overlap may lose; that   *)
(* a scan nobody overlaps leaves the stamps and sets the status right; and *)
(* that a task implements ScanCount.                                       *)
(***************************************************************************)
EXTENDS ScanTask, FiniteSetTheorems, TLAPS

LEMMA ScanTypeInit == ScanInit => ScanTypeOK
  BY LinesAssumption, ScansAssumption DEF ScanInit, ScanTypeOK, TaskStatus, Stamp

(***************************************************************************)
(* What each action does to the transactions.                              *)
(***************************************************************************)
LEMMA ReadScan ==
  ASSUME ScanTypeOK, NEW s \in Scans, Read(s)
  PROVE  /\ s \notin Active /\ scan[s].step = "new"
         /\ UNCHANGED <<status, count, startedAt, completedAt>> /\ status # "absent"
         /\ overlap' = IF Active # {} THEN "now" ELSE IF overlap = "now" THEN "over" ELSE overlap
         /\ \A r \in Scans \ {s} : scan'[r] = scan[r]
         /\ Active' = Active \cup {s}
         /\ \E l \in Lines :
              /\ scan'[s] = [step |-> "read", line |-> l,
                             value |-> nextScannedQuantity(count[l], Required[l]),
                             all |-> FALSE, started |-> startedAt, completed |-> completedAt]
              /\ scan' = [scan EXCEPT ![s] = scan'[s]]
              /\ round' = IF InRound(l) THEN round ELSE [round EXCEPT ![l].counted = FALSE]
<1>1. PICK l \in Lines :
        /\ scan' = [scan EXCEPT ![s] =
             [step |-> "read", line |-> l, value |-> nextScannedQuantity(count[l], Required[l]),
              all |-> FALSE, started |-> startedAt, completed |-> completedAt]]
        /\ round' = IF InRound(l) THEN round ELSE [round EXCEPT ![l].counted = FALSE]
  BY DEF Read
<1>2. /\ scan'[s] = [step |-> "read", line |-> l,
                     value |-> nextScannedQuantity(count[l], Required[l]),
                     all |-> FALSE, started |-> startedAt, completed |-> completedAt]
      /\ \A r \in Scans \ {s} : scan'[r] = scan[r]
  BY <1>1 DEF ScanTypeOK
<1>3. scan[s].step = "new"
  BY DEF Read, NoTransaction
<1>4. s \notin Active
  BY <1>3 DEF Active
<1>5. Active' = Active \cup {s}
  BY <1>2 DEF Active
<1>6. /\ UNCHANGED <<status, count, startedAt, completedAt>> /\ status # "absent"
      /\ overlap' = IF Active # {} THEN "now" ELSE IF overlap = "now" THEN "over" ELSE overlap
  BY DEF Read
<1>7. scan' = [scan EXCEPT ![s] = scan'[s]]
  BY <1>1, <1>2
<1> QED BY <1>1, <1>2, <1>3, <1>4, <1>5, <1>6, <1>7

\* the row of the transaction alone
LEMMA ReadRow ==
  ASSUME ScanTypeOK, NEW s \in Scans, Read(s)
  PROVE  \E l \in Lines :
           scan'[s] = [step |-> "read", line |-> l,
                       value |-> nextScannedQuantity(count[l], Required[l]),
                       all |-> FALSE, started |-> startedAt, completed |-> completedAt]
  BY ReadScan

LEMMA ActiveRow == ASSUME ScanTypeOK, NEW s \in Active PROVE s \in Scans /\ scan[s] \in Transaction
  BY DEF Active, ScanTypeOK, NoTransaction, Ended

LEMMA WriteScan ==
  ASSUME ScanTypeOK, NEW s \in Scans, Write(s)
  PROVE  /\ s \in Active /\ scan[s].step = "read" /\ Active' = Active
         /\ UNCHANGED <<status, count, startedAt, completedAt, round, overlap>>
         /\ \A r \in Scans \ {s} : scan'[r] = scan[r]
         /\ scan'[s] = [scan[s] EXCEPT !.step = "written",
              !.all = isTaskComplete([count EXCEPT ![scan[s].line] = scan[s].value], scan[s].line)]
<1> DEFINE done == isTaskComplete([count EXCEPT ![scan[s].line] = scan[s].value], scan[s].line)
<1>1. s \in Active /\ scan[s].step = "read"
  BY DEF Write, Active
<1>2. /\ scan'[s] = [scan[s] EXCEPT !.step = "written", !.all = done]
      /\ \A r \in Scans \ {s} : scan'[r] = scan[r]
  BY DEF Write, ScanTypeOK
<1>3. scan'[s].step = "written"
  BY <1>1, <1>2, ActiveRow DEF Transaction
<1>4. Active' = Active
  BY <1>1, <1>2, <1>3 DEF Active
<1> QED BY <1>1, <1>2, <1>4 DEF Write

LEMMA CommitScan ==
  ASSUME ScanTypeOK, NEW s \in Scans, Commit(s)
  PROVE  /\ s \in Active /\ scan[s].step = "written" /\ scan[s] \in Transaction
         /\ Active' = Active \ {s}
         /\ scan'[s] = [step |-> "done", line |-> scan[s].line]
         /\ \A r \in Scans \ {s} : scan'[r] = scan[r]
         /\ count' = [count EXCEPT ![scan[s].line] = scan[s].value]
         /\ overlap' = IF overlap = "over" THEN "none" ELSE overlap
<1>1. s \in Active /\ scan[s].step = "written"
  BY DEF Commit, Active
<1>2. /\ scan'[s] = [step |-> "done", line |-> scan[s].line]
      /\ \A r \in Scans \ {s} : scan'[r] = scan[r]
  BY DEF Commit, ScanTypeOK
<1>3. Active' = Active \ {s}
  BY <1>2 DEF Active
<1> QED BY <1>1, <1>2, <1>3, ActiveRow DEF Commit

LEMMA RollbackScan ==
  ASSUME ScanTypeOK, NEW s \in Scans, Rollback(s)
  PROVE  /\ s \in Active /\ Active' = Active \ {s} /\ scan'[s] = [step |-> "failed"]
         /\ UNCHANGED <<status, count, startedAt, completedAt, round, overlap>>
         /\ \A r \in Scans \ {s} : scan'[r] = scan[r]
<1>1. /\ scan'[s] = [step |-> "failed"]
      /\ \A r \in Scans \ {s} : scan'[r] = scan[r]
  BY DEF Rollback, ScanTypeOK
<1>2. Active' = Active \ {s}
  BY <1>1 DEF Active
<1> QED BY <1>1, <1>2 DEF Rollback

LEMMA ScanTypeStep == ScanTypeOK /\ [ScanNext]_scanVars => ScanTypeOK'
<1> USE LinesAssumption, ScansAssumption
<1> SUFFICES ASSUME ScanTypeOK, [ScanNext]_scanVars PROVE ScanTypeOK'
  OBVIOUS
<1>1. CASE Create
  BY <1>1 DEF Create, TaskStatus, ScanTypeOK
<1>2. ASSUME NEW s \in Scans, Read(s) PROVE ScanTypeOK'
  <2>1. PICK l \in Lines :
          /\ scan'[s] = [step |-> "read", line |-> l,
                         value |-> nextScannedQuantity(count[l], Required[l]),
                         all |-> FALSE, started |-> startedAt, completed |-> completedAt]
          /\ scan' = [scan EXCEPT ![s] = scan'[s]]
          /\ round' = IF InRound(l) THEN round ELSE [round EXCEPT ![l].counted = FALSE]
    BY <1>2, ReadScan
  <2>2. nextScannedQuantity(count[l], Required[l]) \in Nat
    BY DEF nextScannedQuantity, ScanTypeOK
  <2>3. scan'[s] \in Transaction
    BY <2>1, <2>2 DEF Transaction, ScanTypeOK
  <2>4. scan' \in [Scans -> {NoTransaction} \cup Ended \cup Transaction]
    BY <2>1, <2>3 DEF ScanTypeOK
  <2>5. round' \in [Lines -> [number : Nat, counted : BOOLEAN]]
    BY <2>1 DEF ScanTypeOK
  <2>6. overlap' \in {"none", "now", "over"} /\ UNCHANGED <<status, count, startedAt, completedAt>>
    BY <1>2, ReadScan DEF ScanTypeOK
  <2> QED BY <2>4, <2>5, <2>6 DEF ScanTypeOK
<1>3. ASSUME NEW s \in Scans, Write(s) PROVE ScanTypeOK'
  <2> DEFINE done == isTaskComplete([count EXCEPT ![scan[s].line] = scan[s].value], scan[s].line)
  <2>1. scan[s] \in Transaction
    BY <1>3, WriteScan, ActiveRow
  <2>2. done \in BOOLEAN
    BY DEF isTaskComplete
  <2> HIDE DEF done
  <2>3. [scan[s] EXCEPT !.step = "written", !.all = done] \in Transaction
    BY <2>1, <2>2 DEF Transaction
  <2>4. scan' = [scan EXCEPT ![s] = [scan[s] EXCEPT !.step = "written", !.all = done]]
    BY <1>3 DEF Write, ScanTypeOK, done
  <2>5. scan' \in [Scans -> {NoTransaction} \cup Ended \cup Transaction]
    BY <2>3, <2>4 DEF ScanTypeOK
  <2> QED BY <1>3, <2>5 DEF Write, ScanTypeOK
<1>4. ASSUME NEW s \in Scans, Commit(s) PROVE ScanTypeOK'
  <2>1. scan[s] \in Transaction
    BY <1>4, CommitScan
  <2>2. [step |-> "done", line |-> scan[s].line] \in Ended
    BY <2>1 DEF Ended, Transaction
  <2>3. scan' \in [Scans -> {NoTransaction} \cup Ended \cup Transaction]
    BY <1>4, <2>2 DEF Commit, ScanTypeOK
  <2>4. round' \in [Lines -> [number : Nat, counted : BOOLEAN]]
    BY <1>4, <2>1 DEF Commit, ScanTypeOK, Transaction
  <2>5. /\ status' \in TaskStatus /\ count' \in [Lines -> Nat]
        /\ startedAt' \in Stamp /\ completedAt' \in Stamp
    BY <1>4, <2>1 DEF Commit, ScanTypeOK, Transaction, FirstStamp, Stamp, TaskStatus
  <2> QED BY <1>4, <2>3, <2>4, <2>5, CommitScan DEF ScanTypeOK
<1>5. ASSUME NEW s \in Scans, Rollback(s) PROVE ScanTypeOK'
  BY <1>5 DEF Rollback, Ended, ScanTypeOK
<1>6. CASE UNCHANGED scanVars
  BY <1>6 DEF scanVars, ScanTypeOK
<1> QED BY <1>1, <1>2, <1>3, <1>4, <1>5, <1>6 DEF ScanNext, ScanStep

(***************************************************************************)
(* Every variable keeps its type.                                          *)
(***************************************************************************)
THEOREM ScanTypeCorrect == ScanSpec => []ScanTypeOK
  BY ScanTypeInit, ScanTypeStep, PTL DEF ScanSpec

-----------------------------------------------------------------------------
(***************************************************************************)
(* What is counted was scanned.  What a transaction is about to write      *)
(* exceeds neither what is required nor, its own unit included, what was   *)
(* scanned of the line: the quantity it read may be stale, but it was      *)
(* reached by earlier scans.  One that found every line full found lines   *)
(* whose units had been scanned.                                           *)
(***************************************************************************)
DoneScans(l) == {s \in Scans : scan[s].step = "done" /\ scan[s].line = l}

Earned(s, l) ==
    /\ scan[s].value \in 1..Required[l]
    /\ scan[s].value <= DoneOn(l) + 1
    /\ scan[s].step = "written" /\ scan[s].all =>
          /\ scan[s].value >= Required[l]
          /\ \A k \in Lines \ {l} : DoneOn(k) >= Required[k]

WritesAreEarned == \A s \in Active, l \in Lines : scan[s].line = l => Earned(s, l)

EarnedInv == ScanTypeOK /\ NothingInvented /\ WritesAreEarned

LEMMA DoneIsNat == ASSUME NEW l PROVE IsFiniteSet(DoneScans(l)) /\ DoneOn(l) \in Nat
  BY LinesAssumption, FS_Subset, FS_CardinalityType DEF DoneOn, DoneScans

(***************************************************************************)
(* A step that ends no scan well leaves the tally of every line.           *)
(***************************************************************************)
LEMMA DoneUnchanged ==
  ASSUME NEW s \in Scans, scan[s].step # "done", scan'[s].step # "done",
         \A r \in Scans \ {s} : scan'[r] = scan[r], NEW l
  PROVE  DoneOn(l)' = DoneOn(l)
<1>1. {r \in Scans : scan'[r].step = "done" /\ scan'[r].line = l} = DoneScans(l)
  BY DEF DoneScans
<1> QED BY <1>1 DEF DoneOn, DoneScans

LEMMA DoneSame == ASSUME UNCHANGED scan, NEW l PROVE DoneOn(l)' = DoneOn(l)
  BY DEF DoneOn

(***************************************************************************)
(* The commit of a scan adds one to the tally of its line.                 *)
(***************************************************************************)
LEMMA DoneAfterCommit ==
  ASSUME ScanTypeOK, NEW s \in Scans, Commit(s), NEW l
  PROVE  DoneOn(l)' = IF l = scan[s].line THEN DoneOn(l) + 1 ELSE DoneOn(l)
<1> DEFINE D == {r \in Scans : scan'[r].step = "done" /\ scan'[r].line = l}
<1>1. /\ scan'[s] = [step |-> "done", line |-> scan[s].line]
      /\ scan[s].step = "written" /\ \A r \in Scans \ {s} : scan'[r] = scan[r]
  BY CommitScan
<1>2. DoneOn(l)' = Cardinality(D)
  BY DEF DoneOn
<1>3. CASE l = scan[s].line
  <2>1. D = DoneScans(l) \cup {s} /\ s \notin DoneScans(l)
    BY <1>1, <1>3 DEF DoneScans
  <2>2. Cardinality(D) = Cardinality(DoneScans(l)) + 1
    BY <2>1, DoneIsNat, FS_AddElement
  <2> QED BY <1>2, <1>3, <2>2 DEF DoneOn, DoneScans
<1>4. CASE l # scan[s].line
  <2>1. D = DoneScans(l)
    BY <1>1, <1>4 DEF DoneScans
  <2> QED BY <1>2, <1>4, <2>1 DEF DoneOn, DoneScans
<1> QED BY <1>3, <1>4

(***************************************************************************)
(* A scanned unit stays scanned.                                           *)
(***************************************************************************)
LEMMA DoneGrows ==
  ASSUME ScanTypeOK, [ScanNext]_scanVars, NEW l
  PROVE  DoneOn(l)' \in Nat /\ DoneOn(l)' >= DoneOn(l)
<1> USE DoneIsNat
<1>1. ASSUME NEW s \in Scans, Read(s) PROVE DoneOn(l)' = DoneOn(l)
  <2>1. PICK m \in Lines :
          scan'[s] = [step |-> "read", line |-> m,
                      value |-> nextScannedQuantity(count[m], Required[m]),
                      all |-> FALSE, started |-> startedAt, completed |-> completedAt]
    BY <1>1, ReadRow
  <2>2. scan[s].step = "new" /\ \A r \in Scans \ {s} : scan'[r] = scan[r]
    BY <1>1, ReadScan
  <2>3. scan'[s].step = "read"
    BY <2>1
  <2> QED BY <2>2, <2>3, DoneUnchanged
<1>2. ASSUME NEW s \in Scans, Write(s) PROVE DoneOn(l)' = DoneOn(l)
  <2>1. scan[s].step = "read" /\ scan[s] \in Transaction /\ \A r \in Scans \ {s} : scan'[r] = scan[r]
    BY <1>2, WriteScan, ActiveRow
  <2>2. scan'[s].step = "written"
    BY <1>2, <2>1, WriteScan DEF Transaction
  <2> QED BY <2>1, <2>2, DoneUnchanged
<1>3. ASSUME NEW s \in Scans, Commit(s) PROVE DoneOn(l)' \in Nat /\ DoneOn(l)' >= DoneOn(l)
  BY <1>3, DoneAfterCommit
<1>4. ASSUME NEW s \in Scans, Rollback(s) PROVE DoneOn(l)' = DoneOn(l)
  <2>1. scan[s].step \in {"read", "written"}
    BY <1>4 DEF Rollback, Active
  <2>2. scan'[s] = [step |-> "failed"] /\ \A r \in Scans \ {s} : scan'[r] = scan[r]
    BY <1>4, RollbackScan
  <2>3. scan'[s].step = "failed"
    BY <2>2
  <2> QED BY <2>1, <2>2, <2>3, DoneUnchanged
<1>5. CASE UNCHANGED scan
  BY <1>5, DoneSame
<1> QED BY <1>1, <1>2, <1>3, <1>4, <1>5 DEF ScanNext, ScanStep, Create, scanVars

LEMMA EarnedInit == ScanInit => EarnedInv
<1> SUFFICES ASSUME ScanInit PROVE EarnedInv
  OBVIOUS
<1>1. ScanTypeOK
  BY ScanTypeInit
<1>2. NothingInvented
  BY DoneIsNat, LinesAssumption DEF ScanInit, NothingInvented
<1>3. Active = {}
  BY DEF ScanInit, Active, NoTransaction
<1> QED BY <1>1, <1>2, <1>3 DEF EarnedInv, WritesAreEarned

LEMMA EarnedStep == ASSUME EarnedInv, ScanTypeOK', [ScanNext]_scanVars PROVE EarnedInv'
<1> USE LinesAssumption, ScansAssumption
<1>1. /\ ScanTypeOK /\ \A l \in Lines : count[l] \in Nat /\ Required[l] \in Nat \ {0}
      /\ \A l : DoneOn(l) \in Nat /\ DoneOn(l)' \in Nat /\ DoneOn(l)' >= DoneOn(l)
      /\ \A l \in Lines : count[l] <= Required[l] /\ count[l] <= DoneOn(l)
      /\ status = "complete" => \A l \in Lines : DoneOn(l) >= Required[l]
  <2>1. ScanTypeOK /\ NothingInvented
    BY DEF EarnedInv
  <2>2. \A l : DoneOn(l) \in Nat /\ DoneOn(l)' \in Nat /\ DoneOn(l)' >= DoneOn(l)
    <3> SUFFICES ASSUME NEW l PROVE DoneOn(l) \in Nat /\ DoneOn(l)' \in Nat /\ DoneOn(l)' >= DoneOn(l)
      OBVIOUS
    <3> QED BY <2>1, DoneIsNat, DoneGrows
  <2> QED BY <2>1, <2>2 DEF ScanTypeOK, NothingInvented
<1>1a. \A l \in Lines : count[l] <= DoneOn(l)'
  BY <1>1
<1>1b. ASSUME NEW r \in Active, NEW l \in Lines, scan[r].line = l, scan'[r] = scan[r]
      PROVE  Earned(r, l)'
  <2>1. scan[r].value \in Nat
    BY <1>1, ActiveRow DEF Transaction
  <2>2. Earned(r, l)
    BY <1>1b DEF EarnedInv, WritesAreEarned
  <2>3. scan[r].value <= DoneOn(l)' + 1
    BY <1>1, <2>1, <2>2 DEF Earned
  <2>4. ASSUME scan[r].step = "written" /\ scan[r].all, NEW k \in Lines \ {l}
        PROVE  DoneOn(k)' >= Required[k]
    BY <1>1, <2>2, <2>4 DEF Earned
  <2> QED BY <1>1b, <2>2, <2>3, <2>4 DEF Earned
<1>1c. ASSUME \A r \in Active' : r \in Active /\ scan'[r] = scan[r]
      PROVE  WritesAreEarned'
  <2> SUFFICES ASSUME NEW r \in Active', NEW l \in Lines, scan'[r].line = l
               PROVE  Earned(r, l)'
    BY DEF WritesAreEarned
  <2> QED BY <1>1b, <1>1c
<1>3. ASSUME UNCHANGED <<status, count>> PROVE NothingInvented'
  <2>1. status = "complete" => \A l \in Lines : DoneOn(l)' >= Required[l]
    BY <1>1
  <2> QED BY <1>1, <1>1a, <1>3, <2>1 DEF NothingInvented
<1>5. CASE Create
  <2>1. Active' = Active /\ scan' = scan /\ UNCHANGED count /\ status' # "complete"
    BY <1>5 DEF Create, Active
  <2>2. NothingInvented'
    BY <1>1, <1>1a, <2>1 DEF NothingInvented
  <2> QED BY <1>1c, <2>1, <2>2 DEF EarnedInv
<1>6. ASSUME NEW s \in Scans, Read(s) PROVE EarnedInv'
  <2>1. PICK l \in Lines :
          scan'[s] = [step |-> "read", line |-> l,
                      value |-> nextScannedQuantity(count[l], Required[l]),
                      all |-> FALSE, started |-> startedAt, completed |-> completedAt]
    <3>1. ScanTypeOK
      BY <1>1
    <3> QED BY <1>6, <3>1, ReadRow
  <2>2. /\ Active' = Active \cup {s} /\ s \notin Active /\ UNCHANGED <<status, count>>
        /\ \A r \in Scans \ {s} : scan'[r] = scan[r]
    BY <1>1, <1>6, ReadScan
  <2>3. Earned(s, l)'
    <3>1. scan'[s].value = nextScannedQuantity(count[l], Required[l]) /\ scan'[s].step = "read"
      BY <2>1
    <3>2. scan'[s].value \in 1..Required[l] /\ scan'[s].value <= DoneOn(l)' + 1
      BY <1>1, <1>1a, <3>1 DEF nextScannedQuantity
    <3> QED BY <3>1, <3>2 DEF Earned
  <2>4. WritesAreEarned'
    <3> SUFFICES ASSUME NEW r \in Active', NEW m \in Lines, scan'[r].line = m
                 PROVE  Earned(r, m)'
      BY DEF WritesAreEarned
    <3>1. CASE r = s
      BY <2>1, <2>3, <3>1
    <3>2. CASE r # s
      <4>1. r \in Active /\ scan'[r] = scan[r]
        BY <2>2, <3>2 DEF Active
      <4> QED BY <1>1b, <4>1
    <3> QED BY <3>1, <3>2
  <2> QED BY <1>3, <2>2, <2>4 DEF EarnedInv
<1>7. ASSUME NEW s \in Scans, Write(s) PROVE EarnedInv'
  <2>1. PICK l \in Lines : scan[s].line = l
    BY <1>1, <1>7, WriteScan, ActiveRow DEF Transaction
  <2> DEFINE done == isTaskComplete([count EXCEPT ![l] = scan[s].value], l)
  <2>2. /\ s \in Active /\ Active' = Active /\ UNCHANGED <<status, count>>
        /\ scan[s] \in Transaction
        /\ scan'[s] = [scan[s] EXCEPT !.step = "written", !.all = done]
        /\ \A r \in Scans \ {s} : scan'[r] = scan[r]
    BY <1>1, <1>7, <2>1, WriteScan, ActiveRow
  <2>3. done => scan[s].value >= Required[l] /\ \A k \in Lines \ {l} : count[k] >= Required[k]
    <3>1. scan[s].value \in Nat
      BY <2>2 DEF Transaction
    <3> QED BY <1>1, <3>1 DEF isTaskComplete, ScanTypeOK
  <2> HIDE DEF done
  <2>4. done => \A k \in Lines \ {l} : DoneOn(k)' >= Required[k]
    BY <1>1, <1>1a, <2>3
  <2>5. scan'[s].line = l /\ scan'[s].value = scan[s].value /\ scan'[s].all = done
    BY <2>1, <2>2 DEF Transaction
  <2>6. Earned(s, l)'
    <3>1. Earned(s, l) /\ scan[s].value \in Nat
      BY <2>1, <2>2 DEF EarnedInv, WritesAreEarned, Transaction
    <3>2. scan[s].value \in 1..Required[l] /\ scan[s].value <= DoneOn(l)' + 1
      BY <1>1, <3>1 DEF Earned
    <3> QED BY <2>3, <2>4, <2>5, <3>2 DEF Earned
  <2>7. WritesAreEarned'
    <3> SUFFICES ASSUME NEW r \in Active, NEW m \in Lines, scan'[r].line = m
                 PROVE  Earned(r, m)'
      BY <2>2 DEF WritesAreEarned
    <3>1. CASE r = s
      BY <2>5, <2>6, <3>1
    <3>2. CASE r # s
      <4>1. scan'[r] = scan[r]
        BY <2>2, <3>2 DEF Active
      <4> QED BY <1>1b, <4>1
    <3> QED BY <3>1, <3>2
  <2> QED BY <1>3, <2>2, <2>7 DEF EarnedInv
<1>8. ASSUME NEW s \in Scans, Commit(s) PROVE EarnedInv'
  <2>1. PICK l \in Lines : scan[s].line = l
    BY <1>1, <1>8, CommitScan DEF Transaction
  <2>2. /\ s \in Active /\ Active' = Active \ {s} /\ scan[s] \in Transaction
        /\ scan[s].step = "written" /\ \A r \in Scans \ {s} : scan'[r] = scan[r]
        /\ count' = [count EXCEPT ![l] = scan[s].value]
    BY <1>1, <1>8, <2>1, CommitScan
  <2>3. DoneOn(l)' = DoneOn(l) + 1
    BY <1>1, <1>8, <2>1, DoneAfterCommit
  <2>4. Earned(s, l) /\ scan[s].value \in Nat
    BY <2>1, <2>2 DEF EarnedInv, WritesAreEarned, Transaction
  <2>5. scan[s].value <= Required[l] /\ scan[s].value <= DoneOn(l)'
    BY <1>1, <2>3, <2>4 DEF Earned
  <2>6. \A k \in Lines : count'[k] <= Required[k] /\ count'[k] <= DoneOn(k)'
    <3> SUFFICES ASSUME NEW k \in Lines PROVE count'[k] <= Required[k] /\ count'[k] <= DoneOn(k)'
      OBVIOUS
    <3>1. CASE k = l
      <4>1. count'[k] = scan[s].value
        BY <1>1, <2>2, <3>1 DEF ScanTypeOK
      <4> QED BY <2>5, <3>1, <4>1
    <3>2. CASE k # l
      <4>1. count'[k] = count[k]
        BY <1>1, <2>2, <3>2 DEF ScanTypeOK
      <4> QED BY <1>1, <1>1a, <4>1
    <3> QED BY <3>1, <3>2
  <2>7. ASSUME status' = "complete", NEW k \in Lines PROVE DoneOn(k)' >= Required[k]
    <3>1. scan[s].all
      BY <1>8, <2>7 DEF Commit
    <3>2. scan[s].value >= Required[l] /\ \A m \in Lines \ {l} : DoneOn(m) >= Required[m]
      BY <2>2, <2>4, <3>1 DEF Earned
    <3>3. CASE k = l
      BY <1>1, <2>4, <2>5, <3>2, <3>3
    <3>4. CASE k # l
      BY <1>1, <3>2, <3>4
    <3> QED BY <3>3, <3>4
  <2>8. WritesAreEarned'
    BY <1>1c, <2>2 DEF Active
  <2> QED BY <2>6, <2>7, <2>8 DEF EarnedInv, NothingInvented
<1>9. ASSUME NEW s \in Scans, Rollback(s) PROVE EarnedInv'
  <2>1. /\ Active' = Active \ {s} /\ UNCHANGED <<status, count>>
        /\ \A r \in Scans \ {s} : scan'[r] = scan[r]
    BY <1>1, <1>9, RollbackScan
  <2> QED BY <1>1c, <1>3, <2>1 DEF EarnedInv, Active
<1>10. CASE UNCHANGED scanVars
  <2>1. Active' = Active /\ scan' = scan /\ UNCHANGED <<status, count>>
    BY <1>10 DEF scanVars, Active
  <2> QED BY <1>1c, <1>3, <2>1 DEF EarnedInv
<1> QED BY <1>5, <1>6, <1>7, <1>8, <1>9, <1>10 DEF ScanNext, ScanStep

(***************************************************************************)
(* However many scanners work at once and whatever they lose, no line      *)
(* counts a unit that was not ordered or not scanned, and no task is       *)
(* complete of which a unit was not scanned.                               *)
(***************************************************************************)
THEOREM NothingIsInvented == ScanSpec => []NothingInvented
<1>1. EarnedInv /\ ScanTypeOK' /\ [ScanNext]_scanVars => EarnedInv'
  BY EarnedStep
<1>2. EarnedInv => NothingInvented
  BY DEF EarnedInv
<1> QED BY <1>1, <1>2, EarnedInit, ScanTypeCorrect, PTL DEF ScanSpec

-----------------------------------------------------------------------------
(***************************************************************************)
(* Scans that overlap on one line.  Floor(l) is what the line counts at    *)
(* least when the round that goes on, or the next one, has counted.  A     *)
(* transaction of the round writes that much, so that a late one takes     *)
(* back no unit of an earlier round.                                       *)
(***************************************************************************)
Floor(l) == IF round[l].counted THEN round[l].number ELSE round[l].number + 1

RoundsCount ==
    /\ \A l \in Lines : count[l] >= Required[l] \/ count[l] >= round[l].number
    /\ \A s \in Active, l \in Lines :
         scan[s].line = l => scan[s].value >= Required[l] \/ scan[s].value >= Floor(l)

LEMMA RoundsInit == ScanInit => RoundsCount
  BY LinesAssumption DEF ScanInit, RoundsCount, Active, NoTransaction

LEMMA RoundsStep ==
  ASSUME ScanTypeOK, RoundsCount, [ScanNext]_scanVars
  PROVE  RoundsCount'
<1> USE LinesAssumption, ScansAssumption
<1>1. \A l \in Lines : /\ count[l] \in Nat /\ Required[l] \in Nat \ {0}
                       /\ round[l].number \in Nat /\ round[l].counted \in BOOLEAN
                       /\ count[l] >= Required[l] \/ count[l] >= round[l].number
  BY DEF ScanTypeOK, RoundsCount
<1>2. ASSUME UNCHANGED <<count, round>>, \A r \in Active' : r \in Active /\ scan'[r] = scan[r]
      PROVE  RoundsCount'
  BY <1>2 DEF RoundsCount, Floor
<1>3. CASE Create
  BY <1>2, <1>3 DEF Create, Active
<1>4. ASSUME NEW s \in Scans, Read(s) PROVE RoundsCount'
  <2>1. PICK l \in Lines :
          /\ scan'[s] = [step |-> "read", line |-> l,
                         value |-> nextScannedQuantity(count[l], Required[l]),
                         all |-> FALSE, started |-> startedAt, completed |-> completedAt]
          /\ round' = IF InRound(l) THEN round ELSE [round EXCEPT ![l].counted = FALSE]
    BY <1>4, ReadScan
  <2>2. /\ Active' = Active \cup {s} /\ s \notin Active /\ UNCHANGED count
        /\ \A r \in Scans \ {s} : scan'[r] = scan[r]
    BY <1>4, ReadScan
  <2>3. \A m \in Lines : round'[m].number = round[m].number
    BY <2>1 DEF ScanTypeOK
  <2>4. \A m \in Lines : Floor(m)' = Floor(m) \/ (m = l /\ ~ InRound(l) /\ Floor(l)' = round[l].number + 1)
    BY <2>1, <2>3 DEF ScanTypeOK, Floor
  <2>5. scan'[s].value >= Required[l] \/ scan'[s].value >= Floor(l)'
    <3>1. scan'[s].value = nextScannedQuantity(count[l], Required[l])
      BY <2>1
    <3>2. Floor(l)' = round[l].number \/ Floor(l)' = round[l].number + 1
      BY <2>4 DEF Floor
    <3> QED BY <1>1, <3>1, <3>2 DEF nextScannedQuantity
  <2>6. ASSUME NEW r \in Active', NEW m \in Lines, scan'[r].line = m
        PROVE  scan'[r].value >= Required[m] \/ scan'[r].value >= Floor(m)'
    <3>1. CASE r = s
      BY <2>1, <2>5, <2>6, <3>1
    <3>2. CASE r # s
      <4>1. r \in Active /\ scan'[r] = scan[r]
        BY <2>2, <3>2 DEF Active
      <4>2. Floor(m)' = Floor(m)
        BY <2>4, <2>6, <4>1 DEF InRound
      <4> QED BY <2>6, <4>1, <4>2 DEF RoundsCount
    <3> QED BY <3>1, <3>2
  <2>7. \A m \in Lines : count'[m] >= Required[m] \/ count'[m] >= round'[m].number
    BY <1>1, <2>2, <2>3
  <2> QED BY <2>6, <2>7 DEF RoundsCount
<1>5. ASSUME NEW s \in Scans, Write(s) PROVE RoundsCount'
  <2> DEFINE done == isTaskComplete([count EXCEPT ![scan[s].line] = scan[s].value], scan[s].line)
  <2>1. /\ s \in Active /\ Active' = Active /\ UNCHANGED <<count, round>>
        /\ scan[s] \in Transaction
        /\ scan'[s] = [scan[s] EXCEPT !.step = "written", !.all = done]
        /\ \A r \in Scans \ {s} : scan'[r] = scan[r]
    BY <1>5, WriteScan, ActiveRow
  <2> HIDE DEF done
  <2>2. scan'[s].line = scan[s].line /\ scan'[s].value = scan[s].value
    BY <2>1 DEF Transaction
  <2>3. \A r \in Active : scan'[r].line = scan[r].line /\ scan'[r].value = scan[r].value
    BY <2>1, <2>2 DEF Active
  <2> QED BY <2>1, <2>3 DEF RoundsCount, Floor
<1>6. ASSUME NEW s \in Scans, Commit(s) PROVE RoundsCount'
  <2>1. PICK l \in Lines : scan[s].line = l
    BY <1>6, CommitScan DEF Transaction
  <2>2. /\ s \in Active /\ Active' = Active \ {s} /\ scan[s] \in Transaction
        /\ \A r \in Scans \ {s} : scan'[r] = scan[r]
        /\ count' = [count EXCEPT ![l] = scan[s].value]
    BY <1>6, <2>1, CommitScan
  <2>3. round' = [round EXCEPT ![l] = [number |-> IF round[l].counted THEN round[l].number ELSE round[l].number + 1,
                                       counted |-> TRUE]]
    BY <1>6, <2>1 DEF Commit
  <2>4. /\ round'[l].number = Floor(l) /\ Floor(l)' = Floor(l)
        /\ \A m \in Lines \ {l} : round'[m] = round[m] /\ Floor(m)' = Floor(m)
    BY <2>3 DEF ScanTypeOK, Floor
  <2>5. count'[l] = scan[s].value /\ \A m \in Lines \ {l} : count'[m] = count[m]
    BY <2>2 DEF ScanTypeOK
  <2>6. scan[s].value >= Required[l] \/ scan[s].value >= Floor(l)
    BY <2>1, <2>2 DEF RoundsCount
  <2>7. ASSUME NEW m \in Lines PROVE count'[m] >= Required[m] \/ count'[m] >= round'[m].number
    BY <1>1, <2>4, <2>5, <2>6
  <2>8. ASSUME NEW r \in Active', NEW m \in Lines, scan'[r].line = m
        PROVE  scan'[r].value >= Required[m] \/ scan'[r].value >= Floor(m)'
    <3>1. r \in Active /\ scan'[r] = scan[r]
      BY <2>2 DEF Active
    <3>2. Floor(m)' = Floor(m)
      BY <2>4
    <3> QED BY <2>8, <3>1, <3>2 DEF RoundsCount
  <2> QED BY <2>7, <2>8 DEF RoundsCount
<1>7. ASSUME NEW s \in Scans, Rollback(s) PROVE RoundsCount'
  BY <1>2, <1>7, RollbackScan DEF Active
<1>8. CASE UNCHANGED scanVars
  BY <1>2, <1>8 DEF scanVars, Active
<1> QED BY <1>3, <1>4, <1>5, <1>6, <1>7, <1>8 DEF ScanNext, ScanStep

-----------------------------------------------------------------------------
(***************************************************************************)
(* Scans that no other overlaps.  While overlap is not "now" there is one  *)
(* transaction at most, and what it read still holds; once such a one has  *)
(* committed, the status tells what is counted.                            *)
(***************************************************************************)
Solo(s) ==
    /\ \A t \in Active : s = t
    /\ scan[s].value = nextScannedQuantity(count[scan[s].line], Required[scan[s].line])
    /\ scan[s].started = startedAt
    /\ scan[s].completed = completedAt
    /\ scan[s].step = "written" =>
          scan[s].all = isTaskComplete([count EXCEPT ![scan[s].line] = scan[s].value], scan[s].line)

Tallied ==
    /\ status \in {"absent", "pending"} => \A l \in Lines : count[l] = 0
    /\ status \in {"in_progress", "complete"} /\ overlap = "none" => (status = "complete" <=> AllCounted)

SoloInv ==
    /\ Active # {} => status # "absent"
    /\ overlap # "now" => \A s \in Active : Solo(s)
    /\ Tallied

LEMMA SoloInit == ScanInit => SoloInv
  BY DEF ScanInit, SoloInv, Tallied, Active, NoTransaction

LEMMA SoloStep ==
  ASSUME ScanTypeOK, SoloInv, [ScanNext]_scanVars
  PROVE  SoloInv'
<1> USE LinesAssumption, ScansAssumption
<1>1. CASE Create
  <2>1. Active = {} /\ Active' = {}
    BY <1>1 DEF Create, SoloInv, Active
  <2>2. Tallied'
    BY <1>1 DEF Create, SoloInv, Tallied
  <2> QED BY <2>1, <2>2 DEF SoloInv
<1>2. ASSUME NEW s \in Scans, Read(s) PROVE SoloInv'
  <2>1. PICK l \in Lines :
          scan'[s] = [step |-> "read", line |-> l,
                      value |-> nextScannedQuantity(count[l], Required[l]),
                      all |-> FALSE, started |-> startedAt, completed |-> completedAt]
    BY <1>2, ReadRow
  <2>2. /\ Active' = Active \cup {s} /\ UNCHANGED <<status, count, startedAt, completedAt>>
        /\ status # "absent"
        /\ overlap' = IF Active # {} THEN "now" ELSE IF overlap = "now" THEN "over" ELSE overlap
    BY <1>2, ReadScan
  <2>3. ASSUME overlap' # "now" PROVE Active' = {s}
    BY <2>2, <2>3
  <2>4. ASSUME overlap' # "now" PROVE Solo(s)'
    <3>1. scan'[s].line = l /\ scan'[s].step = "read"
          /\ scan'[s].value = nextScannedQuantity(count'[l], Required[l])
          /\ scan'[s].started = startedAt' /\ scan'[s].completed = completedAt'
      BY <2>1, <2>2
    <3> QED BY <2>3, <2>4, <3>1 DEF Solo
  <2>5. Tallied'
    <3>1. overlap' = "none" => overlap = "none"
      BY <2>2
    <3> QED BY <2>2, <3>1 DEF SoloInv, Tallied, AllCounted
  <2> QED BY <2>2, <2>3, <2>4, <2>5 DEF SoloInv
<1>3. ASSUME NEW s \in Scans, Write(s) PROVE SoloInv'
  <2> DEFINE done == isTaskComplete([count EXCEPT ![scan[s].line] = scan[s].value], scan[s].line)
  <2>1. /\ s \in Active /\ Active' = Active /\ scan[s] \in Transaction
        /\ UNCHANGED <<status, count, startedAt, completedAt, overlap>>
        /\ scan'[s] = [scan[s] EXCEPT !.step = "written", !.all = done]
    BY <1>3, WriteScan, ActiveRow
  <2>2. done \in BOOLEAN
    BY DEF isTaskComplete
  <2>3. done' = isTaskComplete([count' EXCEPT ![scan'[s].line] = scan'[s].value], scan'[s].line)
    BY DEF isTaskComplete
  <2>4. /\ scan'[s].line = scan[s].line /\ scan'[s].value = scan[s].value
        /\ scan'[s].started = scan[s].started /\ scan'[s].completed = scan[s].completed
        /\ scan'[s].all = done
    BY <2>1, <2>2 DEF Transaction
  <2>5. done' = done
    BY <2>1, <2>4 DEF isTaskComplete
  <2> HIDE DEF done
  <2>6. ASSUME overlap # "now" PROVE Active' = {s} /\ Solo(s)'
    <3>1. Solo(s) /\ Active = {s}
      BY <2>1, <2>6 DEF SoloInv, Solo
    <3> QED BY <2>1, <2>3, <2>4, <2>5, <3>1 DEF Solo
  <2>7. Tallied'
    BY <2>1 DEF SoloInv, Tallied, AllCounted
  <2>8. (Active # {} => status # "absent")'
    BY <2>1 DEF SoloInv
  <2> QED BY <2>1, <2>6, <2>7, <2>8 DEF SoloInv
<1>4. ASSUME NEW s \in Scans, Commit(s) PROVE SoloInv'
  <2>1. /\ s \in Active /\ Active' = Active \ {s} /\ scan[s] \in Transaction /\ scan[s].step = "written"
        /\ count' = [count EXCEPT ![scan[s].line] = scan[s].value]
        /\ overlap' = IF overlap = "over" THEN "none" ELSE overlap
    BY <1>4, CommitScan
  <2>2. status' = (IF scan[s].all THEN "complete" ELSE "in_progress")
    BY <1>4 DEF Commit
  <2>3. ASSUME overlap # "now" PROVE Active' = {} /\ (status' = "complete" <=> AllCounted')
    <3>1. Solo(s)
      BY <2>1, <2>3 DEF SoloInv
    <3>2. scan[s].all = \A k \in Lines : count'[k] >= Required[k]
      BY <2>1, <3>1 DEF Solo, isTaskComplete
    <3>3. AllCounted' <=> \A k \in Lines : count'[k] >= Required[k]
      BY DEF AllCounted
    <3> QED BY <2>1, <2>2, <3>1, <3>2, <3>3 DEF Solo
  <2>4. overlap' # "now" => overlap # "now"
    BY <2>1
  <2> QED BY <2>2, <2>3, <2>4 DEF SoloInv, Tallied
<1>5. ASSUME NEW s \in Scans, Rollback(s) PROVE SoloInv'
  <2>1. /\ s \in Active /\ Active' = Active \ {s}
        /\ UNCHANGED <<status, count, startedAt, completedAt, overlap>>
    BY <1>5, RollbackScan
  <2>2. overlap # "now" => Active' = {}
    BY <2>1 DEF SoloInv, Solo
  <2>3. Tallied'
    BY <2>1 DEF SoloInv, Tallied, AllCounted
  <2> QED BY <2>1, <2>2, <2>3 DEF SoloInv
<1>6. CASE UNCHANGED scanVars
  <2>1. \A s \in Active : Solo(s)' = Solo(s)
    BY <1>6 DEF scanVars, Solo, Active, isTaskComplete
  <2> QED BY <1>6, <2>1 DEF scanVars, SoloInv, Tallied, AllCounted, Active
<1> QED BY <1>1, <1>2, <1>3, <1>4, <1>5, <1>6 DEF ScanNext, ScanStep

(***************************************************************************)
(* What ScannedIsCounted rests on.                                         *)
(***************************************************************************)
CountedInv == ScanTypeOK /\ RoundsCount /\ SoloInv

LEMMA CountedInit == ScanInit => CountedInv
  BY ScanTypeInit, RoundsInit, SoloInit DEF CountedInv

LEMMA CountedStep == ASSUME CountedInv, [ScanNext]_scanVars PROVE CountedInv'
  BY ScanTypeStep, RoundsStep, SoloStep DEF CountedInv

LEMMA CountedIsCounted == ASSUME CountedInv, Lines # {} PROVE ScannedIsCounted
<1> SUFFICES ASSUME status # "absent", overlap = "none"
             PROVE  status = "complete" <=> AllCounted
  BY DEF CountedInv, RoundsCount, ScannedIsCounted
<1>1. CASE status = "pending"
  <2>1. PICK l \in Lines : count[l] = 0
    BY <1>1 DEF CountedInv, SoloInv, Tallied
  <2>2. ~ AllCounted
    BY <2>1, LinesAssumption DEF AllCounted
  <2> QED BY <1>1, <2>2
<1>2. CASE status \in {"in_progress", "complete"}
  BY <1>2 DEF CountedInv, SoloInv, Tallied
<1> QED BY <1>1, <1>2 DEF CountedInv, ScanTypeOK, TaskStatus

(***************************************************************************)
(* With any number of scanners on a task that has lines: after scans that  *)
(* overlapped, one that runs alone sets the status right, and the line     *)
(* counts at least the rounds of scans that counted.                       *)
(***************************************************************************)
THEOREM UnitsAreCounted == ASSUME Lines # {} PROVE ScanSpec => []ScannedIsCounted
<1>1. CountedInv /\ [ScanNext]_scanVars => CountedInv'
  BY CountedStep
<1>2. CountedInv => ScannedIsCounted
  BY CountedIsCounted
<1> QED BY <1>1, <1>2, CountedInit, PTL DEF ScanSpec

-----------------------------------------------------------------------------
StampsStand ==
    /\ startedAt # NotSet => startedAt' # NotSet
    /\ overlap # "now" =>
         /\ startedAt # NotSet => startedAt' = startedAt
         /\ completedAt # NotSet => completedAt' = completedAt

LEMMA StampsStep == CountedInv /\ [ScanNext]_scanVars => [StampsStand]_scanVars
<1> SUFFICES ASSUME CountedInv, ScanNext PROVE StampsStand
  OBVIOUS
<1>1. ASSUME NEW s \in Scans, Commit(s) PROVE StampsStand
  <2>1. s \in Active /\ s # NotSet
    BY <1>1, LinesAssumption, CommitScan DEF CountedInv
  <2>2. /\ startedAt' = FirstStamp(scan[s].started, s)
        /\ completedAt' = IF scan[s].all THEN FirstStamp(scan[s].completed, s) ELSE scan[s].completed
    BY <1>1 DEF Commit
  <2>3. overlap # "now" => scan[s].started = startedAt /\ scan[s].completed = completedAt
    BY <2>1 DEF CountedInv, SoloInv, Solo
  <2> QED BY <2>1, <2>2, <2>3 DEF StampsStand, FirstStamp
<1>2. ASSUME UNCHANGED <<startedAt, completedAt>> PROVE StampsStand
  BY <1>2 DEF StampsStand
<1> QED BY <1>1, <1>2 DEF ScanNext, ScanStep, Create, Read, Write, Rollback

(***************************************************************************)
(* A scan that no other overlaps moves no stamp that is set, whatever      *)
(* overlapped before it, and startedAt is never taken away.                *)
(***************************************************************************)
THEOREM StampsStay == ScanSpec => StampsKept
<1>1. CountedInv /\ [ScanNext]_scanVars => CountedInv'
  BY CountedStep
<1>2. [StampsStand]_scanVars =>
        [/\ startedAt # NotSet => startedAt' # NotSet
         /\ overlap # "now" =>
              /\ startedAt # NotSet => startedAt' = startedAt
              /\ completedAt # NotSet => completedAt' = completedAt]_scanVars
  BY DEF StampsStand
<1> QED BY <1>1, <1>2, CountedInit, StampsStep, PTL DEF ScanSpec, StampsKept

-----------------------------------------------------------------------------
LEMMA CountInit == ScanInit => Counter!CountInit
  BY DEF ScanInit, Counter!CountInit

LEMMA CountStep ==
  EarnedInv /\ CountedInv /\ [ScanNext]_scanVars => [Counter!CountNext]_(Counter!countVars)
<1> SUFFICES ASSUME EarnedInv, CountedInv, [ScanNext]_scanVars
             PROVE  Counter!CountNext \/ UNCHANGED <<status, count, overlap = "now">>
  BY DEF Counter!countVars
<1>1. CASE Create
  BY <1>1 DEF Create, Counter!CountNext, Counter!Start
<1>2. ASSUME NEW s \in Scans, Read(s) PROVE Counter!CountNext
  BY <1>2, ReadScan DEF EarnedInv, Counter!CountNext, Counter!Begin
<1>3. ASSUME NEW s \in Scans, Commit(s) PROVE Counter!CountNext
  <2>1. PICK l \in Lines : scan[s].line = l
    BY <1>3, CommitScan DEF EarnedInv, Transaction
  <2>2. /\ s \in Active /\ scan[s].step = "written"
        /\ count' = [count EXCEPT ![l] = scan[s].value]
        /\ overlap' = IF overlap = "over" THEN "none" ELSE overlap
        /\ status' = (IF scan[s].all THEN "complete" ELSE "in_progress")
    BY <1>3, <2>1, CommitScan DEF EarnedInv, Commit
  <2>3. (overlap' = "now") = (overlap = "now") /\ status # "absent"
    BY <2>2 DEF CountedInv, SoloInv
  <2>4. CASE overlap = "now"
    <3>1. scan[s].value \in 1..Required[l]
      BY <2>1, <2>2 DEF EarnedInv, WritesAreEarned, Earned
    <3>2. Counter!Disturb(l)
      BY <2>2, <2>3, <2>4, <3>1 DEF Counter!Disturb
    <3> QED BY <3>2 DEF Counter!CountNext
  <2>5. CASE overlap # "now"
    <3>1. /\ scan[s].value = nextScannedQuantity(count[l], Required[l])
          /\ scan[s].all = isTaskComplete([count EXCEPT ![l] = scan[s].value], l)
      BY <2>1, <2>2, <2>5 DEF CountedInv, SoloInv, Solo
    <3>2. count' = Counter!Counted(count, l)
      BY <2>2, <3>1 DEF nextScannedQuantity, Counter!Counted
    <3>3. scan[s].all = Counter!Complete(count')
      BY <2>2, <3>1 DEF isTaskComplete, Counter!Complete
    <3>4. Counter!Count(l)
      BY <2>2, <2>3, <2>5, <3>2, <3>3 DEF Counter!Count
    <3> QED BY <3>4 DEF Counter!CountNext
  <2> QED BY <2>4, <2>5
<1>4. ASSUME NEW s \in Scans, Write(s) \/ Rollback(s) PROVE UNCHANGED <<status, count, overlap = "now">>
  BY <1>4 DEF Write, Rollback
<1> QED BY <1>1, <1>2, <1>3, <1>4 DEF ScanNext, ScanStep, scanVars

(***************************************************************************)
(* With any number of scanners a task does what ScanCount says: a scan     *)
(* that no other disturbs counts one unit and sets the status; one that    *)
(* is disturbed leaves the other lines alone.                              *)
(***************************************************************************)
THEOREM ImplementsCount == ScanSpec => CounterSpec
<1>1. EarnedInv /\ CountedInv /\ [ScanNext]_scanVars => EarnedInv' /\ CountedInv'
  <2> SUFFICES ASSUME EarnedInv, CountedInv, [ScanNext]_scanVars PROVE EarnedInv' /\ CountedInv'
    OBVIOUS
  <2>1. CountedInv'
    BY CountedStep
  <2> QED BY <2>1, EarnedStep DEF CountedInv
<1> QED BY <1>1, EarnedInit, CountedInit, CountInit, CountStep, PTL
        DEF ScanSpec, CounterSpec, Counter!CountSpec
=============================================================================
