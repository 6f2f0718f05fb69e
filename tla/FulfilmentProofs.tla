-------------------------- MODULE FulfilmentProofs --------------------------
(***************************************************************************)
(* Proofs about Fulfilment, for any order, requests, payments and updates  *)
(* of the delivery and any number of scanners: its type, that one payment  *)
(* settles the order, that the delivery's events are its history, the      *)
(* gates, and what ScanTaskProofs shows of a task alone, of both tasks     *)
(* together.                                                               *)
(*                                                                         *)
(* The theorems of ScanTaskProofs are used of either task by               *)
(* instantiating that module as PickPack instantiates ScanTask.  To the    *)
(* prover the two instances are different operators, so the first lemmas   *)
(* say that Picks (Packs) means what Pick (Pack) does.                     *)
(***************************************************************************)
EXTENDS Fulfilment, SumTheorems

Picks == INSTANCE ScanTaskProofs WITH
            status <- pickStatus, count <- picked, startedAt <- pickStarted,
            completedAt <- pickCompleted, scan <- pickScan,
            round <- pickRound, overlap <- pickOverlap
Packs == INSTANCE ScanTaskProofs WITH
            Scans <- PackScans, Scanned <- [s \in PackScans |-> Scanned[s]],
            status <- packStatus, count <- packed, startedAt <- packStarted,
            completedAt <- packCompleted, scan <- packScan,
            round <- packRound, overlap <- packOverlap

\* the assumptions of ScanTask hold of either task
LEMMA PickAssumptions == Picks!IsFiniteSet(Lines) /\ Picks!IsFiniteSet(Scans)
<1>1. \A S : IsFiniteSet(S) <=> Picks!IsFiniteSet(S)
  BY DEF IsFiniteSet, Picks!IsFiniteSet
<1> QED BY <1>1, LinesAssumption

LEMMA PackAssumptions ==
    /\ Packs!IsFiniteSet(Lines) /\ Packs!IsFiniteSet(PackScans)
    /\ NotSet \notin PackScans
    /\ [s \in PackScans |-> Scanned[s]] \in [PackScans -> Skus]
<1>1. \A S : IsFiniteSet(S) <=> Packs!IsFiniteSet(S)
  BY DEF IsFiniteSet, Packs!IsFiniteSet
<1>2. IsFiniteSet(PackScans)
  BY LinesAssumption, PackAssumption, FS_Subset
<1> QED BY <1>1, <1>2, LinesAssumption, PackAssumption, ScansAssumption

LEMMA PickMeaning ==
    /\ Pick!ScanTypeOK <=> Picks!ScanTypeOK
    /\ Pick!ScanInit <=> Picks!ScanInit
    /\ Pick!Create <=> Picks!Create
    /\ Pick!ScanStep <=> Picks!ScanStep
    /\ Pick!ScannedIsCounted <=> Picks!ScannedIsCounted
    /\ Pick!ScanTypeOK' <=> Picks!ScanTypeOK'
    /\ \A l : Pick!DoneOn(l) = Picks!DoneOn(l) /\ Pick!DoneOn(l)' = Picks!DoneOn(l)'
<1>1. \A S : Pick!Cardinality(S) = Picks!Cardinality(S)
  BY DEF Pick!Cardinality, Picks!Cardinality
<1>2. /\ Pick!ScanTypeOK <=> Picks!ScanTypeOK
      /\ Pick!ScanInit <=> Picks!ScanInit
      /\ Pick!Create <=> Picks!Create
      /\ Pick!ScanTypeOK' <=> Picks!ScanTypeOK'
  BY DEF Pick!ScanTypeOK, Picks!ScanTypeOK, Pick!ScanInit, Picks!ScanInit, Pick!Create, Picks!Create,
         Pick!TaskStatus, Picks!TaskStatus, Pick!Stamp, Picks!Stamp,
         Pick!NoTransaction, Picks!NoTransaction, Pick!Ended, Picks!Ended, Pick!Transaction, Picks!Transaction
<1>3. Pick!ScanStep <=> Picks!ScanStep
  BY <1>1 DEF Pick!ScanStep, Picks!ScanStep, Pick!Read, Picks!Read, Pick!Write, Picks!Write,
         Pick!Commit, Picks!Commit, Pick!Rollback, Picks!Rollback, Pick!Active, Picks!Active,
         Pick!LineLocked, Picks!LineLocked, Pick!NoTransaction, Picks!NoTransaction, Pick!InRound, Picks!InRound,
         Pick!nextScannedQuantity, Picks!nextScannedQuantity, Pick!isTaskComplete, Picks!isTaskComplete, Pick!FirstStamp, Picks!FirstStamp
<1>4. Pick!ScannedIsCounted <=> Picks!ScannedIsCounted
  BY DEF Pick!ScannedIsCounted, Picks!ScannedIsCounted, Pick!AllCounted, Picks!AllCounted
<1>5. \A l : Pick!DoneOn(l) = Picks!DoneOn(l) /\ Pick!DoneOn(l)' = Picks!DoneOn(l)'
  BY <1>1 DEF Pick!DoneOn, Picks!DoneOn
<1> QED BY <1>2, <1>3, <1>4, <1>5

LEMMA PickCounterMeaning ==
    /\ Pick!Counter!CountInit <=> Picks!Counter!CountInit
    /\ [Pick!Counter!CountNext]_(Pick!Counter!countVars) <=> [Picks!Counter!CountNext]_(Picks!Counter!countVars)
  BY DEF Pick!Counter!CountInit, Picks!Counter!CountInit, Pick!Counter!CountNext, Picks!Counter!CountNext, Pick!Counter!Start, Picks!Counter!Start,
         Pick!Counter!Begin, Picks!Counter!Begin, Pick!Counter!Disturb, Picks!Counter!Disturb,
         Pick!Counter!Count, Picks!Counter!Count, Pick!Counter!Counted, Picks!Counter!Counted, Pick!Counter!Complete, Picks!Counter!Complete,
         Pick!Counter!countVars, Picks!Counter!countVars

LEMMA PackMeaning ==
    /\ Pack!ScanTypeOK <=> Packs!ScanTypeOK
    /\ Pack!ScanInit <=> Packs!ScanInit
    /\ Pack!Create <=> Packs!Create
    /\ Pack!ScanStep <=> Packs!ScanStep
    /\ Pack!ScannedIsCounted <=> Packs!ScannedIsCounted
    /\ Pack!ScanTypeOK' <=> Packs!ScanTypeOK'
    /\ \A l : Pack!DoneOn(l) = Packs!DoneOn(l) /\ Pack!DoneOn(l)' = Packs!DoneOn(l)'
<1>1. \A S : Pack!Cardinality(S) = Packs!Cardinality(S)
  BY DEF Pack!Cardinality, Packs!Cardinality
<1>2. /\ Pack!ScanTypeOK <=> Packs!ScanTypeOK
      /\ Pack!ScanInit <=> Packs!ScanInit
      /\ Pack!Create <=> Packs!Create
      /\ Pack!ScanTypeOK' <=> Packs!ScanTypeOK'
  BY DEF Pack!ScanTypeOK, Packs!ScanTypeOK, Pack!ScanInit, Packs!ScanInit, Pack!Create, Packs!Create,
         Pack!TaskStatus, Packs!TaskStatus, Pack!Stamp, Packs!Stamp,
         Pack!NoTransaction, Packs!NoTransaction, Pack!Ended, Packs!Ended, Pack!Transaction, Packs!Transaction
<1>3. Pack!ScanStep <=> Packs!ScanStep
  BY <1>1 DEF Pack!ScanStep, Packs!ScanStep, Pack!Read, Packs!Read, Pack!Write, Packs!Write,
         Pack!Commit, Packs!Commit, Pack!Rollback, Packs!Rollback, Pack!Active, Packs!Active,
         Pack!LineLocked, Packs!LineLocked, Pack!NoTransaction, Packs!NoTransaction, Pack!InRound, Packs!InRound,
         Pack!nextScannedQuantity, Packs!nextScannedQuantity, Pack!isTaskComplete, Packs!isTaskComplete, Pack!FirstStamp, Packs!FirstStamp
<1>4. Pack!ScannedIsCounted <=> Packs!ScannedIsCounted
  BY DEF Pack!ScannedIsCounted, Packs!ScannedIsCounted, Pack!AllCounted, Packs!AllCounted
<1>5. \A l : Pack!DoneOn(l) = Packs!DoneOn(l) /\ Pack!DoneOn(l)' = Packs!DoneOn(l)'
  BY <1>1 DEF Pack!DoneOn, Packs!DoneOn
<1> QED BY <1>2, <1>3, <1>4, <1>5

LEMMA PackCounterMeaning ==
    /\ Pack!Counter!CountInit <=> Packs!Counter!CountInit
    /\ [Pack!Counter!CountNext]_(Pack!Counter!countVars) <=> [Packs!Counter!CountNext]_(Packs!Counter!countVars)
  BY DEF Pack!Counter!CountInit, Packs!Counter!CountInit, Pack!Counter!CountNext, Packs!Counter!CountNext, Pack!Counter!Start, Packs!Counter!Start,
         Pack!Counter!Begin, Packs!Counter!Begin, Pack!Counter!Disturb, Packs!Counter!Disturb,
         Pack!Counter!Count, Packs!Counter!Count, Pack!Counter!Counted, Packs!Counter!Counted, Pack!Counter!Complete, Packs!Counter!Complete,
         Pack!Counter!countVars, Packs!Counter!countVars

-----------------------------------------------------------------------------
(***************************************************************************)
(* What a step is to the tasks and to the order.                           *)
(***************************************************************************)
PickStep == [Picks!ScanNext]_(Picks!scanVars)
PackStep == [Packs!ScanNext]_(Packs!scanVars)

LEMMA NextScans == ASSUME Next PROVE PickStep /\ PackStep
<1> USE DEF PickStep, PackStep, Picks!ScanNext, Packs!ScanNext, Picks!scanVars, Packs!scanVars,
            pickVars, packVars
<1>1. CASE CreatePick
  BY <1>1, PickMeaning DEF CreatePick
<1>2. CASE CreatePack
  BY <1>2, PackMeaning DEF CreatePack
<1>3. CASE Pick!ScanStep /\ UNCHANGED <<requestVars, packVars>>
  BY <1>3, PickMeaning
<1>4. CASE Pack!ScanStep /\ UNCHANGED <<requestVars, pickVars>>
  BY <1>4, PackMeaning
<1> QED BY <1>1, <1>2, <1>3, <1>4
        DEF Next, Transition, CheckPick, CheckPack, CheckLabel, CreateLabel, CheckShip, Ship

LEMMA FulfilScans == ASSUME [FulfilNext]_fulfilVars PROVE PickStep /\ PackStep
<1>1. CASE Handle
  BY <1>1, NextScans DEF Handle
<1>2. ASSUME UNCHANGED <<pickVars, packVars>> PROVE PickStep /\ PackStep
  BY <1>2 DEF PickStep, PackStep, Picks!scanVars, Packs!scanVars, pickVars, packVars
<1> QED BY <1>1, <1>2 DEF FulfilNext, CheckPayment, SettleOrder, RecordPartial, CheckDelivery,
                          UpdateDelivery, fulfilVars, vars

\* the requests of PickPack move the order along its graph
LEMMA NextOrder == ASSUME Next PROVE order' = order \/ canTransition(order, order')
<1>1. ASSUME Ship PROVE order' = order \/ canTransition(order, order')
  BY <1>1 DEF Ship
<1> QED BY <1>1 DEF Next, Transition, CheckPick, CreatePick, CheckPack, CreatePack, CheckLabel,
                    CreateLabel, CheckShip, requestVars

LEMMA NextTypes ==
  ASSUME TypeOK, Next
  PROVE  /\ order' \in {"pending", "paid", "fulfilling", "fulfilled", "cancelled"}
         /\ ship' \in {"idle", "unpacked", "packed"}
         /\ starts' \subseteq {"pick", "pack"}
         /\ label' \in {"none", "checked", "made"}
<1> USE DEF TypeOK
<1>1. order' \in {"pending", "paid", "fulfilling", "fulfilled", "cancelled"}
  BY NextOrder DEF canTransition
<1>2. CASE Ship
  BY <1>1, <1>2 DEF Ship
<1>3. CASE Pick!ScanStep /\ UNCHANGED <<requestVars, packVars>>
  BY <1>3 DEF requestVars
<1>4. CASE Pack!ScanStep /\ UNCHANGED <<requestVars, pickVars>>
  BY <1>4 DEF requestVars
<1> QED BY <1>1, <1>2, <1>3, <1>4
        DEF Next, Transition, CheckPick, CreatePick, CheckPack, CreatePack, CheckLabel, CreateLabel,
            CheckShip

LEMMA ScanTypes ==
  ASSUME TypeOK, [FulfilNext]_fulfilVars
  PROVE  Pick!ScanTypeOK' /\ Pack!ScanTypeOK'
<1>1. Picks!ScanTypeOK /\ Packs!ScanTypeOK /\ PickStep /\ PackStep
  BY PickMeaning, PackMeaning, FulfilScans DEF TypeOK
<1>2. Picks!ScanTypeOK' /\ Packs!ScanTypeOK'
  BY <1>1, Picks!ScanTypeStep, Packs!ScanTypeStep, PickAssumptions, PackAssumptions,
     LinesAssumption, ScansAssumption DEF PickStep, PackStep
<1> QED BY <1>2, PickMeaning, PackMeaning

LEMMA FulfilTypeInit == FulfilInit => FulfilTypeOK
<1> SUFFICES ASSUME FulfilInit PROVE FulfilTypeOK
  OBVIOUS
<1>1. Pick!ScanTypeOK /\ Pack!ScanTypeOK
  BY PickMeaning, PackMeaning, Picks!ScanTypeInit, Packs!ScanTypeInit, PickAssumptions,
     PackAssumptions, LinesAssumption, ScansAssumption DEF FulfilInit, Init
<1>2. TypeOK
  BY <1>1 DEF TypeOK, FulfilInit, Init
<1> QED BY <1>2, FulfilAssumption DEF FulfilInit, FulfilTypeOK, NewPayment, DeliveryStatus

PaymentRow == [step : {"new", "checked", "refused", "completed"}, amount : Amounts \cup {0}, full : BOOLEAN]

LEMMA FulfilTypeStep == FulfilTypeOK /\ [FulfilNext]_fulfilVars => FulfilTypeOK'
<1> SUFFICES ASSUME FulfilTypeOK, [FulfilNext]_fulfilVars PROVE FulfilTypeOK'
  OBVIOUS
<1> USE FulfilAssumption DEF FulfilTypeOK
<1>1. Pick!ScanTypeOK' /\ Pack!ScanTypeOK'
  BY ScanTypes
<1>2. CASE Handle
  <2>1. TypeOK'
    BY <1>1, <1>2, NextTypes DEF Handle, TypeOK
  <2>2. /\ delivery' \in DeliveryStatus \cup {"none"}
        /\ trace' \in Seq(DeliveryStatus) /\ Len(trace') <= MaxTrace
    <3>1. CASE delivery' = "assigned" /\ trace' = <<"assigned">>
      <4>1. <<"assigned">> \in Seq(DeliveryStatus) /\ Len(<<"assigned">>) = 1
        BY DEF DeliveryStatus
      <4> QED BY <3>1, <4>1 DEF DeliveryStatus
    <3>2. CASE UNCHANGED <<delivery, trace>>
      BY <3>2
    <3> QED BY <1>2, <3>1, <3>2 DEF Handle, OpenDelivery
  <2> QED BY <1>2, <2>1, <2>2 DEF Handle
<1>3. ASSUME NEW p \in Payments, NEW amount \in Amounts, CheckPayment(p, amount) PROVE FulfilTypeOK'
  BY <1>1, <1>3 DEF CheckPayment, TypeOK, vars, requestVars, deliveryVars, isFullyPaid
<1>4. ASSUME NEW p \in Payments, SettleOrder(p) PROVE FulfilTypeOK'
  <2>1. TypeOK'
    BY <1>1, <1>4 DEF SettleOrder, TypeOK
  <2>2. payment' = [payment EXCEPT ![p].step = "completed"] \/ payment' = [payment EXCEPT ![p] = Refused]
    BY <1>4 DEF SettleOrder
  <2>3. payment' \in [Payments -> PaymentRow]
    <3>1. payment \in [Payments -> PaymentRow] /\ Refused \in PaymentRow
      BY DEF PaymentRow, Refused, NewPayment
    <3>2. [payment[p] EXCEPT !.step = "completed"] \in PaymentRow
      BY <3>1 DEF PaymentRow
    <3> QED BY <2>2, <3>1, <3>2
  <2>4. left' \in Payments \cup {Staff, NotLeft}
    BY <1>4 DEF SettleOrder
  <2> QED BY <1>4, <2>1, <2>3, <2>4 DEF SettleOrder, deliveryVars, PaymentRow
<1>5. ASSUME NEW p \in Payments, RecordPartial(p) PROVE FulfilTypeOK'
  BY <1>1, <1>5 DEF RecordPartial, TypeOK, vars, requestVars, deliveryVars
<1>6. ASSUME NEW d \in Dispatchers, NEW to \in DeliveryStatus, CheckDelivery(d, to) PROVE FulfilTypeOK'
  BY <1>1, <1>6 DEF CheckDelivery, TypeOK, vars, requestVars, moneyVars
<1>7. ASSUME NEW d \in Dispatchers, UpdateDelivery(d) PROVE FulfilTypeOK'
  <2>1. errand[d] \in DeliveryStatus
    BY <1>7 DEF UpdateDelivery
  <2> QED BY <1>1, <1>7, <2>1 DEF UpdateDelivery, TypeOK, vars, requestVars, moneyVars
<1>8. CASE UNCHANGED fulfilVars
  BY <1>1, <1>8 DEF fulfilVars, TypeOK, vars, requestVars, moneyVars, deliveryVars
<1> QED BY <1>2, <1>3, <1>4, <1>5, <1>6, <1>7, <1>8 DEF FulfilNext

(***************************************************************************)
(* Every variable keeps its type, with any number of scanners, payments    *)
(* and dispatchers.                                                        *)
(***************************************************************************)
THEOREM FulfilTypeCorrect == FulfilSpec => []FulfilTypeOK
  BY FulfilTypeInit, FulfilTypeStep, PTL DEF FulfilSpec

-----------------------------------------------------------------------------
(***************************************************************************)
(* Payments.  A payment that was found to settle the order still would     *)
(* when it commits: what was paid then is never taken back.  The order is  *)
(* pending exactly while nothing has moved it.                             *)
(***************************************************************************)
StillSettles ==
    \A p \in Payments : payment[p].step = "checked" /\ payment[p].full => isFullyPaid(payment[p].amount)

LeftPending == order = "pending" <=> left = NotLeft

MoneyInv == FulfilTypeOK /\ StillSettles /\ LeftPending /\ SettledOnce

AmountOf == [p \in Payments |-> payment[p].amount]

LEMMA RowAmount == \A row \in PaymentRow : row.amount \in Nat
<1>1. Amounts \cup {0} \subseteq Nat
  BY FulfilAssumption
<1>2. \A row \in PaymentRow : row.amount \in Amounts \cup {0}
  BY DEF PaymentRow
<1> QED BY <1>1, <1>2

LEMMA AmountType == ASSUME FulfilTypeOK PROVE AmountOf \in [Payments -> Int] /\ \A p \in Payments : AmountOf[p] \in Nat
<1>1. \A p \in Payments : payment[p] \in PaymentRow
  BY DEF FulfilTypeOK, PaymentRow
<1>2. \A p \in Payments : payment[p].amount \in Nat
  BY <1>1, RowAmount
<1> QED BY <1>2 DEF AmountOf

LEMMA PaidType == ASSUME FulfilTypeOK PROVE Paid \in Int /\ Paid = PartSum(AmountOf, Completed)
<1>1. Paid = PartSum(AmountOf, Completed)
  BY DEF Paid, PartSum, AmountOf
<1>2. Completed \in SUBSET Payments
  BY DEF Completed
<1> QED BY <1>1, <1>2, AmountType, FulfilAssumption, PartSumSame

\* requests in progress do not count
LEMMA PaidSame ==
  ASSUME FulfilTypeOK, FulfilTypeOK', Completed' = Completed,
         \A p \in Completed : payment'[p].amount = payment[p].amount
  PROVE  Paid' = Paid
<1> DEFINE u == AmountOf
           v == AmountOf'
<1>1. u \in [Payments -> Int] /\ v \in [Payments -> Int]
  <2>1. \A p \in Payments : payment'[p] \in PaymentRow
    BY DEF FulfilTypeOK, PaymentRow
  <2>2. \A p \in Payments : payment'[p].amount \in Nat
    BY <2>1, RowAmount
  <2> QED BY <2>2, AmountType DEF AmountOf
<1>2. Completed \in SUBSET Payments /\ \A p \in Completed : v[p] = u[p]
  BY DEF Completed, AmountOf
<1>3. Paid' = PartSum(v, Completed)
  BY DEF Paid, PartSum, AmountOf, FoldFunctionOnSet, MapThenFoldSet
<1> HIDE DEF u, v
<1>4. PartSum(v, Completed) = PartSum(u, Completed)
  BY <1>1, <1>2, FulfilAssumption, PartSumSame
<1> QED BY <1>3, <1>4, PaidType DEF u

LEMMA PaidMore ==
  ASSUME FulfilTypeOK, NEW p \in Payments, p \notin Completed,
         payment' = [payment EXCEPT ![p].step = "completed"]
  PROVE  /\ Completed' = Completed \cup {p}
         /\ Paid' = Paid + payment[p].amount
<1>1. AmountOf' = AmountOf
  BY DEF FulfilTypeOK, AmountOf
<1>2. Completed' = Completed \cup {p}
  BY DEF FulfilTypeOK, Completed
<1>3. Paid' = PartSum(AmountOf, Completed \cup {p})
  <2>1. Paid' = PartSum(AmountOf', Completed')
    BY DEF Paid, PartSum, AmountOf, FoldFunctionOnSet, MapThenFoldSet
  <2> QED BY <1>1, <1>2, <2>1
<1>4. PartSum(AmountOf, Completed \cup {p}) = PartSum(AmountOf, Completed) + AmountOf[p]
  <2>1. Completed \in SUBSET Payments /\ p \in Payments \ Completed
    BY DEF Completed
  <2> QED BY <2>1, AmountType, FulfilAssumption, PartSumAdd
<1>5. AmountOf[p] = payment[p].amount
  BY DEF AmountOf
<1> QED BY <1>2, <1>3, <1>4, <1>5, PaidType

LEMMA MoneyInit == FulfilInit => MoneyInv
<1> SUFFICES ASSUME FulfilInit PROVE MoneyInv
  OBVIOUS
<1> QED BY FulfilTypeInit, FulfilAssumption
        DEF FulfilInit, Init, MoneyInv, StillSettles, LeftPending, SettledOnce, Completed, NewPayment

\* a step that completes no payment and moves the order, if at all, as staff does
LEMMA QuietMoney ==
  ASSUME MoneyInv, FulfilTypeOK', UNCHANGED payment,
         order # "pending" => order' # "pending",
         left' = IF order = "pending" /\ order' # "pending" THEN Staff ELSE left
  PROVE  MoneyInv'
<1> USE DEF MoneyInv
<1>1. Completed' = Completed /\ Paid' = Paid
  <2>1. Completed' = Completed
    BY DEF Completed
  <2> QED BY <2>1, PaidSame
<1>2. StillSettles'
  BY <1>1 DEF StillSettles, isFullyPaid
<1>3. LeftPending'
  BY FulfilAssumption DEF LeftPending
<1>4. SettledOnce'
  BY <1>1, FulfilAssumption DEF SettledOnce, LeftPending
<1> QED BY <1>2, <1>3, <1>4

LEMMA CheckMoney ==
  ASSUME MoneyInv, FulfilTypeOK', NEW p \in Payments, NEW amount \in Amounts, CheckPayment(p, amount)
  PROVE  MoneyInv'
<1> USE DEF MoneyInv
<1>1. payment[p].step = "new" /\ order = "pending" /\ order' = order /\ left' = left
  BY DEF CheckPayment, NewPayment, vars, requestVars
<1>2. /\ payment'[p].step = "checked" /\ payment'[p].amount = amount
      /\ payment'[p].full = isFullyPaid(amount)
      /\ \A q \in Payments \ {p} : payment'[q] = payment[q]
  BY DEF CheckPayment, FulfilTypeOK
<1>3. Completed' = Completed
  BY <1>1, <1>2 DEF Completed
<1>4. Paid' = Paid
  BY <1>1, <1>2, <1>3, PaidSame DEF Completed
<1>5. StillSettles'
  BY <1>2, <1>4 DEF StillSettles, isFullyPaid
<1>6. SettledOnce'
  BY <1>1, <1>2, <1>3, <1>4 DEF SettledOnce, Completed
<1> QED BY <1>1, <1>5, <1>6 DEF LeftPending

LEMMA SettleMoney ==
  ASSUME MoneyInv, FulfilTypeOK', NEW p \in Payments, SettleOrder(p)
  PROVE  MoneyInv'
<1> USE DEF MoneyInv
<1>1. payment[p].step = "checked" /\ payment[p].full /\ p \notin Completed
  BY DEF SettleOrder, Completed
<1>2. CASE StillPending
  <2>1. /\ order = "pending" /\ order' = "paid" /\ left = NotLeft /\ left' = p
        /\ payment' = [payment EXCEPT ![p].step = "completed"]
    BY <1>2 DEF SettleOrder, StillPending, LeftPending
  <2>2. /\ payment'[p].step = "completed" /\ payment'[p].full
        /\ \A q \in Payments \ {p} : payment'[q] = payment[q]
    BY <1>1, <2>1 DEF FulfilTypeOK
  <2>3. Completed' = Completed \cup {p} /\ Paid' = Paid + payment[p].amount
    BY <1>1, <2>1, PaidMore
  <2>4. Paid \in Int /\ Total \in Nat /\ payment[p] \in PaymentRow
    BY PaidType, FulfilAssumption DEF FulfilTypeOK, PaymentRow
  <2>5. payment[p].amount \in Nat
    BY <2>4, RowAmount
  <2>6. Paid' >= Paid /\ Paid' >= Total
    BY <1>1, <2>3, <2>4, <2>5 DEF StillSettles, isFullyPaid
  <2>7. StillSettles'
    <3> SUFFICES ASSUME NEW q \in Payments, payment'[q].step = "checked", payment'[q].full
                 PROVE  Paid' + payment'[q].amount >= Total
      BY DEF StillSettles, isFullyPaid
    <3>1. q # p /\ payment'[q] = payment[q]
      BY <2>2
    <3>2. Paid + payment[q].amount >= Total
      BY <3>1 DEF StillSettles, isFullyPaid
    <3>3. payment[q].amount \in Nat
      BY RowAmount DEF FulfilTypeOK, PaymentRow
    <3> QED BY <2>3, <2>4, <2>5, <3>1, <3>2, <3>3
  <2>8. LeftPending'
    BY <2>1, FulfilAssumption DEF LeftPending
  <2>9. SettledOnce'
    <3> SUFFICES ASSUME NEW q \in Payments
                 PROVE  /\ q \in Completed' /\ payment'[q].full <=> q = p
                        /\ q = p => Paid' >= Total /\ order' # "pending"
      BY <2>1 DEF SettledOnce
    <3>1. q # p => ~ (q \in Completed /\ payment[q].full)
      BY <2>1, FulfilAssumption DEF SettledOnce
    <3> QED BY <2>1, <2>2, <2>3, <2>6, <3>1
  <2> QED BY <2>7, <2>8, <2>9
<1>3. CASE ~ StillPending
  <2>1. payment' = [payment EXCEPT ![p] = Refused] /\ UNCHANGED <<order, left>>
    BY <1>3 DEF SettleOrder
  <2>2. /\ payment'[p].step = "refused"
        /\ \A q \in Payments \ {p} : payment'[q] = payment[q]
    BY <2>1 DEF FulfilTypeOK, Refused, NewPayment
  <2>3. Completed' = Completed
    BY <1>1, <2>2 DEF Completed
  <2>4. Paid' = Paid
    BY <1>1, <2>2, <2>3, PaidSame DEF Completed
  <2>5. StillSettles'
    BY <2>2, <2>4 DEF StillSettles, isFullyPaid
  <2>6. SettledOnce'
    BY <1>1, <2>1, <2>2, <2>3, <2>4 DEF SettledOnce, Completed
  <2> QED BY <2>1, <2>5, <2>6 DEF LeftPending
<1> QED BY <1>2, <1>3

LEMMA PartialMoney ==
  ASSUME MoneyInv, FulfilTypeOK', NEW p \in Payments, RecordPartial(p)
  PROVE  MoneyInv'
<1> USE DEF MoneyInv
<1>1. /\ payment[p].step = "checked" /\ ~ payment[p].full /\ p \notin Completed
      /\ payment' = [payment EXCEPT ![p].step = "completed"]
      /\ UNCHANGED <<order, left>>
  BY DEF RecordPartial, Completed, vars, requestVars
<1>2. /\ payment'[p].step = "completed" /\ ~ payment'[p].full
      /\ \A q \in Payments \ {p} : payment'[q] = payment[q]
  BY <1>1 DEF FulfilTypeOK
<1>3. Completed' = Completed \cup {p} /\ Paid' = Paid + payment[p].amount
  BY <1>1, PaidMore
<1>4. Paid \in Int /\ Total \in Nat /\ \A q \in Payments : payment[q].amount \in Nat
  BY PaidType, FulfilAssumption, RowAmount DEF FulfilTypeOK, PaymentRow
<1>5. StillSettles'
  <2> SUFFICES ASSUME NEW q \in Payments, payment'[q].step = "checked", payment'[q].full
               PROVE  Paid' + payment'[q].amount >= Total
    BY DEF StillSettles, isFullyPaid
  <2>1. q # p /\ payment'[q] = payment[q]
    BY <1>2
  <2>2. Paid + payment[q].amount >= Total
    BY <2>1 DEF StillSettles, isFullyPaid
  <2> QED BY <1>3, <1>4, <2>1, <2>2
<1>6. SettledOnce'
  <2> SUFFICES ASSUME NEW q \in Payments
               PROVE  /\ q \in Completed' /\ payment'[q].full <=> left = q
                      /\ left = q => Paid' >= Total /\ order # "pending"
    BY <1>1 DEF SettledOnce
  <2>1. /\ q \in Completed /\ payment[q].full <=> left = q
        /\ left = q => Paid >= Total /\ order # "pending"
    BY DEF SettledOnce
  <2>2. left # p
    BY <1>1 DEF SettledOnce
  <2> QED BY <1>2, <1>3, <1>4, <2>1, <2>2
<1> QED BY <1>1, <1>5, <1>6 DEF LeftPending

LEMMA MoneyStep == MoneyInv /\ [FulfilNext]_fulfilVars => MoneyInv'
<1> SUFFICES ASSUME MoneyInv, [FulfilNext]_fulfilVars PROVE MoneyInv'
  OBVIOUS
<1>1. FulfilTypeOK'
  BY FulfilTypeStep DEF MoneyInv
<1>2. CASE Handle
  <2>1. order # "pending" => order' # "pending"
    BY <1>2, NextOrder DEF Handle, canTransition
  <2> QED BY <1>1, <1>2, <2>1, QuietMoney DEF Handle
<1>3. ASSUME UNCHANGED <<payment, left, order>> PROVE MoneyInv'
  BY <1>1, <1>3, QuietMoney
<1>4. ASSUME NEW d \in Dispatchers, (\E to \in DeliveryStatus : CheckDelivery(d, to)) \/ UpdateDelivery(d)
      PROVE  UNCHANGED <<payment, left, order>>
  BY <1>4 DEF CheckDelivery, UpdateDelivery, moneyVars, vars, requestVars
<1>5. CASE UNCHANGED fulfilVars
  BY <1>3, <1>5 DEF fulfilVars, moneyVars, vars, requestVars
<1> QED BY <1>1, <1>2, <1>3, <1>4, <1>5, CheckMoney, SettleMoney, PartialMoney DEF FulfilNext

(***************************************************************************)
(* However many payments overlap, with each other and with staff who move  *)
(* the order, the one that moved it to paid is the only one recorded that  *)
(* was to settle it, and the order is covered.                             *)
(***************************************************************************)
THEOREM OneSettles == FulfilSpec => []SettledOnce
<1>1. MoneyInv => SettledOnce
  BY DEF MoneyInv
<1> QED BY <1>1, MoneyInit, MoneyStep, PTL DEF FulfilSpec

-----------------------------------------------------------------------------
(***************************************************************************)
(* The delivery.  A status that an update has allowed follows from one of  *)
(* the events: they are never taken back.                                  *)
(***************************************************************************)
ErrandsFollow ==
    \A d \in Dispatchers :
        errand[d] # "none" => \E j \in 1..Len(trace) : canTransitionDelivery(trace[j], errand[d])

DeliveryInv == FulfilTypeOK /\ DeliveryIsTraced /\ ErrandsFollow

LEMMA DeliveryInit == FulfilInit => DeliveryInv
<1> SUFFICES ASSUME FulfilInit PROVE DeliveryInv
  OBVIOUS
<1> QED BY FulfilTypeInit DEF FulfilInit, Init, DeliveryInv, DeliveryIsTraced, ErrandsFollow

LEMMA DeliveryStep == DeliveryInv /\ [FulfilNext]_fulfilVars => DeliveryInv'
<1> SUFFICES ASSUME DeliveryInv, [FulfilNext]_fulfilVars PROVE DeliveryInv'
  OBVIOUS
<1> USE DEF DeliveryInv
<1>1. FulfilTypeOK'
  BY FulfilTypeStep
<1>2. /\ trace \in Seq(DeliveryStatus) /\ delivery \in DeliveryStatus \cup {"none"}
      /\ errand \in [Dispatchers -> DeliveryStatus \cup {"none"}]
      /\ Len(trace) \in Nat /\ \A i \in 1..Len(trace) : trace[i] \in DeliveryStatus
  BY DEF FulfilTypeOK
<1>3. delivery = "none" <=> trace = <<>>
  BY <1>2 DEF DeliveryIsTraced, DeliveryStatus
<1>4. ASSUME UNCHANGED deliveryVars, order' = "fulfilled" <=> order = "fulfilled" PROVE DeliveryInv'
  BY <1>1, <1>4 DEF deliveryVars, DeliveryIsTraced, ErrandsFollow
<1>5. CASE Handle
  <2>1. order = "fulfilled" => order' = "fulfilled"
    BY <1>5, NextOrder DEF Handle, canTransition
  <2>2. CASE order' = "fulfilled" /\ delivery = "none"
    <3>1. delivery' = "assigned" /\ trace' = <<"assigned">> /\ errand' = errand /\ trace = <<>>
      BY <1>3, <1>5, <2>2 DEF Handle, OpenDelivery
    <3>2. DeliveryIsTraced'
      BY <2>2, <3>1 DEF DeliveryIsTraced
    <3>3. ErrandsFollow'
      BY <3>1 DEF ErrandsFollow
    <3> QED BY <1>1, <3>2, <3>3
  <2>3. CASE ~ (order' = "fulfilled" /\ delivery = "none")
    <3>1. UNCHANGED deliveryVars
      <4>1. UNCHANGED <<delivery, trace>>
        BY <1>5, <2>3 DEF Handle, OpenDelivery
      <4>2. errand' = errand
        BY <1>5 DEF Handle
      <4> QED BY <4>1, <4>2 DEF deliveryVars
    <3>2. order' = "fulfilled" => order = "fulfilled"
      BY <1>3, <2>3 DEF DeliveryIsTraced
    <3> QED BY <1>4, <2>1, <3>1, <3>2
  <2> QED BY <2>2, <2>3
<1>6. ASSUME NEW p \in Payments,
             (\E amount \in Amounts : CheckPayment(p, amount)) \/ SettleOrder(p) \/ RecordPartial(p)
      PROVE  DeliveryInv'
  <2>1. UNCHANGED deliveryVars
    BY <1>6 DEF CheckPayment, SettleOrder, RecordPartial
  <2>2. CASE SettleOrder(p)
    BY <1>4, <2>1, <2>2 DEF SettleOrder, StillPending
  <2>3. CASE (\E amount \in Amounts : CheckPayment(p, amount)) \/ RecordPartial(p)
    BY <1>4, <2>1, <2>3 DEF CheckPayment, RecordPartial, vars, requestVars
  <2> QED BY <1>6, <2>2, <2>3
<1>7. ASSUME NEW d \in Dispatchers, NEW to \in DeliveryStatus, CheckDelivery(d, to) PROVE DeliveryInv'
  <2>1. UNCHANGED <<order, delivery, trace>> /\ errand' = [errand EXCEPT ![d] = to]
    BY <1>7 DEF CheckDelivery, vars, requestVars
  <2>2. trace # <<>> /\ Len(trace) \in 1..Len(trace) /\ canTransitionDelivery(trace[Len(trace)], to)
    BY <1>2, <1>3, <1>7 DEF CheckDelivery, MayMove, DeliveryIsTraced
  <2>3. ErrandsFollow'
    BY <1>2, <2>1, <2>2 DEF ErrandsFollow
  <2>4. DeliveryIsTraced'
    BY <2>1 DEF DeliveryIsTraced
  <2> QED BY <1>1, <2>3, <2>4
<1>8. ASSUME NEW d \in Dispatchers, UpdateDelivery(d) PROVE DeliveryInv'
  <2> DEFINE n == Len(trace)
             e == errand[d]
  <2>1. /\ e # "none" /\ e \in DeliveryStatus /\ delivery' = e /\ trace' = Append(trace, e)
        /\ errand' = [errand EXCEPT ![d] = "none"] /\ order' = order
    BY <1>2, <1>8 DEF UpdateDelivery, vars, requestVars
  <2>2. PICK j \in 1..n : canTransitionDelivery(trace[j], e)
    BY <2>1 DEF ErrandsFollow
  <2>3. /\ Len(trace') = n + 1 /\ trace'[n + 1] = e /\ trace' # <<>>
        /\ \A i \in 1..n : trace'[i] = trace[i]
    BY <1>2, <2>1
  <2> HIDE DEF n, e
  <2>4. \A i \in 2..(n + 1) : \E k \in 1..i - 1 : canTransitionDelivery(trace'[k], trace'[i])
    <3> SUFFICES ASSUME NEW i \in 2..(n + 1)
                 PROVE  \E k \in 1..i - 1 : canTransitionDelivery(trace'[k], trace'[i])
      OBVIOUS
    <3>1. CASE i = n + 1
      <4>1. j \in 1..i - 1 /\ trace'[j] = trace[j] /\ trace'[i] = e
        BY <1>2, <2>2, <2>3, <3>1 DEF n
      <4> QED BY <2>2, <4>1
    <3>2. CASE i # n + 1
      <4>1. i \in 2..n
        BY <1>2, <3>2 DEF n
      <4>2. PICK k \in 1..i - 1 : canTransitionDelivery(trace[k], trace[i])
        BY <4>1 DEF DeliveryIsTraced, n
      <4>3. trace'[k] = trace[k] /\ trace'[i] = trace[i]
        BY <1>2, <2>3, <4>1, <4>2 DEF n
      <4> QED BY <4>2, <4>3
    <3> QED BY <3>1, <3>2
  <2>5. order = "fulfilled"
    BY <1>2, <2>2 DEF DeliveryIsTraced, n
  <2>6. DeliveryIsTraced'
    BY <2>1, <2>3, <2>4, <2>5 DEF DeliveryIsTraced
  <2>7. ErrandsFollow'
    <3> SUFFICES ASSUME NEW c \in Dispatchers, errand'[c] # "none"
                 PROVE  \E k \in 1..Len(trace') : canTransitionDelivery(trace'[k], errand'[c])
      BY DEF ErrandsFollow
    <3>1. errand'[c] = errand[c]
      BY <1>2, <2>1
    <3>2. PICK k \in 1..n : canTransitionDelivery(trace[k], errand[c])
      BY <3>1 DEF ErrandsFollow, n
    <3>3. k \in 1..Len(trace') /\ trace'[k] = trace[k]
      BY <1>2, <2>3 DEF n
    <3> QED BY <3>1, <3>2, <3>3
  <2> QED BY <1>1, <2>6, <2>7
<1>9. CASE UNCHANGED fulfilVars
  BY <1>4, <1>9 DEF fulfilVars, vars, requestVars
<1> QED BY <1>5, <1>6, <1>7, <1>8, <1>9 DEF FulfilNext

(***************************************************************************)
(* However many updates of the delivery overlap, it exists exactly when    *)
(* the order is fulfilled, its status is the last event, and each event    *)
(* follows from an earlier one.                                            *)
(***************************************************************************)
THEOREM EventsAreTheDelivery == FulfilSpec => []DeliveryIsTraced
<1>1. DeliveryInv => DeliveryIsTraced
  BY DEF DeliveryInv
<1> QED BY <1>1, DeliveryInit, DeliveryStep, PTL DEF FulfilSpec

-----------------------------------------------------------------------------
(***************************************************************************)
(* The tasks.  Each keeps the invariants of ScanTaskProofs.  The gates     *)
(* look at the status of a task, which scans that overlap may write to and *)
(* fro; but it is complete only once every unit was scanned, and a unit    *)
(* that was scanned stays so: what a request found when it looked still    *)
(* holds when it writes.                                                   *)
(***************************************************************************)
PickInv == Picks!EarnedInv /\ Picks!CountedInv
PackInv == Packs!EarnedInv /\ Packs!CountedInv

TasksInv == TypeOK /\ PickInv /\ PackInv

Gates ==
    /\ "pack" \in starts \/ packStatus # "absent" => Picked
    /\ label # "none" \/ ship = "packed" => Picked /\ Packed

LEMMA TasksInit == FulfilInit => TasksInv
<1> SUFFICES ASSUME FulfilInit PROVE TasksInv
  OBVIOUS
<1>1. Picks!ScanInit /\ Packs!ScanInit
  BY PickMeaning, PackMeaning DEF FulfilInit, Init
<1>2. PickInv
  BY <1>1, Picks!EarnedInit, Picks!CountedInit, PickAssumptions, LinesAssumption, ScansAssumption
     DEF PickInv
<1>3. PackInv
  BY <1>1, Packs!EarnedInit, Packs!CountedInit, PackAssumptions, LinesAssumption, ScansAssumption
     DEF PackInv
<1> QED BY <1>2, <1>3, FulfilTypeInit DEF FulfilTypeOK, TasksInv

LEMMA TasksStep ==
  ASSUME TypeOK', TasksInv, [FulfilNext]_fulfilVars
  PROVE  TasksInv'
<1>1. PickStep /\ PackStep /\ Picks!ScanTypeOK' /\ Packs!ScanTypeOK'
  BY FulfilScans, PickMeaning, PackMeaning DEF TypeOK
<1>2. Picks!EarnedInv' /\ Picks!CountedInv'
  BY <1>1, Picks!EarnedStep, Picks!CountedStep, PickAssumptions, LinesAssumption, ScansAssumption
     DEF TasksInv, PickInv, PickStep
<1>3. Packs!EarnedInv' /\ Packs!CountedInv'
  BY <1>1, Packs!EarnedStep, Packs!CountedStep, PackAssumptions, LinesAssumption, ScansAssumption
     DEF TasksInv, PackInv, PackStep
<1> QED BY <1>2, <1>3 DEF TasksInv, PickInv, PackInv

\* a task that is complete was scanned, and stays so
LEMMA CompleteIsScanned ==
  ASSUME TasksInv
  PROVE  /\ pickStatus = "complete" => Picked
         /\ packStatus = "complete" => Packed
<1>1. pickStatus = "complete" => \A l \in Lines : Picks!DoneOn(l) >= Required[l]
  BY DEF TasksInv, PickInv, Picks!EarnedInv, Picks!NothingInvented
<1>2. packStatus = "complete" => \A l \in Lines : Packs!DoneOn(l) >= Required[l]
  BY DEF TasksInv, PackInv, Packs!EarnedInv, Packs!NothingInvented
<1>3. \A l : Pick!DoneOn(l) = Picks!DoneOn(l) /\ Pack!DoneOn(l) = Packs!DoneOn(l)
  BY PickMeaning, PackMeaning
<1> QED BY <1>1, <1>2, <1>3 DEF Picked, Packed

LEMMA ScannedStays ==
  ASSUME TasksInv, [FulfilNext]_fulfilVars
  PROVE  (Picked => Picked') /\ (Packed => Packed')
<1>1. PickStep /\ PackStep
  BY FulfilScans
<1>2. ASSUME NEW l \in Lines
      PROVE  /\ Pick!DoneOn(l) \in Nat /\ Pick!DoneOn(l)' \in Nat /\ Pick!DoneOn(l)' >= Pick!DoneOn(l)
             /\ Pack!DoneOn(l) \in Nat /\ Pack!DoneOn(l)' \in Nat /\ Pack!DoneOn(l)' >= Pack!DoneOn(l)
  <2>1. Picks!DoneOn(l) \in Nat /\ Picks!DoneOn(l)' \in Nat /\ Picks!DoneOn(l)' >= Picks!DoneOn(l)
    BY <1>1, Picks!DoneIsNat, Picks!DoneGrows, PickAssumptions, LinesAssumption, ScansAssumption
       DEF TasksInv, PickInv, Picks!EarnedInv, PickStep
  <2>2. Packs!DoneOn(l) \in Nat /\ Packs!DoneOn(l)' \in Nat /\ Packs!DoneOn(l)' >= Packs!DoneOn(l)
    BY <1>1, Packs!DoneIsNat, Packs!DoneGrows, PackAssumptions, LinesAssumption, ScansAssumption
       DEF TasksInv, PackInv, Packs!EarnedInv, PackStep
  <2> QED BY <2>1, <2>2, PickMeaning, PackMeaning
<1>3. \A l \in Lines : Required[l] \in Nat
  BY LinesAssumption
<1>4. ASSUME Picked, NEW l \in Lines PROVE Pick!DoneOn(l)' >= Required[l]
  BY <1>2, <1>3, <1>4 DEF Picked
<1>5. ASSUME Packed, NEW l \in Lines PROVE Pack!DoneOn(l)' >= Required[l]
  BY <1>2, <1>3, <1>5 DEF Packed
<1> QED BY <1>4, <1>5 DEF Picked, Packed

\* only CreatePack makes the pack task
LEMMA AbsentStays ==
  ASSUME TasksInv, Packs!ScanStep, packStatus = "absent"
  PROVE  packStatus' = "absent"
<1>1. \A s \in PackScans : packScan[s].step \notin {"read", "written"}
  BY DEF TasksInv, PackInv, Packs!CountedInv, Packs!SoloInv, Packs!Active
<1> QED BY <1>1 DEF Packs!ScanStep, Packs!Read, Packs!Write, Packs!Commit, Packs!Rollback, Packs!Active

LEMMA GatesStep ==
  ASSUME TasksInv, Gates, [FulfilNext]_fulfilVars
  PROVE  Gates'
<1>1. /\ Picked => Picked'
      /\ Packed => Packed'
      /\ pickStatus = "complete" => Picked'
      /\ packStatus = "complete" => Packed'
  BY ScannedStays, CompleteIsScanned
<1> USE DEF Gates
<1>2. ASSUME UNCHANGED <<starts, label, ship>>, packStatus = "absent" => packStatus' = "absent"
      PROVE  Gates'
  BY <1>1, <1>2
<1>3. CASE Handle
  <2>1. CASE \E to \in {"paid", "fulfilling", "cancelled"} : Transition(to)
    BY <1>2, <2>1 DEF Transition, packVars
  <2>2. CASE CheckPick
    BY <1>1, <2>2 DEF CheckPick, packVars
  <2>3. CASE CreatePick
    BY <1>1, <2>3 DEF CreatePick, packVars
  <2>4. CASE CheckPack
    BY <1>1, <2>4 DEF CheckPack, PickComplete, packVars
  <2>5. CASE CreatePack
    BY <1>1, <2>5 DEF CreatePack, pickVars
  <2>6. CASE CheckLabel
    BY <1>1, <2>6 DEF CheckLabel, packVars
  <2>7. CASE CreateLabel
    BY <1>1, <2>7 DEF CreateLabel, packVars
  <2>8. CASE CheckShip
    BY <1>1, <2>8 DEF CheckShip, PackedStatus, packVars
  <2>9. CASE Ship
    BY <1>1, <2>9 DEF Ship, packVars
  <2>10. CASE Pick!ScanStep /\ UNCHANGED <<requestVars, packVars>>
    BY <1>2, <2>10 DEF requestVars, packVars
  <2>11. CASE Pack!ScanStep /\ UNCHANGED <<requestVars, pickVars>>
    BY <1>2, <2>11, AbsentStays, PackMeaning DEF requestVars
  <2> QED BY <1>3, <2>1, <2>2, <2>3, <2>4, <2>5, <2>6, <2>7, <2>8, <2>9, <2>10, <2>11 DEF Handle, Next
<1>4. CASE UNCHANGED <<starts, label, ship, packVars>>
  BY <1>2, <1>4 DEF packVars
<1> QED BY <1>3, <1>4 DEF FulfilNext, CheckPayment, SettleOrder, RecordPartial, CheckDelivery,
                          UpdateDelivery, fulfilVars, vars, requestVars

\* the invariants of both tasks, and what the gates let through, last
THEOREM TasksInvariant == FulfilSpec => [](TasksInv /\ Gates)
<1>1. FulfilInit => TasksInv /\ Gates
  <2>1. FulfilInit => Gates
    BY DEF FulfilInit, Init, Gates, Pack!ScanInit
  <2> QED BY <2>1, TasksInit
<1>2. FulfilTypeOK' /\ TasksInv /\ Gates /\ [FulfilNext]_fulfilVars => (TasksInv /\ Gates)'
  <2>1. FulfilTypeOK' => TypeOK'
    BY DEF FulfilTypeOK
  <2> QED BY <2>1, TasksStep, GatesStep
<1> QED BY <1>1, <1>2, FulfilTypeCorrect, PTL DEF FulfilSpec

(***************************************************************************)
(* However scans of the tasks overlap, every unit of what is packed was    *)
(* scanned before, and every unit of what is labelled, or shipped as       *)
(* packed, was scanned twice.                                              *)
(***************************************************************************)
THEOREM GatesHold == FulfilSpec => []StepsAreGated
<1>1. Gates => StepsAreGated
  BY DEF Gates, StepsAreGated
<1> QED BY <1>1, TasksInvariant, PTL

(***************************************************************************)
(* With any number of scanners to a task that has lines: after scans that  *)
(* overlapped, one that runs alone sets the status right, and a line       *)
(* counts at least the rounds of scans that counted - in both tasks, while *)
(* payments, shipment and delivery go on.                                  *)
(***************************************************************************)
THEOREM EveryScanCounts == ASSUME Lines # {} PROVE FulfilSpec => []ScannedIsCounted
<1>1. TasksInv => Pick!ScannedIsCounted
  BY PickMeaning, Picks!CountedIsCounted, PickAssumptions, LinesAssumption, ScansAssumption
     DEF TasksInv, PickInv
<1>2. TasksInv => Pack!ScannedIsCounted
  BY PackMeaning, Packs!CountedIsCounted, PackAssumptions, LinesAssumption, ScansAssumption
     DEF TasksInv, PackInv
<1>3. TasksInv => ScannedIsCounted
  BY <1>1, <1>2 DEF ScannedIsCounted
<1> QED BY <1>3, TasksInvariant, PTL

(***************************************************************************)
(* A scan that no other overlaps moves no stamp of its task that is set.   *)
(***************************************************************************)
THEOREM StampsOfBothStay == FulfilSpec => StampsKept
<1>1. TasksInv /\ [FulfilNext]_fulfilVars =>
        [/\ pickStarted # NotSet => pickStarted' # NotSet
         /\ pickOverlap # "now" =>
              /\ pickStarted # NotSet => pickStarted' = pickStarted
              /\ pickCompleted # NotSet => pickCompleted' = pickCompleted]_(Pick!scanVars)
  BY FulfilScans, Picks!StampsStep, PickAssumptions, LinesAssumption, ScansAssumption
     DEF TasksInv, PickInv, PickStep, Picks!StampsStand, Pick!scanVars, Picks!scanVars
<1>2. TasksInv /\ [FulfilNext]_fulfilVars =>
        [/\ packStarted # NotSet => packStarted' # NotSet
         /\ packOverlap # "now" =>
              /\ packStarted # NotSet => packStarted' = packStarted
              /\ packCompleted # NotSet => packCompleted' = packCompleted]_(Pack!scanVars)
  BY FulfilScans, Packs!StampsStep, PackAssumptions, LinesAssumption, ScansAssumption
     DEF TasksInv, PackInv, PackStep, Packs!StampsStand, Pack!scanVars, Packs!scanVars
<1> QED BY <1>1, <1>2, TasksInvariant, PTL DEF FulfilSpec, StampsKept, Pick!StampsKept, Pack!StampsKept

(***************************************************************************)
(* Both tasks do what ScanCount says, however their scans overlap.         *)
(***************************************************************************)
THEOREM BothImplementCount == FulfilSpec => CounterSpec
<1>1. FulfilInit => Pick!Counter!CountInit /\ Pack!Counter!CountInit
  BY PickMeaning, PackMeaning, PickCounterMeaning, PackCounterMeaning, Picks!CountInit, Packs!CountInit,
     PickAssumptions, PackAssumptions, LinesAssumption, ScansAssumption DEF FulfilInit, Init
<1>2. TasksInv /\ [FulfilNext]_fulfilVars => [Pick!Counter!CountNext]_(Pick!Counter!countVars)
  BY FulfilScans, PickCounterMeaning, Picks!CountStep, PickAssumptions, LinesAssumption, ScansAssumption
     DEF TasksInv, PickInv, PickStep
<1>3. TasksInv /\ [FulfilNext]_fulfilVars => [Pack!Counter!CountNext]_(Pack!Counter!countVars)
  BY FulfilScans, PackCounterMeaning, Packs!CountStep, PackAssumptions, LinesAssumption, ScansAssumption
     DEF TasksInv, PackInv, PackStep
<1> QED BY <1>1, <1>2, <1>3, TasksInvariant, PTL
        DEF FulfilSpec, CounterSpec, Pick!CounterSpec, Pack!CounterSpec, Pick!Counter!CountSpec, Pack!Counter!CountSpec
=============================================================================
