# Verification of grit-bizsuite

TLA+ models of the grit-bizsuite applications, checked with TLC and proved about with TLAPS.
Paths below are relative to `src/`; `inventory/` stands for `apps/grit-inventory/src/`, `pos/` for
`apps/grit-pos/`, `taskboard/` for `apps/grit-taskboard/`.

- [The system](#the-system): components, state, operations, interactions
- [What is hard](#what-is-hard)
- [Modules](#modules) and how they correspond to the code
- [Runs](#runs): what TLC checks, the bounds, the fairness
- [Proofs](#proofs): what holds for every value of the constants
- [Known departures](#known-departures): where code and documentation part
- [Not modelled](#not-modelled) and [what could come next](#what-could-come-next)

## The system

Four web applications share one Postgres server and exchange signed webhooks. They run as
serverless functions: any number of requests of one application run at once, none keeps memory
between requests that others can rely on, and each may be cut off at any await.

| Component | State | Operations | Correct when |
|---|---|---|---|
| **Stock ledger** `inventory/lib/{inventory,orders,transfers,fifo,stores}.ts`, `inventory/app/api/events/grit` | `StoreStock` per store and variant, the aggregate `Variant.quantityOnHand`, `StockMovement`, `StockLot` and its consumptions, `Order`, `StockTransfer`, `ProcessedEvent` | manual adjustment, order placed / paid / fulfilling / fulfilled / cancelled, transfer drafted / dispatched / received / cancelled, POS sale ingested | the aggregate is the sum of the stores; units are conserved; lots cover the stock; only a POS sale may oversell; COGS follow the orders |
| **Event bus** `packages/shared-events/src/bus.ts`, `events.ts` of each application, `taskboard/api/grit-events.js` | `event_outbox`, `ProcessedEvent` and its analogues at the consumers | publish after commit, save, fan out, mark delivered, cron drain, consumer handlers | marked means applied; applied once; every recorded event is eventually delivered |
| **Register and staff orders** `pos/app/api/orders`, `pos/components/pos/{api,offlineQueue}.ts` | `Order`, `OrderLine`, `Payment` (with `externalRef`), the register's IndexedDB queue | create, add or remove a line, cancel, tender, quick sale, offline replay | an order is published once; a queued sale is booked once, in order, and not forgotten; the queue empties |
| **Pickup checkout** `pos/app/api/pickup/[tenantSlug]/checkout`, `pos/app/api/stripe/webhook` | the same order, Stripe's session, `Payment.stripePaymentIntentId` | checkout, payment at Stripe, webhook deliveries; every staff operation on the order | a payment is booked once and eventually; nothing unpaid is published |
| **Picking and packing** `inventory/lib/{picking,packing}.ts`, the task, scan, label and transition routes | `PickTask`, `PackTask` with items, `ParcelLabel` | start a task, scan a unit, make a label, fulfil the order | a task is complete once all is counted, and not before; each step is gated on the one before |
| **FIFO costing, COGS report** `inventory/lib/fifo.ts`, `inventory/app/api/reports/cogs` | cost and age of lots | drain, receive, report | cost of goods plus value left equals what was paid |
| **Store administration** `inventory/app/api/stores` | `Store` | create, rename, delete | deleting a store loses no units, and no transfer names it |
| **Order payments** `inventory/app/api/orders/[id]/payments` | `Payment` of an inventory order | record a payment | one payment settles an order, and it covers the total |
| **Deliveries** `inventory/lib/deliveries.ts` | `Delivery`, its history | open, change the status | every status is one the graph allows after an earlier one |
| **Promotions** `lib/promotions.ts` of both applications | `Promotion`, the POS cache of it | evaluate, publish an update | both evaluate alike; the cache is the newest rule |
| **Locations, reports, cron scans** `inventory/lib/{groups-locations,deadstock,forecast,restock}` | `VariantLocation`, flags, snapshots | set primary, scan | one primary row; one flag per variant |
| **Velocity, reconciliation, QR tables** `pos/lib/velocity.ts`, `pos/app/api/{reconciliation,public/table}` | outbox, `DailyReconciliation`, the open order of a table | check, close the day, order at a table | one surge per window; a day's totals hold its payments; one bill per table |
| **Bookings** `taskboard/api/{booking-request,booking-requests,booking-slots,cron-reminders}.js` | `availability_slots`, `bookings` | open a slot, request it, confirm, decline, remind | a slot has one confirmed booking; a hold is kept; one reminder |
| **Teams and billing** `taskboard/api/{stripe-webhook,team-*,billing-*}.js` | `users.plan`, `subscription_status`, `team_seats`, `team_members` | check out, change a subscription, webhook, invite, join, remove | the account shows the newest state at Stripe; a team has a seat for each member |
| **Task board, other** `taskboard/{api,lib,app}` | ops tasks, IndexedDB with a mirror | edit, complete, mirror | one completion event; the mirror follows the record |
| **Passport, UI, schema, grit-reports** | sessions and entitlements in cookies; none | look up, render, aggregate | stateless |

**Interactions.** A tender, a replayed quick sale or a confirmed Stripe payment closes a POS order
and publishes `transaction.completed`. grit-inventory ingests it: stock falls in the store the sale
names, and thresholds that are crossed become `inventory.threshold_breached` events, which
grit-taskboard turns into tasks. Promotions travel from grit-inventory to the POS cache. Every
event goes through the same bus: the publisher's outbox first, then a call to every subscriber, and
a cron route that retries what is not marked. The modules cut at these seams: `PosOrder` and
`PickupOrder` end where an order is published, `EventBus` takes a published event to its
consumers, and `StockLedger` starts where the consumer's transaction does. `PickPack` and
`Fulfilment` take an inventory order from its first payment to its delivery; what its transitions do
to stock is in `StockLedger`. Bookings and teams of the task board share no state with the rest.

## What is hard

`PROJECT.json` lists the hazards of the modelled parts at their lines; what goes wrong in the code
all the same is under [Known departures](#known-departures), the hazards of the other parts are
under [Not modelled](#not-modelled). In kind, they are:

- **Reads outside the lock.** Several routes read a status, and update by id afterwards: cancel and
  line edits, the webhooks, the task routes, payments, deliveries, bookings, joins. Locks exist where money is
  booked, and their reach differs: a row lock excludes every writer, an advisory lock only those
  who ask for it.
- **Retries of what was done.** The register queues what may have succeeded; Stripe redelivers; the
  drain overtakes a call its publisher gave up on. Each consumer has its own way to recognise a
  repeat: a unique marker, an `externalRef`, an upsert, a look-up before an insert, or a look-up
  at the sender.
- **Derived state.** The aggregate, the lots, the completion of a task are each recomputed from
  rows other transactions write, from lazily created rows, or from a snapshot of the moment.
- **Overdraft.** A POS sale may take a store below zero, and every later guard meets that balance.
- **Failure between a commit and what must follow it**: an outbox row, an event, a marker.

## Modules

| Module | Models | Built on |
|---|---|---|
| `StockLedger` | the stock ledger of one tenant | |
| `StoreAdmin` | creation and deletion of stores around the ledger | `EXTENDS StockLedger` |
| `FifoCosting` | age and cost of lots, carried costs, the COGS report | `EXTENDS StockLedger` |
| `SumTheorems` | facts on sums over finite sets and sequences and on recursion, used by every proof that counts | |
| `StockLedgerProofs` | the proofs about these three | `StoreAdmin`, `FifoCosting` |
| `EventChannel` | what the bus promises, without messages | |
| `EventBus`, `EventBusProofs` | publishers, outbox, fan-out, drains, consumers | `INSTANCE EventChannel` |
| `PosOrder`, `PosOrderProofs` | an order at the register, its offline queue | |
| `PickupOrder` | checkout, Stripe, the webhook, on the orders of the register (proofs in `PosOrderProofs`) | `EXTENDS PosOrder` |
| `ScanCount` | what scanning a task promises: count up, complete, keep the stamps | |
| `ScanRequests` | the lines of an order and the scan requests, shared constants | |
| `ScanTask`, `ScanTaskProofs` | the transactions of `scanPickItem` and `scanPackItem` | `ScanRequests`, `INSTANCE ScanCount` |
| `PickPack` | pick task, pack task, label, shipment of an order | two instances of `ScanTask` |
| `Fulfilment`, `FulfilmentProofs` | payments before picking, the delivery after shipment | `EXTENDS PickPack`, two instances of `ScanTaskProofs` |
| `Booking`, `BookingProofs` | slots, holds, requests, decisions, reminders | |
| `Teams`, `TeamsProofs` | subscriptions at Stripe, webhooks, seats, joins | |
| `MC*` | the definitions TLC needs for each of these | |

`PROJECT.json` maps every definition to its lines. The choices a reader should know:

**StockLedger.** A handler is one action, because each runs in one transaction that locks the
variant row before anything it reads about that variant; a handler that throws has rolled back and
is no action. Baskets have at most one line per variant, so locking order and repeated lines are
left out. `rows` distinguishes a missing `StoreStock` row from a row of zero, as lazy creation does
(`SeedQuantity`). Lots are the units open in them. `consumed`, `takenAt`, `sold` and `adjusted`
are the sums over the movement and consumption tables that the properties need. Recalled and
received transfers and cancelled orders restock through the same `applyStockMovement`, whose guard
refuses a balance below zero *after* the movement, increments included, except for POS sales.

**StoreAdmin.** Every step of the ledger also has its stores among those that live (`LedgerStep`).
DELETE is two actions: `CheckDelete` counts stock, `DeleteStore` deletes in a later transaction,
which the foreign keys of lots and transfers refuse (`Restricted`). A lot row outlives its units,
so `lotted` is the set of stores that ever received any.

**FifoCosting.** Each handler is the one of `StockLedger` conjoined with what it does to lots, so a
behaviour of one is a behaviour of the other (`LotsAgree` compares the totals). Lots are a sequence
in the order of `receivedAt`, taken to be the order in which they were written. Consumption rows are
summed by what consumed, which is all the report and a restock read. Costs are whole cents.

**EventBus.** `phase` takes an event from its committed fact over its built envelope to the end of
the publisher. A caller (a publisher or a drain run) has at most one fan-out, `call`: who has yet to
answer, who has executed the call, whether any failed. A consumer's transaction is one action that
applies the event, or recognises it, and commits the facts the event causes, whose own publication
it then awaits. A call that timed out may be executed later (`late`). Faults: a call lost before or
after the consumer, a timeout, a failed save, a crash of a publisher or a drain. What
`markDelivered` does when it fails is covered by the crash of its caller: the row stays unmarked.
A POS consumer keeps no marker, it upserts; for it only that an event was applied is recorded.

**PosOrder.** `Tender` and each op of a replay are transactions on a locked order row, one action
each. Cancel and line edits are two actions, check and write. `client`, `wire` and `queue` are the
register: a POST is on the wire until the server executes it, possibly after the register has
seen a network error and queued the op. `sync` is one run of `syncOfflineQueue` with the request
in progress: the batch, what remains of it, what it settled. The discount is chosen anew at each
computation (`DuesOf`), as promotions may change between two tenders.

**PickupOrder** adds the customer's request, Stripe's session and webhook deliveries to the same
variables. A delivery takes the lock and reads (`Deliver`), commits payment and status (`Confirm`),
and publishes from a second read (`PublishConfirmed`). To staff a pickup order is an order like any
other: no route asks for its channel, and the order page edits its lines, cancels it and tenders it
online or through the queue (`OrderBuilder.tsx:78-160`). `TillStep` is therefore every step of
`PosOrder`, except that only the checkout creates a pickup order. `late` is history: the orders a line
of which was written when they were no longer open.

**ScanTask.** A scan is a READ COMMITTED transaction in three steps: read task and items, write one
item and re-read all, write the task and commit. Nothing in the routes keeps two scans of a task
apart, and nothing in the model does: `Scanners` only bounds how many overlap. Two history variables
tell what the properties speak of: `round` counts, for each line, the rounds of overlapping scans of
which one was committed, and `overlap` says whether a scan that overlapped another was the last to
write. It is the same code over two tables, and `PickPack` has two instances of it. Its other routes
read first and write later, as two actions. `ScanCount` is what scans promise: one that is not
disturbed counts its unit, completes the task with the last and keeps the stamps.

**Fulfilment.** A payment reads what was paid (`CheckPayment`), and is then either the one that
covers the order, whose transaction asks for `pending` again (`SettleOrder`), or a partial one that
asks nothing (`RecordPartial`). A status change of a delivery is a check and a transaction
(`CheckDelivery`, `UpdateDelivery`). `left` records what moved the order from pending.

**Booking.** No handler opens a transaction, so each SQL statement is an action; its WHERE clause is
the guard. A hold that `now()` has passed is `lapsed` (`Lapse`). The notifications of a request and
of a confirmation are sent after everything is written and are left out. The hourly run reads its
list once (`Sweep`); a run pushes and then stamps, and a lost stamp is a fault.

**Teams.** Stripe's side is `history`, the versions of a subscription, and `pending`, the events it
will deliver until they are acknowledged. A webhook is an event received, the look-up of the current
version, and the update, each an action; a join is a token checked, the team read, the seats
counted, the row inserted. `written`, `latest`, `alone`, `calm` and `peak` are history the properties
need: `alone` are the webhooks that no other of the same account has overlapped so far, and an account
is `calm` when the last to write it was one of these, its look-up succeeded, and no write failed since.

## Runs

Passing runs (TLC, two workers; distinct states):

| Run | States | Question |
|---|---|---|
| `ledger` | 768k | do the handlers, in any order, keep aggregate, lots and units consistent while a store is created and deleted? |
| `fifo_costing` | 270k | are the oldest units taken first, does the report hold exactly what is gone, and is value kept by every step? |
| `event_bus` | 76k | does marked mean applied, applied once, and does every recorded event arrive, with a subscriber down and a fault anywhere? does the bus implement the channel? |
| `pos_register` | 1.36M | is an order published once and a queued sale booked once, in order, with lost answers and overlapping replays? |
| `pos_staff` | 40k | against cancellations and line edits: does the queue empty, is every closed order published? |
| `pickup_order` | 558k | is a Stripe payment booked once and eventually, is nothing published that is not paid, against a second delivery, failures, a line edit, a cancellation, and a tender that is queued and replayed? |
| `pick_pack` | 1.47M | from the first payment to the delivery, two scanners at each task: can an order be settled twice, a scan undo what was counted before it, a scan that is alone leave the task wrong, anything be labelled or shipped that was not scanned twice, a delivery leave its graph? |
| `booking` | 1.25M | can a slot be given to two clients, a hold be taken, a client be reminded twice? |
| `teams` | 422k | can a webhook undo a newer one, an account differ from Stripe after a webhook that was alone, a team outgrow its seats? |

Runs that refute a sentence of the repository; each is a finding in `PROJECT.json`:

| Run | Sentence it refutes |
|---|---|
| `batch_error_loses_event` | every closed order is published: an op that throws discards the events of the ops before it |
| `reopened_by_stripe` | a delivery does not reopen an order staff closed: it updates by id on a status read earlier |
| `stuck_task` | the task completes with its last unit: two scanners of two items do not see each other |

**Bounds, and why they are enough.** Each is a constant named in the .cfg.

- *ledger*: two stores (the default and one other), a location no store has, two variants, one
  with a backfilled row and one without, two orders, one transfer, two sales, one adjustment,
  baskets of one and two lines. A second line is what makes a handler fail half-way; two orders
  compete for the same units and for lots; the transfer gives stock to the second store; the sales
  overdraw, one at a store that is deleted before the other. More of each repeats the same interactions, which the proofs cover for any number.
- *ledger*, deletion: the second store is created, deleted and may race every handler. No third
  store is needed: what a deletion takes away is the store's own.
- *costing*: one variant, two unit costs besides the initial one, an order, a transfer, a sale and
  three adjustments: enough for a drain that spans lots of two costs, a carried average that must be
  rounded, an overdraft and a restock. `MaxReprices = 1` changes the default cost once.
- *event bus*: a sale and the breach it causes, whose subscriber is down, and a promotion behind
  the breach in the same outbox; two applications that drain their own outboxes. `Limit` is the
  number of blocked rows plus one; with one less the drain starves (known departures). One fault:
  a lost call, a timeout executed late, a failed save or a crash, at every point; the proofs cover
  any number of faults and of overlapping runs.
- *register*: one shared bill paid by two intents and one quick sale; two syncs; `Chunk = 1` there
  and 2 in `pos_staff`, so that both a batch of several ops and a queue of several chunks occur.
  Three network errors let every intent be queued; one server error cuts a batch.
  Edits and cancellations are off in `pos_register`; `pos_staff` and `pickup_order` have them, and the
  proof of `PublishedOnce` covers them in any number.
- *pickup*: one order with one session, two deliveries at once, three network faults (lost answers or
  failed deliveries) and one server error; one tender, online or queued and replayed, one edit to
  another total and a cancellation; two discounts, so that a tender may cover a smaller total than
  the session charged. The edit may be judged before and written after the order is published, which
  is why `PublishedIsPaid` leaves out the orders in `late`: without that it is violated.
- *tasks*: `stuck_task` has two scanners on two lines. `pick_pack` has two scanners per task, two
  units of one line and one of the other, so that two scans of one line overlap, two of different
  lines do, and a third runs alone after either; every scan may be rolled back; two payments of a
  half or the whole, two overlapping updates of the delivery and three events of it, so that the
  graph can be left by a branch and come to an end. The proofs cover any number of scanners.
- *bookings*: one slot, three clients, two members, two faults: a hold that lapses, its successor,
  and a third request; a confirmation and a decline at once. Slots do not interact.
- *teams*: one account with a subscription of two versions and one made in the dashboard, two
  handlers, one fault; three people, two joins at once, two seats. An event can be overtaken,
  repeated and followed by one of the other subscription.

**Deadlock** is not checked: in every model each order, event or scan happens once, so every
behaviour that is complete stops.

**Fairness.** Nothing that goes wrong is fair: faults, crashes, cancellations, customers and staff
may never act. Ledger, costing, fulfilment, bookings and teams claim no liveness and assume none. *EventBus*: a publisher that is alive goes on, a reachable consumer answers, the cron
fires and a run ends (`vercel.json` schedules the drain). A late call need never be executed.
*PosOrder*: the register starts a sync while ops are queued (`SYNC_INTERVAL_MS`), and a request the
server has started goes on. *PickupOrder*: Stripe redelivers what was not acknowledged; a handler
that does not fail goes on. All of it is weak fairness; faults are finite in number, so liveness is
claimed for a system whose faults cease for long enough.

## Proofs

Checked by `tlapm` for any constants that satisfy the modules' ASSUMEs, which only say that sets
are finite, ids are distinct, quantities are numbers, and, where it matters, bounds are positive.

**StockLedgerProofs**, on `StockLedger`: type, `AggregateIsSum`, `UnitsConserved`, `LotsCoverStock`,
`NeverOversold`, `CogsFollowsOrders`. The aggregate is not inductive alone: a row created lazily at
the default store takes its quantity from the aggregate, which is right only if nothing moved
before the first row (`AggregateBeforeRows`), a missing row means zero stock (`NoRowNoStock`) and
the migration's row stays (`MigratedRows`). One lemma per part says what `applyStockMovement`
changes; each handler is then a few facts on its sums. The sums come from `SumTheorems`, which
derives the algebra of a fold over a finite set (one element changes, two functions add) from its
definition by choosing a minimal counterexample, as induction theorems are out of the prover's reach.

On `StoreAdmin`: type, `TransfersHaveStores`, `AggregateSurvives`, `UnitsSurvive`, `LotsCoverStock`,
`DebtIsSold`. A deletion adds one question: did the store hold anything? `AdminInv` answers it: unless
a POS sold units at a store that is deleted (`Unsold`), the ledger's invariant survives, every lot is
at a store that was lotted and every row has a cause (`KeptInv`). So a store the foreign keys let go
never received a unit (`DeletedHeldNothing`), and what it takes with it is zero. What holds of debts
needs no such exception: `DebtInv` bounds from below, for each variant, the aggregate minus what is in
rows by what POSes sold at deleted stores, which is what the default store's row may inherit.

On `FifoCosting`: that it refines the ledger (`FifoSpec => Spec`), type, `LotsAgree`, `OldestFirst`,
`ReportedIsGone`, and the action property `ValueKept`. One lemma carries the first-in-first-out
argument: after any number of rounds of `consumeFifo`'s loop, the units taken are the oldest of the
lots visited and the units left are the rest, in order (`DrainIsFifo`); a round ends before, within
or at the end of a lot (`CutBefore`, `CutWithin`). It runs over a fold on a queue of any length, for
which `SumTheorems` shows, again by a minimal counterexample, that a function defined by recursion on
the numbers exists and is unique, and how a sum over a sequence splits. The rows need more than the
ledger's invariant: rows exist for what holds units and for nothing else (`RowsFollow`), so that a
restock deletes what the order drained and a dispatch never adds to old rows, and the report counts
what orders took, POSes sold and was written off (`CogsAreTaken`). `ValueKept` then compares, per step,
what leaves the lots with what the rows or the transfer gain (`DrainKeeps`, `ArriveKeeps`); the half
cent per unit is the bound on `RoundedUnitCost` (`Rounding`). The invariant needs `ConsumersAssumption`:
ids of different tables differ, and the sales of a behaviour are finitely many. They quantify over
costs and edits of the default cost without a bound.

**EventBusProofs**: type, `DeliveredIsApplied`, `AppliedAtMostOnce`, and that every step is a step
of `EventChannel` or a stutter (`ImplementsChannel`). The invariant says what an unfinished fan-out
knows: whoever is no longer waited for, if no call failed, has applied the event; what is on the
wire or in an outbox reports a fact that was committed.

**PosOrderProofs**: type, `PublishedOnce`, `QuickSaleOnce`, `NothingForgotten`. `PublishedOnce` needs
`Finished`: an order that was published, or whose event a batch still holds, is closed or
cancelled, which no later tender undoes, or is a quick sale whose reference is taken; and no two
batches hold the same order.
`QuickSaleOnce` needs that a booking leaves its reference, `NothingForgotten` that whatever a
request is about to remove is settled. `InCaptureOrder` holds for any number of overlapping syncs and
any chunk size: whatever was captured before an op that a run still holds is settled or comes earlier
in that run (`TurnsInv`), because the queue holds all that was captured and is not settled, and
capture keys only grow (`KeysInv`).

On `PickupOrder`, in the same module: type, `StripeBookedOnce`, and `PublishedIsPaid` for tenants with
at least one possible discount (`Discounts # {}`, 0 when there are no promotions). `LockedAlone`: the
delivery that holds the lock of an order is the only one, and nothing was recorded before it.
`Placed`: nothing happens to an order before its checkout. The heart of `PublishedIsPaid` is that an
order that was published, or is about to be, has left "open" for good (`SoldLeftOpen`,
`ConfirmedLeftOpen`) and is covered (`SoldIsPaid`): payments are only added, and its total changes no
more but by an edit that was judged before and is written after, which puts it in `late`.

**ScanTaskProofs**, with any number of scanners: type; `NothingInvented`, by `WritesAreEarned`: what a
transaction is about to write was reached by scans that were carried out, its own included;
`ScannedIsCounted`, `StampsKept`, and that every step implements `ScanCount`. Overlapping scans do
lose units and may leave a task in progress that lacks none (`stuck_task`), so the properties say what
remains true. `RoundsCount`: what a scan is about to write exceeds the rounds that ended before its
own, so a round that counts adds one at least, and no scan takes back what was counted before it
(`Floor`). `SoloInv`: a scan that is alone holds what is in the tables (`Solo`), so it sets the status
right (`Tallied`) and keeps the stamps, whatever overlapped before it. The one hypothesis is that the
task has lines (`Lines # {}`): one without is complete only after a scan, which it cannot have.

**FulfilmentProofs**, with any number of scanners: type; `SettledOnce`, as whoever settles finds the
order pending and leaves it otherwise; `DeliveryIsTraced`, which relates each update in flight to the
history it read; `StepsAreGated`, and `ScannedIsCounted`, `StampsKept` and `CounterSpec` of both tasks.
What `ScanTaskProofs` shows of a task is not proved again: the module is instantiated for the pick
task and for the pack task, and every step of `Fulfilment` is shown to be, for either task, a step of
`ScanTask` or a stutter. The gates cannot rest on the status, which late scans that overlap write to
and fro: `Gates` says instead that a task that was found complete has every unit scanned
(`CompleteIsScanned`), and that a unit that was scanned stays so (`ScannedStays`).

**BookingProofs**: type, `OneWinner`, `HoldIsKept`, `RemindedOnce`. `Claims`: a member between the
two statements of a confirmation has the slot booked, and no other member and no confirmed booking
names that slot. `Kept`: a request has the slot it was made for, or its
hold is over, so a decline that releases the hold of another is of a request whose own is over
(`ReleasedByOver`). `CronInv` counts: a client was reminded as often as stamps were lost, plus once if
stamped or about to be.

**TeamsProofs**: type, `FreshWrites`, `SeatsBounded`, `InSync`. `StripeInv` and `HookInv`: what was
written, and what a webhook is about to write, is a version Stripe has reached, and `canceled` is the
last one, so that an event that needs no look-up is the newest. `SeatInv`: members and joins past
their count stay below the peak of seats plus the joins that may overlap, as each was counted against
the members before it. `InSync` speaks of an account that is `calm` and of which
Stripe has nothing more to report; it holds again after anything that went wrong as soon as one webhook
was alone and succeeded. `SyncInv` follows such a webhook: it shares its account with no other
(`Alone`); what it has looked up is the newest version, or Stripe has reported a newer one since, which
nobody else can acknowledge (`UpToDate`); so once it wrote, the account shows the version that was
written last (`Shown`), and that is the newest or a newer one is pending (`Reported`).

**Only model-checked.** Liveness (`OutboxDrains`, `QueueDrains`, `ClosedIsPublished`, `PaidIsBooked`):
out of the prover's reach. Every other property of a passing run is stated by a theorem, two of them
under a hypothesis named above (`Discounts # {}`, `Lines # {}`). Conversely
`PickupTypeOK`, `BookingTypeOK`, `ScanTypeOK`, `NothingInvented`, `CogsFollowsOrders` and `NeverOversold`
are in no run: the theorems cover every instance.

## Known departures

Places where the code does less than a comment, a document or a reader would expect, met while
modelling. Three have a run (above). The models follow the code in all of them.

- *Stock.* Cancelling an order in fulfilment restocks the store of whoever cancels
  (`inventory/lib/orders.ts:27,90`): units are conserved, between stores they move without a transfer.
  A store below zero refuses increments that leave it below zero, so a transfer or a cancelled
  order cannot be booked there (`inventory.ts:149`, `transfers.ts:38`). A variant with a quantity
  but no row loses it if its first movement is at another store (`inventory.ts:56-60,96`);
  `UnitsConserved` and the proof leave exactly that variant out. A store its POS sold below zero
  counts as empty and is deleted with its negative balance, which the aggregate keeps
  (`stores/[id]/route.ts:47-49,67,82`); `AggregateSurvives` and `UnitsSurvive` leave those out.
  The default store's first row of a variant, created lazily, takes that balance over: a store no POS
  ever sold at may so go below zero (`inventory.ts:56-60`). `NeverOversold` therefore holds of the
  ledger without deletions only, and `DebtIsSold` of both.
- *Costing.* The report counts every consumption row that is not of a transfer, so a negative manual
  adjustment is a cost of goods sold (`reports/cogs/route.ts:125`). A cancelled order is restocked
  at the default cost of that moment, not at what was consumed (`orders.ts:90`).
- *Payments and deliveries.* Two partial payments do not see each other: the order stays pending
  although they cover it, and one may be recorded on an order cancelled meanwhile
  (`orders/[id]/payments/route.ts:35,50`). A delivery may be marked failed after it was delivered,
  by a request that read the status before (`deliveries/[id]/route.ts:28`).
- *Events.* Rows of a subscriber that is down fill the drain's window, and the rows behind them are
  never delivered (`bus.ts:116` takes the oldest `limit`, `bus.ts:16` promises redelivery). A sale
  whose consumer dies after its commit is not handled again, so its breach is never published
  (`events/grit/route.ts:223`). A promotion that arrives late replaces a newer one (`pos/app/api/events/grit/route.ts:52,140`).
  When saving the outbox row fails, grit-inventory delivers anyway and has nothing to retry
  (`inventory/lib/events.ts:113`).
- *Register.* A cancellation, or a new line, judged before a tender and written after it changes an
  order that is paid (`orders/[orderId]/route.ts:49-63`, `lines/route.ts:45,76`). A split tender whose
  answer was lost is queued and booked again (`components/pos/api.ts:97`, `tender/route.ts:64-73`):
  hence `QuickSaleOnce` speaks of quick sales only. An op may be booked and yet answered as
  rejected, when its POST came through after all (`offline-sync/route.ts:95-98,163`).
- *Pickup.* A line that was judged while the order was open and is written after Stripe's confirmation
  published it leaves a published order whose payments do not cover it (`lines/route.ts:44,76`,
  `stripe/webhook/route.ts:83`). A checkout that cannot reach Stripe cancels the order by id, although staff may have
  tendered it meanwhile (`pickup/[tenantSlug]/checkout/route.ts:245`). An order that is closed at the register and confirmed by Stripe is published by both
  (`stripe/webhook/route.ts:107-126`). A handler that fails between its commit and the event leaves
  the order unpublished; the redelivery returns early (`102-105`).
- *Tasks.* Two scanners of one item lose a unit (`picking.ts:142,165`), and `startedAt` may move and
  `completedAt` be cleared (`124,176`). Of two lines with one SKU a scan takes the one
  the query returns first, full or not (`158`): the other may never be counted. A pack task created
  after the ship check is not asked for (`orders/[id]/transition/route.ts:22-27`); `StepsAreGated`
  speaks of shipments that found one.
- *Bookings.* A decline of a request whose hold expired frees the slot another client holds
  (`booking-requests.js:167`). When the update of the booking fails after the slot was booked, the
  request can never be confirmed (`:122-135`). A reminder is sent again when its stamp is lost,
  where `cron-reminders.js:14-15` says "never a double-send" (`:157`).
- *Billing.* Two overlapping webhooks, or one whose look-up fails, may write an older state over a
  newer one, even `active` over `canceled`, where `stripe-webhook.js:26` says "always picks the
  newest state". The update matches the customer, not the subscription (`:119-128`), so a late event
  of an old subscription replaces the newer one. A failed update is acknowledged and not repeated
  (`:130-135`). Two checkouts at once create two customers, and the webhooks of one match no account
  (`billing-checkout.js:81-92`).
- *Teams.* Overlapping joins exceed the seats (`team-join.js:72-78`). A join asks for the plan and
  not for the status, so a cancelled team admits members (`:69`), a downgrade leaves them, and an
  invitation may be used again after a removal. The member and plan checks (`:57,63`) do not exclude
  a checkout that makes the member an owner. `getMembership` returns `org_owner_cuid` (`teams.js:94`,
  its comment says `orgOwnerCuid`), its callers read `orgOwnerCuid` (`team-members.js:36`,
  `team-invite.js:44`, `team-join.js:59`, `auth-session.js:52`): no admin can invite or remove
  anybody, which is why `Teams` has owners only.
- *Operations tasks.* Two overlapping edits may announce one completion twice, or leave a task
  done without `completed_at` (`ops-tasks.js:263-307`).

## Not modelled

- Money arithmetic, promotions and labels: pure functions on data the models abstract, with unit
  tests of their own.
- Row locks within a handler, hence the deadlock of two baskets locked in opposite order: Postgres
  aborts one of them, and a handler that is rolled back is no step of the models.
- Lots whose `receivedAt` is not in the order they were written, which overlapping transactions
  allow.
- Creation of a table's order by two customers; the window of the velocity check; storage
  locations; order numbers: single statements, behind a unique index where one exists.
- Scans for reports, forecasts and dead stock, and the reconciliation of a day, which read tables
  and insert what nothing else depends on.
- Operations tasks beyond their creation, IndexedDB and its mirror: the client ignores failures and
  states no agreement that could be checked.
- The creation of the Stripe customer, trials, billing periods, roles, and the plan gates of
  `entitlements.js`.
- grit-reports, passport, UI and schema, which keep no state of their own.

Where these parts are hard, at the line where it bites:

| Where | What can go wrong |
|---|---|
| `inventory/lib/orders.ts:120` | two orders count the same rows and take the same number |
| `inventory/lib/{deadstock.ts:23,forecast.ts:47}` | two overlapping scans both find no row and both insert |
| `inventory/app/api/variant-locations/route.ts:92` | two primaries are inserted at once; the partial unique index must refuse one |
| `inventory/lib/inventory.ts:22` | two baskets lock their variants in opposite order |
| `pos/lib/velocity.ts:78` | check and emission must share the advisory lock |
| `pos/app/api/reconciliation/route.ts:81` | a payment of the day commits after the totals, or is replayed later |
| `pos/app/api/public/table/[tableToken]/order/route.ts:228` | two customers both find no open order: two bills |
| `taskboard/api/ops-tasks.js:290,97` | two requests complete one task and announce it twice; the announcement has no outbox |
| `taskboard/app/dataClient.js:265` | an older save overtakes a newer one, or recreates what was deleted |

## What could come next

1. A handler of the ledger as lock, read and write per line, refining `StockLedger` when lines are
   locked in one order.
2. Operations tasks with `task.completed`, and a table's order by two customers.
3. Promotion rules as an operator against a reference definition.

Built in this order: `StockLedger` with its proofs, `EventBus` with `EventChannel`, `PosOrder`,
`PickupOrder`, `ScanTask` with `ScanCount`, `PickPack`, `FifoCosting`, `StoreAdmin`, `Booking`,
`Fulfilment`, `Teams`.
