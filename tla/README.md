# Formal model of YARDOS

YARDOS runs a vehicle repossession yard: cameras capture vehicles at the gate, the
vehicles are admitted and stored, storage is charged, and a vehicle leaves either by
an approved release or through an auction. The program is a NestJS API over
PostgreSQL (`src/apps/api`), a shared contracts package (`src/packages/contracts`)
and a React console (`src/apps/web`). This directory holds TLA+ modules of the API's
core and of the console's state, the TLC configurations that check them on small
instances, and theorems about them with proofs checked by TLAPS.

Paths below are relative to `src/apps/api/src/modules` unless they say otherwise.

- [The system](#the-system): inventory of components
- [The modules](#the-modules): what models what
- [The runs](#the-runs): what TLC checks, the bounds, the fairness
- [The proofs](#the-proofs)
- [Where the code and its words differ](#where-the-code-and-its-words-differ)
- [Not modelled](#not-modelled) and [the plan](#the-plan)

## The system

Every state change is an HTTP request, a queue job or a scheduled sweep of one of
the services below. A service opens one PostgreSQL transaction
(`infrastructure/prisma/prisma.service.ts:92`), which runs at READ COMMITTED, and
calls other services inside it. The processes share the database, a best-effort queue,
and little else: the circuit breaker of the registry and the draining flag of the outbox
live in the memory of one process, tokens and the query cache in a browser tab. So the
hard behaviour is: what a handler read before another handler committed; writes with and
without a version check; row locks (`SELECT ... FOR UPDATE`); unique, partial unique and
CHECK constraints that turn a race into an exception; and what is left when the process
stops between two transactions of one operation.

| Component | State it keeps | Operations that change it | What is hard | What makes it correct |
|---|---|---|---|---|
| Lifecycle tables (`packages/contracts/src/state-machines.ts`) | none | `StateMachine.assert` | a pair missing from a table blocks a path that another service relies on | every status write follows its table |
| ANPR (`anpr/`) | captures | ingest, review | duplicates; a crash between storing and gate | one admission per arrival |
| Gate (`parking/gate.service.ts`) | vehicle, stay, bay | `processCapture`, entry, exit, `advanceToParked`, `allocateSpace` | two gates admit one vehicle; capacity is counted without a lock; locked bays are skipped | one active stay; no bay twice; no zone overfull but by a race |
| Stays and holds (`parking/parking-session.service.ts`) | `parking_sessions` | `placeHold`, `liftHold`, `closeSession` | `liftHold` writes without its version | a vehicle is on site iff it has an active stay |
| Vehicles (`vehicle/vehicle.service.ts`) | `vehicles.status` | `resolveOrCreate`, `transition` | every service moves it | it agrees with the row that put it there |
| Release (`release/release.service.ts`) | `release_requests` | request, decide, complete, cancel | eligibility is a snapshot; several requests per vehicle over time | four eyes; only an approved release with a live code leaves |
| Auctions (`auction/auction.service.ts`) | `auctions`, lots, bidders, registrations, bids, settlements | schedule, publish, open, close, add lot, bid, select winner, settle, receive | bids race under the lot's lock; winner and receipts are written from unlocked reads | ladder of bids; one winner, who stood highest; money recorded |
| Invoices (`invoice/invoice.service.ts`) | `invoices`, credit notes, `invoice_series` | generate, issue, void, apply payment | payments and voids race on one row; numbers must be gap-free | paid <= total; status says what is paid; gap-free numbers; void leaves a trail |
| Payments (`payment/payment.service.ts`) | `payments`, `payment_webhook_events` | manual payment, initiate, callback | repeated, late, reordered and concurrent callbacks; crash between storing and applying | each success counted exactly once |
| Charges (`billing/`) | calculation rows, the rate of a stay | accrue, estimate, attach a rate, final | unit boundaries, slabs; a rate attached while the stay closes | the engine computes its tariff; an exit bills the whole stay |
| Rate resolution (`contract/`), billing party (`invoice/billing-party.service.ts`), financier matching (`financier/`) | none (pure choices) | none | precedence | the documented order |
| Registry (`registry/`) | lookups, ownership, financier history, circuit state | execute, retry, apply record, verify by hand | two workers on one lookup; retry and circuit breaker; a late answer | every vehicle is asked about; a late answer never moves a vehicle backwards |
| Outbox (`infrastructure/outbox`), queues (`infrastructure/queue`), jobs (`jobs/`) | events, jobs | record, drain, replay, sweep, backfill | at-least-once relays, two replicas, a lost enqueue | every event relayed or dead after its attempts |
| Identity (`identity/`) | users, roles, refresh tokens | login, refresh, logout, roles, status, passwords | refresh races; ends of sessions during a refresh | a family has one live token; ended sessions stay ended; portal users are linked |
| Reporting (`reporting/`), settings | none of its own | none | - | the console shows the site it says |
| Web console (`src/apps/web`) | tokens, chosen site, query cache of a tab | sign in and out, navigate, choose a site, press a button | answers in flight when the person, the site or the rows change | nobody sees another's rows; one's own change is seen |
| Audit, storage, crypto, health | rows nobody's control flow reads | - | - | - |

How they interact: a capture is stored by the ingestion and handed to the gate; the
gate, hold, release, auction and registry services move the same vehicle row,
all but the last through `VehicleService.transition`, each for its own reasons; the gate
asks the registry for a lookup through the queue, and the sweeps ask again; `completeRelease`
closes the stay, computes its FINAL charge and raises the invoice in its own
transaction; payments write invoices through `InvoiceService.applyPayment`; the auction service
never reads stays after `addLot`, and the release service never reads lots at all: the vehicle's
status is the only thing that keeps the two apart. The console calls the API
with the tokens it keeps, and refreshes its cached queries after its own actions.

## The modules

| Module | Models | Proved about in |
|---|---|---|
| `Lifecycles` | the status sets, transition tables and partial-index conditions | - |
| `YardCustody` | who may move a vehicle: gate admission, holds, release, auction | `YardCustody_proofs` |
| `EnglishAuction` | abstract: an ascending auction of one lot | `AuctionBidding_proofs` |
| `AuctionBidding` | bids, winner and settlement of one lot; implements `EnglishAuction` | `AuctionBidding_proofs` |
| `Ledger` | invoices, credit notes, number series, payments, gateway callbacks | `Ledger_proofs` |
| `Gate` | captures, the review queue, admission with zones and bays, exit, the end of a stay | `Gate_proofs` |
| `Registry` | lookups, workers, queue, sweeps, circuit breaker, the gate's moves | `Registry_proofs` |
| `Pricing` | rate resolution, durations, the charge engine, billing rules, as operators | `Ledger_proofs` |
| `Charges` | the calculations and the invoice of one stay, over `Pricing` | `Ledger_proofs` |
| `Outbox` | recorded events and the relays of several replicas | `Outbox_proofs` |
| `Sessions` | refresh tokens and their rotation, and the console's token store | `Sessions_proofs` |
| `Screens` | the console's queries, pages, buttons and refreshes, and the rows each API read answers from; constants only | `Console_proofs` |
| `Access` | role bundles, endpoint requirements, account changes, and what the console offers, over `Screens` | `Console_proofs` |
| `Console` | the query cache of one tab, over `Screens` | `Console_proofs` |

Each `MC` module instantiates the module it is named after; those of `Gate` and `Charges`
also define the instance (frames and zones; rate plans and rules), others add symmetry sets.
The modules share `Lifecycles` rather than state. Each follows the columns its
questions need; `vehicles.status` appears in `YardCustody`, `Gate`, `Registry` and
`AuctionBidding`, each time with the other movers it meets there.

### How transactions become actions

A status that is written through one of the guarded helpers
(`VehicleService.transition`, `transitionLot`, the row lock of `placeBid`) is read
again at the moment of the write and updated under a version check or a lock. Its
handler behaves as if all of it ran at the commit, and is one action: the whole
handler, with every row it writes. A handler that acts on a row it read earlier and
does not check again is several actions, the first of which keep what was read (in `txn`,
`req`, `worker`, `batch`, `call`, `tx`), and the last of which uses it; any other action may
come between. An exception leaves nothing behind, so a failing handler is a disabled action, and
an action such as `Rollback`, `Die` or `RollBack` abandons a transaction in flight. A unique index is a conjunct of
the commit that would violate it.

| Handler | Action(s) | Read early, used late |
|---|---|---|
| `requestRelease` | `BeginRequestRelease`, `CommitRequestRelease` | eligibility |
| `addLot` | `BeginAddLot`, `CommitAddLot` | the auction's status, the stay |
| `liftHold` | `BeginLiftHold`, `CommitLiftHold` | the stay, written without its version |
| `placeBid` | `BeginBid`, `CommitBid` | the idempotency key, looked up before the lock |
| `selectWinner` | `BeginSelectWinner`, `CommitSelectWinner` | the lot and the bid |
| `recordSettlementReceipt` | `BeginReceipt`, `CommitReceipt` | the amount received |
| `applyPayment` in a manual payment | `BeginManualPayment`, `CommitCredit` | the invoice |
| `handleWebhook` | `StoreCallback`, then `Disregard`, or `ReadPayment`, `WritePayment`, `CommitCredit` | the payment's status, then the invoice |
| `initiateGatewayPayment` | `BeginInitiate`, `CommitInitiate` | the invoice; the gateway is told in between |
| `allocateNumber` in `generateForSession` | `BeginGenerate`, `CommitGenerate` | nothing: the series row is locked |
| `ingest` | `Receive`, `Store`, then the gate's steps | the duplicate checks |
| `resolveReview` | `BeginReview`, then `Reject` or `ConfirmPlate` and the gate's steps | the capture |
| `handleEntry` | `ChooseZone`, `ChooseSpace`, `Admit`, or `AlreadyOnSite` | the count of each zone; the vehicle and the bay are locked |
| `requestEnrichment` | `Ask`, `Create`, `Mark` | whether a lookup is in flight |
| `executeLookup` | `PutOff`, or `Read`, `Start`, then `AnswerFound`, `AnswerNotFound` or `Fail`; `Apply` | the lookup and its attempt; the vehicle, at the start of `applyRecord` |
| `drain`, `publishRow` | `Drain`, then `Emit`, `Mark` or `Fail` for each row, `EndDrain` | the batch, with its attempts |
| `login` | `Submit`, then `BadPassword`, or `Recognise`, `SignIn` | the account: its status, its lock, its count of failures |
| `refresh` | `Check`, `Issue`, `Rotate` | the token |
| `calculateAndStore`, `attachRatePlan`, `completeRelease` | `ListForAccrual`, `RequestRelease` or `BeginClose`, then `Price`, `Store`, `Close`; `AttachRate`, `Attach` | the stay, its plan, the current calculation |
| every other handler | one action of its name | - |

### YardCustody

`vehicle`, `stay`, `request`, `auction`, `lot` are the status columns of five tables
and the foreign keys between them; a request also has its requester, approver and
gate code (none, live, expired), a stay whether a rate is attached, a lot whether it has a bid.

- `Admit` is `handleEntry` with the walk of `advanceToParked`: a vehicle in one of the
  statuses `entryPathTo` accepts gets a stay and ends at PARKED, in one transaction.
- `CompleteRelease` includes `closeSession` and the move to EXITED. Its invoice is the
  subject of `Ledger`.
- `CancelRelease` moves the vehicle to PARKED whatever it is doing, as the code does.
- `OpenAuction` and `CloseAuction` move all lots of the auction, and their vehicles, or none. The run has one vehicle, whose lots are
  never live together, so that one of several fails is not exercised there; `AuctionStatusBacked` and `HammerKeepsVehicle` are proved for any number of vehicles and lots.
- `AWAITING_PAYMENT` is never entered, and that is a fact of the code: session invoices are
  raised by `completeRelease` only, so the balance `requestRelease` looks at is always zero.

### AuctionBidding and EnglishAuction

One lot, its bids by idempotency key, its bidders, its settlement, and the status of
its vehicle. `PulledBack` is what the rest of the yard can do to the vehicle
(`YardCustody!CancelRelease` and `CommitLiftHold`); `WindowPasses` is the clock
reaching `scheduledEndAt`. `paid` and `raced` are history variables: the money of the receipts
that were acknowledged, and whether one was recorded while another was under way. Fees and tax are typed in by the operator and added to the
winning bid; the model takes the winning bid as the amount payable.

`EnglishAuction` is what a bidder may rely on: an offer counts only while the auction
is open, beats the standing one by the increment, and the last one standing when
the hammer falls is the one that is awarded. The refinement maps the phase to the lot's
status, the standing bidder to the bidder of the one ACCEPTED or WON bid, and the
highest offer to `highestBidAmount`.

### Ledger

One invoice per release and its credit note, both number series, payments, stored
callbacks, and the set `intents` of payments the gateway has been told of.
A callback carries the payment it is about and an outcome; `DIFFERS` stands for one
whose amount does not match. A repeat delivery of one event id collides with the stored row
and is answered without effect: a stuttering step. The gateway may report anything at any time after
the intent, also before the payment's row exists.
Amounts are integers; the lines of an invoice, taxes and the wording are left out.

What an invoice is credited with is compared with its payments by two properties. `raced` is a history variable: the invoices of which a read has gone
stale, that is, whose amount, or whose payment's status, was changed by another request between one request's read and its write
(`ReadGoesStale`). Requests may overlap in every other way. Outside `raced`, `EveryPaymentCounts` and `NothingCountsTwice` say that
what is paid is exactly what was received, whichever callbacks tell of a payment, in any order. Inside it the code loses a payment or credits
one twice ([below](#where-the-code-and-its-words-differ)), and the properties say how far that goes: an invoice with a successful
payment never reads as unpaid, and it never carries more than was recorded by hand plus what each consumed callback announced (`Backing`). For the second,
a payment's row says how it was recorded (`via`).

### Gate

`event`, `vehicle`, `stay`, `space` are tables; `req` holds what each request has read. `Receive` and `Store`
are `ingest` up to the stored capture, whose two unique indexes are `Unstored`; the Redis window in
front of them may be lost at any time and decides nothing by itself. `BeginReview`, `Reject` and `ConfirmPlate` are
`resolveReview`, which never looks at the capture again. Inside the gate's transaction the vehicle is
locked from `resolveOrCreate` on (`VehicleFree`) and a bay from its `SKIP LOCKED` selection on (`SpaceFree`); zones
are counted without a lock. So `ChooseZone`, `ChooseSpace` and `Admit` are three actions, and `Die` may come between any two.
`ApproveRelease` and `CloseSession` are the parts of the release service that the exit and the bay depend on.

### Registry

`lookup` and `jobs` are the rows and the queue, `worker` what each worker holds in memory, `breaker` the circuit
breaker. A lookup is asked for by the gate's job, by hand, or by the backfill (`Ask`, `Create`, `Mark`), and carried
out by whoever takes it: `Read` reads the row, `Start` marks it in progress whatever became of it since, then come the answer or `Fail`, and `Apply`.
The sweep lists what is due and claims nothing. `Apply`
reads the vehicle in the step that begins it and writes it in the step that commits it, and `Admit`, the gate,
may come between: that is `registry_dragged`. `Crash` ends all workers and forgets the breaker.

An enqueue may be lost silently. The backfill (`Backfill`) takes vehicles that nobody asked about (`NeverAsked`) and that were seen within
seven days (`recent`, which a capture renews and `Age` takes away), at most `BackfillLimit` of them and any when there are more. Its job id is fixed, and the driver keeps a job that
has ended, an hour if it completed and seven days if it failed (`kept`, `EndJob`, `Forget`): as long as it is kept, or waits or runs, a second one is swallowed.
A job whose statement throws (`JobFails`) is tried again or kept as failed. Without a provider (`Configured`) a job ends at once. The driver's own handling of ids and attempts is taken as its documentation
has it.

### Pricing and Charges

`Pricing` translates the pure code: which plan applies (`Resolve`; in the yard only the plans of one contract version, the financier's newest in force, are candidates), how long a stay was in units of the plan (`BillableUnits`),
the ladder walk over the slabs with its cap, minimum and taxes (`Calculate`), which billing rule names the party (`Evaluate`). Its
durations are scaled: the instance's hour is 2 minutes, its day 4. Amounts are integers, and rounding of money is left out.
`Charges` is one stay whose calculations are stored by accrual, a release request, an attached rate and the exit, each
in a transaction that read the stay earlier. Attaching updates the stay without its version, closing with it.
`ChargedByPosition` is the reference: what the contract says when the ladder is read position by position.

### Outbox

A replica's `Drain` copies the rows that are due, in order, up to the batch; the locks of its SELECT are gone when it
returns. `Emit` gives the head of the batch to the handlers and `Mark` writes the row; `Fail` writes the outcome from the attempts that
were read. `Crash` drops a batch half way. `emitted` and `failures` are history variables, which count no further than a property asks.

### Sessions

`login` is what a sign-in has read: `Submit` reads the account and tries the password, `BadPassword` counts on from the count that was read, `Recognise`
sets it back, `SignIn` issues the tokens, whatever became of the account since.
`token` is the table of refresh tokens with their family and the reason of their revocation; `call` is a `refresh` request
between its three statements; `tab` is the token store of a console with the one refresh it has in flight. `Unauthorized` is a
request of the tab that is answered 401; `Unheard` an answer nobody reads; `Reload` a page load, which forgets the refresh in flight
and not the tokens. `ended`, `excused` and `forked` are history variables: families that were ended, those of them with a
refresh past its check at that moment, and families in which one refresh passed its check while another was past its own (`PastCheck`), or died between issuing and revoking.

### Screens, Access and Console

`Screens` has no variables: the pages and what they ask for, the rows every read takes its answer from, the rows every action changes, and
what each action's hook refreshes. `Access` compares two things that the code keeps apart: what the console offers
(`LandingRoute`, `Offered`, `Buttons`) and what the controllers require (`Requires`), for every account that the handlers of
`users.service.ts` can produce. `Console` is one tab: who is signed in, the page, the chosen site, one query with
its cache entry per site, the fetch in flight for each, and the button that has been pressed. `Perform` is the moment the API
commits: everything read before is old from then on.
Queries do not read one another, so following one, chosen in `Init`, follows all.

## The runs

| Run | Instance | States | Shows |
|---|---|---|---|
| `custody_safe` | 1 vehicle, 1 stay, 2 requests, 1 auction, 2 lots, 2 staff, 2 clients, fair | 461 486 | status, stay, request and lot of a vehicle agree; only a four-eyes release leaves; requests are decided and lots sold or pulled back |
| `bidding` | 2 bidders, 2 keys, amounts 1..3, 2 clients, fair | 269 682 | ladder, one winner, receipts add up, `EnglishAuction` implemented, every bid ends as won or lost |
| `ledger` | 2 releases, 2 payments, 2 callbacks that succeed, fail or differ, totals 0 and 2, amounts of 1, 2 clients | 1 417 976 | never overpaid, status says what is paid, voids leave a trail, numbers are gap-free; every success counts exactly once unless a read went stale, and then within bounds |
| `gate` | 5 frames of 3 plates, a yard with a bay and a depot, a zone of one place each, 3 stays, 2 clients | 1 016 760 | bays and vehicle pointers agree with the stays; zones overfull by a race only; one stay per arrival |
| `registry` | 1 vehicle, 1 lookup, 1 worker of the queue, 1 run of the sweep, 2 financiers, 2 attempts, 2 crashes or failing jobs, fair | 226 861 | pending vehicles have a lookup to come; history agrees; who stays recent is asked about unless its job was given up; lookups settle |
| `registry_dragged` | the same, with 1 crash or failing job | violation | a late answer drags a parked vehicle back |
| `outbox` | 2 events in batches of 2, 2 replicas, 2 attempts, 1 crash, 1 replay, fair | 243 618 | an event is dead only after its attempts, and settles |
| `outbox_twice` | 1 event, 2 replicas | violation | two replicas publish one event |
| `sessions` | 1 user, 1 tab, 3 tokens, 2 calls, 1 reload | 510 192 | no token is presented twice; one live token per family that was not forked; ended sessions stay ended |
| `access` | 3 accounts of up to 2 roles, all 7 roles | 13 482 | what the console offers, the API serves; portal users are linked |
| `charges` | 6 books of plans, 3 rules, 2 writers, 2 calculations, 1 attached rate | 208 672 | the ladder walk equals the contract; an exit bills the whole stay under its plan |
| `console` | 2 people, one of a financier, 1 site | 835 746 | rows are those of the person and the site shown; one's own change is seen |

**Bounds.** Most bounds are the sizes of the constant sets: rows are never deleted,
so a table of n rows ends after n insertions. The others are named constants that cap
crashes, failing jobs, reloads, replays, calculations and acts by hand (`MaxCrashes`, `MaxTroubles`, `MaxReloads`, `MaxReplays`, `MaxRows`,
`MaxAttach`, `MaxAnswers`); `MaxAttempts`, `MaxFailed`, `Threshold` and `BatchSize` are settings of the program.
Two clients (workers, replicas, writers, calls) are two
transactions that overlap, which is what every race of this code needs: each
stale read is undone, or not, by one other commit. Two requests let one be cancelled
while the other is under way; two lots let the vehicle be listed again while its first listing is being dealt with. A vehicle does not come back within
`custody_safe`, for which a second stay would be needed; there `OnSiteIffStaying`, `FourEyes` and `LeavesByRelease`
rest on their proofs, which hold for any number of stays. Two bids let a leader be superseded and lose; a total of 2 paid in amounts of 1
gives a partial and an exact payment, and on a total of 0, the invoice that needs no credit note, any is excessive. Two callbacks may tell of one payment or of two. What the
gateway may also say and the run leaves out is PENDING, which at most undoes a success as FAILED does, and REFUNDED, which the table refuses of a payment that is pending. One place per zone
is full after one admission, and the second client is the one that overfills it. The plans of `charges`
have every billing unit, rounding, free-unit policy and slab kind, and one that is broken. One site and "all sites" are the two
headings of the console that can be confused. Two events in one batch let the first fail before the second is
dealt with. One lookup row is where workers meet; what a second lookup of the same vehicle would do after the first has failed is
outside the instance of `registry`, and with one vehicle the backfill is never crowded, which `AskedInTheEnd` excepts anyway. A vehicle stops being recent (`Age`), and a kept job is dropped (`Forget`),
only while nobody asked about it, since nothing else reads either. Three tokens are a sign-in and two refreshes of it, or two sign-ins and a refresh. A page is not loaded again while its sign-in is under way, and a sign-in's answer is not lost.
Clients, stays, rows and members of staff are interchangeable in the definitions where a symmetry set is used
(`ledger`, `gate`, `sessions`, all without liveness).

**Deadlock** is checked in `console`, where a tab can always do something. Elsewhere a small instance does
stop: rows are used up, every vehicle has left, every event is relayed.

**Fairness.** Nothing in the server makes an operator act, so fairness is stated
exactly for the steps people or timers take, and the properties read "if they act".
- `YardCustody!FairSpec`: a decision, the completion of an approved release, the
  close, the winner, the settlement and the last receipt are weakly fair. Nothing is
  assumed of requests, holds, cancellations or bids. `RequestIsDecided` then says that
  the four-eyes rule can never lock a request: somebody other than the requester can
  always decide it, and the decision can always move the vehicle.
- `AuctionBidding!FairSpec`: the window passes and the auction is closed (weak); an open
  transaction ends (weak fairness of `Rollback`, the transaction timeout of
  `prisma.service.ts`); the selection of a winner is retried until it commits (strong,
  since another transaction of the same client may disable it in between).
- `Registry!FairSpec`: the circuit's cooldown ends, a job that is
  waiting is taken, a worker goes on with what it has begun (weak); the retry sweep comes to every lookup that keeps being due
  (strong: a lookup is not due while a worker has it); and of the backfills that find a vehicle without crowding and may enqueue its job, not all are lost
  (`Queues`, strong). Nothing is assumed of a crowded backfill, which takes any 50, nor that the driver ever drops a job, that a job succeeds, or that a
  provider is there. So `AskedInTheEnd` does not speak of vehicles not seen for seven days, beyond the backfill's limit, or whose backfill job was
  dead-lettered, nor of a system without a provider. `LookupSettles` is only claimed while no process crashed, since a crash strands a lookup
  IN_PROGRESS for ever. That some replica runs workers (`workersEnabled`) is presupposed.
- `Outbox!FairSpec`: each replica's timer fires, and a drain goes on (weak). Which failed rows are due again is left open, and every
  due row is in some batch.

## The proofs

Each theorem holds for all values of the constants that satisfy the module's assumptions: any number
of rows, people, clients, workers, replicas and tabs. The runs show the same properties on
small instances, with liveness besides.

| Module | Theorem | States | Says |
|---|---|---|---|
| `YardCustody_proofs` | `Custody` | `OnSiteIffStaying /\ OneActiveStay` | on site exactly with an active stay, never two |
| | `AlwaysFourEyes` | `FourEyes` | nobody's own word releases |
| | `OnlyReleaseLeaves` | `LeavesByRelease` (action) | the only way out |
| | `ReleaseStatusBacked` | `ReleaseStatusHasRequest` | a release status has the request behind it |
| | `AuctionStatusBacked` | `AuctionStatusHasLot` | an auction status has the lot behind it |
| | `HammerKeepsVehicle` | `BiddingKeepsVehicle` | nothing takes a vehicle under the hammer elsewhere |
| `AuctionBidding_proofs` | `BidsClimb` | `Ladder` | each bid beats all earlier ones, numbered without a gap |
| | `HighestWins` | `WinnerTakesAll` | the winner is the highest bid, all others lost |
| | `FirstSelectionStands` | `WinnerIsFinal` (action) | the first selection decides |
| | `ReceiptsAreCounted` | `ReceiptsAddUp` | the settlement records what was paid, unless receipts overlapped; never more than that or than is payable |
| | `LotIsEnglishAuction` | `IsEnglishAuction` (refinement) | the transactions implement `EnglishAuction` |
| `Ledger_proofs` | `CallbackOnce` | `ChangedByCallback` (action) | a payment changes as its callback says, once |
| | `PaidAsStatusSays` | `StatusSaysPaid` | never overpaid; paid and status agree |
| | `NoGaps` | `NumbersGapFree` | both number series |
| | `VoidHasTrail` | `VoidLeavesTrail` | a credit note exactly where value was voided |
| | `NoPaymentLost` | `EveryPaymentCounts` | all that was received is paid on the invoice unless a read went stale; in any case a paid invoice never reads as unpaid |
| | `NoCreditTwice` | `NothingCountsTwice` | no more is, unless a read went stale; in any case each callback credits at most once |
| | `ExitIsBilled` | `ExitBillsTheStay` (action, of `Charges`) | the exit bills the whole stay by its plan, no less than what had accrued |
| | `ContractIsCharged` | `ChargedByPosition` (of `Charges`) | the engine charges what the ladder says position by position |
| | `PlanChosen` | - (`Resolve`, of `Pricing`) | only plans of the newest contract version in force, the first by class, site, priority and beginning; none exactly when there is none of that version |
| | `RuleChosen` | - (`Evaluate`, of `Pricing`) | the applicable rule before all others, whatever order they are loaded in |
| `Gate_proofs` | `BayHeld` | `BayHeldByItsStay` | a bay is occupied by exactly one active stay |
| | `StayKnown` | `VehicleKnowsItsStay` | a vehicle's pointer and its active stay agree |
| | `OpenedOnce` | `OneStayPerArrival` | one arrival, one stay |
| | `OverfullByRace` | `OverfullByRaceOnly` | over capacity by the racing requests at most |
| `Registry_proofs` | `PendingIsPending` | `PendingHasLookup` | a pending vehicle has a lookup to come |
| | `HistoryFollows` | `HistoryAgrees` | the financier and its history move together |
| `Outbox_proofs` | `NoneGivenUpEarly` | `DeadAfterTrying` | dead only after `MaxAttempts` failures |
| `Sessions_proofs` | `EndedForGood` | `EndedStaysEnded` | an ended session has no live token |
| | `SpentOnce` | `NeverSpentTwice` | no token is presented twice |
| | `LiveOnce` | `OneLiveToken` | one live token per family that was not forked |
| `Console_proofs` | `HeadingsAgree` | `HeadingAgrees` | rows are of the person and the site shown |
| | `OwnChangeSeen` | `SeesOwnChange` | an answer read before one's own action never looks fresh |
| | `PortalScoped` | `PortalUsersAreLinked` (of `Access`) | portal users, and no others, have a financier |
| | `ConsoleServes` | `ConsoleAgrees` (of `Access`) | landing pages, offered pages and shown buttons are served, for any roles |

Each module also proves `TypeCorrect`: `TypeOK`, together with what refers to what (`Sound`, `Typed`; in `YardCustody_proofs` the
references are a theorem of their own, `AlwaysGrounded`), and `Ledger_proofs` also `ChargesType`. Everything else is proved relative to it.

**Assumptions.** Those of the modules, which TLC evaluates in their runs, and no others: the value that stands for NULL is no row
(`NobodyAssumption`, `RegistryAssumption`, `SessionsAssumption`, `GateAssumption`) and no number (`PricingAssumption`); amounts, totals, reserve and increment obey the CHECK
constraints (`MoneyAssumption`); limits are numbers, and at least one where the program's settings are
(`OutboxAssumption`, `RegistryAssumption`, `SessionsAssumption`); sites, zones and bays refer to one another
(`GateAssumption`); a server serves finitely many requests at a time (`ClientsAssumption`, for the count in `OverfullByRaceOnly`);
and a book has finitely many plans, each as the columns and CHECK constraints of the database admit it (`RatePlan`, `ChargesAssumption`; the program's
validation of a ladder is not assumed, it is part of `Calculate`).

Two theorems have hypotheses of their own. `RuleChosen` takes finitely many rules with unique codes, as the unique index of `billing_rules` has it. `ContractIsCharged` asks that no stay outlasts the ladder, that is, has more units of its plan than
`MaxLadderUnits`. An open-ended slab ends at MAX_LADDER_UNITS, 100 000 (`billing/domain/charge-engine.ts:57` and `:196`), and the units beyond it are free
of charge. By the hour that is more than 11 years, by the minute 69 days and a half: a longer stay under a plan by the minute is charged for its first
100 000 minutes only. As a unit is a minute at least, the theorem holds of every stay of fewer minutes than that (`ShortStaysAreCharged`).

### Why the invariants hold

Hardly any property is inductive. What it takes is, in every case, a statement about what an open
transaction has read and not yet used: the thing no test looks at. Each strengthening was checked
with TLC on the run's instance before it was proved.

- **Custody.** `OnSiteIffStaying` needs `OneActiveStay`: a second active stay would
  keep the vehicle on site after the first closes. All steps but two are *quiet* (no vehicle
  gains or loses an active stay, and every move stays inside the yard), shown from the
  transition tables (`MovesInside`); `Admit` and `CompleteRelease` carry both columns across the boundary together. The stale
  `liftHold` is the delicate case: it is quiet only because the CHECK
  `parking_sessions_open_has_no_exit` refuses to reopen a closed stay. `ReleaseStatusHasRequest` needs `Grounded`, and
  that a stay keeps its vehicle: no step but those of the request puts a vehicle in a release status.
  `AuctionStatusHasLot` and `BiddingKeepsVehicle` are proved together with `OneLiveLot`, the partial unique index: a lot
  under the hammer can lose its vehicle only to another lot of it.
- **Bidding** (`BidInv`). The lot's highest amount is that of a bid (`Highest`); before and after the selection the bids' statuses follow
  from the winner (`Unwon`, `Won`); an open selection has read the highest bid of a closed lot
  (`Chosen`), so a second one names the same bid; and the vehicle of a lot that is being settled is where
  no selection can start from (`Gone`), so a late one fails. `MoneyInv`: what an open receipt will write was within the payable when it was
  read, and the payable does not change. As long as no two receipts overlapped, one that is open has read an amount that still stands (`Counted`). The refinement goes step by step: `OpenAuction`, `CommitBid`, `CloseAuction` and the first `CommitSelectWinner` are the
  steps of `EnglishAuction`; the rest stutter, a second selection too, since the highest amount determines the bid that stands.
- **Ledger** (`Held`, `BillInv`). A request that works on a callback is the only one to do so, and the callback is still
  STORED: every step is of one client, which takes a callback that is new or goes on with its own (`EveryMove`). What an open credit will write lies
  between 1 and the invoice's total (`Credits`), and totals never change once issued. The series row is locked: one open generation at
  most, whose number is the series' next (`Numbering`), and numbers are a bijection onto what was allocated.
  Balances are compared with payments for any number of requests. What a callback that is about to credit has read of its payment is what the row says, and it alone holds
  that row (`Fixed`, with `Beginnings`: nothing is paid on an invoice that does not exist, and finitely many payments and callbacks do). Outside `raced`, the balance is
  the sum of what was received, what an open credit will write is that balance plus its payment, and a payment found open is open still (`Settled`). So every commit
  adds the payment that succeeds to the sum and to the balance, or leaves both (`OneReceived`, `SameReceived`, for any finite set of payments). In any case a balance,
  old or new, has a cause for each of its parts, by hand or a consumed callback, and causes never go away (`Backed`); a credit is positive, so
  a credited invoice is never written back to nothing (`Shown`).
- **Plans.** A plan's rank is four integers compared in order, an order that is transitive and irreflexive, so a finite book has a first (`SomeBest`); finitely many
  versions have a newest (`SomeNewest`).
- **Charges** (`ChargesInv`, `Ages`). A transaction that closes the stay has read a version; as long as that is the row's, the stay is open and its snapshot
  the one that was priced (`Carried`). Attaching a rate looks at no version but writes a new one, so a
  close that read the stay before it fails. A stored row is what the
  engine makes of a plan of the book (`Stored`), and FINAL rows exist only once the stay has closed. That the exit bills no less than what had accrued needs the
  engine to be monotone in the length of the stay (`ChargeGrows`): units, each slab's overlap, cap, minimum and each tax component grow with it. That the
  engine charges what the contract says is shown for one position more at a time (`WalkIsOwed`): it adds one unit to the slab it lies on, which is one at
  most since the ladder was validated, and a flat slab is charged exactly when a position lies on it; days begun are counted likewise.
- **Gate** (`StayInv`, `ArrivalInv`, `Room`). Admission writes the stay, the vehicle and the bay in one step under locks, so `Occupied` and `Pointed` speak
  of rows only. One arrival has one stored frame (the unique keys), one request of its own at the gate at most, and
  none once it opened a stay. Overfull zones: the stays in the zone and the requests that have counted it stay below the capacity plus the
  number of requests; a step that adds a request to the second saw room in the first.
- **Registry** (`PendingInv`). A settled lookup left its vehicle with an answer, so a worker that only now marks the
  vehicle pending finds that it may not.
- **Outbox** (`AttemptsBacked`). The attempts in the row, and those in every copy a relay holds, are backed by as many failures.
- **Sessions** (`EndedInv`, `ThreadInv`). A refresh past its check in an ended family is excused, and families that do not exist
  cannot have been ended. While no page is reloaded a family is in the hands of one tab or one request (`Threaded`). In a family that was not forked one refresh at most is past its check, and as long as
  it has not issued, the token it presented is the only one that can be live (`OneEach`), whatever is reloaded, lost or ended meanwhile.
- **Console** (`Own`, `Marked`). Whatever is cached or in flight is of the person who is signed in and was asked for the key it is kept
  under; signing in and out empty both. While an action is under way old rows may look fresh; its success marks them, because it refreshes every
  query of its page whose rows it changes: `SuccessRefreshes`, proved for all buttons and queries of `Screens`.
- **Access** (`ScopedAccounts`). Account changes keep the roles and the link of every account in step. That is what `ConsoleAgrees` rests on: a person who lands on the portal
  is linked, so holds a portal role; a button is shown
  for the very permission its endpoint requires; and a role that grants what opens a page also grants what the page's query requires (`Coherent`, `EveryRole`). A person with several roles holds at least what each of them grants, so it is enough to go role by role.

### Model-checked only

- All liveness (`RequestIsDecided`, `HammerFalls`, `BidsAreSettled`, `AskedInTheEnd`, `LookupSettles`, `EventSettles`): fairness and ENABLED are beyond the prover.
- Which plan is chosen between two that tie in all four ranks, and what the rules' conditions say: `Resolve` takes either, `ExitBillsTheStay` holds whichever rule decides.
- The two properties that the code violates.

## Where the code and its words differ

Two disagreements have a run of their own; their source lines and the sentences they contradict are
in `PROJECT.json` under `findings`.

- `PublishedOnce` (`infrastructure/outbox/outbox.service.ts:153`): the locks of the relay's SELECT end with the
  statement, so two replicas publish one event.
- `NeverDraggedBack` (`registry/vehicle-registry.service.ts:463`): the status computed from an earlier read is written without a
  version, so a vehicle the gate parked meanwhile goes back to FINANCIER_MATCHED.

Others follow from the same kind of reads and were met while modelling; no run is spent on them.

Custody and auctions:
- Eligibility looks at the vehicle's status, not at its lot (`release/release.service.ts:972`). A vehicle whose lot is live goes back to PARKED
  when a failed request is cancelled (`:784`) or a hold that raced with the listing is lifted; it can then be released and leave.
- A hold placed between `addLot`'s read (`auction/auction.service.ts:301`) and its insertion
  does not stop the listing (comment at line 272).
- `cancel` of a blocked request (`release/release.service.ts:799`) throws once the vehicle has left,
  although the comment above it expects that case.
- No operation moves a vehicle from SOLD to EXITED, nor the vehicle of a lot without bids
  back to the yard (`packages/contracts/src/state-machines.ts:37` and `:96` say both happen).
- `selectWinner` (`auction/auction.service.ts:755`) writes WON over ACCEPTED, a pair BID_TRANSITIONS
  does not have, without consulting it; `SettlementStateMachine` has no caller.
- Concurrent settlement receipts overwrite one another (`auction/auction.service.ts:992`), and a stale partial receipt puts the settlement of a
  sold vehicle back to PARTIALLY_RECEIVED (`:1006`).

Money:
- Concurrent payments overwrite one another (`invoice/invoice.service.ts:586`), and one that read an invoice before it was voided revives it.
- Two callbacks of different ids that report one success may each credit the invoice, when both read the payment (`payment/payment.service.ts:440`) before either writes it, and a failure that
  read the payment before its success overwrites it (`:472`), so that the invoice keeps money no payment shows. The comment says "Only then apply it" of payments that are "not already terminal" (`:319`).
  These, and the payment lost above, are the cases `raced` marks.
- A callback that was stored and not applied, because the process stopped, is answered as a duplicate for ever (`payment/payment.service.ts:366`).
- `markSent` (`invoice/invoice.service.ts:619`) and `initiateGatewayPayment` have no caller among the endpoints. The
  second is modelled because callbacks presuppose it; the first is not, so SENT is never entered.
- An accrual that races with the exit becomes the current calculation over the FINAL one, and may be computed beyond the exit ("A stay never accrues beyond its
  exit", `billing/charge.service.ts:128`). A rate attached while the stay closes re-rates a closed stay, and `attachRatePlan` replaces a rate that was resolved.
- The inputs hash of a calculation includes the instant to the millisecond, so every accrual writes a row.
- A ladder whose last slab is closed leaves the units beyond it free of charge.
- Revenue "collected" is said to be payments received in the window (`reporting/reporting.service.ts:288`) and sums what was ever paid on invoices issued in it, void ones included.

Rates:
- The header of `contract/rate-resolution.service.ts` (`:43`) orders plans by class, priority and date; the code also puts a plan that names the site before one that does not, after the class (`:206`).
- A financier may have several active contracts, and the unique index allows one active version of each. Only the newest version of all of them is looked at, and if it has no plan for
  the site and class the stay is unrated, whatever the others hold. The comment (`:104`) says of two active versions that the index "makes that impossible".

Registry and gate:
- "if the enqueue was lost, this catches the vehicle within the hour rather than leaving it permanently unenriched" (`jobs/jobs.service.ts:147`). Not if a backfill's job of
  it was dead-lettered: the failed job is kept for seven days (`infrastructure/queue/queue.service.ts:95`) under the id every later backfill uses, and a vehicle not seen for seven days
  is no longer taken. Nor is it certain beyond 50 candidates, which are taken in no order. `AskedInTheEnd` names these.
- A crash leaves a lookup IN_PROGRESS for ever; the loser of two workers may write its failure over the other's success; a late answer
  overwrites a manual verification; a half-open circuit lets every call through. `retryLookup` has no caller.
- A bay that another admission has locked is skipped, and none is allocated although that admission is then rolled back (`parking/gate.service.ts:698`).
- A crash between a stored capture and the gate leaves the capture RECEIVED: it is not admitted and every repeat is a duplicate. A capture answered ALREADY_ON_SITE
  stays RECEIVED or PENDING_REVIEW.

Identity and console:
- Two refreshes of one token that are both past their checks each issue a live token, and a crash between issuing and revoking leaves two
  (`identity/auth.service.ts:225`): the families in `forked`.
- A refresh that is past its check when the sessions of its user end still issues a live token (excused in `EndedStaysEnded`). Any
  revoked token is reported as reuse. A page load during a refresh presents a token that has been rotated, which ends the family.
- Concurrent failed sign-ins count as one, and a concurrent success erases a lock (`identity/auth.service.ts:402`). A sign-in that read its account before it was suspended issues a token after.
- The console's refresh that ends after another person signed in overwrites that person's tokens (`lib/auth-context.tsx`).
- Roles for machines can be given to people who sign in (`identity/users.service.ts:58`); an administrator may take the last administrator role away from himself.
- The chosen site survives the session in memory (`lib/site-context.tsx:53`), although "Site selection is per-user" (`lib/auth-context.tsx`).
- The release panel looks for the request of a stay among the five newest only (`yard/[id]/page.tsx`), so an older open one cannot be decided there.
- Holds, lifted holds and attached rates do not refresh the eligibility beside them, nor simulated and reviewed captures the
  vehicle panel: the pairs of `Screens!Unrefreshed`.
- MANAGEMENT is offered the gate page, whose review queue it may not read; FINANCIER_USER is offered the dashboard, whose releases it may not
  read; the navigation and the command palette both list `/users`, for which there is no page. `ConsoleAgrees` speaks of the offered destinations that have one, and asks for every query of the landing page only, elsewhere for the main one.
- The top-level README of the repository calls release, invoicing, payment and auction "schema only"; all four
  are implemented.

## Not modelled

- Row-level scoping by organisation, site and financier: each read carries its own WHERE clause, and a model of it would repeat them.
- Audit rows, settings, storage, crypto, health, logging, the seed's data: they decide nothing that a handler reads back.
- Financier matching: string similarity; `Registry` takes its answer as given. Plate normalisation, DTO validation, formats and rounding of money. `ChargedByPosition` takes the billable units of a stay from the engine; that they are rounded as the plan says is not checked against a second definition.
- The registry's rate budget (`consumeRateLimitToken`), which only puts a lookup off.
- The figures of the reports; the rows they come from are in `Screens`.
- The console's rendering, forms, filters and pages of a list; the queries a page asks for without showing them to the person who acted.
  `Console` says nothing of a refresh that cannot be started over because the page's first load is still under way (`missed`), nor of an action
  whose answer is lost.
- Bidder suspension, lot withdrawal, cancelled auctions, refunds, invoice cancellation: the tables
  allow them and no operation writes them.
- The cleanups of idempotency keys and of tokens that expired a month ago.

## The plan

Done: all modules above, and a theorem for every safety property that the runs check and the code satisfies.

What could follow:
1. The hazards without a property (`hazards` in `PROJECT.json`, each with its reason): a callback that was stored and never applied, failed sign-ins that are lost, a bay that is skipped and freed, a
   lookup's success that its loser overwrites, and lots of which one fails to open. The first four are facts of the code; the last needs a custody run with two vehicles, whose
   state space is too large beside two requests in flight, and rests on the theorems.
2. `Access`: every query of the pages that are offered, once the pages above no longer ask for what their readers may not read.
