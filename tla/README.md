# TLA+ models of the CLOX freight marketplace

CLOX lets a *sender* publish a freight job, *carriers* bid for it with a vehicle
and a driver, and staff look after what goes wrong on the road. Accepting a bid
charges the sender's fare through Stripe, locks the award and creates the trip;
proofs of delivery complete it and the carrier is paid. The API is NestJS with
Prisma on PostgreSQL (`src/api/src/modules`); the admin front end
(`src/admin`) calls it. The models cover the protocols between those rows,
Stripe, the front end's session and requests that overlap.

## 1. Inventory

Sources are under `src/api/src/modules` unless they begin with `admin/`.

| Component | State it keeps | Operations | What must hold | Modelled |
|---|---|---|---|---|
| Award payment: `payments/payments.service.ts`, `stripe.service.ts` | `Assignment`, CHARGE `PaymentEvent` rows, `StripeWebhookEvent`, Stripe intents | accept, accept after release, unwind, lock, failed payment, webhook, sync | nothing firm without a captured fare; a failed accept leaves no trace; captured fares settle | partly: `AwardPayment` |
| Bids: `matching/matching.service.ts` | `Proposal` | submit, withdraw, expire | an award is for a standing bid; one award per vehicle and driver | partly: `AwardPayment` |
| Jobs: `jobs/jobs.service.ts` | `Job` | publish, edit, cancel | open jobs have no award | partly: `AwardPayment` (cancel) |
| Settlement cycles and payout: `settlements/settlement-cycles.service.ts`, `payments.service.ts` | `SettlementLine`, `SettlementCycle`, TRANSFER, REVERSAL and REFUND rows | accrue, run a cycle, transfer per job, reverse, refund | a row stands for money that moved; a line is paid once | partly: `CarrierPayout` |
| Revenue split: `settlements/revenue-split.*.ts` | policy versions, packages, seats | resolve, allocate; publish | the lines add up to the fare | partly: `RevenueSplit` |
| Surcharges: `payments.service.ts` | `Surcharge` with its `PaymentEvent` | create, grow, charge, retry, mark paid, waive | paid means captured; the whole dwell is billed; a waiver stands | partly: `SurchargeLedger` |
| Disputes: `disputes/disputes.service.ts` | `Dispute` | open, triage, escalate, resolve, close | a ruling stands whatever payment was on its way | partly: `SurchargeLedger` |
| Trip lifecycle: `trips/trips.service.ts` | `Trip`, `TripStopProgress` | gates, start, geofence, proofs, completion | completion needs every stop and proof; no start without gates | partly: `TripDelivery`, `TripDesk` |
| Trip exceptions: `exceptions/exceptions.service.ts`, watchdog | `TripException` | open, replace, approve, reject, continue, release, escalate | one resolution, which stands; no trip stranded | partly: `TripDesk` |
| Carrier fleet: `carrier/carrier.service.ts` | `Vehicle`, `Company` | add, disable, retire, reactivate, submit, reassign | nothing drives unreviewed | partly: `FleetCompliance`, `TripDesk` |
| Compliance: `compliance/*.ts` | `ComplianceCase` | approve, reject, ask, escalate; expiry watchdog | what waits is listed; what lapsed is grounded | partly: `FleetCompliance` |
| Documents: `documents/documents.service.ts` | `ComplianceDocument` | upload, confirm | a document under review is in an open case | partly: `FleetCompliance` |
| Auth: `auth/auth.service.ts`, guards | `OtpChallenge`, `AuthSession` | code, verify, refresh, logout, revoke | a code starts one session; a revoked chain stays dead | partly: `AuthSessions` |
| Admin front end: `admin/lib/http/index.ts`, `admin/stores/auth-store.ts` | the tab's tokens, the refresh it runs | request, shared refresh, sign out, forced logout | a token is not presented twice; nobody is signed out by accident | partly: `WebSession` |
| Admin, ops and growth consoles | staff's view of all rows | disable and reactivate a company; queries | | partly: `FleetCompliance`, `AuthSessions` |
| Onboarding, notifications, audit, finance reports, web site, build files | one row at a time, or none | | | no, see 6 |

How they interact: every request is a handler of one service that reads and
writes the shared rows through Prisma and calls other services in process
(`payments` calls `trips.ensureTripForAssignment`, `exceptions` calls
`payments.adjustForMarketplaceRelease`, `trips` calls `payments` to bill a dwell
and to pay the carrier, `documents` joins cases of `compliance`). Stripe is
reached by calls that may fail or whose reply may be lost, and answers through
webhooks that may come late, out of order or twice. Watchdogs (payout cycles,
exceptions, expiry) run on timers in the same processes.

What is hard here: handlers that check outside a transaction and write inside it
or later; Stripe calls between two writes; compensation after a failed charge;
webhooks and polling that both apply one payment; the money part of a release
after the job is open again; watchdogs whose lists are older than the answers
they meet. `PROJECT.json` lists the hazards, each at its line.

## 2. Modules

| Module | What it is | Instances | Theorems |
|---|---|---|---|
| `AwardContract` | what the award of a job promises, without requests, rows or Stripe | | |
| `AwardPayment` | the handlers that award, pay, unwind, lock, cancel and release | `MCAwardPayment` | `AwardPaymentProofs` |
| `CarrierPayout` | how a captured fare is paid out, taken back and refunded | `MCCarrierPayout` | `CarrierPayoutProofs` |
| `RevenueSplit` | the shares of a fare and whose they are (operators) | `MCRevenueSplit` | `CarrierPayoutProofs` |
| `SurchargeLedger` | waiting surcharges and the disputes about them | `MCSurchargeLedger` | `SurchargeLedgerProofs` |
| `TripDelivery` | geofence, proofs of delivery, completion | `MCTripDelivery` | `TripDeliveryProofs` |
| `TripDesk` | gates, start, exceptions, changes of crew | `MCTripDesk` | `TripDeskProofs` |
| `FleetCompliance` | vehicles, certificates, review, expiry | `MCFleetCompliance` | `FleetComplianceProofs` |
| `AuthSessions` | one-time codes and chains of sessions in the API | `MCAuthSessions` | `AuthSessionsProofs` |
| `WebSession` | one tab of the front end and the refresh its requests share | `MCWebSession` | `WebSessionProofs` |

Conventions of all API modules: a request runs in a slot of `Calls` and is cut
where the code awaits PostgreSQL or Stripe and the order can matter; a Prisma
`$transaction` or a single update is one step. `call[c]` says where a handler
waits and what it read before, so a check that is stale when its write comes is a
behaviour. An update by id whose row is gone throws, and the handler ends. A
crash empties a slot. In the later modules a behaviour chooses its bounds once,
in `scope` (`Scopes` is the set it chooses from): one run then covers many
requests of every kind one at a time, and the hard cases two at a time, without
the product of both. `width` is how many requests may overlap.

### AwardPayment

| Variable | Code |
|---|---|
| `job`, `proposal`, `trip` | `Job.status`, `Proposal.status`, `Trip.status` (with `startedAt`) |
| `asg[j]` | the one `Assignment` of a job (`jobId` is unique): a ghost id that changes when the row is deleted and made again, its status, its bid |
| `lines[j]`, `exc[j]` | whether the job has `SettlementLine`s and whether they are VOID; an open `TripException` |
| `pe[e]` | a CHARGE `PaymentEvent`: status, the proposal in its unique idempotency key, its metadata, whether `stripePaymentIntentId` is set |
| `pi[e]`, `declined`, `recorded`, `aged` | Stripe's intent for the row, intents with a failed attempt, `StripeWebhookEvent` rows, rows past the 45-minute SCA window |

Merged because no other handler can tell: the job read and the prior-charge read
of accept; the two reads of `markPaymentFailed`; the reads and the update of
`adjustForMarketplaceRelease`; the reads of `releaseToMarketplace` before its
transaction. What a handler read of a charge row's metadata it carries in its slot
(`meta`, `row`): `unwindFailedAccept` gives back the reservation, bid and peers its
caller read before it asked Stripe, and `markPaidAndLock` locks the assignment the
metadata named before its transaction, whatever the row says by then. A call to
cancel an intent may fail, which the code logs and forgets. `StartTrip`,
`CompleteTrip` and `OpenException` are one step each here; `TripDelivery` and `TripDesk` cut them. Eligibility, prices, GST and
e-mails are left out. A crew is a set of tokens: a vehicle and a driver.

### CarrierPayout

| Variable | Code |
|---|---|
| `award`, `carrier`, `trip` | `Assignment` (OPEN: the job is up for bids), its carrier, `Trip.status` |
| `line[l]`, `cycle[y]` | a `SettlementLine` (status, job, recipient) and a `SettlementCycle` (status, how many lines existed when it was opened) |
| `transfer`, `reversal`, `refund` | `PaymentEvent` rows TRANSFER, TRANSFER_REVERSAL and REFUND |
| `sent`, `reversed`, `refunded` | what Stripe did |

A call to Stripe is one step that ends in an answer, in an error before Stripe
acted (`refused`), or in an error after it (`lost`). Stripe repeats the answer of
a key it knows, and refuses the key for another destination. The fare is captured
from the start; a job has one line for its carrier and one for staff, since the
state's and the local partner's behave alike and the platform's is never
transferred. Amounts are equal here; what they are is `RevenueSplit`. A release looks only at
its exception, so it may also come when the trip is completed. A cycle
covers what is created until the end of its day: at least the lines of the moment
it opened, and any number of the next. With `ClearingDays > 0` the transfer on
completion never pays, because nothing calls it again.

### RevenueSplit

`EffectiveNational` is `getEffectiveNational` (the last twenty published
versions, those not yet in force or invalid passed over, a default if none is
left), `Beside` what `resolvePercents` makes of an admin's package, `AllocateCents`
the rounding (`Math.round`, halves up; the local share takes the rest), and
`ResolveForJob` the four lines with their payees: a local referrer is paid or
nobody is, a vacant seat's line is HQ's. The rows are arguments. Publishing is
not modelled; a package may have been checked beside any earlier policy.

### SurchargeLedger

Row `0` is the surcharge of a stop and `w` its sibling for the dwell past what
was billed, named as their `idempotencyKey`s are; amounts are counted in the
smallest unit that is billed. A row carries its `PaymentEvent` (status, intent,
`stripeAttempt`); an intent is named by Stripe's key: row, amount, attempt.
`createSurcharge` (`Create`, `Grow`, `Sibling` steps), `chargeSurcharge` with its
retries, `markSurchargePaid` from the charge or the webhook, `waiveSurcharge`,
and the five dispute handlers are cut at their awaits. One stop of one trip, and
disputes about its surcharges only. The mass surcharge is a step of `TripDesk`.

### TripDelivery

`fence[s]` and `pod[s]` are the geofence's and the proof's columns of
`TripStopProgress`; `pos` is where the truck is and `trail` the history that
`Debounced` compares with. A sample reads the stops, decides which is active and
writes its counters (`evaluateGeofence`); the notice of arrival runs on after its
request; the three proof handlers and `completeTripIfReady` follow. Distances are
inside or outside, `Bounce` is `antiBounceSamples`. `due` stands for waiting
surcharges, which block the last proof.

### TripDesk

`trip` carries the gates (`safetyPassedAt`, `safetyFailedAt`, the
`[SAFETY_SUSPEND]` mark, mass), the crew and the status; `case[e]` a
`TripException` with the proposed crew; `swept` the watchdog's list. Handlers:
`safetyCheck`, `massCheck`, `startTrip`, `open`, `proposeReplacement`, `approve`,
`reject`, `continueTrip`, `escalate`, `releaseToMarketplace`,
`reassignAssignment`. `upsets` counts crashes and changes of the fleet from
elsewhere. A started trip just completes here.

### FleetCompliance

One carrier: `company` (status and `statusBeforeSuspend`), `vehicle[v]`, `doc[d]`
(status, vehicle, case, whether it lapsed), `kase[k]`, and the watchdog's position
in its list (`sweep`). The two insurances are one document; a roadworthy
certificate belongs to a vehicle. Requests come in kinds (`add`, `drop`, `file`,
`submit`, `decide`, `admin`) that a scope allows. Left out: drivers and licences,
dangerous goods, partners' verification, decisions on one document alone except
by its case, previews. A request that files certificates decides whether to open a
case again by the status it read (`asked`).

### AuthSessions

`code[k]` is an `OtpChallenge`, `session[s]` an `AuthSession` with its `familyId`
(the first session of the chain) and, as history, the code that started it. Slots
hold a verification between its check and its consumption, and between the
consumption and `issueTokens`; a refresh between its checks, its rotation and
`issueTokens`. `MaxTries` stands for the five attempts.

### WebSession

`store` is `useAuthStore` (the session whose tokens the tab holds), `request[r]` a
request with its bearer and `_retry`, `refresh` the module-level `refreshPromise`
with the request behind it. A 401 joins the refresh that runs or begins one with
the token the store holds by then (`QueueRefresh`), its answer is written to the
store and those who waited send again or are rejected (`DeliverRefresh`), a 403 of
a suspended account leaves the page (`Bar`). The API answers in one step, because
how its steps interleave is `AuthSessions`. The account is a user's: a suspended
admin gets a 401, as from a revoked session. One tab; a login may follow a
sign-out while the old session's requests are still under way.

## 3. Runs

`PROJECT.json` lists the properties of each run. Deadlock is off everywhere: an
instance stops when its rows, requests and faults are used up.

| Run | Instance | Shows |
|---|---|---|
| `award_overlap` | 1 job, 1 bid, 2 slots, 1 charge row, 1 fault, every request but placing and withdrawing bids, fair | what holds however requests overlap: `LockedIsCaptured`, `OpenJobUnassigned`, the refinement of `AwardContract`, and that a captured fare settles |
| `award_serial` | 1 job, 2 bids, 2 charge rows; every request, one at a time (`CONSTRAINT` `Alone`), 1 fault | `OpenJobBidsOpen`, `AwardStands` and `ReservationRecoverable`: unwinding gives every bid back; also over a release and another award, a reservation is for a standing bid and has its charge row, a firm award keeps its charge row and its lines |
| `crew_double_booked` | 2 jobs, 3 bids, 1 slot, a shared truck | `CrewSingleAward` is violated |
| `payout_overlap` | 1 job, 1 carrier with a connected account, staff without one, 2 slots, 2 lines, 1 cycle, 1 fault, all requests, fair | `RowsBacked`, `CoveredLineSettles` |
| `payout_serial` | 2 carriers, 1 slot, 4 lines, 2 cycles, 1 refused call | `LinePaidOnce`, `VoidStays` over a release and a re-award |
| `surcharge_dispute` | two units of dwell, a retry, a dispute, a fault one at a time; two requests at once over one unit | paid is captured, a capture is booked; one at a time the whole dwell is billed and waivers and rulings stand |
| `trip_delivery` | a pickup and one or two dropoffs, `Bounce` 2, a detour, a bill, a fault; two requests at once on the short route | a completed trip is proven and every trip completes; one at a time stops are in order and debounced |
| `trip_desk` | two vehicles, two drivers, one or two exceptions, an upset | a started trip was cleared by its driver; resolutions stand and strand no trip; the watchdog answers what waits |
| `fleet_compliance` | two vehicles, three documents, two cases, a lapse, a crash | what is under review is in an open case; a lapsed vehicle is grounded |
| `unreviewed_vehicle` | the same, a carrier that only adds and drops vehicles | `ReviewedBeforeUse` is violated |
| `auth_sessions` | 2 codes, 3 sessions, 2 tries, 1 crash, one or two requests at once | a code starts one session; one at a time, a revoked chain stays dead |
| `web_session` | three requests of one login; two with a second login, a lost answer or a reload, or both, fair | no rotated token is presented, nobody is signed out by the tab itself, every request settles |

`MCRevenueSplit` has no behaviours. It compares `RevenueSplit` with reference
definitions (the loop over sorted versions, the nearest cent) in assumptions that
TLC evaluates with the two payout runs.

Why the bounds are enough. Every interference of the API is between two handlers
on one job, one trip, one carrier or one account, because everything a handler
reads again is keyed by it; three handlers at once repeat what two do. Two charge
rows are what a retry or a rival bid needs; `award_overlap` has one, so overlap with
rival bids, a re-accept or two rows is left to the theorems of section 4; two units of dwell are one row and
its sibling, and growth in between; two dropoffs are what makes a dropoff not the
last; two drivers and vehicles are one change of crew and the way back; three
sessions are a chain and a refresh of each end; three requests of a tab are one
that begins a refresh, one that joins it and one that is denied after it. One
fault is one crash or one lost reply; a second one only repeats an interrupted
handler. Properties that say *one request at a time* are guarded by
`scope.width = 1` (`award_serial` cuts overlap with `CONSTRAINT` `Alone`) and are
broken, by the code, when requests overlap: section 5 lists how. Slots and bids
that are alike are symmetry sets, never under fairness.

Fairness, where a run checks liveness: a handler that has begun continues until
it ends or its process dies (weak fairness of `Step(c)` or `Steps(c)`: the event
loop and the database answer in the end). Stripe redelivers
`payment_intent.succeeded` until a delivery is recorded (strong fairness of
`HookSucceeded`, since a free slot may come and go). Timers tick: a watchdog runs
its cycle or its list again while a slot is free (strong fairness of `RunRead`
and `SweepRead`, weak of `Sweep`). For `TripCompletes` the truck follows its
route, the app goes on posting its place and asking for the proofs, and what is
due is paid or waived in the end. For `RequestsSettle` the API answers a request
of the tab, or the client's 30 seconds run out. Nothing else is assumed of
senders, drivers or customers.

Each property of a passing run names in `PROJECT.json` a seeded fault of the code
(the operators marked `seeded fault`) under which TLC finds it violated.

The two violated runs: `crew_double_booked` - accepting asks nobody whether the
bid's truck is awarded by now, and an unwind gives a bid back that lost its truck
meanwhile, so one truck holds two awards; `unreviewed_vehicle` - disabling a
vehicle that waits for review makes it SUSPENDED, and reactivating it ACTIVE.

## 4. Proofs

All theorems hold for any values of the constants, from the module's named
assumption alone. The proof modules:

| Module | Theorems | What each states |
|---|---|---|
| `AwardPaymentProofs` | `TypeCorrect`, `FareBeforeAward`, `OpenMeansUnassigned`, `AwardImplementsContract`, `ReservationsRecoverable`, `RecoverableUntilRelease`, `RecoverableAlone`*, `AwardsStandAlone`*, `BidsOpenAlone`*, `BidsOpenUntilRelease` | `TypeOK`, `LockedIsCaptured`, `OpenJobUnassigned`, the refinement of `AwardContract`, `ReservationRecoverable`, `AwardStands`, `OpenJobBidsOpen` |
| `CarrierPayoutProofs` | `PayoutTypeCorrect`, `LedgerBacked`, `VoidLinesStay`*, `LineIsPaidOnce`*; `SharesAreFair`, `ResolvedTotal`, `LinesAddUp`, `PolicyInForce`, `PercentsOfJob` | `TypeOK`, `RowsBacked`, the action property `VoidStays`, `LinePaidOnce`; the operators of `RevenueSplit` |
| `SurchargeLedgerProofs` | `LedgerTypeCorrect`, `PaidWasCaptured`, `RulingHolds`*, `PaidForTheAmount`*, `WaiverPaysBack`*, `DwellIsBilled`* | `TypeOK`, `PaidIsCaptured`, `RulingStands`, `PaidInFull`, `WaivedKeepsNothing`, `BilledInFull` |
| `TripDeliveryProofs` | `DeliveryTypeCorrect`, `CompletedIsDelivered`, `FenceInOrder`*, `FenceDebounced`* | `TypeOK`, `DeliveredIsProven`, `StopsInOrder`, the action property `Debounced` |
| `TripDeskProofs` | `DeskTypeCorrect`, `StartedTripIsCleared`*, `BreakdownIsAnswered`*, `ResolutionStands`* | `TypeOK`, `StartedIsCleared`, `NotStranded`, the action property `ResolvedStays` |
| `FleetComplianceProofs` | `FleetTypeCorrect`, `LapsedStaysGrounded`, `ReviewIsListed`* | `TypeOK`, `LapsedIsGrounded`, `PendingIsListed` |
| `AuthSessionsProofs` | `SessionsTypeCorrect`, `CodeStartsOneSession`, `RevocationHolds`* | `TypeOK`, `OneSessionPerCode`, `RevocationStands` |
| `WebSessionProofs` | `WebTypeCorrect`, `RefreshNeverReuses`, `OnlyTheUserSignsOut` | `TypeOK`, `NeverReuses`, the action property `StaysSignedIn` |

A star marks what is said of requests one at a time: overlapping requests break
it, in the ways section 5 lists. The later modules carry that condition in the
property (`scope.width = 1`, which a behaviour chooses); in `CarrierPayout`, where
the number of slots is a constant, the theorem assumes `OneCall`, and
`LineIsPaidOnce` also `AllHeard` (a call to Stripe may be refused; no answer is
lost and no process dies), as the instance of `payout_serial` has it; in
`AwardPayment`, where any number of slots may be busy, the theorem assumes
`[]Alone`, which is the constraint of `award_serial`, and `BidsOpenUntilRelease`
and `RecoverableUntilRelease` assume `[]NoException`: overlap, but no exception yet.
`ReservationsRecoverable` assumes `[]SingleCharge`: overlap and releases, but no job
with two charge rows at once. One at a
time does not mean alone: awards and cycles, the truck, the fleet, watchdogs,
Stripe and webhooks go on between the steps of the one request.

**AwardPayment.** `LockedIsCaptured` is not inductive: `markPaidAndLock` trusts its
caller. `Inv` adds what makes that trust good. `SlotGood`: a slot at a lock, trip
or re-accept label holds an event whose intent succeeded, and so does one that
carries the answer `succeeded`; a release slot's job was captured. `ChargesGood`:
an intent exists only for a keyed row, and a SUCCEEDED row has a captured intent.
`OneCreator`: no two slots create one intent. `AwardsPaid` is
the goal in inductive form. `OpenJobUnassigned` is inductive beside it: every
write of a job's status writes its award in the same transaction, or looks at it.
For the refinement `RowIds` adds that assignment ids are of created rows and that
a slot that holds one holds one of its job, so the update by id hits the row that
was read; `NextRows` maps each step to an action of `AwardContract` or a stutter.

`ReservationRecoverable` holds with any overlap while a job has one charge row.
`RowsNamed` says that this row names the job's assignment. `AsgSlots` says that what a
request has read of the row is still in it, so an unwind deletes the row together with
the reservation it names; a re-accept, which repoints the row, keeps the assignment row
because that is still the job's (`ReacceptSlots`). With a second row neither is so, and
section 5 shows how a reservation is stranded then.

Alone, `Account(j)` is the account of a job: its live charge row, of which there is
one at most, created its assignment; what moved (a firm or finished award, a trip,
an exception, a release) is paid; an accepted bid has the award or a paid one
succeeded it. `SlotKnows` is what the running request still knows: until `Alone`
is given up nobody invalidates its reads. With overlap `Account` breaks at the
first release, and `BidsOpenUntilRelease` uses the part that does not:
`OpenAccount` ties an accepted bid to the assignment and the job's one charge row, and
`OpenSlots` says that no request is in the code a released award would reach and that
the metadata a request has read is that of the row. `RecoverableUntilRelease` follows:
until then no job has two rows. Why the release is the
limit is in section 5.

**CarrierPayout.** `RowsBacked` needs what a slot carries from Stripe to the row it
writes (`SlotBacked`) and, for the types, that a line in use names its job.
`Steady` is what no step undoes; because of it a step of one slot leaves the
others good. One request at a time, `SerialFits` adds that lines are created in
the order of their numbers (`InOrder`, so that an award between two steps writes
only lines nobody has seen), and that a line a request read as owed is owed until
that request writes it. `HeardFits` adds that an owed line was not sent, except by
the request about to record it, that a cycle plans one payment per line, and that
the TRANSFER row of a trip's payment is new when it is written - otherwise the
line would stay owed after it was sent.

**RevenueSplit.** `ResolvedTotal` says exactly when a package's percents make 100:
always when the carrier's share has not grown since the package was checked, and
otherwise unless state and local shares exceed what is left. `SharesAreFair`
bounds the rounding. `PolicyInForce` says which version is in force: the valid one
published last, unless `Window` later ones hide it, and then the default; it assumes
of the table what its schema does, that versions are unique. `PercentsOfJob` puts
these together: whatever versions and packages there are, the percents of a job make
at least 100, and exactly 100 while no package was checked beside a smaller carrier's
share. That a row comes first in a finite table (`HasFirst`) is proved by looking at
a smallest table for which it would fail.

**SurchargeLedger.** `Inv` holds with any overlap: a row that is charged exists, an
intent that is booked, recorded or refunded was captured. Without the second a
booking could make a row PAID whose intent failed. `SerialInv` adds `RuledWaived`
(the surcharge of a case resolved for the sender is waived, and no slot is about
to book it) and `Money`: before a first charge fails, a row has at most one
intent, for the amount it shows, and the slot at work knows that amount.
`DwellIsBilled` rests on `Billing`: a sibling row and the base row together cover
the dwell the sibling is named by, since no amount shrinks, and a PAID row names an
intent, so that a longer dwell outgrows it. `BilledInFull` compares the dwell with a
sum, the community modules' fold over a finite set. `SumsDefined` and `SumCovers`
show that the fold's recursion has a solution and that it is no less than any two of
its terms; each looks at a smallest set for which it would fail (`Smallest`), which
needs the well-foundedness of inclusion among finite sets but no induction theorem.

**TripDelivery.** With any overlap, a slot about to make a proof final has its
signature and photo, and a completion read a delivered trip; these never go away,
so `Inv` is inductive. The end odometer is written only after, and two
finalizations skip it: `OdometerRead` is part of `SerialInv`, with one notice per
stop, since the notice of arrival outlives its request, and with `InOrder` and
`Tracked`, which tie the fence's streaks to the last samples of `trail`.

**TripDesk.** `DeskInv` says what the running request still knows: the driver it
passes is the driver of the trip, the exception it settles is not resolved yet
and in the phase it read. `Answered`: a trip in BREAKDOWN has an exception that
waits, or a request on its way to take it back.

**FleetCompliance.** That a lapsed vehicle stays grounded, with any overlap, needs
more than the property says: `Grounded` also excludes a vehicle that waits for
review, which an approval would activate, and one never added, which no
certificate is for; it is claimed until the watchdog's run dies or a suspension
is lifted, as the property is. `Listed` needs that the case a request read is
still open when it writes to it (`SlotGood`).

**AuthSessions.** `OneSessionPerCode` forgets what an issuing request carries.
`Spent` adds it: a consumed code has one session, or is carried by one request and
has none yet; `ChainsTyped` and `SlotsTyped` keep families among the sessions.
For `RevocationStands`, `OneStands` says that at most one session of a chain can
still be refreshed, `Shut` that an ended chain has none, and `SlotsGood` that the
one request that rotates or issues does it for a chain that stands.

**WebSession.** `NeverReuses` says nothing of the token in the store before a
refresh begins. `OneToken` says that whatever token may be presented next is not
rotated: the one being presented, the one an answer carries, and the stored one
unless a newer one is on its way. `Explained` says that a revoked session, a
barred account or a refused refresh has a cause outside the tab. Both hold only
until an answer is lost.

Only model-checked, and why:

- `CapturedChargeSettles`, `CoveredLineSettles`, `CaptureBooked`, `TripCompletes`,
  `PreTripAnswered`, `RequestsSettle`: liveness under fairness is out of the
  prover's reach, as is ENABLED.
- That `EffectiveNational` is the code's loop over sorted rows (`MCRevenueSplit`):
  the sort and the loop are operators of the community modules that recurse.
- The two violated properties of section 3.

## 5. What the models also reach

Behaviours of the code that TLC reaches when requests overlap, or in one request
that is not guarded, and that have no run of their own:

- Award: a second accept unwinds a reservation whose Stripe call is in flight, and
  both charges are captured; the customer pays between the probe of an old intent
  and its cancellation, and the captured row is deleted; `cancelJob` and
  `withdrawProposal` check the award outside their writes; a release whose money
  part comes late voids the next award's lines; a charge row is set back from
  SUCCEEDED by the answer accept still holds; a finished job is set back to
  ASSIGNED by a late lock; an unwind that outlives a release meets the next award
  in the same assignment row, drops that reservation and gives back the bid it read of,
  the old one, so the new award's bid stays ACCEPTED on an open job without assignment;
  an unwind that outlives the re-accept of its row strands a reservation: it
  read a row before its charge succeeded, which shares the assignment with an older,
  failed row of the job; the unwind of the older row deletes the assignment, a re-accept
  points the charged row at a new one, and the old unwind then deletes that row, finds
  the old assignment gone, and leaves the new one PENDING with no row that names it; a
  released and refunded job is accepted again on the
  refunded charge.
- Payout: a line paid by its trip and by a cycle that run at the same time; a
  PAID line whose transfer failed; a release that takes back only the latest
  transfer; a TRANSFER row of an earlier carrier taken for this one's.
- Surcharges: a dwell that grows while an older charge is in flight; two intents
  of one row both captured; a lost answer followed by a retry that charges twice;
  a waiver overwritten by a booking; a ruling for the sender on a PAID surcharge
  that refunds nothing, one for the carrier that makes it payable again; disputes
  decided from an older status.
- Delivery: two dropoffs finalized at once skip the end odometer; a late sample
  writes AT_DROPOFF over COMPLETED; two completions reward twice.
- Desk: a swap between the check and the write starts a trip its driver did not
  clear; two resolutions of one exception; a crash between the resolution and the
  trip's write; a second failed safety check loses the mark that would lift the
  suspension.
- Compliance: a watchdog that dies between expiring and suspending never suspends;
  an approval sets an expired certificate back to APPROVED; an attachment racing
  an approval stays in a closed case; two cases opened at once.
- Sessions: a refresh past its check revives a revoked chain; two refreshes leave
  two live sessions; more than five attempts under overlap; a lost refresh answer
  ends the chain.
- Front end: a request denied after the refresh has ended starts another one, and
  a sign-out that is being retried meanwhile clears the store before the answer
  signs the tab in again; an old login's refresh answer replaces a new login; a
  reload during a refresh leads to the reuse of a rotated token.
- Revenue split: a package kept beside a policy with a larger carrier's share
  makes the local line negative, and so can rounding (one cent, 50 and 50); twenty
  versions published later, all for a later date, hide the one in force, and the job
  is split by the default.

## 6. Plan and what is not modelled

Next, in this order: that the fence and the proofs of `TripDelivery`,
taken alone, implement a trip that only goes forward; then drivers and licences
in `FleetCompliance`, publishing in `RevenueSplit`, several tabs in `WebSession`.

Not modelled: publishing and pricing a job, schedules and edit modes (checks of
one row and pure functions); onboarding and staff consoles beyond suspensions
(single-row edits and queries); notifications, audit rows and e-mails (best
effort, never read back); finance reports, the web site, build files and tests;
the front end's pages, which hold nothing the API trusts. Prices are amounts in
`RevenueSplit` only: elsewhere what the properties tell apart is whether money
moved, not how much.
