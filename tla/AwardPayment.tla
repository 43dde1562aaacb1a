---------------------------- MODULE AwardPayment ----------------------------
(***************************************************************************)
(* Awarding a freight job: a carrier bids, the sender accepts one bid, the *)
(* fare is charged through Stripe, and the paid award is locked.           *)
(* Source: payments.service.ts (accept, lock, unwind, webhooks, sync),     *)
(* jobs.service.ts (cancelJob), matching.service.ts (submit, withdraw) and *)
(* the one transaction of exceptions.service.ts that re-opens a job.       *)
(*                                                                         *)
(* Every handler runs in a request slot of Calls.  A handler is cut where  *)
(* the code awaits PostgreSQL or Stripe, so the slots interleave exactly   *)
(* there; a Prisma $transaction is one step.  What a handler read before a *)
(* cut and uses after it is kept in its slot.                              *)
(***************************************************************************)
EXTENDS Naturals, FiniteSets

CONSTANTS Jobs, Proposals, Calls,
          JobOf,       \* the job a proposal bids for
          CarrierOf,   \* the company that submitted it
          CrewOf,      \* the vehicle and the driver it commits
          None,        \* no job, no proposal
          MaxEvents,   \* bound: CHARGE PaymentEvent rows ever created
          MaxFaults,   \* bound: process crashes and lost Stripe replies
          Requests     \* scope: the kinds of request an instance receives

ASSUME AwardConstants ==
    /\ JobOf \in [Proposals -> Jobs]
    /\ None \notin Jobs \cup Proposals
    /\ MaxEvents \in Nat /\ MaxFaults \in Nat
    /\ Requests \subseteq {"bid", "withdraw", "accept", "sync", "cancel", "release"}

Events == 1..MaxEvents

VARIABLES job, proposal, asg, trip, lines, exc, pe,      \* PostgreSQL rows
          pi, declined,                                    \* Stripe
          recorded, aged, faults, call

db      == <<job, proposal, asg, trip, lines, exc, pe>>
stripe  == <<pi, declined>>
world   == <<recorded, aged, faults>>
vars    == <<job, proposal, asg, trip, lines, exc, pe, pi, declined,
             recorded, aged, faults, call>>

JobStatus      == {"BIDDING", "ASSIGNED", "IN_TRANSIT", "COMPLETED", "CANCELLED"}
ProposalStatus == {"NONE", "SUBMITTED", "WITHDRAWN", "ACCEPTED", "EXPIRED"}
AsgStatus      == {"NONE", "PENDING", "LOCKED", "CANCELLED", "COMPLETED"}
(* PENDING_GATES: not started; IN_TRANSIT: started and not over (the stops *)
(* and BREAKDOWN included); ABANDONED: CANCELLED with startedAt still set. *)
TripStatus     == {"NONE", "PENDING_GATES", "IN_TRANSIT", "COMPLETED", "CANCELLED", "ABANDONED"}
LineStatus     == {"none", "live", "void"}
EventStatus    == {"NONE", "PENDING", "REQUIRES_ACTION", "SUCCEEDED", "FAILED", "DELETED"}
PiStatus       == {"none", "requires_payment_method", "requires_action",
                   "processing", "succeeded", "canceled"}
Labels == {"idle", "probe", "probeAged", "cancelPi", "unwind", "readJob", "reserve",
           "reaccept",
           "createPi", "attachPi", "failPe", "lockRead", "lock",
           "ensureTrip", "createTrip", "reviveTrip", "release",
           "recordSucceeded", "recordFailed", "failWrite", "failCheck",
           "syncFail", "syncAction", "cancelJob", "withdraw", "submit", "adjust"}

(* The Assignment row of a job: id is the payment event whose transaction  *)
(* created the row, so a row deleted and created again has another id.     *)
NoAsg   == [id |-> 0, status |-> "NONE", prop |-> None]
(* A CHARGE row: key is the proposal in its unique idempotencyKey, prop,   *)
(* asg and expired are its metadata.                                       *)
NoEvent == [st |-> "NONE", key |-> None, prop |-> None, asg |-> 0,
            hasPi |-> FALSE, expired |-> {}]
(* What a request read of a charge row's metadata: it stays as it was read *)
(* while a re-accept points the row at another award.                      *)
NoMeta  == [prop |-> None, asg |-> 0, expired |-> {}]
Idle    == [at |-> "idle", ev |-> 0, prop |-> None, job |-> None, row |-> 0,
            flag |-> FALSE, pi |-> "none", meta |-> NoMeta, then |-> "idle"]

Assignment == [id : Nat, status : AsgStatus, prop : Proposals \cup {None}]
ChargeRow  == [st : EventStatus, key : Proposals \cup {None}, prop : Proposals \cup {None},
               asg : Nat, hasPi : BOOLEAN, expired : SUBSET Proposals]
Metadata   == [prop : Proposals \cup {None}, asg : Nat, expired : SUBSET Proposals]
Slot       == [at : Labels, ev : {0} \cup Events, prop : Proposals \cup {None},
               job : Jobs \cup {None}, row : Nat, flag : BOOLEAN, pi : PiStatus, meta : Metadata,
               then : {"idle", "readJob", "recordSucceeded", "recordFailed"}]

RowsTyped   == /\ job \in [Jobs -> JobStatus]
               /\ proposal \in [Proposals -> ProposalStatus]
               /\ asg \in [Jobs -> Assignment]
               /\ trip \in [Jobs -> TripStatus]
               /\ lines \in [Jobs -> LineStatus]
               /\ exc \in [Jobs -> BOOLEAN]
               /\ pe \in [Events -> ChargeRow]
StripeTyped == pi \in [Events -> PiStatus] /\ declined \in SUBSET Events
WorldTyped  == /\ recorded \in SUBSET (Events \X {"succeeded", "payment_failed"})
               /\ aged \in SUBSET Events
               /\ faults \in 0..MaxFaults
SlotsTyped  == call \in [Calls -> Slot]

TypeOK == RowsTyped /\ StripeTyped /\ WorldTyped /\ SlotsTyped

SharesCrew(p, q) == CrewOf[p] \cap CrewOf[q] # {}

(* Open jobs with some bids on them, as submitProposal admits bids.        *)
OpenForBids ==
    /\ job = [j \in Jobs |-> "BIDDING"]
    /\ proposal \in [Proposals -> {"NONE", "SUBMITTED"}]
    /\ \A p, q \in Proposals : p # q /\ proposal[p] = "SUBMITTED" /\ proposal[q] = "SUBMITTED"
           => ~SharesCrew(p, q) /\ <<JobOf[p], CarrierOf[p]>> # <<JobOf[q], CarrierOf[q]>>
    /\ asg = [j \in Jobs |-> NoAsg]
    /\ trip = [j \in Jobs |-> "NONE"]
    /\ lines = [j \in Jobs |-> "none"]
    /\ exc = [j \in Jobs |-> FALSE]
    /\ pe = [e \in Events |-> NoEvent]
    /\ pi = [e \in Events |-> "none"]
    /\ declined = {} /\ recorded = {} /\ aged = {}
    /\ call = [c \in Calls |-> Idle]

Init == OpenForBids /\ faults = 0

-----------------------------------------------------------------------------
(* Reads shared by the handlers. *)

Live(e)        == pe[e].st \notin {"NONE", "DELETED"}
EventJob(e)    == JobOf[pe[e].key]
ChargesOf(j)   == {e \in Events : Live(e) /\ EventJob(e) = j}
PaidCharges(j) == {e \in ChargesOf(j) : pe[e].st = "SUCCEEDED" /\ pe[e].hasPi}
Latest(e, S)   == e \in S /\ \A f \in S : f <= e
Captured(e)    == pi[e] = "succeeded"

(* SUBMITTED bids that lose when p is accepted: the same job's, and those  *)
(* that commit the same vehicle or driver elsewhere.                       *)
ConflictPeers(p) ==
    {q \in Proposals \ {p} : /\ proposal[q] = "SUBMITTED"
                             /\ JobOf[q] = JobOf[p] \/ SharesCrew(p, q)}

(* A vehicle or driver is busy while an assignment of its is PENDING, or   *)
(* LOCKED with a trip that is not over.                                    *)
CrewBusy(p) ==
    \E j \in Jobs : /\ asg[j].prop # None /\ SharesCrew(p, asg[j].prop)
                    /\ \/ asg[j].status = "PENDING"
                       \/ /\ asg[j].status = "LOCKED"
                          /\ trip[j] \in {"PENDING_GATES", "IN_TRANSIT"}
CrewCommitted(p) ==
    \E q \in Proposals : /\ SharesCrew(p, q) /\ proposal[q] = "SUBMITTED"
                         /\ JobOf[q] # JobOf[p] /\ job[JobOf[q]] = "BIDDING"
AlreadyBid(p) ==
    \E q \in Proposals : /\ JobOf[q] = JobOf[p] /\ CarrierOf[q] = CarrierOf[p]
                         /\ proposal[q] = "SUBMITTED"

Meta(e) == [prop |-> pe[e].prop, asg |-> pe[e].asg, expired |-> pe[e].expired]

(* A slot at work on a bid, on a charge row (and then on t), on a job. *)
OnBid(l, p)       == [Idle EXCEPT !.at = l, !.prop = p]
OnCharge(l, e, t) == [Idle EXCEPT !.at = l, !.ev = e, !.then = t]
OnJob(l, j)       == [Idle EXCEPT !.at = l, !.job = j, !.row = asg[j].id]

(* How a slot moves on: with what it read, to a label, out, to its caller. *)
Begin(c, k) == call' = [call EXCEPT ![c] = k]
Goto(c, l) == call' = [call EXCEPT ![c].at = l]
Leave(c)   == Begin(c, Idle)
Resume(c)  == IF call[c].then = "idle" THEN Leave(c) ELSE Goto(c, call[c].then)
Free(c)    == call[c].at = "idle"
At(c, l)   == call[c].at = l

-----------------------------------------------------------------------------
(* Bids: MatchingService.submitProposal and withdrawProposal.  Both check  *)
(* outside a transaction and write later.                                  *)

SubmitRead(c, p) ==
    /\ Free(c) /\ "bid" \in Requests
    /\ proposal[p] = "NONE" /\ job[JobOf[p]] = "BIDDING"
    /\ ~CrewBusy(p) /\ ~CrewCommitted(p) /\ ~AlreadyBid(p)
    /\ Begin(c, OnBid("submit", p))
    /\ UNCHANGED <<db, stripe, world>>

SubmitCreate(c) ==
    /\ At(c, "submit")
    /\ proposal' = IF proposal[call[c].prop] = "NONE"
                   THEN [proposal EXCEPT ![call[c].prop] = "SUBMITTED"] ELSE proposal
    /\ Leave(c)
    /\ UNCHANGED <<job, asg, trip, lines, exc, pe, stripe, world>>

MayWithdraw(p) == /\ proposal[p] = "SUBMITTED"
                  /\ ~(asg[JobOf[p]].prop = p /\ asg[JobOf[p]].status = "LOCKED")

WithdrawRead(c, p) ==
    /\ Free(c) /\ "withdraw" \in Requests
    /\ MayWithdraw(p)
    /\ Begin(c, OnBid("withdraw", p))
    /\ UNCHANGED <<db, stripe, world>>

WithdrawWrite(c) ==
    /\ At(c, "withdraw")
    /\ proposal' = [proposal EXCEPT ![call[c].prop] = "WITHDRAWN"]
    /\ Leave(c)
    /\ UNCHANGED <<job, asg, trip, lines, exc, pe, stripe, world>>

-----------------------------------------------------------------------------
(* PaymentsService.acceptProposal.                                         *)

(* What an accept does with the charge row it finds under its key.         *)
Recoverable(e) == pe[e].st = "FAILED" \/ (pe[e].st = "PENDING" /\ ~pe[e].hasPi)
Awaiting(e)    == /\ pe[e].st \in {"PENDING", "REQUIRES_ACTION"} /\ pe[e].hasPi
                  /\ asg[EventJob(e)].status = "PENDING"

AcceptRead(c, p) ==
    LET rows == {e \in Events : Live(e) /\ pe[e].key = p}
        again(l, e) == [OnCharge(l, e, "readJob") EXCEPT !.prop = p, !.meta = Meta(e)]
    IN  /\ Free(c) /\ "accept" \in Requests /\ proposal[p] # "NONE"
        /\ \/ rows = {} /\ Begin(c, OnBid("readJob", p))
           \/ /\ asg[JobOf[p]].status # "LOCKED"
              /\ \E e \in rows :
                    \/ Recoverable(e) /\ pe[e].hasPi  /\ Begin(c, again("cancelPi", e))
                    \/ Recoverable(e) /\ ~pe[e].hasPi /\ Begin(c, again("unwind", e))
                    \/ Awaiting(e) /\ Begin(c, again(IF e \in aged THEN "probeAged" ELSE "probe", e))
        /\ UNCHANGED <<db, stripe, world>>

(* Ask Stripe about the intent on file: lock if it succeeded, unwind if it *)
(* is dead, otherwise answer with its client secret.                       *)
AcceptProbe(c) ==
    LET e == call[c].ev
        dead == \/ pi[e] = "canceled"
                \/ At(c, "probeAged") /\ pi[e] = "requires_payment_method"
    IN  /\ At(c, "probe") \/ At(c, "probeAged")
        /\ \/ pi[e] = "succeeded" /\ Begin(c, OnCharge("lockRead", e, "idle"))
           \/ pi[e] # "succeeded" /\ dead /\ Goto(c, "cancelPi")
           \/ pi[e] # "succeeded" /\ ~dead /\ Leave(c)
        /\ UNCHANGED <<db, stripe, world>>

Refused(p) == \/ asg[JobOf[p]].status \notin {"NONE", "CANCELLED"}
              \/ job[JobOf[p]] # "BIDDING"
              \/ proposal[p] # "SUBMITTED"

AcceptReadJob(c) ==
    LET p == call[c].prop  j == JobOf[p]
    IN  /\ At(c, "readJob")
        /\ \/ Refused(p) /\ Leave(c)
           \/ /\ ~Refused(p) /\ PaidCharges(j) = {}
              /\ Begin(c, [OnBid("reserve", p) EXCEPT !.row = asg[j].id])
           \/ /\ ~Refused(p)
              /\ \E e \in PaidCharges(j) :
                    /\ Latest(e, PaidCharges(j))
                    /\ Begin(c, [OnBid("reaccept", p) EXCEPT !.ev = e])
        /\ UNCHANGED <<db, stripe, world>>

(* What both accept transactions write besides the charge row.             *)
AwardTo(p, row) ==
    /\ asg' = [asg EXCEPT ![JobOf[p]] = [id |-> row, status |-> "PENDING", prop |-> p]]
    /\ proposal' = [q \in Proposals |-> IF q = p THEN "ACCEPTED"
                                        ELSE IF q \in ConflictPeers(p) THEN "EXPIRED"
                                        ELSE proposal[q]]
    /\ job' = [job EXCEPT ![JobOf[p]] = "ASSIGNED"]

UnusedEvents == {e \in Events : pe[e].st = "NONE"}

(* The row an accept read is still the job's only assignment: jobId is     *)
(* unique, and an update by id needs the row.                              *)
RowIs(j, row)        == asg[j].id = row

(* The reservation transaction fails, and the request with it, when        *)
(* another request took the job's unique assignment row or the key first.  *)
Reserve(c) ==
    LET p == call[c].prop  j == JobOf[p]  row == call[c].row
        fits == /\ UnusedEvents # {}
                /\ RowIs(j, row)
                /\ \A x \in Events : Live(x) => pe[x].key # p
    IN  /\ At(c, "reserve")
        /\ \/ /\ fits
              /\ \E e \in UnusedEvents :
                   LET id == IF row = 0 THEN e ELSE row
                   IN  /\ \A x \in UnusedEvents : e <= x
                       /\ AwardTo(p, id)
                       /\ pe' = [pe EXCEPT ![e] =
                                   [st |-> "PENDING", key |-> p, prop |-> p, asg |-> id,
                                    hasPi |-> FALSE, expired |-> ConflictPeers(p)]]
                       /\ Begin(c, [OnCharge("createPi", e, "idle") EXCEPT
                                      !.meta = [prop |-> p, asg |-> id,
                                                expired |-> ConflictPeers(p)]])
           \/ ~fits /\ Leave(c) /\ UNCHANGED <<asg, proposal, job, pe>>
        /\ UNCHANGED <<trip, lines, exc, stripe, world>>

(* stripe.createPaymentIntent answers, refuses the card (which leaves a    *)
(* declined intent), fails, or - a counted fault - succeeds unheard.       *)
CreatePiAnswer(c) ==
    \E s \in {"succeeded", "processing", "requires_action", "requires_payment_method"} :
        /\ At(c, "createPi")
        /\ pi' = [pi EXCEPT ![call[c].ev] = s]
        /\ call' = [call EXCEPT ![c].at = "attachPi", ![c].pi = s]
        /\ UNCHANGED <<db, declined, world>>

CreatePiThrow(c) ==
    LET e == call[c].ev
    IN  /\ At(c, "createPi")
        /\ \/ UNCHANGED <<stripe, faults>>
           \/ /\ pi' = [pi EXCEPT ![e] = "requires_payment_method"]
              /\ declined' = declined \cup {e} /\ UNCHANGED faults
           \/ /\ faults < MaxFaults /\ faults' = faults + 1
              /\ pi' = [pi EXCEPT ![e] = "succeeded"] /\ UNCHANGED declined
        /\ Goto(c, "failPe")
        /\ UNCHANGED <<db, recorded, aged>>

(* The row fails with the metadata it was created with, as the accept has  *)
(* it at hand.                                                             *)
FailPe(c) ==
    LET e == call[c].ev  m == call[c].meta
    IN  /\ At(c, "failPe")
        /\ IF Live(e)
           THEN /\ pe' = [pe EXCEPT ![e].st = "FAILED", ![e].prop = m.prop, ![e].asg = m.asg,
                                    ![e].expired = m.expired]
                /\ Goto(c, "unwind")
           ELSE Leave(c) /\ UNCHANGED pe
        /\ UNCHANGED <<job, proposal, asg, trip, lines, exc, stripe, world>>

(* The row's new status comes from the answer, not from the row.           *)
AttachedVerbatim(s) == s  \* seeded fault
AttachedStatus(s) == CASE s = "succeeded" -> "SUCCEEDED"
                       [] s = "requires_action" -> "REQUIRES_ACTION"
                       [] OTHER -> "PENDING"

AttachPi(c) ==
    LET e == call[c].ev  s == call[c].pi
    IN  /\ At(c, "attachPi")
        /\ IF Live(e)
           THEN /\ pe' = [pe EXCEPT ![e].st = AttachedStatus(s), ![e].hasPi = TRUE]
                /\ IF s = "succeeded"
                   THEN Begin(c, OnCharge("lockRead", e, "idle"))
                   ELSE Leave(c)
           ELSE Leave(c) /\ UNCHANGED pe
        /\ UNCHANGED <<job, proposal, asg, trip, lines, exc, stripe, world>>

(* acceptWithPriorCharge: a re-listed job keeps the captured fare, so the  *)
(* charge row is pointed at the new award and locked at once.              *)
Reaccept(c) ==
    LET p == call[c].prop  j == JobOf[p]  e == call[c].ev
        id == IF asg[j].status = "NONE" THEN e ELSE asg[j].id
    IN  /\ At(c, "reaccept")
        /\ IF Live(e)
           THEN /\ AwardTo(p, id)
                /\ pe' = [pe EXCEPT ![e].prop = p, ![e].asg = id,
                                    ![e].expired = ConflictPeers(p)]
                /\ Begin(c, OnCharge("lockRead", e, "idle"))
           ELSE Leave(c) /\ UNCHANGED <<asg, proposal, job, pe>>
        /\ UNCHANGED <<trip, lines, exc, stripe, world>>

-----------------------------------------------------------------------------
(* stripe.cancelPaymentIntent: Stripe cancels an intent that still waits   *)
(* for the customer, no other; a call that fails is logged and forgotten.  *)
CancelPi(c) ==
    LET e == call[c].ev
    IN  /\ At(c, "cancelPi")
        /\ \/ UNCHANGED pi
           \/ /\ pi[e] \in {"requires_payment_method", "requires_action"}
              /\ pi' = [pi EXCEPT ![e] = "canceled"]
        /\ Goto(c, "unwind")
        /\ UNCHANGED <<db, declined, world>>

DeletableLocked(a, id)   == a.id = id /\ a.status = "LOCKED"  \* seeded fault
DeletableAny(a, id)      == a.id = id /\ a.status # "NONE"  \* seeded fault
ReopensUnchecked(j)      == job[j] = "ASSIGNED"  \* seeded fault
GivenBackPeers(m, peers, q) == q \in peers /\ proposal[q] = "EXPIRED"  \* seeded fault

Deletable(a, id)      == a.id = id /\ a.status = "PENDING"
Reopens(j)            == job[j] = "ASSIGNED" /\ asg'[j].status = "NONE"
GivenBack(m, peers, q) == \/ q = m.prop /\ proposal[q] = "ACCEPTED"
                          \/ q \in peers /\ proposal[q] = "EXPIRED"

(* unwindFailedAccept, one transaction: drop the reservation and what      *)
(* hangs on it (trip, exceptions), drop the charge row, give the bid and   *)
(* its expired peers back, re-open the job.  Reservation, bid and peers    *)
(* are those of the metadata its caller read.  Deleting a row that is gone *)
(* throws and rolls everything back.                                       *)
Unwind(c) ==
    LET e == call[c].ev  m == call[c].meta  j == EventJob(e)
        drop  == Deletable(asg[j], m.asg)
        peers == IF drop /\ job[j] \in {"BIDDING", "ASSIGNED"} THEN m.expired ELSE {}
    IN  /\ At(c, "unwind")
        /\ IF Live(e)
           THEN /\ asg' = IF drop THEN [asg EXCEPT ![j] = NoAsg] ELSE asg
                /\ trip' = IF drop THEN [trip EXCEPT ![j] = "NONE"] ELSE trip
                /\ exc' = IF drop THEN [exc EXCEPT ![j] = FALSE] ELSE exc
                /\ proposal' = [q \in Proposals |-> IF GivenBack(m, peers, q)
                                                    THEN "SUBMITTED" ELSE proposal[q]]
                /\ job' = IF Reopens(j) THEN [job EXCEPT ![j] = "BIDDING"] ELSE job
                /\ pe' = [pe EXCEPT ![e] = [NoEvent EXCEPT !.st = "DELETED", !.key = pe[e].key,
                                                           !.hasPi = pe[e].hasPi]]
                /\ aged' = aged \ {e}
                /\ Resume(c)
           ELSE Leave(c) /\ UNCHANGED <<asg, trip, exc, proposal, job, pe, aged>>
        /\ UNCHANGED <<lines, stripe, recorded, faults>>

-----------------------------------------------------------------------------
(* markPaidAndLock: a read, the locking transaction of the assignment that *)
(* the metadata named then, and the trip.                                  *)

AlreadyPaidByRow(e) == pe[e].st = "SUCCEEDED"  \* seeded fault
AlreadyPaid(e) == pe[e].st = "SUCCEEDED" /\ asg[EventJob(e)].status = "LOCKED"

LockRead(c) ==
    LET e == call[c].ev
    IN  /\ At(c, "lockRead")
        /\ \/ ~Live(e) /\ Resume(c)
           \/ Live(e) /\ AlreadyPaid(e) /\ Goto(c, "ensureTrip")
           \/ /\ Live(e) /\ ~AlreadyPaid(e)
              /\ call' = [call EXCEPT ![c].at = "lock", ![c].row = pe[e].asg]
        /\ UNCHANGED <<db, stripe, world>>

(* Settlement lines are created unless the job has lines that are not VOID.*)
NeedsLines(j) == lines[j] # "live"

(* The transaction updates the charge and assignment rows by id, so it     *)
(* throws when either is gone; it looks at no other status.                *)
Lock(c) ==
    LET e == call[c].ev  j == EventJob(e)
    IN  /\ At(c, "lock")
        /\ IF Live(e) /\ asg[j].id = call[c].row
           THEN /\ pe' = [pe EXCEPT ![e].st = "SUCCEEDED", ![e].hasPi = TRUE]
                /\ asg' = [asg EXCEPT ![j].status = "LOCKED"]
                /\ job' = [job EXCEPT ![j] = "ASSIGNED"]
                /\ lines' = IF NeedsLines(j) THEN [lines EXCEPT ![j] = "live"] ELSE lines
                /\ Goto(c, "ensureTrip")
           ELSE Leave(c) /\ UNCHANGED <<pe, asg, job, lines>>
        /\ UNCHANGED <<proposal, trip, exc, stripe, world>>

(* TripsService.ensureTripForAssignment: read the assignment with its      *)
(* trip, then create the trip of a LOCKED one or revive a cancelled one.   *)
(* A second create, and the update of a deleted row, throw.                *)
EnsureTrip(c) ==
    LET j == EventJob(call[c].ev)
        write == IF trip[j] = "NONE" THEN "createTrip" ELSE "reviveTrip"
    IN  /\ At(c, "ensureTrip")
        /\ IF asg[j].status = "LOCKED" /\ trip[j] \in {"NONE", "CANCELLED", "ABANDONED"}
           THEN call' = [call EXCEPT ![c].at = write, ![c].row = asg[j].id]
           ELSE Resume(c)
        /\ UNCHANGED <<db, stripe, world>>

WriteTrip(c) ==
    LET j == EventJob(call[c].ev)
        fits == asg[j].id = call[c].row /\ (At(c, "createTrip") <=> trip[j] = "NONE")
    IN  /\ At(c, "createTrip") \/ At(c, "reviveTrip")
        /\ IF fits THEN trip' = [trip EXCEPT ![j] = "PENDING_GATES"] /\ Resume(c)
                   ELSE Leave(c) /\ UNCHANGED trip
        /\ UNCHANGED <<job, proposal, asg, lines, exc, pe, stripe, world>>

-----------------------------------------------------------------------------
(* handleStripeWebhook.  Stripe delivers an event until a delivery is      *)
(* answered, and may deliver it twice at once; the StripeWebhookEvent row  *)
(* that stops further ones is written last.                                *)

HookSucceeded(c, e) ==
    /\ Free(c) /\ Captured(e) /\ <<e, "succeeded">> \notin recorded
    /\ Begin(c, OnCharge("lockRead", e, "recordSucceeded"))
    /\ UNCHANGED <<db, stripe, world>>

(* markPaymentFailed: two reads, the FAILED write, a third read that       *)
(* decides whether to unwind.                                              *)
MayFailAlways(e) == Live(e)  \* seeded fault
MayFail(e) == /\ Live(e) /\ pe[e].st # "SUCCEEDED"
              /\ asg[EventJob(e)].status # "LOCKED"

HookFailed(c, e) ==
    /\ Free(c) /\ e \in declined /\ <<e, "payment_failed">> \notin recorded
    /\ LET next == IF MayFail(e) THEN "failWrite" ELSE "recordFailed"
       IN  Begin(c, [OnCharge(next, e, "recordFailed") EXCEPT !.flag = pe[e].hasPi,
                                                              !.meta = Meta(e)])
    /\ UNCHANGED <<db, stripe, world>>

FailWrite(c) ==
    LET e == call[c].ev
    IN  /\ At(c, "failWrite")
        /\ IF Live(e) THEN pe' = [pe EXCEPT ![e].st = "FAILED"] /\ Goto(c, "failCheck")
                      ELSE Leave(c) /\ UNCHANGED pe
        /\ UNCHANGED <<job, proposal, asg, trip, lines, exc, stripe, world>>

FailCheck(c) ==
    LET e == call[c].ev
    IN  /\ At(c, "failCheck")
        /\ IF asg[EventJob(e)].status \in {"NONE", "PENDING"}
           THEN Goto(c, IF call[c].flag THEN "cancelPi" ELSE "unwind")
           ELSE Goto(c, "recordFailed")
        /\ UNCHANGED <<db, stripe, world>>

Record(c) ==
    /\ At(c, "recordSucceeded") \/ At(c, "recordFailed")
    /\ recorded' = recorded \cup
         {<<call[c].ev, IF At(c, "recordSucceeded") THEN "succeeded" ELSE "payment_failed">>}
    /\ Leave(c)
    /\ UNCHANGED <<db, stripe, aged, faults>>

-----------------------------------------------------------------------------
(* syncJobPayment: the sender's page asks Stripe about the job's latest    *)
(* charge and applies the answer in a later write.                         *)
SyncStepOptimistic(s) == IF s \in {"succeeded", "processing"} THEN "lockRead" ELSE "syncFail"  \* seeded fault
SyncStep(s) == CASE s = "succeeded"                               -> "lockRead"
                 [] s \in {"canceled", "requires_payment_method"} -> "syncFail"
                 [] s = "requires_action"                         -> "syncAction"
                 [] OTHER                                         -> "idle"

SyncRead(c, j) ==
    /\ Free(c) /\ "sync" \in Requests
    /\ \E e \in ChargesOf(j) :
         /\ Latest(e, ChargesOf(j)) /\ pe[e].hasPi /\ SyncStep(pi[e]) # "idle"
         /\ Begin(c, OnCharge(SyncStep(pi[e]), e, "idle"))
    /\ UNCHANGED <<db, stripe, world>>

SyncWrite(c) ==
    LET e == call[c].ev
    IN  /\ At(c, "syncFail") \/ At(c, "syncAction")
        /\ pe' = IF ~Live(e) THEN pe
                 ELSE [pe EXCEPT ![e].st = IF At(c, "syncFail") THEN "FAILED"
                                           ELSE "REQUIRES_ACTION"]
        /\ Leave(c)
        /\ UNCHANGED <<job, proposal, asg, trip, lines, exc, stripe, world>>

-----------------------------------------------------------------------------
(* JobsService.cancelJob: checks outside, then one transaction.            *)
MayCancel(j) == job[j] \notin {"CANCELLED", "COMPLETED"} /\ asg[j].status # "LOCKED"

CancelRead(c, j) ==
    /\ Free(c) /\ "cancel" \in Requests
    /\ MayCancel(j)
    /\ LET bids == \E p \in Proposals : JobOf[p] = j /\ proposal[p] = "SUBMITTED"
       IN  Begin(c, [OnJob("cancelJob", j) EXCEPT !.flag = bids])
    /\ UNCHANGED <<db, stripe, world>>

(* The assignment a cancel or a release lets go, whatever its status.      *)
Freed(a)       == [a EXCEPT !.status = "CANCELLED"]

ExpireBids(j) == proposal' = [p \in Proposals |->
                     IF JobOf[p] = j /\ proposal[p] = "SUBMITTED" THEN "EXPIRED" ELSE proposal[p]]

CancelJob(c) ==
    LET j == call[c].job  row == call[c].row
    IN  /\ At(c, "cancelJob")
        /\ IF row # 0 /\ asg[j].id # row
           THEN UNCHANGED <<job, asg, proposal>>
           ELSE /\ job' = [job EXCEPT ![j] = "CANCELLED"]
                /\ asg' = IF row = 0 THEN asg ELSE [asg EXCEPT ![j] = Freed(@)]
                /\ IF call[c].flag THEN ExpireBids(j) ELSE UNCHANGED proposal
        /\ Leave(c)
        /\ UNCHANGED <<trip, lines, exc, pe, stripe, world>>

-----------------------------------------------------------------------------
(* What the trip and its exceptions do to these rows; the gates, stops and *)
(* proofs of delivery behind StartTrip and CompleteTrip are not here.      *)
(* Neither looks at an open exception, and neither looks at the trip's     *)
(* status beyond startedAt and COMPLETED.                                  *)
StartTrip(j) ==
    /\ asg[j].status = "LOCKED" /\ trip[j] \in {"PENDING_GATES", "CANCELLED"}
    /\ trip' = [trip EXCEPT ![j] = "IN_TRANSIT"]
    /\ job' = [job EXCEPT ![j] = "IN_TRANSIT"]
    /\ UNCHANGED <<proposal, asg, lines, exc, pe, stripe, world, call>>

Completable(t) == t \in {"IN_TRANSIT", "ABANDONED"}

CompleteTrip(j) ==
    /\ Completable(trip[j])
    /\ trip' = [trip EXCEPT ![j] = "COMPLETED"]
    /\ job' = [job EXCEPT ![j] = "COMPLETED"]
    /\ asg' = [asg EXCEPT ![j].status = "COMPLETED"]
    /\ UNCHANGED <<proposal, lines, exc, pe, stripe, world, call>>

OpenException(j) ==
    /\ "release" \in Requests
    /\ asg[j].status = "LOCKED" /\ trip[j] \in {"PENDING_GATES", "IN_TRANSIT"} /\ ~exc[j]
    /\ exc' = [exc EXCEPT ![j] = TRUE]
    /\ UNCHANGED <<job, proposal, asg, trip, lines, pe, stripe, world, call>>

(* releaseToMarketplace reads the open exception, re-opens the job in one  *)
(* transaction that looks at no status again, and adjusts the money        *)
(* (adjustForMarketplaceRelease) only afterwards.                          *)
ReleaseRead(c, j) ==
    /\ Free(c) /\ "release" \in Requests /\ exc[j]
    /\ Begin(c, OnJob("release", j))
    /\ UNCHANGED <<db, stripe, world>>

Release(c) ==
    LET j == call[c].job
    IN  /\ At(c, "release")
        /\ IF asg[j].id = call[c].row
           THEN /\ exc' = [exc EXCEPT ![j] = FALSE]
                /\ trip' = [trip EXCEPT ![j] = IF @ \in {"PENDING_GATES", "CANCELLED"}
                                               THEN "CANCELLED" ELSE "ABANDONED"]
                /\ asg' = [asg EXCEPT ![j] = Freed(@)]
                /\ ExpireBids(j)
                /\ job' = [job EXCEPT ![j] = "BIDDING"]
                /\ Goto(c, "adjust")
           ELSE Leave(c) /\ UNCHANGED <<exc, trip, asg, proposal, job>>
        /\ UNCHANGED <<lines, pe, stripe, world>>

Adjust(c) ==
    LET j == call[c].job
    IN  /\ At(c, "adjust")
        /\ lines' = IF lines[j] = "live" /\ \E e \in ChargesOf(j) : pe[e].st = "SUCCEEDED"
                    THEN [lines EXCEPT ![j] = "void"] ELSE lines
        /\ Leave(c)
        /\ UNCHANGED <<job, proposal, asg, trip, exc, pe, stripe, world>>

-----------------------------------------------------------------------------
(* The world outside: the customer and the bank settle an intent - the     *)
(* customer only with a client secret, which only a stored intent has -    *)
(* 45 minutes pass, a process dies.                                        *)
Settle(e) ==
    /\ pi[e] \in {"requires_payment_method", "requires_action", "processing"}
    /\ pi[e] # "processing" => pe[e].hasPi
    /\ \/ /\ pi' = [pi EXCEPT ![e] = "succeeded"] /\ UNCHANGED declined
       \/ /\ pi[e] = "requires_payment_method"
          /\ \E s \in {"requires_action", "processing"} : pi' = [pi EXCEPT ![e] = s]
          /\ UNCHANGED declined
       \/ /\ pi' = [pi EXCEPT ![e] = "requires_payment_method"]
          /\ declined' = declined \cup {e}
    /\ UNCHANGED <<db, world, call>>

Age(e) ==
    /\ Live(e) /\ pe[e].hasPi /\ e \notin aged
    /\ aged' = aged \cup {e}
    /\ UNCHANGED <<db, stripe, recorded, faults, call>>

Crash(c) ==
    /\ ~Free(c) /\ faults < MaxFaults
    /\ faults' = faults + 1
    /\ Leave(c)
    /\ UNCHANGED <<db, stripe, recorded, aged>>

-----------------------------------------------------------------------------
Arrive(c) ==
    \/ \E p \in Proposals : SubmitRead(c, p) \/ WithdrawRead(c, p) \/ AcceptRead(c, p)
    \/ \E e \in Events : HookSucceeded(c, e) \/ HookFailed(c, e)
    \/ \E j \in Jobs : SyncRead(c, j) \/ CancelRead(c, j) \/ ReleaseRead(c, j)

Step(c) ==
    \/ SubmitCreate(c) \/ WithdrawWrite(c)
    \/ AcceptProbe(c) \/ AcceptReadJob(c) \/ Reserve(c) \/ Reaccept(c)
    \/ CreatePiAnswer(c) \/ CreatePiThrow(c) \/ FailPe(c) \/ AttachPi(c)
    \/ CancelPi(c) \/ Unwind(c) \/ LockRead(c) \/ Lock(c) \/ EnsureTrip(c) \/ WriteTrip(c)
    \/ FailWrite(c) \/ FailCheck(c) \/ Record(c) \/ SyncWrite(c)
    \/ CancelJob(c) \/ Release(c) \/ Adjust(c)

Trips    == \E j \in Jobs : StartTrip(j) \/ CompleteTrip(j) \/ OpenException(j)
External == \/ \E e \in Events : Settle(e) \/ Age(e)
            \/ \E c \in Calls : Crash(c)

Next == (\E c \in Calls : Arrive(c) \/ Step(c)) \/ Trips \/ External

Spec == Init /\ [][Next]_vars

-----------------------------------------------------------------------------
(* Fairness: a request in progress is scheduled until it ends or dies, and *)
(* Stripe redelivers payment_intent.succeeded until a delivery is answered.*)
FairSpec ==
    /\ Spec
    /\ \A c \in Calls : WF_vars(Step(c))
    /\ \A e \in Events : SF_vars(\E c \in Calls : HookSucceeded(c, e))

-----------------------------------------------------------------------------
(* Properties that hold however the requests overlap. *)

JobCaptured(j) == \E e \in Events : pe[e].key # None /\ EventJob(e) = j /\ Captured(e)

(* A firm or finished award, a trip and settlement lines exist only for a  *)
(* job whose fare Stripe has captured: markPaidAndLock trusts its caller   *)
(* and never asks Stripe itself.                                           *)
LockedIsCaptured ==
    \A j \in Jobs : \/ asg[j].status \in {"LOCKED", "COMPLETED"}
                    \/ trip[j] # "NONE"
                    \/ lines[j] # "none"
                    => JobCaptured(j)

(* A job open for bids has no reserved, firm or finished award.            *)
OpenJobUnassigned ==
    \A j \in Jobs : job[j] = "BIDDING" => asg[j].status \in {"NONE", "CANCELLED"}

(* The handlers implement the abstract award: firm only when paid, and     *)
(* dropped only while it is a reservation.                                 *)
Contract == INSTANCE AwardContract WITH award <- [j \in Jobs |-> asg[j].status],
                                        paid <- [j \in Jobs |-> JobCaptured(j)]
AwardRefinesContract == Contract!Spec

(* A captured fare does not wait forever: its reservation is locked, or    *)
(* given up with the charge row, although processes die between the steps. *)
CapturedChargeSettles ==
    \A e \in Events : Live(e) /\ Captured(e)
                    ~> ~Live(e) \/ asg[EventJob(e)].status # "PENDING"

-----------------------------------------------------------------------------
(* Properties of requests that do not overlap, whatever Stripe, the driver *)
(* and crashes do between their steps.  Overlapping requests break each of *)
(* them.                                                                   *)
Alone == \A c, d \in Calls : c # d => Free(c) \/ Free(d)

(* A reservation is never stranded: while an assignment is PENDING there   *)
(* is a charge row that names it, from which a later accept, webhook or    *)
(* sync can lock it or unwind it.  That also holds however requests        *)
(* overlap while no job has two charge rows at once.  A re-listed job can  *)
(* have two: an unwind that read the one before a re-accept pointed it at  *)
(* a new assignment then deletes the only row that names that assignment.  *)
ReservationRecoverable ==
    \A j \in Jobs : asg[j].status = "PENDING" => \E e \in ChargesOf(j) : pe[e].asg = asg[j].id
SingleCharge == \A j \in Jobs : \A e, f \in ChargesOf(j) : e = f

(* When unwinding leaves the job open and unassigned, no bid of it is left *)
(* ACCEPTED: the sender can accept any of them again.  That also holds     *)
(* however requests overlap, until an exception is opened: an unwind that  *)
(* outlives a release and the next award drops that award's reservation,   *)
(* in the same assignment row, and gives back the bid it read of, the old  *)
(* one.                                                                    *)
OpenJobBidsOpen ==
    \A j \in Jobs : job[j] = "BIDDING" /\ asg[j].status = "NONE"
                  => \A p \in Proposals : JobOf[p] = j => proposal[p] # "ACCEPTED"
NoException == \A j \in Jobs : ~exc[j]

(* What an award rests on.  A reservation is for a bid that stands:        *)
(* withdrawProposal refuses an accepted bid.  A firm award keeps the       *)
(* succeeded charge row that paid for it, on which refund, release and     *)
(* payout depend, and settlement lines that are not void, and its job is   *)
(* assigned or moving: also after a release and another award.             *)
AwardHoldsBid(j) == asg[j].status = "PENDING" => proposal[asg[j].prop] = "ACCEPTED"
LockedIsAccounted(j) ==
    asg[j].status = "LOCKED" => /\ PaidCharges(j) # {} /\ lines[j] = "live"
                                /\ job[j] \in {"ASSIGNED", "IN_TRANSIT"}
AwardStands == \A j \in Jobs : AwardHoldsBid(j) /\ LockedIsAccounted(j)

-----------------------------------------------------------------------------
(* What a message of the repository says, and the code does not keep.      *)

(* "already assigned or pending payment on another job": a vehicle and a   *)
(* driver serve one award at a time.                                       *)
Holding(j) == \/ asg[j].status = "PENDING"
              \/ asg[j].status = "LOCKED" /\ trip[j] \in {"NONE", "PENDING_GATES", "IN_TRANSIT"}
CrewSingleAward ==
    \A j, k \in Jobs : j # k /\ Holding(j) /\ Holding(k)
                      => ~SharesCrew(asg[j].prop, asg[k].prop)
=============================================================================
