---------------------------- MODULE CarrierPayout ----------------------------
(***************************************************************************)
(* Paying a captured fare out: settlement lines are accrued with an award, *)
(* and transferred to the connected Stripe accounts of their recipients    *)
(* either when the trip completes or by a settlement cycle; a release or a *)
(* refund takes the transfer back and voids the lines.                     *)
(* Source: payments.service.ts (tryDisburseCarrierTransfer, refundStub,    *)
(* adjustForMarketplaceRelease), settlement-cycles.service.ts and its      *)
(* watchdog, and the calls to them in trips and exceptions.                *)
(*                                                                         *)
(* The fare is captured from the start, and awarding is one step: the      *)
(* requests behind it are those of AwardPayment.  As there, a handler runs *)
(* in a slot of Calls and is cut where it awaits PostgreSQL or Stripe.     *)
(***************************************************************************)
EXTENDS Naturals, FiniteSets, Sequences

CONSTANTS Jobs, Carriers, Calls,
          None,          \* no carrier
          Admin,         \* the staff member whose share a job carries
          Connected,     \* the payees that have a connected Stripe account
          ClearingDays,  \* setting: days a finished trip's fare is held
          MaxLines,      \* bound: settlement lines ever created
          MaxCycles,     \* bound: settlement cycles ever opened
          MaxFaults,     \* bound: faults
          Faults,        \* scope: what a fault can be
          Requests       \* scope: the kinds of request an instance receives

ASSUME PayoutConstants ==
    /\ None \notin Carriers \cup {Admin}
    /\ Admin \notin Carriers
    /\ Connected \subseteq Carriers \cup {Admin}
    /\ ClearingDays \in Nat /\ MaxLines \in Nat /\ MaxCycles \in Nat /\ MaxFaults \in Nat
    /\ Faults \subseteq {"refused", "lost", "crash"}
    /\ Requests \subseteq {"complete", "cycle", "release", "refund"}

Lines  == 1..MaxLines
Cycles == 1..MaxCycles

VARIABLES award, carrier, trip, line, cycle,
          transfer, reversal, refund,       \* PaymentEvent rows of those types
          sent, reversed, refunded,           \* what happened at Stripe
          faults, call

rows   == <<award, carrier, trip, line, cycle, transfer, reversal, refund>>
stripe == <<sent, reversed, refunded>>
vars   == <<award, carrier, trip, line, cycle, transfer, reversal, refund,
            sent, reversed, refunded, faults, call>>

Recipients == {"CARRIER", "ADMIN"}
Payees     == Carriers \cup {Admin}

(* The idempotency key of a transfer, by its line or by cycle, recipient   *)
(* and job; the reversal's key names the transfer, the refund's the job.   *)
Key     == [by : {"line", "cycle"}, n : Nat, to : Recipients, job : Jobs]
Payment == [key : Key, line : Lines, dest : Payees \cup {None}]

NoLine   == [st |-> "NONE", job |-> None, to |-> "CARRIER"]
Line     == [st : {"NONE", "ACCRUED", "PAID", "VOID"}, job : Jobs \cup {None}, to : Recipients]
Labels   == {"idle", "complete", "disburse", "dest", "markPaid", "send", "record",
             "mark", "pay", "runSend", "runRecord",
             "adjust", "reverse", "reverseRow", "void", "refundCheck", "refundSend", "refundRow"}
Idle     == [at |-> "idle", job |-> None, n |-> 0, now |-> {}, pays |-> {}, then |-> "idle"]
Slot     == [at : Labels, job : Jobs \cup {None}, n : Nat, now : SUBSET Payment,
             pays : SUBSET Payment, then : {"idle", "refundCheck"}]

TypeOK ==
    /\ award \in [Jobs -> {"OPEN", "LOCKED", "COMPLETED"}]
    /\ carrier \in [Jobs -> Carriers \cup {None}]
    /\ trip \in [Jobs -> {"NONE", "RUNNING", "ABANDONED", "COMPLETED"}]
    /\ line \in [Lines -> Line]
    /\ cycle \in [Cycles -> [st : {"NONE", "OPEN", "COMPLETED"}, made : Nat]]
    /\ transfer \in Seq(Key)
    /\ reversal \subseteq Key /\ refund \subseteq Jobs
    /\ sent \subseteq Payment /\ reversed \subseteq Key /\ refunded \subseteq Jobs
    /\ faults \in 0..MaxFaults
    /\ call \in [Calls -> Slot]

Init ==
    /\ award = [j \in Jobs |-> "OPEN"]
    /\ carrier = [j \in Jobs |-> None]
    /\ trip = [j \in Jobs |-> "NONE"]
    /\ line = [l \in Lines |-> NoLine]
    /\ cycle = [y \in Cycles |-> [st |-> "NONE", made |-> 0]]
    /\ transfer = <<>> /\ reversal = {} /\ refund = {}
    /\ sent = {} /\ reversed = {} /\ refunded = {}
    /\ faults = 0
    /\ call = [c \in Calls |-> Idle]

-----------------------------------------------------------------------------
Begin(c, k) == call' = [call EXCEPT ![c] = k]
Goto(c, l)  == call' = [call EXCEPT ![c].at = l]
Leave(c)    == Begin(c, Idle)
Free(c)     == call[c].at = "idle"
At(c, l)    == call[c].at = l

Made         == Cardinality({l \in Lines : line[l].st # "NONE"})
LinesOf(j)   == {l \in Lines : line[l].st # "NONE" /\ line[l].job = j}
Owed(l)      == line[l].st = "ACCRUED"
Standing(j)  == {l \in LinesOf(j) : line[l].st # "VOID"}

LineKey(l)     == [by |-> "line", n |-> l, to |-> line[l].to, job |-> line[l].job]
CycleKey(y, l) == [by |-> "cycle", n |-> y, to |-> line[l].to, job |-> line[l].job]

TransfersOf(j) == {i \in DOMAIN transfer : transfer[i].job = j}
ReversalsOf(j) == {k \in reversal : k.job = j}

(* A call to Stripe ends in an answer, or - a counted fault - in an error, *)
(* before or after Stripe did what was asked.                              *)
Counts(f)   == f \in Faults /\ faults < MaxFaults /\ faults' = faults + 1
Answered    == UNCHANGED faults
Refused     == Counts("refused")
Unheard     == Counts("lost")

(* Stripe repeats the answer of a key it knows, and refuses the key for    *)
(* another payment.                                                        *)
Acceptable(p) == \A q \in sent : q.key = p.key => q.dest = p.dest
Executed(p)   == sent' = IF \E q \in sent : q.key = p.key THEN sent ELSE sent \cup {p}

TransferUnchecked(c, p, k, m) ==  \* seeded fault
    /\ \/ Acceptable(p) /\ Answered /\ Executed(p) /\ Begin(c, k)
       \/ Refused /\ UNCHANGED sent /\ Begin(c, k)
    /\ UNCHANGED <<rows, reversed, refunded>>

(* stripe.createTransfer: the slot becomes k on an answer, m on an error.  *)
Transfer(c, p, k, m) ==
    /\ \/ Acceptable(p) /\ Answered /\ Executed(p) /\ Begin(c, k)
       \/ Refused /\ UNCHANGED sent /\ Begin(c, m)
       \/ Acceptable(p) /\ Unheard /\ Executed(p) /\ Begin(c, m)
       \/ ~Acceptable(p) /\ Answered /\ UNCHANGED sent /\ Begin(c, m)
    /\ UNCHANGED <<rows, reversed, refunded>>

-----------------------------------------------------------------------------
(* A bid is accepted and locked.  The lines of a job are created with its  *)
(* award unless it still has some that are not void.                       *)
NewLinePending(j, to) == [st |-> "PENDING", job |-> j, to |-> to]  \* seeded fault
NewLine(j, to) == [st |-> "ACCRUED", job |-> j, to |-> to]

Award(j, k) ==
    /\ award[j] = "OPEN"
    /\ Standing(j) # {} \/ Made + 2 <= MaxLines
    /\ award' = [award EXCEPT ![j] = "LOCKED"]
    /\ carrier' = [carrier EXCEPT ![j] = k]
    /\ trip' = [trip EXCEPT ![j] = "RUNNING"]
    /\ line' = IF Standing(j) # {} THEN line
               ELSE [line EXCEPT ![Made + 1] = NewLine(j, "CARRIER"),
                                 ![Made + 2] = NewLine(j, "ADMIN")]
    /\ UNCHANGED <<cycle, transfer, reversal, refund, stripe, faults, call>>

-----------------------------------------------------------------------------
(* completeTripIfReady reads the trip, writes it COMPLETED, and pays the   *)
(* carrier with tryDisburseCarrierTransfer, which nobody calls again.      *)
CompleteRead(c, j) ==
    /\ Free(c) /\ "complete" \in Requests
    /\ trip[j] \in {"RUNNING", "ABANDONED"}
    /\ Begin(c, [Idle EXCEPT !.at = "complete", !.job = j])
    /\ UNCHANGED <<rows, stripe, faults>>

Complete(c) ==
    LET j == call[c].job
    IN  /\ At(c, "complete")
        /\ trip' = [trip EXCEPT ![j] = "COMPLETED"]
        /\ award' = [award EXCEPT ![j] = "COMPLETED"]
        /\ Goto(c, "disburse")
        /\ UNCHANGED <<carrier, line, cycle, transfer, reversal, refund, stripe, faults>>

(* Due: the carrier's lines that are still owed; finished and cleared.     *)
DueInAnyState(j) == {l \in LinesOf(j) : line[l].to = "CARRIER"}  \* seeded fault
Due(j)     == {l \in LinesOf(j) : line[l].to = "CARRIER" /\ Owed(l)}
Cleared(j) == trip[j] = "COMPLETED" /\ ClearingDays = 0

DisburseRead(c) ==
    LET j == call[c].job
    IN  /\ At(c, "disburse")
        /\ \/ /\ Cleared(j)
              /\ \E l \in Due(j) : call' = [call EXCEPT ![c].at = "dest", ![c].n = l]
           \/ ~(Cleared(j) /\ Due(j) # {}) /\ Leave(c)
        /\ UNCHANGED <<rows, stripe, faults>>

(* Any TRANSFER row of the job counts as this line's. *)
DisburseDest(c) ==
    LET j == call[c].job  l == call[c].n
        p == [key |-> LineKey(l), line |-> l, dest |-> carrier[j]]
    IN  /\ At(c, "dest")
        /\ \/ TransfersOf(j) # {} /\ Goto(c, "markPaid")
           \/ /\ TransfersOf(j) = {} /\ carrier[j] \in Connected
              /\ call' = [call EXCEPT ![c].at = "send", ![c].now = {p}]
           \/ TransfersOf(j) = {} /\ carrier[j] \notin Connected /\ Leave(c)
        /\ UNCHANGED <<rows, stripe, faults>>

DisburseMark(c) ==
    /\ At(c, "markPaid")
    /\ line' = [line EXCEPT ![call[c].n].st = "PAID"]
    /\ Leave(c)
    /\ UNCHANGED <<award, carrier, trip, cycle, transfer, reversal, refund, stripe, faults>>

DisburseSend(c) ==
    /\ At(c, "send")
    /\ \E p \in call[c].now : Transfer(c, p, [call[c] EXCEPT !.at = "record"], Idle)

(* idempotencyKey is unique: a second row of a key throws. *)
Recorded(k) == \E i \in DOMAIN transfer : transfer[i] = k

DisburseRecord(c) ==
    /\ At(c, "record")
    /\ \E p \in call[c].now :
         IF Recorded(p.key)
         THEN UNCHANGED <<transfer, line>>
         ELSE /\ transfer' = Append(transfer, p.key)
              /\ line' = [line EXCEPT ![call[c].n].st = "PAID"]
    /\ Leave(c)
    /\ UNCHANGED <<award, carrier, trip, cycle, reversal, refund, stripe, faults>>
-----------------------------------------------------------------------------
(* getOrCreateActiveCycle: there is one OPEN cycle at a time. *)
OpenCycle(y) ==
    /\ "cycle" \in Requests /\ cycle[y].st = "NONE"
    /\ \A z \in Cycles : cycle[z].st # "OPEN" /\ (z < y => cycle[z].st # "NONE")
    /\ cycle' = [cycle EXCEPT ![y] = [st |-> "OPEN", made |-> Made]]
    /\ UNCHANGED <<award, carrier, trip, line, transfer, reversal, refund, stripe, faults, call>>

(* A cycle covers the lines created up to the end of the day it was opened *)
(* on: those made before, and any number of the next ones.                 *)
CoversEarlier(l, n) == l < n  \* seeded fault
Covers(l, n)        == l <= n

PayeeOf(l) == IF line[l].to = "ADMIN" THEN Admin ELSE carrier[line[l].job]

(* runDisbursement, by the watchdog or by an admin: reads what is owed,    *)
(* whatever state the trip is in, marks it PAID with the cycle COMPLETED,  *)
(* and then makes the transfers, in any order, logging what fails.         *)
EligibleUnpaid(l) == line[l].st \in {"ACCRUED", "PAID"}  \* seeded fault
Eligible(l)       == Owed(l)

RunRead(c, y) ==
    /\ Free(c) /\ cycle[y].st = "OPEN"
    /\ \E n \in cycle[y].made..Made :
         LET due == {l \in Lines : line[l].st # "NONE" /\ Eligible(l) /\ Covers(l, n)}
         IN  Begin(c, [Idle EXCEPT !.at = "mark", !.n = y,
                         !.pays = {[key |-> CycleKey(y, l), line |-> l, dest |-> PayeeOf(l)] : l \in due}])
    /\ UNCHANGED <<rows, stripe, faults>>

RunMark(c) ==
    /\ At(c, "mark")
    /\ line' = [l \in Lines |-> IF \E p \in call[c].pays : p.line = l
                               THEN [line[l] EXCEPT !.st = "PAID"] ELSE line[l]]
    /\ cycle' = [cycle EXCEPT ![call[c].n].st = "COMPLETED"]
    /\ call' = [call EXCEPT ![c].at = "pay", ![c].pays = {p \in call[c].pays : p.dest \in Connected}]
    /\ UNCHANGED <<award, carrier, trip, transfer, reversal, refund, stripe, faults>>

RunSend(c) ==
    /\ At(c, "pay")
    /\ \E p \in call[c].pays :
         LET rest == [call[c] EXCEPT !.pays = @ \ {p}]
         IN  Transfer(c, p, [rest EXCEPT !.at = "runRecord", !.now = {p}], rest)

RunRecord(c) ==
    /\ At(c, "runRecord")
    /\ \E p \in call[c].now :
         transfer' = IF Recorded(p.key) THEN transfer ELSE Append(transfer, p.key)
    /\ call' = [call EXCEPT ![c].at = "pay", ![c].now = {}]
    /\ UNCHANGED <<award, carrier, trip, line, cycle, reversal, refund, stripe, faults>>

RunEnd(c) ==
    /\ At(c, "pay") /\ call[c].pays = {}
    /\ Leave(c)
    /\ UNCHANGED <<rows, stripe, faults>>

-----------------------------------------------------------------------------
(* releaseToMarketplace re-opens the job and then adjusts the money; a     *)
(* refund adjusts it first, and goes on whether that fails or not.  A      *)
(* release asks for an exception that nobody has resolved, not how far the *)
(* trip is; any award that is not re-opened yet may have one.              *)
OnMoney(j, t) == [Idle EXCEPT !.at = "adjust", !.job = j, !.then = t]

Release(c, j) ==
    /\ Free(c) /\ "release" \in Requests
    /\ award[j] # "OPEN"
    /\ award' = [award EXCEPT ![j] = "OPEN"]
    /\ trip' = [trip EXCEPT ![j] = "ABANDONED"]
    /\ Begin(c, OnMoney(j, "idle"))
    /\ UNCHANGED <<carrier, line, cycle, transfer, reversal, refund, stripe, faults>>

RefundRead(c, j) ==
    /\ Free(c) /\ "refund" \in Requests /\ carrier[j] # None
    /\ Begin(c, OnMoney(j, "refundCheck"))
    /\ UNCHANGED <<rows, stripe, faults>>

(* What to take back: the job's latest transfer, if none was taken back.   *)
AdjustRead(c) ==
    LET j == call[c].job
    IN  /\ At(c, "adjust")
        /\ \/ /\ ReversalsOf(j) = {}
              /\ \E i \in TransfersOf(j) :
                   /\ \A x \in TransfersOf(j) : x <= i
                   /\ call' = [call EXCEPT ![c].at = "reverse", ![c].n = i]
           \/ (ReversalsOf(j) # {} \/ TransfersOf(j) = {}) /\ Goto(c, "void")
        /\ UNCHANGED <<rows, stripe, faults>>

(* The adjustment is over, or failed: a release ends with it, a refund     *)
(* goes on either way.                                                     *)
Return(c) == Begin(c, IF call[c].then = "idle" THEN Idle
                     ELSE [call[c] EXCEPT !.at = call[c].then, !.then = "idle"])

ReverseSend(c) ==
    LET k == transfer[call[c].n]
    IN  /\ At(c, "reverse")
        /\ \/ Answered /\ reversed' = reversed \cup {k} /\ Goto(c, "reverseRow")
           \/ Refused /\ UNCHANGED reversed /\ Return(c)
           \/ Unheard /\ reversed' = reversed \cup {k} /\ Return(c)
        /\ UNCHANGED <<rows, sent, refunded>>

ReverseRow(c) ==
    LET k == transfer[call[c].n]
    IN  /\ At(c, "reverseRow")
        /\ IF k \in reversal THEN Return(c) /\ UNCHANGED reversal
           ELSE reversal' = reversal \cup {k} /\ Goto(c, "void")
        /\ UNCHANGED <<award, carrier, trip, line, cycle, transfer, refund, stripe, faults>>

VoidLines(c) ==
    /\ At(c, "void")
    /\ line' = [l \in Lines |-> IF l \in LinesOf(call[c].job)
                               THEN [line[l] EXCEPT !.st = "VOID"] ELSE line[l]]
    /\ Return(c)
    /\ UNCHANGED <<award, carrier, trip, cycle, transfer, reversal, refund, stripe, faults>>

RefundCheck(c) ==
    /\ At(c, "refundCheck")
    /\ IF call[c].job \in refund THEN Leave(c) ELSE Goto(c, "refundSend")
    /\ UNCHANGED <<rows, stripe, faults>>

RefundSend(c) ==
    LET j == call[c].job
    IN  /\ At(c, "refundSend")
        /\ \/ Answered /\ refunded' = refunded \cup {j} /\ Goto(c, "refundRow")
           \/ Refused /\ UNCHANGED refunded /\ Leave(c)
           \/ Unheard /\ refunded' = refunded \cup {j} /\ Leave(c)
        /\ UNCHANGED <<rows, sent, reversed>>

RefundRow(c) ==
    LET j == call[c].job
    IN  /\ At(c, "refundRow")
        /\ IF j \in refund THEN Leave(c) /\ UNCHANGED refund
           ELSE refund' = refund \cup {j} /\ Goto(c, "void")
        /\ UNCHANGED <<award, carrier, trip, line, cycle, transfer, reversal, stripe, faults>>

-----------------------------------------------------------------------------
Crash(c) ==
    /\ ~Free(c) /\ Counts("crash")
    /\ Leave(c)
    /\ UNCHANGED <<rows, stripe>>

Arrive(c) == \/ \E j \in Jobs : CompleteRead(c, j) \/ Release(c, j) \/ RefundRead(c, j)
             \/ \E y \in Cycles : RunRead(c, y)

Step(c) ==
    \/ Complete(c) \/ DisburseRead(c) \/ DisburseDest(c) \/ DisburseMark(c)
    \/ DisburseSend(c) \/ DisburseRecord(c)
    \/ RunMark(c) \/ RunSend(c) \/ RunRecord(c) \/ RunEnd(c)
    \/ AdjustRead(c) \/ ReverseSend(c) \/ ReverseRow(c) \/ VoidLines(c)
    \/ RefundCheck(c) \/ RefundSend(c) \/ RefundRow(c)

Next == \/ \E c \in Calls : Arrive(c) \/ Step(c) \/ Crash(c)
        \/ \E j \in Jobs, k \in Carriers : Award(j, k)
        \/ \E y \in Cycles : OpenCycle(y)

Spec == Init /\ [][Next]_vars

(* Fairness: a request in progress is scheduled, and the watchdog ticks    *)
(* for as long as a cycle is OPEN.                                         *)
FairSpec ==
    /\ Spec
    /\ \A c \in Calls : WF_vars(Step(c))
    /\ \A y \in Cycles : SF_vars(\E c \in Calls : RunRead(c, y))

-----------------------------------------------------------------------------
(* Properties that hold however the requests overlap and fail.             *)

(* The ledger never tells of money that did not move: each TRANSFER,       *)
(* TRANSFER_REVERSAL and REFUND row stands for what Stripe did, and only a *)
(* transfer that was made is taken back.                                   *)
RowsBacked ==
    /\ \A i \in DOMAIN transfer : \E p \in sent : p.key = transfer[i]
    /\ reversal \subseteq reversed /\ refund \subseteq refunded
    /\ \A k \in reversed : \E p \in sent : p.key = k

(* A line that an OPEN cycle covers does not stay owed: the watchdog runs  *)
(* the cycle, although processes die on the way.                           *)
CoveredLineSettles ==
    \A l \in Lines, y \in Cycles :
        Owed(l) /\ cycle[y].st = "OPEN" /\ l <= cycle[y].made ~> ~Owed(l)

-----------------------------------------------------------------------------
(* Properties of requests that do not overlap.                             *)

(* While every answer of Stripe is heard, the two ways to pay a line, by   *)
(* its trip and by a cycle, do not both pay it.                            *)
LinePaidOnce == \A l \in Lines : Cardinality({p \in sent : p.line = l}) <= 1

(* Whatever fails, a line once void is not brought back.                   *)
VoidStays == [][\A l \in Lines : line[l].st = "VOID" => line'[l].st = "VOID"]_vars

=============================================================================
