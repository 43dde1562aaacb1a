--------------------------- MODULE SurchargeLedger ---------------------------
(***************************************************************************)
(* Waiting surcharges of one stop of one trip, and the disputes about      *)
(* them.  Location samples bill the dwell (createSurcharge), the sender or *)
(* the driver's proof of delivery charges it through Stripe                *)
(* (chargeSurcharge, markSurchargePaid), webhooks book it, a super admin   *)
(* waives it (waiveSurcharge), and a dispute takes it out of collection    *)
(* and rules on it.  Source: payments.service.ts, disputes.service.ts.     *)
(*                                                                         *)
(* A request runs in a slot of Calls and is cut where the code awaits      *)
(* PostgreSQL or Stripe; a Prisma $transaction is one step.  Amounts are   *)
(* counted in units of the smallest step of the dwell that is billed.      *)
(***************************************************************************)
EXTENDS Naturals, FiniteSets, FiniteSetsExt

CONSTANTS Calls,
          MaxCases,    \* bound: disputes ever opened
          MaxWait,     \* bound: the dwell past the free wait, in units
          MaxAttempt,  \* bound: how often a failed charge is tried again
          Scopes       \* the bounds a behaviour may choose at its start

ASSUME SurchargeConstants ==
    /\ MaxWait \in Nat \ {0} /\ MaxAttempt \in Nat
    /\ MaxCases \in Nat
    /\ Scopes \subseteq [width : Nat, wait : 0..MaxWait, attempts : 0..MaxAttempt,
                         cases : 0..MaxCases, faults : Nat]

(* A row is named by the amount its idempotencyKey carries: 0 is           *)
(* waiting:<trip>:<stop>, w is its sibling ...:postpi:<w>.                 *)
Keys     == 0..MaxWait
Amounts  == 1..MaxWait
Attempts == 0..MaxAttempt

(* A dispute is named by its number, D-8800 + count + 1.                   *)
Cases == 1..MaxCases

(* An intent is named by the idempotency key Stripe gets: row, amount and  *)
(* attempt.                                                                *)
Intents  == [key : Keys, amt : Amounts, att : Attempts]
NoIntent == [key |-> 0, amt |-> 0, att |-> 0]

(* payment_intent.succeeded and .payment_failed of an intent.              *)
Events == {"succeeded", "failed"} \X Intents

VARIABLES row,         \* Surcharge rows with their PaymentEvent
          dispute,     \* Dispute rows
          intent,      \* Stripe's intents, by key
          waited,      \* the dwell so far
          heard,       \* webhook events recorded as handled
          call, faults,
          scope        \* requests at a time, dwell, attempts, disputes, faults

vars == <<row, dispute, intent, waited, heard, call, faults, scope>>

SurchargeStatus == {"NONE", "PENDING_PAYMENT", "PAID", "WAIVED", "DISPUTED"}
EventStatus     == {"PENDING", "REQUIRES_ACTION", "SUCCEEDED", "FAILED", "CANCELLED"}
DisputeStatus   == {"NONE", "OPEN_TRIAGE", "TRIAGED", "ESCALATED_STATE", "ESCALATED_SUPER",
                    "RESOLVED", "CLOSED"}
Rulings         == {"NONE", "FAVOR_SENDER", "FAVOR_CARRIER", "SPLIT"}
IntentStatus    == {"none", "requires_action", "succeeded", "canceled", "refunded"}

(* amt is amountIncGstCents, ev and pi the PaymentEvent's status and       *)
(* stripePaymentIntentId, att its metadata.stripeAttempt.                  *)
Row     == [status : SurchargeStatus, amt : 0..MaxWait, ev : EventStatus,
            pi : Intents \cup {NoIntent}, att : Attempts]
NoRow   == [status |-> "NONE", amt |-> 0, ev |-> "PENDING", pi |-> NoIntent, att |-> 0]
Dispute == [status : DisputeStatus, about : Keys, ruling : Rulings]
(* now is the intent's state; reply what Stripe answered to the create,    *)
(* which it repeats for the same key; secret: the customer was given the   *)
(* clientSecret, with which an intent that requires action is confirmed.   *)
Intent  == [now : IntentStatus, reply : {"none", "requires_action", "succeeded"},
            secret : BOOLEAN]
Answered(a) == [now |-> a, reply |-> a, secret |-> FALSE]

Labels == {"idle", "create", "grow", "sibling", "load", "retry", "pay", "attach", "fail",
           "mark", "book", "refund", "record", "failed", "waive", "cancelEvent", "cancelIntent",
           "open", "triage", "resolve"}
Slot == [at : Labels, key : Keys, amt : 0..MaxWait, pi : Intents \cup {NoIntent},
         att : Attempts, case : {0} \cup Cases, saw : DisputeStatus,
         hook : BOOLEAN]
Idle == [at |-> "idle", key |-> 0, amt |-> 0, pi |-> NoIntent, att |-> 0, case |-> 0,
         saw |-> "NONE", hook |-> FALSE]

RowsTyped   == row \in [Keys -> Row] /\ dispute \in [Cases -> Dispute]
StripeTyped == intent \in [Intents -> Intent] /\ heard \in SUBSET Events
SlotsTyped  == call \in [Calls -> Slot]
TypeOK == /\ RowsTyped /\ StripeTyped /\ SlotsTyped
          /\ waited \in 0..MaxWait /\ scope \in Scopes /\ faults \in Nat

Init == /\ row = [k \in Keys |-> NoRow]
        /\ dispute = [d \in Cases |-> [status |-> "NONE", about |-> 0, ruling |-> "NONE"]]
        /\ intent = [p \in Intents |-> Answered("none")]
        /\ waited = 0 /\ heard = {} /\ faults = 0
        /\ call = [c \in Calls |-> Idle]
        /\ scope \in Scopes

-----------------------------------------------------------------------------
Exists(k)   == row[k].status # "NONE"
Captured(p) == intent[p].now = "succeeded"
Busy        == {c \in Calls : call[c].at # "idle"}

(* A free slot takes a request and goes to work on s; a busy one goes on.  *)
Begins(c, s) == /\ call[c].at = "idle" /\ Cardinality(Busy) < scope.width
                /\ call' = [call EXCEPT ![c] = s]
Goes(c, s)   == call' = [call EXCEPT ![c] = s]
Ends(c)      == call' = [call EXCEPT ![c] = Idle]
(* What follows a booking: the webhook records its event, a charge returns. *)
Booked(c)    == IF call[c].hook THEN Goes(c, [call[c] EXCEPT !.at = "record"]) ELSE Ends(c)

-----------------------------------------------------------------------------
(* Billing the dwell: createSurcharge, from a location sample. *)

Dwell == /\ waited < scope.wait
         /\ waited' = waited + 1
         /\ UNCHANGED <<row, dispute, intent, heard, call, faults, scope>>

GrowableCharged(k, amt) == row[k].status = "PENDING_PAYMENT" /\ amt > row[k].amt  \* seeded fault
Growable(k, amt) == row[k].status = "PENDING_PAYMENT" /\ row[k].pi = NoIntent /\ amt > row[k].amt

(* A charge was started for less: what came after goes to a sibling row.   *)
OutgrownUnpaid(amt) == row[0].status = "PENDING_PAYMENT" /\ row[0].pi # NoIntent /\ amt > row[0].amt  \* seeded fault
Outgrown(amt) == /\ row[0].status \in {"PENDING_PAYMENT", "PAID"}
                 /\ row[0].pi # NoIntent /\ amt > row[0].amt

SampleRead(c) ==
    /\ waited > 0
    /\ LET s == [Idle EXCEPT !.amt = waited]
       IN \/ ~Exists(0) /\ Begins(c, [s EXCEPT !.at = "create"])
          \/ Growable(0, waited) /\ Begins(c, [s EXCEPT !.at = "grow", !.att = row[0].att])
          \/ /\ Outgrown(waited)
             /\ Begins(c, [s EXCEPT !.at = "sibling", !.key = waited, !.amt = waited - row[0].amt])
    /\ UNCHANGED <<row, dispute, intent, waited, heard, faults, scope>>

(* The recursive call looks the sibling up under its own key. *)
SiblingRead(c) ==
    /\ call[c].at = "sibling"
    /\ LET k == call[c].key
       IN \/ ~Exists(k) /\ Goes(c, [call[c] EXCEPT !.at = "create"])
          \/ /\ Growable(k, call[c].amt)
             /\ Goes(c, [call[c] EXCEPT !.at = "grow", !.att = row[k].att])
          \/ Exists(k) /\ ~Growable(k, call[c].amt) /\ Ends(c)
    /\ UNCHANGED <<row, dispute, intent, waited, heard, faults, scope>>

(* The key is unique, so the second of two creates fails. *)
CreateRow(c) ==
    /\ call[c].at = "create"
    /\ LET k == call[c].key
       IN row' = IF Exists(k) THEN row
                 ELSE [row EXCEPT ![k] = [NoRow EXCEPT !.status = "PENDING_PAYMENT",
                                                       !.amt = call[c].amt]]
    /\ Ends(c)
    /\ UNCHANGED <<dispute, intent, waited, heard, faults, scope>>

(* The event's metadata, its attempt counter with it, is written back as   *)
(* it was read.                                                            *)
GrowRow(c) ==
    /\ call[c].at = "grow"
    /\ row' = [row EXCEPT ![call[c].key].amt = call[c].amt, ![call[c].key].att = call[c].att]
    /\ Ends(c)
    /\ UNCHANGED <<dispute, intent, waited, heard, faults, scope>>

-----------------------------------------------------------------------------
(* Charging a row: paySurcharge, or the proof of delivery's settlement. *)

ChargeRead(c, k) ==
    /\ row[k].status = "PENDING_PAYMENT"
    /\ Begins(c, [Idle EXCEPT !.at = "load", !.key = k])
    /\ UNCHANGED <<row, dispute, intent, waited, heard, faults, scope>>

Snapshot(c, l, k, att) ==
    [call[c] EXCEPT !.at = l, !.key = k, !.amt = row[k].amt, !.att = att]

ChargeLoad(c) ==
    /\ call[c].at = "load"
    /\ LET k == call[c].key
       IN \/ row[k].status \in {"PAID", "WAIVED"} /\ Ends(c)
          \/ /\ row[k].status \in {"PENDING_PAYMENT", "DISPUTED"}
             /\ IF row[k].ev \in {"FAILED", "CANCELLED"}
                THEN IF row[k].att < scope.attempts
                     THEN Goes(c, Snapshot(c, "retry", k, row[k].att + 1))
                     ELSE Ends(c)   \* the bound
                ELSE Goes(c, Snapshot(c, "pay", k, row[k].att))
    /\ UNCHANGED <<row, dispute, intent, waited, heard, faults, scope>>

ChargeRetry(c) ==
    /\ call[c].at = "retry"
    /\ row' = [row EXCEPT ![call[c].key].ev = "PENDING", ![call[c].key].pi = NoIntent,
                          ![call[c].key].att = call[c].att]
    /\ Goes(c, [call[c] EXCEPT !.at = "pay"])
    /\ UNCHANGED <<dispute, intent, waited, heard, faults, scope>>

IntentOf(c) == [key |-> call[c].key, amt |-> call[c].amt, att |-> call[c].att]

(* Stripe makes the intent once per key, and answers as it answered first. *)
CreateIntent(c) ==
    /\ call[c].at = "pay"
    /\ LET p == IntentOf(c)
       IN /\ IF intent[p].now = "none"
             THEN \E a \in {"requires_action", "succeeded"} :
                      intent' = [intent EXCEPT ![p] = Answered(a)]
             ELSE UNCHANGED intent
          /\ Goes(c, [call[c] EXCEPT !.at = "attach", !.pi = p])
    /\ UNCHANGED <<row, dispute, waited, heard, faults, scope>>

(* The card is declined, or the answer is lost after the capture. *)
CreateIntentThrows(c) ==
    /\ call[c].at = "pay"
    /\ \/ intent[IntentOf(c)].now = "none" /\ UNCHANGED <<intent, faults>>
       \/ /\ faults < scope.faults /\ faults' = faults + 1
          /\ IF intent[IntentOf(c)].now = "none"
             THEN intent' = [intent EXCEPT ![IntentOf(c)] = Answered("succeeded")]
             ELSE UNCHANGED intent
    /\ Goes(c, [call[c] EXCEPT !.at = "fail"])
    /\ UNCHANGED <<row, dispute, waited, heard, scope>>

ChargeFail(c) ==
    /\ call[c].at = "fail"
    /\ row' = [row EXCEPT ![call[c].key].ev = "FAILED", ![call[c].key].att = call[c].att]
    /\ Ends(c)
    /\ UNCHANGED <<dispute, intent, waited, heard, faults, scope>>

PaidAtOnceAny(p) == intent[p].reply # "none"  \* seeded fault
PaidAtOnce(p) == intent[p].reply = "succeeded"

ChargeAttach(c) ==
    /\ call[c].at = "attach"
    /\ LET p == call[c].pi
           paid == PaidAtOnce(p)
       IN /\ row' = [row EXCEPT ![p.key].pi = p,
                                ![p.key].ev = IF paid THEN "SUCCEEDED" ELSE "REQUIRES_ACTION"]
          /\ IF paid
             THEN Goes(c, [call[c] EXCEPT !.at = "mark"]) /\ UNCHANGED intent
             ELSE Ends(c) /\ intent' = [intent EXCEPT ![p].secret = TRUE]
    /\ UNCHANGED <<dispute, waited, heard, faults, scope>>

-----------------------------------------------------------------------------
(* Booking a capture: markSurchargePaid, from the charge or a webhook. *)

Stale(p) == row[p.key].pi # NoIntent /\ row[p.key].pi # p

(* Where a capture of p goes. *)
OnCaptureForgetful(p) == IF row[p.key].status \in {"PAID", "WAIVED"} THEN "done" ELSE "book"  \* seeded fault
OnCaptureAlways(p) == IF row[p.key].status = "PAID" THEN "done" ELSE "book"  \* seeded fault
OnCapture(p) == CASE row[p.key].status = "PAID" -> "done"
                  [] row[p.key].status = "WAIVED" -> "refund"
                  [] OTHER -> IF Stale(p) THEN "done" ELSE "book"

MarkRead(c) ==
    /\ call[c].at = "mark"
    /\ LET next == OnCapture(call[c].pi)
       IN IF next = "done" THEN Booked(c) ELSE Goes(c, [call[c] EXCEPT !.at = next])
    /\ UNCHANGED <<row, dispute, intent, waited, heard, faults, scope>>

MarkWrite(c) ==
    /\ call[c].at = "book"
    /\ LET p == call[c].pi
       IN row' = [row EXCEPT ![p.key].status = "PAID", ![p.key].ev = "SUCCEEDED", ![p.key].pi = p]
    /\ Booked(c)
    /\ UNCHANGED <<dispute, intent, waited, heard, faults, scope>>

(* One refund per row: its key names the surcharge, so a second one for    *)
(* another intent is refused, as a lost one is, and nobody hears of it.    *)
MarkRefund(c) ==
    /\ call[c].at = "refund"
    /\ LET p == call[c].pi
       IN \/ /\ Captured(p)
             /\ \A q \in Intents : q.key = p.key => intent[q].now # "refunded"
             /\ intent' = [intent EXCEPT ![p].now = "refunded"]
             /\ UNCHANGED faults
          \/ /\ \/ ~Captured(p) /\ UNCHANGED faults
                \/ (\E q \in Intents : q.key = p.key /\ intent[q].now = "refunded") /\ UNCHANGED faults
                \/ faults < scope.faults /\ faults' = faults + 1
             /\ UNCHANGED intent
    /\ Booked(c)
    /\ UNCHANGED <<row, dispute, waited, heard, scope>>

(* payment_intent.succeeded is delivered until a delivery is recorded. *)
HookSucceededOnce(c, p) ==  \* seeded fault
    /\ intent[p].now \in {"succeeded", "refunded"} /\ <<"succeeded", p>> \notin heard
    /\ Begins(c, [Idle EXCEPT !.at = "mark", !.key = p.key, !.pi = p, !.hook = TRUE])
    /\ heard' = heard \cup {<<"succeeded", p>>}
    /\ UNCHANGED <<row, dispute, intent, waited, faults, scope>>
HookSucceeded(c, p) ==
    /\ intent[p].now \in {"succeeded", "refunded"} /\ <<"succeeded", p>> \notin heard
    /\ Begins(c, [Idle EXCEPT !.at = "mark", !.key = p.key, !.pi = p, !.hook = TRUE])
    /\ UNCHANGED <<row, dispute, intent, waited, heard, faults, scope>>

Record(c) ==
    /\ call[c].at = "record"
    /\ heard' = heard \cup {<<"succeeded", call[c].pi>>}
    /\ Ends(c)
    /\ UNCHANGED <<row, dispute, intent, waited, faults, scope>>

(* payment_intent.payment_failed: a confirmation by the customer failed.   *)
HookFailed(c, p) ==
    /\ intent[p].secret /\ <<"failed", p>> \notin heard
    /\ row[p.key].ev \notin {"SUCCEEDED", "CANCELLED"}
    /\ Begins(c, [Idle EXCEPT !.at = "failed", !.key = p.key, !.pi = p])
    /\ UNCHANGED <<row, dispute, intent, waited, heard, faults, scope>>

FailedWrite(c) ==
    /\ call[c].at = "failed"
    /\ row' = [row EXCEPT ![call[c].key].ev = "FAILED"]
    /\ heard' = heard \cup {<<"failed", call[c].pi>>}
    /\ Ends(c)
    /\ UNCHANGED <<dispute, intent, waited, faults, scope>>

(* The customer confirms an intent that asked for it. *)
Confirm(p) ==
    /\ intent[p].now = "requires_action" /\ intent[p].secret
    /\ intent' = [intent EXCEPT ![p].now = "succeeded"]
    /\ UNCHANGED <<row, dispute, waited, heard, call, faults, scope>>

-----------------------------------------------------------------------------
(* Waiving a row: waiveSurcharge. *)

WaiveRead(c, k) ==
    /\ row[k].status \in {"PENDING_PAYMENT", "DISPUTED"}
    /\ Begins(c, [Idle EXCEPT !.at = "waive", !.key = k, !.pi = row[k].pi])
    /\ UNCHANGED <<row, dispute, intent, waited, heard, faults, scope>>

WaiveWrite(c) ==
    /\ call[c].at = "waive"
    /\ IF row[call[c].key].status = "PENDING_PAYMENT"
       THEN /\ row' = [row EXCEPT ![call[c].key].status = "WAIVED"]
            /\ Goes(c, [call[c] EXCEPT !.at = "cancelEvent"])
       ELSE UNCHANGED row /\ Ends(c)
    /\ UNCHANGED <<dispute, intent, waited, heard, faults, scope>>

WaiveEvent(c) ==
    /\ call[c].at = "cancelEvent"
    /\ row' = [row EXCEPT ![call[c].key].ev = "CANCELLED"]
    /\ IF call[c].pi = NoIntent THEN Ends(c) ELSE Goes(c, [call[c] EXCEPT !.at = "cancelIntent"])
    /\ UNCHANGED <<dispute, intent, waited, heard, faults, scope>>

WaiveIntent(c) ==
    /\ call[c].at = "cancelIntent"
    /\ intent' = IF intent[call[c].pi].now = "requires_action"
                 THEN [intent EXCEPT ![call[c].pi].now = "canceled"] ELSE intent
    /\ Ends(c)
    /\ UNCHANGED <<row, dispute, waited, heard, faults, scope>>

-----------------------------------------------------------------------------
(* Disputes. *)

Opened == {d \in Cases : dispute[d].status # "NONE"}

(* The number is counted before the transaction that uses it. *)
OpenRead(c, k) ==
    /\ Exists(k)
    /\ Cardinality(Opened) < scope.cases
    /\ Begins(c, [Idle EXCEPT !.at = "open", !.key = k, !.case = Cardinality(Opened) + 1])
    /\ UNCHANGED <<row, dispute, intent, waited, heard, faults, scope>>

(* Whatever the surcharge's status; a number that is taken fails.          *)
OpenWrite(c) ==
    /\ call[c].at = "open"
    /\ LET d == call[c].case
       IN IF dispute[d].status = "NONE"
          THEN /\ dispute' = [dispute EXCEPT ![d] = [status |-> "OPEN_TRIAGE",
                                                     about |-> call[c].key, ruling |-> "NONE"]]
               /\ row' = [row EXCEPT ![call[c].key].status = "DISPUTED"]
          ELSE UNCHANGED <<dispute, row>>
    /\ Ends(c)
    /\ UNCHANGED <<intent, waited, heard, faults, scope>>

TriageRead(c, d) ==
    /\ d \in Opened
    /\ Begins(c, [Idle EXCEPT !.at = "triage", !.case = d, !.saw = dispute[d].status])
    /\ UNCHANGED <<row, dispute, intent, waited, heard, faults, scope>>

(* The status that was read is written, advanced if the checklist is full. *)
TriageWrite(c) ==
    /\ call[c].at = "triage"
    /\ \E full \in BOOLEAN :
           dispute' = [dispute EXCEPT ![call[c].case].status =
                           IF call[c].saw = "OPEN_TRIAGE" /\ full THEN "TRIAGED" ELSE call[c].saw]
    /\ Ends(c)
    /\ UNCHANGED <<row, intent, waited, heard, faults, scope>>

(* escalate and closeLocal write a status that depends on nothing read.    *)
Escalate(d) ==
    /\ d \in Opened
    /\ \E to \in {"ESCALATED_STATE", "ESCALATED_SUPER"} :
           dispute' = [dispute EXCEPT ![d].status = to]
    /\ UNCHANGED <<row, intent, waited, heard, call, faults, scope>>

CloseLocal(d) ==
    /\ d \in Opened
    /\ dispute' = [dispute EXCEPT ![d].status = "CLOSED"]
    /\ UNCHANGED <<row, intent, waited, heard, call, faults, scope>>

(* A State Master may not rule once the case went to a Super Admin.        *)
ResolveRead(c, d, by) ==
    /\ d \in Opened
    /\ by = "STATE_MASTER" => dispute[d].status # "ESCALATED_SUPER"
    /\ Begins(c, [Idle EXCEPT !.at = "resolve", !.case = d])
    /\ UNCHANGED <<row, dispute, intent, waited, heard, faults, scope>>

(* WAIVE_SURCHARGE waives whoever the ruling favours; SPLIT alone leaves   *)
(* the surcharge as it is.                                                 *)
RuledStatusVerbatim(ruling, waives, old) ==  \* seeded fault
    IF waives THEN "WAIVED" ELSE IF ruling = "SPLIT" THEN "RESOLVED" ELSE old
RuledStatus(ruling, waives, old) ==
    IF waives \/ ruling = "FAVOR_SENDER" THEN "WAIVED"
    ELSE IF ruling = "FAVOR_CARRIER" THEN "PENDING_PAYMENT" ELSE old

ResolveWrite(c) ==
    /\ call[c].at = "resolve"
    /\ \E ruling \in Rulings \ {"NONE"}, waives \in BOOLEAN :
           LET d == call[c].case
               k == dispute[d].about
           IN /\ dispute' = [dispute EXCEPT ![d].status = "RESOLVED", ![d].ruling = ruling]
              /\ row' = [row EXCEPT ![k].status = RuledStatus(ruling, waives, row[k].status)]
    /\ Ends(c)
    /\ UNCHANGED <<intent, waited, heard, faults, scope>>

-----------------------------------------------------------------------------
(* The process that serves c dies between two statements. *)
Crash(c) ==
    /\ call[c].at # "idle" /\ faults < scope.faults
    /\ faults' = faults + 1
    /\ Ends(c)
    /\ UNCHANGED <<row, dispute, intent, waited, heard, scope>>

Steps(c) == \/ SiblingRead(c) \/ CreateRow(c) \/ GrowRow(c)
            \/ ChargeLoad(c) \/ ChargeRetry(c) \/ CreateIntent(c) \/ CreateIntentThrows(c)
            \/ ChargeFail(c) \/ ChargeAttach(c)
            \/ MarkRead(c) \/ MarkWrite(c) \/ MarkRefund(c) \/ Record(c) \/ FailedWrite(c)
            \/ WaiveWrite(c) \/ WaiveEvent(c) \/ WaiveIntent(c)
            \/ OpenWrite(c) \/ TriageWrite(c) \/ ResolveWrite(c)

Receives(c) == \/ SampleRead(c)
               \/ \E k \in Keys : ChargeRead(c, k) \/ WaiveRead(c, k) \/ OpenRead(c, k)
               \/ \E p \in Intents : HookSucceeded(c, p) \/ HookFailed(c, p)
               \/ \E d \in Cases : TriageRead(c, d)
               \/ \E d \in Cases, by \in {"STATE_MASTER", "SUPER_ADMIN"} : ResolveRead(c, d, by)

Next == \/ Dwell
        \/ \E p \in Intents : Confirm(p)
        \/ \E d \in Cases : Escalate(d) \/ CloseLocal(d)
        \/ \E c \in Calls : Receives(c) \/ Steps(c) \/ Crash(c)

Spec == Init /\ [][Next]_vars

(* A handler that runs goes on, and Stripe delivers an event again until a *)
(* delivery is recorded: the slots stand for a server that has room for it *)
(* now and then.                                                           *)
FairSpec == /\ Spec
            /\ \A c \in Calls : WF_vars(Steps(c))
            /\ SF_vars(\E c \in Calls, p \in Intents : HookSucceeded(c, p))

-----------------------------------------------------------------------------
(* Properties. *)

Undisputed(k) == \A d \in Opened : dispute[d].about # k
Alone         == scope.width = 1 /\ faults = 0

(* However requests overlap, a surcharge that reads PAID was captured: some *)
(* intent made for it was charged (chargeSurcharge, markSurchargePaid).     *)
PaidIsCaptured ==
    \A k \in Keys : row[k].status = "PAID" =>
        \E p \in Intents : p.key = k /\ intent[p].now \in {"succeeded", "refunded"}

(* A sample that finds nothing to add. *)
NothingToAdd ==
    /\ Exists(0) /\ ~Growable(0, waited)
    /\ Outgrown(waited) => Exists(waited) /\ ~Growable(waited, waited - row[0].amt)

(* One request at a time, createSurcharge leaves no minute of the dwell    *)
(* unbilled: not when the base row is frozen by an intent, is paid, or has *)
(* siblings, nor when calls fail, unless it was waived or is disputed.     *)
BilledInFull ==
    scope.width = 1 /\ Busy = {} /\ NothingToAdd /\ row[0].status \in {"PENDING_PAYMENT", "PAID"}
        => MapThenSumSet(LAMBDA k : row[k].amt, Keys) >= waited

(* A row paid at the first attempt was captured for the amount it shows.   *)
PaidInFull ==
    Alone => \A k \in Keys : row[k].status = "PAID" /\ row[k].att = 0
                 => row[k].pi.amt = row[k].amt

(* A waiver stands: a capture that arrives after it is paid back, and once *)
(* its event was handled no money is kept.                                 *)
WaivedKeepsNothing ==
    Alone => \A p \in Intents :
        /\ <<"succeeded", p>> \in heard /\ row[p.key].status = "WAIVED"
        /\ row[p.key].att = 0 /\ Undisputed(p.key)
        => ~Captured(p)

(* A ruling for the sender stands: the surcharge stays waived, whatever    *)
(* payment was on its way, until the case is taken up again.               *)
RulingStands ==
    scope.width = 1 => \A d \in Opened :
        /\ dispute[d].status = "RESOLVED" /\ dispute[d].ruling = "FAVOR_SENDER"
        /\ \A e \in Opened \ {d} : dispute[e].about # dispute[d].about
        => row[dispute[d].about].status = "WAIVED"

(* A captured intent that its undisputed row names does not leave the row  *)
(* payable for good: a redelivered webhook books it, also after a crash,   *)
(* unless a failed charge was tried again while another one was running.   *)
Unbooked(p) == /\ Captured(p) /\ row[p.key].pi = p /\ Undisputed(p.key)
               /\ row[p.key].status = "PENDING_PAYMENT"
CaptureBooked == []<>(scope.width = 1 \/ scope.attempts = 0 => \A p \in Intents : ~Unbooked(p))
=============================================================================
