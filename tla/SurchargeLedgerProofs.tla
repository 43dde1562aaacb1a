------------------------ MODULE SurchargeLedgerProofs ------------------------
(***************************************************************************)
(* Proofs about SurchargeLedger, for every set of slots and every bound.   *)
(*                                                                         *)
(* Inv is inductive however requests overlap and die: it gives every slot  *)
(* its own promise (a row that is charged exists, an intent that is booked *)
(* was captured), without which neither the types nor PaidIsCaptured carry *)
(* over a step.  SerialInv adds what holds when requests are served one at *)
(* a time: what a row without a failed charge says of the one intent made  *)
(* for it, and what a slot that is about to write still knows of the row.  *)
(* Billing says which part of the dwell each row covers; that the sum of   *)
(* the rows covers it all needs what the community modules' fold over a    *)
(* finite set returns, which is proved here by minimal counterexample.     *)
(***************************************************************************)
EXTENDS SurchargeLedger, FiniteSetTheorems, TLAPS

(* What is true of rows, cases, intents and requests at every moment. *)
Kept == {"succeeded", "refunded"}
WasCaptured(p) == intent[p].now \in Kept

RowsReal == \A k \in Keys : Exists(k) => row[k].amt \in Amounts
CasesReal == \A d \in Opened : Exists(dispute[d].about)
IntentsReal == \A p \in Intents : /\ intent[p].now # "none" => Exists(p.key)
                                  /\ intent[p].reply = "succeeded" => WasCaptured(p)
HeardReal == \A p \in Intents : <<"succeeded", p>> \in heard => WasCaptured(p)
SlotReal(s) ==
    /\ s.at \in {"create", "sibling", "grow", "retry", "pay"} => s.amt \in Amounts
    /\ s.at \in {"grow", "load", "retry", "pay", "open"} => Exists(s.key)
    /\ s.at \in {"attach", "mark", "book", "refund", "record", "failed", "cancelIntent"}
         => s.pi \in Intents
    /\ s.at \in {"attach", "mark", "book"} => Exists(s.pi.key)
    /\ s.at \in {"mark", "book", "refund", "record"} => WasCaptured(s.pi)
    /\ s.at = "open" => s.case \in Cases
    /\ s.at \in {"triage", "resolve"} => s.case \in Opened
    /\ s.at = "triage" => s.saw # "NONE"
SlotsReal == \A c \in Calls : SlotReal(call[c])
PaidReal == \A k \in Keys : row[k].status = "PAID" => \E p \in Intents : p.key = k /\ WasCaptured(p)
Inv == TypeOK /\ RowsReal /\ CasesReal /\ IntentsReal /\ HeardReal /\ SlotsReal /\ PaidReal

(* What one request at a time adds: no second slot works, rulings stand, a *)
(* booking goes to a row that is neither paid nor waived.                  *)
OneAtATime == scope.width = 1 =>
    \A c, d \in Calls : call[c].at # "idle" /\ call[d].at # "idle" => c = d

Sole(d) == \A e \in Opened \ {d} : dispute[e].about # dispute[d].about
Ruled == \A d \in Opened : dispute[d].ruling = "FAVOR_SENDER" /\ Sole(d)
                             => row[dispute[d].about].status = "WAIVED"
Unpaid(c) == call[c].at = "book" => row[call[c].pi.key].status \notin {"PAID", "WAIVED"}
RuledWaived == scope.width = 1 => Ruled /\ \A c \in Calls : Unpaid(c)

(* With no failure either: a row whose charge was never retried has one     *)
(* intent, for its key and its amount; a capture that was recorded is       *)
(* booked or refunded; a slot on its way to a write agrees with the row.    *)
OneIntent == \A p \in Intents :
    intent[p].now # "none" /\ row[p.key].att = 0 =>
        row[p.key].pi = p \/ \E c \in Calls : call[c].at = "attach" /\ call[c].pi = p
RowsGood == \A k \in Keys : row[k].att = 0 =>
    /\ row[k].pi # NoIntent => row[k].pi = [key |-> k, amt |-> row[k].amt, att |-> 0]
    /\ row[k].status = "PAID" => row[k].pi # NoIntent
Handled(p) == row[p.key].att = 0 /\ Undisputed(p.key) =>
                  row[p.key].status = "PAID" \/ intent[p].now = "refunded"
SlotGood(s) ==
    /\ s.at = "grow" => row[s.key].pi = NoIntent /\ row[s.key].att = s.att
    /\ s.at = "retry" => s.att > 0 /\ row[s.key].amt = s.amt
    /\ s.at \in {"pay", "fail"} => row[s.key].att = s.att /\ row[s.key].amt = s.amt
    /\ s.at = "attach" => row[s.pi.key].att = s.pi.att /\ row[s.pi.key].amt = s.pi.amt
    /\ s.at = "refund" => row[s.pi.key].status = "WAIVED"
    /\ s.at = "record" => Handled(s.pi)
SlotsGood == \A c \in Calls : SlotGood(call[c])
HeardGood == \A p \in Intents : <<"succeeded", p>> \in heard => Handled(p)
MoneyFits == OneIntent /\ RowsGood /\ SlotsGood /\ HeardGood
Money == Alone => MoneyFits
SerialInv == Inv /\ OneAtATime /\ RuledWaived /\ Money


(* What every step does to the rows, the intents and the cases. *)
RowsForward == /\ row' \in [Keys -> Row]
               /\ \A k \in Keys : /\ Exists(k) => Exists(k)'
                                  /\ Exists(k)' => row'[k].amt \in Amounts
                                  /\ row'[k].status = "PAID" /\ row[k].status # "PAID" =>
                                       \E p \in Intents : p.key = k /\ WasCaptured(p)
IntentsForward == /\ intent' \in [Intents -> Intent]
                  /\ \A p \in Intents :
                       /\ WasCaptured(p) => WasCaptured(p)'
                       /\ intent'[p].now # "none" => Exists(p.key)
                       /\ intent'[p].reply = "succeeded" => WasCaptured(p)'
CasesForward == /\ dispute' \in [Cases -> Dispute]
                /\ \A d \in Cases : /\ dispute[d].status # "NONE" => dispute'[d].status # "NONE"
                                    /\ dispute'[d].status # "NONE" => Exists(dispute'[d].about)
RestForward == /\ waited' \in 0..MaxWait /\ scope' = scope /\ faults' \in Nat
               /\ heard' \in SUBSET Events
               /\ \A p \in Intents : <<"succeeded", p>> \in heard' => WasCaptured(p)
Forward == RowsForward /\ IntentsForward /\ CasesForward /\ RestForward

LEMMA NoIntentIsNone == NoIntent \notin Intents
  BY SurchargeConstants DEF NoIntent, Intents, Amounts

(* A slot keeps what it carries, while the others move on.                 *)
LEMMA SlotForward ==
  ASSUME Forward, NEW s \in Slot, SlotReal(s) PROVE SlotReal(s)'
  BY DEF Forward, RowsForward, IntentsForward, CasesForward, SlotReal, Opened, Slot, Intents, Exists

LEMMA KeptBy ==
  ASSUME Inv, Forward, call' \in [Calls -> Slot],
         \A c \in Calls : call'[c] = call[c] \/ SlotReal(call'[c])
  PROVE  Inv'
  <1>1. TypeOK' BY DEF Inv, TypeOK, Forward, RowsForward, IntentsForward, CasesForward,
                       RestForward, RowsTyped, StripeTyped, SlotsTyped
  <1>2. RowsReal' BY DEF RowsReal, Forward, RowsForward
  <1>3. CasesReal'
    BY DEF CasesReal, Forward, CasesForward, RowsForward, Opened, Dispute
  <1>4. IntentsReal'
    BY DEF IntentsReal, Forward, RowsForward, IntentsForward, Intents
  <1>5. HeardReal' BY DEF HeardReal, Forward, RestForward, IntentsForward
  <1>6. SlotsReal'
    <2> SUFFICES ASSUME NEW c \in Calls PROVE SlotReal(call[c])' BY DEF SlotsReal
    <2>1. SlotReal(call[c]) BY DEF Inv, SlotsReal
    <2>2. call'[c] \in Slot /\ SlotReal(call'[c]) BY <2>1
    <2> DEFINE s == call'[c]
    <2>3. ASSUME NEW t, t = s PROVE SlotReal(t)' BY <2>2, <2>3, SlotForward
    <2> QED BY <2>3
  <1>7. PaidReal'
    BY DEF Inv, PaidReal, Forward, RowsForward, IntentsForward
  <1> QED BY <1>1, <1>2, <1>3, <1>4, <1>5, <1>6, <1>7 DEF Inv

LEMMA RowsStay == ASSUME Inv, UNCHANGED row PROVE RowsForward
  BY DEF Inv, TypeOK, RowsTyped, RowsReal, RowsForward, Exists
LEMMA IntentsStay == ASSUME Inv, UNCHANGED intent PROVE IntentsForward
  BY DEF Inv, TypeOK, StripeTyped, IntentsReal, IntentsForward, WasCaptured
LEMMA CasesStay == ASSUME Inv, UNCHANGED dispute PROVE CasesForward
  BY DEF Inv, TypeOK, RowsTyped, CasesReal, CasesForward, Opened
LEMMA RestStays == ASSUME Inv, UNCHANGED <<waited, heard, faults, scope>> PROVE RestForward
  BY DEF Inv, TypeOK, StripeTyped, HeardReal, RestForward
LEMMA FaultsCount ==
  ASSUME Inv, UNCHANGED <<waited, heard, scope>>, faults' = faults + 1 PROVE RestForward
  BY DEF Inv, TypeOK, StripeTyped, HeardReal, RestForward

(* A step that only moves the slot of c, to s. *)
LEMMA SlotMoves ==
  ASSUME Inv, Forward, NEW c \in Calls, NEW s, s \in Slot, SlotReal(s),
         call' = [call EXCEPT ![c] = s]
  PROVE  Inv'
  <1>1. /\ call' \in [Calls -> Slot]
        /\ \A d \in Calls : call'[d] = call[d] \/ call'[d] = s
    BY DEF Inv, TypeOK, SlotsTyped
  <1> QED BY <1>1, KeptBy

LEMMA IdleReal == Idle \in Slot /\ SlotReal(Idle)
  BY SurchargeConstants DEF Idle, Slot, Labels, Keys, Attempts, SlotReal, DisputeStatus, Amounts
LEMMA Leaves == ASSUME Inv, Forward, NEW c \in Calls, Ends(c) PROVE Inv'
  BY IdleReal, SlotMoves DEF Ends

(* Requests that arrive. *)
LEMMA SampleArrives == ASSUME Inv, NEW c \in Calls, SampleRead(c) PROVE Inv'
  <1>1. Forward BY RowsStay, IntentsStay, CasesStay, RestStays DEF Forward, SampleRead
  <1>2. waited \in Amounts /\ waited \in Keys /\ 0 \in Keys /\ row[0] \in Row
    BY SurchargeConstants DEF SampleRead, Inv, TypeOK, RowsTyped, Amounts, Keys
  <1> DEFINE t == [Idle EXCEPT !.amt = waited]
             create == [t EXCEPT !.at = "create"]
             grow == [t EXCEPT !.at = "grow", !.att = row[0].att]
             sibling == [t EXCEPT !.at = "sibling", !.key = waited, !.amt = waited - row[0].amt]
  <1>3. create \in Slot /\ SlotReal(create)
    <2>1. waited \in 0..MaxWait BY <1>2 DEF Keys
    <2>2. create \in Slot /\ create.at = "create" /\ create.amt = waited
      BY <2>1, IdleReal DEF Slot, Labels
    <2> HIDE DEF create
    <2> QED BY <1>2, <2>2 DEF SlotReal
  <1>4. Growable(0, waited) => grow \in Slot /\ SlotReal(grow)
    <2>1. Idle.key = 0 BY DEF Idle
    <2> QED BY <1>2, <2>1, IdleReal DEF Growable, Slot, Labels, Row, Keys, SlotReal, Exists
  <1>5. Outgrown(waited) => sibling \in Slot /\ SlotReal(sibling)
    <2>1. Outgrown(waited) => waited - row[0].amt \in Amounts
      BY <1>2, SurchargeConstants DEF Outgrown, Row, Amounts, Keys
    <2>2. Amounts \subseteq 0..MaxWait BY DEF Amounts
    <2> QED BY <1>2, <2>1, <2>2, IdleReal DEF Slot, Labels, SlotReal
  <1> QED BY <1>1, <1>3, <1>4, <1>5, SlotMoves DEF SampleRead, Begins

LEMMA Called == ASSUME Inv, NEW c \in Calls PROVE call[c] \in Slot /\ SlotReal(call[c])
  BY DEF Inv, TypeOK, SlotsTyped, SlotsReal
LEMMA Typed == ASSUME Inv, NEW k \in Keys PROVE row[k] \in Row
  BY DEF Inv, TypeOK, RowsTyped

Quiet == UNCHANGED <<row, dispute, intent, waited, heard, faults, scope>>
LEMMA QuietForward == ASSUME Inv, Quiet PROVE Forward
  BY RowsStay, IntentsStay, CasesStay, RestStays DEF Forward, Quiet

LEMMA ChargeArrives ==
  ASSUME Inv, NEW c \in Calls, NEW k \in Keys, ChargeRead(c, k) \/ WaiveRead(c, k) PROVE Inv'
  <1>1. Forward BY QuietForward DEF Quiet, ChargeRead, WaiveRead
  <1> DEFINE load == [Idle EXCEPT !.at = "load", !.key = k]
             waive == [Idle EXCEPT !.at = "waive", !.key = k, !.pi = row[k].pi]
  <1>2. ChargeRead(c, k) => load \in Slot /\ SlotReal(load)
    <2>1. load \in Slot /\ load.at = "load" /\ load.key = k BY IdleReal DEF Slot, Labels
    <2> HIDE DEF load
    <2> QED BY <2>1 DEF ChargeRead, SlotReal, Exists
  <1>3. waive \in Slot /\ SlotReal(waive)
    <2>1. waive \in Slot /\ waive.at = "waive" BY IdleReal, Typed DEF Slot, Labels, Row
    <2> HIDE DEF waive
    <2> QED BY <2>1 DEF SlotReal
  <1> QED BY <1>1, <1>2, <1>3, SlotMoves DEF ChargeRead, WaiveRead, Begins

LEMMA HookArrives ==
  ASSUME Inv, NEW c \in Calls, NEW p \in Intents, HookSucceeded(c, p) \/ HookFailed(c, p)
  PROVE  Inv'
  <1>1. Forward BY QuietForward DEF Quiet, HookSucceeded, HookFailed
  <1>2. p.key \in Keys BY DEF Intents
  <1> DEFINE mark == [Idle EXCEPT !.at = "mark", !.key = p.key, !.pi = p, !.hook = TRUE]
             failed == [Idle EXCEPT !.at = "failed", !.key = p.key, !.pi = p]
  <1>3. HookSucceeded(c, p) => Exists(p.key) /\ WasCaptured(p)
    BY DEF HookSucceeded, Inv, IntentsReal, WasCaptured, Kept
  <1>4. HookSucceeded(c, p) => mark \in Slot /\ SlotReal(mark)
    BY <1>2, <1>3, IdleReal DEF Slot, Labels, SlotReal
  <1>5. failed \in Slot /\ SlotReal(failed)
    BY <1>2, IdleReal DEF Slot, Labels, SlotReal
  <1> QED BY <1>1, <1>4, <1>5, SlotMoves DEF HookSucceeded, HookFailed, Begins

LEMMA CaseNumber == Opened \subseteq Cases /\ IsFiniteSet(Opened) /\ Cardinality(Opened) \in Nat
  <1>1. IsFiniteSet(Cases)
    <2>1. 1 \in Int /\ MaxCases \in Int BY SurchargeConstants
    <2> QED BY <2>1, FS_Interval DEF Cases
  <1>2. Opened \subseteq Cases BY DEF Opened
  <1> QED BY <1>1, <1>2, FS_Subset, FS_CardinalityType

LEMMA CaseArrives ==
  ASSUME Inv, NEW c \in Calls,
         \/ \E k \in Keys : OpenRead(c, k)
         \/ \E d \in Cases : TriageRead(c, d)
         \/ \E d \in Cases, by \in {"STATE_MASTER", "SUPER_ADMIN"} : ResolveRead(c, d, by)
  PROVE  Inv'
  <1>1. Forward BY QuietForward DEF Quiet, OpenRead, TriageRead, ResolveRead
  <1>2. ASSUME NEW k \in Keys, OpenRead(c, k) PROVE Inv'
    <2> DEFINE n == Cardinality(Opened) + 1
               open == [Idle EXCEPT !.at = "open", !.key = k, !.case = n]
    <2>1. scope.cases \in 0..MaxCases BY SurchargeConstants DEF Inv, TypeOK
    <2>2. n \in Cases
      <3>1. Cardinality(Opened) \in Nat BY CaseNumber
      <3>2. Cardinality(Opened) < scope.cases BY <1>2 DEF OpenRead
      <3> QED BY <2>1, <3>1, <3>2, SurchargeConstants DEF Cases
    <2> HIDE DEF n
    <2>3. open \in Slot /\ SlotReal(open)
      <3>1. open \in Slot /\ open.at = "open" /\ open.key = k /\ open.case = n
        BY <2>2, IdleReal DEF Slot, Labels
      <3> HIDE DEF open
      <3> QED BY <1>2, <2>2, <3>1 DEF OpenRead, SlotReal
    <2> QED BY <1>1, <1>2, <2>3, SlotMoves DEF OpenRead, Begins, n
  <1>3. ASSUME NEW d \in Cases, TriageRead(c, d) PROVE Inv'
    <2> DEFINE triage == [Idle EXCEPT !.at = "triage", !.case = d, !.saw = dispute[d].status]
    <2>1. dispute[d].status \in DisputeStatus /\ d \in Opened /\ dispute[d].status # "NONE"
      BY <1>3 DEF TriageRead, Opened, Inv, TypeOK, RowsTyped, Dispute
    <2>2. triage \in Slot /\ SlotReal(triage)
      <3> DEFINE saw == dispute[d].status
      <3>1. triage \in Slot /\ triage.at = "triage" /\ triage.case = d /\ triage.saw = saw
        BY <2>1, IdleReal DEF Slot, Labels
      <3> HIDE DEF triage
      <3> QED BY <2>1, <3>1 DEF SlotReal
    <2> QED BY <1>1, <1>3, <2>2, SlotMoves DEF TriageRead, Begins
  <1>4. ASSUME NEW d \in Cases, NEW by, ResolveRead(c, d, by) PROVE Inv'
    <2> DEFINE resolve == [Idle EXCEPT !.at = "resolve", !.case = d]
    <2>1. resolve \in Slot /\ SlotReal(resolve)
      <3>1. resolve \in Slot /\ resolve.at = "resolve" /\ resolve.case = d
        BY IdleReal DEF Slot, Labels
      <3> HIDE DEF resolve
      <3> QED BY <1>4, <3>1 DEF ResolveRead, SlotReal
    <2> QED BY <1>1, <1>4, <2>1, SlotMoves DEF ResolveRead, Begins
  <1> QED BY <1>2, <1>3, <1>4

-----------------------------------------------------------------------------
(* Steps that only read. *)
LEMMA Goings ==
  ASSUME Inv, NEW c \in Calls, NEW l \in Labels, NEW s, s = [call[c] EXCEPT !.at = l]
  PROVE  /\ s \in Slot /\ s.at = l
         /\ s.key = call[c].key /\ s.amt = call[c].amt /\ s.pi = call[c].pi
         /\ s.case = call[c].case /\ s.saw = call[c].saw /\ s.att = call[c].att
  BY Called DEF Slot

LEMMA BookedForward ==
  ASSUME Inv, Forward, NEW c \in Calls, Booked(c), call[c].at \in {"mark", "book", "refund"}
  PROVE  Inv'
  <1> DEFINE s == [call[c] EXCEPT !.at = "record"]
  <1>1. s \in Slot /\ SlotReal(s) BY Called, Goings DEF Labels, SlotReal
  <1>2. CASE Ends(c) BY <1>2, Leaves
  <1>3. CASE Goes(c, s) BY <1>1, <1>3, SlotMoves DEF Goes
  <1> QED BY <1>2, <1>3 DEF Booked

LEMMA Readings ==
  ASSUME Inv, NEW c \in Calls, SiblingRead(c) \/ ChargeLoad(c) \/ MarkRead(c) PROVE Inv'
  <1>1. Forward BY QuietForward DEF Quiet, SiblingRead, ChargeLoad, MarkRead
  <1>2. call[c] \in Slot /\ SlotReal(call[c]) BY Called
  <1>3. CASE SiblingRead(c)
    <2> DEFINE k == call[c].key
               create == [call[c] EXCEPT !.at = "create"]
               grow == [call[c] EXCEPT !.at = "grow", !.att = row[k].att]
    <2>1. k \in Keys /\ row[k] \in Row BY <1>2, Typed DEF Slot
    <2>2. create \in Slot /\ SlotReal(create)
      BY <1>2, <1>3, Goings DEF SiblingRead, Labels, SlotReal
    <2>3. Growable(k, call[c].amt) => grow \in Slot /\ SlotReal(grow)
      BY <1>2, <1>3, <2>1 DEF SiblingRead, Growable, Slot, Labels, Row, SlotReal, Exists
    <2> QED BY <1>1, <1>3, <2>2, <2>3, Leaves, SlotMoves DEF SiblingRead, Goes
  <1>4. CASE ChargeLoad(c)
    <2> DEFINE k == call[c].key
               retry == Snapshot(c, "retry", k, row[k].att + 1)
               pay == Snapshot(c, "pay", k, row[k].att)
    <2>1. k \in Keys /\ row[k] \in Row /\ Exists(k) /\ row[k].amt \in Amounts /\ row[k].amt \in 0..MaxWait
      BY <1>2, <1>4, Typed DEF ChargeLoad, Slot, Inv, SlotReal, RowsReal, Amounts, Row
    <2>2. row[k].att < scope.attempts => row[k].att + 1 \in Attempts
      BY <2>1, SurchargeConstants DEF Inv, TypeOK, Row, Attempts
    <2>3. row[k].att < scope.attempts => retry \in Slot /\ SlotReal(retry)
      <3>1. row[k].att < scope.attempts =>
              retry \in Slot /\ retry.at = "retry" /\ retry.key = k /\ retry.amt = row[k].amt
        BY <1>2, <2>1, <2>2 DEF Snapshot, Slot, Labels
      <3> HIDE DEF retry
      <3> QED BY <2>1, <3>1 DEF SlotReal
    <2>4. pay \in Slot /\ SlotReal(pay)
      <3>1. pay \in Slot /\ pay.at = "pay" /\ pay.key = k /\ pay.amt = row[k].amt
        BY <1>2, <2>1 DEF Snapshot, Slot, Labels, Row
      <3> HIDE DEF pay
      <3> QED BY <2>1, <3>1 DEF SlotReal
    <2> QED BY <1>1, <1>4, <2>3, <2>4, Leaves, SlotMoves DEF ChargeLoad, Goes
  <1>5. CASE MarkRead(c)
    <2> DEFINE p == call[c].pi
    <2>1. CASE OnCapture(p) = "done" BY <1>1, <1>5, <2>1, BookedForward DEF MarkRead
    <2>2. ASSUME NEW l \in {"book", "refund"}, OnCapture(p) = l PROVE Inv'
      <3> DEFINE s == [call[c] EXCEPT !.at = l]
      <3>1. s \in Slot /\ SlotReal(s)
        BY <1>2, <1>5, <2>2, Goings DEF MarkRead, Labels, SlotReal
      <3> QED BY <1>1, <1>5, <2>2, <3>1, SlotMoves DEF MarkRead, Goes
    <2>3. OnCapture(p) \in {"done", "book", "refund"} BY DEF OnCapture
    <2> QED BY <2>1, <2>2, <2>3
  <1> QED BY <1>3, <1>4, <1>5

-----------------------------------------------------------------------------
(* Steps that write a row. *)

(* A write to row k that neither makes it nor marks it paid.               *)
LEMMA RowWritten ==
  ASSUME Inv, NEW k \in Keys, NEW r \in Row, row' = [row EXCEPT ![k] = r],
         r.status = "NONE" => row[k].status = "NONE",
         r.status # "NONE" => r.amt \in Amounts,
         r.status = "PAID" => row[k].status = "PAID" \/ \E p \in Intents : p.key = k /\ WasCaptured(p)
  PROVE  RowsForward
  BY DEF Inv, TypeOK, RowsTyped, RowsReal, RowsForward, Exists

LEMMA NoRowIsRow == NoRow \in Row
  BY SurchargeConstants DEF NoRow, Row, SurchargeStatus, EventStatus, Attempts

LEMMA RowMakers ==
  ASSUME Inv, NEW c \in Calls, CreateRow(c) \/ GrowRow(c) PROVE Inv'
  <1>1. IntentsForward /\ CasesForward /\ RestForward
    BY IntentsStay, CasesStay, RestStays DEF CreateRow, GrowRow
  <1> DEFINE k == call[c].key
  <1>2. k \in Keys /\ row[k] \in Row /\ call[c] \in Slot /\ SlotReal(call[c])
    BY Called, Typed DEF Slot
  <1>3. RowsForward
    <2>1. CASE CreateRow(c) /\ Exists(k) BY <2>1, RowsStay DEF CreateRow
    <2>2. CASE CreateRow(c) /\ ~Exists(k)
      <3> DEFINE r == [NoRow EXCEPT !.status = "PENDING_PAYMENT", !.amt = call[c].amt]
      <3>1. r \in Row /\ r.status = "PENDING_PAYMENT" /\ r.amt \in Amounts
        BY <1>2, <2>2, NoRowIsRow DEF CreateRow, Row, Slot, SlotReal, SurchargeStatus
      <3> QED BY <1>2, <2>2, <3>1, RowWritten DEF CreateRow
    <2>3. CASE GrowRow(c)
      <3> DEFINE r == [row[k] EXCEPT !.amt = call[c].amt, !.att = call[c].att]
      <3>1. r \in Row /\ r.status = row[k].status /\ r.amt \in Amounts
        BY <1>2, <2>3 DEF GrowRow, Row, Slot, SlotReal
      <3>2. row' = [row EXCEPT ![k] = r] BY <2>3 DEF GrowRow
      <3> QED BY <1>2, <3>1, <3>2, RowWritten
    <2> QED BY <2>1, <2>2, <2>3
  <1> QED BY <1>1, <1>3, Leaves DEF Forward, CreateRow, GrowRow

LEMMA RowFails ==
  ASSUME Inv, NEW c \in Calls, ChargeRetry(c) \/ ChargeFail(c) \/ FailedWrite(c) \/ WaiveEvent(c)
  PROVE  Inv'
  <1>1. IntentsForward /\ CasesForward
    BY IntentsStay, CasesStay DEF ChargeRetry, ChargeFail, FailedWrite, WaiveEvent
  <1> DEFINE k == call[c].key
  <1>2. k \in Keys /\ row[k] \in Row /\ call[c] \in Slot /\ SlotReal(call[c])
    BY Called, Typed DEF Slot
  <1>3. ASSUME NEW r \in Row, row' = [row EXCEPT ![k] = r],
               r.status = row[k].status, r.amt = row[k].amt
        PROVE  RowsForward
    BY <1>2, <1>3, RowWritten DEF Inv, RowsReal, Exists
  <1>4. CASE ChargeRetry(c)
    <2> DEFINE r == [row[k] EXCEPT !.ev = "PENDING", !.pi = NoIntent, !.att = call[c].att]
               s == [call[c] EXCEPT !.at = "pay"]
    <2>1. r \in Row /\ r.status = row[k].status /\ r.amt = row[k].amt
      BY <1>2 DEF Row, Slot, EventStatus
    <2>2. row' = [row EXCEPT ![k] = r] BY <1>4 DEF ChargeRetry
    <2>3. RestForward BY <1>4, RestStays DEF ChargeRetry
    <2>4. s \in Slot /\ SlotReal(s)
      <3>1. s \in Slot /\ s.at = "pay" /\ s.key = call[c].key /\ s.amt = call[c].amt
        BY <1>2 DEF Labels, Slot
      <3>2. call[c].at = "retry" BY <1>4 DEF ChargeRetry
      <3> HIDE DEF s
      <3> QED BY <1>2, <3>1, <3>2 DEF SlotReal
    <2>5. Forward BY <1>1, <1>3, <2>1, <2>2, <2>3 DEF Forward
    <2>6. call' = [call EXCEPT ![c] = s] BY <1>4 DEF ChargeRetry, Goes
    <2> HIDE DEF s
    <2> QED BY <2>4, <2>5, <2>6, SlotMoves
  <1>5. CASE ChargeFail(c)
    <2> DEFINE r == [row[k] EXCEPT !.ev = "FAILED", !.att = call[c].att]
    <2>1. r \in Row /\ r.status = row[k].status /\ r.amt = row[k].amt
      BY <1>2 DEF Row, Slot, EventStatus
    <2>2. row' = [row EXCEPT ![k] = r] BY <1>5 DEF ChargeFail
    <2>3. RestForward BY <1>5, RestStays DEF ChargeFail
    <2> QED BY <1>1, <1>3, <1>5, <2>1, <2>2, <2>3, Leaves DEF Forward, ChargeFail
  <1>6. CASE FailedWrite(c)
    <2> DEFINE r == [row[k] EXCEPT !.ev = "FAILED"]
    <2>1. r \in Row /\ r.status = row[k].status /\ r.amt = row[k].amt
      BY <1>2 DEF Row, EventStatus
    <2>2. row' = [row EXCEPT ![k] = r] BY <1>6 DEF FailedWrite
    <2>3. RestForward
      <3>1. call[c].pi \in Intents BY <1>2, <1>6 DEF FailedWrite, SlotReal
      <3>2. heard' \in SUBSET Events BY <1>6, <3>1 DEF FailedWrite, Events, Inv, TypeOK, StripeTyped
      <3>3. \A p \in Intents : <<"succeeded", p>> \in heard' => <<"succeeded", p>> \in heard
        BY <1>6 DEF FailedWrite
      <3> QED BY <1>6, <3>2, <3>3 DEF RestForward, FailedWrite, Inv, TypeOK, HeardReal
    <2> QED BY <1>1, <1>3, <1>6, <2>1, <2>2, <2>3, Leaves DEF Forward, FailedWrite
  <1>7. CASE WaiveEvent(c)
    <2> DEFINE r == [row[k] EXCEPT !.ev = "CANCELLED"]
               s == [call[c] EXCEPT !.at = "cancelIntent"]
    <2>1. r \in Row /\ r.status = row[k].status /\ r.amt = row[k].amt
      BY <1>2 DEF Row, EventStatus
    <2>2. row' = [row EXCEPT ![k] = r] BY <1>7 DEF WaiveEvent
    <2>3. RestForward BY <1>7, RestStays DEF WaiveEvent
    <2>4. call[c].pi # NoIntent => s \in Slot /\ SlotReal(s)
      BY <1>2, Goings DEF Labels, SlotReal, Slot
    <2> QED BY <1>1, <1>3, <1>7, <2>1, <2>2, <2>3, <2>4, Leaves, SlotMoves DEF Forward, WaiveEvent, Goes
  <1> QED BY <1>4, <1>5, <1>6, <1>7

LEMMA RowBooked == ASSUME Inv, NEW c \in Calls, MarkWrite(c) \/ WaiveWrite(c) PROVE Inv'
  <1>1. IntentsForward /\ CasesForward /\ RestForward
    BY IntentsStay, CasesStay, RestStays DEF MarkWrite, WaiveWrite
  <1>2. call[c] \in Slot /\ SlotReal(call[c]) BY Called
  <1>3. CASE MarkWrite(c)
    <2> DEFINE p == call[c].pi
               r == [row[p.key] EXCEPT !.status = "PAID", !.ev = "SUCCEEDED", !.pi = p]
    <2>1. p \in Intents /\ p.key \in Keys /\ Exists(p.key) /\ WasCaptured(p)
      BY <1>2, <1>3 DEF MarkWrite, SlotReal, Intents
    <2>2. row[p.key] \in Row /\ row[p.key].amt \in Amounts BY <2>1, Typed DEF Inv, RowsReal
    <2>3. r \in Row /\ r.amt = row[p.key].amt /\ r.status = "PAID"
      BY <2>1, <2>2 DEF Row, EventStatus, SurchargeStatus
    <2>4. row' = [row EXCEPT ![p.key] = r] BY <1>3 DEF MarkWrite
    <2>5. RowsForward BY <2>1, <2>2, <2>3, <2>4, RowWritten
    <2> QED BY <1>1, <1>3, <2>5, BookedForward DEF Forward, MarkWrite
  <1>4. CASE WaiveWrite(c)
    <2> DEFINE k == call[c].key
               r == [row[k] EXCEPT !.status = "WAIVED"]
               s == [call[c] EXCEPT !.at = "cancelEvent"]
    <2>1. k \in Keys /\ row[k] \in Row BY <1>2, Typed DEF Slot
    <2>2. r \in Row /\ r.amt = row[k].amt /\ r.status = "WAIVED" BY <2>1 DEF Row, SurchargeStatus
    <2>3. s \in Slot /\ SlotReal(s) BY <1>2, Goings DEF Labels, SlotReal
    <2>4. CASE row[k].status = "PENDING_PAYMENT"
      <3>1. row[k].amt \in Amounts BY <2>1, <2>4 DEF Inv, RowsReal, Exists
      <3>2. row' = [row EXCEPT ![k] = r] BY <1>4, <2>4 DEF WaiveWrite
      <3>3. RowsForward BY <2>1, <2>2, <3>1, <3>2, RowWritten
      <3> QED BY <1>1, <1>4, <2>3, <2>4, <3>3, SlotMoves DEF Forward, WaiveWrite, Goes
    <2>5. CASE row[k].status # "PENDING_PAYMENT"
      BY <1>1, <1>4, <2>5, RowsStay, Leaves DEF Forward, WaiveWrite
    <2> QED BY <2>4, <2>5
  <1> QED BY <1>3, <1>4

-----------------------------------------------------------------------------
(* Steps that ask Stripe. *)

(* A change of one intent that unmakes no capture.                         *)
LEMMA IntentWritten ==
  ASSUME Inv, NEW p \in Intents, NEW i \in Intent, intent' = [intent EXCEPT ![p] = i],
         WasCaptured(p) => i.now \in Kept,
         i.now # "none" => Exists(p.key),
         i.reply = "succeeded" => i.now \in Kept
  PROVE  IntentsForward
  <1>1. intent \in [Intents -> Intent] /\ IntentsReal BY DEF Inv, TypeOK, StripeTyped
  <1>2. intent' \in [Intents -> Intent] BY <1>1
  <1>3. ASSUME NEW q \in Intents
        PROVE  /\ WasCaptured(q) => WasCaptured(q)'
               /\ intent'[q].now # "none" => Exists(q.key)
               /\ intent'[q].reply = "succeeded" => WasCaptured(q)'
    <2>1. CASE q = p
      <3>1. intent'[p] = i BY <1>1
      <3> QED BY <2>1, <3>1 DEF WasCaptured
    <2>2. CASE q # p
      <3>1. intent'[q] = intent[q] BY <1>1, <2>2
      <3> QED BY <1>1, <3>1 DEF WasCaptured, IntentsReal
    <2> QED BY <2>1, <2>2
  <1> QED BY <1>2, <1>3 DEF IntentsForward

LEMMA AnsweredIsIntent ==
  ASSUME NEW a \in {"requires_action", "succeeded"}
  PROVE  Answered(a) \in Intent /\ Answered(a).now = a /\ Answered(a).reply = a
  BY DEF Answered, Intent, IntentStatus

LEMMA Asked == ASSUME Inv, NEW c \in Calls, call[c].at = "pay"
               PROVE  IntentOf(c) \in Intents /\ Exists(IntentOf(c).key)
  BY Called DEF Slot, SlotReal, IntentOf, Intents

LEMMA Asking ==
  ASSUME Inv, NEW c \in Calls, CreateIntent(c) \/ CreateIntentThrows(c) PROVE Inv'
  <1> DEFINE p == IntentOf(c)
             attach == [call[c] EXCEPT !.at = "attach", !.pi = p]
             fail == [call[c] EXCEPT !.at = "fail"]
  <1>1. p \in Intents /\ Exists(p.key) BY Asked DEF CreateIntent, CreateIntentThrows
  <1>2. RowsForward /\ CasesForward
    BY RowsStay, CasesStay DEF CreateIntent, CreateIntentThrows
  <1>3. RestForward BY RestStays, FaultsCount DEF CreateIntent, CreateIntentThrows
  <1>4. ASSUME NEW a \in {"requires_action", "succeeded"}, intent[p].now = "none",
               intent' = [intent EXCEPT ![p] = Answered(a)]
        PROVE  IntentsForward
    <2>1. ~WasCaptured(p) BY <1>4 DEF WasCaptured, Kept
    <2>2. a = "succeeded" => a \in Kept BY DEF Kept
    <2> QED BY <1>1, <1>4, <2>1, <2>2, AnsweredIsIntent, IntentWritten
  <1>5. IntentsForward
    BY <1>4, IntentsStay DEF CreateIntent, CreateIntentThrows
  <1> HIDE DEF p
  <1>6. attach \in Slot /\ SlotReal(attach)
    BY <1>1, Called DEF Slot, Labels, SlotReal
  <1>7. fail \in Slot /\ SlotReal(fail) BY Called, Goings DEF Labels, SlotReal
  <1> QED BY <1>2, <1>3, <1>5, <1>6, <1>7, SlotMoves
          DEF Forward, CreateIntent, CreateIntentThrows, Goes, p

LEMMA Attaching == ASSUME Inv, NEW c \in Calls, ChargeAttach(c) PROVE Inv'
  <1> DEFINE p == call[c].pi
             r == [row[p.key] EXCEPT !.pi = p,
                                     !.ev = IF PaidAtOnce(p) THEN "SUCCEEDED" ELSE "REQUIRES_ACTION"]
             i == [intent[p] EXCEPT !.secret = TRUE]
             s == [call[c] EXCEPT !.at = "mark"]
  <1>1. p \in Intents /\ p.key \in Keys /\ Exists(p.key) /\ row[p.key] \in Row
        /\ row[p.key].amt \in Amounts /\ intent[p] \in Intent
    <2>1. p \in Intents BY Called DEF ChargeAttach, SlotReal
    <2> QED BY <2>1, Called, Typed DEF ChargeAttach, SlotReal, Intents, Inv, RowsReal, TypeOK, StripeTyped
  <1>2. CasesForward /\ RestForward BY CasesStay, RestStays DEF ChargeAttach
  <1>3. RowsForward
    <2>1. r \in Row /\ r.status = row[p.key].status /\ r.amt = row[p.key].amt
      BY <1>1 DEF Row, EventStatus
    <2>2. row' = [row EXCEPT ![p.key] = r] BY DEF ChargeAttach
    <2> QED BY <1>1, <2>1, <2>2, RowWritten
  <1>4. CASE PaidAtOnce(p)
    <2>1. WasCaptured(p) BY <1>1, <1>4 DEF PaidAtOnce, Inv, IntentsReal
    <2>2. IntentsForward BY <1>4, IntentsStay DEF ChargeAttach
    <2>3. s \in Slot /\ SlotReal(s) BY <1>1, <2>1, Called, Goings DEF Labels, SlotReal
    <2> QED BY <1>2, <1>3, <1>4, <2>2, <2>3, SlotMoves DEF Forward, ChargeAttach, Goes
  <1>5. CASE ~PaidAtOnce(p)
    <2>1. intent' = [intent EXCEPT ![p] = i] BY <1>5 DEF ChargeAttach
    <2>2. i \in Intent /\ i.now = intent[p].now /\ i.reply = intent[p].reply BY <1>1 DEF Intent
    <2>3. IntentsForward
      BY <1>1, <2>1, <2>2, IntentWritten DEF Inv, IntentsReal, WasCaptured
    <2> QED BY <1>2, <1>3, <1>5, <2>3, Leaves DEF Forward, ChargeAttach
  <1> QED BY <1>4, <1>5

(* A capture is refunded, or an intent that waits is settled or canceled.  *)
LEMMA IntentTurns ==
  ASSUME Inv, NEW p \in Intents, NEW st,
         intent' = [intent EXCEPT ![p].now = st],
         \/ st = "refunded" /\ Captured(p)
         \/ st \in {"succeeded", "canceled"} /\ intent[p].now = "requires_action"
  PROVE  IntentsForward
  <1> DEFINE i == [intent[p] EXCEPT !.now = st]
  <1>1. intent[p] \in Intent BY DEF Inv, TypeOK, StripeTyped
  <1>2. i \in Intent /\ i.now = st /\ i.reply = intent[p].reply BY <1>1 DEF Intent, IntentStatus
  <1>3. intent' = [intent EXCEPT ![p] = i] OBVIOUS
  <1>4. WasCaptured(p) => st \in Kept BY DEF WasCaptured, Kept, Captured
  <1>5. Exists(p.key) BY DEF Inv, IntentsReal, Captured
  <1>6. i.reply = "succeeded" => st \in Kept BY <1>2, <1>4 DEF Inv, IntentsReal
  <1> QED BY <1>2, <1>3, <1>4, <1>5, <1>6, IntentWritten

LEMMA Turns ==
  ASSUME Inv, NEW c \in Calls,
         MarkRefund(c) \/ WaiveIntent(c) PROVE Inv'
  <1>1. CASE MarkRefund(c)
    <2>1. call[c].pi \in Intents BY <1>1, Called DEF MarkRefund, SlotReal
    <2>2. IntentsForward BY <1>1, <2>1, IntentTurns, IntentsStay DEF MarkRefund
    <2>3. RowsForward /\ CasesForward BY <1>1, RowsStay, CasesStay DEF MarkRefund
    <2>4. RestForward BY <1>1, RestStays, FaultsCount DEF MarkRefund
    <2> QED BY <1>1, <2>2, <2>3, <2>4, BookedForward DEF Forward, MarkRefund
  <1>2. CASE WaiveIntent(c)
    <2>1. call[c].pi \in Intents BY <1>2, Called DEF WaiveIntent, SlotReal
    <2>2. IntentsForward BY <1>2, <2>1, IntentTurns, IntentsStay DEF WaiveIntent
    <2>3. RowsForward /\ CasesForward /\ RestForward
      BY <1>2, RowsStay, CasesStay, RestStays DEF WaiveIntent
    <2> QED BY <1>2, <2>2, <2>3, Leaves DEF Forward, WaiveIntent
  <1> QED BY <1>1, <1>2

LEMMA Confirming == ASSUME Inv, NEW p \in Intents, Confirm(p) PROVE Inv'
  <1>1. IntentsForward BY IntentTurns DEF Confirm
  <1>2. RowsForward /\ CasesForward /\ RestForward BY RowsStay, CasesStay, RestStays DEF Confirm
  <1>3. call' = call /\ call \in [Calls -> Slot] BY DEF Confirm, Inv, TypeOK, SlotsTyped
  <1> QED BY <1>1, <1>2, <1>3, KeptBy DEF Forward

LEMMA Recording == ASSUME Inv, NEW c \in Calls, Record(c) PROVE Inv'
  <1>1. RowsForward /\ IntentsForward /\ CasesForward
    BY RowsStay, IntentsStay, CasesStay DEF Record
  <1>2. call[c].pi \in Intents /\ WasCaptured(call[c].pi) BY Called DEF Record, SlotReal
  <1>3. heard' \in SUBSET Events BY <1>2 DEF Record, Events, Inv, TypeOK, StripeTyped
  <1>4. \A p \in Intents : <<"succeeded", p>> \in heard' =>
            <<"succeeded", p>> \in heard \/ p = call[c].pi
    BY DEF Record
  <1>5. RestForward BY <1>2, <1>3, <1>4 DEF RestForward, Record, Inv, TypeOK, HeardReal
  <1> QED BY <1>1, <1>5, Leaves DEF Forward, Record

-----------------------------------------------------------------------------
(* Disputes, and the rest. *)
LEMMA CaseWritten ==
  ASSUME Inv, NEW d \in Cases, NEW x \in Dispute, dispute' = [dispute EXCEPT ![d] = x],
         x.status # "NONE", Exists(x.about)
  PROVE  CasesForward
  <1>1. dispute \in [Cases -> Dispute] BY DEF Inv, TypeOK, RowsTyped
  <1>2. dispute' \in [Cases -> Dispute] BY <1>1
  <1>3. ASSUME NEW e \in Cases
        PROVE  /\ dispute[e].status # "NONE" => dispute'[e].status # "NONE"
               /\ dispute'[e].status # "NONE" => Exists(dispute'[e].about)
    <2>1. CASE e = d BY <1>1, <2>1
    <2>2. CASE e # d
      <3>1. dispute'[e] = dispute[e] BY <1>1, <2>2
      <3> QED BY <3>1 DEF Inv, CasesReal, Opened
    <2> QED BY <2>1, <2>2
  <1> QED BY <1>2, <1>3 DEF CasesForward

LEMMA StatusWritten ==
  ASSUME Inv, NEW d \in Opened, NEW st \in DisputeStatus \ {"NONE"},
         dispute' = [dispute EXCEPT ![d].status = st]
  PROVE  CasesForward
  <1> DEFINE x == [dispute[d] EXCEPT !.status = st]
  <1>1. d \in Cases /\ dispute[d] \in Dispute /\ Exists(dispute[d].about)
    BY DEF Opened, Inv, TypeOK, RowsTyped, CasesReal
  <1>2. x \in Dispute /\ x.status = st /\ x.about = dispute[d].about BY <1>1 DEF Dispute
  <1>3. dispute' = [dispute EXCEPT ![d] = x] OBVIOUS
  <1> QED BY <1>1, <1>2, <1>3, CaseWritten

LEMMA Disputing ==
  ASSUME Inv, NEW c \in Calls, OpenWrite(c) \/ TriageWrite(c) \/ ResolveWrite(c) PROVE Inv'
  <1>1. IntentsForward /\ RestForward
    BY IntentsStay, RestStays DEF OpenWrite, TriageWrite, ResolveWrite
  <1>2. call[c] \in Slot /\ SlotReal(call[c]) BY Called
  <1>3. CASE OpenWrite(c)
    <2> DEFINE k == call[c].key  d == call[c].case
               x == [status |-> "OPEN_TRIAGE", about |-> k, ruling |-> "NONE"]
               r == [row[k] EXCEPT !.status = "DISPUTED"]
    <2>1. CASE dispute[d].status # "NONE"
      BY <1>1, <1>3, <2>1, RowsStay, CasesStay, Leaves DEF Forward, OpenWrite
    <2>2. CASE dispute[d].status = "NONE"
      <3>1. k \in Keys /\ d \in Cases /\ Exists(k) /\ row[k] \in Row /\ row[k].amt \in Amounts
        BY <1>2, <1>3, Typed DEF OpenWrite, Slot, SlotReal, Inv, RowsReal
      <3>2. x \in Dispute BY <3>1 DEF Dispute, DisputeStatus, Rulings
      <3>3. CasesForward BY <1>3, <2>2, <3>1, <3>2, CaseWritten DEF OpenWrite
      <3>4. r \in Row /\ r.status = "DISPUTED" /\ r.amt = row[k].amt
        BY <3>1 DEF Row, SurchargeStatus
      <3>5. row' = [row EXCEPT ![k] = r] BY <1>3, <2>2 DEF OpenWrite
      <3>6. RowsForward BY <3>1, <3>4, <3>5, RowWritten
      <3> QED BY <1>1, <1>3, <3>3, <3>6, Leaves DEF Forward, OpenWrite
    <2> QED BY <2>1, <2>2
  <1>4. CASE TriageWrite(c)
    <2> DEFINE d == call[c].case
    <2>1. d \in Opened /\ call[c].saw \in DisputeStatus \ {"NONE"}
      BY <1>2, <1>4 DEF TriageWrite, Slot, SlotReal
    <2>2. PICK full \in BOOLEAN :
            dispute' = [dispute EXCEPT ![d].status =
                          IF call[c].saw = "OPEN_TRIAGE" /\ full THEN "TRIAGED" ELSE call[c].saw]
      BY <1>4 DEF TriageWrite
    <2> DEFINE st == IF call[c].saw = "OPEN_TRIAGE" /\ full THEN "TRIAGED" ELSE call[c].saw
    <2>3. st \in DisputeStatus \ {"NONE"} BY <2>1 DEF DisputeStatus
    <2>4. CasesForward BY <2>1, <2>2, <2>3, StatusWritten
    <2> QED BY <1>1, <1>4, <2>4, RowsStay, Leaves DEF Forward, TriageWrite
  <1>5. CASE ResolveWrite(c)
    <2> DEFINE d == call[c].case  k == dispute[d].about
    <2>1. d \in Opened /\ d \in Cases /\ dispute[d] \in Dispute
      BY <1>2, <1>5 DEF ResolveWrite, SlotReal, Opened, Inv, TypeOK, RowsTyped
    <2>2. k \in Keys /\ Exists(k) /\ row[k] \in Row /\ row[k].amt \in Amounts
      BY <2>1, Typed DEF Dispute, Inv, CasesReal, RowsReal
    <2>3. PICK ruling \in Rulings \ {"NONE"}, waives \in BOOLEAN :
            /\ dispute' = [dispute EXCEPT ![d].status = "RESOLVED", ![d].ruling = ruling]
            /\ row' = [row EXCEPT ![k].status = RuledStatus(ruling, waives, row[k].status)]
      BY <1>5 DEF ResolveWrite
    <2> DEFINE x == [dispute[d] EXCEPT !.status = "RESOLVED", !.ruling = ruling]
               r == [row[k] EXCEPT !.status = RuledStatus(ruling, waives, row[k].status)]
    <2>4. x \in Dispute /\ x.status = "RESOLVED" /\ x.about = k
      BY <2>1 DEF Dispute, DisputeStatus
    <2>5. dispute' = [dispute EXCEPT ![d] = x] BY <2>3
    <2>6. CasesForward BY <2>1, <2>2, <2>4, <2>5, CaseWritten
    <2>7. /\ r \in Row /\ r.amt = row[k].amt
          /\ r.status \in {row[k].status, "WAIVED", "PENDING_PAYMENT"}
      BY <2>2 DEF Row, RuledStatus, SurchargeStatus
    <2>8. row' = [row EXCEPT ![k] = r] BY <2>3
    <2>9. RowsForward BY <2>2, <2>7, <2>8, RowWritten
    <2> QED BY <1>1, <1>5, <2>6, <2>9, Leaves DEF Forward, ResolveWrite
  <1> QED BY <1>3, <1>4, <1>5

LEMMA Offices == ASSUME Inv, NEW d \in Cases, Escalate(d) \/ CloseLocal(d) PROVE Inv'
  <1>1. d \in Opened BY DEF Escalate, CloseLocal
  <1>2. CasesForward
    BY <1>1, StatusWritten DEF Escalate, CloseLocal, DisputeStatus
  <1>3. RowsForward /\ IntentsForward /\ RestForward
    BY RowsStay, IntentsStay, RestStays DEF Escalate, CloseLocal
  <1>4. call' = call /\ call \in [Calls -> Slot]
    BY DEF Escalate, CloseLocal, Inv, TypeOK, SlotsTyped
  <1> QED BY <1>2, <1>3, <1>4, KeptBy DEF Forward

LEMMA Waiting == ASSUME Inv, Dwell PROVE Inv'
  <1>1. scope.wait \in 0..MaxWait BY SurchargeConstants DEF Inv, TypeOK
  <1>2. waited' \in 0..MaxWait BY <1>1, SurchargeConstants DEF Dwell, Inv, TypeOK
  <1>3. RestForward BY <1>2 DEF Dwell, RestForward, Inv, TypeOK, StripeTyped, HeardReal
  <1>4. RowsForward /\ IntentsForward /\ CasesForward
    BY RowsStay, IntentsStay, CasesStay DEF Dwell
  <1>5. call' = call /\ call \in [Calls -> Slot] BY DEF Dwell, Inv, TypeOK, SlotsTyped
  <1> QED BY <1>3, <1>4, <1>5, KeptBy DEF Forward

LEMMA Dying == ASSUME Inv, NEW c \in Calls, Crash(c) PROVE Inv'
  <1>1. Forward
    BY RowsStay, IntentsStay, CasesStay, FaultsCount DEF Crash, Forward
  <1> QED BY <1>1, Leaves DEF Crash

-----------------------------------------------------------------------------
LEMMA InitInv == Init => Inv
  <1> SUFFICES ASSUME Init PROVE Inv OBVIOUS
  <1>1. RowsTyped
    <2>1. row \in [Keys -> Row] BY NoRowIsRow DEF Init
    <2>2. 0 \in Keys BY SurchargeConstants DEF Keys
    <2>3. dispute \in [Cases -> Dispute] BY <2>2 DEF Init, Dispute, DisputeStatus, Rulings
    <2> QED BY <2>1, <2>3 DEF RowsTyped
  <1>2. StripeTyped BY DEF Init, StripeTyped, Intent, Answered, IntentStatus
  <1>3. SlotsTyped BY IdleReal DEF Init, SlotsTyped
  <1>4. TypeOK BY <1>1, <1>2, <1>3, SurchargeConstants DEF Init, TypeOK
  <1>5. \A k \in Keys : row[k].status = "NONE" BY DEF Init, NoRow
  <1>6. Opened = {} BY DEF Init, Opened
  <1>7. \A p \in Intents : intent[p].now = "none" /\ intent[p].reply = "none"
    BY DEF Init, Answered
  <1>8. heard = {} BY DEF Init
  <1>9. SlotsReal BY IdleReal DEF Init, SlotsReal
  <1> QED BY <1>4, <1>5, <1>6, <1>7, <1>8, <1>9
          DEF Inv, RowsReal, CasesReal, IntentsReal, HeardReal, PaidReal, Exists

LEMMA StepInv == Inv /\ [Next]_vars => Inv'
  <1> SUFFICES ASSUME Inv, [Next]_vars PROVE Inv' OBVIOUS
  <1>1. ASSUME NEW c \in Calls, Receives(c) PROVE Inv'
    BY <1>1, SampleArrives, ChargeArrives, HookArrives, CaseArrives DEF Receives
  <1>2. ASSUME NEW c \in Calls, Steps(c) PROVE Inv'
    BY <1>2, Readings, RowMakers, RowFails, RowBooked, Asking, Attaching, Turns, Recording,
       Disputing DEF Steps
  <1>3. ASSUME NEW c \in Calls, Crash(c) PROVE Inv' BY <1>3, Dying
  <1>4. ASSUME NEW p \in Intents, Confirm(p) PROVE Inv' BY <1>4, Confirming
  <1>5. CASE UNCHANGED vars
    <2>1. Forward BY <1>5, QuietForward DEF Quiet, vars
    <2>2. call' = call /\ call \in [Calls -> Slot] BY <1>5 DEF vars, Inv, TypeOK, SlotsTyped
    <2> QED BY <2>1, <2>2, KeptBy
  <1> QED BY <1>1, <1>2, <1>3, <1>4, <1>5, Waiting, Offices DEF Next

(* Every row, intent and request keeps its type.                           *)
THEOREM LedgerTypeCorrect == Spec => []TypeOK
  <1>1. Inv => TypeOK BY DEF Inv
  <1> QED BY <1>1, InitInv, StepInv, PTL DEF Spec

(* However requests overlap and die, a surcharge reads PAID only if Stripe *)
(* captured an intent that was made for it.                                *)
THEOREM PaidWasCaptured == Spec => []PaidIsCaptured
  <1>1. Inv => PaidIsCaptured BY DEF Inv, PaidReal, PaidIsCaptured, WasCaptured, Kept
  <1> QED BY <1>1, InitInv, StepInv, PTL DEF Spec

-----------------------------------------------------------------------------
(* One request at a time. *)

Moved(c) == \A d \in Calls \ {c} : call'[d] = call[d]
Lone(c)  == Moved(c) /\ \A d \in Calls \ {c} : call[d].at = "idle"

LEMMA ReceivesMoves ==
  ASSUME NEW c \in Calls, Receives(c)
  PROVE  \E s : Begins(c, s)
  <1>1. CASE SampleRead(c) BY <1>1 DEF SampleRead
  <1>2. ASSUME NEW k \in Keys, ChargeRead(c, k) \/ WaiveRead(c, k) \/ OpenRead(c, k)
        PROVE  \E s : Begins(c, s)
    BY <1>2 DEF ChargeRead, WaiveRead, OpenRead
  <1>3. ASSUME NEW p \in Intents, HookSucceeded(c, p) \/ HookFailed(c, p)
        PROVE  \E s : Begins(c, s)
    BY <1>3 DEF HookSucceeded, HookFailed
  <1>4. ASSUME NEW d \in Cases, NEW by, TriageRead(c, d) \/ ResolveRead(c, d, by)
        PROVE  \E s : Begins(c, s)
    BY <1>4 DEF TriageRead, ResolveRead
  <1> QED BY <1>1, <1>2, <1>3, <1>4 DEF Receives

LEMMA StepsMoves ==
  ASSUME Inv, NEW c \in Calls, Steps(c) \/ Crash(c)
  PROVE  call[c].at # "idle" /\ \E s : call' = [call EXCEPT ![c] = s]
  <1>1. CASE Crash(c) BY <1>1 DEF Crash, Ends
  <1>2. CASE SiblingRead(c) \/ CreateRow(c) \/ GrowRow(c) \/ ChargeLoad(c) \/ ChargeRetry(c)
    BY <1>2 DEF SiblingRead, CreateRow, GrowRow, ChargeLoad, ChargeRetry, Goes, Ends
  <1>3. CASE CreateIntent(c) \/ CreateIntentThrows(c) \/ ChargeFail(c) \/ ChargeAttach(c)
    BY <1>3 DEF CreateIntent, CreateIntentThrows, ChargeFail, ChargeAttach, Goes, Ends
  <1>4. CASE MarkRead(c) \/ MarkWrite(c) \/ MarkRefund(c)
    BY <1>4 DEF MarkRead, MarkWrite, MarkRefund, Booked, Goes, Ends
  <1>5. CASE Record(c) \/ FailedWrite(c) \/ WaiveWrite(c) \/ WaiveEvent(c) \/ WaiveIntent(c)
    BY <1>5 DEF Record, FailedWrite, WaiveWrite, WaiveEvent, WaiveIntent, Goes, Ends
  <1>6. CASE OpenWrite(c) \/ TriageWrite(c) \/ ResolveWrite(c)
    BY <1>6 DEF OpenWrite, TriageWrite, ResolveWrite, Ends
  <1> QED BY <1>1, <1>2, <1>3, <1>4, <1>5, <1>6 DEF Steps

(* A request begins when no other runs. *)
LEMMA NoneBusy ==
  ASSUME OneAtATime, scope.width = 1, NEW c \in Calls, NEW s, Begins(c, s)
  PROVE  \A d \in Calls : call[d].at = "idle"
  <1> SUFFICES ASSUME NEW d \in Calls, call[d].at # "idle" PROVE FALSE OBVIOUS
  <1>1. Busy = {d} BY DEF Busy, OneAtATime
  <1>2. Cardinality({d}) = 1 BY FS_Singleton
  <1> QED BY <1>1, <1>2 DEF Begins

LEMMA ScopeStays ==
  ASSUME NEW c \in Calls, Receives(c) \/ Steps(c) \/ Crash(c) PROVE scope' = scope
  <1>1. CASE Receives(c)
      BY <1>1 DEF Receives, SampleRead, ChargeRead, WaiveRead, OpenRead, HookSucceeded,
                  HookFailed, TriageRead, ResolveRead
  <1>2. CASE Crash(c) BY <1>2 DEF Crash
  <1>3. CASE Steps(c)
      BY <1>3 DEF Steps, SiblingRead, CreateRow, GrowRow, ChargeLoad, ChargeRetry, CreateIntent,
          CreateIntentThrows, ChargeFail, ChargeAttach, MarkRead, MarkWrite, MarkRefund, Record,
          FailedWrite, WaiveWrite, WaiveEvent, WaiveIntent, OpenWrite, TriageWrite, ResolveWrite
  <1> QED BY <1>1, <1>2, <1>3

LEMMA RunsAlone ==
  ASSUME Inv, OneAtATime, NEW c \in Calls, Receives(c) \/ Steps(c) \/ Crash(c)
  PROVE  Moved(c) /\ OneAtATime' /\ (scope.width = 1 => Lone(c))
  <1>1. scope' = scope BY ScopeStays
  <1>2. call \in [Calls -> Slot] BY DEF Inv, TypeOK, SlotsTyped
  <1>3. PICK s : call' = [call EXCEPT ![c] = s]
    BY ReceivesMoves, StepsMoves DEF Begins
  <1>4. Moved(c) BY <1>2, <1>3 DEF Moved
  <1>5. ASSUME scope.width = 1 PROVE \A d \in Calls \ {c} : call[d].at = "idle"
    BY <1>5, ReceivesMoves, StepsMoves, NoneBusy DEF OneAtATime
  <1>6. OneAtATime' BY <1>1, <1>4, <1>5 DEF OneAtATime, Moved
  <1> QED BY <1>4, <1>5, <1>6 DEF Lone

(* A waived row stays waived, and a case stays what it is. *)
WaiversKept == \A k \in Keys : row[k].status = "WAIVED" => row'[k].status = "WAIVED"
CasesKept == /\ Opened' = Opened
             /\ \A d \in Opened : /\ dispute'[d].about = dispute[d].about
                                   /\ dispute'[d].ruling = dispute[d].ruling

LEMMA RulingsKept == ASSUME Inv, Ruled, WaiversKept, CasesKept PROVE Ruled'
  <1>1. \A d \in Opened : dispute[d].about \in Keys
    BY DEF Opened, Inv, TypeOK, RowsTyped, Dispute
  <1> QED BY <1>1 DEF Ruled, Sole, WaiversKept, CasesKept

(* Steps that write no status over a waiver, and rule on nothing.          *)
LEMMA RequestsRule == ASSUME Inv, Ruled, NEW c \in Calls, Receives(c) \/ Crash(c) PROVE Ruled'
  <1>1. UNCHANGED <<row, dispute>>
    BY DEF Receives, Crash, SampleRead, ChargeRead, WaiveRead, OpenRead, HookSucceeded,
           HookFailed, TriageRead, ResolveRead
  <1> QED BY <1>1, RulingsKept DEF WaiversKept, CasesKept, Opened

LEMMA StepsRule ==
  ASSUME Inv, Ruled, NEW c \in Calls, Unpaid(c), Steps(c),
         ~OpenWrite(c), ~TriageWrite(c), ~ResolveWrite(c)
  PROVE  Ruled'
  <1> DEFINE k == call[c].key  q == call[c].pi
  <1>1. UNCHANGED dispute
    BY DEF Steps, SiblingRead, CreateRow, GrowRow, ChargeLoad, ChargeRetry, CreateIntent,
           CreateIntentThrows, ChargeFail, ChargeAttach, MarkRead, MarkWrite, MarkRefund, Record,
           FailedWrite, WaiveWrite, WaiveEvent, WaiveIntent
  <1>2. row \in [Keys -> Row] BY DEF Inv, TypeOK, RowsTyped
  <1>3. WaiversKept
    <2>1. CASE UNCHANGED row BY <2>1 DEF WaiversKept
    <2>2. CASE CreateRow(c) BY <1>2, <2>2 DEF CreateRow, WaiversKept, Exists
    <2>3. CASE GrowRow(c) \/ ChargeRetry(c) \/ ChargeFail(c) \/ FailedWrite(c) \/ WaiveEvent(c)
      <3>1. \A j \in Keys : row'[j].status = row[j].status
        <4>1. CASE GrowRow(c) BY <1>2, <4>1 DEF Row, GrowRow
        <4>2. CASE ChargeRetry(c) BY <1>2, <4>2 DEF Row, ChargeRetry
        <4>3. CASE ChargeFail(c) BY <1>2, <4>3 DEF Row, ChargeFail
        <4>4. CASE FailedWrite(c) BY <1>2, <4>4 DEF Row, FailedWrite
        <4>5. CASE WaiveEvent(c) BY <1>2, <4>5 DEF Row, WaiveEvent
        <4> QED BY <2>3, <4>1, <4>2, <4>3, <4>4, <4>5
      <3> QED BY <3>1 DEF WaiversKept
    <2>4. CASE ChargeAttach(c)
      <3>1. \A j \in Keys : row'[j].status = row[j].status
        BY <1>2, <2>4 DEF Row, ChargeAttach
      <3> QED BY <3>1 DEF WaiversKept
    <2>5. CASE MarkWrite(c)
      <3>1. \A j \in Keys : row'[j].status # row[j].status => j = q.key
        BY <1>2, <2>5 DEF MarkWrite
      <3> QED BY <2>5, <3>1 DEF MarkWrite, Unpaid, WaiversKept
    <2>6. CASE WaiveWrite(c)
      <3>1. \A j \in Keys : row'[j].status = row[j].status \/ row'[j].status = "WAIVED"
        BY <1>2, <2>6 DEF Row, WaiveWrite
      <3> QED BY <3>1 DEF WaiversKept
    <2>7. CASE SiblingRead(c) \/ ChargeLoad(c) \/ CreateIntent(c) \/ CreateIntentThrows(c)
               \/ MarkRead(c) \/ MarkRefund(c) \/ Record(c) \/ WaiveIntent(c)
      BY <2>1, <2>7 DEF SiblingRead, ChargeLoad, CreateIntent, CreateIntentThrows, MarkRead,
                        MarkRefund, Record, WaiveIntent
    <2> QED BY <2>2, <2>3, <2>4, <2>5, <2>6, <2>7 DEF Steps
  <1>4. CasesKept BY <1>1 DEF CasesKept, Opened
  <1> QED BY <1>3, <1>4, RulingsKept

(* A case that is opened takes its row's other rulings up again, and a     *)
(* ruling for the sender waives the row.                                   *)
LEMMA DisputesRule ==
  ASSUME Inv, Ruled, NEW c \in Calls, OpenWrite(c) \/ TriageWrite(c) \/ ResolveWrite(c)
  PROVE  Ruled'
  <1>1. row \in [Keys -> Row] /\ dispute \in [Cases -> Dispute]
    BY DEF Inv, TypeOK, RowsTyped
  <1>2. SlotReal(call[c]) BY Called
  <1>3. \A e \in Opened : e \in Cases /\ dispute[e].about \in Keys BY <1>1 DEF Opened, Dispute
  <1>4. CASE OpenWrite(c)
    <2> DEFINE k == call[c].key  d == call[c].case
    <2>1. CASE dispute[d].status # "NONE"
      BY <1>4, <2>1, RulingsKept DEF OpenWrite, WaiversKept, CasesKept, Opened
    <2>2. CASE dispute[d].status = "NONE"
      <3>1. d \in Cases BY <1>2, <1>4 DEF OpenWrite, SlotReal
      <3>2. /\ dispute'[d].about = k /\ dispute'[d].ruling = "NONE" /\ d \in Opened'
            /\ \A e \in Cases \ {d} : dispute'[e] = dispute[e]
            /\ \A j \in Keys \ {k} : row'[j] = row[j]
        BY <1>1, <1>4, <2>2, <3>1 DEF OpenWrite, Opened
      <3>3. SUFFICES ASSUME NEW e \in Opened', dispute'[e].ruling = "FAVOR_SENDER", Sole(e)'
                     PROVE  row'[dispute'[e].about].status = "WAIVED"
        BY DEF Ruled
      <3>4. e # d /\ e \in Opened /\ dispute'[e] = dispute[e] BY <3>2, <3>3 DEF Opened
      <3>5. dispute[e].about # k BY <3>2, <3>3, <3>4 DEF Sole
      <3>6. Sole(e)
        <4>1. \A f \in Opened : f \in Opened' /\ f # d BY <2>2, <3>2 DEF Opened
        <4> QED BY <3>2, <3>3, <3>4, <4>1 DEF Sole, Opened
      <3> QED BY <1>3, <3>2, <3>3, <3>4, <3>5, <3>6 DEF Ruled
    <2> QED BY <2>1, <2>2
  <1>5. CASE TriageWrite(c)
    <2>1. call[c].case \in Cases /\ call[c].case \in Opened /\ call[c].saw # "NONE"
      BY <1>2, <1>5 DEF TriageWrite, SlotReal, Opened
    <2>2. PICK st : st # "NONE" /\ dispute' = [dispute EXCEPT ![call[c].case].status = st]
      BY <1>5, <2>1 DEF TriageWrite
    <2>3. CasesKept BY <1>1, <2>1, <2>2 DEF CasesKept, Opened, Dispute
    <2> QED BY <1>5, <2>3, RulingsKept DEF WaiversKept, TriageWrite
  <1>6. CASE ResolveWrite(c)
    <2> DEFINE d == call[c].case  k == dispute[d].about
    <2>1. d \in Opened /\ d \in Cases BY <1>2, <1>6 DEF ResolveWrite, SlotReal, Opened
    <2>2. PICK ruling, waives :
            /\ dispute' = [dispute EXCEPT ![d].status = "RESOLVED", ![d].ruling = ruling]
            /\ row' = [row EXCEPT ![k].status = RuledStatus(ruling, waives, row[k].status)]
      BY <1>6 DEF ResolveWrite
    <2>3. /\ dispute'[d].about = k /\ dispute'[d].ruling = ruling
          /\ \A e \in Cases \ {d} : dispute'[e] = dispute[e]
          /\ \A j \in Keys \ {k} : row'[j] = row[j]
          /\ row'[k].status = RuledStatus(ruling, waives, row[k].status)
      BY <1>1, <1>3, <2>1, <2>2 DEF Dispute, Row
    <2>4. Opened' = Opened BY <1>1, <2>1, <2>2 DEF Opened, Dispute
    <2>5. SUFFICES ASSUME NEW e \in Opened, dispute'[e].ruling = "FAVOR_SENDER", Sole(e)'
                   PROVE  row'[dispute'[e].about].status = "WAIVED"
      BY <2>4 DEF Ruled
    <2>6. CASE e = d BY <2>3, <2>5, <2>6 DEF RuledStatus
    <2>7. CASE e # d
      <3>1. dispute'[e] = dispute[e] /\ dispute[e].about # k
        BY <1>3, <2>1, <2>3, <2>4, <2>5, <2>7 DEF Sole
      <3>2. Sole(e)
        BY <1>3, <2>3, <2>4, <2>5, <3>1 DEF Sole
      <3> QED BY <1>3, <2>3, <2>5, <3>1, <3>2 DEF Ruled
    <2> QED BY <2>6, <2>7
  <1> QED BY <1>4, <1>5, <1>6

LEMMA BookingIsUnpaid ==
  ASSUME Inv, NEW c \in Calls, Receives(c) \/ Steps(c) \/ Crash(c) PROVE Unpaid(c)'
  <1>1. call \in [Calls -> Slot] BY DEF Inv, TypeOK, SlotsTyped
  <1>2. Idle \in Slot /\ Idle.at = "idle" BY IdleReal DEF Idle
  <1>3. Unpaid(c)' \/ call'[c].at = "book" BY DEF Unpaid
  <1>4. ASSUME Ends(c) PROVE Unpaid(c)' BY <1>1, <1>2, <1>3, <1>4 DEF Ends
  <1>5. ASSUME Booked(c) PROVE Unpaid(c)'
    BY <1>1, <1>3, <1>4, <1>5 DEF Booked, Goes, Slot
  <1>6. CASE Crash(c) BY <1>4, <1>6 DEF Crash
  <1>7. CASE Receives(c)
    <2>1. CASE SampleRead(c) BY <1>1, <1>2, <1>3, <2>1 DEF SampleRead, Begins, Slot
    <2>2. ASSUME NEW k \in Keys, ChargeRead(c, k) PROVE Unpaid(c)'
      BY <1>1, <1>2, <1>3, <2>2 DEF ChargeRead, Begins, Slot
    <2>3. ASSUME NEW k \in Keys, WaiveRead(c, k) PROVE Unpaid(c)'
      BY <1>1, <1>2, <1>3, <2>3 DEF WaiveRead, Begins, Slot
    <2>4. ASSUME NEW k \in Keys, OpenRead(c, k) PROVE Unpaid(c)'
      <3> DEFINE n == Cardinality(Opened) + 1
      <3> HIDE DEF n
      <3>1. call'[c].at = "open" BY <1>1, <1>2, <2>4 DEF OpenRead, Begins, Slot, n
      <3> QED BY <1>3, <3>1
    <2>5. ASSUME NEW p \in Intents, HookSucceeded(c, p) \/ HookFailed(c, p) PROVE Unpaid(c)'
      <3>1. call'[c].at \in {"mark", "failed"}
        <4>1. CASE HookSucceeded(c, p) BY <1>1, <1>2, <4>1 DEF HookSucceeded, Begins, Slot
        <4>2. CASE HookFailed(c, p) BY <1>1, <1>2, <4>2 DEF HookFailed, Begins, Slot
        <4> QED BY <2>5, <4>1, <4>2
      <3> QED BY <1>3, <3>1
    <2>6. ASSUME NEW d \in Cases, NEW by, TriageRead(c, d) \/ ResolveRead(c, d, by)
          PROVE  Unpaid(c)'
      BY <1>1, <1>2, <1>3, <2>6 DEF TriageRead, ResolveRead, Begins, Slot
    <2> QED BY <1>7, <2>1, <2>2, <2>3, <2>4, <2>5, <2>6 DEF Receives
  <1>8. CASE MarkRead(c)
    <2> DEFINE l == OnCapture(call[c].pi)
    <2>1. CASE l = "done" BY <1>5, <1>8, <2>1 DEF MarkRead
    <2>2. CASE l = "refund"
      <3>1. call'[c].at = "refund" BY <1>1, <1>8, <2>2 DEF MarkRead, Goes, Slot
      <3> QED BY <1>3, <3>1
    <2>3. CASE l = "book"
      <3>1. row[call[c].pi.key].status \notin {"PAID", "WAIVED"} BY <2>3 DEF OnCapture
      <3>2. call'[c].pi = call[c].pi /\ UNCHANGED row
        BY <1>1, <1>8, <2>3 DEF MarkRead, Goes, Slot
      <3> QED BY <3>1, <3>2 DEF Unpaid
    <2> QED BY <2>1, <2>2, <2>3 DEF OnCapture
  <1>9. CASE SiblingRead(c)
    BY <1>1, <1>3, <1>4, <1>9 DEF SiblingRead, Goes, Slot
  <1>10. CASE ChargeLoad(c) \/ ChargeRetry(c)
    <2>1. Ends(c) \/ call'[c].at \in {"retry", "pay"}
      BY <1>1, <1>10 DEF ChargeLoad, ChargeRetry, Goes, Snapshot, Slot
    <2> QED BY <1>3, <1>4, <2>1
  <1>11. CASE CreateIntent(c) \/ CreateIntentThrows(c)
    <2>1. call'[c].at \in {"attach", "fail"}
      <3> DEFINE p == IntentOf(c)
      <3> HIDE DEF p
      <3>1. CASE CreateIntent(c)
        <4>1. call' = [call EXCEPT ![c] = [call[c] EXCEPT !.at = "attach", !.pi = p]]
          BY <3>1 DEF CreateIntent, Goes, p
        <4> QED BY <1>1, <4>1 DEF Slot
      <3>2. CASE CreateIntentThrows(c)
        <4>1. call' = [call EXCEPT ![c] = [call[c] EXCEPT !.at = "fail"]]
          BY <3>2 DEF CreateIntentThrows, Goes
        <4> QED BY <1>1, <4>1 DEF Slot
      <3> QED BY <1>11, <3>1, <3>2
    <2> QED BY <1>3, <2>1
  <1>12. CASE ChargeAttach(c) BY <1>1, <1>3, <1>4, <1>12 DEF ChargeAttach, Goes, Slot
  <1>13. CASE WaiveWrite(c) \/ WaiveEvent(c)
    <2>1. Ends(c) \/ call'[c].at \in {"cancelEvent", "cancelIntent"}
      BY <1>1, <1>13 DEF WaiveWrite, WaiveEvent, Goes, Slot
    <2> QED BY <1>3, <1>4, <2>1
  <1>14. CASE MarkWrite(c) \/ MarkRefund(c) BY <1>5, <1>14 DEF MarkWrite, MarkRefund
  <1>15. CASE CreateRow(c) \/ GrowRow(c) \/ ChargeFail(c) \/ Record(c) \/ FailedWrite(c)
              \/ WaiveIntent(c) \/ OpenWrite(c) \/ TriageWrite(c) \/ ResolveWrite(c)
    BY <1>4, <1>15 DEF CreateRow, GrowRow, ChargeFail, Record, FailedWrite, WaiveIntent,
                       OpenWrite, TriageWrite, ResolveWrite
  <1> QED BY <1>6, <1>7, <1>8, <1>9, <1>10, <1>11, <1>12, <1>13, <1>14, <1>15 DEF Steps

LEMMA RuledWaivedStays ==
  ASSUME Inv, OneAtATime, RuledWaived, [Next]_vars
  PROVE  OneAtATime' /\ RuledWaived'
  <1>1. ASSUME NEW c \in Calls, Receives(c) \/ Steps(c) \/ Crash(c)
        PROVE  OneAtATime' /\ RuledWaived'
    <2>1. Moved(c) /\ OneAtATime' /\ (scope.width = 1 => Lone(c)) BY <1>1, RunsAlone
    <2>2. scope' = scope BY <1>1, ScopeStays
    <2>3. ASSUME scope.width = 1 PROVE Ruled' /\ \A d \in Calls : Unpaid(d)'
      <3>1. Ruled /\ Unpaid(c) BY <2>3 DEF RuledWaived
      <3>2. Ruled' BY <1>1, <3>1, RequestsRule, StepsRule, DisputesRule
      <3>3. \A d \in Calls \ {c} : Unpaid(d)' BY <2>1, <2>3 DEF Lone, Moved, Unpaid
      <3> QED BY <1>1, <3>2, <3>3, BookingIsUnpaid
    <2> QED BY <2>1, <2>2, <2>3 DEF RuledWaived
  <1>2. ASSUME NEW d \in Cases, Escalate(d) \/ CloseLocal(d) PROVE OneAtATime' /\ RuledWaived'
    <2>1. d \in Opened /\ dispute \in [Cases -> Dispute]
      BY <1>2 DEF Escalate, CloseLocal, Inv, TypeOK, RowsTyped
    <2>2. PICK st : st # "NONE" /\ dispute' = [dispute EXCEPT ![d].status = st]
      BY <1>2 DEF Escalate, CloseLocal
    <2>3. CasesKept BY <2>1, <2>2 DEF CasesKept, Opened, Dispute
    <2>4. UNCHANGED <<row, call, scope>> BY <1>2 DEF Escalate, CloseLocal
    <2>5. Ruled => Ruled' BY <2>3, <2>4, RulingsKept DEF WaiversKept
    <2> QED BY <2>4, <2>5 DEF RuledWaived, OneAtATime, Unpaid
  <1>3. ASSUME UNCHANGED <<row, dispute, call, scope>> PROVE OneAtATime' /\ RuledWaived'
    BY <1>3 DEF OneAtATime, RuledWaived, Ruled, Unpaid, Sole, Opened
  <1> QED BY <1>1, <1>2, <1>3 DEF Next, Dwell, Confirm, vars

LEMMA InitRuled == Init => OneAtATime /\ RuledWaived
  <1>1. Idle.at = "idle" BY DEF Idle
  <1> QED BY <1>1 DEF Init, OneAtATime, RuledWaived, Ruled, Unpaid, Opened

-----------------------------------------------------------------------------
(* One request at a time, and none of them fails: the money. *)

(* What a step may do to the rows whose charge never failed.               *)
RowsFit == \A k \in Keys :
    \/ ~Exists(k) /\ row'[k].pi = NoIntent /\ row'[k].status # "PAID"
    \/ row'[k].att = 0 =>
           /\ row[k].att = 0 /\ row'[k].pi = row[k].pi
           /\ row[k].pi # NoIntent => row'[k].amt = row[k].amt
           /\ row'[k].status = "PAID" => row[k].status = "PAID" \/ row[k].pi # NoIntent
PaidFit == \A k \in Keys : Exists(k) /\ row'[k].att = 0 =>
    /\ row[k].att = 0
    /\ row[k].status = "PAID" /\ Undisputed(k)' => row'[k].status = "PAID"
NoneMade == \A p \in Intents : intent'[p].now # "none" => intent[p].now # "none"
RefundsKept == \A p \in Intents : intent[p].now = "refunded" => intent'[p].now = "refunded"
CasesStand == \A d \in Opened : d \in Opened' /\ dispute'[d].about = dispute[d].about
HeardFit(c) == \A p \in Intents : <<"succeeded", p>> \in heard' =>
    <<"succeeded", p>> \in heard \/ (call[c].at = "record" /\ call[c].pi = p)

LEMMA OneIntentKept ==
  ASSUME Inv, OneIntent, RowsFit, NoneMade, NEW c \in Calls, Lone(c), call[c].at # "attach"
  PROVE  OneIntent'
  <1> SUFFICES ASSUME NEW p \in Intents, intent'[p].now # "none", row'[p.key].att = 0
               PROVE  row'[p.key].pi = p
    BY DEF OneIntent
  <1>1. intent[p].now # "none" /\ p.key \in Keys /\ Exists(p.key)
    BY DEF NoneMade, Inv, IntentsReal, Intents
  <1>2. row[p.key].att = 0 /\ row'[p.key].pi = row[p.key].pi BY <1>1 DEF RowsFit
  <1>3. \A d \in Calls : call[d].at # "attach" BY DEF Lone
  <1> QED BY <1>1, <1>2, <1>3 DEF OneIntent

LEMMA RowsGoodKept == ASSUME RowsGood, RowsFit PROVE RowsGood'
  BY DEF RowsGood, RowsFit

LEMMA HandledKept ==
  ASSUME Inv, PaidFit, RefundsKept, CasesStand, NEW p \in Intents, WasCaptured(p), Handled(p)
  PROVE  Handled(p)'
  <1>1. p.key \in Keys /\ Exists(p.key)
    BY DEF Intents, Inv, IntentsReal, WasCaptured, Kept
  <1>2. Undisputed(p.key)' => Undisputed(p.key) BY DEF Undisputed, CasesStand
  <1> QED BY <1>1, <1>2 DEF Handled, PaidFit, RefundsKept

LEMMA HeardKept ==
  ASSUME Inv, SlotsGood, HeardGood, PaidFit, RefundsKept, CasesStand, NEW c \in Calls, HeardFit(c)
  PROVE  HeardGood'
  <1> SUFFICES ASSUME NEW p \in Intents, <<"succeeded", p>> \in heard' PROVE Handled(p)'
    BY DEF HeardGood
  <1>1. CASE <<"succeeded", p>> \in heard
    BY <1>1, HandledKept DEF HeardGood, Inv, HeardReal
  <1>2. CASE call[c].at = "record" /\ call[c].pi = p
    <2>1. WasCaptured(p) /\ Handled(p) BY <1>2, Called DEF SlotReal, SlotsGood, SlotGood
    <2> QED BY <2>1, HandledKept
  <1> QED BY <1>1, <1>2 DEF HeardFit

LEMMA SlotsGoodKept ==
  ASSUME NEW c \in Calls, Lone(c), SlotGood(call[c])' PROVE SlotsGood'
  <1>1. \A d \in Calls \ {c} : call'[d].at = "idle" BY DEF Lone, Moved
  <1>2. \A d \in Calls \ {c} : SlotGood(call[d])' BY <1>1 DEF SlotGood
  <1> QED BY <1>2 DEF SlotsGood

LEMMA MoneyKept ==
  ASSUME Inv, MoneyFits, RowsFit, PaidFit, NoneMade, RefundsKept, CasesStand,
         NEW c \in Calls, Lone(c), call[c].at # "attach", HeardFit(c), SlotGood(call[c])'
  PROVE  MoneyFits'
  BY OneIntentKept, RowsGoodKept, HeardKept, SlotsGoodKept DEF MoneyFits

LEMMA RowsFitStay == ASSUME UNCHANGED row PROVE RowsFit /\ PaidFit
  BY DEF RowsFit, PaidFit
LEMMA IntentsFitStay == ASSUME UNCHANGED intent PROVE NoneMade /\ RefundsKept
  BY DEF NoneMade, RefundsKept
LEMMA CasesFitStay == ASSUME UNCHANGED dispute PROVE CasesStand BY DEF CasesStand, Opened
LEMMA HeardFitStays == ASSUME NEW c \in Calls, heard' = heard PROVE HeardFit(c) BY DEF HeardFit

(* A slot that carries no promise about its row. *)
Plain == Labels \ {"grow", "retry", "pay", "fail", "attach", "refund", "record"}
LEMMA PlainIsGood == ASSUME NEW s, s.at \in Plain PROVE SlotGood(s)'
  BY DEF Plain, SlotGood

(* Steps that move the slot of c and write neither row nor case. *)
LEMMA QuietKept ==
  ASSUME Inv, MoneyFits, NEW c \in Calls, Lone(c), call[c].at # "attach",
         UNCHANGED <<row, dispute, intent>>, HeardFit(c), SlotGood(call[c])'
  PROVE  MoneyFits'
  BY RowsFitStay, IntentsFitStay, CasesFitStay, MoneyKept

LEMMA RequestsKeep ==
  ASSUME Inv, MoneyFits, NEW c \in Calls, Lone(c), Receives(c) PROVE MoneyFits'
  <1>1. call \in [Calls -> Slot] /\ Idle \in Slot /\ Idle.at = "idle"
    BY IdleReal DEF Inv, TypeOK, SlotsTyped, Idle
  <1>2. call[c].at # "attach" BY ReceivesMoves DEF Begins
  <1>3. UNCHANGED <<row, dispute, intent, heard>>
    BY DEF Receives, SampleRead, ChargeRead, WaiveRead, OpenRead, HookSucceeded,
           HookFailed, TriageRead, ResolveRead
  <1>4. HeardFit(c) BY <1>3, HeardFitStays
  <1>5. ASSUME call'[c].at \in Plain PROVE SlotGood(call[c])' BY <1>5 DEF Plain, SlotGood
  <1>6. SlotGood(call[c])'
    <2>1. CASE SampleRead(c)
      <3> DEFINE t == [Idle EXCEPT !.amt = waited]
                 create == [t EXCEPT !.at = "create"]
                 grow == [t EXCEPT !.at = "grow", !.att = row[0].att]
                 sibling == [t EXCEPT !.at = "sibling", !.key = waited, !.amt = waited - row[0].amt]
      <3>1. CASE Begins(c, create)
        <4>1. call'[c].at = "create" BY <1>1, <3>1 DEF Begins, Slot
        <4> QED BY <1>5, <4>1 DEF Plain, Labels
      <3>2. CASE Begins(c, sibling)
        <4>1. call'[c].at = "sibling" BY <1>1, <3>2 DEF Begins, Slot
        <4> QED BY <1>5, <4>1 DEF Plain, Labels
      <3>3. CASE Growable(0, waited) /\ Begins(c, grow)
        <4>1. Idle.key = 0 BY DEF Idle
        <4>2. call'[c].at = "grow" /\ call'[c].key = 0 /\ call'[c].att = row[0].att
          BY <1>1, <3>3, <4>1 DEF Begins, Slot
        <4> QED BY <1>3, <3>3, <4>2 DEF Growable, SlotGood
      <3> QED BY <2>1, <3>1, <3>2, <3>3 DEF SampleRead
    <2>2. ASSUME NEW k \in Keys, ChargeRead(c, k) PROVE SlotGood(call[c])'
      <3>1. call'[c].at = "load" BY <1>1, <2>2 DEF ChargeRead, Begins, Slot
      <3> QED BY <1>5, <3>1 DEF Plain, Labels
    <2>3. ASSUME NEW k \in Keys, WaiveRead(c, k) PROVE SlotGood(call[c])'
      <3>1. call'[c].at = "waive" BY <1>1, <2>3 DEF WaiveRead, Begins, Slot
      <3> QED BY <1>5, <3>1 DEF Plain, Labels
    <2>4. ASSUME NEW k \in Keys, OpenRead(c, k) PROVE SlotGood(call[c])'
      <3> DEFINE n == Cardinality(Opened) + 1
      <3> HIDE DEF n
      <3>1. call'[c].at = "open" BY <1>1, <2>4 DEF OpenRead, Begins, Slot, n
      <3> QED BY <1>5, <3>1 DEF Plain, Labels
    <2>5. ASSUME NEW p \in Intents, HookSucceeded(c, p) PROVE SlotGood(call[c])'
      <3>1. call'[c].at = "mark" BY <1>1, <2>5 DEF HookSucceeded, Begins, Slot
      <3> QED BY <1>5, <3>1 DEF Plain, Labels
    <2>6. ASSUME NEW p \in Intents, HookFailed(c, p) PROVE SlotGood(call[c])'
      <3>1. call'[c].at = "failed" BY <1>1, <2>6 DEF HookFailed, Begins, Slot
      <3> QED BY <1>5, <3>1 DEF Plain, Labels
    <2>7. ASSUME NEW d \in Cases, NEW by, TriageRead(c, d) \/ ResolveRead(c, d, by)
          PROVE  SlotGood(call[c])'
      <3>1. CASE TriageRead(c, d)
        <4>1. call'[c].at = "triage" BY <1>1, <3>1 DEF TriageRead, Begins, Slot
        <4> QED BY <1>5, <4>1 DEF Plain, Labels
      <3>2. CASE ResolveRead(c, d, by)
        <4>1. call'[c].at = "resolve" BY <1>1, <3>2 DEF ResolveRead, Begins, Slot
        <4> QED BY <1>5, <4>1 DEF Plain, Labels
      <3> QED BY <2>7, <3>1, <3>2
    <2> QED BY <2>1, <2>2, <2>3, <2>4, <2>5, <2>6, <2>7 DEF Receives
  <1> QED BY <1>2, <1>3, <1>4, <1>6, QuietKept

LEMMA IdleIsGood == ASSUME Inv, NEW c \in Calls, Ends(c) PROVE SlotGood(call[c])'
  <1>1. call'[c].at = "idle" BY DEF Ends, Idle, Inv, TypeOK, SlotsTyped
  <1> QED BY <1>1 DEF SlotGood

(* What a booking leaves to record was handled. *)
LEMMA BookedIsGood ==
  ASSUME Inv, NEW c \in Calls, NEW p, p = call[c].pi, Booked(c), Handled(p)'
  PROVE  SlotGood(call[c])'
  <1>1. CASE Ends(c) BY <1>1, IdleIsGood
  <1>2. CASE ~Ends(c)
    <2>1. call'[c].at = "record" /\ call'[c].pi = p
      BY <1>2 DEF Booked, Goes, Inv, TypeOK, SlotsTyped, Slot
    <2>2. Handled(call[c].pi)' BY <2>1 DEF Handled, Undisputed
    <2> QED BY <2>1, <2>2 DEF SlotGood
  <1> QED BY <1>1, <1>2

-----------------------------------------------------------------------------
(* Steps that bill. *)
LEMMA BillingKeeps ==
  ASSUME Inv, MoneyFits, NEW c \in Calls, Lone(c), SiblingRead(c) \/ CreateRow(c) \/ GrowRow(c)
  PROVE  MoneyFits'
  <1>1. call \in [Calls -> Slot] /\ row \in [Keys -> Row] /\ call[c].key \in Keys
    BY Called DEF Inv, TypeOK, SlotsTyped, RowsTyped, Slot
  <1>2. SlotGood(call[c]) BY DEF MoneyFits, SlotsGood
  <1>3. call[c].at # "attach" /\ HeardFit(c) /\ UNCHANGED <<dispute, intent>>
    BY HeardFitStays DEF SiblingRead, CreateRow, GrowRow
  <1>4. CASE SiblingRead(c)
    <2> DEFINE k == call[c].key
    <2>1. SlotGood(call[c])'
      <3>1. CASE Ends(c) BY <3>1, IdleIsGood
      <3>2. CASE Goes(c, [call[c] EXCEPT !.at = "create"])
        <4>1. call'[c].at = "create" BY <1>1, <3>2 DEF Goes, Slot
        <4> QED BY <4>1 DEF SlotGood
      <3>3. CASE /\ Growable(k, call[c].amt)
                 /\ Goes(c, [call[c] EXCEPT !.at = "grow", !.att = row[k].att])
        <4>1. call'[c].at = "grow" /\ call'[c].key = k /\ call'[c].att = row[k].att
          BY <1>1, <3>3 DEF Goes, Slot
        <4> QED BY <1>4, <3>3, <4>1 DEF Growable, SlotGood, SiblingRead
      <3> QED BY <1>4, <3>1, <3>2, <3>3 DEF SiblingRead
    <2> QED BY <1>3, <1>4, <2>1, QuietKept DEF SiblingRead
  <1>5. CASE CreateRow(c)
    <2>1. RowsFit /\ PaidFit
      <3>1. CASE Exists(call[c].key) BY <1>5, <3>1, RowsFitStay DEF CreateRow
      <3>2. CASE ~Exists(call[c].key)
        <4> DEFINE k == call[c].key
        <4>1. row'[k].pi = NoIntent /\ row'[k].status = "PENDING_PAYMENT"
          BY <1>1, <1>5, <3>2 DEF CreateRow, NoRow
        <4>2. \A j \in Keys \ {k} : row'[j] = row[j] BY <1>1, <1>5, <3>2 DEF CreateRow
        <4> QED BY <3>2, <4>1, <4>2 DEF RowsFit, PaidFit
      <3> QED BY <3>1, <3>2
    <2>2. SlotGood(call[c])' BY <1>5, IdleIsGood DEF CreateRow
    <2> QED BY <1>3, <2>1, <2>2, IntentsFitStay, CasesFitStay, MoneyKept
  <1>6. CASE GrowRow(c)
    <2> DEFINE k == call[c].key
    <2>1. row[k].pi = NoIntent /\ row[k].att = call[c].att BY <1>2, <1>6 DEF GrowRow, SlotGood
    <2>2. /\ row'[k].pi = NoIntent /\ row'[k].att = row[k].att /\ row'[k].status = row[k].status
          /\ \A j \in Keys \ {k} : row'[j] = row[j]
      BY <1>1, <1>6, <2>1 DEF GrowRow, Row
    <2>3. RowsFit /\ PaidFit BY <2>1, <2>2 DEF RowsFit, PaidFit
    <2>4. SlotGood(call[c])' BY <1>6, IdleIsGood DEF GrowRow
    <2> QED BY <1>3, <2>3, <2>4, IntentsFitStay, CasesFitStay, MoneyKept
  <1> QED BY <1>4, <1>5, <1>6

-----------------------------------------------------------------------------
(* Steps that charge. *)
LEMMA ChargesKeep ==
  ASSUME Inv, MoneyFits, NEW c \in Calls, Lone(c), ChargeLoad(c) \/ ChargeRetry(c) \/ ChargeFail(c)
  PROVE  MoneyFits'
  <1>1. call \in [Calls -> Slot] /\ row \in [Keys -> Row] /\ call[c].key \in Keys
    BY Called DEF Inv, TypeOK, SlotsTyped, RowsTyped, Slot
  <1>2. SlotGood(call[c]) BY DEF MoneyFits, SlotsGood
  <1>3. call[c].at # "attach" /\ HeardFit(c) /\ UNCHANGED <<dispute, intent>>
    BY HeardFitStays DEF ChargeLoad, ChargeRetry, ChargeFail
  <1> DEFINE k == call[c].key
  <1>4. CASE ChargeLoad(c)
    <2> DEFINE next == row[k].att + 1
    <2>1. row[k].att \in Nat /\ next > 0
      <3>1. row[k].att \in 0..MaxAttempt BY <1>1 DEF Row, Attempts
      <3> QED BY <3>1, SurchargeConstants
    <2> HIDE DEF next
    <2>2. CASE Ends(c) BY <1>3, <1>4, <2>2, IdleIsGood, QuietKept DEF ChargeLoad
    <2>3. CASE Goes(c, Snapshot(c, "retry", k, next))
      <3>1. /\ call'[c].at = "retry" /\ call'[c].key = k /\ call'[c].amt = row[k].amt
            /\ call'[c].att = next
        BY <1>1, <2>3 DEF Goes, Snapshot, Slot
      <3>2. SlotGood(call[c])' BY <1>4, <2>1, <3>1 DEF SlotGood, ChargeLoad
      <3> QED BY <1>3, <1>4, <3>2, QuietKept DEF ChargeLoad
    <2>4. CASE Goes(c, Snapshot(c, "pay", k, row[k].att))
      <3>1. /\ call'[c].at = "pay" /\ call'[c].key = k /\ call'[c].amt = row[k].amt
            /\ call'[c].att = row[k].att
        BY <1>1, <2>4 DEF Goes, Snapshot, Slot
      <3>2. SlotGood(call[c])' BY <1>4, <3>1 DEF SlotGood, ChargeLoad
      <3> QED BY <1>3, <1>4, <3>2, QuietKept DEF ChargeLoad
    <2> QED BY <1>4, <2>2, <2>3, <2>4 DEF ChargeLoad, next
  <1>5. CASE ChargeRetry(c)
    <2>1. call[c].att > 0 /\ row[k].amt = call[c].amt BY <1>2, <1>5 DEF ChargeRetry, SlotGood
    <2>2. /\ row'[k].att = call[c].att /\ row'[k].amt = row[k].amt
          /\ \A j \in Keys \ {k} : row'[j] = row[j]
      BY <1>1, <1>5 DEF ChargeRetry, Row
    <2>3. RowsFit /\ PaidFit BY <2>1, <2>2 DEF RowsFit, PaidFit
    <2>4. /\ call'[c].at = "pay" /\ call'[c].key = k /\ call'[c].amt = call[c].amt
          /\ call'[c].att = call[c].att
      BY <1>1, <1>5 DEF ChargeRetry, Goes, Slot
    <2>5. SlotGood(call[c])' BY <2>1, <2>2, <2>4 DEF SlotGood
    <2> QED BY <1>3, <2>3, <2>5, IntentsFitStay, CasesFitStay, MoneyKept
  <1>6. CASE ChargeFail(c)
    <2>1. row[k].att = call[c].att BY <1>2, <1>6 DEF ChargeFail, SlotGood
    <2>2. /\ row'[k].att = row[k].att /\ row'[k].amt = row[k].amt
          /\ row'[k].pi = row[k].pi /\ row'[k].status = row[k].status
          /\ \A j \in Keys \ {k} : row'[j] = row[j]
      BY <1>1, <1>6, <2>1 DEF ChargeFail, Row
    <2>3. RowsFit /\ PaidFit BY <2>2 DEF RowsFit, PaidFit
    <2>4. SlotGood(call[c])' BY <1>6, IdleIsGood DEF ChargeFail
    <2> QED BY <1>3, <2>3, <2>4, IntentsFitStay, CasesFitStay, MoneyKept
  <1> QED BY <1>4, <1>5, <1>6

(* The intent a charge makes is the one its row will name. *)
LEMMA CreatingKeeps ==
  ASSUME Inv, MoneyFits, NEW c \in Calls, Lone(c), faults' = 0, faults = 0,
         CreateIntent(c) \/ CreateIntentThrows(c)
  PROVE  MoneyFits'
  <1>1. call \in [Calls -> Slot] /\ row \in [Keys -> Row] /\ intent \in [Intents -> Intent]
    BY DEF Inv, TypeOK, SlotsTyped, RowsTyped, StripeTyped
  <1>2. /\ row[call[c].key].att = call[c].att /\ row[call[c].key].amt = call[c].amt
        /\ call[c].at = "pay" /\ UNCHANGED <<row, dispute, heard>>
    BY DEF MoneyFits, SlotsGood, SlotGood, CreateIntent, CreateIntentThrows
  <1>3. CASE CreateIntentThrows(c)
    <2>1. UNCHANGED intent BY <1>3 DEF CreateIntentThrows
    <2>2. /\ call'[c].at = "fail" /\ call'[c].key = call[c].key
          /\ call'[c].amt = call[c].amt /\ call'[c].att = call[c].att
      BY <1>1, <1>3 DEF CreateIntentThrows, Goes, Slot
    <2>3. SlotGood(call[c])' BY <1>2, <2>2 DEF SlotGood
    <2> QED BY <1>2, <2>1, <2>3, HeardFitStays, QuietKept
  <1>4. ASSUME NEW p, p = IntentOf(c), CreateIntent(c) PROVE MoneyFits'
    <2>1. p \in Intents BY <1>2, <1>4, Asked
    <2>2. call'[c].at = "attach" /\ call'[c].pi = p BY <1>1, <1>4 DEF CreateIntent, Goes, Slot
    <2>3. \A q \in Intents \ {p} : intent'[q] = intent[q] BY <1>1, <1>4 DEF CreateIntent
    <2>4. RefundsKept BY <1>1, <1>4, <2>3 DEF CreateIntent, RefundsKept
    <2>5. OneIntent'
      <3> SUFFICES ASSUME NEW q \in Intents, intent'[q].now # "none", row'[q.key].att = 0
                   PROVE  \/ row'[q.key].pi = q
                          \/ \E d \in Calls : call'[d].at = "attach" /\ call'[d].pi = q
        BY DEF OneIntent
      <3>1. CASE q = p BY <2>2, <3>1
      <3>2. CASE q # p
        <4>1. \A d \in Calls : call[d].at # "attach" BY <1>2 DEF Lone
        <4>2. row[q.key].att = 0 /\ intent[q].now # "none" BY <1>2, <2>3, <3>2
        <4> QED BY <1>2, <4>1, <4>2 DEF MoneyFits, OneIntent
      <3> QED BY <3>1, <3>2
    <2>6. p.key = call[c].key /\ p.amt = call[c].amt /\ p.att = call[c].att BY <1>4 DEF IntentOf
    <2>7. SlotGood(call[c])' BY <1>2, <2>2, <2>6 DEF SlotGood
    <2> QED BY <1>2, <2>4, <2>5, <2>7, RowsFitStay, RowsGoodKept, CasesFitStay, HeardFitStays,
               HeardKept, SlotsGoodKept DEF MoneyFits
  <1> QED BY <1>3, <1>4

(* The row names the one intent that was made for it. *)
LEMMA AttachingKeeps ==
  ASSUME Inv, MoneyFits, NEW c \in Calls, Lone(c), ChargeAttach(c) PROVE MoneyFits'
  <1>1. call \in [Calls -> Slot] /\ row \in [Keys -> Row] /\ intent \in [Intents -> Intent]
    BY DEF Inv, TypeOK, SlotsTyped, RowsTyped, StripeTyped
  <1>2. PICK p \in Intents : p = call[c].pi BY Called DEF ChargeAttach, SlotReal
  <1>3. /\ p.key \in Keys /\ Exists(p.key) /\ p # NoIntent
        /\ p = [key |-> p.key, amt |-> p.amt, att |-> p.att]
        /\ row[p.key].att = p.att /\ row[p.key].amt = p.amt
    <2>1. SlotGood(call[c]) /\ SlotReal(call[c]) BY Called DEF MoneyFits, SlotsGood
    <2>2. p.key \in Keys /\ p = [key |-> p.key, amt |-> p.amt, att |-> p.att] BY DEF Intents
    <2> QED BY <1>2, <2>1, <2>2, NoIntentIsNone DEF ChargeAttach, SlotGood, SlotReal
  <1>4. /\ row'[p.key].pi = p /\ row'[p.key].att = row[p.key].att
        /\ row'[p.key].amt = row[p.key].amt /\ row'[p.key].status = row[p.key].status
        /\ \A j \in Keys \ {p.key} : row'[j] = row[j]
    BY <1>1, <1>2, <1>3 DEF ChargeAttach, Row
  <1>5. \A q \in Intents : intent'[q].now = intent[q].now
    BY <1>1, <1>2 DEF ChargeAttach, Intent
  <1>6. UNCHANGED <<dispute, heard>> BY DEF ChargeAttach
  <1>7. OneIntent'
    <2> SUFFICES ASSUME NEW q \in Intents, intent'[q].now # "none", row'[q.key].att = 0
                 PROVE  row'[q.key].pi = q
      BY DEF OneIntent
    <2>1. q.key \in Keys BY DEF Intents
    <2>2. intent[q].now # "none" /\ row[q.key].att = 0 BY <1>4, <1>5, <2>1
    <2>3. row[q.key].pi = q \/ q = p
      <3>1. \A d \in Calls : call[d].at = "attach" => d = c BY DEF Lone
      <3> QED BY <1>2, <2>2, <3>1 DEF MoneyFits, OneIntent
    <2>4. CASE q.key # p.key BY <1>4, <2>1, <2>3, <2>4
    <2>5. CASE q.key = p.key /\ row[q.key].pi = q
      <3>1. q # NoIntent BY NoIntentIsNone
      <3>2. q = [key |-> p.key, amt |-> row[p.key].amt, att |-> 0]
        BY <2>1, <2>2, <2>5, <3>1 DEF MoneyFits, RowsGood
      <3>3. q = p BY <1>3, <2>2, <2>5, <3>2
      <3> QED BY <1>4, <3>3
    <2> QED BY <1>4, <2>3, <2>4, <2>5
  <1>8. RowsGood'
    <2> SUFFICES ASSUME NEW k \in Keys, row'[k].att = 0
                 PROVE  /\ row'[k].pi # NoIntent =>
                             row'[k].pi = [key |-> k, amt |-> row'[k].amt, att |-> 0]
                        /\ row'[k].status = "PAID" => row'[k].pi # NoIntent
      BY DEF RowsGood
    <2>1. CASE k = p.key BY <1>3, <1>4, <2>1
    <2>2. CASE k # p.key BY <1>4, <2>2 DEF MoneyFits, RowsGood
    <2> QED BY <2>1, <2>2
  <1>9. PaidFit BY <1>3, <1>4 DEF PaidFit
  <1>10. SlotGood(call[c])'
    <2>1. CASE Ends(c) BY <2>1, IdleIsGood
    <2>2. CASE Goes(c, [call[c] EXCEPT !.at = "mark"])
      <3>1. call'[c].at = "mark" BY <1>1, <2>2 DEF Goes, Slot
      <3> QED BY <3>1 DEF SlotGood
    <2> QED BY <2>1, <2>2 DEF ChargeAttach
  <1>11. RefundsKept BY <1>5 DEF RefundsKept
  <1> QED BY <1>6, <1>7, <1>8, <1>9, <1>10, <1>11, CasesFitStay, HeardFitStays, HeardKept,
             SlotsGoodKept DEF MoneyFits

-----------------------------------------------------------------------------
(* Steps that book. *)

(* An intent that was made for a row whose charge never failed is the one  *)
(* the row names, unless it is about to be.                                *)
LEMMA Named ==
  ASSUME MoneyFits, NEW c \in Calls, Lone(c), call[c].at # "attach",
         NEW p \in Intents, intent[p].now # "none", row[p.key].att = 0
  PROVE  row[p.key].pi = p
  <1>1. \A d \in Calls : call[d].at # "attach" BY DEF Lone
  <1> QED BY <1>1 DEF MoneyFits, OneIntent

LEMMA BookingKeeps ==
  ASSUME Inv, MoneyFits, NEW c \in Calls, Lone(c), faults' = 0, faults = 0,
         MarkRead(c) \/ MarkWrite(c) \/ MarkRefund(c)
  PROVE  MoneyFits'
  <1>1. call \in [Calls -> Slot] /\ row \in [Keys -> Row] /\ intent \in [Intents -> Intent]
    BY DEF Inv, TypeOK, SlotsTyped, RowsTyped, StripeTyped
  <1>2. PICK p \in Intents : p = call[c].pi
    BY Called DEF MarkRead, MarkWrite, MarkRefund, SlotReal
  <1>3. /\ p.key \in Keys /\ WasCaptured(p) /\ intent[p].now # "none" /\ Exists(p.key)
        /\ call[c].at # "attach" /\ UNCHANGED <<dispute, heard>>
    BY <1>2, Called DEF MarkRead, MarkWrite, MarkRefund, SlotReal, WasCaptured, Kept, Intents,
       Inv, IntentsReal
  <1>4. row[p.key].att = 0 => row[p.key].pi = p BY <1>3, Named
  <1>5. CASE MarkRead(c)
    <2>1. SlotGood(call[c])'
      <3>1. CASE OnCapture(p) = "done"
        <4>1. Handled(p)
          BY <1>4, <3>1 DEF OnCapture, Stale, Handled
        <4>2. Handled(p)' BY <1>5, <4>1 DEF MarkRead, Handled, Undisputed, Opened
        <4> QED BY <1>2, <1>5, <3>1, <4>2, BookedIsGood DEF MarkRead
      <3>2. CASE OnCapture(p) = "refund"
        <4>1. row[p.key].status = "WAIVED" BY <3>2 DEF OnCapture
        <4>2. call'[c].at = "refund" /\ call'[c].pi = p /\ UNCHANGED row
          BY <1>1, <1>2, <1>5, <3>2 DEF MarkRead, Goes, Slot
        <4> QED BY <4>1, <4>2 DEF SlotGood
      <3>3. CASE OnCapture(p) = "book"
        <4>1. call'[c].at = "book" BY <1>1, <1>2, <1>5, <3>3 DEF MarkRead, Goes, Slot
        <4> QED BY <4>1 DEF SlotGood
      <3> QED BY <3>1, <3>2, <3>3 DEF OnCapture
    <2> QED BY <1>3, <1>5, <2>1, HeardFitStays, QuietKept DEF MarkRead
  <1>6. CASE MarkWrite(c)
    <2>1. /\ row'[p.key].pi = p /\ row'[p.key].att = row[p.key].att
          /\ row'[p.key].amt = row[p.key].amt /\ row'[p.key].status = "PAID"
          /\ \A j \in Keys \ {p.key} : row'[j] = row[j]
      BY <1>1, <1>2, <1>3, <1>6 DEF MarkWrite, Row
    <2>2. RowsFit /\ PaidFit BY <1>4, <2>1, NoIntentIsNone DEF RowsFit, PaidFit
    <2>3. Handled(p)' BY <2>1 DEF Handled
    <2>4. SlotGood(call[c])' BY <1>2, <1>6, <2>3, BookedIsGood DEF MarkWrite
    <2>5. UNCHANGED intent BY <1>6 DEF MarkWrite
    <2> QED BY <1>3, <2>2, <2>4, <2>5, IntentsFitStay, CasesFitStay, HeardFitStays, MoneyKept
  <1>7. CASE MarkRefund(c)
    <2>1. UNCHANGED row BY <1>7 DEF MarkRefund
    <2>2. NoneMade /\ RefundsKept
      <3>1. CASE UNCHANGED intent BY <3>1, IntentsFitStay
      <3>2. CASE intent' = [intent EXCEPT ![p].now = "refunded"] /\ Captured(p)
        <4>1. \A q \in Intents : intent'[q].now = IF q = p THEN "refunded" ELSE intent[q].now
          BY <1>1, <3>2 DEF Intent
        <4> QED BY <3>2, <4>1 DEF NoneMade, RefundsKept, Captured
      <3> QED BY <1>2, <1>7, <3>1, <3>2 DEF MarkRefund
    <2>3. row[p.key].att = 0 => intent'[p].now = "refunded"
      <3> SUFFICES ASSUME row[p.key].att = 0 PROVE intent'[p].now = "refunded" OBVIOUS
      <3>1. CASE intent' = [intent EXCEPT ![p].now = "refunded"] BY <1>1, <3>1 DEF Intent
      <3>2. CASE UNCHANGED intent /\ ~Captured(p)
        BY <1>3, <3>2 DEF WasCaptured, Captured, Kept
      <3>3. ASSUME NEW q \in Intents, q.key = p.key, intent[q].now = "refunded", UNCHANGED intent
            PROVE  intent'[p].now = "refunded"
        <4>1. row[p.key].pi = q BY <1>3, <3>3, Named
        <4> QED BY <1>4, <3>3, <4>1
      <3>4. faults' # faults + 1 BY SurchargeConstants
      <3> QED BY <1>2, <1>7, <3>1, <3>2, <3>3, <3>4 DEF MarkRefund
    <2>4. Handled(p)' BY <2>1, <2>3 DEF Handled
    <2>5. SlotGood(call[c])' BY <1>2, <1>7, <2>4, BookedIsGood DEF MarkRefund
    <2> QED BY <1>3, <2>1, <2>2, <2>5, RowsFitStay, CasesFitStay, HeardFitStays, MoneyKept
  <1> QED BY <1>5, <1>6, <1>7

-----------------------------------------------------------------------------
(* Steps that record, waive and rule. *)
LEMMA RecordingKeeps ==
  ASSUME Inv, MoneyFits, NEW c \in Calls, Lone(c), Record(c) \/ FailedWrite(c) PROVE MoneyFits'
  <1>1. call[c].at # "attach" /\ UNCHANGED <<dispute, intent>> /\ SlotGood(call[c])'
    BY IdleIsGood DEF Record, FailedWrite
  <1>2. CASE Record(c)
    <2>1. HeardFit(c) BY <1>2 DEF Record, HeardFit
    <2> QED BY <1>1, <1>2, <2>1, QuietKept DEF Record
  <1>3. CASE FailedWrite(c)
    <2> DEFINE k == call[c].key
    <2>1. row \in [Keys -> Row] /\ k \in Keys BY Called DEF Inv, TypeOK, RowsTyped, Slot
    <2>2. /\ row'[k].att = row[k].att /\ row'[k].amt = row[k].amt
          /\ row'[k].pi = row[k].pi /\ row'[k].status = row[k].status
          /\ \A j \in Keys \ {k} : row'[j] = row[j]
      BY <1>3, <2>1 DEF FailedWrite, Row
    <2>3. RowsFit /\ PaidFit BY <2>2 DEF RowsFit, PaidFit
    <2>4. HeardFit(c) BY <1>3 DEF FailedWrite, HeardFit
    <2> QED BY <1>1, <2>3, <2>4, IntentsFitStay, CasesFitStay, MoneyKept
  <1> QED BY <1>2, <1>3

LEMMA WaivingKeeps ==
  ASSUME Inv, MoneyFits, NEW c \in Calls, Lone(c),
         WaiveWrite(c) \/ WaiveEvent(c) \/ WaiveIntent(c)
  PROVE  MoneyFits'
  <1> DEFINE k == call[c].key
  <1>1. /\ call \in [Calls -> Slot] /\ row \in [Keys -> Row] /\ intent \in [Intents -> Intent]
        /\ k \in Keys
    BY Called DEF Inv, TypeOK, SlotsTyped, RowsTyped, StripeTyped, Slot
  <1>2. call[c].at # "attach" /\ HeardFit(c) /\ UNCHANGED dispute
    BY HeardFitStays DEF WaiveWrite, WaiveEvent, WaiveIntent
  <1>3. SlotGood(call[c])'
    <2>1. CASE Ends(c) BY <2>1, IdleIsGood
    <2>2. ASSUME NEW l \in {"cancelEvent", "cancelIntent"}, Goes(c, [call[c] EXCEPT !.at = l])
          PROVE  SlotGood(call[c])'
      <3>1. call'[c].at = l BY <1>1, <2>2 DEF Goes, Slot
      <3> QED BY <3>1 DEF SlotGood
    <2> QED BY <2>1, <2>2 DEF WaiveWrite, WaiveEvent, WaiveIntent
  <1>4. CASE WaiveWrite(c)
    <2>1. CASE UNCHANGED row
      BY <1>2, <1>3, <1>4, <2>1, QuietKept DEF WaiveWrite
    <2>2. CASE row[k].status = "PENDING_PAYMENT"
      <3>1. /\ row'[k].att = row[k].att /\ row'[k].amt = row[k].amt
            /\ row'[k].pi = row[k].pi /\ row'[k].status = "WAIVED"
            /\ \A j \in Keys \ {k} : row'[j] = row[j]
        BY <1>1, <1>4, <2>2 DEF WaiveWrite, Row
      <3>2. RowsFit /\ PaidFit BY <2>2, <3>1 DEF RowsFit, PaidFit
      <3> QED BY <1>2, <1>3, <1>4, <3>2, IntentsFitStay, CasesFitStay, MoneyKept DEF WaiveWrite
    <2> QED BY <1>4, <2>1, <2>2 DEF WaiveWrite
  <1>5. CASE WaiveEvent(c)
    <2>1. /\ row'[k].att = row[k].att /\ row'[k].amt = row[k].amt
          /\ row'[k].pi = row[k].pi /\ row'[k].status = row[k].status
          /\ \A j \in Keys \ {k} : row'[j] = row[j]
      BY <1>1, <1>5 DEF WaiveEvent, Row
    <2>2. RowsFit /\ PaidFit BY <2>1 DEF RowsFit, PaidFit
    <2> QED BY <1>2, <1>3, <1>5, <2>2, IntentsFitStay, CasesFitStay, MoneyKept DEF WaiveEvent
  <1>6. CASE WaiveIntent(c)
    <2>1. call[c].pi \in Intents BY <1>6, Called DEF WaiveIntent, SlotReal
    <2>2. \A q \in Intents : intent'[q].now = intent[q].now
                             \/ (intent[q].now = "requires_action" /\ intent'[q].now = "canceled")
      BY <1>1, <1>6, <2>1 DEF WaiveIntent, Intent
    <2>3. NoneMade /\ RefundsKept BY <2>2 DEF NoneMade, RefundsKept
    <2>4. UNCHANGED row BY <1>6 DEF WaiveIntent
    <2> QED BY <1>2, <1>3, <2>3, <2>4, RowsFitStay, CasesFitStay, MoneyKept
  <1> QED BY <1>4, <1>5, <1>6

(* A row whose status a case sets is disputed. *)
LEMMA RulingKeeps ==
  ASSUME Inv, MoneyFits, NEW c \in Calls, Lone(c),
         OpenWrite(c) \/ TriageWrite(c) \/ ResolveWrite(c)
  PROVE  MoneyFits'
  <1>1. row \in [Keys -> Row] /\ dispute \in [Cases -> Dispute]
    BY DEF Inv, TypeOK, RowsTyped
  <1>2. SlotReal(call[c]) /\ call[c].key \in Keys BY Called DEF Slot
  <1>3. call[c].at # "attach" /\ HeardFit(c) /\ UNCHANGED intent /\ SlotGood(call[c])'
    BY HeardFitStays, IdleIsGood DEF OpenWrite, TriageWrite, ResolveWrite
  <1>4. ASSUME NEW k \in Keys, NEW d \in Opened', dispute'[d].about = k,
               \A j \in Keys \ {k} : row'[j] = row[j],
               row'[k].att = row[k].att, row'[k].amt = row[k].amt, row'[k].pi = row[k].pi,
               row'[k].status = "PAID" => row[k].status = "PAID"
        PROVE  RowsFit /\ PaidFit
    <2>1. ~Undisputed(k)' BY <1>4 DEF Undisputed
    <2> QED BY <1>4, <2>1 DEF RowsFit, PaidFit
  <1>5. CASE OpenWrite(c)
    <2> DEFINE k == call[c].key  d == call[c].case
    <2>1. CASE dispute[d].status # "NONE"
      BY <1>3, <1>5, <2>1, QuietKept DEF OpenWrite
    <2>2. CASE dispute[d].status = "NONE"
      <3>1. d \in Cases BY <1>2, <1>5 DEF OpenWrite, SlotReal
      <3>2. /\ dispute'[d].about = k /\ d \in Opened'
            /\ \A e \in Cases \ {d} : dispute'[e] = dispute[e]
        BY <1>1, <1>5, <2>2, <3>1 DEF OpenWrite, Opened
      <3>3. /\ row'[k].att = row[k].att /\ row'[k].amt = row[k].amt
            /\ row'[k].pi = row[k].pi /\ row'[k].status = "DISPUTED"
            /\ \A j \in Keys \ {k} : row'[j] = row[j]
        BY <1>1, <1>2, <1>5, <2>2 DEF OpenWrite, Row
      <3>4. RowsFit /\ PaidFit BY <1>2, <1>4, <3>2, <3>3
      <3>5. CasesStand BY <2>2, <3>2 DEF CasesStand, Opened
      <3> QED BY <1>3, <3>4, <3>5, IntentsFitStay, MoneyKept
    <2> QED BY <2>1, <2>2
  <1>6. CASE TriageWrite(c)
    <2>1. call[c].case \in Cases /\ call[c].case \in Opened /\ call[c].saw # "NONE"
      BY <1>2, <1>6 DEF TriageWrite, SlotReal, Opened
    <2>2. PICK st : st # "NONE" /\ dispute' = [dispute EXCEPT ![call[c].case].status = st]
      BY <1>6, <2>1 DEF TriageWrite
    <2>3. CasesStand BY <1>1, <2>1, <2>2 DEF CasesStand, Opened, Dispute
    <2>4. UNCHANGED row BY <1>6 DEF TriageWrite
    <2> QED BY <1>3, <2>3, <2>4, RowsFitStay, IntentsFitStay, MoneyKept
  <1>7. CASE ResolveWrite(c)
    <2> DEFINE d == call[c].case  k == dispute[d].about
    <2>1. d \in Opened /\ d \in Cases /\ k \in Keys
      BY <1>1, <1>2, <1>7 DEF ResolveWrite, SlotReal, Opened, Dispute
    <2>2. PICK ruling, waives :
            /\ dispute' = [dispute EXCEPT ![d].status = "RESOLVED", ![d].ruling = ruling]
            /\ row' = [row EXCEPT ![k].status = RuledStatus(ruling, waives, row[k].status)]
      BY <1>7 DEF ResolveWrite
    <2>3. CasesStand BY <1>1, <2>1, <2>2 DEF CasesStand, Opened, Dispute
    <2>4. /\ row'[k].att = row[k].att /\ row'[k].amt = row[k].amt /\ row'[k].pi = row[k].pi
          /\ row'[k].status \in {row[k].status, "WAIVED", "PENDING_PAYMENT"}
          /\ \A j \in Keys \ {k} : row'[j] = row[j]
      BY <1>1, <2>1, <2>2 DEF Row, RuledStatus
    <2>5. d \in Opened' /\ dispute'[d].about = k BY <2>1, <2>3 DEF CasesStand
    <2>6. RowsFit /\ PaidFit BY <1>4, <2>1, <2>4, <2>5
    <2> QED BY <1>3, <2>3, <2>6, IntentsFitStay, MoneyKept
  <1> QED BY <1>5, <1>6, <1>7

-----------------------------------------------------------------------------
(* Steps of the customer and of the offices. *)
LEMMA OutsideKeeps ==
  ASSUME Inv, MoneyFits,
         \/ Dwell \/ UNCHANGED vars
         \/ \E p \in Intents : Confirm(p)
         \/ \E d \in Cases : Escalate(d) \/ CloseLocal(d)
  PROVE  MoneyFits'
  <1>1. dispute \in [Cases -> Dispute] /\ intent \in [Intents -> Intent]
    BY DEF Inv, TypeOK, RowsTyped, StripeTyped
  <1>2. UNCHANGED <<row, call, heard>> BY DEF Dwell, Confirm, Escalate, CloseLocal, vars
  <1>3. NoneMade /\ RefundsKept
    <2>1. CASE UNCHANGED intent BY <2>1, IntentsFitStay
    <2>2. ASSUME NEW p \in Intents, Confirm(p) PROVE NoneMade /\ RefundsKept
      <3>1. \A q \in Intents : intent'[q].now = intent[q].now
                               \/ (intent[q].now = "requires_action" /\ intent'[q].now = "succeeded")
        BY <1>1, <2>2 DEF Confirm, Intent
      <3> QED BY <3>1 DEF NoneMade, RefundsKept
    <2> QED BY <2>1, <2>2 DEF Dwell, Escalate, CloseLocal, vars
  <1>4. CasesStand
    <2>1. CASE UNCHANGED dispute BY <2>1, CasesFitStay
    <2>2. ASSUME NEW d \in Cases, Escalate(d) \/ CloseLocal(d) PROVE CasesStand
      <3>1. PICK st : st # "NONE" /\ dispute' = [dispute EXCEPT ![d].status = st]
        BY <2>2 DEF Escalate, CloseLocal
      <3> QED BY <1>1, <3>1 DEF CasesStand, Opened, Dispute
    <2> QED BY <2>1, <2>2 DEF Dwell, Confirm, vars
  <1>5. OneIntent' BY <1>2, <1>3 DEF MoneyFits, OneIntent, NoneMade
  <1>6. RowsFit /\ PaidFit BY <1>2, RowsFitStay
  <1>7. RowsGood' BY <1>6, RowsGoodKept DEF MoneyFits
  <1>8. ASSUME NEW p \in Intents, WasCaptured(p), Handled(p) PROVE Handled(p)'
    BY <1>3, <1>4, <1>6, <1>8, HandledKept
  <1>9. HeardGood' BY <1>2, <1>8 DEF MoneyFits, HeardGood, Inv, HeardReal
  <1>10. SlotsGood'
    <2> SUFFICES ASSUME NEW c \in Calls, NEW s, s = call[c] PROVE SlotGood(s)'
      BY <1>2 DEF SlotsGood
    <2>1. SlotGood(s) /\ SlotReal(s) BY Called DEF MoneyFits, SlotsGood
    <2>2. s.at = "record" => Handled(s.pi)' BY <1>8, <2>1 DEF SlotGood, SlotReal
    <2> QED BY <1>2, <2>1, <2>2 DEF SlotGood
  <1> QED BY <1>5, <1>7, <1>9, <1>10 DEF MoneyFits

LEMMA FaultsStay ==
  ASSUME Inv, NEW c \in Calls, Receives(c) \/ Steps(c) \/ Crash(c), faults' = 0
  PROVE  faults = 0 /\ ~Crash(c)
  <1>1. faults \in Nat /\ faults + 1 # 0 BY DEF Inv, TypeOK
  <1>2. CASE Receives(c)
    <2>1. call[c].at = "idle" BY <1>2, ReceivesMoves DEF Begins
    <2>2. faults' = faults
      BY <1>2 DEF Receives, SampleRead, ChargeRead, WaiveRead, OpenRead, HookSucceeded,
                  HookFailed, TriageRead, ResolveRead
    <2> QED BY <2>1, <2>2 DEF Crash
  <1>3. CASE Steps(c)
    BY <1>1, <1>3 DEF Crash, Steps, SiblingRead, CreateRow, GrowRow, ChargeLoad, ChargeRetry,
           CreateIntent, CreateIntentThrows, ChargeFail, ChargeAttach, MarkRead, MarkWrite,
           MarkRefund, Record, FailedWrite, WaiveWrite, WaiveEvent, WaiveIntent, OpenWrite,
           TriageWrite, ResolveWrite
  <1>4. ~Crash(c) BY <1>1 DEF Crash
  <1> QED BY <1>2, <1>3, <1>4

LEMMA MoneyStays ==
  ASSUME Inv, OneAtATime, Money, [Next]_vars PROVE Money'
  <1>1. ASSUME NEW c \in Calls, Receives(c) \/ Steps(c) \/ Crash(c) PROVE Money'
    <2> SUFFICES ASSUME Alone' PROVE MoneyFits' BY DEF Money
    <2>1. scope' = scope BY <1>1, ScopeStays
    <2>2. faults' = 0 /\ faults = 0 /\ ~Crash(c) BY <1>1, FaultsStay DEF Alone
    <2>3. Lone(c) /\ MoneyFits BY <1>1, <2>1, <2>2, RunsAlone DEF Alone, Money
    <2>4. CASE Receives(c) BY <2>3, <2>4, RequestsKeep
    <2>5. CASE Steps(c)
      BY <2>2, <2>3, <2>5, BillingKeeps, ChargesKeep, CreatingKeeps, AttachingKeeps,
         BookingKeeps, RecordingKeeps, WaivingKeeps, RulingKeeps DEF Steps
    <2> QED BY <1>1, <2>2, <2>4, <2>5
  <1>2. ASSUME \/ Dwell \/ UNCHANGED vars
               \/ \E p \in Intents : Confirm(p)
               \/ \E d \in Cases : Escalate(d) \/ CloseLocal(d)
        PROVE  Money'
    <2>1. UNCHANGED <<scope, faults>> BY <1>2 DEF Dwell, Confirm, Escalate, CloseLocal, vars
    <2> QED BY <1>2, <2>1, OutsideKeeps DEF Money, Alone
  <1> QED BY <1>1, <1>2 DEF Next

LEMMA InitMoney == Init => Money
  <1> SUFFICES ASSUME Init PROVE MoneyFits BY DEF Money
  <1>1. Idle.at = "idle" BY DEF Idle
  <1>2. SlotsGood BY <1>1 DEF Init, SlotsGood, SlotGood
  <1>3. OneIntent BY DEF Init, OneIntent, Answered
  <1>4. RowsGood BY DEF Init, RowsGood, NoRow
  <1> QED BY <1>2, <1>3, <1>4 DEF Init, MoneyFits, HeardGood

LEMMA SerialInvHolds == Spec => []SerialInv
  <1>1. Init => SerialInv BY InitInv, InitRuled, InitMoney DEF SerialInv
  <1>2. SerialInv /\ [Next]_vars => SerialInv'
    BY StepInv, RuledWaivedStays, MoneyStays DEF SerialInv
  <1> QED BY <1>1, <1>2, PTL DEF Spec

(* One request at a time, a ruling for the sender stands: whatever         *)
(* payment, webhook or crash comes between, the surcharge of a case        *)
(* resolved for the sender stays waived until the case is taken up again.  *)
THEOREM RulingHolds == Spec => []RulingStands
  <1>1. SerialInv => RulingStands
    BY DEF SerialInv, RuledWaived, Ruled, Sole, RulingStands
  <1> QED BY <1>1, SerialInvHolds, PTL

(* One request at a time and no crash, a surcharge that reads PAID after a *)
(* first charge names an intent for the very amount it shows: a row that   *)
(* grows is not charged, and one that is charged does not grow.            *)
THEOREM PaidForTheAmount == Spec => []PaidInFull
  <1>1. SerialInv => PaidInFull
    <2> SUFFICES ASSUME MoneyFits, NEW k \in Keys, row[k].status = "PAID", row[k].att = 0
                 PROVE  row[k].pi.amt = row[k].amt
      BY DEF SerialInv, Money, PaidInFull
    <2>1. row[k].pi = [key |-> k, amt |-> row[k].amt, att |-> 0] BY DEF MoneyFits, RowsGood
    <2> QED BY <2>1
  <1> QED BY <1>1, SerialInvHolds, PTL

(* One request at a time and no crash, a waived surcharge keeps nothing:   *)
(* when the webhook of a capture was recorded, that capture was refunded.  *)
THEOREM WaiverPaysBack == Spec => []WaivedKeepsNothing
  <1>1. SerialInv => WaivedKeepsNothing
    BY DEF SerialInv, Money, MoneyFits, HeardGood, Handled, WaivedKeepsNothing, Captured
  <1> QED BY <1>1, SerialInvHolds, PTL

-----------------------------------------------------------------------------
(* The sum over a finite set, as MapThenSumSet computes it: one element    *)
(* after the other.  That the computation is defined, and what it returns, *)
(* follows by looking at a smallest set for which it would not be so.      *)
AnyOf(s) == CHOOSE x \in s : TRUE
Sums(f, t, S) ==
    t = [s \in SUBSET S |-> IF s = {} THEN 0 ELSE f[AnyOf(s)] + t[s \ {AnyOf(s)}]]

LEMMA Smallest ==
  ASSUME NEW S, IsFiniteSet(S), NEW B, B \subseteq SUBSET S, B # {}
  PROVE  \E s \in B : \A u \in B : u \subseteq s => u = s
  <1>1. IsWellFoundedOn(StrictSubsetOrdering(S), SUBSET S)
    BY FS_StrictSubsetOrderingWellFounded, FS_FiniteSubsetsOfFinite
  <1>2. PICK s \in B : \A u \in B : ~(<<u, s>> \in StrictSubsetOrdering(S))
    <2> DEFINE R == StrictSubsetOrdering(S)  P == SUBSET S
    <2> HIDE DEF R, P
    <2> SUFFICES \E s \in B : \A u \in B : ~(<<u, s>> \in R) BY DEF R
    <2> QED BY <1>1, WFMin DEF R, P
  <1> QED BY <1>2 DEF StrictSubsetOrdering

LEMMA AnyIsIn == ASSUME NEW s, s # {} PROVE AnyOf(s) \in s
  BY DEF AnyOf

LEMMA SumOfNext ==
  ASSUME NEW f, NEW t, NEW S, Sums(f, t, S), NEW s \in SUBSET S
  PROVE  /\ s = {} => t[s] = 0
         /\ s # {} => t[s] = f[AnyOf(s)] + t[s \ {AnyOf(s)}]
  BY DEF Sums

LEMMA SumsAgree ==
  ASSUME NEW f, NEW S, NEW t, NEW T, NEW u, IsFiniteSet(S), Sums(f, t, S), Sums(f, u, T),
         NEW s \in SUBSET S, s \subseteq T
  PROVE  t[s] = u[s]
  <1> DEFINE Bad == {r \in SUBSET S : r \subseteq T /\ t[r] # u[r]}
  <1> SUFFICES ASSUME Bad # {} PROVE FALSE OBVIOUS
  <1>1. PICK r \in Bad : \A q \in Bad : q \subseteq r => q = r
    <2>1. Bad \subseteq SUBSET S OBVIOUS
    <2> HIDE DEF Bad
    <2> QED BY <2>1, Smallest
  <1> DEFINE x == AnyOf(r)
  <1>2. r # {} BY SumOfNext
  <1>3. x \in r BY <1>2, AnyIsIn
  <1>4. t[r \ {x}] = u[r \ {x}] BY <1>1, <1>3
  <1>5. t[r] = f[x] + t[r \ {x}] BY <1>2, SumOfNext
  <1>6. u[r] = f[x] + u[r \ {x}]
    <2>1. r \in SUBSET T BY <1>1
    <2> QED BY <1>2, <2>1, SumOfNext
  <1> QED BY <1>1, <1>4, <1>5, <1>6

LEMMA SumsDefined ==
  ASSUME NEW f, NEW S, IsFiniteSet(S) PROVE \E t : Sums(f, t, S)
  <1> DEFINE Bad == {T \in SUBSET S : ~\E t : Sums(f, t, T)}
  <1> SUFFICES ASSUME Bad # {} PROVE FALSE OBVIOUS
  <1>1. PICK T \in Bad : \A U \in Bad : U \subseteq T => U = T
    <2>1. Bad \subseteq SUBSET S OBVIOUS
    <2> HIDE DEF Bad
    <2> QED BY <2>1, Smallest
  <1> DEFINE sum(U) == CHOOSE t : Sums(f, t, U)
  <1>2. ASSUME NEW U \in SUBSET T, U # T PROVE Sums(f, sum(U), U) /\ IsFiniteSet(U)
    <2>1. U \in SUBSET S /\ IsFiniteSet(U) BY FS_Subset
    <2>2. \E t : Sums(f, t, U) BY <1>1, <1>2, <2>1
    <2> QED BY <2>1, <2>2
  <1> HIDE DEF sum
  <1> DEFINE t == [s \in SUBSET T |-> IF s = {} THEN 0
                                      ELSE f[AnyOf(s)] + sum(s \ {AnyOf(s)})[s \ {AnyOf(s)}]]
  <1>3. ASSUME NEW U \in SUBSET T, U # T PROVE t[U] = sum(U)[U]
    <2>1. Sums(f, sum(U), U) BY <1>2, <1>3
    <2>2. CASE U = {} BY <2>1, <2>2, SumOfNext
    <2>3. CASE U # {}
      <3> DEFINE x == AnyOf(U)  V == U \ {x}
      <3>1. x \in U BY <2>3, AnyIsIn
      <3>2. V \in SUBSET T /\ V # T /\ V \subseteq U BY <3>1
      <3>3. Sums(f, sum(V), V) /\ IsFiniteSet(V) BY <1>2, <3>2
      <3>4. sum(V)[V] = sum(U)[V] BY <2>1, <3>2, <3>3, SumsAgree
      <3>5. sum(U)[U] = f[x] + sum(U)[V] BY <2>1, <2>3, SumOfNext
      <3>6. t[U] = f[x] + sum(V)[V] BY <2>3
      <3> QED BY <3>4, <3>5, <3>6
    <2> QED BY <2>2, <2>3
  <1>4. \A s \in SUBSET T : s # {} => t[s \ {AnyOf(s)}] = sum(s \ {AnyOf(s)})[s \ {AnyOf(s)}]
    BY <1>3, AnyIsIn
  <1>5. t = [s \in SUBSET T |-> IF s = {} THEN 0 ELSE f[AnyOf(s)] + t[s \ {AnyOf(s)}]]
    BY <1>4
  <1>6. Sums(f, t, T) BY <1>5 DEF Sums
  <1> QED BY <1>1, <1>6

(* A sum is no less than any of its terms, nor than any two of them.       *)
Covers(f, n, s) == /\ n \in Nat
                   /\ \A x \in s : /\ n >= f[x]
                                   /\ \A y \in s \ {x} : n >= f[x] + f[y]
LEMMA SumCovers ==
  ASSUME NEW S, IsFiniteSet(S), NEW f \in [S -> Nat], NEW t, Sums(f, t, S)
  PROVE  Covers(f, t[S], S)
  <1> DEFINE Bad == {s \in SUBSET S : ~Covers(f, t[s], s)}
  <1> SUFFICES ASSUME Bad # {} PROVE FALSE OBVIOUS
  <1>1. PICK s \in Bad : \A u \in Bad : u \subseteq s => u = s
    <2>1. Bad \subseteq SUBSET S OBVIOUS
    <2> HIDE DEF Bad
    <2> QED BY <2>1, Smallest
  <1>2. CASE s = {}
    <2>1. t[s] = 0 BY <1>2, SumOfNext
    <2> QED BY <1>1, <1>2, <2>1 DEF Covers
  <1>3. CASE s # {}
    <2> DEFINE x == AnyOf(s)  r == s \ {x}
    <2>1. x \in s BY <1>3, AnyIsIn
    <2>2. Covers(f, t[r], r) BY <1>1, <2>1
    <2>3. t[s] = f[x] + t[r] BY <1>3, SumOfNext
    <2>4. f[x] \in Nat /\ \A y \in r : f[y] \in Nat BY <2>1
    <2> HIDE DEF x
    <2>5. Covers(f, t[s], s)
      <3>1. t[s] \in Nat BY <2>2, <2>3, <2>4 DEF Covers
      <3>2. ASSUME NEW y \in r PROVE t[s] >= f[y] /\ t[s] >= f[x] + f[y] /\ t[s] >= f[y] + f[x]
        <4>1. t[r] >= f[y] /\ t[r] \in Nat /\ f[y] \in Nat BY <2>2, <2>4 DEF Covers
        <4> QED BY <2>3, <2>4, <4>1
      <3>3. t[s] >= f[x] BY <2>2, <2>3, <2>4 DEF Covers
      <3>4. ASSUME NEW y \in r, NEW z \in r \ {y} PROVE t[s] >= f[y] + f[z]
        <4>1. t[r] >= f[y] + f[z] /\ t[r] \in Nat BY <2>2 DEF Covers
        <4> QED BY <2>3, <2>4, <4>1
      <3> QED BY <2>1, <3>1, <3>2, <3>3, <3>4 DEF Covers
    <2> QED BY <1>1, <2>5
  <1> QED BY <1>2, <1>3

LEMMA KeysFinite == IsFiniteSet(Keys)
  BY SurchargeConstants, FS_Interval DEF Keys

Billed == MapThenSumSet(LAMBDA k : row[k].amt, Keys)
LEMMA BilledCovers ==
  ASSUME Inv PROVE Covers([k \in Keys |-> row[k].amt], Billed, Keys)
  <1> DEFINE f == [k \in Keys |-> row[k].amt]
             sum == CHOOSE t : t = [s \in SUBSET Keys |-> IF s = {} THEN 0 ELSE
                        row[CHOOSE x \in s : TRUE].amt + t[s \ {CHOOSE x \in s : TRUE}]]
  <1>1. Billed = sum[Keys] BY Zenon DEF Billed, MapThenSumSet, MapThenFoldSet
  <1>2. \A t : Sums(f, t, Keys) <=>
               t = [s \in SUBSET Keys |-> IF s = {} THEN 0 ELSE
                        row[CHOOSE x \in s : TRUE].amt + t[s \ {CHOOSE x \in s : TRUE}]]
    <2> SUFFICES ASSUME NEW t PROVE
          [s \in SUBSET Keys |-> IF s = {} THEN 0 ELSE f[AnyOf(s)] + t[s \ {AnyOf(s)}]] =
          [s \in SUBSET Keys |-> IF s = {} THEN 0 ELSE row[AnyOf(s)].amt + t[s \ {AnyOf(s)}]]
      BY DEF Sums, AnyOf
    <2>1. \A s \in SUBSET Keys : s # {} => f[AnyOf(s)] = row[AnyOf(s)].amt
      BY AnyIsIn
    <2> HIDE DEF f
    <2> QED BY <2>1
  <1>3. \E t : Sums(f, t, Keys) BY KeysFinite, SumsDefined
  <1>4. Sums(f, sum, Keys)
    <2>1. \E t : t = [s \in SUBSET Keys |-> IF s = {} THEN 0 ELSE
                        row[CHOOSE x \in s : TRUE].amt + t[s \ {CHOOSE x \in s : TRUE}]]
      <3>1. PICK t : Sums(f, t, Keys) BY <1>3
      <3>2. t = [s \in SUBSET Keys |-> IF s = {} THEN 0 ELSE
                     row[CHOOSE x \in s : TRUE].amt + t[s \ {CHOOSE x \in s : TRUE}]]
        BY <1>2, <3>1
      <3> WITNESS t
      <3> QED BY <3>2
    <2>2. sum = [s \in SUBSET Keys |-> IF s = {} THEN 0 ELSE
                        row[CHOOSE x \in s : TRUE].amt + sum[s \ {CHOOSE x \in s : TRUE}]]
      BY <2>1
    <2> HIDE DEF f, sum
    <2> QED BY <1>2, <2>2
  <1>5. f \in [Keys -> Nat]
    BY SurchargeConstants DEF Inv, TypeOK, RowsTyped, Row
  <1>6. Covers(f, sum[Keys], Keys)
    <2> HIDE DEF f, sum
    <2> QED BY <1>4, <1>5, KeysFinite, SumCovers
  <1> HIDE DEF sum
  <1> QED BY <1>1, <1>6

-----------------------------------------------------------------------------
(* One request at a time: what is billed.  A sibling row and the base row  *)
(* together cover the dwell the sibling is named by, because the base row  *)
(* never shrinks; a sample on its way to write knows as much.  A row that  *)
(* reads PAID names an intent, so a longer dwell has outgrown it.          *)
SiblingsCover == \A k \in Keys \ {0} : Exists(k) => row[k].amt + row[0].amt >= k
PaidNamed     == \A k \in Keys : row[k].status = "PAID" => row[k].pi # NoIntent
BaseBlank     == ~Exists(0) => row[0].amt = 0
SlotBills(s) ==
    /\ s.at \in {"sibling", "create", "grow"} /\ s.key # 0 => s.amt + row[0].amt >= s.key
    /\ s.at = "grow" /\ s.key = 0 => s.amt >= row[0].amt
    /\ s.at = "retry" => row[s.key].status # "PAID"
SlotsBill    == \A c \in Calls : SlotBills(call[c])
BillingFits  == SiblingsCover /\ PaidNamed /\ BaseBlank /\ SlotsBill
Billing      == scope.width = 1 => BillingFits
SilentLabels == Labels \ {"sibling", "create", "grow", "retry"}

(* What a step may do to the rows. *)
BillFit ==
    /\ row'[0].amt >= row[0].amt /\ (~Exists(0)' => row'[0].amt = 0)
    /\ \A k \in Keys :
         /\ Exists(k)' => \/ Exists(k) /\ row'[k].amt = row[k].amt
                          \/ k # 0 => row'[k].amt + row[0].amt >= k
         /\ row'[k].status = "PAID" => row'[k].pi # NoIntent

LEMMA KeyZero == 0 \in Keys BY SurchargeConstants DEF Keys

LEMMA AmountsTyped ==
  ASSUME Inv PROVE \A k \in Keys : k \in Nat /\ row[k] \in Row /\ row[k].amt \in Nat
  <1>1. \A k \in Keys : row[k] \in Row BY DEF Inv, TypeOK, RowsTyped
  <1>2. \A k \in Keys : k \in Nat BY SurchargeConstants DEF Keys
  <1>3. \A r \in Row : r.amt \in Nat BY SurchargeConstants DEF Row
  <1> QED BY <1>1, <1>2, <1>3

LEMMA BillingKept ==
  ASSUME Inv, Inv', BillingFits, BillFit, NEW c \in Calls, Lone(c), SlotBills(call[c])'
  PROVE  BillingFits'
  <1>1. SiblingsCover'
    <2> SUFFICES ASSUME NEW k \in Keys \ {0}, Exists(k)' PROVE row'[k].amt + row'[0].amt >= k
      BY DEF SiblingsCover
    <2>1. /\ k \in Nat /\ row[k].amt \in Nat /\ row[0].amt \in Nat
          /\ row'[k].amt \in Nat /\ row'[0].amt \in Nat
      BY KeyZero, AmountsTyped DEF Inv, TypeOK, RowsTyped, Row, Keys
    <2>2. row'[k].amt + row[0].amt >= k BY DEF BillFit, BillingFits, SiblingsCover
    <2> QED BY <2>1, <2>2 DEF BillFit
  <1>2. PaidNamed' /\ BaseBlank' BY DEF BillFit, PaidNamed, BaseBlank
  <1>3. \A d \in Calls \ {c} : call'[d].at = "idle" BY DEF Lone, Moved
  <1>4. \A d \in Calls \ {c} : SlotBills(call[d])' BY <1>3 DEF SlotBills
  <1> QED BY <1>1, <1>2, <1>4 DEF BillingFits, SlotsBill

LEMMA SilentBills == ASSUME NEW s, s.at \in SilentLabels PROVE SlotBills(s)'
  BY DEF SilentLabels, SlotBills

(* A step that leaves the amounts and which rows there are. *)
AmountsStay == \A k \in Keys :
    /\ row'[k].amt = row[k].amt /\ (Exists(k)' <=> Exists(k))
    /\ row'[k].status = "PAID" => \/ row[k].status = "PAID" /\ row'[k].pi = row[k].pi
                                  \/ row'[k].pi # NoIntent
LEMMA StayFits == ASSUME Inv, BillingFits, AmountsStay PROVE BillFit
  <1>1. row[0].amt \in Nat BY KeyZero, AmountsTyped
  <1> QED BY <1>1, KeyZero DEF AmountsStay, BillFit, BillingFits, BaseBlank, PaidNamed

(* Where each step of a request goes. *)
LEMMA GoesSilent ==
  ASSUME Inv, NEW c \in Calls, NEW l \in SilentLabels, Goes(c, [call[c] EXCEPT !.at = l])
  PROVE  SlotBills(call[c])'
  <1>1. call \in [Calls -> Slot] /\ call[c] \in Slot BY DEF Inv, TypeOK, SlotsTyped
  <1>2. call'[c].at = l BY <1>1 DEF Goes, Slot
  <1>3. call'[c].at \in SilentLabels BY <1>2
  <1> QED BY <1>3 DEF SilentLabels, SlotBills

LEMMA EndsSilent == ASSUME Inv, NEW c \in Calls, Ends(c) PROVE SlotBills(call[c])'
  <1>1. call'[c].at = "idle" BY DEF Ends, Idle, Inv, TypeOK, SlotsTyped
  <1> QED BY <1>1 DEF SlotBills

LEMMA BookedSilent == ASSUME Inv, NEW c \in Calls, Booked(c) PROVE SlotBills(call[c])'
  <1>1. "record" \in SilentLabels BY DEF SilentLabels, Labels
  <1> QED BY <1>1, EndsSilent, GoesSilent DEF Booked

(* Requests that arrive: only a sample knows an amount. *)
LEMMA ArrivalsBill ==
  ASSUME Inv, BillingFits, NEW c \in Calls, Receives(c)
  PROVE  SlotBills(call[c])' /\ row' = row
  <1>1. call \in [Calls -> Slot] /\ Idle \in Slot BY IdleReal DEF Inv, TypeOK, SlotsTyped
  <1>2. row' = row
    BY DEF Receives, SampleRead, ChargeRead, WaiveRead, OpenRead, HookSucceeded,
           HookFailed, TriageRead, ResolveRead
  <1>3. ASSUME call'[c].at \in SilentLabels PROVE SlotBills(call[c])'
    BY <1>3 DEF SilentLabels, SlotBills
  <1>4. CASE SampleRead(c)
    <2> DEFINE t == [Idle EXCEPT !.amt = waited]
               create == [t EXCEPT !.at = "create"]
               grow == [t EXCEPT !.at = "grow", !.att = row[0].att]
               sibling == [t EXCEPT !.at = "sibling", !.key = waited, !.amt = waited - row[0].amt]
    <2>1. waited \in Nat /\ row[0].amt \in Nat
      BY SurchargeConstants, KeyZero, AmountsTyped DEF Inv, TypeOK
    <2>2. CASE Begins(c, create)
      <3>1. call'[c].at = "create" /\ call'[c].key = 0 BY <1>1, <2>2 DEF Begins, Slot, Idle
      <3> QED BY <1>2, <3>1 DEF SlotBills
    <2>3. CASE Growable(0, waited) /\ Begins(c, grow)
      <3>1. call'[c].at = "grow" /\ call'[c].key = 0 /\ call'[c].amt = waited
        BY <1>1, <2>3 DEF Begins, Slot, Idle
      <3> QED BY <1>2, <2>1, <2>3, <3>1 DEF SlotBills, Growable
    <2>4. CASE Outgrown(waited) /\ Begins(c, sibling)
      <3>1. /\ call'[c].at = "sibling" /\ call'[c].key = waited
            /\ call'[c].amt = waited - row[0].amt
        BY <1>1, <2>4 DEF Begins, Slot, Idle
      <3>2. call'[c].amt + row[0].amt >= call'[c].key BY <2>1, <3>1
      <3> QED BY <1>2, <3>1, <3>2 DEF SlotBills
    <2> QED BY <1>4, <2>2, <2>3, <2>4 DEF SampleRead
  <1>5. ASSUME NEW k \in Keys, ChargeRead(c, k) PROVE SlotBills(call[c])'
    <2>1. call'[c].at = "load" BY <1>1, <1>5 DEF ChargeRead, Begins, Slot
    <2> QED BY <1>3, <2>1 DEF SilentLabels, Labels
  <1>6. ASSUME NEW k \in Keys, WaiveRead(c, k) PROVE SlotBills(call[c])'
    <2>1. call'[c].at = "waive" BY <1>1, <1>6 DEF WaiveRead, Begins, Slot
    <2> QED BY <1>3, <2>1 DEF SilentLabels, Labels
  <1>7. ASSUME NEW k \in Keys, OpenRead(c, k) PROVE SlotBills(call[c])'
    <2> DEFINE n == Cardinality(Opened) + 1
    <2> HIDE DEF n
    <2>1. call'[c].at = "open" BY <1>1, <1>7 DEF OpenRead, Begins, Slot, n
    <2> QED BY <1>3, <2>1 DEF SilentLabels, Labels
  <1>8. ASSUME NEW p \in Intents, HookSucceeded(c, p) PROVE SlotBills(call[c])'
    <2>1. call'[c].at = "mark" BY <1>1, <1>8 DEF HookSucceeded, Begins, Slot
    <2> QED BY <1>3, <2>1 DEF SilentLabels, Labels
  <1>9. ASSUME NEW p \in Intents, HookFailed(c, p) PROVE SlotBills(call[c])'
    <2>1. call'[c].at = "failed" BY <1>1, <1>9 DEF HookFailed, Begins, Slot
    <2> QED BY <1>3, <2>1 DEF SilentLabels, Labels
  <1>10. ASSUME NEW d \in Cases, TriageRead(c, d) PROVE SlotBills(call[c])'
    <2>1. call'[c].at = "triage" BY <1>1, <1>10 DEF TriageRead, Begins, Slot
    <2> QED BY <1>3, <2>1 DEF SilentLabels, Labels
  <1>11. ASSUME NEW d \in Cases, NEW by, ResolveRead(c, d, by) PROVE SlotBills(call[c])'
    <2>1. call'[c].at = "resolve" BY <1>1, <1>11 DEF ResolveRead, Begins, Slot
    <2> QED BY <1>3, <2>1 DEF SilentLabels, Labels
  <1> QED BY <1>2, <1>4, <1>5, <1>6, <1>7, <1>8, <1>9, <1>10, <1>11 DEF Receives

(* Steps that bill. *)
LEMMA SamplesBill ==
  ASSUME Inv, BillingFits, NEW c \in Calls, SiblingRead(c) \/ CreateRow(c) \/ GrowRow(c)
  PROVE  SlotBills(call[c])' /\ BillFit
  <1> DEFINE k == call[c].key
  <1>1. /\ call \in [Calls -> Slot] /\ row \in [Keys -> Row] /\ k \in Keys /\ k \in Nat
        /\ call[c].amt \in Nat /\ row[0].amt \in Nat /\ SlotBills(call[c]) /\ SlotReal(call[c])
    BY Called, KeyZero, AmountsTyped, SurchargeConstants
    DEF Inv, TypeOK, SlotsTyped, RowsTyped, Slot, Keys, BillingFits, SlotsBill
  <1>2. CASE SiblingRead(c)
    <2>1. row' = row BY <1>2 DEF SiblingRead
    <2>2. BillFit BY <2>1, StayFits DEF AmountsStay, Exists
    <2>3. k # 0 => call[c].amt + row[0].amt >= k BY <1>1, <1>2 DEF SiblingRead, SlotBills
    <2>4. CASE Goes(c, [call[c] EXCEPT !.at = "create"])
      <3>1. call'[c].at = "create" /\ call'[c].key = k /\ call'[c].amt = call[c].amt
        BY <1>1, <2>4 DEF Goes, Slot
      <3>2. call'[c].key # 0 => call'[c].amt + row'[0].amt >= call'[c].key BY <2>1, <2>3, <3>1
      <3> QED BY <2>2, <3>1, <3>2 DEF SlotBills
    <2>5. CASE /\ Growable(k, call[c].amt)
               /\ Goes(c, [call[c] EXCEPT !.at = "grow", !.att = row[k].att])
      <3>1. call'[c].at = "grow" /\ call'[c].key = k /\ call'[c].amt = call[c].amt
        BY <1>1, <2>5 DEF Goes, Slot
      <3>2. call'[c].key # 0 => call'[c].amt + row'[0].amt >= call'[c].key BY <2>1, <2>3, <3>1
      <3>3. k = 0 => call[c].amt >= row[0].amt BY <1>1, <2>5 DEF Growable
      <3>4. call'[c].key = 0 => call'[c].amt >= row'[0].amt BY <2>1, <3>1, <3>3
      <3> QED BY <2>2, <3>1, <3>2, <3>4 DEF SlotBills
    <2>6. CASE Ends(c) BY <2>2, <2>6, EndsSilent
    <2> QED BY <1>2, <2>4, <2>5, <2>6 DEF SiblingRead
  <1>3. CASE CreateRow(c)
    <2>1. SlotBills(call[c])' BY <1>3, EndsSilent DEF CreateRow
    <2>2. CASE Exists(k) BY <1>3, <2>1, <2>2, StayFits DEF CreateRow, AmountsStay, Exists
    <2>3. CASE ~Exists(k)
      <3>1. /\ row'[k].amt = call[c].amt /\ row'[k].status = "PENDING_PAYMENT"
            /\ \A j \in Keys \ {k} : row'[j] = row[j]
        BY <1>1, <1>3, <2>3 DEF CreateRow, NoRow
      <3>2. k # 0 => call[c].amt + row[0].amt >= k BY <1>1, <1>3 DEF CreateRow, SlotBills
      <3>3. row'[0].amt >= row[0].amt /\ (~Exists(0)' => row'[0].amt = 0)
        <4>1. CASE k = 0
          <5>1. row[0].amt = 0 BY <2>3, <4>1 DEF BillingFits, BaseBlank
          <5> QED BY <1>1, <3>1, <4>1, <5>1 DEF Exists
        <4>2. CASE k # 0
          <5>1. row'[0] = row[0] BY <3>1, <4>2, KeyZero
          <5> QED BY <1>1, <5>1 DEF Exists, BillingFits, BaseBlank
        <4> QED BY <4>1, <4>2
      <3>4. ASSUME NEW j \in Keys
            PROVE  /\ Exists(j)' => \/ Exists(j) /\ row'[j].amt = row[j].amt
                                    \/ j # 0 => row'[j].amt + row[0].amt >= j
                   /\ row'[j].status = "PAID" => row'[j].pi # NoIntent
        <4>1. CASE j = k BY <3>1, <3>2, <4>1
        <4>2. CASE j # k
          <5>1. row'[j] = row[j] BY <3>1, <4>2
          <5> QED BY <5>1 DEF Exists, BillingFits, PaidNamed
        <4> QED BY <4>1, <4>2
      <3> QED BY <2>1, <3>3, <3>4 DEF BillFit
    <2> QED BY <2>2, <2>3
  <1>4. CASE GrowRow(c)
    <2>1. SlotBills(call[c])' BY <1>4, EndsSilent DEF GrowRow
    <2>2. /\ row'[k].amt = call[c].amt /\ row'[k].status = row[k].status
          /\ row'[k].pi = row[k].pi /\ \A j \in Keys \ {k} : row'[j] = row[j]
      BY <1>1, <1>4 DEF GrowRow, Row
    <2>3. /\ k # 0 => call[c].amt + row[0].amt >= k
          /\ k = 0 => call[c].amt >= row[0].amt
      BY <1>1, <1>4 DEF GrowRow, SlotBills
    <2>4. Exists(k) BY <1>1, <1>4 DEF GrowRow, SlotReal
    <2>5. row'[0].amt >= row[0].amt /\ (~Exists(0)' => row'[0].amt = 0)
      <3>1. CASE k = 0 BY <1>1, <2>2, <2>3, <2>4, <3>1 DEF Exists
      <3>2. CASE k # 0
        <4>1. row'[0] = row[0] BY <2>2, <3>2, KeyZero
        <4> QED BY <1>1, <4>1 DEF Exists, BillingFits, BaseBlank
      <3> QED BY <3>1, <3>2
    <2>6. ASSUME NEW j \in Keys
          PROVE  /\ Exists(j)' => \/ Exists(j) /\ row'[j].amt = row[j].amt
                                  \/ j # 0 => row'[j].amt + row[0].amt >= j
                 /\ row'[j].status = "PAID" => row'[j].pi # NoIntent
      <3>1. CASE j = k BY <2>2, <2>3, <3>1 DEF BillingFits, PaidNamed
      <3>2. CASE j # k
        <4>1. row'[j] = row[j] BY <2>2, <3>2
        <4> QED BY <4>1 DEF Exists, BillingFits, PaidNamed
      <3> QED BY <3>1, <3>2
    <2> QED BY <2>1, <2>5, <2>6 DEF BillFit
  <1> QED BY <1>2, <1>3, <1>4

(* Steps that charge, book or waive write no amount; a retry drops the     *)
(* intent of a row that is not PAID.                                       *)
LEMMA RowKeepsAmounts ==
  ASSUME Inv, NEW k \in Keys, NEW r \in Row, row' = [row EXCEPT ![k] = r], r.amt = row[k].amt,
         (r.status # "NONE") <=> Exists(k),
         r.status = "PAID" => r.pi # NoIntent \/ (row[k].status = "PAID" /\ r.pi = row[k].pi)
  PROVE  AmountsStay
  <1>1. row \in [Keys -> Row] BY DEF Inv, TypeOK, RowsTyped
  <1>2. row'[k] = r /\ \A j \in Keys \ {k} : row'[j] = row[j] BY <1>1
  <1>3. ASSUME NEW j \in Keys
        PROVE  /\ row'[j].amt = row[j].amt /\ (Exists(j)' <=> Exists(j))
               /\ row'[j].status = "PAID" => \/ row[j].status = "PAID" /\ row'[j].pi = row[j].pi
                                             \/ row'[j].pi # NoIntent
    <2>1. CASE j = k BY <1>2, <2>1 DEF Exists
    <2>2. CASE j # k
      <3>1. row'[j] = row[j] BY <1>2, <2>2
      <3> QED BY <3>1 DEF Exists
    <2> QED BY <2>1, <2>2
  <1> QED BY <1>3 DEF AmountsStay

LEMMA ChargesBill ==
  ASSUME Inv, Inv', BillingFits, NEW c \in Calls,
         ChargeLoad(c) \/ ChargeRetry(c) \/ ChargeFail(c) \/ ChargeAttach(c)
  PROVE  SlotBills(call[c])' /\ BillFit
  <1> DEFINE k == call[c].key  p == call[c].pi
  <1>1. /\ call \in [Calls -> Slot] /\ row \in [Keys -> Row] /\ row' \in [Keys -> Row]
        /\ k \in Keys /\ SlotBills(call[c]) /\ SlotReal(call[c])
    BY Called DEF Inv, TypeOK, SlotsTyped, RowsTyped, Slot, BillingFits, SlotsBill
  <1>2. CASE ChargeLoad(c)
    <2>1. row' = row BY <1>2 DEF ChargeLoad
    <2>2. BillFit BY <2>1, StayFits DEF AmountsStay, Exists
    <2>3. ASSUME NEW l, NEW att, l = "retry" => row[k].status # "PAID", l \in {"retry", "pay"},
                 Goes(c, Snapshot(c, l, k, att))
          PROVE  SlotBills(call[c])'
      <3>1. call'[c].at = l /\ call'[c].key = k BY <1>1, <2>3 DEF Goes, Snapshot, Slot
      <3> QED BY <2>1, <2>3, <3>1 DEF SlotBills
    <2>4. CASE Ends(c) BY <2>2, <2>4, EndsSilent
    <2>5. CASE row[k].status \in {"PENDING_PAYMENT", "DISPUTED"}
               /\ Goes(c, Snapshot(c, "retry", k, row[k].att + 1))
      BY <2>2, <2>3, <2>5
    <2>6. CASE Goes(c, Snapshot(c, "pay", k, row[k].att)) BY <2>2, <2>3, <2>6
    <2> QED BY <1>2, <2>4, <2>5, <2>6 DEF ChargeLoad
  <1>3. CASE ChargeRetry(c)
    <2>1. "pay" \in SilentLabels BY DEF SilentLabels, Labels
    <2>2. SlotBills(call[c])' BY <1>3, <2>1, GoesSilent DEF ChargeRetry
    <2>3. PICK r : r = [row[k] EXCEPT !.ev = "PENDING", !.pi = NoIntent, !.att = call[c].att]
      OBVIOUS
    <2>4. row' = [row EXCEPT ![k] = r] /\ r.amt = row[k].amt /\ r.status = row[k].status
      BY <1>1, <1>3, <2>3 DEF ChargeRetry, Row
    <2>5. r.status # "PAID" BY <1>1, <1>3, <2>4 DEF ChargeRetry, SlotBills
    <2>6. r \in Row BY <1>1, <2>4
    <2>7. AmountsStay BY <1>1, <2>4, <2>5, <2>6, RowKeepsAmounts DEF Exists
    <2> QED BY <2>2, <2>7, StayFits
  <1>4. CASE ChargeFail(c)
    <2>1. SlotBills(call[c])' BY <1>4, EndsSilent DEF ChargeFail
    <2>2. PICK r : r = [row[k] EXCEPT !.ev = "FAILED", !.att = call[c].att] OBVIOUS
    <2>3. /\ row' = [row EXCEPT ![k] = r]
          /\ r.amt = row[k].amt /\ r.status = row[k].status /\ r.pi = row[k].pi
      BY <1>1, <1>4, <2>2 DEF ChargeFail, Row
    <2>4. r \in Row BY <1>1, <2>3
    <2>5. AmountsStay BY <1>1, <2>3, <2>4, RowKeepsAmounts DEF Exists
    <2> QED BY <2>1, <2>5, StayFits
  <1>5. CASE ChargeAttach(c)
    <2>1. "mark" \in SilentLabels BY DEF SilentLabels, Labels
    <2>2. SlotBills(call[c])' BY <1>5, <2>1, GoesSilent, EndsSilent DEF ChargeAttach
    <2>3. p \in Intents /\ p # NoIntent /\ p.key \in Keys
      BY <1>1, <1>5, NoIntentIsNone DEF ChargeAttach, SlotReal, Intents
    <2>4. PICK e : row' = [row EXCEPT ![p.key].pi = p, ![p.key].ev = e]
      BY <1>5 DEF ChargeAttach
    <2>5. PICK r : r = [row[p.key] EXCEPT !.pi = p, !.ev = e] OBVIOUS
    <2>6. /\ row' = [row EXCEPT ![p.key] = r]
          /\ r.amt = row[p.key].amt /\ r.status = row[p.key].status /\ r.pi = p
      BY <1>1, <2>3, <2>4, <2>5 DEF Row
    <2>7. r \in Row BY <1>1, <2>3, <2>6
    <2>8. AmountsStay BY <2>3, <2>6, <2>7, RowKeepsAmounts DEF Exists
    <2> QED BY <2>2, <2>8, StayFits
  <1> QED BY <1>2, <1>3, <1>4, <1>5

LEMMA BookingsBill ==
  ASSUME Inv, Inv', BillingFits, NEW c \in Calls,
         \/ CreateIntent(c) \/ CreateIntentThrows(c) \/ MarkRead(c) \/ MarkWrite(c)
         \/ MarkRefund(c) \/ Record(c) \/ FailedWrite(c)
  PROVE  SlotBills(call[c])' /\ BillFit
  <1> DEFINE k == call[c].key  p == call[c].pi
  <1>1. /\ call \in [Calls -> Slot] /\ row \in [Keys -> Row] /\ row' \in [Keys -> Row]
        /\ k \in Keys /\ SlotReal(call[c])
    BY Called DEF Inv, TypeOK, SlotsTyped, RowsTyped, Slot
  <1>2. {"attach", "fail", "book", "refund"} \subseteq SilentLabels BY DEF SilentLabels, Labels
  <1>3. ASSUME row' = row PROVE BillFit BY <1>3, StayFits DEF AmountsStay, Exists
  <1>4. CASE CreateIntent(c)
    <2>1. call[c].at = "pay" BY <1>4 DEF CreateIntent
    <2>2. call'[c].at = "attach" BY <1>1, <1>4 DEF CreateIntent, Goes, Slot
    <2>3. SlotBills(call[c])' BY <2>2 DEF SlotBills
    <2> QED BY <1>3, <1>4, <2>3 DEF CreateIntent
  <1>5. CASE CreateIntentThrows(c)
    <2>1. SlotBills(call[c])' BY <1>2, <1>5, GoesSilent DEF CreateIntentThrows
    <2> QED BY <1>3, <1>5, <2>1 DEF CreateIntentThrows
  <1>6. CASE MarkRead(c)
    <2>1. OnCapture(call[c].pi) \in {"done", "book", "refund"} BY DEF OnCapture
    <2>2. SlotBills(call[c])' BY <1>2, <1>6, <2>1, GoesSilent, BookedSilent DEF MarkRead
    <2> QED BY <1>3, <1>6, <2>2 DEF MarkRead
  <1>7. CASE MarkWrite(c)
    <2>1. SlotBills(call[c])' BY <1>7, BookedSilent DEF MarkWrite
    <2>2. p \in Intents /\ p # NoIntent /\ p.key \in Keys /\ Exists(p.key)
      BY <1>1, <1>7, NoIntentIsNone DEF MarkWrite, SlotReal, Intents
    <2>3. PICK r : r = [row[p.key] EXCEPT !.status = "PAID", !.ev = "SUCCEEDED", !.pi = p] OBVIOUS
    <2>4. row' = [row EXCEPT ![p.key] = r] /\ r.amt = row[p.key].amt /\ r.status = "PAID" /\ r.pi = p
      BY <1>1, <1>7, <2>2, <2>3 DEF MarkWrite, Row
    <2>5. r \in Row BY <1>1, <2>2, <2>4
    <2>6. AmountsStay BY <2>2, <2>4, <2>5, RowKeepsAmounts DEF Exists
    <2> QED BY <2>1, <2>6, StayFits
  <1>8. CASE MarkRefund(c)
    <2>1. SlotBills(call[c])' BY <1>8, BookedSilent DEF MarkRefund
    <2> QED BY <1>3, <1>8, <2>1 DEF MarkRefund
  <1>9. CASE Record(c)
    <2>1. SlotBills(call[c])' BY <1>9, EndsSilent DEF Record
    <2> QED BY <1>3, <1>9, <2>1 DEF Record
  <1>10. CASE FailedWrite(c)
    <2>1. SlotBills(call[c])' BY <1>10, EndsSilent DEF FailedWrite
    <2>2. PICK r : r = [row[k] EXCEPT !.ev = "FAILED"] OBVIOUS
    <2>3. /\ row' = [row EXCEPT ![k] = r]
          /\ r.amt = row[k].amt /\ r.status = row[k].status /\ r.pi = row[k].pi
      BY <1>1, <1>10, <2>2 DEF FailedWrite, Row
    <2>4. r \in Row BY <1>1, <2>3
    <2>5. AmountsStay BY <1>1, <2>3, <2>4, RowKeepsAmounts DEF Exists
    <2> QED BY <2>1, <2>5, StayFits
  <1> QED BY <1>4, <1>5, <1>6, <1>7, <1>8, <1>9, <1>10

(* Waivers and disputes write statuses, never PAID. *)
LEMMA OfficesBill ==
  ASSUME Inv, Inv', BillingFits, NEW c \in Calls,
         \/ WaiveWrite(c) \/ WaiveEvent(c) \/ WaiveIntent(c)
         \/ OpenWrite(c) \/ TriageWrite(c) \/ ResolveWrite(c) \/ Crash(c)
  PROVE  SlotBills(call[c])' /\ BillFit
  <1> DEFINE k == call[c].key
  <1>1. /\ call \in [Calls -> Slot] /\ row \in [Keys -> Row] /\ row' \in [Keys -> Row]
        /\ dispute \in [Cases -> Dispute] /\ k \in Keys /\ SlotReal(call[c])
    BY Called DEF Inv, TypeOK, SlotsTyped, RowsTyped, Slot
  <1>2. {"cancelEvent", "cancelIntent"} \subseteq SilentLabels BY DEF SilentLabels, Labels
  <1>3. ASSUME row' = row PROVE BillFit BY <1>3, StayFits DEF AmountsStay, Exists
  <1>4. ASSUME NEW j \in Keys, NEW st, st # "NONE", Exists(j), st = "PAID" => row[j].status = "PAID",
               row' = [row EXCEPT ![j].status = st]
        PROVE  BillFit
    <2>1. PICK r : r = [row[j] EXCEPT !.status = st] OBVIOUS
    <2>2. row' = [row EXCEPT ![j] = r] /\ r.amt = row[j].amt /\ r.status = st /\ r.pi = row[j].pi
      BY <1>1, <1>4, <2>1 DEF Row
    <2>3. r \in Row BY <1>1, <2>2
    <2>4. AmountsStay BY <1>4, <2>2, <2>3, RowKeepsAmounts DEF Exists
    <2> QED BY <2>4, StayFits
  <1>5. CASE WaiveWrite(c)
    <2>1. SlotBills(call[c])' BY <1>2, <1>5, GoesSilent, EndsSilent DEF WaiveWrite
    <2> QED BY <1>1, <1>3, <1>4, <1>5, <2>1 DEF WaiveWrite, Exists
  <1>6. CASE WaiveEvent(c)
    <2>1. SlotBills(call[c])' BY <1>2, <1>6, GoesSilent, EndsSilent DEF WaiveEvent
    <2>2. PICK r : r = [row[k] EXCEPT !.ev = "CANCELLED"] OBVIOUS
    <2>3. /\ row' = [row EXCEPT ![k] = r]
          /\ r.amt = row[k].amt /\ r.status = row[k].status /\ r.pi = row[k].pi
      BY <1>1, <1>6, <2>2 DEF WaiveEvent, Row
    <2>4. r \in Row BY <1>1, <2>3
    <2>5. AmountsStay BY <1>1, <2>3, <2>4, RowKeepsAmounts DEF Exists
    <2> QED BY <2>1, <2>5, StayFits
  <1>7. CASE WaiveIntent(c) BY <1>3, <1>7, EndsSilent DEF WaiveIntent
  <1>8. CASE OpenWrite(c)
    <2>1. SlotBills(call[c])' BY <1>8, EndsSilent DEF OpenWrite
    <2>2. Exists(k) BY <1>1, <1>8 DEF OpenWrite, SlotReal
    <2>3. row' = row \/ row' = [row EXCEPT ![k].status = "DISPUTED"] BY <1>8 DEF OpenWrite
    <2>4. BillFit BY <1>1, <1>3, <1>4, <2>2, <2>3
    <2> QED BY <2>1, <2>4
  <1>9. CASE TriageWrite(c) BY <1>3, <1>9, EndsSilent DEF TriageWrite
  <1>10. CASE ResolveWrite(c)
    <2>1. SlotBills(call[c])' BY <1>10, EndsSilent DEF ResolveWrite
    <2> DEFINE j == dispute[call[c].case].about
    <2>2. call[c].case \in Opened BY <1>1, <1>10 DEF ResolveWrite, SlotReal
    <2>3. j \in Keys /\ Exists(j) BY <1>1, <2>2 DEF Opened, Dispute, Inv, CasesReal
    <2>4. PICK st : /\ row' = [row EXCEPT ![j].status = st]
                    /\ st \in {"WAIVED", "PENDING_PAYMENT", row[j].status}
      BY <1>10 DEF ResolveWrite, RuledStatus
    <2>5. BillFit BY <1>4, <2>3, <2>4 DEF Exists
    <2> QED BY <2>1, <2>5
  <1>11. CASE Crash(c) BY <1>3, <1>11, EndsSilent DEF Crash
  <1> QED BY <1>5, <1>6, <1>7, <1>8, <1>9, <1>10, <1>11

LEMMA BillingStays ==
  ASSUME Inv, Inv', OneAtATime, Billing, [Next]_vars PROVE Billing'
  <1>1. ASSUME NEW c \in Calls, Receives(c) \/ Steps(c) \/ Crash(c) PROVE Billing'
    <2> SUFFICES ASSUME scope'.width = 1 PROVE BillingFits' BY DEF Billing
    <2>1. scope' = scope /\ (scope.width = 1 => Lone(c)) BY <1>1, ScopeStays, RunsAlone
    <2>2. Lone(c) /\ BillingFits BY <2>1 DEF Billing
    <2>3. ASSUME row' = row PROVE BillFit BY <2>2, <2>3, StayFits DEF AmountsStay, Exists
    <2>4. CASE Receives(c) BY <2>2, <2>3, <2>4, ArrivalsBill, BillingKept
    <2>5. CASE Steps(c)
      <3>1. SlotBills(call[c])' /\ BillFit
        BY <2>2, <2>5, SamplesBill, ChargesBill, BookingsBill, OfficesBill DEF Steps
      <3> QED BY <2>2, <3>1, BillingKept
    <2>6. CASE Crash(c) BY <2>2, <2>6, OfficesBill, BillingKept
    <2> QED BY <1>1, <2>4, <2>5, <2>6
  <1>2. ASSUME UNCHANGED <<row, call, scope>> PROVE Billing'
    BY <1>2 DEF Billing, BillingFits, SiblingsCover, PaidNamed, BaseBlank, SlotsBill, SlotBills, Exists
  <1> QED BY <1>1, <1>2 DEF Next, Dwell, Confirm, Escalate, CloseLocal, vars

LEMMA InitBilling == Init => Billing
  <1> SUFFICES ASSUME Init PROVE BillingFits BY DEF Billing
  <1>1. Idle.at = "idle" BY DEF Idle
  <1>2. SlotsBill BY <1>1 DEF Init, SlotsBill, SlotBills
  <1>3. \A k \in Keys : row[k].status = "NONE" /\ row[k].amt = 0 BY DEF Init, NoRow
  <1> QED BY <1>2, <1>3, KeyZero DEF BillingFits, SiblingsCover, PaidNamed, BaseBlank, Exists

(* One request at a time, and however processes die, a sample that finds   *)
(* nothing to add finds the whole dwell billed: createSurcharge leaves no  *)
(* minute between a base row frozen by its charge and its siblings.        *)
THEOREM DwellIsBilled == Spec => []BilledInFull
  <1>1. ASSUME Inv, Billing PROVE BilledInFull
    <2> SUFFICES ASSUME BillingFits, NothingToAdd, row[0].status \in {"PENDING_PAYMENT", "PAID"}
                 PROVE  Billed >= waited
      BY <1>1 DEF BilledInFull, Billing, Billed
    <2> DEFINE f == [k \in Keys |-> row[k].amt]
    <2>1. Covers(f, Billed, Keys) BY <1>1, BilledCovers
    <2>2. waited \in Keys /\ waited \in Nat /\ row[0].amt \in Nat /\ row[waited].amt \in Nat
      BY <1>1, KeyZero, AmountsTyped DEF Inv, TypeOK, Keys
    <2>3. Billed \in Nat /\ Billed >= row[0].amt BY <2>1, KeyZero DEF Covers
    <2>4. CASE row[0].amt >= waited BY <2>2, <2>3, <2>4
    <2>5. CASE waited > row[0].amt
      <3>1. row[0].pi # NoIntent
        BY <2>5, KeyZero DEF NothingToAdd, Growable, BillingFits, PaidNamed
      <3>2. Outgrown(waited) BY <2>5, <3>1 DEF Outgrown
      <3>3. waited # 0 /\ Exists(waited) BY <2>2, <2>5, <3>2 DEF NothingToAdd
      <3>4. row[waited].amt + row[0].amt >= waited
        BY <2>2, <3>3 DEF BillingFits, SiblingsCover
      <3>5. Billed >= f[waited] + f[0] BY <2>1, <2>2, <3>3, KeyZero DEF Covers
      <3> QED BY <2>2, <2>3, <3>4, <3>5, KeyZero
    <2> QED BY <2>2, <2>4, <2>5
  <1>2. SerialInv => Inv /\ OneAtATime BY DEF SerialInv
  <1>3. Inv /\ OneAtATime /\ Billing /\ [Next]_vars /\ Inv' => Billing' BY BillingStays
  <1> QED BY <1>1, <1>2, <1>3, InitBilling, SerialInvHolds, PTL DEF Spec
=============================================================================
