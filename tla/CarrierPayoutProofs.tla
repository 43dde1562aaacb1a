------------------------ MODULE CarrierPayoutProofs ------------------------
(***************************************************************************)
(* For any jobs, carriers, requests, lines, cycles and faults: the payout  *)
(* is type correct, and its ledger never tells of money that did not move. *)
(*                                                                         *)
(* Inv adds to both what a slot carries between its call to Stripe and the *)
(* row it writes about it (SlotBacked), and that a line in use names its   *)
(* job.  One request at a time (OneCall) a void line stays void, because a *)
(* request that read a line as owed finds it owed when it writes           *)
(* (SerialFits), and while answers are heard (AllHeard) a line is paid     *)
(* once, because a line that is owed was not sent (HeardFits).             *)
(*                                                                         *)
(* At the end: the shares that RevenueSplit makes of a fare add up to it,  *)
(* and which policy and package give their percents.                       *)
(***************************************************************************)
EXTENDS CarrierPayout, RevenueSplit, FiniteSetTheorems, TLAPS

JobLabels  == {"complete", "disburse", "dest", "markPaid", "send", "record",
               "adjust", "reverse", "reverseRow", "void",
               "refundCheck", "refundSend", "refundRow"}
LineLabels == {"dest", "markPaid", "send", "record"}

Was(k, s) == \E p \in s : p.key = k

SlotTyped(k, ln) ==
    /\ k \in Slot
    /\ k.at \in JobLabels \/ k.then = "refundCheck" => k.job \in Jobs
    /\ k.at \in LineLabels => k.n \in Lines /\ ln[k.n].job \in Jobs
    /\ k.at = "send" => \A p, q \in k.now : p = q
    /\ k.at = "mark" => k.n \in Cycles /\ \A p \in k.pays : ln[p.line].job \in Jobs
SlotBacked(k, t, s, r, f) ==
    /\ k.at \in {"record", "runRecord"} => \A p \in k.now : Was(p.key, s)
    /\ k.at \in {"reverse", "reverseRow"} => k.n \in DOMAIN t
    /\ k.at = "reverseRow" => t[k.n] \in r
    /\ k.at = "refundRow" => k.job \in f
SlotGood(k, ln, t, s, r, f) == SlotTyped(k, ln) /\ SlotBacked(k, t, s, r, f)

RowsTyped ==
    /\ award \in [Jobs -> {"OPEN", "LOCKED", "COMPLETED"}]
    /\ carrier \in [Jobs -> Carriers \cup {None}]
    /\ trip \in [Jobs -> {"NONE", "RUNNING", "ABANDONED", "COMPLETED"}]
    /\ line \in [Lines -> Line]
    /\ \A l \in Lines : line[l].st # "NONE" => line[l].job \in Jobs
    /\ cycle \in [Cycles -> [st : {"NONE", "OPEN", "COMPLETED"}, made : Nat]]
LedgerTyped ==
    /\ transfer \in Seq(Key)
    /\ reversal \subseteq Key /\ refund \subseteq Jobs
    /\ sent \subseteq Payment /\ reversed \subseteq Key /\ refunded \subseteq Jobs
SlotsGood ==
    /\ call \in [Calls -> Slot]
    /\ \A c \in Calls : SlotGood(call[c], line, transfer, sent, reversed, refunded)
Inv == RowsTyped /\ LedgerTyped /\ RowsBacked /\ faults \in 0..MaxFaults /\ SlotsGood

(* What no step undoes: a line's job, a transfer row, what Stripe did.     *)
Steady ==
    /\ \A l \in Lines : line[l].job \in Jobs => line'[l].job \in Jobs
    /\ DOMAIN transfer \subseteq DOMAIN transfer'
    /\ \A i \in DOMAIN transfer : transfer'[i] = transfer[i]
    /\ sent \subseteq sent' /\ reversed \subseteq reversed' /\ refunded \subseteq refunded'

GoodNext(k) == SlotGood(k, line', transfer', sent', reversed', refunded')

-----------------------------------------------------------------------------
(* One slot moves, the others keep what they know. *)
LEMMA SlotKeeps ==
  ASSUME NEW k, SlotGood(k, line, transfer, sent, reversed, refunded), Steady
  PROVE  GoodNext(k)
  <1>1. \A p \in k.pays : p.line \in Lines BY DEF SlotGood, SlotTyped, Slot, Payment
  <1>2. SlotTyped(k, line') BY <1>1 DEF SlotGood, SlotTyped, Steady, Lines
  <1>3. SlotBacked(k, transfer', sent', reversed', refunded')
    BY DEF SlotGood, SlotBacked, Steady, Was
  <1> QED BY <1>2, <1>3 DEF GoodNext, SlotGood

LEMMA SlotMoves ==
  ASSUME Inv, Steady, NEW c \in Calls, NEW k, GoodNext(k), Begin(c, k)
  PROVE  SlotsGood'
  <1>1. k \in Slot BY DEF GoodNext, SlotGood, SlotTyped
  <1>2. call' \in [Calls -> Slot] BY <1>1 DEF Inv, SlotsGood, Begin
  <1>3. ASSUME NEW d \in Calls PROVE GoodNext(call'[d])
    <2>1. CASE d = c BY <2>1 DEF Inv, SlotsGood, Begin
    <2>2. CASE d # c
      <3>1. call'[d] = call[d] BY <2>2 DEF Inv, SlotsGood, Begin
      <3> QED BY <3>1, SlotKeeps DEF Inv, SlotsGood
    <2> QED BY <2>1, <2>2
  <1> QED BY <1>2, <1>3 DEF SlotsGood, GoodNext

LEMMA NoSlotMoves ==
  ASSUME Inv, Steady, UNCHANGED call PROVE SlotsGood'
  <1>1. \A c \in Calls : GoodNext(call[c]) BY SlotKeeps DEF Inv, SlotsGood
  <1> QED BY <1>1 DEF Inv, SlotsGood, GoodNext

(* A slot that leaves knows nothing. *)
LEMMA IdleGood ==
  ASSUME NEW ln, NEW t, NEW s, NEW r, NEW f PROVE SlotGood(Idle, ln, t, s, r, f)
  BY DEF SlotGood, SlotTyped, SlotBacked, Idle, Slot, Labels, JobLabels, LineLabels

(* Steps of handlers that only read. *)
LEMMA ReadStep ==
  ASSUME Inv, UNCHANGED <<rows, stripe, faults>>, NEW c \in Calls, NEW k,
         SlotGood(k, line, transfer, sent, reversed, refunded), Begin(c, k)
  PROVE  Inv'
  <1>1. Steady BY DEF Steady, rows, stripe
  <1>2. SlotsGood' BY <1>1, SlotKeeps, SlotMoves
  <1> QED BY <1>2 DEF Inv, RowsTyped, LedgerTyped, RowsBacked, rows, stripe

-----------------------------------------------------------------------------
(* Requests arrive. *)
LEMMA Arrivals ==
  ASSUME Inv, NEW c \in Calls, NEW j \in Jobs, CompleteRead(c, j) \/ RefundRead(c, j)
  PROVE  Inv'
  <1> DEFINE k1 == [Idle EXCEPT !.at = "complete", !.job = j]
             k2 == [Idle EXCEPT !.at = "adjust", !.job = j, !.then = "refundCheck"]
  <1>1. SlotGood(k1, line, transfer, sent, reversed, refunded)
    BY DEF SlotGood, SlotTyped, SlotBacked, Idle, Slot, Labels, JobLabels, LineLabels
  <1>2. SlotGood(k2, line, transfer, sent, reversed, refunded)
    BY DEF SlotGood, SlotTyped, SlotBacked, Idle, Slot, Labels, JobLabels, LineLabels
  <1>3. CASE CompleteRead(c, j)
    <2>1. Begin(c, k1) BY <1>3 DEF CompleteRead, Idle
    <2> QED BY <1>1, <1>3, <2>1, ReadStep DEF CompleteRead
  <1>4. CASE RefundRead(c, j)
    <2>1. Begin(c, k2) BY <1>4 DEF RefundRead, OnMoney
    <2> QED BY <1>2, <1>4, <2>1, ReadStep DEF RefundRead
  <1> QED BY <1>3, <1>4

(* The payments a cycle plans are typed: a line in use names its job.      *)
LEMMA Planned ==
  ASSUME Inv, NEW y \in Cycles, NEW l \in Lines, line[l].st # "NONE"
  PROVE  [key |-> CycleKey(y, l), line |-> l, dest |-> PayeeOf(l)] \in Payment
  <1>1. line[l].job \in Jobs /\ line[l].to \in Recipients
    BY DEF Inv, RowsTyped, Line
  <1>2. y \in Nat BY DEF Cycles
  <1>3. CycleKey(y, l) \in Key BY <1>1, <1>2 DEF CycleKey, Key
  <1>4. PayeeOf(l) \in Payees \cup {None} BY <1>1 DEF PayeeOf, Payees, Inv, RowsTyped
  <1> QED BY <1>3, <1>4 DEF Payment

LEMMA RunReads ==
  ASSUME Inv, NEW c \in Calls, NEW y \in Cycles, RunRead(c, y)
  PROVE  Inv'
  <1>1. PICK n \in cycle[y].made..Made :
          Begin(c, [Idle EXCEPT !.at = "mark", !.n = y,
                      !.pays = {[key |-> CycleKey(y, l), line |-> l, dest |-> PayeeOf(l)] :
                                l \in {l \in Lines : line[l].st # "NONE" /\ Eligible(l) /\ Covers(l, n)}}])
    BY DEF RunRead
  <1> DEFINE P == {[key |-> CycleKey(y, l), line |-> l, dest |-> PayeeOf(l)] :
                   l \in {l \in Lines : line[l].st # "NONE" /\ Eligible(l) /\ Covers(l, n)}}
             k == [Idle EXCEPT !.at = "mark", !.n = y, !.pays = P]
  <1>2. P \in SUBSET Payment /\ \A p \in P : line[p.line].job \in Jobs
    BY Planned DEF Inv, RowsTyped
  <1>3. y \in Nat BY DEF Cycles
  <1> HIDE DEF P
  <1>4. SlotGood(k, line, transfer, sent, reversed, refunded)
    BY <1>2, <1>3 DEF SlotGood, SlotTyped, SlotBacked, Idle, Slot, Labels, JobLabels, LineLabels
  <1>5. Begin(c, k) BY <1>1 DEF P
  <1> HIDE DEF k
  <1> QED BY <1>4, <1>5, ReadStep DEF RunRead

(* Handlers read on. *)
LEMMA DisburseReads ==
  ASSUME Inv, NEW c \in Calls, DisburseRead(c) \/ DisburseDest(c)
  PROVE  Inv'
  <1> DEFINE x == call[c]
  <1>0. SlotGood(x, line, transfer, sent, reversed, refunded) BY DEF Inv, SlotsGood
  <1>1. ASSUME Leave(c), UNCHANGED <<rows, stripe, faults>> PROVE Inv'
    BY <1>1, IdleGood, ReadStep DEF Leave
  <1>2. CASE DisburseRead(c)
    <2>1. ASSUME NEW l \in Due(x.job), Begin(c, [x EXCEPT !.at = "dest", !.n = l]) PROVE Inv'
      <3> DEFINE k == [x EXCEPT !.at = "dest", !.n = l]
      <3>1. l \in Lines /\ l \in Nat /\ line[l].job \in Jobs
        BY <1>2, <2>1 DEF Due, LinesOf, Lines, Inv, RowsTyped, DisburseRead, At
      <3>2. x.job \in Jobs BY <1>0, <1>2 DEF SlotGood, SlotTyped, JobLabels, DisburseRead, At
      <3>3. SlotGood(k, line, transfer, sent, reversed, refunded)
        BY <1>0, <3>1, <3>2
        DEF SlotGood, SlotTyped, SlotBacked, Slot, Labels, JobLabels, LineLabels
      <3>4. Begin(c, k) BY <2>1
      <3> HIDE DEF k
      <3> QED BY <1>2, <3>3, <3>4, ReadStep DEF DisburseRead
    <2> QED BY <1>1, <1>2, <2>1 DEF DisburseRead, Begin, Inv, SlotsGood, Slot
  <1>3. CASE DisburseDest(c)
    <2> DEFINE p == [key |-> LineKey(x.n), line |-> x.n, dest |-> carrier[x.job]]
               k1 == [x EXCEPT !.at = "markPaid"]
               k2 == [x EXCEPT !.at = "send", !.now = {p}]
    <2>1. x.at = "dest" /\ x.job \in Jobs /\ x.n \in Lines /\ line[x.n].job \in Jobs
      BY <1>0, <1>3 DEF DisburseDest, At, SlotGood, SlotTyped, JobLabels, LineLabels
    <2>2. p \in Payment
      <3>1. line[x.n].to \in Recipients BY <2>1 DEF Inv, RowsTyped, Line
      <3>2. LineKey(x.n) \in Key BY <2>1, <3>1 DEF LineKey, Key, Lines
      <3>3. carrier[x.job] \in Payees \cup {None} BY <2>1 DEF Inv, RowsTyped, Payees
      <3> QED BY <2>1, <3>2, <3>3 DEF Payment
    <2> HIDE DEF p
    <2>3. SlotGood(k1, line, transfer, sent, reversed, refunded)
      BY <1>0, <2>1 DEF SlotGood, SlotTyped, SlotBacked, Slot, Labels, JobLabels, LineLabels
    <2>4. SlotGood(k2, line, transfer, sent, reversed, refunded)
      BY <1>0, <2>1, <2>2 DEF SlotGood, SlotTyped, SlotBacked, Slot, Labels, JobLabels, LineLabels
    <2>5. Begin(c, k1) \/ Begin(c, k2) \/ Leave(c)
      BY <1>3, <2>1 DEF DisburseDest, Goto, Begin, p, Inv, SlotsGood, Slot
    <2> HIDE DEF k1, k2
    <2> QED BY <1>1, <1>3, <2>3, <2>4, <2>5, ReadStep DEF DisburseDest
  <1> QED BY <1>2, <1>3

LEMMA MoneyReads ==
  ASSUME Inv, NEW c \in Calls, AdjustRead(c) \/ RefundCheck(c) \/ RunEnd(c)
  PROVE  Inv'
  <1> DEFINE x == call[c]
             k1(i) == [x EXCEPT !.at = "reverse", !.n = i]
             k2 == [x EXCEPT !.at = "void"]
             k3 == [x EXCEPT !.at = "refundSend"]
  <1>0. SlotGood(x, line, transfer, sent, reversed, refunded) BY DEF Inv, SlotsGood
  <1>1. CASE AdjustRead(c)
    <2>1. x.at = "adjust" /\ x.job \in Jobs
      BY <1>0, <1>1 DEF AdjustRead, At, SlotGood, SlotTyped, JobLabels
    <2>2. ASSUME NEW i \in TransfersOf(x.job) PROVE SlotGood(k1(i), line, transfer, sent, reversed, refunded)
      <3>1. i \in DOMAIN transfer /\ i \in Nat BY DEF TransfersOf, Inv, LedgerTyped
      <3> QED BY <1>0, <2>1, <3>1
            DEF SlotGood, SlotTyped, SlotBacked, Slot, Labels, JobLabels, LineLabels
    <2>3. SlotGood(k2, line, transfer, sent, reversed, refunded)
      BY <1>0, <2>1 DEF SlotGood, SlotTyped, SlotBacked, Slot, Labels, JobLabels, LineLabels
    <2>4. (\E i \in TransfersOf(x.job) : Begin(c, k1(i))) \/ Begin(c, k2)
      BY <1>1 DEF AdjustRead, Goto, Begin, Inv, SlotsGood, Slot
    <2> HIDE DEF k1, k2
    <2> QED BY <1>1, <2>2, <2>3, <2>4, ReadStep DEF AdjustRead
  <1>2. CASE RefundCheck(c)
    <2>1. x.at = "refundCheck" /\ x.job \in Jobs
      BY <1>0, <1>2 DEF RefundCheck, At, SlotGood, SlotTyped, JobLabels
    <2>2. SlotGood(k3, line, transfer, sent, reversed, refunded)
      BY <1>0, <2>1 DEF SlotGood, SlotTyped, SlotBacked, Slot, Labels, JobLabels, LineLabels
    <2>3. Begin(c, Idle) \/ Begin(c, k3)
      BY <1>2 DEF RefundCheck, Goto, Leave, Begin, Inv, SlotsGood, Slot
    <2> HIDE DEF k3
    <2> QED BY <1>2, <2>2, <2>3, IdleGood, ReadStep DEF RefundCheck
  <1>3. CASE RunEnd(c) BY <1>3, IdleGood, ReadStep DEF RunEnd, Leave
  <1> QED BY <1>1, <1>2, <1>3

-----------------------------------------------------------------------------
(* Steps that write rows or happen at Stripe. *)

(* Awards and new cycles move no slot. *)
LEMMA Awards ==
  ASSUME Inv, NEW j \in Jobs, NEW k \in Carriers, Award(j, k)
  PROVE  Inv'
  <1> USE DEF Award
  <1>1. \A to \in Recipients : NewLine(j, to) \in Line /\ NewLine(j, to).job \in Jobs
    BY DEF NewLine, Line
  <1>2. /\ line' \in [Lines -> Line]
        /\ \A l \in Lines : line'[l] = line[l] \/ line'[l].job \in Jobs
    <2>1. CASE line' = line BY <2>1 DEF Inv, RowsTyped
    <2>2. CASE line' = [line EXCEPT ![Made + 1] = NewLine(j, "CARRIER"),
                                    ![Made + 2] = NewLine(j, "ADMIN")]
      BY <1>1, <2>2 DEF Recipients, Inv, RowsTyped
    <2> QED BY <2>1, <2>2
  <1>3. RowsTyped'
    BY <1>2 DEF Inv, RowsTyped
  <1>4. Steady BY <1>2 DEF Steady, stripe
  <1>5. SlotsGood' BY <1>4, NoSlotMoves
  <1> QED BY <1>3, <1>5 DEF Inv, LedgerTyped, RowsBacked, stripe

LEMMA CycleOpens ==
  ASSUME Inv, NEW y \in Cycles, OpenCycle(y)
  PROVE  Inv'
  <1> USE DEF OpenCycle
  <1>1. IsFiniteSet(Lines) BY FS_Interval, PayoutConstants DEF Lines
  <1>2. Made \in Nat
    <2>1. IsFiniteSet({l \in Lines : line[l].st # "NONE"}) BY <1>1, FS_Subset
    <2> QED BY <2>1, FS_CardinalityType DEF Made
  <1>3. RowsTyped' BY <1>2 DEF Inv, RowsTyped
  <1>4. Steady BY DEF Steady, stripe
  <1>5. SlotsGood' BY <1>4, NoSlotMoves
  <1> QED BY <1>3, <1>5 DEF Inv, LedgerTyped, RowsBacked, stripe

(* Writes of award, trip, line and cycle rows: Stripe and the ledger stay. *)
LEMMA RowStep ==
  ASSUME Inv, UNCHANGED <<transfer, reversal, refund, stripe, faults>>, RowsTyped',
         \A l \in Lines : line[l].job \in Jobs => line'[l].job \in Jobs,
         NEW c \in Calls, NEW k, SlotGood(k, line, transfer, sent, reversed, refunded), Begin(c, k)
  PROVE  Inv'
  <1>1. Steady BY DEF Steady, stripe
  <1>2. SlotsGood' BY <1>1, SlotKeeps, SlotMoves
  <1> QED BY <1>2 DEF Inv, LedgerTyped, RowsBacked, stripe

LEMMA TripSteps ==
  ASSUME Inv, NEW c \in Calls, Complete(c) \/ DisburseMark(c)
  PROVE  Inv'
  <1> DEFINE x == call[c]
             k == [x EXCEPT !.at = "disburse"]
  <1>0. SlotGood(x, line, transfer, sent, reversed, refunded) BY DEF Inv, SlotsGood
  <1>1. CASE Complete(c)
    <2>1. x.at = "complete" /\ x.job \in Jobs
      BY <1>0, <1>1 DEF Complete, At, SlotGood, SlotTyped, JobLabels
    <2>2. SlotGood(k, line, transfer, sent, reversed, refunded)
      BY <1>0, <2>1 DEF SlotGood, SlotTyped, SlotBacked, Slot, Labels, JobLabels, LineLabels
    <2>3. Begin(c, k) BY <1>1 DEF Complete, Goto, Begin, Inv, SlotsGood, Slot
    <2>4. RowsTyped' BY <1>1, <2>1 DEF Complete, Inv, RowsTyped
    <2> HIDE DEF k
    <2> QED BY <1>1, <2>2, <2>3, <2>4, RowStep DEF Complete
  <1>2. CASE DisburseMark(c)
    <2>1. x.n \in Lines
      BY <1>0, <1>2 DEF DisburseMark, At, SlotGood, SlotTyped, LineLabels
    <2>2. line[x.n].job \in Jobs
      BY <1>0, <1>2 DEF DisburseMark, At, SlotGood, SlotTyped, LineLabels
    <2>3. RowsTyped' BY <1>2, <2>1, <2>2 DEF DisburseMark, Inv, RowsTyped, Line
    <2>4. \A l \in Lines : line[l].job \in Jobs => line'[l].job \in Jobs
      BY <1>2, <2>1 DEF DisburseMark, Inv, RowsTyped, Line
    <2> QED BY <1>2, <2>3, <2>4, IdleGood, RowStep DEF DisburseMark, Leave
  <1> QED BY <1>1, <1>2

(* Where lines change their status only. *)
LEMMA StatusOnly ==
  ASSUME Inv, NEW S, NEW st \in {"PAID", "VOID"}, \A l \in Lines \cap S : line[l].job \in Jobs,
         line' = [l \in Lines |-> IF l \in S THEN [line[l] EXCEPT !.st = st] ELSE line[l]],
         UNCHANGED <<award, carrier, trip>>,
         cycle' \in [Cycles -> [st : {"NONE", "OPEN", "COMPLETED"}, made : Nat]]
  PROVE  RowsTyped' /\ \A l \in Lines : line[l].job \in Jobs => line'[l].job \in Jobs
  BY DEF Inv, RowsTyped, Line

(* A settlement run marks only lines that it read in use.                  *)
LEMMA RunMarks ==
  ASSUME Inv, NEW c \in Calls, RunMark(c)
  PROVE  Inv'
  <1> DEFINE x == call[c]
             S == {l \in Lines : \E p \in x.pays : p.line = l}
             k == [x EXCEPT !.at = "pay", !.pays = {p \in x.pays : p.dest \in Connected}]
  <1>0. SlotGood(x, line, transfer, sent, reversed, refunded) BY DEF Inv, SlotsGood
  <1>1. x.at = "mark" /\ x.n \in Cycles
    BY <1>0 DEF RunMark, At, SlotGood, SlotTyped
  <1>2. SlotGood(k, line, transfer, sent, reversed, refunded)
    BY <1>0, <1>1 DEF SlotGood, SlotTyped, SlotBacked, Slot, Labels, JobLabels, LineLabels
  <1>3. Begin(c, k) BY DEF RunMark, Begin, Inv, SlotsGood, Slot
  <1>4. line' = [l \in Lines |-> IF l \in S THEN [line[l] EXCEPT !.st = "PAID"] ELSE line[l]]
    BY DEF RunMark
  <1>5. cycle' \in [Cycles -> [st : {"NONE", "OPEN", "COMPLETED"}, made : Nat]]
    BY <1>1 DEF RunMark, Inv, RowsTyped
  <1>6. \A l \in Lines \cap S : line[l].job \in Jobs
    BY <1>0, <1>1 DEF SlotGood, SlotTyped
  <1>7. RowsTyped' /\ \A l \in Lines : line[l].job \in Jobs => line'[l].job \in Jobs
    BY <1>4, <1>5, <1>6, StatusOnly DEF RunMark
  <1> HIDE DEF k
  <1> QED BY <1>2, <1>3, <1>7, RowStep DEF RunMark

LEMMA Releases ==
  ASSUME Inv, NEW c \in Calls, NEW j \in Jobs, Release(c, j)
  PROVE  Inv'
  <1> DEFINE k == OnMoney(j, "idle")
  <1>1. SlotGood(k, line, transfer, sent, reversed, refunded)
    BY DEF OnMoney, SlotGood, SlotTyped, SlotBacked, Idle, Slot, Labels, JobLabels, LineLabels
  <1>2. RowsTyped' BY DEF Release, Inv, RowsTyped
  <1> HIDE DEF k
  <1>3. Begin(c, k) BY DEF Release, k
  <1> QED BY <1>1, <1>2, <1>3, RowStep DEF Release

(* Where a slot goes when the adjustment of the money is over.             *)
LEMMA Returns ==
  ASSUME Inv, NEW c \in Calls, call[c].at \in JobLabels, Return(c)
  PROVE  \E k : Begin(c, k) /\ \A ln, t, s, r, f : SlotGood(k, ln, t, s, r, f)
  <1> DEFINE x == call[c]
             k == [x EXCEPT !.at = x.then, !.then = "idle"]
  <1>1. CASE x.then = "idle" BY <1>1, IdleGood DEF Return
  <1>2. CASE x.then # "idle"
    <2>1. x.then = "refundCheck" /\ x \in Slot /\ x.job \in Jobs
      BY <1>2 DEF Inv, SlotsGood, SlotGood, SlotTyped, Slot
    <2>2. \A ln, t, s, r, f : SlotGood(k, ln, t, s, r, f)
      BY <2>1 DEF SlotGood, SlotTyped, SlotBacked, Slot, Labels, JobLabels, LineLabels
    <2>3. Begin(c, k) BY <1>2 DEF Return
    <2> HIDE DEF k
    <2> QED BY <2>2, <2>3
  <1> QED BY <1>1, <1>2

LEMMA Voids ==
  ASSUME Inv, NEW c \in Calls, VoidLines(c)
  PROVE  Inv'
  <1> DEFINE S == LinesOf(call[c].job)
  <1>1. PICK k : Begin(c, k) /\ \A ln, t, s, r, f : SlotGood(k, ln, t, s, r, f)
    BY Returns DEF VoidLines, At, JobLabels
  <1>2. \A l \in Lines \cap S : line[l].job \in Jobs BY DEF LinesOf, Inv, RowsTyped
  <1>3. line' = [l \in Lines |-> IF l \in S THEN [line[l] EXCEPT !.st = "VOID"] ELSE line[l]]
    BY DEF VoidLines
  <1>4. cycle' \in [Cycles -> [st : {"NONE", "OPEN", "COMPLETED"}, made : Nat]]
    BY DEF VoidLines, Inv, RowsTyped
  <1> HIDE DEF S
  <1>5. RowsTyped' /\ \A l \in Lines : line[l].job \in Jobs => line'[l].job \in Jobs
    BY <1>2, <1>3, <1>4, StatusOnly DEF VoidLines
  <1> QED BY <1>1, <1>5, RowStep DEF VoidLines

-----------------------------------------------------------------------------
(* What happens at Stripe. *)
LEMMA FaultsBound ==
  ASSUME Inv, NEW f, Answered \/ Counts(f)
  PROVE  faults' \in 0..MaxFaults
  BY PayoutConstants DEF Inv, Answered, Counts

LEMMA Transfers ==
  ASSUME Inv, NEW c \in Calls, NEW p \in Payment, NEW k, NEW m, Transfer(c, p, k, m),
         SlotGood(m, line, transfer, sent, reversed, refunded),
         \A s : sent \subseteq s /\ Was(p.key, s) => SlotGood(k, line, transfer, s, reversed, refunded)
  PROVE  Inv'
  <1>1. UNCHANGED <<rows, reversed, refunded>> BY DEF Transfer
  <1>2. ASSUME Executed(p)
        PROVE  sent \subseteq sent' /\ sent' \subseteq Payment /\ Was(p.key, sent')
    BY <1>2 DEF Executed, Was, Inv, LedgerTyped
  <1>3. sent \subseteq sent' /\ sent' \subseteq Payment
    BY <1>2 DEF Transfer, Inv, LedgerTyped
  <1>4. Steady BY <1>1, <1>3 DEF Steady, rows
  <1>5. GoodNext(m) BY <1>4, SlotKeeps
  <1>6. (Begin(c, k) /\ Executed(p)) \/ Begin(c, m) BY DEF Transfer
  <1>7. SlotsGood'
    <2>1. CASE Begin(c, m) BY <1>4, <1>5, <2>1, SlotMoves
    <2>2. CASE Begin(c, k) /\ Executed(p)
      <3>1. GoodNext(k) BY <1>1, <1>2, <2>2 DEF GoodNext, rows
      <3> QED BY <1>4, <2>2, <3>1, SlotMoves
    <2> QED BY <1>6, <2>1, <2>2
  <1>8. faults' \in 0..MaxFaults BY FaultsBound DEF Transfer, Refused, Unheard
  <1>9. RowsBacked' BY <1>1, <1>3 DEF RowsBacked, Inv, rows
  <1>10. RowsTyped' /\ LedgerTyped' BY <1>1, <1>3 DEF Inv, RowsTyped, LedgerTyped, rows
  <1> QED BY <1>7, <1>8, <1>9, <1>10 DEF Inv

LEMMA Sends ==
  ASSUME Inv, NEW c \in Calls, DisburseSend(c) \/ RunSend(c)
  PROVE  Inv'
  <1> DEFINE x == call[c]
  <1>0. SlotGood(x, line, transfer, sent, reversed, refunded) /\ x \in Slot
    BY DEF Inv, SlotsGood
  <1>1. CASE DisburseSend(c)
    <2> DEFINE k == [x EXCEPT !.at = "record"]
    <2>1. PICK p \in x.now : Transfer(c, p, k, Idle) BY <1>1 DEF DisburseSend
    <2>2. x.at = "send" /\ p \in Payment BY <1>0, <1>1 DEF DisburseSend, At, Slot
    <2>3. ASSUME NEW s, Was(p.key, s) PROVE SlotGood(k, line, transfer, s, reversed, refunded)
      <3>1. \A q \in x.now : q = p BY <1>0, <2>1, <2>2 DEF SlotGood, SlotTyped
      <3> QED BY <1>0, <2>2, <2>3, <3>1
          DEF SlotGood, SlotTyped, SlotBacked, Slot, Labels, JobLabels, LineLabels
    <2> HIDE DEF k
    <2> QED BY <2>1, <2>2, <2>3, IdleGood, Transfers
  <1>2. CASE RunSend(c)
    <2>1. PICK p \in x.pays :
            LET rest == [x EXCEPT !.pays = x.pays \ {p}]
            IN  Transfer(c, p, [rest EXCEPT !.at = "runRecord", !.now = {p}], rest)
      BY <1>2 DEF RunSend
    <2> DEFINE m == [x EXCEPT !.pays = x.pays \ {p}]
               k == [m EXCEPT !.at = "runRecord", !.now = {p}]
    <2>2. x.at = "pay" /\ p \in Payment BY <1>0, <1>2 DEF RunSend, At, Slot
    <2>3. SlotGood(m, line, transfer, sent, reversed, refunded)
      BY <1>0, <2>2 DEF SlotGood, SlotTyped, SlotBacked, Slot, Labels, JobLabels, LineLabels
    <2>4. ASSUME NEW s, Was(p.key, s) PROVE SlotGood(k, line, transfer, s, reversed, refunded)
      BY <1>0, <2>2, <2>4
      DEF SlotGood, SlotTyped, SlotBacked, Slot, Labels, JobLabels, LineLabels
    <2>5. Transfer(c, p, k, m) BY <2>1
    <2> HIDE DEF k, m
    <2> QED BY <2>2, <2>3, <2>4, <2>5, Transfers
  <1> QED BY <1>1, <1>2

(* A TRANSFER row is written of a transfer that Stripe made.               *)
LEMMA Appended ==
  ASSUME Inv, NEW k \in Key, Was(k, sent), transfer' \in {transfer, Append(transfer, k)},
         UNCHANGED <<reversal, refund, stripe>>,
         \A l \in Lines : line[l].job \in Jobs => line'[l].job \in Jobs
  PROVE  Steady /\ LedgerTyped' /\ RowsBacked'
  <1>0. transfer \in Seq(Key) BY DEF Inv, LedgerTyped
  <1>1. /\ transfer' \in Seq(Key)
        /\ DOMAIN transfer \subseteq DOMAIN transfer'
        /\ \A i \in DOMAIN transfer : transfer'[i] = transfer[i]
        /\ \A i \in DOMAIN transfer' : i \in DOMAIN transfer \/ transfer'[i] = k
    <2>1. CASE transfer' = transfer BY <1>0, <2>1
    <2>2. CASE transfer' = Append(transfer, k) BY <1>0, <2>2
    <2> QED BY <2>1, <2>2
  <1>2. Steady BY <1>1 DEF Steady, stripe
  <1>3. LedgerTyped' BY <1>1 DEF Inv, LedgerTyped, stripe
  <1>4. RowsBacked' BY <1>1 DEF Inv, RowsBacked, Was, stripe
  <1> QED BY <1>2, <1>3, <1>4

LEMMA Records ==
  ASSUME Inv, NEW c \in Calls, DisburseRecord(c) \/ RunRecord(c)
  PROVE  Inv'
  <1> DEFINE x == call[c]
  <1>0. SlotGood(x, line, transfer, sent, reversed, refunded) /\ x \in Slot
    BY DEF Inv, SlotsGood
  <1>1. ASSUME NEW p \in x.now PROVE p.key \in Key BY <1>0, <1>1 DEF Slot, Payment
  <1>2. CASE DisburseRecord(c)
    <2>1. PICK p \in x.now :
            IF Recorded(p.key) THEN UNCHANGED <<transfer, line>>
            ELSE /\ transfer' = Append(transfer, p.key)
                 /\ line' = [line EXCEPT ![x.n].st = "PAID"]
      BY <1>2 DEF DisburseRecord
    <2>2. Was(p.key, sent) /\ x.n \in Lines /\ line[x.n].job \in Jobs
      BY <1>0, <1>2 DEF DisburseRecord, At, SlotGood, SlotTyped, SlotBacked, LineLabels
    <2>3. transfer' \in {transfer, Append(transfer, p.key)} BY <2>1
    <2>4. RowsTyped' /\ \A l \in Lines : line[l].job \in Jobs => line'[l].job \in Jobs
      <3>0. UNCHANGED <<award, carrier, trip, cycle>> BY <1>2 DEF DisburseRecord
      <3>1. CASE line' = line BY <3>0, <3>1 DEF Inv, RowsTyped
      <3>2. CASE line' = [line EXCEPT ![x.n].st = "PAID"]
        <4>1. line' = [l \in Lines |-> IF l \in {x.n} THEN [line[l] EXCEPT !.st = "PAID"] ELSE line[l]]
          BY <3>2 DEF Inv, RowsTyped
        <4> QED BY <2>2, <3>0, <4>1, StatusOnly DEF Inv, RowsTyped
      <3> QED BY <2>1, <3>1, <3>2
    <2>5. Steady /\ LedgerTyped' /\ RowsBacked'
      BY <1>1, <1>2, <2>2, <2>3, <2>4, Appended DEF DisburseRecord
    <2>6. GoodNext(Idle) BY IdleGood DEF GoodNext
    <2>7. SlotsGood' BY <1>2, <2>5, <2>6, SlotMoves DEF DisburseRecord, Leave
    <2> QED BY <1>2, <2>4, <2>5, <2>7 DEF DisburseRecord, Inv
  <1>3. CASE RunRecord(c)
    <2> DEFINE k == [x EXCEPT !.at = "pay", !.now = {}]
    <2>1. PICK p \in x.now :
            transfer' = IF Recorded(p.key) THEN transfer ELSE Append(transfer, p.key)
      BY <1>3 DEF RunRecord
    <2>2. Was(p.key, sent) /\ x.at = "runRecord"
      BY <1>0, <1>3 DEF RunRecord, At, SlotGood, SlotBacked
    <2>3. transfer' \in {transfer, Append(transfer, p.key)} BY <2>1
    <2>4. RowsTyped' /\ UNCHANGED line BY <1>3 DEF RunRecord, Inv, RowsTyped
    <2>5. Steady /\ LedgerTyped' /\ RowsBacked'
      BY <1>1, <1>3, <2>2, <2>3, <2>4, Appended DEF RunRecord
    <2>6. GoodNext(k)
      BY <1>0, <2>2
      DEF GoodNext, SlotGood, SlotTyped, SlotBacked, Slot, Labels, JobLabels, LineLabels
    <2>7. Begin(c, k) BY <1>3 DEF RunRecord, Begin, Inv, SlotsGood, Slot
    <2> HIDE DEF k
    <2>8. SlotsGood' BY <2>5, <2>6, <2>7, SlotMoves
    <2> QED BY <1>3, <2>4, <2>5, <2>8 DEF RunRecord, Inv
  <1> QED BY <1>2, <1>3

-----------------------------------------------------------------------------
(* What is taken back: Stripe first, then the row. *)
LEMMA TakenBack ==
  ASSUME Inv, NEW c \in Calls, NEW k, GoodNext(k), Begin(c, k),
         UNCHANGED <<award, carrier, trip, line, cycle, transfer, sent>>,
         LedgerTyped', RowsBacked', reversed \subseteq reversed', refunded \subseteq refunded',
         faults' \in 0..MaxFaults
  PROVE  Inv'
  <1>1. Steady BY DEF Steady
  <1>2. SlotsGood' BY <1>1, SlotMoves
  <1>3. RowsTyped' BY DEF Inv, RowsTyped
  <1> QED BY <1>2, <1>3 DEF Inv

LEMMA Reverses ==
  ASSUME Inv, NEW c \in Calls, ReverseSend(c) \/ ReverseRow(c)
  PROVE  Inv'
  <1> DEFINE x == call[c]
             k == transfer[x.n]
             toRow == [x EXCEPT !.at = "reverseRow"]
             toVoid == [x EXCEPT !.at = "void"]
  <1>0. SlotGood(x, line, transfer, sent, reversed, refunded) /\ x \in Slot
    BY DEF Inv, SlotsGood
  <1>1. x.at \in {"reverse", "reverseRow"} /\ x.n \in DOMAIN transfer /\ x.job \in Jobs
    BY <1>0 DEF ReverseSend, ReverseRow, At, SlotGood, SlotTyped, SlotBacked, JobLabels
  <1>2. k \in Key /\ Was(k, sent) BY <1>1 DEF Inv, LedgerTyped, RowsBacked, Was
  <1>3. ASSUME Return(c) PROVE \E z : Begin(c, z) /\ GoodNext(z)
    BY <1>1, <1>3, Returns DEF JobLabels, GoodNext
  <1>4. CASE ReverseSend(c)
    <2>1. UNCHANGED <<award, carrier, trip, line, cycle, transfer, reversal, refund, sent, refunded>>
      BY <1>4 DEF ReverseSend, rows
    <2>2. reversed' \in {reversed, reversed \cup {k}} BY <1>4 DEF ReverseSend
    <2>3. LedgerTyped' /\ RowsBacked' /\ reversed \subseteq reversed'
      BY <1>2, <2>1, <2>2 DEF Inv, LedgerTyped, RowsBacked, Was
    <2>4. faults' \in 0..MaxFaults
      BY <1>4, FaultsBound DEF ReverseSend, Refused, Unheard
    <2>5. Return(c) \/ (Begin(c, toRow) /\ reversed' = reversed \cup {k})
      BY <1>4 DEF ReverseSend, Goto, Begin, Inv, SlotsGood, Slot
    <2>6. ASSUME reversed' = reversed \cup {k} PROVE GoodNext(toRow)
      BY <1>0, <1>1, <2>1, <2>6
      DEF GoodNext, SlotGood, SlotTyped, SlotBacked, Slot, Labels, JobLabels, LineLabels
    <2> HIDE DEF toRow
    <2>7. \E z : Begin(c, z) /\ GoodNext(z) BY <1>3, <2>5, <2>6
    <2> QED BY <2>1, <2>3, <2>4, <2>7, TakenBack
  <1>5. CASE ReverseRow(c)
    <2>1. UNCHANGED <<award, carrier, trip, line, cycle, transfer, refund, stripe, faults>>
      BY <1>5 DEF ReverseRow
    <2>2. k \in reversed BY <1>0, <1>5 DEF ReverseRow, At, SlotGood, SlotBacked
    <2>3. reversal' \in {reversal, reversal \cup {k}} BY <1>5 DEF ReverseRow
    <2>4. LedgerTyped' /\ RowsBacked'
      BY <1>2, <2>1, <2>2, <2>3 DEF Inv, LedgerTyped, RowsBacked, stripe
    <2>5. GoodNext(toVoid)
      BY <1>0, <1>1
      DEF GoodNext, SlotGood, SlotTyped, SlotBacked, Slot, Labels, JobLabels, LineLabels
    <2>6. Return(c) \/ Begin(c, toVoid)
      BY <1>5 DEF ReverseRow, Goto, Begin, Inv, SlotsGood, Slot
    <2> HIDE DEF toVoid
    <2>7. \E z : Begin(c, z) /\ GoodNext(z) BY <1>3, <2>5, <2>6
    <2> QED BY <2>1, <2>4, <2>7, TakenBack DEF stripe, Inv
  <1> QED BY <1>4, <1>5

LEMMA Refunds ==
  ASSUME Inv, NEW c \in Calls, RefundSend(c) \/ RefundRow(c)
  PROVE  Inv'
  <1> DEFINE x == call[c]
             toRow == [x EXCEPT !.at = "refundRow"]
             toVoid == [x EXCEPT !.at = "void"]
  <1>0. SlotGood(x, line, transfer, sent, reversed, refunded) /\ x \in Slot
    BY DEF Inv, SlotsGood
  <1>1. x.job \in Jobs
    BY <1>0 DEF RefundSend, RefundRow, At, SlotGood, SlotTyped, JobLabels
  <1>2. GoodNext(Idle) BY IdleGood DEF GoodNext
  <1>3. CASE RefundSend(c)
    <2>1. UNCHANGED <<award, carrier, trip, line, cycle, transfer, reversal, refund, sent, reversed>>
      BY <1>3 DEF RefundSend, rows
    <2>2. refunded' \in {refunded, refunded \cup {x.job}} BY <1>3 DEF RefundSend
    <2>3. LedgerTyped' /\ RowsBacked' /\ refunded \subseteq refunded'
      BY <1>1, <2>1, <2>2 DEF Inv, LedgerTyped, RowsBacked
    <2>4. faults' \in 0..MaxFaults
      BY <1>3, FaultsBound DEF RefundSend, Refused, Unheard
    <2>5. Begin(c, Idle) \/ (Begin(c, toRow) /\ refunded' = refunded \cup {x.job})
      BY <1>3 DEF RefundSend, Leave, Goto, Begin, Inv, SlotsGood, Slot
    <2>6. ASSUME refunded' = refunded \cup {x.job} PROVE GoodNext(toRow)
      BY <1>0, <1>1, <2>1, <2>6
      DEF GoodNext, SlotGood, SlotTyped, SlotBacked, Slot, Labels, JobLabels, LineLabels
    <2> HIDE DEF toRow
    <2>7. \E z : Begin(c, z) /\ GoodNext(z) BY <1>2, <2>5, <2>6
    <2> QED BY <2>1, <2>3, <2>4, <2>7, TakenBack
  <1>4. CASE RefundRow(c)
    <2>1. UNCHANGED <<award, carrier, trip, line, cycle, transfer, reversal, stripe, faults>>
      BY <1>4 DEF RefundRow
    <2>2. x.job \in refunded BY <1>0, <1>4 DEF RefundRow, At, SlotGood, SlotBacked
    <2>3. refund' \in {refund, refund \cup {x.job}} BY <1>4 DEF RefundRow
    <2>4. LedgerTyped' /\ RowsBacked'
      BY <1>1, <2>1, <2>2, <2>3 DEF Inv, LedgerTyped, RowsBacked, stripe
    <2>5. GoodNext(toVoid)
      BY <1>0, <1>1, <2>1
      DEF GoodNext, SlotGood, SlotTyped, SlotBacked, Slot, Labels, JobLabels, LineLabels
    <2>6. Begin(c, Idle) \/ Begin(c, toVoid)
      BY <1>4 DEF RefundRow, Leave, Goto, Begin, Inv, SlotsGood, Slot
    <2> HIDE DEF toVoid
    <2>7. \E z : Begin(c, z) /\ GoodNext(z) BY <1>2, <2>5, <2>6
    <2> QED BY <2>1, <2>4, <2>7, TakenBack DEF stripe, Inv
  <1> QED BY <1>3, <1>4

LEMMA Crashes ==
  ASSUME Inv, NEW c \in Calls, Crash(c)
  PROVE  Inv'
  <1>1. UNCHANGED <<rows, stripe>> /\ faults' \in 0..MaxFaults /\ Begin(c, Idle)
    BY FaultsBound DEF Crash, Leave
  <1>2. GoodNext(Idle) BY IdleGood DEF GoodNext
  <1>3. LedgerTyped' /\ RowsBacked' BY <1>1 DEF Inv, LedgerTyped, RowsBacked, rows, stripe
  <1> QED BY <1>1, <1>2, <1>3, TakenBack DEF rows, stripe

-----------------------------------------------------------------------------
LEMMA InitGood == Init => Inv
  <1> SUFFICES ASSUME Init PROVE Inv OBVIOUS
  <1> USE DEF Init
  <1>1. RowsTyped BY DEF RowsTyped, NoLine, Line, Recipients
  <1>2. LedgerTyped /\ RowsBacked BY DEF LedgerTyped, RowsBacked
  <1>3. faults \in 0..MaxFaults BY PayoutConstants
  <1>4. Idle \in Slot BY IdleGood DEF SlotGood, SlotTyped
  <1>5. SlotsGood BY <1>4, IdleGood DEF SlotsGood
  <1> QED BY <1>1, <1>2, <1>3, <1>5 DEF Inv

LEMMA StepGood ==
  ASSUME Inv, NEW c \in Calls, Step(c)
  PROVE  Inv'
  <1>1. CASE Complete(c) \/ DisburseMark(c) BY <1>1, TripSteps
  <1>2. CASE DisburseRead(c) \/ DisburseDest(c) BY <1>2, DisburseReads
  <1>3. CASE DisburseSend(c) \/ RunSend(c) BY <1>3, Sends
  <1>4. CASE DisburseRecord(c) \/ RunRecord(c) BY <1>4, Records
  <1>5. CASE RunMark(c) BY <1>5, RunMarks
  <1>6. CASE AdjustRead(c) \/ RefundCheck(c) \/ RunEnd(c) BY <1>6, MoneyReads
  <1>7. CASE ReverseSend(c) \/ ReverseRow(c) BY <1>7, Reverses
  <1>8. CASE VoidLines(c) BY <1>8, Voids
  <1>9. CASE RefundSend(c) \/ RefundRow(c) BY <1>9, Refunds
  <1> QED BY <1>1, <1>2, <1>3, <1>4, <1>5, <1>6, <1>7, <1>8, <1>9 DEF Step

LEMMA NextGood == Inv /\ [Next]_vars => Inv'
  <1> SUFFICES ASSUME Inv, [Next]_vars PROVE Inv' OBVIOUS
  <1>1. ASSUME NEW c \in Calls, Arrive(c) PROVE Inv'
    <2>1. ASSUME NEW j \in Jobs, CompleteRead(c, j) \/ Release(c, j) \/ RefundRead(c, j) PROVE Inv'
      BY <2>1, Arrivals, Releases
    <2>2. ASSUME NEW y \in Cycles, RunRead(c, y) PROVE Inv' BY <2>2, RunReads
    <2> QED BY <1>1, <2>1, <2>2 DEF Arrive
  <1>2. ASSUME NEW j \in Jobs, NEW k \in Carriers, Award(j, k) PROVE Inv' BY <1>2, Awards
  <1>3. ASSUME NEW y \in Cycles, OpenCycle(y) PROVE Inv' BY <1>3, CycleOpens
  <1>4. CASE UNCHANGED vars
    <2>1. Steady BY <1>4 DEF Steady, vars
    <2>2. SlotsGood' BY <1>4, <2>1, NoSlotMoves DEF vars
    <2> QED BY <1>4, <2>2 DEF Inv, RowsTyped, LedgerTyped, RowsBacked, vars
  <1> QED BY <1>1, <1>2, <1>3, <1>4, StepGood, Crashes DEF Next

LEMMA AlwaysInv == Spec => []Inv
  BY InitGood, NextGood, PTL DEF Spec

(* Every row of the payout, and every slot of a request, keeps its type,   *)
(* whatever fails: TypeOK of CarrierPayout.                                *)
THEOREM PayoutTypeCorrect == Spec => []TypeOK
  <1>1. Inv => TypeOK BY DEF Inv, RowsTyped, LedgerTyped, SlotsGood, TypeOK
  <1> QED BY <1>1, AlwaysInv, PTL

(* However the requests overlap, are refused, answered to nobody or killed *)
(* between Stripe and the database, no TRANSFER, TRANSFER_REVERSAL or      *)
(* REFUND row tells of money that did not move: RowsBacked.                *)
THEOREM LedgerBacked == Spec => []RowsBacked
  <1>1. Inv => RowsBacked BY DEF Inv
  <1> QED BY <1>1, AlwaysInv, PTL

-----------------------------------------------------------------------------
(* One request at a time.  Then a line that a request read as owed is owed *)
(* until that request pays it: lines are created in the order of their     *)
(* numbers, so an award in between makes new ones, and no other step       *)
(* writes a line.                                                          *)
OneCall  == \A c, d \in Calls : c = d
AllHeard == Faults \subseteq {"refused"}

InUse   == {l \in Lines : line[l].st # "NONE"}
InOrder == InUse = 1..Made

SlotReads(k, ln, t) ==
    /\ k.at \in LineLabels => ln[k.n].st = "ACCRUED" /\ ln[k.n].job = k.job
    /\ k.at \in {"send", "record"} => \A i \in DOMAIN t : t[i].job # k.job
    /\ k.at = "mark" => \A p \in k.pays : ln[p.line].st = "ACCRUED"
SerialFits == InOrder /\ \A c \in Calls : SlotReads(call[c], line, transfer)

(* While no answer is lost and no process dies: a line that is not yet     *)
(* PAID was sent only by the request that is about to record it, and what  *)
(* a cycle has still to send was not sent.                                 *)
Unsent(l, s) == \A p \in s : p.line # l
SlotPays(k, ln, s) ==
    /\ k.at \in {"send", "record"} => \A p \in k.now : p.line = k.n /\ p.key.job = k.job
    /\ k.at \in {"mark", "pay", "runRecord"} => \A p, q \in k.pays : p.line = q.line => p = q
    /\ k.at \in {"pay", "runRecord"} =>
           \A p \in k.pays : ln[p.line].st \in {"PAID", "VOID"} /\ Unsent(p.line, s)
BeingPaid(k, l) == k.at = "record" /\ k.n = l
OwedUnsent == \A l \in Lines : line[l].st \in {"NONE", "ACCRUED"} =>
                  Unsent(l, sent) \/ \E c \in Calls : BeingPaid(call[c], l)
SentOnce == \A p, q \in sent : p.line = q.line => p = q
HeardFits == SentOnce /\ OwedUnsent /\ \A c \in Calls : SlotPays(call[c], line, sent)

LEMMA SerialMoves ==
  ASSUME Inv, OneCall, SerialFits, NEW c \in Calls, NEW k, Begin(c, k),
         SlotReads(k, line', transfer'),
         \A l \in Lines : line'[l].st = "NONE" <=> line[l].st = "NONE"
  PROVE  SerialFits'
  <1>1. InUse' = InUse BY DEF InUse
  <1>2. Made' = Made BY <1>1 DEF InUse, Made
  <1>3. \A d \in Calls : call'[d] = k BY DEF OneCall, Begin, Inv, SlotsGood
  <1> QED BY <1>1, <1>2, <1>3 DEF SerialFits, InOrder

(* The step leaves the slot at a label where nothing read is used again. *)
LEMMA SerialLeaves ==
  ASSUME Inv, OneCall, SerialFits, NEW c \in Calls, NEW k, Begin(c, k),
         k.at \notin LineLabels \cup {"mark"},
         \A l \in Lines : line'[l].st = "NONE" <=> line[l].st = "NONE"
  PROVE  SerialFits'
  <1>1. SlotReads(k, line', transfer') BY DEF SlotReads, LineLabels
  <1> QED BY <1>1, SerialMoves

LEMMA ReturnsTo ==
  ASSUME Inv, NEW c \in Calls, Return(c)
  PROVE  \E k : Begin(c, k) /\ k.at \in {"idle", "refundCheck"}
  <1>1. PICK x : x = call[c] /\ x \in Slot BY DEF Inv, SlotsGood
  <1>2. CASE x.then = "idle"
    <2>1. Begin(c, Idle) BY <1>1, <1>2 DEF Return
    <2> QED BY <2>1 DEF Idle
  <1>3. CASE x.then # "idle"
    <2> DEFINE k == [x EXCEPT !.at = x.then, !.then = "idle"]
    <2>1. Begin(c, k) BY <1>1, <1>3 DEF Return
    <2>2. k.at \in {"idle", "refundCheck"} BY <1>1 DEF Slot
    <2> HIDE DEF k
    <2> QED BY <2>1, <2>2
  <1> QED BY <1>2, <1>3

LEMMA SerialStays ==
  ASSUME SerialFits, UNCHANGED <<line, transfer, call>>
  PROVE  SerialFits'
  BY DEF SerialFits, InOrder, InUse, Made

(* Awards write only lines that nobody has seen. *)
LEMMA NewLines ==
  ASSUME Inv, InOrder, NEW j \in Jobs, NEW k \in Carriers, Award(j, k)
  PROVE  /\ InOrder'
         /\ \A l \in Lines : line[l].st # "NONE" => line'[l] = line[l]
         /\ \A l \in Lines : line'[l].st = "NONE" => line[l].st = "NONE"
         /\ \A l \in Lines : line'[l] = line[l] \/ line'[l].st = "ACCRUED"
  <1>1. CASE line' = line
    BY <1>1 DEF InOrder, InUse, Made
  <1>2. CASE line' # line
    <2>1. IsFiniteSet(Lines) BY FS_Interval, PayoutConstants DEF Lines
    <2>2. Made \in Nat
      <3>1. IsFiniteSet({l \in Lines : line[l].st # "NONE"}) BY <2>1, FS_Subset
      <3> QED BY <3>1, FS_CardinalityType DEF Made
    <2>3. PICK m \in Nat : m = Made BY <2>2
    <2>4. /\ m + 2 <= MaxLines
          /\ line' = [line EXCEPT ![m + 1] = NewLine(j, "CARRIER"), ![m + 2] = NewLine(j, "ADMIN")]
      BY <1>2, <2>3 DEF Award
    <2>5. m + 1 \in Lines /\ m + 2 \in Lines /\ m + 1 # m + 2
      BY <2>4, PayoutConstants DEF Lines
    <2>6. \A l \in Lines : line[l].st # "NONE" <=> l \in 1..m
      BY <2>3 DEF InOrder, InUse
    <2>7. line'[m + 1].st = "ACCRUED" /\ line'[m + 2].st = "ACCRUED"
      BY <2>4, <2>5 DEF Inv, RowsTyped, NewLine
    <2>8. \A l \in Lines \ {m + 1, m + 2} : line'[l] = line[l]
      BY <2>4, <2>5 DEF Inv, RowsTyped
    <2>9. \A l \in Lines : line'[l].st # "NONE" <=> l \in 1..(m + 2)
      BY <2>5, <2>6, <2>7, <2>8 DEF Lines
    <2>10. InUse' = 1..(m + 2)
      <3>1. 1..(m + 2) \subseteq Lines BY <2>4, PayoutConstants DEF Lines
      <3> QED BY <2>9, <3>1 DEF InUse
    <2>11. Made' = m + 2
      <3>1. Made' = Cardinality(InUse') BY DEF Made, InUse
      <3>2. Cardinality(1..(m + 2)) = m + 2 BY FS_Interval
      <3> QED BY <2>10, <3>1, <3>2
    <2>12. InOrder' BY <2>10, <2>11 DEF InOrder
    <2>13. \A l \in Lines : line[l].st # "NONE" => line'[l] = line[l]
      BY <2>6, <2>8
    <2> QED BY <2>7, <2>8, <2>12, <2>13
  <1> QED BY <1>1, <1>2

LEMMA AwardFits ==
  ASSUME Inv, SerialFits, NEW j \in Jobs, NEW k \in Carriers, Award(j, k)
  PROVE  SerialFits'
  <1>1. InOrder' /\ \A l \in Lines : line[l].st # "NONE" => line'[l] = line[l]
    BY NewLines DEF SerialFits
  <1>2. UNCHANGED <<transfer, call>> BY DEF Award
  <1>3. ASSUME NEW c \in Calls PROVE SlotReads(call[c], line', transfer)
    <2> DEFINE x == call[c]
    <2>1. SlotReads(x, line, transfer) BY DEF SerialFits
    <2>2. x.at \in LineLabels => x.n \in Lines
      BY DEF Inv, SlotsGood, SlotGood, SlotTyped
    <2>3. \A p \in x.pays : p.line \in Lines BY DEF Inv, SlotsGood, Slot, Payment
    <2> QED BY <1>1, <2>1, <2>2, <2>3 DEF SlotReads
  <1> QED BY <1>1, <1>2, <1>3 DEF SerialFits

(* Reading what is to be paid. *)
LEMMA ReadsFit ==
  ASSUME Inv, OneCall, SerialFits, NEW c \in Calls,
         \/ DisburseRead(c) \/ DisburseDest(c) \/ DisburseSend(c)
         \/ \E y \in Cycles : RunRead(c, y)
  PROVE  SerialFits'
  <1>1. PICK x : x = call[c] /\ x \in Slot BY DEF Inv, SlotsGood
  <1>2. UNCHANGED <<line, transfer>>
    BY DEF DisburseRead, DisburseDest, DisburseSend, RunRead, Transfer, rows
  <1>3. SlotReads(x, line, transfer) BY <1>1 DEF SerialFits
  <1>4. ASSUME Begin(c, Idle) PROVE SerialFits'
    BY <1>2, <1>4, SerialLeaves DEF Idle, LineLabels
  <1>5. CASE DisburseRead(c)
    <2>1. ASSUME NEW l \in Due(x.job), Begin(c, [x EXCEPT !.at = "dest", !.n = l])
          PROVE  SerialFits'
      <3>1. SlotReads([x EXCEPT !.at = "dest", !.n = l], line, transfer)
        BY <1>1, <2>1 DEF SlotReads, Slot, Due, LinesOf, Owed, LineLabels
      <3> QED BY <1>2, <2>1, <3>1, SerialMoves
    <2>2. \/ Begin(c, Idle)
          \/ \E l \in Due(x.job) : Begin(c, [x EXCEPT !.at = "dest", !.n = l])
      BY <1>1, <1>5 DEF DisburseRead, Leave, Begin, Inv, SlotsGood, Slot
    <2> QED BY <1>4, <2>1, <2>2
  <1>6. CASE DisburseDest(c)
    <2>1. x.at = "dest" BY <1>1, <1>6 DEF DisburseDest, At
    <2>2. CASE Begin(c, [x EXCEPT !.at = "markPaid"])
      <3>1. SlotReads([x EXCEPT !.at = "markPaid"], line, transfer)
        BY <1>1, <1>3, <2>1 DEF SlotReads, Slot, LineLabels
      <3> QED BY <1>2, <2>2, <3>1, SerialMoves
    <2>3. ASSUME NEW P, TransfersOf(x.job) = {}, Begin(c, [x EXCEPT !.at = "send", !.now = P])
          PROVE  SerialFits'
      <3>1. SlotReads([x EXCEPT !.at = "send", !.now = P], line, transfer)
        BY <1>1, <1>3, <2>1, <2>3 DEF SlotReads, Slot, LineLabels, TransfersOf
      <3> QED BY <1>2, <2>3, <3>1, SerialMoves
    <2>4. \/ Begin(c, Idle) \/ Begin(c, [x EXCEPT !.at = "markPaid"])
          \/ TransfersOf(x.job) = {} /\ \E P : Begin(c, [x EXCEPT !.at = "send", !.now = P])
      BY <1>1, <1>6 DEF DisburseDest, Leave, Goto, Begin, Inv, SlotsGood, Slot
    <2> QED BY <1>4, <2>2, <2>3, <2>4
  <1>7. CASE DisburseSend(c)
    <2>1. x.at = "send" BY <1>1, <1>7 DEF DisburseSend, At
    <2>2. CASE Begin(c, [x EXCEPT !.at = "record"])
      <3>1. SlotReads([x EXCEPT !.at = "record"], line, transfer)
        BY <1>1, <1>3, <2>1 DEF SlotReads, Slot, LineLabels
      <3> QED BY <1>2, <2>2, <3>1, SerialMoves
    <2> QED BY <1>1, <1>4, <1>7, <2>2 DEF DisburseSend, Transfer
  <1>8. ASSUME NEW y \in Cycles, RunRead(c, y) PROVE SerialFits'
    <2>1. PICK n \in cycle[y].made..Made :
            Begin(c, [Idle EXCEPT !.at = "mark", !.n = y,
                        !.pays = {[key |-> CycleKey(y, l), line |-> l, dest |-> PayeeOf(l)] :
                                  l \in {l \in Lines : line[l].st # "NONE" /\ Eligible(l) /\ Covers(l, n)}}])
      BY <1>8 DEF RunRead
    <2> DEFINE P == {[key |-> CycleKey(y, l), line |-> l, dest |-> PayeeOf(l)] :
                     l \in {l \in Lines : line[l].st # "NONE" /\ Eligible(l) /\ Covers(l, n)}}
               k == [Idle EXCEPT !.at = "mark", !.n = y, !.pays = P]
    <2>2. \A p \in P : line[p.line].st = "ACCRUED" BY DEF Eligible, Owed
    <2>3. Begin(c, k) BY <2>1
    <2> HIDE DEF P
    <2>4. SlotReads(k, line, transfer) BY <2>2 DEF SlotReads, Idle, LineLabels
    <2> HIDE DEF k
    <2> QED BY <1>2, <2>3, <2>4, SerialMoves
  <1> QED BY <1>5, <1>6, <1>7, <1>8

(* Everything else leaves such labels. *)
LEMMA WritesFit ==
  ASSUME Inv, OneCall, SerialFits, NEW c \in Calls, DisburseMark(c) \/ DisburseRecord(c)
  PROVE  SerialFits'
  <1>1. PICK l \in Lines : l = call[c].n
    BY DEF DisburseMark, DisburseRecord, At, LineLabels, Inv, SlotsGood, SlotGood, SlotTyped
  <1>2. line[l].st = "ACCRUED"
    BY <1>1 DEF DisburseMark, DisburseRecord, At, LineLabels, SerialFits, SlotReads
  <1>3. line' = line \/ line' = [line EXCEPT ![l].st = "PAID"]
    BY <1>1 DEF DisburseMark, DisburseRecord
  <1>4. \A m \in Lines : line'[m].st = "NONE" <=> line[m].st = "NONE"
    BY <1>2, <1>3 DEF Inv, RowsTyped, Line
  <1>5. Begin(c, Idle) BY DEF DisburseMark, DisburseRecord, Leave
  <1> QED BY <1>4, <1>5, SerialLeaves DEF Idle, LineLabels

LEMMA ListsFit ==
  ASSUME Inv, OneCall, SerialFits, NEW c \in Calls, RunMark(c) \/ VoidLines(c)
  PROVE  SerialFits'
  <1>1. PICK x : x = call[c] /\ x \in Slot BY DEF Inv, SlotsGood
  <1>2. CASE RunMark(c)
    <2>1. \A p \in x.pays : line[p.line].st = "ACCRUED"
      BY <1>1, <1>2 DEF RunMark, At, SerialFits, SlotReads
    <2>2. \A m \in Lines : line'[m].st = "NONE" <=> line[m].st = "NONE"
      BY <1>1, <1>2, <2>1 DEF RunMark, Inv, RowsTyped, Line
    <2>3. \E P : Begin(c, [x EXCEPT !.at = "pay", !.pays = P])
      BY <1>1, <1>2 DEF RunMark, Begin, Inv, SlotsGood, Slot
    <2>4. \A P : [x EXCEPT !.at = "pay", !.pays = P].at = "pay" BY <1>1 DEF Slot
    <2> QED BY <2>2, <2>3, <2>4, SerialLeaves DEF LineLabels
  <1>3. CASE VoidLines(c)
    <2>1. \A m \in Lines : line'[m].st = "NONE" <=> line[m].st = "NONE"
      BY <1>3 DEF VoidLines, LinesOf, Inv, RowsTyped, Line
    <2>2. PICK k : Begin(c, k) /\ k.at \in {"idle", "refundCheck"}
      BY <1>3, ReturnsTo DEF VoidLines
    <2> QED BY <2>1, <2>2, SerialLeaves DEF LineLabels
  <1> QED BY <1>2, <1>3

(* Steps after which the slot has nothing to do with a payment. *)
MovesOff(c) ==
    \/ Complete(c) \/ RunEnd(c) \/ AdjustRead(c) \/ ReverseSend(c) \/ ReverseRow(c)
    \/ RefundCheck(c) \/ RefundSend(c) \/ RefundRow(c)
    \/ \E j \in Jobs : CompleteRead(c, j) \/ Release(c, j) \/ RefundRead(c, j)
PayLabels == LineLabels \cup {"mark", "pay", "runRecord"}

LEMMA OthersLeave ==
  ASSUME Inv, NEW c \in Calls, MovesOff(c)
  PROVE  UNCHANGED <<line, sent>> /\ \E k : Begin(c, k) /\ k.at \notin PayLabels
  <1>1. PICK x : x = call[c] /\ x \in Slot BY DEF Inv, SlotsGood
  <1>2. UNCHANGED <<line, sent>>
    BY DEF MovesOff, Complete, RunEnd, AdjustRead, ReverseSend, ReverseRow, RefundCheck,
           RefundSend, RefundRow, CompleteRead, Release, RefundRead, rows, stripe
  <1> DEFINE Gone(k) == Begin(c, k) /\ k.at \notin PayLabels
  <1> SUFFICES ASSUME TRUE PROVE \E k : Gone(k) BY <1>2
  <1>3. Begin(c, Idle) => Gone(Idle) BY DEF Idle, PayLabels, LineLabels
  <1>4. ASSUME NEW l \in Labels \ PayLabels, Goto(c, l) PROVE \E k : Gone(k)
    <2>1. Begin(c, [x EXCEPT !.at = l]) BY <1>1, <1>4 DEF Goto, Begin, Inv, SlotsGood
    <2>2. [x EXCEPT !.at = l].at = l BY <1>1 DEF Slot
    <2> QED BY <1>4, <2>1, <2>2
  <1>5. Return(c) => \E k : Gone(k) BY ReturnsTo DEF PayLabels, LineLabels
  <1>6. CASE \/ Complete(c) \/ RunEnd(c) \/ ReverseSend(c) \/ ReverseRow(c) \/ RefundCheck(c)
             \/ RefundSend(c) \/ RefundRow(c)
    <2>1. {"disburse", "reverseRow", "void", "refundSend", "refundRow"} \subseteq Labels \ PayLabels
      BY DEF Labels, LineLabels, PayLabels
    <2>2. \/ Begin(c, Idle) \/ Return(c)
          \/ \E l \in {"disburse", "reverseRow", "void", "refundSend", "refundRow"} : Goto(c, l)
      BY <1>6 DEF Complete, RunEnd, ReverseSend, ReverseRow, RefundCheck, RefundSend, RefundRow,
             Leave
    <2> QED BY <1>3, <1>4, <1>5, <2>1, <2>2
  <1>7. CASE \E j \in Jobs : CompleteRead(c, j) \/ Release(c, j) \/ RefundRead(c, j)
    <2>1. PICK j \in Jobs : \/ Begin(c, [Idle EXCEPT !.at = "complete", !.job = j])
                            \/ Begin(c, OnMoney(j, "idle")) \/ Begin(c, OnMoney(j, "refundCheck"))
      BY <1>7 DEF CompleteRead, Release, RefundRead
    <2>2. /\ [Idle EXCEPT !.at = "complete", !.job = j].at = "complete"
          /\ OnMoney(j, "idle").at = "adjust" /\ OnMoney(j, "refundCheck").at = "adjust"
      BY DEF Idle, OnMoney
    <2> QED BY <2>1, <2>2 DEF PayLabels, LineLabels
  <1>8. CASE AdjustRead(c)
    <2>1. ASSUME NEW i, call' = [call EXCEPT ![c].at = "reverse", ![c].n = i]
          PROVE  \E k : Gone(k)
      <3>1. Begin(c, [x EXCEPT !.at = "reverse", !.n = i])
        BY <1>1, <2>1 DEF Begin, Inv, SlotsGood, Slot
      <3>2. [x EXCEPT !.at = "reverse", !.n = i].at = "reverse" BY <1>1 DEF Slot
      <3> QED BY <3>1, <3>2 DEF PayLabels, LineLabels
    <2>2. "void" \in Labels \ PayLabels BY DEF Labels, PayLabels, LineLabels
    <2> QED BY <1>4, <1>8, <2>1, <2>2 DEF AdjustRead
  <1> QED BY <1>6, <1>7, <1>8 DEF MovesOff

LEMMA OthersFit ==
  ASSUME Inv, OneCall, SerialFits, NEW c \in Calls,
         MovesOff(c) \/ RunSend(c) \/ RunRecord(c) \/ Crash(c)
  PROVE  SerialFits'
  <1>1. PICK x : x = call[c] /\ x \in Slot BY DEF Inv, SlotsGood
  <1>2. CASE MovesOff(c) BY <1>2, OthersLeave, SerialLeaves DEF PayLabels
  <1>3. CASE Crash(c)
    BY <1>3, SerialLeaves DEF Crash, Leave, Idle, LineLabels, rows
  <1>4. CASE RunRecord(c)
    <2>1. Begin(c, [x EXCEPT !.at = "pay", !.now = {}])
      BY <1>1, <1>4 DEF RunRecord, Begin, Inv, SlotsGood, Slot
    <2>2. [x EXCEPT !.at = "pay", !.now = {}].at = "pay" BY <1>1 DEF Slot
    <2>3. line' = line BY <1>4 DEF RunRecord
    <2> QED BY <2>1, <2>2, <2>3, SerialLeaves DEF LineLabels
  <1>5. CASE RunSend(c)
    <2>1. x.at = "pay" /\ line' = line BY <1>1, <1>5 DEF RunSend, At, Transfer, rows
    <2>2. PICK P, N : \/ Begin(c, [[x EXCEPT !.pays = P] EXCEPT !.at = "runRecord", !.now = N])
                      \/ Begin(c, [x EXCEPT !.pays = P])
      BY <1>1, <1>5 DEF RunSend, Transfer
    <2>3. /\ [[x EXCEPT !.pays = P] EXCEPT !.at = "runRecord", !.now = N].at = "runRecord"
          /\ [x EXCEPT !.pays = P].at = "pay"
      BY <1>1, <2>1 DEF Slot
    <2> QED BY <2>1, <2>2, <2>3, SerialLeaves DEF LineLabels
  <1> QED BY <1>2, <1>3, <1>4, <1>5

LEMMA InitFits == Init => SerialFits
  <1> SUFFICES ASSUME Init PROVE SerialFits OBVIOUS
  <1>1. InUse = {} BY DEF Init, InUse, NoLine
  <1>2. Made = 0 BY <1>1, FS_EmptySet DEF InUse, Made
  <1>3. InOrder BY <1>1, <1>2 DEF InOrder
  <1> QED BY <1>3 DEF Init, SerialFits, SlotReads, Idle, LineLabels

LEMMA NextFits ==
  ASSUME Inv, OneCall, SerialFits, [Next]_vars
  PROVE  SerialFits'
  <1>1. ASSUME NEW c \in Calls, Arrive(c) \/ Step(c) \/ Crash(c) PROVE SerialFits'
    BY <1>1, ReadsFit, WritesFit, ListsFit, OthersFit DEF Arrive, Step, MovesOff
  <1>2. ASSUME NEW j \in Jobs, NEW k \in Carriers, Award(j, k) PROVE SerialFits'
    BY <1>2, AwardFits
  <1>3. CASE (\E y \in Cycles : OpenCycle(y)) \/ UNCHANGED vars
    BY <1>3, SerialStays DEF OpenCycle, vars
  <1> QED BY <1>1, <1>2, <1>3 DEF Next

(* One request at a time, whatever else fails, a line that a release or a  *)
(* refund has voided is never PAID again: neither by the trip's completion *)
(* nor by a settlement cycle (VoidStays).                                  *)
THEOREM VoidLinesStay == ASSUME OneCall PROVE Spec => VoidStays
  <1> DEFINE Stays == \A l \in Lines : line[l].st = "VOID" => line'[l].st = "VOID"
  <1>1. ASSUME Inv, SerialFits, [Next]_vars PROVE Stays
    <2>1. CASE UNCHANGED line BY <2>1
    <2>2. ASSUME NEW j \in Jobs, NEW k \in Carriers, Award(j, k) PROVE Stays
      BY <1>1, <2>2, NewLines DEF SerialFits
    <2>3. ASSUME NEW c \in Calls, DisburseMark(c) \/ DisburseRecord(c) PROVE Stays
      <3>1. line[call[c].n].st = "ACCRUED"
        BY <1>1, <2>3 DEF DisburseMark, DisburseRecord, At, LineLabels, SerialFits, SlotReads
      <3>2. line' = line \/ line' = [line EXCEPT ![call[c].n].st = "PAID"]
        BY <2>3 DEF DisburseMark, DisburseRecord
      <3> QED BY <1>1, <3>1, <3>2 DEF Inv, RowsTyped
    <2>4. ASSUME NEW c \in Calls, RunMark(c) PROVE Stays
      <3>1. \A p \in call[c].pays : line[p.line].st = "ACCRUED"
        BY <1>1, <2>4 DEF RunMark, At, SerialFits, SlotReads
      <3> QED BY <2>4, <3>1 DEF RunMark
    <2>5. ASSUME NEW c \in Calls, VoidLines(c) PROVE Stays
      BY <1>1, <2>5 DEF VoidLines, Inv, RowsTyped, Line
    <2>6. ASSUME NEW c \in Calls, \/ MovesOff(c) \/ RunSend(c) \/ RunRecord(c) \/ Crash(c)
                                  \/ DisburseRead(c) \/ DisburseDest(c) \/ DisburseSend(c)
                                  \/ \E y \in Cycles : RunRead(c, y)
          PROVE  UNCHANGED line
      BY <1>1, <2>6, OthersLeave
         DEF RunSend, RunRecord, Crash, DisburseRead, DisburseDest, DisburseSend, RunRead, Transfer,
             rows
    <2>7. (\E y \in Cycles : OpenCycle(y)) \/ UNCHANGED vars => UNCHANGED line
      BY DEF OpenCycle, vars
    <2> QED BY <1>1, <2>1, <2>2, <2>3, <2>4, <2>5, <2>6, <2>7 DEF Next, Arrive, Step, MovesOff
  <1>2. Inv /\ SerialFits /\ [Next]_vars => SerialFits' /\ [Stays]_vars BY <1>1, NextFits
  <1> QED BY <1>2, AlwaysInv, InitFits, PTL DEF Spec, VoidStays

(* While answers are heard: the slots that pay, and the lines they pay.    *)
LEMMA HeardMoves ==
  ASSUME Inv, OneCall, HeardFits, NEW c \in Calls, call[c].at # "record", NEW k, Begin(c, k),
         UNCHANGED sent,
         \A l \in Lines : line'[l].st \in {"NONE", "ACCRUED"} => line[l].st \in {"NONE", "ACCRUED"},
         SlotPays(k, line', sent)
  PROVE  HeardFits'
  <1>1. \A d \in Calls : call'[d] = k BY DEF OneCall, Begin, Inv, SlotsGood
  <1>2. \A d \in Calls : ~(\E l : BeingPaid(call[d], l)) BY DEF OneCall, BeingPaid
  <1>3. OwedUnsent' BY <1>2 DEF HeardFits, OwedUnsent
  <1> QED BY <1>1, <1>3 DEF HeardFits, SentOnce

LEMMA HeardLeaves ==
  ASSUME Inv, OneCall, HeardFits, NEW c \in Calls, call[c].at # "record", NEW k, Begin(c, k),
         k.at \notin PayLabels, UNCHANGED sent,
         \A l \in Lines : line'[l].st \in {"NONE", "ACCRUED"} => line[l].st \in {"NONE", "ACCRUED"}
  PROVE  HeardFits'
  <1>1. SlotPays(k, line', sent) BY DEF SlotPays, PayLabels, LineLabels
  <1> QED BY <1>1, HeardMoves

LEMMA HeardAwards ==
  ASSUME Inv, SerialFits, HeardFits, NEW j \in Jobs, NEW k \in Carriers, Award(j, k)
  PROVE  HeardFits'
  <1>1. /\ \A l \in Lines : line[l].st # "NONE" => line'[l] = line[l]
        /\ \A l \in Lines : line'[l] = line[l] \/ line'[l].st = "ACCRUED"
    BY NewLines DEF SerialFits
  <1>2. UNCHANGED <<sent, call>> BY DEF Award, stripe
  <1>3. OwedUnsent'
    <2> SUFFICES ASSUME NEW l \in Lines, line'[l].st \in {"NONE", "ACCRUED"}
                 PROVE  line[l].st \in {"NONE", "ACCRUED"}
      BY <1>2 DEF HeardFits, OwedUnsent
    <2> QED BY <1>1
  <1>4. ASSUME NEW c \in Calls PROVE SlotPays(call[c], line', sent)
    <2>1. SlotPays(call[c], line, sent) BY DEF HeardFits
    <2>2. \A p \in call[c].pays : p.line \in Lines BY DEF Inv, SlotsGood, Slot, Payment
    <2> QED BY <1>1, <2>1, <2>2 DEF SlotPays
  <1> QED BY <1>2, <1>3, <1>4 DEF HeardFits, SentOnce

LEMMA HeardDisburses ==
  ASSUME Inv, OneCall, SerialFits, HeardFits, NEW c \in Calls, DisburseRead(c) \/ DisburseDest(c)
  PROVE  HeardFits'
  <1>1. PICK x : x = call[c] /\ x \in Slot BY DEF Inv, SlotsGood
  <1>2. UNCHANGED <<line, sent>> /\ x.at \in {"disburse", "dest"}
    BY <1>1 DEF DisburseRead, DisburseDest, At, rows, stripe
  <1>3. ASSUME NEW k, Begin(c, k), k.at \in {"idle", "dest", "markPaid"} PROVE HeardFits'
    <2>1. SlotPays(k, line', sent) BY <1>3 DEF SlotPays
    <2> QED BY <1>1, <1>2, <1>3, <2>1, HeardMoves
  <1>4. CASE DisburseRead(c)
    <2>1. \/ Begin(c, Idle)
          \/ \E l : Begin(c, [x EXCEPT !.at = "dest", !.n = l])
      BY <1>1, <1>4 DEF DisburseRead, Leave, Begin, Inv, SlotsGood, Slot
    <2>2. Idle.at = "idle" /\ \A l : [x EXCEPT !.at = "dest", !.n = l].at = "dest"
      BY <1>1 DEF Slot, Idle
    <2> QED BY <1>3, <2>1, <2>2
  <1>5. CASE DisburseDest(c)
    <2> DEFINE p == [key |-> LineKey(x.n), line |-> x.n, dest |-> carrier[x.job]]
               k == [x EXCEPT !.at = "send", !.now = {p}]
    <2>1. line[x.n].job = x.job
      BY <1>1, <1>5 DEF DisburseDest, At, SerialFits, SlotReads, LineLabels
    <2>2. p.line = x.n /\ p.key.job = x.job BY <2>1 DEF LineKey
    <2> HIDE DEF p
    <2>3. SlotPays(k, line', sent) BY <1>1, <2>2 DEF SlotPays, Slot
    <2>4. Begin(c, Idle) \/ Begin(c, [x EXCEPT !.at = "markPaid"]) \/ Begin(c, k)
      BY <1>1, <1>5 DEF DisburseDest, Leave, Goto, Begin, Inv, SlotsGood, Slot, p
    <2>5. Idle.at = "idle" /\ [x EXCEPT !.at = "markPaid"].at = "markPaid"
      BY <1>1 DEF Slot, Idle
    <2> HIDE DEF k
    <2> QED BY <1>1, <1>2, <1>3, <2>3, <2>4, <2>5, HeardMoves
  <1> QED BY <1>4, <1>5

(* A transfer to Stripe is answered or refused. *)
LEMMA TransferHeard ==
  ASSUME AllHeard, NEW c, NEW p, NEW k, NEW m, Transfer(c, p, k, m)
  PROVE  /\ UNCHANGED line
         /\ \/ sent' \in {sent, sent \cup {p}} /\ Begin(c, k)
            \/ UNCHANGED sent /\ Begin(c, m)
  <1>1. ~Unheard BY DEF Unheard, Counts, AllHeard
  <1> QED BY <1>1 DEF Transfer, Executed, rows

LEMMA HeardSends ==
  ASSUME Inv, OneCall, AllHeard, SerialFits, HeardFits, NEW c \in Calls, DisburseSend(c)
  PROVE  HeardFits'
  <1>1. PICK x : x = call[c] /\ x \in Slot BY DEF Inv, SlotsGood
  <1> DEFINE k == [x EXCEPT !.at = "record"]
  <1>2. PICK p \in x.now : Transfer(c, p, k, Idle) BY <1>1 DEF DisburseSend
  <1>3. x.at = "send" /\ x.n \in Lines
    BY <1>1 DEF DisburseSend, At, Inv, SlotsGood, SlotGood, SlotTyped, LineLabels
  <1>4. p.line = x.n /\ line[x.n].st = "ACCRUED"
    BY <1>1, <1>2, <1>3 DEF HeardFits, SlotPays, SerialFits, SlotReads, LineLabels
  <1>5. k.at = "record" /\ k.n = x.n /\ k.job = x.job /\ k.now = x.now /\ Idle.at = "idle"
    BY <1>1 DEF Slot, Idle
  <1> HIDE DEF k
  <1>6. CASE UNCHANGED <<line, sent>> /\ Begin(c, Idle)
    BY <1>1, <1>3, <1>5, <1>6, HeardLeaves DEF PayLabels, LineLabels
  <1>7. CASE line' = line /\ sent' \in {sent, sent \cup {p}} /\ Begin(c, k)
    <2>1. \A d \in Calls : call'[d] = k BY <1>7 DEF OneCall, Begin, Inv, SlotsGood
    <2>2. \A l \in Lines : line[l].st \in {"NONE", "ACCRUED"} => Unsent(l, sent)
      BY <1>1, <1>3 DEF OneCall, HeardFits, OwedUnsent, BeingPaid
    <2>3. SentOnce'
      BY <1>3, <1>4, <1>7, <2>2 DEF HeardFits, SentOnce, Unsent
    <2>4. OwedUnsent'
      <3>1. ASSUME NEW l \in Lines, line[l].st \in {"NONE", "ACCRUED"}, l # x.n
            PROVE  Unsent(l, sent')
        BY <1>4, <1>7, <2>2, <3>1 DEF Unsent
      <3>2. BeingPaid(call'[c], x.n) BY <1>5, <2>1 DEF BeingPaid
      <3> QED BY <1>7, <3>1, <3>2 DEF OwedUnsent
    <2>5. SlotPays(k, line', sent')
      BY <1>1, <1>3, <1>5 DEF HeardFits, SlotPays
    <2> QED BY <2>1, <2>3, <2>4, <2>5 DEF HeardFits
  <1> QED BY <1>2, <1>6, <1>7, TransferHeard

(* The row of a transfer is new, so its line becomes PAID. *)
LEMMA HeardRecords ==
  ASSUME Inv, OneCall, SerialFits, HeardFits, NEW c \in Calls, DisburseRecord(c) \/ DisburseMark(c)
  PROVE  HeardFits'
  <1>1. PICK x : x = call[c] /\ x \in Slot BY DEF Inv, SlotsGood
  <1>2. x.n \in Lines /\ UNCHANGED sent /\ Begin(c, Idle)
    BY <1>1 DEF DisburseRecord, DisburseMark, At, Inv, SlotsGood, SlotGood, SlotTyped, LineLabels,
           stripe, Leave
  <1>3. line' = [line EXCEPT ![x.n].st = "PAID"]
    <2>1. CASE DisburseMark(c) BY <1>1, <2>1 DEF DisburseMark
    <2>2. CASE DisburseRecord(c)
      <3>1. x.at = "record" BY <1>1, <2>2 DEF DisburseRecord, At
      <3>2. \A i \in DOMAIN transfer : transfer[i].job # x.job
        BY <1>1, <3>1 DEF SerialFits, SlotReads
      <3>3. \A p \in x.now : p.key.job = x.job BY <1>1, <3>1 DEF HeardFits, SlotPays
      <3>4. \A p \in x.now : ~Recorded(p.key) BY <3>2, <3>3 DEF Recorded
      <3> QED BY <1>1, <2>2, <3>4 DEF DisburseRecord
    <2> QED BY <2>1, <2>2
  <1>4. line'[x.n].st = "PAID" /\ \A l \in Lines \ {x.n} : line'[l] = line[l]
    BY <1>2, <1>3 DEF Inv, RowsTyped, Line
  <1>5. OwedUnsent'
    <2> SUFFICES ASSUME NEW l \in Lines, line'[l].st \in {"NONE", "ACCRUED"}
                 PROVE  Unsent(l, sent)
      BY <1>2 DEF OwedUnsent
    <2>1. l # x.n /\ line[l].st \in {"NONE", "ACCRUED"} BY <1>4
    <2> QED BY <1>1, <2>1 DEF HeardFits, OwedUnsent, BeingPaid, OneCall
  <1>6. \A d \in Calls : call'[d] = Idle BY <1>2 DEF OneCall, Begin, Inv, SlotsGood
  <1>7. SlotPays(Idle, line', sent') BY DEF SlotPays, Idle
  <1> QED BY <1>2, <1>5, <1>6, <1>7 DEF HeardFits, SentOnce

(* A cycle plans one payment for a line, and marks the line before it pays.*)
LEMMA HeardRuns ==
  ASSUME Inv, OneCall, SerialFits, HeardFits, NEW c \in Calls,
         (\E y \in Cycles : RunRead(c, y)) \/ RunMark(c) \/ RunRecord(c)
  PROVE  HeardFits'
  <1>1. PICK x : x = call[c] /\ x \in Slot BY DEF Inv, SlotsGood
  <1>2. ASSUME NEW y \in Cycles, RunRead(c, y) PROVE HeardFits'
    <2>1. PICK n \in cycle[y].made..Made :
            Begin(c, [Idle EXCEPT !.at = "mark", !.n = y,
                        !.pays = {[key |-> CycleKey(y, l), line |-> l, dest |-> PayeeOf(l)] :
                                  l \in {l \in Lines : line[l].st # "NONE" /\ Eligible(l) /\ Covers(l, n)}}])
      BY <1>2 DEF RunRead
    <2> DEFINE P == {[key |-> CycleKey(y, l), line |-> l, dest |-> PayeeOf(l)] :
                     l \in {l \in Lines : line[l].st # "NONE" /\ Eligible(l) /\ Covers(l, n)}}
               k == [Idle EXCEPT !.at = "mark", !.n = y, !.pays = P]
    <2>2. \A p, q \in P : p.line = q.line => p = q OBVIOUS
    <2>3. Begin(c, k) BY <2>1
    <2> HIDE DEF P
    <2>4. SlotPays(k, line, sent) BY <2>2 DEF SlotPays, Idle
    <2>5. UNCHANGED <<line, sent>> /\ x.at = "idle" BY <1>1, <1>2 DEF RunRead, Free, rows, stripe
    <2> HIDE DEF k
    <2> QED BY <1>1, <2>3, <2>4, <2>5, HeardMoves
  <1>3. CASE RunMark(c)
    <2> DEFINE k == [x EXCEPT !.at = "pay", !.pays = {p \in x.pays : p.dest \in Connected}]
    <2>1. x.at = "mark" /\ UNCHANGED sent /\ \A p \in x.pays : p.line \in Lines
      BY <1>1, <1>3 DEF RunMark, At, stripe, Slot, Payment
    <2>2. Begin(c, k) BY <1>1, <1>3 DEF RunMark, Begin, Inv, SlotsGood, Slot
    <2>3. /\ \A p \in x.pays : line[p.line].st = "ACCRUED"
          /\ \A p, q \in x.pays : p.line = q.line => p = q
      BY <1>1, <2>1 DEF SerialFits, SlotReads, HeardFits, SlotPays
    <2>4. /\ \A p \in x.pays : line'[p.line].st = "PAID"
          /\ \A l \in Lines : line'[l].st = "PAID" \/ line'[l] = line[l]
      BY <1>1, <1>3, <2>1 DEF RunMark, Inv, RowsTyped, Line
    <2>5. \A p \in x.pays : Unsent(p.line, sent)
      BY <1>1, <2>1, <2>3 DEF HeardFits, OwedUnsent, BeingPaid, OneCall
    <2>6. k.at = "pay" /\ k.pays \subseteq x.pays BY <1>1 DEF Slot
    <2> HIDE DEF k
    <2>7. SlotPays(k, line', sent) BY <2>3, <2>4, <2>5, <2>6 DEF SlotPays
    <2>8. \A l \in Lines : line'[l].st \in {"NONE", "ACCRUED"} => line[l].st \in {"NONE", "ACCRUED"}
      BY <2>4
    <2> QED BY <1>1, <2>1, <2>2, <2>7, <2>8, HeardMoves
  <1>4. CASE RunRecord(c)
    <2> DEFINE k == [x EXCEPT !.at = "pay", !.now = {}]
    <2>1. x.at = "runRecord" /\ UNCHANGED <<line, sent>>
      BY <1>1, <1>4 DEF RunRecord, At, stripe
    <2>2. Begin(c, k) BY <1>1, <1>4 DEF RunRecord, Begin, Inv, SlotsGood, Slot
    <2>3. k.at = "pay" /\ k.pays = x.pays BY <1>1 DEF Slot
    <2>4. SlotPays(x, line, sent) BY <1>1 DEF HeardFits
    <2> HIDE DEF k
    <2>5. SlotPays(k, line, sent) BY <2>1, <2>3, <2>4 DEF SlotPays
    <2> QED BY <1>1, <2>1, <2>2, <2>5, HeardMoves
  <1> QED BY <1>2, <1>3, <1>4

LEMMA HeardRunSends ==
  ASSUME Inv, OneCall, AllHeard, HeardFits, NEW c \in Calls, RunSend(c)
  PROVE  HeardFits'
  <1>1. PICK x : x = call[c] /\ x \in Slot BY DEF Inv, SlotsGood
  <1>2. PICK p \in x.pays :
          Transfer(c, p, [[x EXCEPT !.pays = @ \ {p}] EXCEPT !.at = "runRecord", !.now = {p}],
                      [x EXCEPT !.pays = @ \ {p}])
    BY <1>1 DEF RunSend
  <1> DEFINE m == [x EXCEPT !.pays = @ \ {p}]
             k == [m EXCEPT !.at = "runRecord", !.now = {p}]
  <1>3. x.at = "pay" BY <1>1 DEF RunSend, At
  <1>4. /\ m.at = "pay" /\ m.pays = x.pays \ {p}
        /\ k.at = "runRecord" /\ k.pays = x.pays \ {p}
    BY <1>1, <1>3 DEF Slot
  <1>5. Transfer(c, p, k, m) BY <1>2
  <1> HIDE DEF k, m
  <1>6. /\ \A q \in x.pays : line[q.line].st \in {"PAID", "VOID"} /\ Unsent(q.line, sent)
        /\ \A q, r \in x.pays : q.line = r.line => q = r
    BY <1>1, <1>3 DEF HeardFits, SlotPays
  <1>7. line' = line /\ sent' \in {sent, sent \cup {p}} /\ (Begin(c, k) \/ Begin(c, m))
    BY <1>5, TransferHeard
  <1>8. PICK z : Begin(c, z) /\ z.at \in {"pay", "runRecord"} /\ z.pays = x.pays \ {p}
    BY <1>4, <1>7
  <1>9. \A d \in Calls : call'[d] = z BY <1>8 DEF OneCall, Begin, Inv, SlotsGood
  <1>10. SentOnce' BY <1>6, <1>7 DEF HeardFits, SentOnce, Unsent
  <1>11. OwedUnsent'
    <2> SUFFICES ASSUME NEW l \in Lines, line[l].st \in {"NONE", "ACCRUED"}
                 PROVE  Unsent(l, sent')
      BY <1>7 DEF OwedUnsent
    <2>1. Unsent(l, sent) BY <1>1, <1>3 DEF HeardFits, OwedUnsent, BeingPaid, OneCall
    <2>2. p.line # l BY <1>6
    <2> QED BY <1>7, <2>1, <2>2 DEF Unsent
  <1>12. SlotPays(z, line', sent')
    <2>1. ASSUME NEW q \in z.pays PROVE Unsent(q.line, sent')
      BY <1>6, <1>7, <1>8 DEF Unsent
    <2> QED BY <1>6, <1>7, <1>8, <2>1 DEF SlotPays
  <1> QED BY <1>9, <1>10, <1>11, <1>12 DEF HeardFits

LEMMA HeardOthers ==
  ASSUME Inv, OneCall, HeardFits, NEW c \in Calls, MovesOff(c) \/ VoidLines(c)
  PROVE  HeardFits'
  <1>1. call[c].at # "record"
    BY DEF MovesOff, VoidLines, Complete, RunEnd, AdjustRead, ReverseSend, ReverseRow, RefundCheck,
           RefundSend, RefundRow, CompleteRead, Release, RefundRead, At, Free
  <1>2. CASE MovesOff(c) BY <1>1, <1>2, OthersLeave, HeardLeaves
  <1>3. CASE VoidLines(c)
    <2>1. \A l \in Lines : line'[l].st \in {"NONE", "ACCRUED"} => line[l].st \in {"NONE", "ACCRUED"}
      BY <1>3 DEF VoidLines, Inv, RowsTyped, Line
    <2>2. PICK k : Begin(c, k) /\ k.at \in {"idle", "refundCheck"}
      BY <1>3, ReturnsTo DEF VoidLines
    <2>3. UNCHANGED sent BY <1>3 DEF VoidLines, stripe
    <2> QED BY <1>1, <2>1, <2>2, <2>3, HeardLeaves DEF PayLabels, LineLabels
  <1> QED BY <1>2, <1>3

LEMMA NextHeard ==
  ASSUME Inv, OneCall, AllHeard, SerialFits, HeardFits, [Next]_vars
  PROVE  HeardFits'
  <1>1. ASSUME NEW c \in Calls, Arrive(c) \/ Step(c) PROVE HeardFits'
    BY <1>1, HeardDisburses, HeardSends, HeardRecords, HeardRuns, HeardRunSends, HeardOthers
       DEF Arrive, Step, MovesOff
  <1>2. ASSUME NEW c \in Calls, Crash(c) PROVE FALSE BY <1>2 DEF Crash, Counts, AllHeard
  <1>3. ASSUME NEW j \in Jobs, NEW k \in Carriers, Award(j, k) PROVE HeardFits'
    BY <1>3, HeardAwards
  <1>4. CASE (\E y \in Cycles : OpenCycle(y)) \/ UNCHANGED vars
    BY <1>4 DEF OpenCycle, vars, stripe, HeardFits, SentOnce, OwedUnsent
  <1> QED BY <1>1, <1>2, <1>3, <1>4 DEF Next

(* One request at a time, while every answer of Stripe is heard, the two   *)
(* ways to pay a line do not both pay it: tryDisburseCarrierTransfer on    *)
(* completion and runDisbursement of a cycle (LinePaidOnce).               *)
THEOREM LineIsPaidOnce == ASSUME OneCall, AllHeard PROVE Spec => []LinePaidOnce
  <1>1. Init => HeardFits
    BY DEF Init, HeardFits, SentOnce, OwedUnsent, Unsent, SlotPays, Idle
  <1>2. Inv /\ SerialFits /\ HeardFits /\ [Next]_vars => SerialFits' /\ HeardFits'
    BY NextFits, NextHeard
  <1>3. SentOnce => LinePaidOnce
    <2> SUFFICES ASSUME SentOnce, NEW l \in Lines
                 PROVE  Cardinality({p \in sent : p.line = l}) <= 1
      BY DEF LinePaidOnce
    <2>1. CASE {p \in sent : p.line = l} = {} BY <2>1, FS_EmptySet
    <2>2. ASSUME NEW p \in sent, p.line = l PROVE Cardinality({q \in sent : q.line = l}) <= 1
      <3>1. {q \in sent : q.line = l} = {p} BY <2>2 DEF SentOnce
      <3>2. Cardinality({p}) = 1 BY FS_Singleton
      <3> QED BY <3>1, <3>2
    <2> QED BY <2>1, <2>2
  <1>4. HeardFits => LinePaidOnce BY <1>3 DEF HeardFits
  <1> QED BY <1>1, <1>2, <1>4, AlwaysInv, InitFits, PTL DEF Spec

-----------------------------------------------------------------------------
(* The revenue split, which the lines of a payout come from.  For every    *)
(* fare and all percents: the cents of the lines add up to the fare, and   *)
(* each share is its percentage but for rounding.  They are in the         *)
(* percentages agreed only while these make 100: ResolvedTotal says when   *)
(* the percents of a package do.                                           *)

LEMMA ShareRounds ==
  ASSUME NEW gross \in Nat, NEW percent \in Percent
  PROVE  /\ Share(gross, percent) \in Nat
         /\ 100 * Share(gross, percent) <= gross * percent + 50
         /\ 100 * Share(gross, percent) > gross * percent - 50
  <1> DEFINE x == gross * percent
  <1>1. x \in Nat BY DEF Percent
  <1> HIDE DEF x
  <1>2. /\ (x + 50) \div 100 \in Nat
        /\ 100 * ((x + 50) \div 100) <= x + 50
        /\ 100 * ((x + 50) \div 100) > x - 50
    BY <1>1
  <1> QED BY <1>2 DEF Share, x

(* Whatever the percents, the shares add up to the fare (allocateCents);   *)
(* when they make 100, the carrier's, super's and state's are the nearest  *)
(* cent and the local share is within one and a half: it never swallows    *)
(* more than the rounding of the other three.                              *)
THEOREM SharesAreFair ==
  ASSUME NEW gross \in Nat, NEW p \in Percents
  PROVE  LET s == AllocateCents(gross, p)
             Near(cents, percent, slack) ==
                 /\ 100 * cents <= gross * percent + slack
                 /\ 100 * cents >= gross * percent - slack
         IN  /\ s.carrier + s.super + s.state + s.local = gross
             /\ Total(p) = 100 => /\ Near(s.carrier, p.carrier, 50)
                                  /\ Near(s.super, p.super, 50) /\ Near(s.state, p.state, 50)
                                  /\ Near(s.local, p.local, 150)
  <1> DEFINE a == Share(gross, p.carrier)
             b == Share(gross, p.super)
             c == Share(gross, p.state)
             d == gross - a - b - c
  <1>1. /\ p.carrier \in Percent /\ p.super \in Percent
        /\ p.state \in Percent /\ p.local \in Percent
    BY DEF Percents
  <1>2. /\ a \in Nat /\ 100 * a <= gross * p.carrier + 50 /\ 100 * a > gross * p.carrier - 50
        /\ b \in Nat /\ 100 * b <= gross * p.super + 50 /\ 100 * b > gross * p.super - 50
        /\ c \in Nat /\ 100 * c <= gross * p.state + 50 /\ 100 * c > gross * p.state - 50
    BY <1>1, ShareRounds
  <1>3. AllocateCents(gross, p) = [carrier |-> a, super |-> b, state |-> c, local |-> d]
    BY DEF AllocateCents
  <1> HIDE DEF a, b, c
  <1>0. p.carrier \in Int /\ p.super \in Int /\ p.state \in Int /\ p.local \in Int
    BY <1>1 DEF Percent
  <1>4. /\ gross * p.carrier \in Int /\ gross * p.super \in Int
        /\ gross * p.state \in Int /\ gross * p.local \in Int
    BY <1>1 DEF Percent
  <1>5. a + b + c + d = gross BY <1>2
  <1>6. ASSUME Total(p) = 100
        PROVE  /\ 100 * d <= gross * p.local + 150
               /\ 100 * d >= gross * p.local - 150
    <2>1. p.local = 100 - p.carrier - p.super - p.state BY <1>0, <1>6 DEF Total
    <2>2. ASSUME NEW u \in Int, NEW v \in Int, NEW w \in Int
          PROVE  gross * (100 - u - v - w) = 100 * gross - gross * u - gross * v - gross * w
      OBVIOUS
    <2>3. gross * p.local = 100 * gross - gross * p.carrier - gross * p.super - gross * p.state
      BY <1>0, <2>1, <2>2
    <2>4. 100 * d = 100 * gross - 100 * a - 100 * b - 100 * c BY <1>2
    <2> QED BY <1>2, <1>4, <2>3, <2>4
  <1> QED BY <1>2, <1>3, <1>4, <1>5, <1>6

(* The percents of a package beside a national policy make 100, unless     *)
(* its state and local shares are more than the policy leaves: then they   *)
(* exceed 100 by that much, and the local line is short of it              *)
(* (resolvePercents).  A package checked beside the same or a larger       *)
(* carrier's share makes 100.                                              *)
THEOREM ResolvedTotal ==
  ASSUME NEW national \in National, NEW package, NEW checked \in Percent,
         InPool(package, checked)
  PROVE  LET excess == national.carrier + package.state + package.local - 100
         IN  /\ Total(Beside(package, national)) = IF excess > 0 THEN 100 + excess ELSE 100
             /\ national.carrier <= checked => Total(Beside(package, national)) = 100
             /\ Beside(package, national) \in Percents
  <1> DEFINE first == national.carrier
             state == package.state
             local == package.local
             pool  == 100 - first
             own   == package.super
             left  == pool - state - local
             super == IF own + state + local = pool THEN own
                      ELSE IF left > 0 THEN left ELSE 0
  <1>1. first \in 0..100 BY DEF National, Percents, Percent
  <1>2. own \in 0..100 /\ state \in 0..100 /\ local \in 0..100
    BY DEF InPool, Percent
  <1>3. own + state + local = 100 - checked /\ checked \in 0..100
    BY DEF InPool, Pool, Percent
  <1>4. Beside(package, national) =
          [carrier |-> first, super |-> super, state |-> state, local |-> local]
    BY DEF Beside, Pool
  <1>5. /\ super \in 0..100
        /\ super + state + local = IF state + local > pool THEN state + local ELSE pool
    <2>1. pool \in 0..100 BY <1>1
    <2> HIDE DEF pool, own, state, local
    <2>2. CASE own + state + local = pool BY <1>2, <2>1, <2>2
    <2>3. CASE own + state + local # pool /\ left > 0 BY <1>2, <2>1, <2>3
    <2>4. CASE own + state + local # pool /\ ~(left > 0) BY <1>2, <2>1, <2>4
    <2> QED BY <2>2, <2>3, <2>4
  <1> HIDE DEF super, own, first, state, local
  <1>6. Total(Beside(package, national)) = first + super + state + local
    BY <1>4 DEF Total
  <1>7. Beside(package, national) \in Percents
    BY <1>1, <1>2, <1>4, <1>5 DEF Percents, Percent
  <1>8. /\ first + super + state + local =
             IF first + state + local - 100 > 0
             THEN 100 + (first + state + local - 100) ELSE 100
        /\ first <= checked => first + super + state + local = 100
    BY <1>1, <1>2, <1>3, <1>5
  <1> QED BY <1>6, <1>7, <1>8 DEF first, state, local

(* The lines of a job add up to its fare, and a line is for an admin       *)
(* exactly when it is not held by HQ (resolveForJob).                      *)
THEOREM LinesAddUp ==
  ASSUME NEW gross \in Nat, NEW p \in Percents, NEW job, NEW scopes, NEW tier \in BOOLEAN
  PROVE  LET l == ResolveForJob(gross, p, job, scopes, tier)
         IN  /\ l.carrier.cents + l.super.cents + l.state.cents + l.local.cents = gross
             /\ l.state.recipient = "HQ_HOLDING" <=> l.state.payee = Nobody
             /\ l.local.recipient = "HQ_HOLDING" <=> l.local.payee = Nobody
             /\ ~tier => l.state.recipient = "HQ_HOLDING"
  <1> DEFINE s == AllocateCents(gross, p)
             state == StatePayee(job, scopes, tier)
             local == LocalPayee(job, scopes)
  <1>1. s.carrier + s.super + s.state + s.local = gross BY SharesAreFair
  <1>2. ~tier => state = Nobody BY DEF StatePayee
  <1> HIDE DEF s, state, local
  <1>3. ResolveForJob(gross, p, job, scopes, tier) =
          [carrier |-> LineFor("CARRIER", Nobody, p.carrier, s.carrier),
           super   |-> LineFor("SUPER_ADMIN", Nobody, p.super, s.super),
           state   |-> LineFor(OrHeld("STATE_MASTER", state), state, p.state, s.state),
           local   |-> LineFor(OrHeld("LOCAL_BDE", local), local, p.local, s.local)]
    BY DEF ResolveForJob, s, state, local
  <1> QED BY <1>1, <1>2, <1>3 DEF LineFor, OrHeld

-----------------------------------------------------------------------------
(* Which policy and which package are in force.  A finite set of rows has  *)
(* one that comes first in an order of the rows: by looking at a smallest  *)
(* set for which this would fail.                                          *)
LEMMA SmallestSet ==
  ASSUME NEW S, IsFiniteSet(S), NEW B, B \subseteq SUBSET S, B # {}
  PROVE  \E s \in B : \A u \in B : u \subseteq s => u = s
  <1>1. IsWellFoundedOn(StrictSubsetOrdering(S), SUBSET S)
    BY FS_StrictSubsetOrderingWellFounded, FS_FiniteSubsetsOfFinite
  <1> DEFINE R == StrictSubsetOrdering(S)  P == SUBSET S
  <1>2. PICK s \in B : \A u \in B : ~(<<u, s>> \in R)
    <2>1. IsWellFoundedOn(R, P) /\ B \subseteq P BY <1>1
    <2> HIDE DEF R, P
    <2> QED BY <2>1, WFMin
  <1> QED BY <1>2 DEF StrictSubsetOrdering

LEMMA HasFirst ==
  ASSUME NEW S, IsFiniteSet(S), S # {}, NEW R,
         \A x, y, z \in S : <<x, y>> \in R /\ <<y, z>> \in R => <<x, z>> \in R,
         \A x, y \in S : x # y => <<x, y>> \in R \/ <<y, x>> \in R
  PROVE  \E x \in S : \A y \in S \ {x} : <<x, y>> \in R
  <1> DEFINE First(x, T) == \A y \in T \ {x} : <<x, y>> \in R
             Bad == {T \in SUBSET S : T # {} /\ \A x \in T : ~First(x, T)}
  <1> SUFFICES ASSUME Bad # {} PROVE FALSE OBVIOUS
  <1>1. PICK T \in Bad : \A U \in Bad : U \subseteq T => U = T
    <2>1. Bad \subseteq SUBSET S OBVIOUS
    <2> HIDE DEF Bad
    <2> QED BY <2>1, SmallestSet
  <1>2. PICK x \in T : TRUE OBVIOUS
  <1> DEFINE U == T \ {x}
  <1>3. U # {} BY <1>1, <1>2
  <1>4. U \subseteq T /\ U # T /\ U \in SUBSET S BY <1>1, <1>2
  <1>5. U \notin Bad BY <1>1, <1>4
  <1>6. PICK y \in U : First(y, U) BY <1>3, <1>4, <1>5
  <1>7. CASE <<y, x>> \in R
    <2>1. First(y, T) BY <1>2, <1>6, <1>7
    <2> QED BY <1>1, <1>6, <2>1
  <1>8. CASE <<x, y>> \in R
    <2>1. \A z \in U \ {y} : <<x, z>> \in R BY <1>1, <1>2, <1>6, <1>8
    <2>2. First(x, T) BY <1>8, <2>1
    <2> QED BY <1>1, <1>2, <2>2
  <1> QED BY <1>1, <1>2, <1>6, <1>7, <1>8

(* Versions as the table keeps them: version is unique per key.            *)
VersionRows(versions) ==
    /\ IsFiniteSet(versions)
    /\ \A v \in versions : v.published \in Nat /\ v.version \in Nat /\ v.from \in Nat
    /\ \A v, w \in versions : v # w => v.version # w.version

LEMMA FirstVersion ==
  ASSUME NEW versions, VersionRows(versions), NEW V \in SUBSET versions, V # {}
  PROVE  \E v \in V : \A w \in V \ {v} : Newer(v, w)
  <1> DEFINE R == {p \in V \X V : Newer(p[1], p[2])}
  <1>1. \A x, y \in V : <<x, y>> \in R <=> Newer(x, y) OBVIOUS
  <1>2. IsFiniteSet(V) BY FS_Subset DEF VersionRows
  <1>3. \A x, y \in V : x # y => Newer(x, y) \/ Newer(y, x) BY DEF VersionRows, Newer
  <1>4. \A x, y, z \in V : Newer(x, y) /\ Newer(y, z) => Newer(x, z) BY DEF VersionRows, Newer
  <1> HIDE DEF R
  <1>5. PICK v \in V : \A w \in V \ {v} : <<v, w>> \in R
    <2>1. \A x, y \in V : x # y => <<x, y>> \in R \/ <<y, x>> \in R BY <1>1, <1>3
    <2>2. \A x, y, z \in V : <<x, y>> \in R /\ <<y, z>> \in R => <<x, z>> \in R BY <1>1, <1>4
    <2> QED BY <1>2, <2>1, <2>2, HasFirst
  <1> QED BY <1>1, <1>5

LEMMA NewerOnce ==
  ASSUME NEW versions, VersionRows(versions), NEW v \in versions, NEW w \in versions
  PROVE  ~(Newer(v, w) /\ Newer(w, v))
  BY DEF VersionRows, Newer

LEMMA DefaultIsNational == Default \in National
  BY DEF Default, National, Percents, Percent, Total

(* The policy of a moment (getEffectiveNational) is a valid one.  It is    *)
(* the version published last among those that are valid and in force,     *)
(* unless Window versions published after it, which are invalid or not in  *)
(* force yet, keep it from being looked at: then it is the default.        *)
THEOREM PolicyInForce ==
  ASSUME NEW versions, VersionRows(versions), NEW at \in Nat
  PROVE  LET published == {v \in versions : v.published \in 1..at}
             fit == {v \in published : v.from <= at /\ v.percents \in National}
             after(v) == {w \in published : Newer(w, v)}
             policy == EffectiveNational(versions, at)
         IN  /\ policy \in National
             /\ fit = {} => policy = Default
             /\ fit # {} => \E v \in fit :
                    /\ \A w \in fit \ {v} : Newer(v, w)
                    /\ policy = IF Cardinality(after(v)) < Window THEN v.percents ELSE Default
  <1> DEFINE published == {v \in versions : v.published \in 1..at}
             fit == {v \in published : v.from <= at /\ v.percents \in National}
             after(v) == {w \in published : Newer(w, v)}
             policy == EffectiveNational(versions, at)
             recent == {v \in published : Cardinality(after(v)) < Window}
             inForce == {v \in recent : v.from <= at /\ v.percents \in National}
             top == CHOOSE v \in inForce : \A w \in inForce \ {v} : Newer(v, w)
  <1>1. policy = IF inForce = {} THEN Default ELSE top.percents BY DEF EffectiveNational
  <1>2. inForce \subseteq fit /\ fit \subseteq versions /\ published \subseteq versions
    OBVIOUS
  <1>3. \A v \in fit : v \in inForce <=> Cardinality(after(v)) < Window OBVIOUS
  <1>4. \A v : IsFiniteSet(after(v)) /\ Cardinality(after(v)) \in Nat
    BY FS_Subset, FS_CardinalityType DEF VersionRows
  <1>5. \A v \in fit : v.percents \in National OBVIOUS
  <1> HIDE DEF policy, top
  <1>6. ASSUME inForce # {}
        PROVE  top \in inForce /\ \A w \in inForce \ {top} : Newer(top, w)
    <2>1. inForce \in SUBSET versions OBVIOUS
    <2> HIDE DEF inForce
    <2>2. \E v \in inForce : \A w \in inForce \ {v} : Newer(v, w) BY <1>6, <2>1, FirstVersion
    <2> QED BY <2>2 DEF top
  <1>7. policy \in National
    <2> HIDE DEF fit, inForce
    <2> QED BY <1>1, <1>2, <1>5, <1>6, DefaultIsNational
  <1>8. fit = {} => policy = Default
    <2> HIDE DEF fit, inForce
    <2> QED BY <1>1, <1>2
  <1>9. ASSUME fit # {}
        PROVE  \E v \in fit :
                   /\ \A w \in fit \ {v} : Newer(v, w)
                   /\ policy = IF Cardinality(after(v)) < Window THEN v.percents ELSE Default
    <2>1. PICK v \in fit : \A w \in fit \ {v} : Newer(v, w)
      <3>1. fit \in SUBSET versions OBVIOUS
      <3> HIDE DEF fit
      <3> QED BY <1>9, <3>1, FirstVersion
    <2>2. CASE Cardinality(after(v)) < Window
      <3>1. v \in inForce BY <1>3, <2>2
      <3>2. top = v
        <4>1. top \in inForce /\ (v # top => Newer(top, v)) BY <1>6, <3>1
        <4>2. v # top => Newer(v, top) BY <1>2, <2>1, <4>1
        <4> QED BY <1>2, <4>1, <4>2, NewerOnce
      <3>3. policy = v.percents
        <4> HIDE DEF inForce
        <4> QED BY <1>1, <3>1, <3>2
      <3> HIDE DEF fit, after
      <3> QED BY <2>1, <2>2, <3>3
    <2>3. CASE ~(Cardinality(after(v)) < Window)
      <3>1. ASSUME NEW w \in inForce PROVE FALSE
        <4>1. w \in fit /\ Cardinality(after(w)) < Window BY <1>2, <1>3, <3>1
        <4>2. w # v BY <2>3, <4>1
        <4>3. Newer(v, w) BY <2>1, <4>1, <4>2
        <4>4. after(v) \subseteq after(w)
          BY <1>2, <4>1, <4>3 DEF VersionRows, Newer
        <4> HIDE DEF after
        <4>5. Cardinality(after(v)) <= Cardinality(after(w)) BY <1>4, <4>4, FS_Subset
        <4> QED BY <1>4, <2>3, <4>1, <4>5 DEF Window
      <3>2. policy = Default
        <4> HIDE DEF inForce
        <4> QED BY <1>1, <3>1
      <3> HIDE DEF fit, after
      <3> QED BY <2>1, <2>3, <3>2
    <2> QED BY <2>2, <2>3
  <1> QED BY <1>7, <1>8, <1>9 DEF policy

(* Packages as the table keeps them: those of one admin differ in their    *)
(* times, and each was checked beside the carrier's share of its day.      *)
PackageRows(packages, checked) ==
    /\ IsFiniteSet(packages) /\ checked \in [packages -> Percent]
    /\ \A p \in packages : p.published \in Nat /\ p.from \in Nat /\ InPool(p, checked[p])
    /\ \A p, q \in packages : p # q /\ p.admin = q.admin
                               => p.from # q.from \/ p.published # q.published

LEMMA LatestPackage ==
  ASSUME NEW packages, NEW checked, PackageRows(packages, checked), NEW admin, NEW at \in Nat,
         EffectivePackages(packages, admin, at) # {}
  PROVE  LET own == EffectivePackages(packages, admin, at)
             one == CHOOSE p \in own : \A q \in own \ {p} : Later(p, q)
         IN  one \in packages
  <1> DEFINE own == EffectivePackages(packages, admin, at)
             R == {p \in own \X own : Later(p[1], p[2])}
  <1>1. own \subseteq packages /\ \A p \in own : p.admin = admin BY DEF EffectivePackages
  <1>2. IsFiniteSet(own) BY <1>1, FS_Subset DEF PackageRows
  <1> HIDE DEF own
  <1>3. \A x, y \in own : <<x, y>> \in R <=> Later(x, y) OBVIOUS
  <1>4. \A x, y \in own : x # y => Later(x, y) \/ Later(y, x) BY <1>1 DEF PackageRows, Later
  <1>5. \A x, y, z \in own : Later(x, y) /\ Later(y, z) => Later(x, z)
    BY <1>1 DEF PackageRows, Later
  <1> HIDE DEF R
  <1>6. \E p \in own : \A q \in own \ {p} : <<p, q>> \in R
    <2>1. \A x, y \in own : x # y => <<x, y>> \in R \/ <<y, x>> \in R BY <1>3, <1>4
    <2>2. \A x, y, z \in own : <<x, y>> \in R /\ <<y, z>> \in R => <<x, z>> \in R
      BY <1>3, <1>5
    <2>3. own # {} BY DEF own
    <2> QED BY <1>2, <2>1, <2>2, <2>3, HasFirst
  <1>7. \E p \in own : \A q \in own \ {p} : Later(p, q) BY <1>3, <1>6
  <1>8. (CHOOSE p \in own : \A q \in own \ {p} : Later(p, q)) \in own BY <1>7
  <1> QED BY <1>1, <1>8 DEF own

(* The percents a job is split by (resolvePercents), for any table of      *)
(* versions and packages: the carrier's is the policy's, and all make at   *)
(* least 100; exactly 100 when no package was checked beside a smaller     *)
(* carrier's share than the policy's.                                      *)
THEOREM PercentsOfJob ==
  ASSUME NEW versions, VersionRows(versions), NEW packages, NEW checked,
         PackageRows(packages, checked), NEW referrer, NEW at \in Nat
  PROVE  LET policy == EffectiveNational(versions, at)
             p == ResolvePercents(versions, packages, referrer, at)
         IN  /\ p \in Percents /\ p.carrier = policy.carrier /\ Total(p) >= 100
             /\ (\A k \in packages : policy.carrier <= checked[k]) => Total(p) = 100
  <1> DEFINE policy == EffectiveNational(versions, at)
             own == EffectivePackages(packages, referrer, at)
             one == CHOOSE k \in own : \A q \in own \ {k} : Later(k, q)
             p == ResolvePercents(versions, packages, referrer, at)
  <1>1. policy \in National BY PolicyInForce
  <1>2. p = IF referrer = Nobody \/ own = {} THEN policy ELSE Beside(one, policy)
    BY DEF ResolvePercents
  <1>3. own # {} => one \in packages BY LatestPackage
  <1> HIDE DEF policy, own, one, p
  <1>4. CASE referrer = Nobody \/ own = {}
    <2>1. p = policy BY <1>2, <1>4
    <2>2. policy \in Percents /\ Total(policy) = 100 BY <1>1 DEF National
    <2>3. p \in Percents /\ p.carrier = policy.carrier /\ Total(p) = 100 BY <2>1, <2>2
    <2> QED BY <2>3 DEF p, policy
  <1>5. CASE ~(referrer = Nobody \/ own = {})
    <2>1. p = Beside(one, policy) /\ one \in packages BY <1>2, <1>3, <1>5
    <2>2. InPool(one, checked[one]) /\ checked[one] \in Percent BY <2>1 DEF PackageRows
    <2> DEFINE excess == policy.carrier + one.state + one.local - 100
    <2>3. /\ Total(p) = IF excess > 0 THEN 100 + excess ELSE 100
          /\ policy.carrier <= checked[one] => Total(p) = 100
          /\ p \in Percents
      BY <1>1, <2>1, <2>2, ResolvedTotal
    <2>4. p.carrier = policy.carrier BY <2>1 DEF Beside
    <2>5. excess \in Int
      <3>1. policy.carrier \in Percent BY <1>1 DEF National, Percents
      <3>2. one.state \in Percent /\ one.local \in Percent BY <2>2 DEF InPool
      <3>3. \A x, y, z \in Percent : x + y + z - 100 \in Int BY DEF Percent
      <3> QED BY <3>1, <3>2, <3>3
    <2>6. Total(p) >= 100
      <3> HIDE DEF excess
      <3> QED BY <2>3, <2>5
    <2>7. (\A k \in packages : policy.carrier <= checked[k]) => Total(p) = 100
      BY <2>1, <2>3
    <2> HIDE DEF excess
    <2> QED BY <2>3, <2>4, <2>6, <2>7 DEF p, policy
  <1> QED BY <1>4, <1>5
=============================================================================
