------------------------- MODULE AwardPaymentProofs -------------------------
(***************************************************************************)
(* For any number of jobs, bids, overlapping requests, charge rows and     *)
(* faults: AwardPayment is type correct, never makes an award firm without *)
(* a captured fare, opens no job that has an award, and implements         *)
(* AwardContract.  As long as no job has two charge rows at a time, which  *)
(* it may have only after a release, it leaves no reservation without its  *)
(* charge row.  Until an exception is opened, unwinding leaves no bid of   *)
(* an open job accepted; while requests do not overlap, both hold for      *)
(* ever, and every award stands on an accepted bid and a succeeded charge. *)
(*                                                                         *)
(* LockedIsCaptured is not inductive: markPaidAndLock trusts the event it  *)
(* was called with.  Inv adds what every request carries from the reads it *)
(* made before (SlotGood), that a charge row is keyed before Stripe knows  *)
(* its intent and SUCCEEDED only after the capture (ChargesGood), and that *)
(* no two requests create the same intent (OneCreator).  That an open job  *)
(* has no award is inductive beside Inv.                                   *)
(*                                                                         *)
(* With one charge row on a job, that row names the job's assignment       *)
(* (RowsNamed), and what a request read of it stays true until the row     *)
(* goes (AsgSlots); with two, neither is so.  The serial properties need   *)
(* the account of each job (Account) and what the one running request      *)
(* knows (SlotKnows); the last theorems its weaker form OpenAccount, which *)
(* overlapping requests keep until a release.                              *)
(***************************************************************************)
EXTENDS AwardPayment, TLAPS

(* The labels at which a slot works on a charge row, on a bid, on a job.   *)
EvLabels   == {"probe", "probeAged", "cancelPi", "unwind", "reaccept", "createPi", "attachPi",
               "failPe", "lockRead", "lock", "ensureTrip", "createTrip", "reviveTrip",
               "recordSucceeded", "recordFailed", "failWrite", "failCheck",
               "syncFail", "syncAction"}
PropLabels == {"readJob", "reserve", "reaccept", "withdraw", "submit"}
JobLabels  == {"cancelJob", "release", "adjust"}
(* The labels reached only with a captured intent. *)
PaidLabels == {"reaccept", "lockRead", "lock", "ensureTrip", "createTrip", "reviveTrip"}

CapturedFor(j, i, r) ==
    \E e \in Events : r[e].key # None /\ JobOf[r[e].key] = j /\ i[e] = "succeeded"

(* What a slot k knows of the intents i and the charge rows r.             *)
SlotTyped(k) ==
    /\ k \in Slot
    /\ k.at \in EvLabels => k.ev \in Events
    /\ k.at \in PropLabels \/ k.then = "readJob" => k.prop \in Proposals
    /\ k.at \in JobLabels => k.job \in Jobs
SlotPaid(k, i, r) ==
    /\ k.at \in PaidLabels => i[k.ev] = "succeeded"
    /\ k.at = "attachPi" /\ k.pi = "succeeded" => i[k.ev] = "succeeded"
    /\ k.at = "release" => CapturedFor(k.job, i, r)
SlotCreates(k, i, r) ==
    k.at = "createPi" => i[k.ev] = "none" /\ r[k.ev].key # None
SlotGood(k, i, r) == SlotTyped(k) /\ SlotPaid(k, i, r) /\ SlotCreates(k, i, r)

OneCreator == \A c, d \in Calls :
    c # d /\ call[c].at = "createPi" /\ call[d].at = "createPi" => call[c].ev # call[d].ev

SlotsGood == /\ SlotsTyped
             /\ \A c \in Calls : SlotGood(call[c], pi, pe)
             /\ OneCreator

ChargesGood == \A e \in Events :
    /\ pe[e].st = "NONE" => pe[e].key = None
    /\ pe[e].st # "NONE" \/ pi[e] # "none" => pe[e].key # None
    /\ pe[e].st = "SUCCEEDED" => pi[e] = "succeeded"

(* What a job may have only once its fare is captured. *)
Firm(j) == \/ asg[j].status \in {"LOCKED", "COMPLETED"}
           \/ trip[j] # "NONE" \/ lines[j] # "none" \/ exc[j]

AwardsPaid == \A j \in Jobs : Firm(j) => CapturedFor(j, pi, pe)

RowsGood == RowsTyped /\ StripeTyped /\ WorldTyped /\ ChargesGood /\ AwardsPaid

Inv == RowsGood /\ SlotsGood

-----------------------------------------------------------------------------
(* Keys are for ever and captures are final: what a request learned stays. *)
Grows(i, r, i2, r2) == \A e \in Events : /\ r[e].key # None => r2[e].key = r[e].key
                                         /\ i[e] = "succeeded" => i2[e] = "succeeded"

LEMMA CapturedStays ==
  ASSUME NEW i, NEW r, NEW i2, NEW r2, Grows(i, r, i2, r2), NEW j, CapturedFor(j, i, r)
  PROVE  CapturedFor(j, i2, r2)
  BY DEF Grows, CapturedFor

LEMMA SlotStays ==
  ASSUME NEW i, NEW r, NEW i2, NEW r2, Grows(i, r, i2, r2), NEW k, SlotGood(k, i, r),
         k.at = "createPi" => i2[k.ev] = "none"
  PROVE  SlotGood(k, i2, r2)
  <1>1. SlotPaid(k, i2, r2)
    BY CapturedStays DEF SlotGood, SlotTyped, SlotPaid, Grows, PaidLabels, EvLabels
  <1>2. SlotCreates(k, i2, r2)
    BY DEF SlotGood, SlotTyped, SlotCreates, Grows, EvLabels
  <1> QED BY <1>1, <1>2 DEF SlotGood

(* Only slot c moves, to a good slot that creates no intent. *)
LEMMA OneSlotMoves ==
  ASSUME SlotsGood, NEW c \in Calls, NEW k, call' = [call EXCEPT ![c] = k],
         SlotGood(k, pi', pe'), k.at # "createPi", Grows(pi, pe, pi', pe'),
         \A d \in Calls \ {c} : call[d].at = "createPi" => pi'[call[d].ev] = "none"
  PROVE  SlotsGood'
  <1>1. \A d \in Calls : call'[d] = IF d = c THEN k ELSE call[d]
    BY DEF SlotsGood, SlotsTyped
  <1>2. \A d \in Calls : SlotGood(call'[d], pi', pe')
    BY <1>1, SlotStays DEF SlotsGood
  <1>3. SlotsTyped'
    BY DEF SlotsGood, SlotsTyped, SlotGood, SlotTyped
  <1>4. OneCreator'
    BY <1>1 DEF SlotsGood, OneCreator
  <1> QED BY <1>2, <1>3, <1>4 DEF SlotsGood

(* A step that leaves call alone. *)
LEMMA NoSlotMoves ==
  ASSUME SlotsGood, UNCHANGED call, Grows(pi, pe, pi', pe'),
         \A d \in Calls : call[d].at = "createPi" => pi'[call[d].ev] = "none"
  PROVE  SlotsGood'
  BY SlotStays DEF SlotsGood, SlotsTyped, OneCreator

(* What the other slots need of a step of slot c. *)
Steady(c) == /\ Grows(pi, pe, pi', pe')
             /\ \A d \in Calls \ {c} : call[d].at = "createPi" => pi'[call[d].ev] = "none"

LEMMA QuietIsSteady ==
  ASSUME SlotsGood, NEW c \in Calls, UNCHANGED <<pe, pi>>
  PROVE  Steady(c)
  BY DEF Steady, Grows, SlotsGood, SlotGood, SlotCreates

LEMMA IdleGood == ASSUME NEW i, NEW r PROVE SlotGood(Idle, i, r) /\ Idle.at # "createPi"
  BY DEF SlotGood, SlotTyped, SlotPaid, SlotCreates, Slot, Idle, NoMeta,
             Metadata, Labels, PiStatus,
         EvLabels, PropLabels, JobLabels, PaidLabels

(* The metadata of a charge row, and what a slot keeps of it, are typed. *)
LEMMA MetaTyped ==
  ASSUME RowsTyped, NEW e \in Events
  PROVE  Meta(e) \in Metadata
  BY DEF RowsTyped, ChargeRow, Meta, Metadata

LEMMA Leaves ==
  ASSUME SlotsGood, NEW c \in Calls, Leave(c), Steady(c)
  PROVE  SlotsGood'
  BY IdleGood, OneSlotMoves DEF Leave, Begin, Steady

(* A slot goes to another label with what it knows. *)
LEMMA Goes ==
  ASSUME SlotsGood, NEW c \in Calls, NEW l \in Labels \ {"createPi"}, Goto(c, l), Steady(c),
         l \in EvLabels => call[c].ev \in Events,
         l \in PropLabels => call[c].prop \in Proposals,
         l \in JobLabels => call[c].job \in Jobs,
         l \in PaidLabels => pi'[call[c].ev] = "succeeded",
         l \notin {"attachPi", "release"}
  PROVE  SlotsGood'
  <1> DEFINE k == [call[c] EXCEPT !.at = l]
  <1>1. call[c] \in Slot /\ SlotTyped(call[c]) BY DEF SlotsGood, SlotsTyped, SlotGood
  <1>2. call' = [call EXCEPT ![c] = k] BY DEF Goto, SlotsGood, SlotsTyped
  <1>3. SlotTyped(k) /\ k.at = l /\ k.ev = call[c].ev
    BY <1>1 DEF SlotTyped, Slot
  <1>4. SlotGood(k, pi', pe') /\ k.at # "createPi"
    BY <1>3 DEF SlotGood, SlotPaid, SlotCreates
  <1> HIDE DEF k
  <1> QED BY <1>2, <1>4, OneSlotMoves DEF Steady

LEMMA Resumes ==
  ASSUME SlotsGood, NEW c \in Calls, Resume(c), Steady(c), call[c].at \in EvLabels
  PROVE  SlotsGood'
  <1>1. call[c] \in Slot /\ SlotTyped(call[c]) BY DEF SlotsGood, SlotsTyped, SlotGood
  <1>2. CASE call[c].then = "idle"
    BY <1>2, Leaves DEF Resume
  <1>3. CASE call[c].then # "idle"
    <2>1. call[c].then \in {"readJob", "recordSucceeded", "recordFailed"} /\ Goto(c, call[c].then)
      BY <1>1, <1>3 DEF Resume, Slot
    <2>2. call[c].ev \in Events /\ (call[c].then = "readJob" => call[c].prop \in Proposals)
      BY <1>1 DEF SlotTyped
    <2>3. PICK l : l = call[c].then OBVIOUS
    <2> QED BY <2>1, <2>2, <2>3, Goes DEF Labels, EvLabels, PropLabels, JobLabels, PaidLabels
  <1> QED BY <1>2, <1>3

-----------------------------------------------------------------------------
(* Steps that only read. *)

LEMMA RowsKept ==
  ASSUME RowsGood, UNCHANGED <<db, stripe, world>>
  PROVE  RowsGood'
  BY DEF RowsGood, RowsTyped, StripeTyped, WorldTyped, ChargesGood, AwardsPaid, Firm, CapturedFor,
         db, stripe, world

LEMMA ReadStep ==
  ASSUME Inv, NEW c \in Calls, NEW k, call' = [call EXCEPT ![c] = k],
         SlotGood(k, pi, pe), k.at # "createPi", UNCHANGED <<db, stripe, world>>
  PROVE  Inv'
  BY RowsKept, QuietIsSteady, OneSlotMoves DEF Inv, Steady, db, stripe

(* The slots a request can begin with. *)
LEMMA OnBidGood ==
  ASSUME NEW l \in PropLabels \ {"reaccept"}, NEW p \in Proposals, NEW i, NEW r
  PROVE  SlotGood(OnBid(l, p), i, r) /\ OnBid(l, p).at # "createPi"
  BY DEF OnBid, SlotGood, SlotTyped, SlotPaid, SlotCreates, Slot, Idle, NoMeta,
             Metadata, Labels, PiStatus,
         EvLabels, PropLabels, JobLabels, PaidLabels

LEMMA OnChargeGood ==
  ASSUME NEW l \in (EvLabels \ {"createPi", "attachPi", "reaccept"}), NEW e \in Events,
         NEW t \in {"idle", "recordSucceeded", "recordFailed"},
         NEW i, NEW r, l \in PaidLabels => i[e] = "succeeded"
  PROVE  SlotGood(OnCharge(l, e, t), i, r) /\ OnCharge(l, e, t).at # "createPi"
  <1> DEFINE k == OnCharge(l, e, t)
  <1>1. l \in Labels /\ l \notin {"readJob", "reserve", "withdraw", "submit"} \cup JobLabels
    BY DEF Labels, EvLabels, JobLabels
  <1>2. k \in Slot BY <1>1 DEF OnCharge, Idle, NoMeta, Metadata, Slot, PiStatus
  <1>3. k.at = l /\ k.ev = e /\ k.then = t BY DEF OnCharge, Idle
  <1> HIDE DEF k
  <1>4. SlotTyped(k) BY <1>1, <1>2, <1>3 DEF SlotTyped, PropLabels
  <1>5. SlotPaid(k, i, r) BY <1>1, <1>3 DEF SlotPaid, JobLabels
  <1>6. SlotCreates(k, i, r) BY <1>3 DEF SlotCreates
  <1>7. SlotGood(k, i, r) /\ k.at # "createPi" BY <1>3, <1>4, <1>5, <1>6 DEF SlotGood
  <1> QED BY <1>7 DEF k

LEMMA BidReads ==
  ASSUME Inv, NEW c \in Calls, NEW p \in Proposals, SubmitRead(c, p) \/ WithdrawRead(c, p)
  PROVE  Inv'
  <1>1. PICK l \in {"submit", "withdraw"} : Begin(c, OnBid(l, p)) /\ UNCHANGED <<db, stripe, world>>
    BY DEF SubmitRead, WithdrawRead
  <1>2. l \in PropLabels \ {"reaccept"} BY DEF PropLabels
  <1> QED BY <1>1, <1>2, OnBidGood, ReadStep DEF Begin

LEMMA AcceptReads ==
  ASSUME Inv, NEW c \in Calls, NEW p \in Proposals, AcceptRead(c, p)
  PROVE  Inv'
  <1>1. UNCHANGED <<db, stripe, world>> BY DEF AcceptRead
  <1>2. CASE Begin(c, OnBid("readJob", p))
    BY <1>1, <1>2, OnBidGood, ReadStep DEF Begin, PropLabels
  <1>3. ASSUME NEW e \in Events, NEW l \in {"cancelPi", "unwind", "probe", "probeAged"},
               Begin(c, [OnCharge(l, e, "readJob") EXCEPT !.prop = p, !.meta = Meta(e)])
        PROVE  Inv'
    <2> DEFINE k == [OnCharge(l, e, "readJob") EXCEPT !.prop = p, !.meta = Meta(e)]
    <2>1. SlotGood(k, pi, pe) /\ k.at # "createPi"
      BY MetaTyped
         DEF OnCharge, SlotGood, SlotTyped, SlotPaid, SlotCreates, Slot, Idle, Labels, PiStatus,
             EvLabels, PropLabels, JobLabels, PaidLabels, Inv, RowsGood
    <2> HIDE DEF k
    <2> QED BY <1>1, <1>3, <2>1, ReadStep DEF k, Begin
  <1>4. \/ Begin(c, OnBid("readJob", p))
        \/ \E e \in Events, l \in {"cancelPi", "unwind", "probe", "probeAged"} :
              Begin(c, [OnCharge(l, e, "readJob") EXCEPT !.prop = p, !.meta = Meta(e)])
    BY Zenon DEF AcceptRead
  <1> QED BY <1>2, <1>3, <1>4, Zenon

(* A slot at a label of EvLabels works on an event. *)
LEMMA OnEvent ==
  ASSUME SlotsGood, NEW c \in Calls, call[c].at \in EvLabels
  PROVE  /\ call[c].ev \in Events
         /\ call[c].at \in PaidLabels => pi[call[c].ev] = "succeeded"
  BY DEF SlotsGood, SlotGood, SlotTyped, SlotPaid

LEMMA AcceptProbes ==
  ASSUME Inv, NEW c \in Calls, AcceptProbe(c)
  PROVE  Inv'
  <1> DEFINE e == call[c].ev
  <1>1. UNCHANGED <<db, stripe, world>> /\ Steady(c)
    BY QuietIsSteady DEF AcceptProbe, db, stripe, Inv
  <1>2. e \in Events
    BY OnEvent DEF AcceptProbe, At, EvLabels, Inv
  <1>3. CASE pi[e] = "succeeded" /\ Begin(c, OnCharge("lockRead", e, "idle"))
    BY <1>1, <1>2, <1>3, OnChargeGood, ReadStep DEF Begin, EvLabels
  <1>4. CASE Goto(c, "cancelPi")
    BY <1>1, <1>2, <1>4, RowsKept, Goes
       DEF Inv, Labels, EvLabels, PropLabels, JobLabels, PaidLabels
  <1>5. CASE Leave(c)
    BY <1>1, <1>5, RowsKept, Leaves DEF Inv
  <1> QED BY <1>3, <1>4, <1>5 DEF AcceptProbe

LEMMA AcceptJobReads ==
  ASSUME Inv, NEW c \in Calls, AcceptReadJob(c)
  PROVE  Inv'
  <1> DEFINE p == call[c].prop
  <1>1. UNCHANGED <<db, stripe, world>> /\ Steady(c)
    BY QuietIsSteady DEF AcceptReadJob, db, stripe, Inv
  <1>2. p \in Proposals
    BY DEF AcceptReadJob, At, Inv, SlotsGood, SlotGood, SlotTyped, PropLabels
  <1>3. CASE Leave(c)
    BY <1>1, <1>3, RowsKept, Leaves DEF Inv
  <1>4. CASE Begin(c, [OnBid("reserve", p) EXCEPT !.row = asg[JobOf[p]].id])
    <2> DEFINE k == [OnBid("reserve", p) EXCEPT !.row = asg[JobOf[p]].id]
    <2>1. asg[JobOf[p]].id \in Nat
      BY <1>2, AwardConstants DEF Inv, RowsGood, RowsTyped, Assignment
    <2>2. SlotGood(k, pi, pe) /\ k.at # "createPi"
      BY <1>2, <2>1 DEF OnBid, SlotGood, SlotTyped, SlotPaid, SlotCreates, Slot, Idle, NoMeta,
             Metadata, Labels,
             PiStatus, EvLabels, PropLabels, JobLabels, PaidLabels
    <2> HIDE DEF k
    <2> QED BY <1>1, <1>4, <2>2, ReadStep DEF k, Begin
  <1>5. ASSUME NEW e \in Events, pe[e].st = "SUCCEEDED",
               Begin(c, [OnBid("reaccept", p) EXCEPT !.ev = e])
        PROVE  Inv'
    <2> DEFINE k == [OnBid("reaccept", p) EXCEPT !.ev = e]
    <2>1. pi[e] = "succeeded" BY <1>5 DEF Inv, RowsGood, ChargesGood
    <2>2. SlotGood(k, pi, pe) /\ k.at # "createPi"
      BY <1>2, <2>1 DEF OnBid, SlotGood, SlotTyped, SlotPaid, SlotCreates, Slot, Idle, NoMeta,
             Metadata, Labels,
             PiStatus, EvLabels, PropLabels, JobLabels, PaidLabels
    <2> HIDE DEF k
    <2> QED BY <1>1, <1>5, <2>2, ReadStep DEF k, Begin
  <1> QED BY <1>3, <1>4, <1>5 DEF AcceptReadJob, PaidCharges, ChargesOf

LEMMA LockReads ==
  ASSUME Inv, NEW c \in Calls, LockRead(c) \/ FailCheck(c)
  PROVE  Inv'
  <1>1. UNCHANGED <<db, stripe, world>> /\ Steady(c) /\ RowsGood'
    BY QuietIsSteady, RowsKept DEF LockRead, FailCheck, db, stripe, Inv
  <1>2. call[c].at \in EvLabels /\ call[c].ev \in Events
    BY OnEvent DEF LockRead, FailCheck, At, EvLabels, Inv
  <1>3. CASE LockRead(c)
    <2>1. pi'[call[c].ev] = "succeeded"
      BY <1>1, <1>2, <1>3, OnEvent DEF LockRead, At, PaidLabels, Inv, stripe
    <2>2. CASE call' = [call EXCEPT ![c].at = "lock", ![c].row = pe[call[c].ev].asg]
      <3> DEFINE k == [call[c] EXCEPT !.at = "lock", !.row = pe[call[c].ev].asg]
      <3>1. /\ call[c] \in Slot /\ SlotTyped(call[c])
            /\ pe[call[c].ev].asg \in Nat /\ pi[call[c].ev] = "succeeded"
        BY <1>1, <1>2, <2>1
           DEF Inv, SlotsGood, SlotsTyped, SlotGood, RowsGood, RowsTyped, ChargeRow, stripe
      <3>2. call' = [call EXCEPT ![c] = k] BY <2>2 DEF Inv, SlotsGood, SlotsTyped
      <3>3. k \in Slot /\ k.at = "lock" /\ k.ev = call[c].ev /\ k.then = call[c].then
            /\ k.prop = call[c].prop
        BY <3>1 DEF Slot, Labels
      <3> HIDE DEF k
      <3>4. SlotGood(k, pi, pe) /\ k.at # "createPi"
        BY <1>2, <3>1, <3>3 DEF SlotGood, SlotTyped, SlotPaid, SlotCreates,
               EvLabels, PropLabels, JobLabels, PaidLabels
      <3> QED BY <1>1, <3>2, <3>4, ReadStep
    <2>3. CASE Resume(c) \/ Goto(c, "ensureTrip")
      BY <1>1, <1>2, <2>1, <2>3, Resumes, Goes
         DEF Inv, Labels, EvLabels, PropLabels, JobLabels
    <2> QED BY <1>3, <2>2, <2>3 DEF LockRead
  <1>4. CASE FailCheck(c)
    BY <1>1, <1>2, <1>4, Goes DEF FailCheck, Inv, Labels, EvLabels, PropLabels, JobLabels, PaidLabels
  <1> QED BY <1>3, <1>4

LEMMA HookReads ==
  ASSUME Inv, NEW c \in Calls, NEW e \in Events, HookSucceeded(c, e) \/ HookFailed(c, e)
  PROVE  Inv'
  <1>1. UNCHANGED <<db, stripe, world>> BY DEF HookSucceeded, HookFailed
  <1>2. CASE HookSucceeded(c, e)
    <2> DEFINE k == OnCharge("lockRead", e, "recordSucceeded")
    <2>1. pi[e] = "succeeded" /\ Begin(c, k) BY <1>2 DEF HookSucceeded, Captured
    <2>2. SlotGood(k, pi, pe) /\ k.at # "createPi"
      BY <2>1, OnChargeGood DEF EvLabels
    <2> HIDE DEF k
    <2> QED BY <1>1, <2>1, <2>2, ReadStep DEF Begin
  <1>3. CASE HookFailed(c, e)
    <2> DEFINE l == IF MayFail(e) THEN "failWrite" ELSE "recordFailed"
               k == [OnCharge(l, e, "recordFailed") EXCEPT !.flag = pe[e].hasPi, !.meta = Meta(e)]
    <2>1. pe[e].hasPi \in BOOLEAN /\ Meta(e) \in Metadata
      BY MetaTyped DEF Inv, RowsGood, RowsTyped, ChargeRow
    <2>2. l \in {"failWrite", "recordFailed"} OBVIOUS
    <2> HIDE DEF l
    <2>3. SlotGood(k, pi, pe) /\ k.at # "createPi"
      BY <2>1, <2>2 DEF OnCharge, SlotGood, SlotTyped, SlotPaid, SlotCreates, Slot, Idle, Labels,
             PiStatus, EvLabels, PropLabels, JobLabels, PaidLabels
    <2>4. Begin(c, k) BY <1>3 DEF HookFailed, l
    <2> HIDE DEF k
    <2> QED BY <1>1, <2>3, <2>4, ReadStep DEF Begin
  <1> QED BY <1>2, <1>3

LEMMA SyncReads ==
  ASSUME Inv, NEW c \in Calls, NEW j \in Jobs, SyncRead(c, j)
  PROVE  Inv'
  <1>1. PICK e \in Events : /\ SyncStep(pi[e]) # "idle"
                           /\ Begin(c, OnCharge(SyncStep(pi[e]), e, "idle"))
    BY DEF SyncRead, ChargesOf
  <1>2. UNCHANGED <<db, stripe, world>> BY DEF SyncRead
  <1>3. PICK l : l = SyncStep(pi[e]) OBVIOUS
  <1>4. /\ l \in EvLabels \ {"createPi", "attachPi", "reaccept"}
        /\ l \in PaidLabels => pi[e] = "succeeded"
    BY <1>1, <1>3 DEF SyncStep, EvLabels, PaidLabels
  <1>5. SlotGood(OnCharge(l, e, "idle"), pi, pe) /\ OnCharge(l, e, "idle").at # "createPi"
    BY <1>4, OnChargeGood
  <1> QED BY <1>1, <1>2, <1>3, <1>5, ReadStep DEF Begin

LEMMA JobReads ==
  ASSUME Inv, NEW c \in Calls, NEW j \in Jobs, CancelRead(c, j) \/ ReleaseRead(c, j)
  PROVE  Inv'
  <1>1. UNCHANGED <<db, stripe, world>> BY DEF CancelRead, ReleaseRead
  <1>2. asg[j].id \in Nat BY DEF Inv, RowsGood, RowsTyped, Assignment
  <1>3. ASSUME NEW f \in BOOLEAN, Begin(c, [OnJob("cancelJob", j) EXCEPT !.flag = f])
        PROVE  Inv'
    <2> DEFINE k == [OnJob("cancelJob", j) EXCEPT !.flag = f]
    <2>1. SlotGood(k, pi, pe) /\ k.at # "createPi"
      BY <1>2 DEF OnJob, SlotGood, SlotTyped, SlotPaid, SlotCreates, Slot, Idle, NoMeta,
             Metadata, Labels, PiStatus,
             EvLabels, PropLabels, JobLabels, PaidLabels
    <2> HIDE DEF k
    <2> QED BY <1>1, <1>3, <2>1, ReadStep DEF k, Begin
  <1>4. CASE ReleaseRead(c, j)
    <2> DEFINE k == OnJob("release", j)
    <2>1. CapturedFor(j, pi, pe) BY <1>4 DEF ReleaseRead, Inv, RowsGood, AwardsPaid, Firm
    <2>2. SlotGood(k, pi, pe) /\ k.at # "createPi"
      BY <1>2, <2>1 DEF OnJob, SlotGood, SlotTyped, SlotPaid, SlotCreates, Slot, Idle, NoMeta,
             Metadata, Labels,
             PiStatus, EvLabels, PropLabels, JobLabels, PaidLabels
    <2>3. Begin(c, k) BY <1>4 DEF ReleaseRead
    <2> HIDE DEF k
    <2> QED BY <1>1, <2>2, <2>3, ReadStep DEF Begin
  <1>5. CASE CancelRead(c, j)
    <2> DEFINE f == \E p \in Proposals : JobOf[p] = j /\ proposal[p] = "SUBMITTED"
    <2>1. f \in BOOLEAN /\ Begin(c, [OnJob("cancelJob", j) EXCEPT !.flag = f])
      BY <1>5, Zenon DEF CancelRead
    <2> HIDE DEF f
    <2> QED BY <1>3, <2>1
  <1> QED BY <1>4, <1>5

LEMMA TripReads ==
  ASSUME Inv, NEW c \in Calls, EnsureTrip(c)
  PROVE  Inv'
  <1> DEFINE j == EventJob(call[c].ev)
             w == IF trip[j] = "NONE" THEN "createTrip" ELSE "reviveTrip"
             k == [call[c] EXCEPT !.at = w, !.row = asg[j].id]
  <1>1. UNCHANGED <<db, stripe, world>> /\ Steady(c)
    BY QuietIsSteady DEF EnsureTrip, db, stripe, Inv
  <1>2. /\ call[c].at = "ensureTrip" /\ call[c].at \in EvLabels /\ call[c].ev \in Events
        /\ pi[call[c].ev] = "succeeded"
    BY OnEvent DEF EnsureTrip, At, EvLabels, PaidLabels, Inv
  <1>3. CASE Resume(c)
    BY <1>1, <1>2, <1>3, RowsKept, Resumes DEF Inv
  <1>4. CASE call' = [call EXCEPT ![c].at = w, ![c].row = asg[j].id]
    <2>1. j \in Jobs
      <3>1. pe[call[c].ev].key \in Proposals
        BY <1>2 DEF Inv, RowsGood, RowsTyped, ChargeRow, ChargesGood
      <3> QED BY <3>1, AwardConstants DEF EventJob
    <2>2. asg[j].id \in Nat BY <2>1 DEF Inv, RowsGood, RowsTyped, Assignment
    <2>3. call[c] \in Slot /\ SlotTyped(call[c]) BY DEF Inv, SlotsGood, SlotsTyped, SlotGood
    <2>4. w \in {"createTrip", "reviveTrip"} OBVIOUS
    <2> HIDE DEF w, j
    <2>5. call' = [call EXCEPT ![c] = k]
      BY <1>4 DEF Inv, SlotsGood, SlotsTyped
    <2>6. k \in Slot /\ k.at = w /\ k.ev = call[c].ev /\ k.then = call[c].then
          /\ k.prop = call[c].prop
      BY <2>2, <2>3, <2>4 DEF Slot, Labels
    <2> HIDE DEF k
    <2>7. SlotGood(k, pi, pe) /\ k.at # "createPi"
      BY <1>2, <2>3, <2>4, <2>6 DEF SlotGood, SlotTyped, SlotPaid, SlotCreates,
             EvLabels, PropLabels, JobLabels, PaidLabels
    <2> QED BY <1>1, <2>5, <2>7, ReadStep
  <1> QED BY <1>3, <1>4 DEF EnsureTrip

-----------------------------------------------------------------------------
(* Steps that write rows. *)

(* No job becomes firm unless it has a captured charge. *)
LEMMA StaysPaid ==
  ASSUME AwardsPaid, Grows(pi, pe, pi', pe'),
         \A j \in Jobs : Firm(j)' => Firm(j) \/ CapturedFor(j, pi', pe')
  PROVE  AwardsPaid'
  BY CapturedStays DEF AwardsPaid

LEMMA EventKey ==
  ASSUME RowsTyped, ChargesGood, NEW e \in Events, pe[e].st # "NONE" \/ pi[e] # "none"
  PROVE  pe[e].key \in Proposals /\ EventJob(e) \in Jobs
  <1>1. pe[e].key \in Proposals BY DEF RowsTyped, ChargeRow, ChargesGood
  <1> QED BY <1>1, AwardConstants DEF EventJob

LEMMA PaidEvent ==
  ASSUME RowsTyped, ChargesGood, NEW e \in Events, pi[e] = "succeeded"
  PROVE  EventJob(e) \in Jobs /\ CapturedFor(EventJob(e), pi, pe)
  BY EventKey DEF EventJob, CapturedFor, ChargesGood

LEMMA BidWrites ==
  ASSUME Inv, NEW c \in Calls, SubmitCreate(c) \/ WithdrawWrite(c)
  PROVE  Inv'
  <1>1. /\ UNCHANGED <<job, asg, trip, lines, exc, pe, stripe, world>> /\ Leave(c)
        /\ proposal' \in [Proposals -> ProposalStatus]
    BY DEF SubmitCreate, WithdrawWrite, Inv, RowsGood, RowsTyped, ProposalStatus
  <1>2. SlotsGood'
    BY <1>1, QuietIsSteady, Leaves DEF Inv, stripe
  <1>3. RowsGood'
    BY <1>1 DEF Inv, RowsGood, RowsTyped, StripeTyped, WorldTyped, ChargesGood, AwardsPaid, Firm,
           CapturedFor, stripe, world
  <1> QED BY <1>2, <1>3 DEF Inv

(* One charge row keeps its key and gets a status other than SUCCEEDED. *)
LEMMA StatusWrite ==
  ASSUME Inv, NEW e \in Events, Live(e), NEW row \in ChargeRow,
         row.st \in {"FAILED", "REQUIRES_ACTION"}, row.key = pe[e].key,
         pe' = [pe EXCEPT ![e] = row],
         UNCHANGED <<job, proposal, asg, trip, lines, exc, stripe, world>>
  PROVE  RowsGood' /\ \A c \in Calls : Steady(c)
  <1>1. Grows(pi, pe, pi', pe')
    BY DEF Grows, Inv, RowsGood, RowsTyped, ChargeRow, stripe
  <1>2. \A c \in Calls : Steady(c)
    BY <1>1 DEF Steady, Inv, SlotsGood, SlotGood, SlotCreates, stripe
  <1>3. RowsTyped'
    BY DEF Inv, RowsGood, RowsTyped, ChargeRow, EventStatus
  <1>4. ChargesGood'
    BY DEF Inv, RowsGood, RowsTyped, ChargeRow, ChargesGood, Live, stripe
  <1>5. AwardsPaid'
    BY <1>1, StaysPaid DEF Inv, RowsGood, Firm
  <1> QED BY <1>2, <1>3, <1>4, <1>5 DEF Inv, RowsGood, StripeTyped, WorldTyped, stripe, world

LEMMA FailedWrites ==
  ASSUME Inv, NEW c \in Calls, FailPe(c) \/ FailWrite(c) \/ SyncWrite(c)
  PROVE  Inv'
  <1>1. call[c].at \in EvLabels /\ call[c].ev \in Events
    BY OnEvent DEF FailPe, FailWrite, SyncWrite, At, EvLabels, Inv
  <1>2. CASE Live(call[c].ev)
    <2>1. PICK row \in ChargeRow : /\ row.st \in {"FAILED", "REQUIRES_ACTION"}
                                   /\ row.key = pe[call[c].ev].key
                                   /\ pe' = [pe EXCEPT ![call[c].ev] = row]
      <3> DEFINE r == pe[call[c].ev]
                 m == call[c].meta
      <3>1. r \in ChargeRow /\ m \in Metadata
        BY <1>1 DEF Inv, RowsGood, RowsTyped, SlotsGood, SlotsTyped, Slot
      <3>2. CASE FailPe(c)
        <4> DEFINE row == [r EXCEPT !.st = "FAILED", !.prop = m.prop, !.asg = m.asg,
                                    !.expired = m.expired]
        <4>1. row \in ChargeRow /\ row.st = "FAILED" /\ row.key = r.key
          BY <3>1 DEF ChargeRow, Metadata, EventStatus
        <4>2. pe' = [pe EXCEPT ![call[c].ev] = row]
          BY <1>1, <1>2, <3>2 DEF FailPe, Inv, RowsGood, RowsTyped
        <4> QED BY <4>1, <4>2
      <3>3. ASSUME NEW s \in {"FAILED", "REQUIRES_ACTION"}, pe' = [pe EXCEPT ![call[c].ev].st = s]
            PROVE  /\ [r EXCEPT !.st = s] \in ChargeRow
                   /\ [r EXCEPT !.st = s].st = s /\ [r EXCEPT !.st = s].key = r.key
                   /\ pe' = [pe EXCEPT ![call[c].ev] = [r EXCEPT !.st = s]]
        BY <1>1, <3>1, <3>3 DEF ChargeRow, EventStatus, Inv, RowsGood, RowsTyped
      <3>4. FailWrite(c) \/ SyncWrite(c)
              => \E s \in {"FAILED", "REQUIRES_ACTION"} : pe' = [pe EXCEPT ![call[c].ev].st = s]
        BY <1>2 DEF FailWrite, SyncWrite
      <3> QED BY <3>2, <3>3, <3>4
    <2>2. UNCHANGED <<job, proposal, asg, trip, lines, exc, stripe, world>>
      BY DEF FailPe, FailWrite, SyncWrite
    <2>3. RowsGood' /\ Steady(c) BY <1>1, <1>2, <2>1, <2>2, StatusWrite
    <2>4. Leave(c) \/ Goto(c, "unwind") \/ Goto(c, "failCheck")
      BY <1>2 DEF FailPe, FailWrite, SyncWrite
    <2>5. SlotsGood'
      BY <1>1, <2>3, <2>4, Leaves, Goes DEF Inv, Labels, EvLabels, PropLabels, JobLabels, PaidLabels
    <2> QED BY <2>3, <2>5 DEF Inv
  <1>3. CASE ~Live(call[c].ev)
    <2>1. UNCHANGED <<db, stripe, world>> /\ Leave(c)
      BY <1>3 DEF FailPe, FailWrite, SyncWrite, db
    <2> QED BY <2>1, RowsKept, QuietIsSteady, Leaves DEF Inv, db, stripe
  <1> QED BY <1>2, <1>3

(* Both accept transactions keep what is typed and make nothing firm. *)
LEMMA AwardKeeps ==
  ASSUME Inv, NEW p \in Proposals, NEW id \in Nat, AwardTo(p, id), UNCHANGED <<trip, lines, exc>>
  PROVE  /\ asg' \in [Jobs -> Assignment]
         /\ proposal' \in [Proposals -> ProposalStatus]
         /\ job' \in [Jobs -> JobStatus]
         /\ \A j \in Jobs : Firm(j)' => Firm(j)
  <1>1. JobOf[p] \in Jobs BY AwardConstants
  <1>2. asg' \in [Jobs -> Assignment]
    BY <1>1 DEF AwardTo, Inv, RowsGood, RowsTyped, Assignment, AsgStatus
  <1>3. proposal' \in [Proposals -> ProposalStatus]
    BY DEF AwardTo, Inv, RowsGood, RowsTyped, ProposalStatus
  <1>4. job' \in [Jobs -> JobStatus]
    BY DEF AwardTo, Inv, RowsGood, RowsTyped, JobStatus
  <1>5. \A j \in Jobs : Firm(j)' => Firm(j)
    BY <1>1 DEF AwardTo, Firm, Inv, RowsGood, RowsTyped
  <1> QED BY <1>2, <1>3, <1>4, <1>5

LEMMA Reaccepts ==
  ASSUME Inv, NEW c \in Calls, Reaccept(c)
  PROVE  Inv'
  <1> DEFINE p == call[c].prop
             e == call[c].ev
             id == IF asg[JobOf[p]].status = "NONE" THEN e ELSE asg[JobOf[p]].id
  <1>1. /\ call[c].at = "reaccept" /\ e \in Events /\ p \in Proposals /\ pi[e] = "succeeded"
        /\ JobOf[p] \in Jobs
    BY OnEvent, AwardConstants
       DEF Reaccept, At, EvLabels, PropLabels, PaidLabels, Inv, SlotsGood, SlotGood, SlotTyped
  <1>2. id \in Nat BY <1>1 DEF Inv, RowsGood, RowsTyped, Assignment, Events
  <1>3. CASE Live(e)
    <2>1. /\ AwardTo(p, id) /\ UNCHANGED <<trip, lines, exc, stripe, world>>
          /\ pe' = [pe EXCEPT ![e].prop = p, ![e].asg = id, ![e].expired = ConflictPeers(p)]
          /\ Begin(c, OnCharge("lockRead", e, "idle"))
      BY <1>3 DEF Reaccept
    <2>2. ConflictPeers(p) \subseteq Proposals BY DEF ConflictPeers
    <2> HIDE DEF p, e, id
    <2>3. pe' \in [Events -> ChargeRow]
      <3>1. [pe[e] EXCEPT !.prop = p, !.asg = id, !.expired = ConflictPeers(p)] \in ChargeRow
        BY <1>1, <1>2, <2>2 DEF Inv, RowsGood, RowsTyped, ChargeRow
      <3>2. PICK r \in ChargeRow : pe' = [pe EXCEPT ![e] = r]
        BY <1>1, <2>1, <3>1 DEF Inv, RowsGood, RowsTyped
      <3> QED BY <3>2 DEF Inv, RowsGood, RowsTyped
    <2>4. \A f \in Events : pe'[f].key = pe[f].key /\ pe'[f].st = pe[f].st
      BY <1>1, <2>1 DEF Inv, RowsGood, RowsTyped, ChargeRow
    <2>5. Grows(pi, pe, pi', pe') BY <2>1, <2>4 DEF Grows, stripe
    <2>6. RowsTyped' /\ ChargesGood' /\ AwardsPaid'
      BY <1>1, <1>2, <2>1, <2>3, <2>4, <2>5, AwardKeeps, StaysPaid
         DEF Inv, RowsGood, RowsTyped, ChargesGood, stripe
    <2>7. SlotsGood'
      <3>1. Steady(c) BY <2>1, <2>5 DEF Steady, Inv, SlotsGood, SlotGood, SlotCreates, stripe
      <3>2. pi'[e] = "succeeded" BY <1>1, <2>1 DEF stripe
      <3>3. PICK k : k = OnCharge("lockRead", e, "idle") OBVIOUS
      <3>4. SlotGood(k, pi', pe') /\ k.at # "createPi"
        BY <1>1, <3>2, <3>3, OnChargeGood DEF EvLabels
      <3> QED BY <2>1, <3>1, <3>3, <3>4, OneSlotMoves DEF Begin, Steady, Inv
    <2> QED BY <2>1, <2>6, <2>7 DEF Inv, RowsGood, StripeTyped, WorldTyped, stripe, world
  <1>4. CASE ~Live(e)
    <2>1. UNCHANGED <<db, stripe, world>> /\ Leave(c)
      BY <1>4 DEF Reaccept, db
    <2> QED BY <2>1, RowsKept, QuietIsSteady, Leaves DEF Inv, db, stripe
  <1> QED BY <1>3, <1>4

(* A new charge row is keyed, and no other request creates its intent. *)
LEMMA Reserves ==
  ASSUME Inv, NEW c \in Calls, Reserve(c)
  PROVE  Inv'
  <1> DEFINE p == call[c].prop
             row == call[c].row
  <1>1. p \in Proposals /\ JobOf[p] \in Jobs /\ row \in Nat
    BY AwardConstants
       DEF Reserve, At, PropLabels, Inv, SlotsGood, SlotsTyped, Slot, SlotGood, SlotTyped
  <1>2. UNCHANGED <<trip, lines, exc, stripe, world>> BY DEF Reserve
  <1>3. ASSUME NEW e \in UnusedEvents, NEW id \in Nat, AwardTo(p, id),
               pe' = [pe EXCEPT ![e] = [st |-> "PENDING", key |-> p, prop |-> p, asg |-> id,
                                        hasPi |-> FALSE, expired |-> ConflictPeers(p)]],
               NEW m \in Metadata, Begin(c, [OnCharge("createPi", e, "idle") EXCEPT !.meta = m])
        PROVE  Inv'
    <2>1. e \in Events /\ pe[e].st = "NONE" /\ pe[e].key = None /\ pi[e] = "none"
      BY DEF UnusedEvents, Inv, RowsGood, ChargesGood
    <2>2. ConflictPeers(p) \subseteq Proposals BY DEF ConflictPeers
    <2>3. p # None BY <1>1, AwardConstants
    <2> HIDE DEF p
    <2>4. pe' \in [Events -> ChargeRow]
      BY <1>1, <1>3, <2>1, <2>2 DEF Inv, RowsGood, RowsTyped, ChargeRow, EventStatus
    <2>5. /\ pe'[e].key = p /\ pe'[e].st = "PENDING"
          /\ \A f \in Events \ {e} : pe'[f] = pe[f]
      BY <1>3, <2>1 DEF Inv, RowsGood, RowsTyped
    <2>6. Grows(pi, pe, pi', pe') BY <1>2, <2>1, <2>5 DEF Grows, stripe
    <2>7. RowsTyped' /\ ChargesGood' /\ AwardsPaid'
      BY <1>1, <1>2, <1>3, <2>1, <2>3, <2>4, <2>5, <2>6, AwardKeeps, StaysPaid
         DEF Inv, RowsGood, RowsTyped, ChargesGood, stripe
    <2>8. SlotsGood'
      <3>1. PICK k : k = [OnCharge("createPi", e, "idle") EXCEPT !.meta = m] OBVIOUS
      <3>2. k.at = "createPi" /\ k.ev = e BY <3>1 DEF OnCharge, Idle
      <3>3. SlotGood(k, pi', pe')
        BY <1>2, <2>1, <2>3, <2>5, <3>1
           DEF OnCharge, SlotGood, SlotTyped, SlotPaid, SlotCreates, Slot, Idle, NoMeta,
             Metadata, Labels, PiStatus,
               EvLabels, PropLabels, JobLabels, PaidLabels, stripe
      <3>4. \A d \in Calls : call'[d] = IF d = c THEN k ELSE call[d]
        BY <1>3, <3>1 DEF Begin, Inv, SlotsGood, SlotsTyped
      <3>5. \A d \in Calls \ {c} : SlotGood(call[d], pi', pe')
        BY <1>2, <2>6, SlotStays DEF Inv, SlotsGood, SlotGood, SlotCreates, stripe
      <3>6. \A d \in Calls : SlotGood(call'[d], pi', pe') BY <3>3, <3>4, <3>5
      <3>7. SlotsTyped'
        BY <1>3, <3>1, <3>3 DEF Begin, Inv, SlotsGood, SlotsTyped, SlotGood, SlotTyped
      <3>8. \A d \in Calls : call[d].at = "createPi" => call[d].ev # e
        BY <2>1 DEF Inv, SlotsGood, SlotGood, SlotCreates
      <3>9. OneCreator'
        BY <3>2, <3>4, <3>8 DEF Inv, SlotsGood, OneCreator
      <3> QED BY <3>6, <3>7, <3>9 DEF SlotsGood
    <2> QED BY <1>2, <2>7, <2>8 DEF Inv, RowsGood, StripeTyped, WorldTyped, stripe, world
  <1>4. CASE Leave(c) /\ UNCHANGED <<asg, proposal, job, pe>>
    BY <1>2, <1>4, RowsKept, QuietIsSteady, Leaves DEF Inv, db, stripe
  <1>5. \A e \in UnusedEvents : (IF row = 0 THEN e ELSE row) \in Nat
    BY <1>1 DEF UnusedEvents, Events
  <1>6. \A id \in Nat : [prop |-> p, asg |-> id, expired |-> ConflictPeers(p)] \in Metadata
    BY <1>1 DEF Metadata, ConflictPeers
  <1> QED BY <1>3, <1>4, <1>5, <1>6 DEF Reserve

(* Stripe's answer to a create concerns an intent no one else creates. *)
LEMMA Creates ==
  ASSUME Inv, NEW c \in Calls, call[c].at = "createPi",
         UNCHANGED pe, NEW s \in PiStatus, pi' = [pi EXCEPT ![call[c].ev] = s]
  PROVE  /\ call[c].ev \in Events /\ pi'[call[c].ev] = s
         /\ Steady(c) /\ pi' \in [Events -> PiStatus]
         /\ ChargesGood' /\ (UNCHANGED <<asg, trip, lines, exc>> => AwardsPaid')
  <1>1. /\ call[c].ev \in Events /\ pi[call[c].ev] = "none" /\ pe[call[c].ev].key # None
        /\ pi \in [Events -> PiStatus]
    BY OnEvent DEF EvLabels, Inv, SlotsGood, SlotGood, SlotCreates, RowsGood, StripeTyped
  <1>2. Grows(pi, pe, pi', pe') BY <1>1 DEF Grows
  <1>3. Steady(c)
    BY <1>1, <1>2 DEF Steady, Inv, SlotsGood, SlotGood, SlotTyped, SlotCreates, OneCreator, EvLabels
  <1>4. ChargesGood' BY <1>1 DEF Inv, RowsGood, ChargesGood
  <1>5. UNCHANGED <<asg, trip, lines, exc>> => AwardsPaid'
    BY <1>2, StaysPaid DEF Inv, RowsGood, Firm
  <1>6. pi' \in [Events -> PiStatus] BY <1>1
  <1> QED BY <1>1, <1>3, <1>4, <1>5, <1>6

LEMMA CreateAnswers ==
  ASSUME Inv, NEW c \in Calls, CreatePiAnswer(c)
  PROVE  Inv'
  <1>1. PICK s \in PiStatus : /\ pi' = [pi EXCEPT ![call[c].ev] = s]
                             /\ call' = [call EXCEPT ![c].at = "attachPi", ![c].pi = s]
    BY DEF CreatePiAnswer, PiStatus
  <1>2. call[c].at = "createPi" /\ UNCHANGED <<db, declined, world>>
    BY DEF CreatePiAnswer, At
  <1>3. /\ call[c].ev \in Events /\ pi'[call[c].ev] = s /\ Steady(c)
        /\ ChargesGood' /\ AwardsPaid' /\ pi' \in [Events -> PiStatus]
    BY <1>1, <1>2, Creates DEF db
  <1>4. RowsGood'
    BY <1>2, <1>3 DEF Inv, RowsGood, RowsTyped, StripeTyped, WorldTyped, db, world
  <1> DEFINE k == [call[c] EXCEPT !.at = "attachPi", !.pi = s]
  <1>5. call[c] \in Slot /\ SlotTyped(call[c]) BY DEF Inv, SlotsGood, SlotsTyped, SlotGood
  <1>6. call' = [call EXCEPT ![c] = k] BY <1>1 DEF Inv, SlotsGood, SlotsTyped
  <1>7. k \in Slot /\ k.at = "attachPi" /\ k.ev = call[c].ev /\ k.then = call[c].then
        /\ k.prop = call[c].prop /\ k.pi = s
    BY <1>1, <1>5 DEF Slot, Labels
  <1> HIDE DEF k
  <1>8. SlotGood(k, pi', pe') /\ k.at # "createPi"
    BY <1>3, <1>5, <1>7 DEF SlotGood, SlotTyped, SlotPaid, SlotCreates,
           EvLabels, PropLabels, JobLabels, PaidLabels
  <1> QED BY <1>3, <1>4, <1>6, <1>8, OneSlotMoves DEF Inv, Steady

LEMMA CreateThrows ==
  ASSUME Inv, NEW c \in Calls, CreatePiThrow(c)
  PROVE  Inv'
  <1>1. /\ call[c].at = "createPi" /\ call[c].at \in EvLabels /\ Goto(c, "failPe")
        /\ UNCHANGED <<db, recorded, aged>>
    BY DEF CreatePiThrow, At, EvLabels
  <1>2. call[c].ev \in Events BY <1>1, OnEvent DEF Inv
  <1>3. CASE UNCHANGED <<stripe, faults>>
    <2>1. UNCHANGED <<db, stripe, world>> BY <1>1, <1>3 DEF world
    <2> QED BY <1>1, <1>2, <2>1, RowsKept, QuietIsSteady, Goes
         DEF Inv, db, stripe, Labels, EvLabels, PropLabels, JobLabels, PaidLabels
  <1>4. ASSUME NEW s \in PiStatus, pi' = [pi EXCEPT ![call[c].ev] = s],
               declined' \in SUBSET Events, faults' \in 0..MaxFaults
        PROVE  Inv'
    <2>1. Steady(c) /\ ChargesGood' /\ AwardsPaid' /\ pi' \in [Events -> PiStatus]
      BY <1>1, <1>4, Creates DEF db
    <2>2. RowsGood'
      BY <1>1, <1>4, <2>1 DEF Inv, RowsGood, RowsTyped, StripeTyped, WorldTyped, db
    <2>3. SlotsGood'
      BY <1>1, <1>2, <2>1, Goes DEF Inv, Labels, EvLabels, PropLabels, JobLabels, PaidLabels
    <2> QED BY <2>2, <2>3 DEF Inv
  <1>5. CASE /\ pi' = [pi EXCEPT ![call[c].ev] = "requires_payment_method"]
             /\ declined' = declined \cup {call[c].ev} /\ UNCHANGED faults
    BY <1>2, <1>4, <1>5 DEF PiStatus, Inv, RowsGood, StripeTyped, WorldTyped
  <1>6. CASE /\ faults < MaxFaults /\ faults' = faults + 1
             /\ pi' = [pi EXCEPT ![call[c].ev] = "succeeded"] /\ UNCHANGED declined
    <2>1. faults' \in 0..MaxFaults
      BY <1>6, AwardConstants DEF Inv, RowsGood, WorldTyped
    <2> QED BY <1>4, <1>6, <2>1 DEF PiStatus, Inv, RowsGood, StripeTyped
  <1> QED BY <1>3, <1>5, <1>6 DEF CreatePiThrow

(* Cancelling an intent never takes a capture back. *)
LEMMA CancelsPi ==
  ASSUME Inv, NEW c \in Calls, CancelPi(c)
  PROVE  Inv'
  <1> DEFINE e == call[c].ev
  <1>1. e \in Events /\ Goto(c, "unwind") /\ UNCHANGED <<db, declined, world>>
    BY OnEvent DEF CancelPi, At, EvLabels, Inv
  <1>2. /\ pi' \in [Events -> PiStatus]
        /\ \A f \in Events : pi[f] \in {"none", "succeeded"} => pi'[f] = pi[f]
        /\ \A f \in Events : pi'[f] # "none" => pi[f] # "none"
    BY <1>1 DEF CancelPi, Inv, RowsGood, StripeTyped, PiStatus
  <1>3. Grows(pi, pe, pi', pe') BY <1>1, <1>2 DEF Grows, db
  <1>4. Steady(c)
    BY <1>2, <1>3 DEF Steady, Inv, SlotsGood, SlotGood, SlotTyped, SlotCreates, EvLabels
  <1>5. ChargesGood' BY <1>1, <1>2 DEF Inv, RowsGood, ChargesGood, db
  <1>6. AwardsPaid' BY <1>1, <1>3, StaysPaid DEF Inv, RowsGood, Firm, db
  <1>7. RowsGood'
    BY <1>1, <1>2, <1>5, <1>6 DEF Inv, RowsGood, RowsTyped, StripeTyped, WorldTyped, db, world
  <1>8. SlotsGood'
    BY <1>1, <1>4, Goes DEF Inv, Labels, EvLabels, PropLabels, JobLabels, PaidLabels
  <1> QED BY <1>7, <1>8 DEF Inv

LEMMA Attaches ==
  ASSUME Inv, NEW c \in Calls, AttachPi(c)
  PROVE  Inv'
  <1> DEFINE e == call[c].ev
             st == AttachedStatus(call[c].pi)
  <1>1. /\ e \in Events /\ UNCHANGED <<job, proposal, asg, trip, lines, exc, stripe, world>>
        /\ call[c].at = "attachPi"
    BY OnEvent DEF AttachPi, At, EvLabels, Inv
  <1>2. /\ st \in EventStatus \ {"NONE"} /\ (st = "SUCCEEDED" => pi[e] = "succeeded")
        /\ (call[c].pi = "succeeded" => pi[e] = "succeeded")
    BY <1>1 DEF AttachedStatus, EventStatus, Inv, SlotsGood, SlotGood, SlotPaid
  <1>3. CASE Live(e)
    <2>1. pe' = [pe EXCEPT ![e].st = st, ![e].hasPi = TRUE] BY <1>3 DEF AttachPi
    <2>2. \/ call[c].pi = "succeeded" /\ Begin(c, OnCharge("lockRead", e, "idle"))
          \/ Leave(c)
      BY <1>3 DEF AttachPi
    <2> HIDE DEF st, e
    <2>3. pe' \in [Events -> ChargeRow]
      <3>1. [pe[e] EXCEPT !.st = st, !.hasPi = TRUE] \in ChargeRow
        BY <1>1, <1>2 DEF Inv, RowsGood, RowsTyped, ChargeRow
      <3>2. PICK r \in ChargeRow : pe' = [pe EXCEPT ![e] = r]
        BY <1>1, <2>1, <3>1 DEF Inv, RowsGood, RowsTyped
      <3> QED BY <3>2 DEF Inv, RowsGood, RowsTyped
    <2>4. \A f \in Events : pe'[f].key = pe[f].key /\ pe'[f].st = IF f = e THEN st ELSE pe[f].st
      BY <1>1, <2>1 DEF Inv, RowsGood, RowsTyped, ChargeRow
    <2>5. Grows(pi, pe, pi', pe') BY <1>1, <2>4 DEF Grows, stripe
    <2>6. ChargesGood'
      BY <1>1, <1>2, <1>3, <2>4 DEF Inv, RowsGood, ChargesGood, Live, stripe
    <2>7. AwardsPaid' BY <1>1, <2>5, StaysPaid DEF Inv, RowsGood, Firm
    <2>8. RowsGood'
      BY <1>1, <2>3, <2>6, <2>7
         DEF Inv, RowsGood, RowsTyped, StripeTyped, WorldTyped, stripe, world
    <2>9. Steady(c)
      BY <1>1, <2>5 DEF Steady, Inv, SlotsGood, SlotGood, SlotCreates, stripe
    <2>10. CASE Leave(c) BY <2>8, <2>9, <2>10, Leaves DEF Inv
    <2>11. CASE call[c].pi = "succeeded" /\ Begin(c, OnCharge("lockRead", e, "idle"))
      <3>1. pi'[e] = "succeeded" BY <1>1, <1>2, <2>11 DEF stripe, e
      <3>2. PICK k : k = OnCharge("lockRead", e, "idle") OBVIOUS
      <3>3. SlotGood(k, pi', pe') /\ k.at # "createPi"
        BY <1>1, <3>1, <3>2, OnChargeGood DEF EvLabels
      <3> QED BY <2>8, <2>9, <2>11, <3>2, <3>3, OneSlotMoves DEF Begin, Steady, Inv
    <2> QED BY <2>2, <2>10, <2>11
  <1>4. CASE ~Live(e)
    <2>1. UNCHANGED <<db, stripe, world>> /\ Leave(c)
      BY <1>4 DEF AttachPi, db
    <2> QED BY <2>1, RowsKept, QuietIsSteady, Leaves DEF Inv, db, stripe
  <1> QED BY <1>3, <1>4

(* Unwinding takes things away, and keeps the key of the charge row.       *)
LEMMA Unwinds ==
  ASSUME Inv, NEW c \in Calls, Unwind(c)
  PROVE  Inv'
  <1> DEFINE e == call[c].ev
             j == EventJob(e)
  <1>1. /\ e \in Events /\ call[c].at \in EvLabels
        /\ UNCHANGED <<lines, stripe, recorded, faults>>
    BY OnEvent DEF Unwind, At, EvLabels, Inv
  <1>2. CASE Live(e)
    <2>1. j \in Jobs /\ pe[e].key \in Proposals
      BY <1>1, <1>2, EventKey DEF Live, Inv, RowsGood
    <2>2. /\ asg' \in {asg, [asg EXCEPT ![j] = NoAsg]}
          /\ trip' \in {trip, [trip EXCEPT ![j] = "NONE"]}
          /\ exc' \in {exc, [exc EXCEPT ![j] = FALSE]}
          /\ job' \in {job, [job EXCEPT ![j] = "BIDDING"]}
      BY <1>2, SMT DEF Unwind
    <2>3. /\ pe' = [pe EXCEPT ![e] = [NoEvent EXCEPT !.st = "DELETED", !.key = pe[e].key,
                                                    !.hasPi = pe[e].hasPi]]
          /\ aged' = aged \ {e} /\ Resume(c)
      BY <1>2 DEF Unwind
    <2>4. proposal' \in [Proposals -> ProposalStatus]
      BY <1>2, SMT DEF Unwind, Inv, RowsGood, RowsTyped, ProposalStatus
    <2> HIDE DEF e, j
    <2>5. asg' \in [Jobs -> Assignment]
      BY <2>2 DEF NoAsg, Inv, RowsGood, RowsTyped, Assignment, AsgStatus
    <2>6. /\ trip' \in [Jobs -> TripStatus]
          /\ exc' \in [Jobs -> BOOLEAN]
          /\ job' \in [Jobs -> JobStatus]
      BY <2>2 DEF Inv, RowsGood, RowsTyped, TripStatus, JobStatus
    <2>7. pe' \in [Events -> ChargeRow]
      BY <1>1, <2>1, <2>3 DEF NoEvent, Inv, RowsGood, RowsTyped, ChargeRow, EventStatus
    <2>8. /\ \A f \in Events : pe'[f].key = pe[f].key
          /\ \A f \in Events \ {e} : pe'[f].st = pe[f].st
          /\ pe'[e].st = "DELETED"
      BY <1>1, <2>3 DEF NoEvent, Inv, RowsGood, RowsTyped
    <2>9. Grows(pi, pe, pi', pe') BY <1>1, <2>8 DEF Grows, stripe
    <2>10. ChargesGood'
      BY <1>1, <1>2, <2>8 DEF Inv, RowsGood, ChargesGood, Live, stripe
    <2>11. \A i \in Jobs : Firm(i)' => Firm(i)
      BY <1>1, <2>1, <2>2 DEF Firm, NoAsg, Inv, RowsGood, RowsTyped
    <2>12. RowsGood'
      BY <1>1, <2>3, <2>4, <2>5, <2>6, <2>7, <2>9, <2>10, <2>11, StaysPaid
         DEF Inv, RowsGood, RowsTyped, StripeTyped, WorldTyped, stripe
    <2>13. Steady(c)
      BY <1>1, <2>9 DEF Steady, Inv, SlotsGood, SlotGood, SlotCreates, stripe
    <2> QED BY <1>1, <2>3, <2>12, <2>13, Resumes DEF Inv
  <1>3. CASE ~Live(e)
    <2>1. UNCHANGED <<db, stripe, world>> /\ Leave(c)
      BY <1>1, <1>3 DEF Unwind, db, world
    <2> QED BY <2>1, RowsKept, QuietIsSteady, Leaves DEF Inv, db, stripe
  <1> QED BY <1>2, <1>3

(* The lock makes firm only the job whose captured event it was called for.*)
LEMMA Locks ==
  ASSUME Inv, NEW c \in Calls, Lock(c)
  PROVE  Inv'
  <1> DEFINE e == call[c].ev
             j == EventJob(e)
  <1>1. /\ e \in Events /\ call[c].at \in EvLabels /\ pi[e] = "succeeded"
        /\ UNCHANGED <<proposal, trip, exc, stripe, world>>
    BY OnEvent DEF Lock, At, EvLabels, PaidLabels, Inv
  <1>2. CASE Live(e) /\ asg[j].id = call[c].row
    <2>1. j \in Jobs /\ CapturedFor(j, pi, pe)
      BY <1>1, PaidEvent DEF Inv, RowsGood
    <2>2. /\ pe' = [pe EXCEPT ![e].st = "SUCCEEDED", ![e].hasPi = TRUE]
          /\ asg' = [asg EXCEPT ![j].status = "LOCKED"]
          /\ job' = [job EXCEPT ![j] = "ASSIGNED"]
          /\ lines' \in {lines, [lines EXCEPT ![j] = "live"]}
          /\ Goto(c, "ensureTrip")
      BY <1>2, SMT DEF Lock
    <2> HIDE DEF e, j
    <2>3. pe' \in [Events -> ChargeRow]
      <3>1. [pe[e] EXCEPT !.st = "SUCCEEDED", !.hasPi = TRUE] \in ChargeRow
        BY <1>1 DEF Inv, RowsGood, RowsTyped, ChargeRow, EventStatus
      <3>2. PICK r \in ChargeRow : pe' = [pe EXCEPT ![e] = r]
        BY <1>1, <2>2, <3>1 DEF Inv, RowsGood, RowsTyped
      <3> QED BY <3>2 DEF Inv, RowsGood, RowsTyped
    <2>4. \A f \in Events : /\ pe'[f].key = pe[f].key
                            /\ pe'[f].st = IF f = e THEN "SUCCEEDED" ELSE pe[f].st
      BY <1>1, <2>2 DEF Inv, RowsGood, RowsTyped, ChargeRow
    <2>5. /\ asg' \in [Jobs -> Assignment]
          /\ job' \in [Jobs -> JobStatus]
          /\ lines' \in [Jobs -> LineStatus]
      <3>1. [asg[j] EXCEPT !.status = "LOCKED"] \in Assignment
        BY <2>1 DEF Inv, RowsGood, RowsTyped, Assignment, AsgStatus
      <3>2. PICK a \in Assignment : asg' = [asg EXCEPT ![j] = a]
        BY <2>1, <2>2, <3>1 DEF Inv, RowsGood, RowsTyped
      <3>3. asg' \in [Jobs -> Assignment] BY <3>2 DEF Inv, RowsGood, RowsTyped
      <3>4. job' \in [Jobs -> JobStatus] /\ lines' \in [Jobs -> LineStatus]
        BY <2>2 DEF Inv, RowsGood, RowsTyped, JobStatus, LineStatus
      <3> QED BY <3>3, <3>4
    <2>6. Grows(pi, pe, pi', pe') BY <1>1, <2>4 DEF Grows, stripe
    <2>7. ChargesGood'
      BY <1>1, <2>4 DEF Inv, RowsGood, ChargesGood, stripe
    <2>8. CapturedFor(j, pi', pe') BY <2>1, <2>6, CapturedStays
    <2>9. \A i \in Jobs \ {j} : Firm(i)' => Firm(i)
      BY <1>1, <2>2 DEF Firm, Inv, RowsGood, RowsTyped
    <2>10. AwardsPaid' BY <2>6, <2>8, <2>9, StaysPaid DEF Inv, RowsGood
    <2>11. RowsGood'
      BY <1>1, <2>3, <2>5, <2>7, <2>10
         DEF Inv, RowsGood, RowsTyped, StripeTyped, WorldTyped, stripe, world
    <2>12. Steady(c)
      BY <1>1, <2>6 DEF Steady, Inv, SlotsGood, SlotGood, SlotCreates, stripe
    <2>13. call[c].ev \in Events /\ pi'[call[c].ev] = "succeeded" BY <1>1 DEF e, stripe
    <2> QED BY <2>2, <2>11, <2>12, <2>13, Goes
         DEF Inv, Labels, EvLabels, PropLabels, JobLabels, PaidLabels
  <1>3. CASE ~(Live(e) /\ asg[j].id = call[c].row)
    <2>1. UNCHANGED <<db, stripe, world>> /\ Leave(c)
      BY <1>1, <1>3 DEF Lock, db
    <2> QED BY <2>1, RowsKept, QuietIsSteady, Leaves DEF Inv, db, stripe
  <1> QED BY <1>2, <1>3

(* Steps that touch neither Stripe nor a charge row. *)
LEMMA JobRows ==
  ASSUME RowsGood, UNCHANGED <<pe, stripe, world>>, RowsTyped',
         \A j \in Jobs : Firm(j)' => Firm(j) \/ CapturedFor(j, pi, pe)
  PROVE  RowsGood' /\ Grows(pi, pe, pi', pe')
  <1>1. Grows(pi, pe, pi', pe') BY DEF Grows, stripe
  <1>2. AwardsPaid' BY <1>1, StaysPaid DEF RowsGood, stripe
  <1> QED BY <1>1, <1>2 DEF RowsGood, StripeTyped, WorldTyped, ChargesGood, stripe, world

LEMMA TripWrites ==
  ASSUME Inv, NEW c \in Calls, WriteTrip(c)
  PROVE  Inv'
  <1> DEFINE e == call[c].ev
             j == EventJob(e)
  <1>1. /\ e \in Events /\ call[c].at \in EvLabels /\ pi[e] = "succeeded"
        /\ UNCHANGED <<job, proposal, asg, lines, exc, pe, stripe, world>>
    BY OnEvent DEF WriteTrip, At, EvLabels, PaidLabels, Inv
  <1>2. j \in Jobs /\ CapturedFor(j, pi, pe)
    BY <1>1, PaidEvent DEF Inv, RowsGood
  <1>3. /\ trip' \in {trip, [trip EXCEPT ![j] = "PENDING_GATES"]}
        /\ Resume(c) \/ Leave(c)
    BY SMT DEF WriteTrip
  <1> HIDE DEF e, j
  <1>4. RowsTyped' BY <1>1, <1>2, <1>3 DEF Inv, RowsGood, RowsTyped, TripStatus
  <1>5. \A i \in Jobs : Firm(i)' => Firm(i) \/ CapturedFor(i, pi, pe)
    BY <1>1, <1>2, <1>3 DEF Firm, Inv, RowsGood, RowsTyped
  <1>6. RowsGood' BY <1>1, <1>4, <1>5, JobRows DEF Inv
  <1>7. SlotsGood'
    BY <1>1, <1>3, QuietIsSteady, Resumes, Leaves DEF Inv, stripe
  <1> QED BY <1>6, <1>7 DEF Inv

LEMMA Records ==
  ASSUME Inv, NEW c \in Calls, Record(c)
  PROVE  Inv'
  <1>1. call[c].ev \in Events /\ Leave(c) /\ UNCHANGED <<db, stripe, aged, faults>>
    BY OnEvent DEF Record, At, EvLabels, Inv
  <1>2. recorded' \in SUBSET (Events \X {"succeeded", "payment_failed"})
    BY <1>1 DEF Record, Inv, RowsGood, WorldTyped
  <1>3. RowsGood'
    BY <1>1, <1>2 DEF Inv, RowsGood, RowsTyped, StripeTyped, WorldTyped, ChargesGood, AwardsPaid,
           Firm, CapturedFor, db, stripe
  <1> QED BY <1>1, <1>3, QuietIsSteady, Leaves DEF Inv, db, stripe

(* Cancelling or releasing a job lets its award go and makes none firm.    *)
LEMMA LetsGo ==
  ASSUME RowsTyped, NEW j \in Jobs, asg' \in {asg, [asg EXCEPT ![j] = Freed(@)]},
         ExpireBids(j) \/ UNCHANGED proposal
  PROVE  /\ asg' \in [Jobs -> Assignment]
         /\ proposal' \in [Proposals -> ProposalStatus]
         /\ \A i \in Jobs : asg'[i].status \in {asg[i].status, "CANCELLED"}
  <1>1. Freed(asg[j]) \in Assignment /\ Freed(asg[j]).status = "CANCELLED"
    BY DEF Freed, RowsTyped, Assignment, AsgStatus
  <1>2. asg' \in {asg, [asg EXCEPT ![j] = Freed(asg[j])]} OBVIOUS
  <1>3. proposal' \in [Proposals -> ProposalStatus]
    BY DEF ExpireBids, RowsTyped, ProposalStatus
  <1> HIDE DEF Freed
  <1> QED BY <1>1, <1>2, <1>3 DEF RowsTyped

LEMMA JobCancels ==
  ASSUME Inv, NEW c \in Calls, CancelJob(c)
  PROVE  Inv'
  <1> DEFINE j == call[c].job
  <1>1. j \in Jobs /\ Leave(c) /\ UNCHANGED <<trip, lines, exc, pe, stripe, world>>
    BY DEF CancelJob, At, JobLabels, Inv, SlotsGood, SlotGood, SlotTyped
  <1>2. /\ asg' \in {asg, [asg EXCEPT ![j] = Freed(@)]}
        /\ ExpireBids(j) \/ UNCHANGED proposal
        /\ job' \in {job, [job EXCEPT ![j] = "CANCELLED"]}
    BY SMT DEF CancelJob
  <1> HIDE DEF j
  <1>3. /\ asg' \in [Jobs -> Assignment] /\ proposal' \in [Proposals -> ProposalStatus]
        /\ \A i \in Jobs : asg'[i].status \in {asg[i].status, "CANCELLED"}
    BY <1>1, <1>2, LetsGo DEF Inv, RowsGood
  <1>4. RowsTyped' BY <1>1, <1>2, <1>3 DEF Inv, RowsGood, RowsTyped, JobStatus
  <1>5. \A i \in Jobs : Firm(i)' => Firm(i) BY <1>1, <1>3 DEF Firm
  <1>6. RowsGood' BY <1>1, <1>4, <1>5, JobRows DEF Inv
  <1> QED BY <1>1, <1>6, QuietIsSteady, Leaves DEF Inv, stripe

LEMMA Releases ==
  ASSUME Inv, NEW c \in Calls, Release(c)
  PROVE  Inv'
  <1> DEFINE j == call[c].job
  <1>1. /\ j \in Jobs /\ UNCHANGED <<lines, pe, stripe, world>>
        /\ CapturedFor(j, pi, pe)
    BY DEF Release, At, JobLabels, Inv, SlotsGood, SlotGood, SlotTyped, SlotPaid
  <1>2. CASE asg[j].id = call[c].row
    <2>1. /\ asg' = [asg EXCEPT ![j] = Freed(@)] /\ ExpireBids(j)
          /\ job' = [job EXCEPT ![j] = "BIDDING"]
          /\ exc' = [exc EXCEPT ![j] = FALSE]
          /\ \E t \in {"CANCELLED", "ABANDONED"} : trip' = [trip EXCEPT ![j] = t]
          /\ Goto(c, "adjust")
      BY <1>2, SMT DEF Release
    <2> HIDE DEF j
    <2>2. /\ asg' \in [Jobs -> Assignment] /\ proposal' \in [Proposals -> ProposalStatus]
          /\ \A i \in Jobs : asg'[i].status \in {asg[i].status, "CANCELLED"}
      BY <1>1, <2>1, LetsGo DEF Inv, RowsGood
    <2>3. RowsTyped'
      BY <1>1, <2>1, <2>2 DEF Inv, RowsGood, RowsTyped, JobStatus, TripStatus
    <2>4. \A i \in Jobs : Firm(i)' => Firm(i) \/ CapturedFor(i, pi, pe)
      BY <1>1, <2>1, <2>2 DEF Firm, Inv, RowsGood, RowsTyped
    <2>5. RowsGood' BY <1>1, <2>3, <2>4, JobRows DEF Inv
    <2>6. call[c].job \in Jobs BY <1>1 DEF j
    <2> QED BY <1>1, <2>1, <2>5, <2>6, QuietIsSteady, Goes
         DEF Inv, stripe, Labels, EvLabels, PropLabels, JobLabels, PaidLabels
  <1>3. CASE asg[j].id # call[c].row
    <2>1. UNCHANGED <<db, stripe, world>> /\ Leave(c)
      BY <1>1, <1>3 DEF Release, db
    <2> QED BY <2>1, RowsKept, QuietIsSteady, Leaves DEF Inv, db, stripe
  <1> QED BY <1>2, <1>3

LEMMA Adjusts ==
  ASSUME Inv, NEW c \in Calls, Adjust(c)
  PROVE  Inv'
  <1> DEFINE j == call[c].job
  <1>1. /\ j \in Jobs /\ Leave(c)
        /\ UNCHANGED <<job, proposal, asg, trip, exc, pe, stripe, world>>
    BY DEF Adjust, At, JobLabels, Inv, SlotsGood, SlotGood, SlotTyped
  <1>2. lines' = lines \/ (lines[j] = "live" /\ lines' = [lines EXCEPT ![j] = "void"])
    BY SMT DEF Adjust
  <1> HIDE DEF j
  <1>3. RowsTyped' BY <1>1, <1>2 DEF Inv, RowsGood, RowsTyped, LineStatus
  <1>4. \A i \in Jobs : Firm(i)' => Firm(i)
    BY <1>1, <1>2 DEF Firm, Inv, RowsGood, RowsTyped
  <1>5. RowsGood' BY <1>1, <1>3, <1>4, JobRows DEF Inv
  <1> QED BY <1>1, <1>5, QuietIsSteady, Leaves DEF Inv, stripe

-----------------------------------------------------------------------------
(* The trip, Stripe, time and crashes. *)

LEMMA TripMoves ==
  ASSUME Inv, NEW j \in Jobs, StartTrip(j) \/ CompleteTrip(j) \/ OpenException(j)
  PROVE  Inv'
  <1>1. UNCHANGED <<proposal, lines, pe, stripe, world, call>>
    BY DEF StartTrip, CompleteTrip, OpenException
  <1>2. asg' \in [Jobs -> Assignment]
    <2>1. asg' \in {asg, [asg EXCEPT ![j].status = "COMPLETED"]}
      BY DEF StartTrip, CompleteTrip, OpenException
    <2> QED BY <2>1 DEF Inv, RowsGood, RowsTyped, Assignment, AsgStatus
  <1>3. /\ job' \in [Jobs -> JobStatus] /\ trip' \in [Jobs -> TripStatus]
        /\ exc' \in [Jobs -> BOOLEAN]
    BY DEF StartTrip, CompleteTrip, OpenException, Inv, RowsGood, RowsTyped, JobStatus, TripStatus
  <1>4. RowsTyped' BY <1>1, <1>2, <1>3 DEF Inv, RowsGood, RowsTyped
  <1>5. Firm(j)
    BY DEF StartTrip, CompleteTrip, OpenException, Completable, Firm
  <1>6. \A i \in Jobs \ {j} : Firm(i)' => Firm(i)
    BY <1>1 DEF StartTrip, CompleteTrip, OpenException, Firm, Inv, RowsGood, RowsTyped
  <1>7. \A i \in Jobs : Firm(i)' => Firm(i) BY <1>5, <1>6
  <1>8. RowsGood' BY <1>1, <1>4, <1>7, JobRows DEF Inv
  <1>9. SlotsGood'
    <2>1. \A d \in Calls : call[d].at = "createPi" => pi'[call[d].ev] = "none"
      BY <1>1 DEF Inv, SlotsGood, SlotGood, SlotCreates, stripe
    <2>2. Grows(pi, pe, pi', pe') BY <1>1 DEF Grows, stripe
    <2> QED BY <1>1, <2>1, <2>2, NoSlotMoves DEF Inv
  <1> QED BY <1>8, <1>9 DEF Inv

(* An intent that has settled was created, and a capture is final. *)
LEMMA Settles ==
  ASSUME Inv, NEW e \in Events, Settle(e)
  PROVE  Inv'
  <1>1. UNCHANGED <<db, world, call>> BY DEF Settle
  <1>2. pi[e] \notin {"none", "succeeded"} /\ pi \in [Events -> PiStatus]
    BY DEF Settle, Inv, RowsGood, StripeTyped
  <1>3. PICK s \in PiStatus \ {"none"} : pi' = [pi EXCEPT ![e] = s]
    BY DEF Settle, PiStatus
  <1>4. declined' \in SUBSET Events BY DEF Settle, Inv, RowsGood, StripeTyped
  <1>5. Grows(pi, pe, pi', pe') BY <1>1, <1>2, <1>3 DEF Grows, db
  <1>6. ChargesGood' BY <1>1, <1>2, <1>3 DEF Inv, RowsGood, ChargesGood, db
  <1>7. AwardsPaid' BY <1>1, <1>5, StaysPaid DEF Inv, RowsGood, Firm, db
  <1>8. RowsGood'
    BY <1>1, <1>2, <1>3, <1>4, <1>6, <1>7
       DEF Inv, RowsGood, RowsTyped, StripeTyped, WorldTyped, db, world
  <1>9. \A d \in Calls : call[d].at = "createPi" => pi'[call[d].ev] = "none"
    BY <1>2, <1>3 DEF Inv, SlotsGood, SlotGood, SlotTyped, SlotCreates, EvLabels
  <1>10. SlotsGood' BY <1>1, <1>5, <1>9, NoSlotMoves DEF Inv
  <1> QED BY <1>8, <1>10 DEF Inv

LEMMA Ages ==
  ASSUME Inv, NEW e \in Events, Age(e)
  PROVE  Inv'
  <1>1. UNCHANGED <<db, stripe, recorded, faults, call>> /\ aged' \in SUBSET Events
    BY DEF Age, Inv, RowsGood, WorldTyped
  <1>2. RowsGood'
    BY <1>1 DEF Inv, RowsGood, RowsTyped, StripeTyped, WorldTyped, ChargesGood, AwardsPaid,
           Firm, CapturedFor, db, stripe
  <1>3. \A d \in Calls : call[d].at = "createPi" => pi'[call[d].ev] = "none"
    BY <1>1 DEF Inv, SlotsGood, SlotGood, SlotCreates, stripe
  <1>4. Grows(pi, pe, pi', pe') BY <1>1 DEF Grows, db, stripe
  <1> QED BY <1>1, <1>2, <1>3, <1>4, NoSlotMoves DEF Inv

LEMMA Crashes ==
  ASSUME Inv, NEW c \in Calls, Crash(c)
  PROVE  Inv'
  <1>1. Leave(c) /\ UNCHANGED <<db, stripe, recorded, aged>> /\ faults' \in 0..MaxFaults
    BY AwardConstants DEF Crash, Inv, RowsGood, WorldTyped
  <1>2. RowsGood'
    BY <1>1 DEF Inv, RowsGood, RowsTyped, StripeTyped, WorldTyped, ChargesGood, AwardsPaid,
           Firm, CapturedFor, db, stripe
  <1> QED BY <1>1, <1>2, QuietIsSteady, Leaves DEF Inv, db, stripe

LEMMA Stutters ==
  ASSUME Inv, UNCHANGED vars
  PROVE  Inv'
  BY DEF Inv, RowsGood, RowsTyped, StripeTyped, WorldTyped, ChargesGood, AwardsPaid, Firm,
         CapturedFor, SlotsGood, SlotsTyped, OneCreator, vars

-----------------------------------------------------------------------------
LEMMA InitGood == Init => Inv
  <1> SUFFICES ASSUME Init PROVE Inv OBVIOUS
  <1>1. RowsTyped
    BY DEF Init, OpenForBids, RowsTyped, NoAsg, NoEvent, Assignment, ChargeRow, JobStatus, ProposalStatus,
           AsgStatus, TripStatus, LineStatus, EventStatus
  <1>2. StripeTyped /\ WorldTyped
    BY AwardConstants DEF Init, OpenForBids, StripeTyped, WorldTyped, PiStatus
  <1>3. ChargesGood /\ AwardsPaid
    BY DEF Init, OpenForBids, ChargesGood, AwardsPaid, Firm, NoAsg, NoEvent
  <1>4. \A c \in Calls : call[c] = Idle BY DEF Init, OpenForBids
  <1>5. \A c \in Calls : SlotGood(call[c], pi, pe) /\ call[c].at # "createPi"
    BY <1>4, IdleGood
  <1>6. SlotsTyped
    BY <1>5 DEF Init, OpenForBids, SlotsTyped, SlotGood, SlotTyped
  <1> QED BY <1>1, <1>2, <1>3, <1>5, <1>6 DEF Inv, RowsGood, SlotsGood, OneCreator

LEMMA RequestSteps ==
  ASSUME Inv, NEW c \in Calls, Arrive(c) \/ Step(c)
  PROVE  Inv'
  <1>1. CASE Arrive(c)
    BY <1>1, BidReads, AcceptReads, HookReads, SyncReads, JobReads DEF Arrive
  <1>2. CASE Step(c)
    <2>1. CASE SubmitCreate(c) \/ WithdrawWrite(c) BY <2>1, BidWrites
    <2>2. CASE AcceptProbe(c) \/ AcceptReadJob(c) BY <2>2, AcceptProbes, AcceptJobReads
    <2>3. CASE Reserve(c) \/ Reaccept(c) BY <2>3, Reserves, Reaccepts
    <2>4. CASE CreatePiAnswer(c) \/ CreatePiThrow(c) BY <2>4, CreateAnswers, CreateThrows
    <2>5. CASE FailPe(c) \/ FailWrite(c) \/ SyncWrite(c) BY <2>5, FailedWrites
    <2>6. CASE AttachPi(c) \/ CancelPi(c) \/ Unwind(c) BY <2>6, Attaches, CancelsPi, Unwinds
    <2>7. CASE LockRead(c) \/ FailCheck(c) BY <2>7, LockReads
    <2>8. CASE Lock(c) \/ EnsureTrip(c) \/ WriteTrip(c) BY <2>8, Locks, TripReads, TripWrites
    <2>9. CASE Record(c) BY <2>9, Records
    <2>10. CASE CancelJob(c) \/ Release(c) \/ Adjust(c) BY <2>10, JobCancels, Releases, Adjusts
    <2> QED BY <1>2, <2>1, <2>2, <2>3, <2>4, <2>5, <2>6, <2>7, <2>8, <2>9, <2>10 DEF Step
  <1> QED BY <1>1, <1>2

(* Inv is inductive. *)
LEMMA NextGood == Inv /\ [Next]_vars => Inv'
  <1> SUFFICES ASSUME Inv, [Next]_vars PROVE Inv' OBVIOUS
  <1>1. CASE \E c \in Calls : Arrive(c) \/ Step(c) BY <1>1, RequestSteps
  <1>2. CASE Trips BY <1>2, TripMoves DEF Trips
  <1>3. CASE External BY <1>3, Settles, Ages, Crashes DEF External
  <1>4. CASE UNCHANGED vars BY <1>4, Stutters
  <1> QED BY <1>1, <1>2, <1>3, <1>4 DEF Next

LEMMA AlwaysInv == Spec => []Inv
  BY InitGood, NextGood, PTL DEF Spec

(* Every row, intent and request slot keeps its type, however the requests *)
(* overlap: the handlers of payments.service.ts, jobs.service.ts and       *)
(* matching.service.ts write no status outside their enumerations.         *)
THEOREM TypeCorrect == Spec => []TypeOK
  <1>1. Inv => TypeOK BY DEF Inv, RowsGood, SlotsGood, TypeOK
  <1> QED BY <1>1, AlwaysInv, PTL

(* markPaidAndLock never makes an award firm, gives it a trip or settlement*)
(* lines before Stripe has captured a fare of the job.                     *)
THEOREM FareBeforeAward == Spec => []LockedIsCaptured
  <1>1. Inv => LockedIsCaptured
    BY DEF Inv, RowsGood, AwardsPaid, Firm, CapturedFor, LockedIsCaptured, JobCaptured, EventJob,
           Captured
  <1> QED BY <1>1, AlwaysInv, PTL

-----------------------------------------------------------------------------
(* The refinement.  A step on an assignment row by its id needs the row:   *)
(* RowIds says that ids which were read are ids of rows, so that a missing *)
(* row (id 0, award NONE) is never locked, finished, cancelled or released.*)
(* A request that reserved knows the row it made, as its charge row does.  *)
RowLabels  == {"lock", "createTrip", "reviveTrip", "release"}
MakeLabels == {"createPi", "failPe"}
NeedLabels == RowLabels \cup MakeLabels
KnowsRow(k) == /\ k.at \in RowLabels => k.row # 0
               /\ k.at \in MakeLabels => k.meta.asg # 0
AsgIds ==
    /\ \A j \in Jobs : /\ asg[j].status = "NONE" => asg[j].id = 0
                       /\ asg[j].id = 0 => asg[j].status = "NONE"
                       /\ trip[j] # "NONE" \/ exc[j] => asg[j].id # 0
    /\ \A e \in Events : Live(e) => pe[e].asg # 0
RowSlots == \A c \in Calls : KnowsRow(call[c])
RowIds   == AsgIds /\ RowSlots

LEMMA InitRowIds == Init => RowIds
  BY DEF Init, OpenForBids, RowIds, AsgIds, RowSlots, KnowsRow, RowLabels, MakeLabels, NoAsg,
         NoEvent, Idle, Live

(* One slot moves to k. *)
LEMMA SlotRows ==
  ASSUME SlotsTyped, RowSlots, NEW c \in Calls, NEW k, call' = [call EXCEPT ![c] = k],
         KnowsRow(k)
  PROVE  RowSlots'
  BY DEF SlotsTyped, RowSlots

(* A slot leaves, resumes or goes to a label that needs no row. *)
LEMMA MoveRows ==
  ASSUME SlotsTyped, RowSlots, NEW c \in Calls,
         Leave(c) \/ Resume(c) \/ \E l : l \notin NeedLabels /\ Goto(c, l)
  PROVE  RowSlots'
  <1>1. CASE Leave(c) BY <1>1, SlotRows DEF Leave, Begin, Idle, KnowsRow, RowLabels, MakeLabels
  <1>2. ASSUME NEW l, l \notin NeedLabels, Goto(c, l)
        PROVE  RowSlots'
    BY <1>2 DEF Goto, SlotsTyped, Slot, RowSlots, KnowsRow, NeedLabels
  <1>3. CASE Resume(c) /\ call[c].then # "idle"
    <2>1. call[c].then \in {"readJob", "recordSucceeded", "recordFailed"} /\ Goto(c, call[c].then)
      BY <1>3 DEF Resume, SlotsTyped, Slot
    <2> QED BY <2>1, <1>2 DEF NeedLabels, RowLabels, MakeLabels
  <1>4. CASE Resume(c) /\ call[c].then = "idle" BY <1>1, <1>4 DEF Resume
  <1> QED BY <1>1, <1>2, <1>3, <1>4

(* The award and the fare of every job, as AwardContract sees them. *)
Awards == [j \in Jobs |-> asg[j].status]
Fares  == [j \in Jobs |-> JobCaptured(j)]
ContractStep == Contract!Next \/ UNCHANGED <<Awards, Fares>>

LEMMA FaresKept ==
  ASSUME \A j \in Jobs : JobCaptured(j)' = JobCaptured(j)
  PROVE  UNCHANGED Fares
  BY DEF Fares

LEMMA SameCharges ==
  ASSUME UNCHANGED pi, \A e \in Events : pi[e] = "succeeded" => pe'[e].key = pe[e].key
  PROVE  UNCHANGED Fares
  <1>1. \A j \in Jobs : JobCaptured(j)' <=> JobCaptured(j)
    BY DEF JobCaptured, EventJob, Captured
  <1>2. \A j \in Jobs : JobCaptured(j)' \in BOOLEAN /\ JobCaptured(j) \in BOOLEAN
    BY DEF JobCaptured
  <1>3. \A j \in Jobs : JobCaptured(j)' = JobCaptured(j) BY <1>1, <1>2, Zenon
  <1> QED BY <1>3, FaresKept

LEMMA AwardKept ==
  ASSUME \A j \in Jobs : asg'[j].status = asg[j].status, UNCHANGED Fares
  PROVE  ContractStep
  BY DEF ContractStep, Awards

LEMMA AwardBecomes ==
  ASSUME NEW j \in Jobs, NEW s, UNCHANGED Fares,
         asg'[j].status = s, \A i \in Jobs \ {j} : asg'[i].status = asg[i].status,
         \/ s = "PENDING"
         \/ s = "NONE" /\ asg[j].status = "PENDING"
         \/ s \in {"LOCKED", "COMPLETED"} /\ asg[j].status # "NONE" /\ JobCaptured(j)
         \/ s = "CANCELLED" /\ asg[j].status # "NONE"
  PROVE  ContractStep
  <1>1. Contract!Becomes(j, s)
    BY DEF Contract!Becomes, Fares
  <1>2. /\ Awards[j] = asg[j].status
        /\ JobCaptured(j) => Fares[j]
    BY DEF Awards, Fares
  <1>3. \/ Contract!Reserve(j) \/ Contract!Drop(j) \/ Contract!Lock(j) \/ Contract!Finish(j)
        \/ Contract!Cancel(j)
    BY <1>1, <1>2 DEF Contract!Reserve, Contract!Drop, Contract!Lock, Contract!Finish,
       Contract!Cancel, Awards, Fares
  <1> QED BY <1>3 DEF ContractStep, Contract!Next

(* The intent of one event changes. *)
LEMMA FareCaptured ==
  ASSUME NEW e \in Events, EventJob(e) \in Jobs, pe[e].key # None, pi[e] # "succeeded",
         pi \in [Events -> PiStatus], NEW s, pi' = [pi EXCEPT ![e] = s], UNCHANGED <<asg, pe>>
  PROVE  ContractStep
  <1>1. CASE s = "succeeded"
    <2>1. PICK j \in Jobs : j = EventJob(e) OBVIOUS
    <2>2. \A i \in Jobs \ {j} : JobCaptured(i)' <=> JobCaptured(i)
      BY <1>1, <2>1 DEF JobCaptured, EventJob, Captured
    <2>3. JobCaptured(j)'
      BY <1>1, <2>1 DEF JobCaptured, EventJob, Captured
    <2>4. \A i \in Jobs : JobCaptured(i)' \in BOOLEAN /\ JobCaptured(i) \in BOOLEAN
      BY DEF JobCaptured
    <2>5. \A i \in Jobs \ {j} : JobCaptured(i)' = JobCaptured(i) BY <2>2, <2>4, Zenon
    <2>6. JobCaptured(j)' = TRUE BY <2>3, <2>4, Zenon
    <2>7. Fares' = [Fares EXCEPT ![j] = TRUE]
      <3>1. \A i \in Jobs : Fares[i] = JobCaptured(i) BY Zenon DEF Fares
      <3>2. \A i \in Jobs : Fares'[i] = JobCaptured(i)' BY Zenon DEF Fares
      <3>3. Fares = [i \in Jobs |-> Fares[i]] /\ Fares' = [i \in Jobs |-> Fares'[i]]
        BY Zenon DEF Fares
      <3>4. \A i \in Jobs \ {j} : Fares'[i] = Fares[i]
        BY <2>5, <3>1, <3>2, Zenon
      <3>5. Fares'[j] = TRUE
        BY <2>6, <3>2, Zenon
      <3> QED BY <3>3, <3>4, <3>5
    <2>8. Contract!Capture(j) BY <2>7 DEF Contract!Capture, Fares
    <2> QED BY <2>8 DEF ContractStep, Contract!Next
  <1>2. CASE s # "succeeded"
    <2>1. \A i \in Jobs : JobCaptured(i)' <=> JobCaptured(i)
      BY <1>2 DEF JobCaptured, EventJob, Captured
    <2>2. \A i \in Jobs : JobCaptured(i)' \in BOOLEAN /\ JobCaptured(i) \in BOOLEAN
      BY DEF JobCaptured
    <2>3. \A i \in Jobs : JobCaptured(i)' = JobCaptured(i) BY <2>1, <2>2, Zenon
    <2> QED BY <2>3, FaresKept, AwardKept
  <1> QED BY <1>1, <1>2

(* Steps that leave assignments, trips, charges and intents alone. *)
LEMMA QuietRows ==
  ASSUME AsgIds, UNCHANGED <<asg, trip, exc, pe, pi>>
  PROVE  AsgIds' /\ ContractStep
  BY SameCharges, AwardKept DEF AsgIds, Live

LEMMA ArriveRows ==
  ASSUME Inv, RowIds, NEW c \in Calls, Arrive(c)
  PROVE  RowIds' /\ ContractStep
  <1>1. UNCHANGED <<db, stripe, world>>
    BY DEF Arrive, SubmitRead, WithdrawRead, AcceptRead, HookSucceeded, HookFailed, SyncRead,
           CancelRead, ReleaseRead
  <1>2. AsgIds' /\ ContractStep BY <1>1, QuietRows DEF RowIds, db, stripe
  <1>3. RowSlots'
    <2>1. ASSUME NEW k, call' = [call EXCEPT ![c] = k], KnowsRow(k)
          PROVE  RowSlots'
      BY <2>1, SlotRows DEF Inv, SlotsGood, RowIds
    <2>2. ASSUME NEW p \in Proposals, SubmitRead(c, p) \/ WithdrawRead(c, p) \/ AcceptRead(c, p)
          PROVE  RowSlots'
      <3>1. \/ \E l \in {"submit", "withdraw", "readJob"} : Begin(c, OnBid(l, p))
            \/ \E e \in Events, l \in {"cancelPi", "unwind", "probe", "probeAged"} :
                  Begin(c, [OnCharge(l, e, "readJob") EXCEPT !.prop = p, !.meta = Meta(e)])
        BY <2>2, Zenon DEF SubmitRead, WithdrawRead, AcceptRead
      <3>2. \A l \in {"submit", "withdraw", "readJob"} : KnowsRow(OnBid(l, p))
        BY DEF OnBid, Idle, KnowsRow, RowLabels, MakeLabels
      <3>3. ASSUME NEW e \in Events, NEW l \in {"cancelPi", "unwind", "probe", "probeAged"}
            PROVE  KnowsRow([OnCharge(l, e, "readJob") EXCEPT !.prop = p, !.meta = Meta(e)])
        BY DEF OnCharge, Idle, KnowsRow, RowLabels, MakeLabels
      <3> QED BY <2>1, <3>1, <3>2, <3>3, Zenon DEF Begin
    <2>3. ASSUME NEW e \in Events, HookSucceeded(c, e) \/ HookFailed(c, e)
          PROVE  RowSlots'
      <3>1. \/ Begin(c, OnCharge("lockRead", e, "recordSucceeded"))
            \/ \E l \in {"failWrite", "recordFailed"} :
                  Begin(c, [OnCharge(l, e, "recordFailed") EXCEPT !.flag = pe[e].hasPi,
                                                                  !.meta = Meta(e)])
        BY <2>3, Zenon DEF HookSucceeded, HookFailed
      <3>2. KnowsRow(OnCharge("lockRead", e, "recordSucceeded"))
        BY DEF OnCharge, Idle, KnowsRow, RowLabels, MakeLabels
      <3>3. ASSUME NEW l \in {"failWrite", "recordFailed"}
            PROVE  KnowsRow([OnCharge(l, e, "recordFailed") EXCEPT !.flag = pe[e].hasPi,
                                                                   !.meta = Meta(e)])
        BY DEF OnCharge, Idle, KnowsRow, RowLabels, MakeLabels
      <3> QED BY <2>1, <3>1, <3>2, <3>3, Zenon DEF Begin
    <2>4. ASSUME NEW j \in Jobs, SyncRead(c, j) PROVE RowSlots'
      BY <2>1, <2>4 DEF SyncRead, SyncStep, Begin, OnCharge, Idle, KnowsRow, RowLabels, MakeLabels
    <2>5. ASSUME NEW j \in Jobs, CancelRead(c, j) PROVE RowSlots'
      <3> DEFINE f == \E p \in Proposals : JobOf[p] = j /\ proposal[p] = "SUBMITTED"
                 k == [OnJob("cancelJob", j) EXCEPT !.flag = f]
      <3>1. call' = [call EXCEPT ![c] = k] BY <2>5 DEF CancelRead, Begin
      <3> HIDE DEF f
      <3>2. KnowsRow(k) BY DEF OnJob, Idle, KnowsRow, RowLabels, MakeLabels
      <3> HIDE DEF k
      <3> QED BY <2>1, <3>1, <3>2
    <2>6. ASSUME NEW j \in Jobs, ReleaseRead(c, j) PROVE RowSlots'
      BY <2>1, <2>6 DEF ReleaseRead, Begin, OnJob, Idle, KnowsRow, RowLabels, MakeLabels, RowIds, AsgIds
    <2> QED BY <2>2, <2>3, <2>4, <2>5, <2>6 DEF Arrive
  <1> QED BY <1>2, <1>3 DEF RowIds

LEMMA ReadRows ==
  ASSUME Inv, RowIds, NEW c \in Calls,
         \/ SubmitCreate(c) \/ WithdrawWrite(c) \/ AcceptProbe(c) \/ AcceptReadJob(c)
         \/ LockRead(c) \/ EnsureTrip(c) \/ FailCheck(c) \/ Record(c) \/ Adjust(c)
  PROVE  RowIds' /\ ContractStep
  <1>1. UNCHANGED <<asg, trip, exc, pe, pi>>
    BY DEF SubmitCreate, WithdrawWrite, AcceptProbe, AcceptReadJob, LockRead, EnsureTrip,
           FailCheck, Record, Adjust, db, stripe
  <1>2. AsgIds' /\ ContractStep BY <1>1, QuietRows DEF RowIds
  <1>3. SlotsTyped /\ RowSlots BY DEF Inv, SlotsGood, RowIds
  <1>4. ASSUME AcceptProbe(c) \/ AcceptReadJob(c) PROVE RowSlots'
    <2>1. \/ Leave(c) \/ Goto(c, "cancelPi")
          \/ \E k : KnowsRow(k) /\ call' = [call EXCEPT ![c] = k]
      BY <1>4 DEF AcceptProbe, AcceptReadJob, Begin, OnCharge, OnBid, Idle, KnowsRow, RowLabels,
                  MakeLabels
    <2> QED BY <1>3, <2>1, MoveRows, SlotRows DEF NeedLabels, RowLabels, MakeLabels
  <1>5. ASSUME EnsureTrip(c) PROVE RowSlots'
    <2> DEFINE j == EventJob(call[c].ev)
    <2>1. call[c].ev \in Events /\ pi[call[c].ev] = "succeeded"
      BY <1>5, OnEvent DEF EnsureTrip, At, EvLabels, PaidLabels, Inv
    <2>2. j \in Jobs BY <2>1, PaidEvent DEF Inv, RowsGood
    <2>3. ASSUME Resume(c) PROVE RowSlots' BY <1>3, <2>3, MoveRows
    <2>4. ASSUME asg[j].status = "LOCKED",
                 NEW l \in {"createTrip", "reviveTrip"}, call' = [call EXCEPT ![c].at = l, ![c].row = asg[j].id]
          PROVE  RowSlots'
      <3>1. asg[j].id # 0 BY <2>2, <2>4 DEF RowIds, AsgIds
      <3> HIDE DEF j
      <3>2. l \notin MakeLabels => RowSlots'
        BY <1>3, <2>4, <3>1 DEF RowSlots, KnowsRow, SlotsTyped, Slot
      <3>3. l \notin MakeLabels BY <2>4 DEF MakeLabels
      <3> QED BY <3>2, <3>3
    <2> QED BY <1>5, <2>3, <2>4 DEF EnsureTrip
  <1>6. ASSUME SubmitCreate(c) \/ WithdrawWrite(c) \/ FailCheck(c) \/ Record(c) \/ Adjust(c)
        PROVE  RowSlots'
    <2>1. Leave(c) \/ \E l : l \notin NeedLabels /\ Goto(c, l)
      BY <1>6 DEF SubmitCreate, WithdrawWrite, FailCheck, Record, Adjust, NeedLabels, RowLabels,
                  MakeLabels
    <2> QED BY <1>3, <2>1, MoveRows
  <1>7. ASSUME LockRead(c) PROVE RowSlots'
    <2> DEFINE e == call[c].ev
    <2>1. e \in Events BY <1>7, OnEvent DEF LockRead, At, EvLabels, Inv
    <2>2. ASSUME Live(e), call' = [call EXCEPT ![c].at = "lock", ![c].row = pe[e].asg]
          PROVE  RowSlots'
      <3>1. pe[e].asg # 0 BY <2>1, <2>2 DEF RowIds, AsgIds
      <3> HIDE DEF e
      <3> QED BY <1>3, <2>2, <3>1 DEF RowSlots, KnowsRow, MakeLabels, SlotsTyped, Slot
    <2>3. Resume(c) \/ Goto(c, "ensureTrip") => RowSlots'
      BY <1>3, MoveRows DEF NeedLabels, RowLabels, MakeLabels
    <2> QED BY <1>7, <2>2, <2>3 DEF LockRead
  <1> QED BY <1>2, <1>4, <1>5, <1>6, <1>7 DEF RowIds

LEMMA StatusRows ==
  ASSUME Inv, RowIds, NEW c \in Calls, FailPe(c) \/ FailWrite(c) \/ SyncWrite(c) \/ AttachPi(c)
  PROVE  RowIds' /\ ContractStep
  <1>1. UNCHANGED <<asg, trip, exc, pi>>
    BY DEF FailPe, FailWrite, SyncWrite, AttachPi, stripe
  <1>2. \/ Leave(c) \/ \E l : l \notin NeedLabels /\ Goto(c, l)
        \/ Begin(c, OnCharge("lockRead", call[c].ev, "idle"))
    BY DEF FailPe, FailWrite, SyncWrite, AttachPi, NeedLabels, RowLabels, MakeLabels
  <1>3. RowSlots'
    BY <1>2, MoveRows, SlotRows DEF Inv, SlotsGood, RowIds, Begin, OnCharge, Idle, KnowsRow,
       RowLabels, MakeLabels
  <1>4. \A e \in Events : /\ pe'[e].key = pe[e].key
                          /\ pe[e].asg # 0 => pe'[e].asg # 0
                          /\ Live(e)' => Live(e)
    <2>1. CASE pe' = pe BY <2>1 DEF Live
    <2>2. CASE pe' # pe
      <3> DEFINE e == call[c].ev
                 m == call[c].meta
      <3>1. Live(e) BY <2>2 DEF FailPe, FailWrite, SyncWrite, AttachPi
      <3>2. e \in Events
        BY OnEvent DEF FailPe, FailWrite, SyncWrite, AttachPi, At, EvLabels, Inv
      <3>3. pe \in [Events -> ChargeRow] /\ pe[e] \in ChargeRow
        BY <3>2 DEF Inv, RowsGood, RowsTyped
      <3>4. FailPe(c) => m.asg # 0
        BY DEF FailPe, At, RowIds, RowSlots, KnowsRow, MakeLabels
      <3>5. FailPe(c) => pe' = [pe EXCEPT ![e].st = "FAILED", ![e].prop = m.prop, ![e].asg = m.asg,
                                         ![e].expired = m.expired]
        BY <3>1 DEF FailPe
      <3>6. FailWrite(c) \/ SyncWrite(c) => \E s : pe' = [pe EXCEPT ![e].st = s]
        BY <3>1 DEF FailWrite, SyncWrite
      <3>7. AttachPi(c) => \E s : pe' = [pe EXCEPT ![e].st = s, ![e].hasPi = TRUE]
        BY <3>1 DEF AttachPi
      <3> HIDE DEF e, m
      <3>8. /\ pe'[e].key = pe[e].key
            /\ pe[e].asg # 0 => pe'[e].asg # 0
            /\ \A f \in Events \ {e} : pe'[f] = pe[f]
        <4>1. CASE FailPe(c) BY <3>2, <3>3, <3>4, <3>5, <4>1 DEF ChargeRow
        <4>2. CASE FailWrite(c) \/ SyncWrite(c) BY <3>2, <3>3, <3>6, <4>2 DEF ChargeRow
        <4>3. CASE AttachPi(c) BY <3>2, <3>3, <3>7, <4>3 DEF ChargeRow
        <4> QED BY <4>1, <4>2, <4>3
      <3> QED BY <3>1, <3>8 DEF Live
    <2> QED BY <2>1, <2>2
  <1>5. AsgIds' BY <1>1, <1>4 DEF RowIds, AsgIds
  <1>6. ContractStep BY <1>1, <1>4, SameCharges, AwardKept
  <1> QED BY <1>3, <1>5, <1>6 DEF RowIds

LEMMA AwardRows ==
  ASSUME RowIds, NEW p \in Proposals, NEW id \in Nat \ {0}, AwardTo(p, id), RowsTyped,
         UNCHANGED <<trip, exc, Fares>>, \A e \in Events : Live(e)' => pe'[e].asg # 0
  PROVE  AsgIds' /\ ContractStep
  <1>1. JobOf[p] \in Jobs BY AwardConstants
  <1>2. /\ asg'[JobOf[p]].id = id /\ asg'[JobOf[p]].status = "PENDING"
        /\ \A i \in Jobs \ {JobOf[p]} : asg'[i] = asg[i]
    BY <1>1 DEF AwardTo, RowsTyped
  <1>3. AsgIds' BY <1>2 DEF RowIds, AsgIds
  <1>4. ContractStep BY <1>1, <1>2, AwardBecomes
  <1> QED BY <1>3, <1>4

LEMMA ReserveRows ==
  ASSUME Inv, RowIds, NEW c \in Calls, Reserve(c)
  PROVE  RowIds' /\ ContractStep
  <1> DEFINE p == call[c].prop
             row == call[c].row
  <1>1. p \in Proposals /\ row \in Nat
    BY DEF Reserve, At, PropLabels, Inv, SlotsGood, SlotsTyped, Slot, SlotGood, SlotTyped
  <1>2. UNCHANGED <<trip, exc, pi>> BY DEF Reserve, stripe
  <1>3. ASSUME NEW e \in UnusedEvents, NEW id \in Nat \ {0}, AwardTo(p, id),
               pe' = [pe EXCEPT ![e] = [st |-> "PENDING", key |-> p, prop |-> p, asg |-> id,
                                        hasPi |-> FALSE, expired |-> ConflictPeers(p)]],
               NEW m, m.asg = id,
               Begin(c, [OnCharge("createPi", e, "idle") EXCEPT !.meta = m])
        PROVE  RowIds' /\ ContractStep
    <2>1. e \in Events /\ pi[e] # "succeeded"
      BY DEF UnusedEvents, Inv, RowsGood, ChargesGood
    <2>2. pe'[e].asg = id /\ \A f \in Events \ {e} : pe'[f] = pe[f]
      BY <1>3, <2>1 DEF Inv, RowsGood, RowsTyped
    <2>3. \A f \in Events : Live(f)' => pe'[f].asg # 0
      BY <2>1, <2>2 DEF Live, RowIds, AsgIds
    <2>4. UNCHANGED Fares BY <1>2, <2>1, <2>2, SameCharges
    <2>5. RowSlots'
      BY <1>3, SlotRows DEF Inv, SlotsGood, RowIds, Begin, OnCharge, Idle, KnowsRow, RowLabels,
         MakeLabels
    <2> QED BY <1>1, <1>2, <1>3, <2>3, <2>4, <2>5, AwardRows DEF Inv, RowsGood, RowIds
  <1>4. CASE Leave(c) /\ UNCHANGED <<asg, proposal, job, pe>>
    BY <1>2, <1>4, QuietRows, MoveRows DEF Inv, SlotsGood, RowIds
  <1>5. \A e \in UnusedEvents : (IF row = 0 THEN e ELSE row) \in Nat \ {0}
    BY <1>1 DEF UnusedEvents, Events
  <1>6. \A id : [prop |-> p, asg |-> id, expired |-> ConflictPeers(p)].asg = id OBVIOUS
  <1> QED BY <1>3, <1>4, <1>5, <1>6 DEF Reserve

LEMMA ReacceptRows ==
  ASSUME Inv, RowIds, NEW c \in Calls, Reaccept(c)
  PROVE  RowIds' /\ ContractStep
  <1> DEFINE p == call[c].prop
             e == call[c].ev
             id == IF asg[JobOf[p]].status = "NONE" THEN e ELSE asg[JobOf[p]].id
  <1>1. e \in Events /\ p \in Proposals /\ JobOf[p] \in Jobs
    BY OnEvent, AwardConstants
       DEF Reaccept, At, EvLabels, PropLabels, PaidLabels, Inv, SlotsGood, SlotGood, SlotTyped
  <1>2. id \in Nat \ {0}
    BY <1>1 DEF Inv, RowsGood, RowsTyped, Assignment, Events, RowIds, AsgIds
  <1>3. UNCHANGED <<trip, exc, pi>> BY DEF Reaccept, stripe
  <1>4. CASE Live(e)
    <2>1. /\ AwardTo(p, id)
          /\ pe' = [pe EXCEPT ![e].prop = p, ![e].asg = id, ![e].expired = ConflictPeers(p)]
          /\ Begin(c, OnCharge("lockRead", e, "idle"))
      BY <1>4 DEF Reaccept
    <2> HIDE DEF p, e, id
    <2>2. /\ \A f \in Events \ {e} : pe'[f] = pe[f]
          /\ pe'[e].key = pe[e].key /\ pe'[e].asg = id
      BY <1>1, <2>1 DEF Inv, RowsGood, RowsTyped, ChargeRow
    <2>3. \A f \in Events : Live(f)' => pe'[f].asg # 0
      BY <1>2, <2>2 DEF Live, RowIds, AsgIds
    <2>4. UNCHANGED Fares BY <1>3, <2>2, SameCharges
    <2>5. RowSlots'
      BY <2>1, SlotRows DEF Inv, SlotsGood, RowIds, Begin, OnCharge, Idle, KnowsRow,
         RowLabels, MakeLabels
    <2> QED BY <1>1, <1>2, <1>3, <2>1, <2>3, <2>4, <2>5, AwardRows DEF Inv, RowsGood, RowIds
  <1>5. CASE ~Live(e)
    <2>1. Leave(c) /\ UNCHANGED <<asg, pe>> BY <1>5 DEF Reaccept
    <2> QED BY <1>3, <2>1, QuietRows, MoveRows DEF Inv, SlotsGood, RowIds
  <1> QED BY <1>4, <1>5

(* Steps at Stripe: one intent changes and no row. *)
LEMMA StripeRows ==
  ASSUME Inv, RowIds, UNCHANGED db,
         UNCHANGED pi \/ \E e \in Events : /\ pi[e] # "succeeded" /\ pe[e].key # None
                                          /\ \E s : pi' = [pi EXCEPT ![e] = s]
  PROVE  AsgIds' /\ ContractStep
  <1>1. CASE UNCHANGED pi BY <1>1, QuietRows DEF RowIds, db
  <1>2. ASSUME NEW e \in Events, NEW s, pi[e] # "succeeded", pe[e].key # None,
               pi' = [pi EXCEPT ![e] = s]
        PROVE  AsgIds' /\ ContractStep
    <2>1. EventJob(e) \in Jobs
      <3>1. pe[e].key \in Proposals BY <1>2 DEF Inv, RowsGood, RowsTyped, ChargeRow
      <3> QED BY <3>1, AwardConstants DEF EventJob
    <2>2. ContractStep BY <1>2, <2>1, FareCaptured DEF Inv, RowsGood, StripeTyped, db
    <2> QED BY <2>2 DEF RowIds, AsgIds, Live, db
  <1> QED BY <1>1, <1>2

LEMMA PiRows ==
  ASSUME Inv, RowIds, NEW c \in Calls, CreatePiAnswer(c) \/ CreatePiThrow(c) \/ CancelPi(c)
  PROVE  RowIds' /\ ContractStep
  <1>1. UNCHANGED db BY DEF CreatePiAnswer, CreatePiThrow, CancelPi
  <1>2. call[c].ev \in Events
    BY OnEvent DEF CreatePiAnswer, CreatePiThrow, CancelPi, At, EvLabels, Inv
  <1>3. UNCHANGED pi \/ \E s : pi' = [pi EXCEPT ![call[c].ev] = s]
    BY DEF CreatePiAnswer, CreatePiThrow, CancelPi, stripe
  <1>4. UNCHANGED pi \/ pi[call[c].ev] # "succeeded"
    BY <1>2 DEF CreatePiAnswer, CreatePiThrow, CancelPi, At, stripe, Inv, SlotsGood, SlotGood,
             SlotCreates
  <1>5. UNCHANGED pi \/ pe[call[c].ev].key # None
    BY <1>2 DEF CreatePiAnswer, CreatePiThrow, CancelPi, At, stripe, Inv, SlotsGood, SlotGood,
             SlotCreates, RowsGood, ChargesGood
  <1>6. AsgIds' /\ ContractStep BY <1>1, <1>2, <1>3, <1>4, <1>5, StripeRows
  <1>7. RowSlots'
    <2>1. SlotsTyped /\ RowSlots BY DEF Inv, SlotsGood, RowIds
    <2>2. CASE CreatePiAnswer(c)
      BY <2>1, <2>2 DEF CreatePiAnswer, SlotsTyped, Slot, RowSlots, KnowsRow, RowLabels, MakeLabels
    <2>3. CASE CreatePiThrow(c)
      <3>1. call[c].at \in MakeLabels /\ Goto(c, "failPe")
        BY <2>3 DEF CreatePiThrow, At, MakeLabels
      <3> QED BY <2>1, <3>1 DEF Goto, SlotsTyped, Slot, RowSlots, KnowsRow, RowLabels
    <2>4. CASE CancelPi(c)
      BY <2>1, <2>4, MoveRows DEF CancelPi, NeedLabels, RowLabels, MakeLabels
    <2> QED BY <2>2, <2>3, <2>4
  <1> QED BY <1>6, <1>7 DEF RowIds

LEMMA UnwindRows ==
  ASSUME Inv, RowIds, NEW c \in Calls, Unwind(c)
  PROVE  RowIds' /\ ContractStep
  <1>1. call[c].ev \in Events /\ UNCHANGED <<pi, declined>>
    BY OnEvent DEF Unwind, At, EvLabels, Inv, stripe
  <1>2. PICK e \in Events : e = call[c].ev BY <1>1
  <1>3. CASE Live(e)
    <2>1. PICK j \in Jobs : j = EventJob(e)
      BY <1>1, <1>3, EventKey DEF Live, Inv, RowsGood
    <2>2. \/ /\ Deletable(asg[j], call[c].meta.asg)
             /\ asg' = [asg EXCEPT ![j] = NoAsg] /\ trip' = [trip EXCEPT ![j] = "NONE"]
             /\ exc' = [exc EXCEPT ![j] = FALSE]
          \/ UNCHANGED <<asg, trip, exc>>
      BY <1>2, <1>3, <2>1, SMT DEF Unwind
    <2>3. /\ pe' = [pe EXCEPT ![e] = [NoEvent EXCEPT !.st = "DELETED", !.key = pe[e].key,
                                                    !.hasPi = pe[e].hasPi]]
          /\ Resume(c)
      BY <1>2, <1>3 DEF Unwind
    <2>4. /\ \A f \in Events : pe'[f].key = pe[f].key
          /\ \A f \in Events \ {e} : pe'[f] = pe[f]
          /\ ~Live(e)'
      BY <1>1, <2>3 DEF NoEvent, Inv, RowsGood, RowsTyped, Live
    <2>5. RowSlots' BY <2>3, MoveRows DEF Inv, SlotsGood, RowIds
    <2>6. UNCHANGED Fares BY <1>1, <2>4, SameCharges
    <2>7. CASE UNCHANGED <<asg, trip, exc>>
      BY <2>4, <2>5, <2>6, <2>7, AwardKept DEF RowIds, AsgIds, Live
    <2>8. CASE /\ Deletable(asg[j], call[c].meta.asg)
               /\ asg' = [asg EXCEPT ![j] = NoAsg] /\ trip' = [trip EXCEPT ![j] = "NONE"]
               /\ exc' = [exc EXCEPT ![j] = FALSE]
      <3>1. /\ asg'[j].status = "NONE" /\ asg'[j].id = 0 /\ trip'[j] = "NONE" /\ exc'[j] = FALSE
            /\ \A i \in Jobs \ {j} : asg'[i] = asg[i] /\ trip'[i] = trip[i] /\ exc'[i] = exc[i]
        BY <2>8 DEF Inv, RowsGood, RowsTyped, NoAsg
      <3>2. asg[j].status = "PENDING" BY <2>8 DEF Deletable
      <3>3. ContractStep BY <2>6, <3>1, <3>2, AwardBecomes
      <3>4. AsgIds' BY <2>4, <3>1 DEF RowIds, AsgIds, Live
      <3> QED BY <2>5, <3>3, <3>4 DEF RowIds
    <2> QED BY <2>2, <2>7, <2>8
  <1>4. CASE ~Live(e)
    <2>1. Leave(c) /\ UNCHANGED <<asg, trip, exc, pe>> BY <1>2, <1>4 DEF Unwind
    <2> QED BY <1>1, <2>1, QuietRows, MoveRows DEF Inv, SlotsGood, RowIds
  <1> QED BY <1>3, <1>4

(* A lock finds the assignment row that its charge row names. *)
LEMMA LockRows ==
  ASSUME Inv, RowIds, NEW c \in Calls, Lock(c)
  PROVE  RowIds' /\ ContractStep
  <1> DEFINE e == call[c].ev
  <1>1. /\ e \in Events /\ pi[e] = "succeeded" /\ UNCHANGED <<trip, exc, pi>>
    BY OnEvent DEF Lock, At, EvLabels, PaidLabels, Inv, stripe
  <1>2. PICK j \in Jobs : j = EventJob(e)
    BY <1>1, PaidEvent DEF Inv, RowsGood
  <1>3. CASE Live(e) /\ asg[j].id = call[c].row
    <2>1. /\ pe' = [pe EXCEPT ![e].st = "SUCCEEDED", ![e].hasPi = TRUE]
          /\ asg' = [asg EXCEPT ![j].status = "LOCKED"]
          /\ Goto(c, "ensureTrip")
      BY <1>2, <1>3, SMT DEF Lock
    <2>2. JobCaptured(j)
      BY <1>1, <1>2 DEF JobCaptured, Captured, Inv, RowsGood, ChargesGood
    <2> HIDE DEF e
    <2>3. /\ \A f \in Events : pe'[f].key = pe[f].key /\ pe'[f].asg = pe[f].asg
          /\ \A f \in Events : Live(f)' => Live(f)
      <3>1. /\ \A f \in Events \ {e} : pe'[f] = pe[f]
            /\ pe'[e].key = pe[e].key /\ pe'[e].asg = pe[e].asg
        BY <1>1, <2>1 DEF Inv, RowsGood, RowsTyped, ChargeRow
      <3> QED BY <1>3, <3>1 DEF Live
    <2>4. /\ asg'[j].id = asg[j].id /\ asg'[j].status = "LOCKED"
          /\ \A i \in Jobs \ {j} : asg'[i] = asg[i]
      BY <2>1 DEF Inv, RowsGood, RowsTyped, Assignment
    <2>5. asg[j].id # 0 /\ asg[j].status # "NONE"
      BY <1>3 DEF Lock, At, RowIds, AsgIds, RowSlots, KnowsRow, RowLabels
    <2>6. AsgIds' BY <1>1, <2>3, <2>4, <2>5 DEF RowIds, AsgIds
    <2>7. UNCHANGED Fares BY <1>1, <2>3, SameCharges
    <2>8. ContractStep BY <2>2, <2>4, <2>5, <2>7, AwardBecomes
    <2>9. RowSlots'
      BY <2>1, MoveRows DEF Inv, SlotsGood, RowIds, NeedLabels, RowLabels, MakeLabels
    <2> QED BY <2>6, <2>8, <2>9 DEF RowIds
  <1>4. CASE ~(Live(e) /\ asg[j].id = call[c].row)
    <2>1. Leave(c) /\ UNCHANGED <<asg, pe>> BY <1>2, <1>4 DEF Lock
    <2> QED BY <1>1, <2>1, QuietRows, MoveRows DEF Inv, SlotsGood, RowIds
  <1> QED BY <1>3, <1>4

(* Steps that may change one assignment, and the trips, of a row that is.  *)
LEMMA RowChanges ==
  ASSUME RowIds, RowsTyped, UNCHANGED <<pe, pi>>, NEW j \in Jobs,
         \A i \in Jobs : asg'[i].id = asg[i].id,
         \A i \in Jobs \ {j} : /\ asg'[i].status = asg[i].status
                               /\ trip'[i] = trip[i] /\ exc'[i] = exc[i],
         asg[j].id # 0 /\ asg'[j].status # "NONE",
         \/ asg'[j].status \in {asg[j].status, "CANCELLED"}
         \/ asg'[j].status = "COMPLETED" /\ JobCaptured(j)
  PROVE  AsgIds' /\ ContractStep
  <1>1. UNCHANGED Fares BY SameCharges
  <1>2. asg[j].status # "NONE" BY DEF RowIds, AsgIds
  <1>3. ContractStep BY <1>1, <1>2, AwardKept, AwardBecomes
  <1>4. AsgIds' BY DEF RowIds, AsgIds, Live
  <1> QED BY <1>3, <1>4

LEMMA TripRows ==
  ASSUME Inv, RowIds, NEW c \in Calls, WriteTrip(c)
  PROVE  RowIds' /\ ContractStep
  <1>1. /\ call[c].ev \in Events /\ pi[call[c].ev] = "succeeded"
        /\ call[c].row # 0 /\ UNCHANGED <<asg, exc, pe, pi>>
    BY OnEvent DEF WriteTrip, At, EvLabels, PaidLabels, Inv, stripe, RowIds, RowSlots, KnowsRow, RowLabels
  <1>2. PICK j \in Jobs : j = EventJob(call[c].ev)
    BY <1>1, PaidEvent DEF Inv, RowsGood
  <1>3. RowSlots'
    <2>1. Resume(c) \/ Leave(c) BY SMT DEF WriteTrip
    <2> QED BY <2>1, MoveRows DEF Inv, SlotsGood, RowIds
  <1>4. CASE UNCHANGED trip BY <1>1, <1>3, <1>4, QuietRows DEF RowIds
  <1>5. CASE trip' # trip
    <2>1. asg[j].id = call[c].row /\ trip' = [trip EXCEPT ![j] = "PENDING_GATES"]
      BY <1>2, <1>5, SMT DEF WriteTrip
    <2>2. asg'[j].status # "NONE" BY <1>1, <2>1 DEF RowIds, AsgIds
    <2>3. \A i \in Jobs \ {j} : trip'[i] = trip[i] BY <2>1 DEF Inv, RowsGood, RowsTyped
    <2>4. RowsTyped BY DEF Inv, RowsGood
    <2>5. AsgIds' /\ ContractStep BY <1>1, <2>1, <2>2, <2>3, <2>4, RowChanges
    <2> QED BY <1>3, <2>5 DEF RowIds
  <1> QED BY <1>4, <1>5

LEMMA LetGoRows ==
  ASSUME Inv, RowIds, NEW c \in Calls, CancelJob(c) \/ Release(c)
  PROVE  RowIds' /\ ContractStep
  <1> DEFINE row == call[c].row
  <1>1. PICK j \in Jobs : j = call[c].job
    BY DEF CancelJob, Release, At, JobLabels, Inv, SlotsGood, SlotGood, SlotTyped
  <1>2. UNCHANGED <<pe, pi>> BY DEF CancelJob, Release, stripe
  <1>3. RowSlots'
    <2>1. Leave(c) \/ Goto(c, "adjust") BY DEF CancelJob, Release
    <2> QED BY <2>1, MoveRows
         DEF Inv, SlotsGood, RowIds, NeedLabels, RowLabels, MakeLabels
  <1>4. \/ UNCHANGED <<asg, trip, exc>>
        \/ /\ asg[j].id = row /\ row # 0 /\ asg' = [asg EXCEPT ![j] = Freed(@)]
           /\ \/ UNCHANGED <<trip, exc>>
              \/ /\ \E t : trip' = [trip EXCEPT ![j] = t]
                 /\ exc' = [exc EXCEPT ![j] = FALSE]
    <2>1. CASE CancelJob(c) BY <1>1, <2>1, SMT DEF CancelJob
    <2>2. CASE Release(c)
      <3>1. row # 0 BY <2>2 DEF Release, At, RowIds, RowSlots, KnowsRow, RowLabels
      <3>2. CASE asg[j].id = row BY <1>1, <2>2, <3>1, <3>2 DEF Release
      <3>3. CASE asg[j].id # row BY <1>1, <2>2, <3>3 DEF Release
      <3> QED BY <3>2, <3>3
    <2> QED BY <2>1, <2>2
  <1>5. CASE UNCHANGED <<asg, trip, exc>> BY <1>2, <1>3, <1>5, QuietRows DEF RowIds
  <1>6. CASE /\ asg[j].id = row /\ row # 0 /\ asg' = [asg EXCEPT ![j] = Freed(@)]
             /\ \/ UNCHANGED <<trip, exc>>
                \/ /\ \E t : trip' = [trip EXCEPT ![j] = t]
                   /\ exc' = [exc EXCEPT ![j] = FALSE]
    <2>1. RowsTyped BY DEF Inv, RowsGood
    <2>2. /\ asg'[j].status = "CANCELLED" /\ asg'[j].id = asg[j].id
          /\ \A i \in Jobs \ {j} : asg'[i] = asg[i]
      BY <1>6, <2>1 DEF Freed, RowsTyped, Assignment
    <2>3. \A i \in Jobs \ {j} : trip'[i] = trip[i] /\ exc'[i] = exc[i]
      BY <1>6, <2>1 DEF RowsTyped
    <2>4. AsgIds' /\ ContractStep BY <1>2, <1>6, <2>1, <2>2, <2>3, RowChanges
    <2> QED BY <1>3, <2>4 DEF RowIds
  <1> QED BY <1>4, <1>5, <1>6

LEMMA TripMoveRows ==
  ASSUME Inv, RowIds, NEW j \in Jobs, StartTrip(j) \/ CompleteTrip(j) \/ OpenException(j)
  PROVE  RowIds' /\ ContractStep
  <1>1. UNCHANGED <<pe, pi, call>> BY DEF StartTrip, CompleteTrip, OpenException, stripe
  <1>2. RowsTyped BY DEF Inv, RowsGood
  <1>3. asg[j].id # 0
    BY DEF StartTrip, CompleteTrip, OpenException, Completable, RowIds, AsgIds
  <1>4. /\ asg'[j].status = asg[j].status \/ (asg'[j].status = "COMPLETED" /\ trip[j] # "NONE")
        /\ \A i \in Jobs : asg'[i].id = asg[i].id
        /\ \A i \in Jobs \ {j} : asg'[i].status = asg[i].status
    BY <1>2 DEF StartTrip, CompleteTrip, OpenException, Completable, RowsTyped, Assignment
  <1>5. \A i \in Jobs \ {j} : trip'[i] = trip[i] /\ exc'[i] = exc[i]
    BY <1>2 DEF StartTrip, CompleteTrip, OpenException, RowsTyped
  <1>6. trip[j] # "NONE" => JobCaptured(j)
    BY DEF Inv, RowsGood, AwardsPaid, Firm, CapturedFor, JobCaptured, EventJob, Captured
  <1>7. asg'[j].status # "NONE" BY <1>3, <1>4 DEF RowIds, AsgIds
  <1>8. AsgIds' /\ ContractStep
    BY <1>1, <1>2, <1>3, <1>4, <1>5, <1>6, <1>7, RowChanges
  <1>9. RowSlots' BY <1>1 DEF RowIds, RowSlots
  <1> QED BY <1>8, <1>9 DEF RowIds

LEMMA WorldRows ==
  ASSUME Inv, RowIds, External \/ UNCHANGED vars
  PROVE  RowIds' /\ ContractStep
  <1>1. ASSUME NEW e \in Events, Settle(e) PROVE RowIds' /\ ContractStep
    <2>1. UNCHANGED <<db, call>> /\ \E s : pi' = [pi EXCEPT ![e] = s]
      BY <1>1 DEF Settle
    <2>2. pi[e] # "succeeded" /\ pe[e].key # None
      BY <1>1 DEF Settle, Inv, RowsGood, ChargesGood
    <2>3. AsgIds' /\ ContractStep BY <2>1, <2>2, StripeRows
    <2> QED BY <2>1, <2>3 DEF RowIds, RowSlots
  <1>2. CASE UNCHANGED <<db, stripe, call>>
    BY <1>2, QuietRows DEF RowIds, RowSlots, db, stripe
  <1>3. ASSUME NEW c \in Calls, Crash(c) PROVE RowIds' /\ ContractStep
    <2>1. UNCHANGED <<asg, trip, exc, pe, pi>> /\ Leave(c) BY <1>3 DEF Crash, db, stripe
    <2> QED BY <2>1, QuietRows, MoveRows DEF Inv, SlotsGood, RowIds
  <1>4. (\E e \in Events : Age(e)) => UNCHANGED <<db, stripe, call>> BY DEF Age
  <1>5. UNCHANGED vars => UNCHANGED <<db, stripe, call>> BY DEF vars, db, stripe
  <1> QED BY <1>1, <1>2, <1>3, <1>4, <1>5 DEF External

LEMMA NextRows ==
  ASSUME Inv, RowIds, [Next]_vars
  PROVE  RowIds' /\ ContractStep
  <1>1. ASSUME NEW c \in Calls, Step(c) PROVE RowIds' /\ ContractStep
    <2>1. CASE \/ SubmitCreate(c) \/ WithdrawWrite(c) \/ AcceptProbe(c) \/ AcceptReadJob(c)
               \/ LockRead(c) \/ EnsureTrip(c) \/ FailCheck(c) \/ Record(c) \/ Adjust(c)
      BY <2>1, ReadRows
    <2>2. CASE FailPe(c) \/ FailWrite(c) \/ SyncWrite(c) \/ AttachPi(c) BY <2>2, StatusRows
    <2>3. CASE Reserve(c) \/ Reaccept(c) BY <2>3, ReserveRows, ReacceptRows
    <2>4. CASE CreatePiAnswer(c) \/ CreatePiThrow(c) \/ CancelPi(c) BY <2>4, PiRows
    <2>5. CASE Unwind(c) \/ Lock(c) \/ WriteTrip(c) BY <2>5, UnwindRows, LockRows, TripRows
    <2>6. CASE CancelJob(c) \/ Release(c) BY <2>6, LetGoRows
    <2> QED BY <1>1, <2>1, <2>2, <2>3, <2>4, <2>5, <2>6 DEF Step
  <1>2. CASE Trips BY <1>2, TripMoveRows DEF Trips
  <1>3. CASE External \/ UNCHANGED vars BY <1>3, WorldRows
  <1>4. CASE \E c \in Calls : Arrive(c) BY <1>4, ArriveRows
  <1> QED BY <1>1, <1>2, <1>3, <1>4 DEF Next

(* The handlers implement the award contract: whatever requests overlap,   *)
(* fail or die, an award becomes firm or finished only from a reservation  *)
(* of a job whose fare is captured, and only a reservation is ever dropped.*)
THEOREM AwardImplementsContract == Spec => AwardRefinesContract
  <1>1. Init => Contract!Init
    <2> SUFFICES ASSUME Init PROVE Contract!Init OBVIOUS
    <2>1. Awards = [j \in Jobs |-> "NONE"] BY DEF Init, OpenForBids, Awards, NoAsg
    <2>2. \A j \in Jobs : JobCaptured(j) = FALSE
      BY DEF Init, OpenForBids, JobCaptured, Captured
    <2>3. Fares = [j \in Jobs |-> FALSE] BY <2>2 DEF Fares
    <2> QED BY <2>1, <2>3 DEF Contract!Init, Awards, Fares
  <1>2. Inv /\ RowIds /\ [Next]_vars
        => RowIds' /\ [Contract!Next]_<<Awards, Fares>>
    BY NextRows DEF ContractStep
  <1>3. Spec => [][Contract!Next]_<<Awards, Fares>>
    BY <1>2, AlwaysInv, InitRowIds, PTL DEF Spec
  <1> QED BY <1>1, <1>3, PTL DEF Spec, AwardRefinesContract, Contract!Spec, Awards, Fares

-----------------------------------------------------------------------------
(* The job's status and its award's are written together, or the job is    *)
(* put up for bids only by a step that drops the award: OpenJobUnassigned  *)
(* is inductive beside Inv.                                                *)

OpenAt(j) == job[j] = "BIDDING" => asg[j].status \in {"NONE", "CANCELLED"}

(* A step that touches one job and leaves it taken, or its award dropped. *)
LEMMA OneJobMoves ==
  ASSUME OpenJobUnassigned, NEW j,
         \A i \in Jobs \ {j} : job'[i] = job[i] /\ asg'[i] = asg[i],
         OpenAt(j)'
  PROVE  OpenJobUnassigned'
  BY DEF OpenJobUnassigned, OpenAt

LEMMA SameJobs ==
  ASSUME OpenJobUnassigned, UNCHANGED <<job, asg>>
  PROVE  OpenJobUnassigned'
  BY DEF OpenJobUnassigned

LEMMA AwardTakesJob ==
  ASSUME Inv, OpenJobUnassigned, NEW p \in Proposals, NEW id, AwardTo(p, id)
  PROVE  OpenJobUnassigned'
  <1>1. PICK j \in Jobs : j = JobOf[p] BY AwardConstants
  <1>2. /\ \A i \in Jobs \ {j} : job'[i] = job[i] /\ asg'[i] = asg[i]
        /\ job'[j] = "ASSIGNED"
    BY <1>1 DEF AwardTo, Inv, RowsGood, RowsTyped
  <1> QED BY <1>2, OneJobMoves DEF OpenAt

LEMMA AwardTakes ==
  ASSUME Inv, OpenJobUnassigned, NEW c \in Calls, Reserve(c) \/ Reaccept(c)
  PROVE  OpenJobUnassigned'
  <1>1. PICK p \in Proposals : p = call[c].prop
    BY DEF Reserve, Reaccept, At, PropLabels, Inv, SlotsGood, SlotGood, SlotTyped
  <1>2. (\E id : AwardTo(p, id)) \/ UNCHANGED <<job, asg>>
    <2>1. CASE Reserve(c) BY <1>1, <2>1 DEF Reserve
    <2>2. CASE Reaccept(c) BY <1>1, <2>2 DEF Reaccept
    <2> QED BY <2>1, <2>2
  <1> QED BY <1>2, AwardTakesJob, SameJobs

LEMMA UnwindFrees ==
  ASSUME Inv, OpenJobUnassigned, NEW c \in Calls, Unwind(c)
  PROVE  OpenJobUnassigned'
  <1>1. PICK e \in Events : e = call[c].ev
    BY OnEvent DEF Unwind, At, EvLabels, Inv
  <1>2. CASE Live(e)
    <2>1. PICK j \in Jobs : j = EventJob(e)
      BY <1>2, EventKey DEF Live, Inv, RowsGood
    <2>2. /\ asg' = [asg EXCEPT ![j] = NoAsg] \/ asg' = asg
          /\ IF Reopens(j) THEN job' = [job EXCEPT ![j] = "BIDDING"] ELSE job' = job
      BY <1>1, <1>2, <2>1, SMT DEF Unwind
    <2>3. \A i \in Jobs \ {j} : job'[i] = job[i] /\ asg'[i] = asg[i]
      BY <2>2 DEF Inv, RowsGood, RowsTyped
    <2>4. asg'[j].status = "NONE" \/ asg'[j] = asg[j]
      BY <2>2 DEF Inv, RowsGood, RowsTyped, NoAsg
    <2>5. OpenAt(j)'
      BY <2>2, <2>4 DEF OpenAt, OpenJobUnassigned, Reopens
    <2> QED BY <2>3, <2>5, OneJobMoves
  <1>3. CASE ~Live(e) BY <1>1, <1>3, SameJobs DEF Unwind
  <1> QED BY <1>2, <1>3

LEMMA LockTakes ==
  ASSUME Inv, OpenJobUnassigned, NEW c \in Calls, Lock(c)
  PROVE  OpenJobUnassigned'
  <1>1. PICK e \in Events : e = call[c].ev /\ pi[e] = "succeeded"
    BY OnEvent DEF Lock, At, EvLabels, PaidLabels, Inv
  <1>2. PICK j \in Jobs : j = EventJob(e) BY <1>1, PaidEvent DEF Inv, RowsGood
  <1>3. CASE Live(e) /\ asg[j].id = call[c].row
    <2>1. asg' = [asg EXCEPT ![j].status = "LOCKED"] /\ job' = [job EXCEPT ![j] = "ASSIGNED"]
      BY <1>1, <1>2, <1>3, SMT DEF Lock
    <2>2. job'[j] = "ASSIGNED" /\ \A i \in Jobs \ {j} : job'[i] = job[i] /\ asg'[i] = asg[i]
      BY <2>1 DEF Inv, RowsGood, RowsTyped
    <2> QED BY <2>2, OneJobMoves DEF OpenAt
  <1>4. CASE ~(Live(e) /\ asg[j].id = call[c].row)
    BY <1>1, <1>2, <1>4, SameJobs, SMT DEF Lock
  <1> QED BY <1>3, <1>4

LEMMA LetGoFrees ==
  ASSUME Inv, OpenJobUnassigned, NEW c \in Calls, CancelJob(c) \/ Release(c)
  PROVE  OpenJobUnassigned'
  <1>1. PICK j \in Jobs : j = call[c].job
    BY DEF CancelJob, Release, At, JobLabels, Inv, SlotsGood, SlotGood, SlotTyped
  <1>2. CASE CancelJob(c)
    <2>1. \/ UNCHANGED <<job, asg>>
          \/ /\ job' = [job EXCEPT ![j] = "CANCELLED"]
             /\ asg' = asg \/ asg' = [asg EXCEPT ![j] = Freed(@)]
      BY <1>1, <1>2, SMT DEF CancelJob
    <2>2. CASE /\ job' = [job EXCEPT ![j] = "CANCELLED"]
               /\ asg' = asg \/ asg' = [asg EXCEPT ![j] = Freed(@)]
      <3>1. job'[j] = "CANCELLED" /\ \A i \in Jobs \ {j} : job'[i] = job[i] /\ asg'[i] = asg[i]
        BY <2>2 DEF Inv, RowsGood, RowsTyped
      <3> QED BY <3>1, OneJobMoves DEF OpenAt
    <2> QED BY <2>1, <2>2, SameJobs
  <1>3. CASE Release(c)
    <2>1. \/ UNCHANGED <<job, asg>>
          \/ job' = [job EXCEPT ![j] = "BIDDING"] /\ asg' = [asg EXCEPT ![j] = Freed(@)]
      BY <1>1, <1>3 DEF Release
    <2>2. CASE job' = [job EXCEPT ![j] = "BIDDING"] /\ asg' = [asg EXCEPT ![j] = Freed(@)]
      <3>1. /\ asg'[j].status = "CANCELLED"
            /\ \A i \in Jobs \ {j} : job'[i] = job[i] /\ asg'[i] = asg[i]
        BY <2>2 DEF Inv, RowsGood, RowsTyped, Freed, Assignment
      <3> QED BY <3>1, OneJobMoves DEF OpenAt
    <2> QED BY <2>1, <2>2, SameJobs
  <1> QED BY <1>2, <1>3

LEMMA TripTakes ==
  ASSUME Inv, OpenJobUnassigned, NEW j \in Jobs,
         StartTrip(j) \/ CompleteTrip(j) \/ OpenException(j)
  PROVE  OpenJobUnassigned'
  <1>1. CASE StartTrip(j) \/ CompleteTrip(j)
    <2>1. /\ job'[j] # "BIDDING"
          /\ \A i \in Jobs \ {j} : job'[i] = job[i] /\ asg'[i] = asg[i]
      BY <1>1 DEF StartTrip, CompleteTrip, Inv, RowsGood, RowsTyped
    <2> QED BY <2>1, OneJobMoves DEF OpenAt
  <1>2. CASE OpenException(j) BY <1>2, SameJobs DEF OpenException
  <1> QED BY <1>1, <1>2

LEMMA OpenStays ==
  ASSUME Inv, OpenJobUnassigned, [Next]_vars
  PROVE  OpenJobUnassigned'
  <1>1. ASSUME NEW c \in Calls, Step(c) PROVE OpenJobUnassigned'
    <2>1. CASE Reserve(c) \/ Reaccept(c) BY <2>1, AwardTakes
    <2>2. CASE Unwind(c) BY <2>2, UnwindFrees
    <2>3. CASE Lock(c) BY <2>3, LockTakes
    <2>4. CASE CancelJob(c) \/ Release(c) BY <2>4, LetGoFrees
    <2>5. CASE \/ SubmitCreate(c) \/ WithdrawWrite(c) \/ AcceptProbe(c) \/ AcceptReadJob(c)
               \/ CreatePiAnswer(c) \/ CreatePiThrow(c) \/ FailPe(c) \/ AttachPi(c)
               \/ CancelPi(c) \/ LockRead(c) \/ EnsureTrip(c) \/ WriteTrip(c) \/ FailWrite(c)
               \/ FailCheck(c) \/ Record(c) \/ SyncWrite(c) \/ Adjust(c)
      <3>1. UNCHANGED <<job, asg>>
        BY <2>5 DEF SubmitCreate, WithdrawWrite, AcceptProbe, AcceptReadJob, CreatePiAnswer,
               CreatePiThrow, FailPe, AttachPi, CancelPi, LockRead, EnsureTrip, WriteTrip,
               FailWrite, FailCheck, Record, SyncWrite, Adjust, db
      <3> QED BY <3>1, SameJobs
    <2> QED BY <1>1, <2>1, <2>2, <2>3, <2>4, <2>5 DEF Step
  <1>2. CASE \E c \in Calls : Arrive(c)
    <2>1. UNCHANGED <<job, asg>>
      BY <1>2 DEF Arrive, SubmitRead, WithdrawRead, AcceptRead, HookSucceeded, HookFailed,
             SyncRead, CancelRead, ReleaseRead, db
    <2> QED BY <2>1, SameJobs
  <1>3. CASE Trips BY <1>3, TripTakes DEF Trips
  <1>4. CASE External \/ UNCHANGED vars
    BY <1>4, SameJobs DEF External, Settle, Age, Crash, vars, db
  <1> QED BY <1>1, <1>2, <1>3, <1>4 DEF Next

(* However accepts, unwinds, late locks, cancels and releases of one job   *)
(* overlap, the job is open for bids only while it has no award that is    *)
(* reserved, firm or finished.                                             *)
THEOREM OpenMeansUnassigned == Spec => []OpenJobUnassigned
  <1>1. Init => OpenJobUnassigned
    BY DEF Init, OpenForBids, OpenJobUnassigned, NoAsg
  <1> QED BY <1>1, AlwaysInv, OpenStays, PTL DEF Spec

-----------------------------------------------------------------------------
(* What the steps that write awards leave behind, row by row.              *)

(* The rows of the jobs other than j. *)
OthersKept(j) == \A i \in Jobs \ {j} : /\ job'[i] = job[i] /\ asg'[i] = asg[i]
                                       /\ trip'[i] = trip[i] /\ exc'[i] = exc[i]

LEMMA AwardWrites ==
  ASSUME RowsTyped, NEW p \in Proposals, NEW id, AwardTo(p, id)
  PROVE  /\ job'[JobOf[p]] = "ASSIGNED"
         /\ asg'[JobOf[p]] = [id |-> id, status |-> "PENDING", prop |-> p]
         /\ \A i \in Jobs \ {JobOf[p]} : job'[i] = job[i] /\ asg'[i] = asg[i]
         /\ proposal'[p] = "ACCEPTED"
         /\ \A q \in Proposals \ {p} : \/ proposal'[q] = proposal[q]
                                       \/ proposal[q] = "SUBMITTED" /\ proposal'[q] = "EXPIRED"
  BY AwardConstants DEF AwardTo, RowsTyped, ConflictPeers

(* The reservation: a new charge row and the job's assignment. *)
Reserved(p, row, e) ==
    LET id == IF row = 0 THEN e ELSE row
    IN  /\ pe[e].st = "NONE" /\ asg[JobOf[p]].id = row
        /\ AwardTo(p, id) /\ UNCHANGED <<trip, lines, exc>>
        /\ \A f \in Events \ {e} : pe'[f] = pe[f]
        /\ pe'[e].st = "PENDING" /\ pe'[e].key = p /\ pe'[e].prop = p /\ pe'[e].asg = id

(* The slot goes on to create the intent, with the metadata of the new row.*)
BeginsCreate(c, e) ==
    \E m \in Metadata : /\ m.prop = pe'[e].prop /\ m.asg = pe'[e].asg
                        /\ Begin(c, [OnCharge("createPi", e, "idle") EXCEPT !.meta = m])

LEMMA ReserveWrites ==
  ASSUME Inv, NEW c \in Calls, Reserve(c)
  PROVE  /\ call[c].prop \in Proposals
         /\ \/ Leave(c) /\ UNCHANGED <<job, proposal, asg, trip, lines, exc, pe>>
            \/ \E e \in Events : /\ Reserved(call[c].prop, call[c].row, e)
                                 /\ BeginsCreate(c, e)
  <1>1. PICK p : p = call[c].prop OBVIOUS
  <1>2. PICK row : row = call[c].row OBVIOUS
  <1>3. p \in Proposals
    BY <1>1 DEF Reserve, At, PropLabels, Inv, SlotsGood, SlotGood, SlotTyped
  <1>4. pe \in [Events -> ChargeRow] BY DEF Inv, RowsGood, RowsTyped
  <1>5. ASSUME NEW e \in UnusedEvents, NEW id, RowIs(JobOf[p], row),
               id = (IF row = 0 THEN e ELSE row), AwardTo(p, id),
               pe' = [pe EXCEPT ![e] = [st |-> "PENDING", key |-> p, prop |-> p, asg |-> id,
                                        hasPi |-> FALSE, expired |-> ConflictPeers(p)]],
               Begin(c, [OnCharge("createPi", e, "idle") EXCEPT
                           !.meta = [prop |-> p, asg |-> id, expired |-> ConflictPeers(p)]]),
               UNCHANGED <<trip, lines, exc>>
        PROVE  e \in Events /\ Reserved(p, row, e) /\ BeginsCreate(c, e)
    <2>1. e \in Events /\ pe[e].st = "NONE" BY DEF UnusedEvents
    <2>2. \A f \in Events \ {e} : pe'[f] = pe[f] BY <1>4, <1>5
    <2>3. pe'[e].st = "PENDING" /\ pe'[e].key = p /\ pe'[e].prop = p /\ pe'[e].asg = id
      BY <1>4, <1>5, <2>1
    <2>4. PICK m : m = [prop |-> p, asg |-> id, expired |-> ConflictPeers(p)] OBVIOUS
    <2>5. m \in Metadata /\ m.prop = p /\ m.asg = id
      <3>1. row \in Nat
        BY <1>1, <1>2 DEF Reserve, At, PropLabels, Inv, SlotsGood, SlotsTyped, Slot
      <3>2. id \in Nat BY <1>5, <2>1, <3>1, AwardConstants DEF Events
      <3> QED BY <1>3, <2>4, <3>2 DEF Metadata, ConflictPeers
    <2>6. BeginsCreate(c, e) BY <1>5, <2>3, <2>4, <2>5 DEF BeginsCreate
    <2> QED BY <1>5, <2>1, <2>2, <2>3, <2>6 DEF Reserved, RowIs
  <1>6. UNCHANGED <<trip, lines, exc>> BY DEF Reserve
  <1> QED BY <1>1, <1>2, <1>3, <1>5, <1>6, Zenon DEF Reserve

(* The charge row of a re-listed job is pointed at the new award. *)
Repointed(p, e) ==
    LET j == JobOf[p]
        id == IF asg[j].status = "NONE" THEN e ELSE asg[j].id
    IN  /\ Live(e) /\ AwardTo(p, id) /\ UNCHANGED <<trip, lines, exc>>
        /\ \A f \in Events \ {e} : pe'[f] = pe[f]
        /\ pe'[e].st = pe[e].st /\ pe'[e].key = pe[e].key /\ pe'[e].hasPi = pe[e].hasPi
        /\ pe'[e].prop = p /\ pe'[e].asg = id

LEMMA ReacceptWrites ==
  ASSUME Inv, NEW c \in Calls, Reaccept(c)
  PROVE  /\ call[c].prop \in Proposals /\ call[c].ev \in Events
         /\ \/ Leave(c) /\ UNCHANGED <<job, proposal, asg, trip, lines, exc, pe>>
            \/ /\ Repointed(call[c].prop, call[c].ev)
               /\ Begin(c, OnCharge("lockRead", call[c].ev, "idle"))
  <1>1. PICK p : p = call[c].prop OBVIOUS
  <1>2. PICK e : e = call[c].ev OBVIOUS
  <1>3. p \in Proposals /\ e \in Events
    BY <1>1, <1>2, OnEvent
       DEF Reaccept, At, EvLabels, PropLabels, PaidLabels, Inv, SlotsGood, SlotGood, SlotTyped
  <1>4. UNCHANGED <<trip, lines, exc>> BY DEF Reaccept
  <1>5. CASE Live(e)
    <2>1. PICK id : id = IF asg[JobOf[p]].status = "NONE" THEN e ELSE asg[JobOf[p]].id OBVIOUS
    <2>2. /\ AwardTo(p, id)
          /\ pe' = [pe EXCEPT ![e].prop = p, ![e].asg = id, ![e].expired = ConflictPeers(p)]
          /\ Begin(c, OnCharge("lockRead", e, "idle"))
      BY <1>1, <1>2, <1>5, <2>1 DEF Reaccept
    <2>3. /\ \A f \in Events \ {e} : pe'[f] = pe[f]
          /\ pe'[e].st = pe[e].st /\ pe'[e].key = pe[e].key /\ pe'[e].hasPi = pe[e].hasPi
          /\ pe'[e].prop = p /\ pe'[e].asg = id
      BY <1>3, <2>2 DEF Inv, RowsGood, RowsTyped, ChargeRow
    <2> QED BY <1>1, <1>2, <1>3, <1>4, <1>5, <2>1, <2>2, <2>3 DEF Repointed
  <1>6. CASE ~Live(e)
    <2>1. Leave(c) /\ UNCHANGED <<asg, proposal, job, pe>> BY <1>2, <1>6 DEF Reaccept
    <2> QED BY <1>1, <1>2, <1>3, <1>4, <2>1
  <1> QED BY <1>5, <1>6

(* The unwinding of e, a charge row of j, by a request that read m of it.  *)
Unwound(e, j, m) ==
    /\ Live(e) /\ j = EventJob(e) /\ UNCHANGED lines
    /\ ~Live(e)' /\ pe'[e].key = pe[e].key /\ \A f \in Events \ {e} : pe'[f] = pe[f]
    /\ \/ /\ Deletable(asg[j], m.asg)
          /\ asg'[j] = NoAsg /\ trip'[j] = "NONE" /\ exc'[j] = FALSE
       \/ /\ ~Deletable(asg[j], m.asg)
          /\ asg'[j] = asg[j] /\ trip'[j] = trip[j] /\ exc'[j] = exc[j]
    /\ job'[j] = job[j] \/ (job'[j] = "BIDDING" /\ asg'[j].status = "NONE")
    /\ OthersKept(j)
    /\ \A q \in Proposals :
          \/ proposal'[q] = proposal[q] /\ ~(q = m.prop /\ proposal[q] = "ACCEPTED")
          \/ /\ proposal'[q] = "SUBMITTED"
             /\ proposal[q] = "EXPIRED" \/ (q = m.prop /\ proposal[q] = "ACCEPTED")

LEMMA UnwindWrites ==
  ASSUME Inv, NEW c \in Calls, Unwind(c)
  PROVE  /\ call[c].ev \in Events
         /\ \/ Leave(c) /\ UNCHANGED <<job, proposal, asg, trip, lines, exc, pe>>
            \/ Resume(c) /\ \E j \in Jobs : Unwound(call[c].ev, j, call[c].meta)
  <1>1. PICK e \in Events : e = call[c].ev
    BY OnEvent DEF Unwind, At, EvLabels, Inv
  <1> DEFINE m == call[c].meta
  <1>2. UNCHANGED lines BY DEF Unwind
  <1>3. CASE Live(e)
    <2>1. PICK j \in Jobs : j = EventJob(e)
      BY <1>3, EventKey DEF Live, Inv, RowsGood
    <2>2. RowsTyped BY DEF Inv, RowsGood
    <2> DEFINE drop == Deletable(asg[j], m.asg)
    <2>3. /\ asg' = IF drop THEN [asg EXCEPT ![j] = NoAsg] ELSE asg
          /\ trip' = IF drop THEN [trip EXCEPT ![j] = "NONE"] ELSE trip
          /\ exc' = IF drop THEN [exc EXCEPT ![j] = FALSE] ELSE exc
          /\ job' = IF Reopens(j) THEN [job EXCEPT ![j] = "BIDDING"] ELSE job
          /\ Resume(c)
      BY <1>1, <1>3, <2>1, SMT DEF Unwind
    <2>4. PICK peers : proposal' = [q \in Proposals |-> IF GivenBack(m, peers, q)
                                                        THEN "SUBMITTED" ELSE proposal[q]]
      BY <1>1, <1>3 DEF Unwind
    <2>5. pe' = [pe EXCEPT ![e] = [NoEvent EXCEPT !.st = "DELETED", !.key = pe[e].key,
                                                  !.hasPi = pe[e].hasPi]]
      BY <1>1, <1>3 DEF Unwind
    <2>6. ~Live(e)' /\ pe'[e].key = pe[e].key /\ \A f \in Events \ {e} : pe'[f] = pe[f]
      BY <2>2, <2>5 DEF Live, NoEvent, RowsTyped
    <2>7. \/ drop /\ asg'[j] = NoAsg /\ trip'[j] = "NONE" /\ exc'[j] = FALSE
          \/ ~drop /\ asg'[j] = asg[j] /\ trip'[j] = trip[j] /\ exc'[j] = exc[j]
      BY <2>2, <2>3 DEF RowsTyped
    <2>8. job'[j] = job[j] \/ (job'[j] = "BIDDING" /\ asg'[j].status = "NONE")
      BY <2>2, <2>3 DEF RowsTyped, Reopens
    <2>9. OthersKept(j) BY <2>2, <2>3 DEF RowsTyped, OthersKept
    <2>10. \A q \in Proposals :
             \/ proposal'[q] = proposal[q] /\ ~(q = m.prop /\ proposal[q] = "ACCEPTED")
             \/ /\ proposal'[q] = "SUBMITTED"
                /\ proposal[q] = "EXPIRED" \/ (q = m.prop /\ proposal[q] = "ACCEPTED")
      BY <2>4 DEF GivenBack
    <2>11. Unwound(e, j, m)
      BY <1>2, <1>3, <2>1, <2>6, <2>7, <2>8, <2>9, <2>10 DEF Unwound
    <2> QED BY <1>1, <2>3, <2>11
  <1>4. CASE ~Live(e)
    BY <1>1, <1>2, <1>4 DEF Unwind
  <1> QED BY <1>3, <1>4

(* A step that writes the status of one charge row. *)
SameCharge(f) == /\ pe'[f].key = pe[f].key /\ pe'[f].prop = pe[f].prop
                 /\ pe'[f].asg = pe[f].asg /\ Live(f)' = Live(f)
(* Its bid and its assignment stay, or become what the writer read of them.*)
KnownCharge(e, m, writes) ==
    /\ pe'[e].key = pe[e].key /\ Live(e)' = Live(e)
    /\ \/ pe'[e].prop = pe[e].prop /\ pe'[e].asg = pe[e].asg
       \/ writes /\ Live(e) /\ pe'[e].prop = m.prop /\ pe'[e].asg = m.asg

LEMMA StatusWrites ==
  ASSUME Inv, NEW c \in Calls, FailPe(c) \/ FailWrite(c) \/ SyncWrite(c) \/ AttachPi(c)
  PROVE  /\ call[c].ev \in Events
         /\ UNCHANGED <<job, proposal, asg, trip, lines, exc>>
         /\ \A f \in Events \ {call[c].ev} : pe'[f] = pe[f]
         /\ \A e \in Events : e = call[c].ev => KnownCharge(e, call[c].meta, FailPe(c))
  <1>1. UNCHANGED <<job, proposal, asg, trip, lines, exc>>
    BY DEF FailPe, FailWrite, SyncWrite, AttachPi
  <1>2. PICK e \in Events : e = call[c].ev
    BY OnEvent DEF FailPe, FailWrite, SyncWrite, AttachPi, At, EvLabels, Inv
  <1>3. pe \in [Events -> ChargeRow] BY DEF Inv, RowsGood, RowsTyped
  <1> DEFINE m == call[c].meta
  <1>4. CASE pe' = pe
    <2>1. /\ pe'[e] = pe[e] /\ Live(e)' = Live(e)
          /\ \A f \in Events \ {e} : pe'[f] = pe[f]
      BY <1>4 DEF Live
    <2> QED BY <1>1, <1>2, <2>1, Zenon DEF KnownCharge
  <1>5. CASE pe' # pe
    <2>1. Live(e) BY <1>2, <1>5 DEF FailPe, FailWrite, SyncWrite, AttachPi
    <2>2. PICK s \in {"FAILED", "REQUIRES_ACTION", "SUCCEEDED", "PENDING"} :
             \/ pe' = [pe EXCEPT ![e].st = s]
             \/ pe' = [pe EXCEPT ![e].st = s, ![e].hasPi = TRUE]
             \/ FailPe(c) /\ pe' = [pe EXCEPT ![e].st = s, ![e].prop = m.prop,
                                              ![e].asg = m.asg, ![e].expired = m.expired]
      <3>1. CASE FailPe(c)
        <4>1. pe' = [pe EXCEPT ![e].st = "FAILED", ![e].prop = m.prop,
                               ![e].asg = m.asg, ![e].expired = m.expired]
          BY <1>2, <2>1, <3>1 DEF FailPe
        <4> QED BY <3>1, <4>1, Zenon
      <3>4. CASE FailWrite(c) BY <1>2, <2>1, <3>4 DEF FailWrite
      <3>2. CASE SyncWrite(c)
        <4>1. PICK s : s = IF At(c, "syncFail") THEN "FAILED" ELSE "REQUIRES_ACTION" OBVIOUS
        <4> QED BY <1>2, <2>1, <3>2, <4>1 DEF SyncWrite
      <3>3. CASE AttachPi(c)
        <4>1. PICK s : s = AttachedStatus(call[c].pi) OBVIOUS
        <4>2. s \in {"SUCCEEDED", "REQUIRES_ACTION", "PENDING"} BY <4>1 DEF AttachedStatus
        <4> QED BY <1>2, <2>1, <3>3, <4>1, <4>2 DEF AttachPi
      <3> QED BY <3>1, <3>2, <3>3, <3>4
    <2>3. \A f \in Events \ {e} : pe'[f] = pe[f] BY <1>3, <2>2
    <2>4. /\ pe'[e].key = pe[e].key /\ pe'[e].st = s
          /\ \/ pe'[e].prop = pe[e].prop /\ pe'[e].asg = pe[e].asg
             \/ FailPe(c) /\ pe'[e].prop = m.prop /\ pe'[e].asg = m.asg
      BY <1>3, <2>2 DEF ChargeRow
    <2>5. Live(e)' = TRUE /\ Live(e) = TRUE BY <2>1, <2>4 DEF Live
    <2> QED BY <1>1, <1>2, <2>1, <2>3, <2>4, <2>5, Zenon DEF KnownCharge
  <1> QED BY <1>4, <1>5

(* The locking of e, a charge row of j. *)
Locked(e, j) ==
    /\ Live(e) /\ j = EventJob(e)
    /\ UNCHANGED <<proposal, trip, exc>>
    /\ SameCharge(e) /\ pe'[e].st = "SUCCEEDED" /\ pe'[e].hasPi = TRUE
    /\ \A f \in Events \ {e} : pe'[f] = pe[f]
    /\ asg'[j].id = asg[j].id /\ asg'[j].prop = asg[j].prop /\ asg'[j].status = "LOCKED"
    /\ job'[j] = "ASSIGNED" /\ lines'[j] = "live"
    /\ OthersKept(j) /\ \A i \in Jobs \ {j} : lines'[i] = lines[i]

LEMMA LockWrites ==
  ASSUME Inv, NEW c \in Calls, Lock(c)
  PROVE  /\ call[c].ev \in Events
         /\ \/ Leave(c) /\ UNCHANGED <<job, proposal, asg, trip, lines, exc, pe>>
            \/ Goto(c, "ensureTrip") /\ \E j \in Jobs : Locked(call[c].ev, j)
  <1>1. PICK e \in Events : e = call[c].ev /\ pi[e] = "succeeded"
    BY OnEvent DEF Lock, At, EvLabels, PaidLabels, Inv
  <1>2. PICK j \in Jobs : j = EventJob(e) BY <1>1, PaidEvent DEF Inv, RowsGood
  <1>3. UNCHANGED <<proposal, trip, exc>> BY DEF Lock
  <1>4. RowsTyped BY DEF Inv, RowsGood
  <1>5. CASE Live(e) /\ asg[j].id = call[c].row
    <2>1. /\ pe' = [pe EXCEPT ![e].st = "SUCCEEDED", ![e].hasPi = TRUE]
          /\ asg' = [asg EXCEPT ![j].status = "LOCKED"]
          /\ job' = [job EXCEPT ![j] = "ASSIGNED"]
          /\ lines' = IF NeedsLines(j) THEN [lines EXCEPT ![j] = "live"] ELSE lines
          /\ Goto(c, "ensureTrip")
      BY <1>1, <1>2, <1>5, SMT DEF Lock
    <2>2. /\ pe'[e].key = pe[e].key /\ pe'[e].prop = pe[e].prop /\ pe'[e].asg = pe[e].asg
          /\ pe'[e].st = "SUCCEEDED" /\ pe'[e].hasPi = TRUE
          /\ \A f \in Events \ {e} : pe'[f] = pe[f]
      BY <1>4, <2>1 DEF RowsTyped, ChargeRow
    <2>3. Live(e)' = TRUE /\ Live(e) = TRUE BY <1>5, <2>2 DEF Live
    <2>4. /\ asg'[j].id = asg[j].id /\ asg'[j].prop = asg[j].prop /\ asg'[j].status = "LOCKED"
          /\ \A i \in Jobs \ {j} : asg'[i] = asg[i]
      BY <1>4, <2>1 DEF RowsTyped, Assignment
    <2>5. /\ job'[j] = "ASSIGNED" /\ \A i \in Jobs \ {j} : job'[i] = job[i]
          /\ lines'[j] = "live" /\ \A i \in Jobs \ {j} : lines'[i] = lines[i]
      BY <1>4, <2>1 DEF RowsTyped, NeedsLines
    <2>6. Locked(e, j)
      BY <1>2, <1>3, <1>5, <2>2, <2>3, <2>4, <2>5 DEF Locked, OthersKept, SameCharge
    <2> QED BY <1>1, <2>1, <2>6
  <1>6. CASE ~(Live(e) /\ asg[j].id = call[c].row)
    BY <1>1, <1>2, <1>3, <1>6, SMT DEF Lock
  <1> QED BY <1>5, <1>6

(* The job a cancel or a release lets go. *)
LetGo(j, row) ==
    /\ UNCHANGED <<lines, pe>> /\ OthersKept(j)
    /\ \/ row = 0 /\ asg'[j] = asg[j]
       \/ /\ row # 0 /\ asg[j].id = row
          /\ asg'[j].id = asg[j].id /\ asg'[j].prop = asg[j].prop /\ asg'[j].status = "CANCELLED"
    /\ \A q \in Proposals : \/ proposal'[q] = proposal[q]
                            \/ proposal[q] = "SUBMITTED" /\ proposal'[q] = "EXPIRED"

LEMMA BidsExpire ==
  ASSUME RowsTyped, NEW j, ExpireBids(j) \/ UNCHANGED proposal
  PROVE  \A q \in Proposals : \/ proposal'[q] = proposal[q]
                              \/ proposal[q] = "SUBMITTED" /\ proposal'[q] = "EXPIRED"
  BY DEF ExpireBids, RowsTyped

LEMMA CancelWrites ==
  ASSUME Inv, NEW c \in Calls, CancelJob(c)
  PROVE  /\ call[c].job \in Jobs /\ Leave(c)
         /\ \/ UNCHANGED <<job, proposal, asg, trip, lines, exc, pe>>
            \/ /\ LetGo(call[c].job, call[c].row) /\ UNCHANGED <<trip, exc>>
               /\ job'[call[c].job] = "CANCELLED"
  <1>1. PICK j \in Jobs : j = call[c].job
    BY DEF CancelJob, At, JobLabels, Inv, SlotsGood, SlotGood, SlotTyped
  <1>2. PICK row : row = call[c].row OBVIOUS
  <1>3. UNCHANGED <<trip, lines, exc, pe>> /\ Leave(c) BY DEF CancelJob
  <1>4. RowsTyped BY DEF Inv, RowsGood
  <1>5. CASE row # 0 /\ asg[j].id # row BY <1>1, <1>2, <1>3, <1>5, SMT DEF CancelJob
  <1>6. CASE ~(row # 0 /\ asg[j].id # row)
    <2>1. /\ job' = [job EXCEPT ![j] = "CANCELLED"]
          /\ asg' = IF row = 0 THEN asg ELSE [asg EXCEPT ![j] = Freed(@)]
          /\ ExpireBids(j) \/ UNCHANGED proposal
      BY <1>1, <1>2, <1>6, SMT DEF CancelJob
    <2>2. job'[j] = "CANCELLED" /\ \A i \in Jobs \ {j} : job'[i] = job[i] /\ asg'[i] = asg[i]
      BY <1>4, <2>1 DEF RowsTyped
    <2>3. \/ row = 0 /\ asg'[j] = asg[j]
          \/ /\ row # 0 /\ asg[j].id = row
             /\ asg'[j].id = asg[j].id /\ asg'[j].prop = asg[j].prop
             /\ asg'[j].status = "CANCELLED"
      BY <1>4, <1>6, <2>1 DEF RowsTyped, Freed, Assignment
    <2>4. LetGo(j, row)
      BY <1>3, <1>4, <2>1, <2>2, <2>3, BidsExpire DEF LetGo, OthersKept
    <2> QED BY <1>1, <1>2, <1>3, <2>2, <2>4
  <1> QED BY <1>5, <1>6

LEMMA ReleaseWrites ==
  ASSUME Inv, RowIds, NEW c \in Calls, Release(c)
  PROVE  /\ call[c].job \in Jobs
         /\ \/ Leave(c) /\ UNCHANGED <<job, proposal, asg, trip, lines, exc, pe>>
            \/ /\ LetGo(call[c].job, call[c].row) /\ call[c].row # 0 /\ Goto(c, "adjust")
               /\ job'[call[c].job] = "BIDDING"
  <1>1. PICK j \in Jobs : j = call[c].job
    BY DEF Release, At, JobLabels, Inv, SlotsGood, SlotGood, SlotTyped
  <1>2. PICK row : row = call[c].row OBVIOUS
  <1>3. UNCHANGED <<lines, pe>> BY DEF Release
  <1>4. RowsTyped BY DEF Inv, RowsGood
  <1>5. row # 0 BY <1>2 DEF Release, At, RowIds, RowSlots, KnowsRow, RowLabels
  <1>6. CASE asg[j].id = row
    <2>1. /\ job' = [job EXCEPT ![j] = "BIDDING"] /\ asg' = [asg EXCEPT ![j] = Freed(@)]
          /\ exc' = [exc EXCEPT ![j] = FALSE] /\ \E t : trip' = [trip EXCEPT ![j] = t]
          /\ ExpireBids(j) /\ Goto(c, "adjust")
      BY <1>1, <1>2, <1>6 DEF Release
    <2>2. OthersKept(j) /\ job'[j] = "BIDDING"
      BY <1>4, <2>1 DEF RowsTyped, OthersKept
    <2>3. asg'[j].id = asg[j].id /\ asg'[j].prop = asg[j].prop /\ asg'[j].status = "CANCELLED"
      BY <1>4, <2>1 DEF RowsTyped, Freed, Assignment
    <2>4. LetGo(j, row)
      BY <1>3, <1>4, <1>5, <1>6, <2>1, <2>2, <2>3, BidsExpire DEF LetGo
    <2> QED BY <1>1, <1>2, <1>5, <2>1, <2>2, <2>4
  <1>7. CASE asg[j].id # row
    BY <1>1, <1>2, <1>3, <1>7 DEF Release
  <1> QED BY <1>6, <1>7

LEMMA CompleteWrites ==
  ASSUME Inv, NEW j \in Jobs, CompleteTrip(j)
  PROVE  /\ trip[j] \in {"IN_TRANSIT", "ABANDONED"} /\ job'[j] = "COMPLETED"
         /\ asg'[j].id = asg[j].id /\ asg'[j].prop = asg[j].prop /\ asg'[j].status = "COMPLETED"
         /\ OthersKept(j) /\ UNCHANGED <<proposal, lines, exc, pe, call>>
  BY DEF CompleteTrip, Completable, Inv, RowsGood, RowsTyped, Assignment, OthersKept

-----------------------------------------------------------------------------
(* Where a step leaves its slot. *)

LEMMA GotoFields ==
  ASSUME SlotsTyped, NEW c \in Calls, NEW l, Goto(c, l)
  PROVE  /\ call'[c].at = l /\ call'[c].ev = call[c].ev /\ call'[c].prop = call[c].prop
         /\ call'[c].job = call[c].job /\ call'[c].row = call[c].row
         /\ \A d \in Calls \ {c} : call'[d] = call[d]
  BY DEF Goto, SlotsTyped, Slot

LEMMA BeginFields ==
  ASSUME SlotsTyped, NEW c \in Calls, NEW k, Begin(c, k)
  PROVE  call'[c] = k /\ \A d \in Calls \ {c} : call'[d] = call[d]
  BY DEF Begin, SlotsTyped

LEMMA LeaveFields ==
  ASSUME SlotsTyped, NEW c \in Calls, Leave(c)
  PROVE  call'[c].at = "idle" /\ \A d \in Calls \ {c} : call'[d] = call[d]
  BY DEF Leave, Begin, SlotsTyped, Idle

LEMMA ResumeFields ==
  ASSUME SlotsTyped, NEW c \in Calls, Resume(c)
  PROVE  /\ call'[c].at \in {"idle", "readJob", "recordSucceeded", "recordFailed"}
         /\ \A d \in Calls \ {c} : call'[d] = call[d]
  <1>1. CASE call[c].then = "idle" BY <1>1, LeaveFields DEF Resume
  <1>2. CASE call[c].then # "idle"
    <2>1. PICK l : l = call[c].then OBVIOUS
    <2>2. Goto(c, l) /\ l \in {"readJob", "recordSucceeded", "recordFailed"}
      BY <1>2, <2>1 DEF Resume, SlotsTyped, Slot
    <2> QED BY <2>2, GotoFields
  <1> QED BY <1>1, <1>2

LEMMA NewFields ==
  /\ \A l, e, t : LET k == OnCharge(l, e, t) IN k.at = l /\ k.ev = e
  /\ \A l, p : LET k == OnBid(l, p) IN k.at = l /\ k.prop = p /\ k.row = 0
  /\ \A l, j : LET k == OnJob(l, j) IN k.at = l /\ k.job = j /\ k.row = asg[j].id
  BY DEF OnCharge, OnBid, OnJob, Idle

(* The slots of the other requests stay; c stays at a label only by a read *)
(* or a write that is named.                                               *)
LEMMA WhoArrives ==
  ASSUME Inv, NEW c \in Calls, Arrive(c)
  PROVE  /\ \A d \in Calls \ {c} : call'[d] = call[d]
         /\ call'[c].at \in {"submit", "withdraw", "readJob", "cancelPi", "unwind", "probe",
                             "probeAged", "lockRead", "failWrite", "recordFailed", "syncFail",
                             "syncAction", "cancelJob", "release"}
         /\ call'[c].at = "release" => \E j \in Jobs : ReleaseRead(c, j)
  <1>1. SlotsTyped BY DEF Inv, SlotsGood
  <1>2. ASSUME NEW k, Begin(c, k) PROVE call'[c] = k /\ \A d \in Calls \ {c} : call'[d] = call[d]
    BY <1>1, <1>2, BeginFields
  <1>3. ASSUME NEW p \in Proposals, SubmitRead(c, p) \/ WithdrawRead(c, p) PROVE
          /\ \A d \in Calls \ {c} : call'[d] = call[d]
          /\ call'[c].at \in {"submit", "withdraw"}
    BY <1>2, <1>3, NewFields DEF SubmitRead, WithdrawRead
  <1>4. ASSUME NEW p \in Proposals, AcceptRead(c, p) PROVE
          /\ \A d \in Calls \ {c} : call'[d] = call[d]
          /\ call'[c].at \in {"readJob", "cancelPi", "unwind", "probe", "probeAged"}
    <2>1. CASE Begin(c, OnBid("readJob", p)) BY <1>2, <2>1, NewFields
    <2>2. ASSUME NEW e, NEW l \in {"cancelPi", "unwind", "probe", "probeAged"},
                 Begin(c, [OnCharge(l, e, "readJob") EXCEPT !.prop = p, !.meta = Meta(e)])
          PROVE  /\ \A d \in Calls \ {c} : call'[d] = call[d]
                 /\ call'[c].at \in {"readJob", "cancelPi", "unwind", "probe", "probeAged"}
      <3>1. PICK k : k = [OnCharge(l, e, "readJob") EXCEPT !.prop = p, !.meta = Meta(e)]
        OBVIOUS
      <3>2. k.at = l BY <3>1 DEF OnCharge, Idle
      <3> QED BY <1>2, <2>2, <3>1, <3>2
    <2>3. \/ Begin(c, OnBid("readJob", p))
          \/ \E e \in Events, l \in {"cancelPi", "unwind", "probe", "probeAged"} :
                Begin(c, [OnCharge(l, e, "readJob") EXCEPT !.prop = p, !.meta = Meta(e)])
      BY <1>4, Zenon DEF AcceptRead
    <2> QED BY <2>1, <2>2, <2>3, Zenon
  <1>5. ASSUME NEW e \in Events, HookSucceeded(c, e) \/ HookFailed(c, e) PROVE
          /\ \A d \in Calls \ {c} : call'[d] = call[d]
          /\ call'[c].at \in {"lockRead", "failWrite", "recordFailed"}
    <2>1. CASE HookSucceeded(c, e) BY <1>2, <2>1, NewFields DEF HookSucceeded
    <2>2. CASE HookFailed(c, e)
      <3>1. PICK l \in {"failWrite", "recordFailed"} :
               Begin(c, [OnCharge(l, e, "recordFailed") EXCEPT !.flag = pe[e].hasPi,
                                                               !.meta = Meta(e)])
        BY <2>2, Zenon DEF HookFailed
      <3>2. PICK k : k = [OnCharge(l, e, "recordFailed") EXCEPT !.flag = pe[e].hasPi,
                                                                !.meta = Meta(e)]
        OBVIOUS
      <3>3. k.at = l BY <3>2 DEF OnCharge, Idle
      <3> QED BY <1>2, <3>1, <3>2, <3>3
    <2> QED BY <1>5, <2>1, <2>2
  <1>6. ASSUME NEW j \in Jobs, SyncRead(c, j) PROVE
          /\ \A d \in Calls \ {c} : call'[d] = call[d]
          /\ call'[c].at \in {"lockRead", "syncFail", "syncAction"}
    <2>1. PICK e \in Events : /\ SyncStep(pi[e]) # "idle"
                             /\ Begin(c, OnCharge(SyncStep(pi[e]), e, "idle"))
      BY <1>6 DEF SyncRead, ChargesOf
    <2>2. SyncStep(pi[e]) \in {"lockRead", "syncFail", "syncAction"} BY <2>1 DEF SyncStep
    <2> QED BY <1>2, <2>1, <2>2, NewFields
  <1>7. ASSUME NEW j \in Jobs, CancelRead(c, j) PROVE
          /\ \A d \in Calls \ {c} : call'[d] = call[d]
          /\ call'[c].at = "cancelJob"
    <2>1. PICK b : Begin(c, [OnJob("cancelJob", j) EXCEPT !.flag = b])
      BY <1>7 DEF CancelRead
    <2>2. PICK k : k = [OnJob("cancelJob", j) EXCEPT !.flag = b] OBVIOUS
    <2>3. k.at = "cancelJob" BY <2>2 DEF OnJob, Idle
    <2> QED BY <1>2, <2>1, <2>2, <2>3
  <1>8. ASSUME NEW j \in Jobs, ReleaseRead(c, j) PROVE
          /\ \A d \in Calls \ {c} : call'[d] = call[d]
          /\ call'[c].at = "release"
    BY <1>2, <1>8, NewFields DEF ReleaseRead
  <1> QED BY <1>3, <1>4, <1>5, <1>6, <1>7, <1>8 DEF Arrive

LEMMA AcceptJobSlot ==
  ASSUME SlotsTyped, NEW c \in Calls, AcceptReadJob(c)
  PROVE  /\ \A d \in Calls \ {c} : call'[d] = call[d]
         /\ call'[c].at \in {"idle", "reserve", "reaccept"}
  <1> DEFINE p == call[c].prop
  <1>1. \/ Leave(c) \/ Begin(c, [OnBid("reserve", p) EXCEPT !.row = asg[JobOf[p]].id])
        \/ \E e \in Events : Begin(c, [OnBid("reaccept", p) EXCEPT !.ev = e])
    BY DEF AcceptReadJob, PaidCharges, ChargesOf
  <1> HIDE DEF p
  <1>2. CASE Leave(c) BY <1>2, LeaveFields
  <1>3. CASE Begin(c, [OnBid("reserve", p) EXCEPT !.row = asg[JobOf[p]].id])
    <2>1. PICK k : k = [OnBid("reserve", p) EXCEPT !.row = asg[JobOf[p]].id] OBVIOUS
    <2>2. k.at = "reserve" BY <2>1 DEF OnBid, Idle
    <2> QED BY <1>3, <2>1, <2>2, BeginFields
  <1>4. ASSUME NEW e \in Events, Begin(c, [OnBid("reaccept", p) EXCEPT !.ev = e])
        PROVE  /\ \A d \in Calls \ {c} : call'[d] = call[d]
               /\ call'[c].at \in {"idle", "reserve", "reaccept"}
    <2>1. PICK k : k = [OnBid("reaccept", p) EXCEPT !.ev = e] OBVIOUS
    <2>2. k.at = "reaccept" BY <2>1 DEF OnBid, Idle
    <2> QED BY <1>4, <2>1, <2>2, BeginFields
  <1> QED BY <1>1, <1>2, <1>3, <1>4

(* Where a step of a running request can lead. *)
MoveLabels == {"idle", "probe", "probeAged", "cancelPi", "unwind", "readJob", "createPi", "attachPi",
               "failPe", "lockRead", "lock", "ensureTrip", "createTrip", "reviveTrip",
               "recordSucceeded", "recordFailed", "failWrite", "failCheck"}
LEMMA WhoSteps ==
  ASSUME Inv, NEW c \in Calls, Step(c) \/ Crash(c)
  PROVE  /\ \A d \in Calls \ {c} : call'[d] = call[d]
         /\ \/ call'[c].at \in MoveLabels
            \/ AcceptReadJob(c) /\ call'[c].at \in {"reserve", "reaccept"}
            \/ Release(c) /\ call'[c].at = "adjust"
  <1> DEFINE Moves == /\ \A d \in Calls \ {c} : call'[d] = call[d]
                      /\ call'[c].at \in MoveLabels
  <1>1. SlotsTyped BY DEF Inv, SlotsGood
  <1>2. Leave(c) => Moves BY <1>1, LeaveFields DEF MoveLabels
  <1>3. Resume(c) => Moves BY <1>1, ResumeFields DEF MoveLabels
  <1>4. ASSUME NEW l \in MoveLabels, Goto(c, l) PROVE Moves
    BY <1>1, <1>4, GotoFields
  <1>5. ASSUME NEW l \in MoveLabels, NEW e, NEW t, Begin(c, OnCharge(l, e, t)) PROVE Moves
    BY <1>1, <1>5, BeginFields, NewFields
  <1>6. ASSUME SubmitCreate(c) \/ WithdrawWrite(c) \/ Record(c) \/ SyncWrite(c) \/ CancelJob(c)
               \/ Adjust(c) \/ Crash(c)
        PROVE  Moves
    <2>1. Leave(c)
      BY <1>6 DEF SubmitCreate, WithdrawWrite, Record, SyncWrite, CancelJob, Adjust, Crash
    <2> QED BY <2>1, <1>2
  <1>7. ASSUME AcceptProbe(c) PROVE Moves
    <2>1. Leave(c) \/ Goto(c, "cancelPi") \/ Begin(c, OnCharge("lockRead", call[c].ev, "idle"))
      BY <1>7 DEF AcceptProbe
    <2> QED BY <2>1, <1>2, <1>4, <1>5 DEF MoveLabels
  <1>8. AcceptReadJob(c) => /\ \A d \in Calls \ {c} : call'[d] = call[d]
                            /\ call'[c].at \in {"idle", "reserve", "reaccept"}
    BY <1>1, AcceptJobSlot
  <1>9. ASSUME Reserve(c) \/ Reaccept(c) \/ AttachPi(c) PROVE Moves
    <2> DEFINE relock == Begin(c, OnCharge("lockRead", call[c].ev, "idle"))
    <2>1. CASE Reserve(c)
      <3>1. Leave(c) \/ \E e \in Events : BeginsCreate(c, e) BY <2>1, ReserveWrites
      <3>2. ASSUME NEW e \in Events, NEW m \in Metadata,
                   Begin(c, [OnCharge("createPi", e, "idle") EXCEPT !.meta = m])
            PROVE  Moves
        <4>1. PICK k : k = [OnCharge("createPi", e, "idle") EXCEPT !.meta = m] OBVIOUS
        <4>2. k.at = "createPi" BY <4>1 DEF OnCharge, Idle
        <4> QED BY <1>1, <3>2, <4>1, <4>2, BeginFields DEF MoveLabels
      <3> QED BY <3>1, <3>2, <1>2 DEF BeginsCreate
    <2>2. Reaccept(c) => Leave(c) \/ relock BY DEF Reaccept
    <2>3. AttachPi(c) => Leave(c) \/ relock BY DEF AttachPi
    <2>4. relock => Moves BY <1>5 DEF MoveLabels
    <2> QED BY <1>9, <2>1, <2>2, <2>3, <2>4, <1>2
  <1>10. ASSUME CreatePiAnswer(c) PROVE Moves
    BY <1>1, <1>10 DEF CreatePiAnswer, SlotsTyped, Slot, MoveLabels
  <1>11. ASSUME CreatePiThrow(c) \/ FailPe(c) \/ CancelPi(c) \/ LockRead(c) \/ Lock(c)
                \/ FailWrite(c) \/ FailCheck(c)
         PROVE  Moves
    <2>1. \/ Leave(c) \/ Resume(c) \/ \E l \in MoveLabels : Goto(c, l)
          \/ call' = [call EXCEPT ![c].at = "lock", ![c].row = pe[call[c].ev].asg]
      BY <1>11 DEF CreatePiThrow, FailPe, CancelPi, LockRead, Lock, FailWrite, FailCheck,
               MoveLabels
    <2>2. ASSUME call' = [call EXCEPT ![c].at = "lock", ![c].row = pe[call[c].ev].asg]
          PROVE  Moves
      BY <1>1, <2>2 DEF SlotsTyped, Slot, MoveLabels
    <2> QED BY <2>1, <2>2, <1>2, <1>3, <1>4
  <1>12. ASSUME Unwind(c) \/ WriteTrip(c) PROVE Moves
    <2>1. Leave(c) \/ Resume(c) BY <1>12, SMT DEF Unwind, WriteTrip
    <2> QED BY <2>1, <1>2, <1>3
  <1>13. ASSUME EnsureTrip(c) PROVE Moves
    <2>1. \/ Resume(c)
          \/ \E r : \E l \in {"createTrip", "reviveTrip"} :
                call' = [call EXCEPT ![c].at = l, ![c].row = r]
      BY <1>13 DEF EnsureTrip
    <2>2. ASSUME NEW l \in {"createTrip", "reviveTrip"}, NEW r,
                 call' = [call EXCEPT ![c].at = l, ![c].row = r]
          PROVE  Moves
      BY <1>1, <2>2 DEF SlotsTyped, Slot, MoveLabels
    <2> QED BY <2>1, <2>2, <1>3
  <1>14. ASSUME Release(c)
         PROVE  /\ \A d \in Calls \ {c} : call'[d] = call[d]
                /\ call'[c].at \in {"idle", "adjust"}
    <2>1. Leave(c) \/ Goto(c, "adjust") BY <1>14 DEF Release
    <2> QED BY <1>1, <2>1, LeaveFields, GotoFields
  <1>15. CASE Moves BY <1>15
  <1>16. CASE AcceptReadJob(c) BY <1>8, <1>16 DEF MoveLabels
  <1>17. CASE Release(c) BY <1>14, <1>17 DEF MoveLabels
  <1> HIDE DEF Moves
  <1> QED BY <1>6, <1>7, <1>9, <1>10, <1>11, <1>12, <1>13, <1>15, <1>16, <1>17 DEF Step

-----------------------------------------------------------------------------
(* What the requests know of the charge rows they read.                    *)

(* The labels at which a slot works with the metadata it read.             *)
MetaLabels == {"probe", "probeAged", "cancelPi", "unwind", "createPi", "attachPi", "failPe",
               "failWrite", "failCheck"}

(* What it read is still in the row: bid and assignment, or the latter.    *)
MetaKnown(k) == /\ pe[k.ev].key # None
                /\ Live(k.ev) => k.meta.prop = pe[k.ev].prop /\ k.meta.asg = pe[k.ev].asg
AsgKnown(k)  == /\ pe[k.ev].key # None
                /\ Live(k.ev) => k.meta.asg = pe[k.ev].asg

(* A slot works with metadata just read or written, or with what it had.   *)
LEMMA MetaMoves ==
  ASSUME Inv, NEW c \in Calls, Arrive(c) \/ Step(c) \/ Crash(c), NEW k, k = call'[c],
         k.at \in MetaLabels
  PROVE  /\ k.ev \in Events
         /\ \/ MetaKnown(k)'
            \/ /\ call[c].at \in MetaLabels /\ k.ev = call[c].ev /\ k.meta = call[c].meta
               /\ KnownCharge(k.ev, k.meta, TRUE)
  <1>1. SlotsTyped /\ ChargesGood BY DEF Inv, RowsGood, SlotsGood
  <1>2. \A m : Begin(c, m) => k = m BY <1>1, BeginFields
  <1>3. ~Leave(c) /\ ~Resume(c) BY <1>1, LeaveFields, ResumeFields DEF MetaLabels
  <1>4. ASSUME NEW e \in Events, Live(e), UNCHANGED pe, k.ev = e, k.meta = Meta(e)
        PROVE  k.ev \in Events /\ MetaKnown(k)'
    BY <1>1, <1>4 DEF MetaKnown, Meta, ChargesGood, Live
  <1>5. ASSUME NEW p \in Proposals, AcceptRead(c, p)
        PROVE  k.ev \in Events /\ MetaKnown(k)'
    <2>1. UNCHANGED pe BY <1>5 DEF AcceptRead, db
    <2>2. ASSUME Begin(c, OnBid("readJob", p)) PROVE FALSE
      BY <1>2, <2>2, NewFields DEF MetaLabels
    <2>3. ASSUME NEW e \in Events, NEW l, Live(e),
                 Begin(c, [OnCharge(l, e, "readJob") EXCEPT !.prop = p, !.meta = Meta(e)])
          PROVE  k.ev \in Events /\ MetaKnown(k)'
      <3>1. k = [OnCharge(l, e, "readJob") EXCEPT !.prop = p, !.meta = Meta(e)] BY <1>2, <2>3
      <3>2. k.ev = e /\ k.meta = Meta(e) BY <3>1 DEF OnCharge, Idle
      <3> QED BY <1>4, <2>1, <2>3, <3>2
    <2>4. \/ Begin(c, OnBid("readJob", p))
          \/ \E e \in Events : \E l :
                Live(e) /\ Begin(c, [OnCharge(l, e, "readJob") EXCEPT !.prop = p, !.meta = Meta(e)])
      BY <1>5, Zenon DEF AcceptRead
    <2> QED BY <2>2, <2>3, <2>4, Zenon
  <1>6. ASSUME NEW e \in Events, HookFailed(c, e)
        PROVE  k.ev \in Events /\ MetaKnown(k)'
    <2>1. PICK l : /\ l = (IF MayFail(e) THEN "failWrite" ELSE "recordFailed")
                   /\ Begin(c, [OnCharge(l, e, "recordFailed") EXCEPT !.flag = pe[e].hasPi,
                                                                      !.meta = Meta(e)])
      BY <1>6, Zenon DEF HookFailed
    <2>2. k = [OnCharge(l, e, "recordFailed") EXCEPT !.flag = pe[e].hasPi, !.meta = Meta(e)]
      BY <1>2, <2>1
    <2>3. k.at = l /\ k.ev = e /\ k.meta = Meta(e) BY <2>2 DEF OnCharge, Idle
    <2>4. Live(e) BY <2>1, <2>3 DEF MayFail, MetaLabels
    <2>5. UNCHANGED pe BY <1>6 DEF HookFailed, db
    <2> QED BY <1>4, <2>3, <2>4, <2>5
  <1>7. CASE Reserve(c)
    <2>1. PICK e \in Events : /\ Reserved(call[c].prop, call[c].row, e)
                              /\ BeginsCreate(c, e)
      BY <1>3, <1>7, ReserveWrites
    <2>2. PICK m : /\ m.prop = pe'[e].prop /\ m.asg = pe'[e].asg
                   /\ Begin(c, [OnCharge("createPi", e, "idle") EXCEPT !.meta = m])
      BY <2>1 DEF BeginsCreate
    <2>3. k = [OnCharge("createPi", e, "idle") EXCEPT !.meta = m] BY <1>2, <2>2
    <2>4. k.ev = e /\ k.meta = m BY <2>3 DEF OnCharge, Idle
    <2>5. pe'[e].key # None
      BY <1>7, <2>1, ReserveWrites, AwardConstants DEF Reserved
    <2> QED BY <2>2, <2>4, <2>5 DEF MetaKnown
  <1>8. ASSUME call[c].at \in MetaLabels, k.ev = call[c].ev, k.meta = call[c].meta,
               \/ UNCHANGED pe
               \/ FailPe(c) \/ FailWrite(c) \/ SyncWrite(c) \/ AttachPi(c)
        PROVE  /\ k.ev \in Events
               /\ call[c].at \in MetaLabels /\ k.ev = call[c].ev /\ k.meta = call[c].meta
               /\ KnownCharge(k.ev, k.meta, TRUE)
    <2>1. k.ev \in Events BY <1>8, OnEvent DEF MetaLabels, EvLabels, Inv
    <2>2. KnownCharge(k.ev, k.meta, TRUE)
      <3>1. CASE UNCHANGED pe BY <3>1 DEF KnownCharge, Live
      <3>2. CASE FailPe(c) \/ FailWrite(c) \/ SyncWrite(c) \/ AttachPi(c)
        BY <1>8, <3>2, StatusWrites DEF KnownCharge
      <3> QED BY <1>8, <3>1, <3>2
    <2> QED BY <1>8, <2>1, <2>2
  <1>9. CASE \/ AcceptProbe(c) \/ CreatePiAnswer(c) \/ CreatePiThrow(c) \/ CancelPi(c)
             \/ FailCheck(c) \/ FailPe(c) \/ FailWrite(c)
    <2>1. call[c].at \in MetaLabels
      BY <1>9 DEF AcceptProbe, CreatePiAnswer, CreatePiThrow, CancelPi, FailCheck, FailPe,
                  FailWrite, At, MetaLabels
    <2>2. UNCHANGED pe \/ FailPe(c) \/ FailWrite(c)
      BY <1>9 DEF AcceptProbe, CreatePiAnswer, CreatePiThrow, CancelPi, FailCheck, db
    <2>3. \/ \E l : Goto(c, l)
          \/ \E s : call' = [call EXCEPT ![c].at = "attachPi", ![c].pi = s]
      <3>1. ~Begin(c, OnCharge("lockRead", call[c].ev, "idle"))
        BY <1>2, NewFields DEF MetaLabels
      <3> QED BY <1>3, <1>9, <3>1
              DEF AcceptProbe, CreatePiAnswer, CreatePiThrow, CancelPi, FailCheck, FailPe,
                  FailWrite
    <2>4. k.ev = call[c].ev /\ k.meta = call[c].meta
      BY <1>1, <2>3 DEF Goto, SlotsTyped, Slot
    <2> QED BY <1>8, <2>1, <2>2, <2>4
  <1>10. ASSUME \/ SubmitCreate(c) \/ WithdrawWrite(c) \/ Unwind(c) \/ WriteTrip(c) \/ Record(c)
                \/ SyncWrite(c) \/ CancelJob(c) \/ Adjust(c) \/ Crash(c)
         PROVE  FALSE
    <2>1. Leave(c) \/ Resume(c)
      BY <1>10, SMT DEF SubmitCreate, WithdrawWrite, Unwind, WriteTrip, Record, SyncWrite, CancelJob,
                   Adjust, Crash
    <2> QED BY <1>3, <2>1
  <1>11. ASSUME LockRead(c) \/ Lock(c) \/ EnsureTrip(c) \/ Release(c) PROVE FALSE
    <2>1. k.at \in {"lock", "ensureTrip", "createTrip", "reviveTrip", "adjust"}
      BY <1>1, <1>3, <1>11 DEF LockRead, Lock, EnsureTrip, Release, Goto, SlotsTyped, Slot
    <2> QED BY <2>1 DEF MetaLabels
  <1>12. ASSUME AcceptReadJob(c) PROVE FALSE
    BY <1>1, <1>12, AcceptJobSlot DEF MetaLabels
  <1>13. ASSUME Reaccept(c) \/ AttachPi(c) PROVE FALSE
    <2>1. Begin(c, OnCharge("lockRead", call[c].ev, "idle"))
      BY <1>3, <1>13 DEF Reaccept, AttachPi
    <2> QED BY <1>2, <2>1, NewFields DEF MetaLabels
  <1>14. ASSUME NEW j \in Jobs, SyncRead(c, j) \/ CancelRead(c, j) \/ ReleaseRead(c, j)
         PROVE  FALSE
    <2>1. CASE SyncRead(c, j)
      <3>1. PICK e \in Events : Begin(c, OnCharge(SyncStep(pi[e]), e, "idle"))
        BY <2>1 DEF SyncRead, ChargesOf
      <3> QED BY <1>2, <3>1, NewFields DEF SyncStep, MetaLabels
    <2>2. CASE CancelRead(c, j)
      <3>1. PICK b : Begin(c, [OnJob("cancelJob", j) EXCEPT !.flag = b])
        BY <2>2 DEF CancelRead
      <3>2. k = [OnJob("cancelJob", j) EXCEPT !.flag = b] BY <1>2, <3>1
      <3> QED BY <3>2 DEF OnJob, Idle, MetaLabels
    <2>3. CASE ReleaseRead(c, j) BY <1>2, <2>3, NewFields DEF ReleaseRead, MetaLabels
    <2> QED BY <1>14, <2>1, <2>2, <2>3
  <1>15. ASSUME NEW p \in Proposals, SubmitRead(c, p) \/ WithdrawRead(c, p) PROVE FALSE
    BY <1>2, <1>15, NewFields DEF SubmitRead, WithdrawRead, MetaLabels
  <1>16. ASSUME NEW e \in Events, HookSucceeded(c, e) PROVE FALSE
    BY <1>2, <1>16, NewFields DEF HookSucceeded, MetaLabels
  <1> QED BY <1>5, <1>6, <1>7, <1>8, <1>9, <1>10, <1>11, <1>12, <1>13, <1>14, <1>15, <1>16
          DEF Arrive, Step

-----------------------------------------------------------------------------
(* While no job has two charge rows at once.  The charge row of a job      *)
(* names its assignment, and a PENDING assignment has one; what a request  *)
(* read of the row names it still, since a re-accept keeps the assignment  *)
(* that the row names.  A re-accept repoints a row of its job, which is    *)
(* what its slot remembers of the read.                                    *)
ChargeNamed(j) == /\ \A e \in ChargesOf(j) : pe[e].asg = asg[j].id
                  /\ asg[j].status = "PENDING" => ChargesOf(j) # {}
RowsNamed     == \A j \in Jobs : ChargeNamed(j)
ReacceptSlots == \A c \in Calls : call[c].at = "reaccept" =>
                     pe[call[c].ev].key # None /\ EventJob(call[c].ev) = JobOf[call[c].prop]
AsgSlots      == \A c \in Calls : call[c].at \in MetaLabels => AsgKnown(call[c])
Named         == RowsNamed /\ ReacceptSlots /\ AsgSlots

(* What a step does to the rows: no keyed row comes to life or changes the *)
(* assignment it names.                                                    *)
SameAsg(f) == pe'[f].key = pe[f].key /\ Live(f)' = Live(f) /\ pe'[f].asg = pe[f].asg
AsgsStay   == \A f \in Events : pe[f].key # None =>
                  pe'[f].key = pe[f].key /\ (Live(f)' => Live(f) /\ pe'[f].asg = pe[f].asg)

(* A step that makes no assignment PENDING and keeps what the rows name.   *)
LEMMA NamedKept ==
  ASSUME RowsNamed, \A f \in Events : SameAsg(f),
         \A i \in Jobs : /\ asg'[i].id = asg[i].id
                         /\ asg'[i].status = "PENDING" => asg[i].status = "PENDING"
  PROVE  RowsNamed' /\ AsgsStay
  <1>1. ASSUME NEW i \in Jobs PROVE ChargeNamed(i)'
    <2>1. ChargesOf(i)' = ChargesOf(i) BY DEF ChargesOf, SameAsg, EventJob
    <2>2. \A e \in ChargesOf(i) : pe'[e].asg = pe[e].asg BY DEF ChargesOf, SameAsg
    <2> QED BY <2>1, <2>2 DEF RowsNamed, ChargeNamed
  <1>2. AsgsStay BY DEF AsgsStay, SameAsg
  <1> QED BY <1>1, <1>2 DEF RowsNamed

(* The jobs whose assignment and charge rows a step leaves alone. *)
LEMMA NamedElsewhere ==
  ASSUME NEW i \in Jobs, ChargeNamed(i), asg'[i] = asg[i], NEW e \in Events,
         \A f \in Events \ {e} : pe'[f] = pe[f],
         Live(e) => EventJob(e) # i, Live(e)' => EventJob(e)' # i
  PROVE  ChargeNamed(i)'
  <1>1. ChargesOf(i)' = ChargesOf(i) BY DEF ChargesOf, Live, EventJob
  <1>2. \A f \in ChargesOf(i) : f # e /\ pe'[f] = pe[f] BY DEF ChargesOf
  <1> QED BY <1>1, <1>2 DEF ChargeNamed

LEMMA AwardsNamed ==
  ASSUME Inv, RowsNamed, NEW p \in Proposals, NEW id, AwardTo(p, id),
         NEW e \in Events, Live(e)', pe'[e].key # None, JobOf[pe'[e].key] = JobOf[p],
         pe'[e].asg = id, \A f \in Events \ {e} : pe'[f] = pe[f],
         Live(e) => EventJob(e) = JobOf[p], SingleCharge'
  PROVE  RowsNamed'
  <1>1. PICK j \in Jobs : j = JobOf[p] BY AwardConstants
  <1>2. RowsTyped BY DEF Inv, RowsGood
  <1>3. /\ asg'[j] = [id |-> id, status |-> "PENDING", prop |-> p]
        /\ \A i \in Jobs \ {j} : asg'[i] = asg[i]
    BY <1>1, <1>2, AwardWrites
  <1>4. e \in ChargesOf(j)' BY <1>1 DEF ChargesOf, EventJob
  <1>5. \A f \in ChargesOf(j)' : f = e BY <1>4 DEF SingleCharge
  <1>6. ChargeNamed(j)' BY <1>3, <1>4, <1>5 DEF ChargeNamed
  <1>7. ASSUME NEW i \in Jobs \ {j} PROVE ChargeNamed(i)'
    BY <1>1, <1>3, <1>7, NamedElsewhere DEF RowsNamed, EventJob
  <1> QED BY <1>6, <1>7 DEF RowsNamed

LEMMA UnwindNamed ==
  ASSUME RowsNamed, SingleCharge, NEW e \in Events, NEW j \in Jobs, NEW m, Unwound(e, j, m),
         m.asg = pe[e].asg
  PROVE  RowsNamed'
  <1>1. Live(e) /\ e \in ChargesOf(j) BY DEF Unwound, ChargesOf
  <1>2. \A f \in ChargesOf(j) : f = e BY <1>1 DEF SingleCharge
  <1>3. m.asg = asg[j].id BY <1>1 DEF RowsNamed, ChargeNamed
  <1>4. asg'[j].status # "PENDING" BY <1>3 DEF Unwound, Deletable, NoAsg
  <1>5. ChargesOf(j)' = {} BY <1>2 DEF Unwound, ChargesOf, Live, EventJob
  <1>6. ChargeNamed(j)' BY <1>4, <1>5 DEF ChargeNamed
  <1>7. ASSUME NEW i \in Jobs \ {j} PROVE ChargeNamed(i)'
    BY <1>1, <1>7, NamedElsewhere DEF RowsNamed, Unwound, OthersKept, EventJob
  <1> QED BY <1>6, <1>7 DEF RowsNamed

LEMMA QuietSteps ==
  ASSUME NEW c \in Calls,
         \/ SubmitCreate(c) \/ WithdrawWrite(c) \/ AcceptProbe(c) \/ AcceptReadJob(c)
         \/ CreatePiAnswer(c) \/ CreatePiThrow(c) \/ CancelPi(c) \/ LockRead(c) \/ EnsureTrip(c)
         \/ WriteTrip(c) \/ FailCheck(c) \/ Record(c) \/ Adjust(c) \/ Arrive(c) \/ Crash(c)
  PROVE  UNCHANGED <<job, asg, exc, pe>>
  BY DEF SubmitCreate, WithdrawWrite, AcceptProbe, AcceptReadJob, CreatePiAnswer, CreatePiThrow,
         CancelPi, LockRead, EnsureTrip, WriteTrip, FailCheck, Record, Adjust, Arrive, Crash,
         SubmitRead, WithdrawRead, AcceptRead, HookSucceeded, HookFailed, SyncRead, CancelRead,
         ReleaseRead, db

LEMMA StepNamed ==
  ASSUME Inv, RowIds, Named, SingleCharge, SingleCharge', NEW c \in Calls, Step(c)
  PROVE  RowsNamed' /\ AsgsStay
  <1>1. RowsTyped /\ ChargesGood /\ RowsNamed BY DEF Inv, RowsGood, Named
  <1>2. ASSUME UNCHANGED <<asg, pe>> PROVE RowsNamed' /\ AsgsStay
    BY <1>1, <1>2, NamedKept DEF SameAsg, Live
  <1>3. CASE Reserve(c)
    <2>1. ASSUME NEW e \in Events, NEW p \in Proposals, NEW row, Reserved(p, row, e)
          PROVE  RowsNamed' /\ AsgsStay
      <3>1. pe[e].st = "NONE" /\ pe[e].key = None /\ ~Live(e) /\ Live(e)'
        BY <1>1, <2>1 DEF Reserved, ChargesGood, Live
      <3>2. p # None BY AwardConstants
      <3>3. AsgsStay BY <2>1, <3>1 DEF Reserved, AsgsStay, Live
      <3>4. PICK id : AwardTo(p, id) /\ pe'[e].asg = id BY <2>1 DEF Reserved
      <3> QED BY <1>1, <2>1, <3>1, <3>2, <3>3, <3>4, AwardsNamed DEF Reserved
    <2> QED BY <1>2, <1>3, <2>1, ReserveWrites
  <1>4. CASE Reaccept(c)
    <2>1. ASSUME Repointed(call[c].prop, call[c].ev)
          PROVE  RowsNamed' /\ AsgsStay
      <3>1. PICK p \in Proposals : p = call[c].prop BY <1>4, ReacceptWrites
      <3>2. PICK e \in Events : e = call[c].ev BY <1>4, ReacceptWrites
      <3>3. pe[e].key # None /\ EventJob(e) = JobOf[p]
        BY <1>4, <3>1, <3>2 DEF Named, ReacceptSlots, Reaccept, At
      <3>4. Repointed(p, e) /\ Live(e) BY <2>1, <3>1, <3>2 DEF Repointed
      <3>5. Live(e)' /\ pe'[e].key = pe[e].key BY <3>4 DEF Repointed, Live
      <3>6. PICK j \in Jobs : j = JobOf[p] BY AwardConstants
      <3>7. e \in ChargesOf(j) BY <3>3, <3>4, <3>6 DEF ChargesOf
      <3>8. pe[e].asg = asg[j].id /\ asg[j].id # 0
        BY <1>1, <3>4, <3>7 DEF RowsNamed, ChargeNamed, RowIds, AsgIds
      <3>9. asg[j].status # "NONE" BY <3>8 DEF RowIds, AsgIds
      <3>10. AwardTo(p, asg[j].id) /\ pe'[e].asg = asg[j].id
        BY <3>4, <3>6, <3>9 DEF Repointed
      <3>11. AsgsStay BY <3>4, <3>5, <3>8, <3>10 DEF Repointed, AsgsStay, Live
      <3> QED BY <1>1, <3>3, <3>4, <3>5, <3>6, <3>10, <3>11, AwardsNamed DEF Repointed, EventJob
    <2> QED BY <1>2, <1>4, <2>1, ReacceptWrites
  <1>5. CASE Unwind(c)
    <2>1. PICK e \in Events : e = call[c].ev BY <1>5, UnwindWrites
    <2>2. PICK m : m = call[c].meta OBVIOUS
    <2>3. Live(e) => m.asg = pe[e].asg
      BY <1>5, <2>1, <2>2 DEF Unwind, At, Named, AsgSlots, AsgKnown, MetaLabels
    <2>4. ASSUME NEW j \in Jobs, Unwound(e, j, m) PROVE RowsNamed' /\ AsgsStay
      <3>1. AsgsStay BY <2>4 DEF Unwound, AsgsStay, Live
      <3>2. m.asg = pe[e].asg BY <2>3, <2>4 DEF Unwound
      <3> QED BY <1>1, <2>4, <3>1, <3>2, UnwindNamed
    <2> QED BY <1>2, <1>5, <2>1, <2>2, <2>4, UnwindWrites
  <1>6. CASE Lock(c)
    <2>1. PICK e \in Events : e = call[c].ev BY <1>6, LockWrites
    <2>2. ASSUME NEW j \in Jobs, Locked(e, j) PROVE RowsNamed' /\ AsgsStay
      <3>1. \A i \in Jobs : /\ asg'[i].id = asg[i].id
                            /\ asg'[i].status = "PENDING" => asg[i].status = "PENDING"
        BY <2>2 DEF Locked, OthersKept
      <3>2. \A f \in Events : SameAsg(f) BY <2>2 DEF Locked, SameCharge, SameAsg, Live
      <3> QED BY <1>1, <3>1, <3>2, NamedKept
    <2> QED BY <1>2, <1>6, <2>1, <2>2, LockWrites
  <1>7. CASE FailPe(c) \/ FailWrite(c) \/ SyncWrite(c) \/ AttachPi(c)
    <2>1. PICK e \in Events : e = call[c].ev BY <1>7, StatusWrites
    <2>2. FailPe(c) /\ Live(e) => call[c].meta.asg = pe[e].asg
      BY <2>1 DEF FailPe, At, Named, AsgSlots, AsgKnown, MetaLabels
    <2>3. \A f \in Events : SameAsg(f)
      BY <1>7, <2>1, <2>2, StatusWrites DEF KnownCharge, SameAsg, Live
    <2>4. UNCHANGED asg BY <1>7, StatusWrites
    <2> QED BY <1>1, <2>3, <2>4, NamedKept
  <1>8. CASE CancelJob(c) \/ Release(c)
    <2>1. ASSUME NEW j \in Jobs, NEW row, LetGo(j, row)
          PROVE  RowsNamed' /\ AsgsStay
      <3>1. /\ UNCHANGED pe
            /\ \A i \in Jobs : /\ asg'[i].id = asg[i].id
                               /\ asg'[i].status = "PENDING" => asg[i].status = "PENDING"
        BY <2>1 DEF LetGo, OthersKept
      <3> QED BY <1>1, <3>1, NamedKept DEF SameAsg, Live
    <2> QED BY <1>2, <1>8, <2>1, CancelWrites, ReleaseWrites
  <1> QED BY <1>2, <1>3, <1>4, <1>5, <1>6, <1>7, <1>8, QuietSteps DEF Step

(* A re-accept is begun for a paid charge row of the job of its bid. *)
LEMMA ReacceptBegins ==
  ASSUME Inv, NEW c \in Calls, Arrive(c) \/ Step(c) \/ Crash(c), NEW k, k = call'[c],
         k.at = "reaccept"
  PROVE  /\ UNCHANGED pe /\ k.ev \in Events /\ pe[k.ev].key # None
         /\ EventJob(k.ev) = JobOf[k.prop]
  <1>1. AcceptReadJob(c) BY WhoArrives, WhoSteps DEF MoveLabels
  <1>2. PICK p : p = call[c].prop OBVIOUS
  <1>3. SlotsTyped /\ ChargesGood BY DEF Inv, SlotsGood, RowsGood
  <1>4. PICK e \in PaidCharges(JobOf[p]) :
           Begin(c, [OnBid("reaccept", p) EXCEPT !.ev = e])
    <2>1. ~Leave(c) BY <1>3, LeaveFields
    <2>2. ~Begin(c, [OnBid("reserve", p) EXCEPT !.row = asg[JobOf[p]].id])
      <3>1. PICK n : n = [OnBid("reserve", p) EXCEPT !.row = asg[JobOf[p]].id] OBVIOUS
      <3>2. n.at = "reserve" BY <3>1 DEF OnBid, Idle
      <3> QED BY <1>3, <3>1, <3>2, BeginFields
    <2> QED BY <1>1, <1>2, <2>1, <2>2 DEF AcceptReadJob, Latest
  <1>5. k = [OnBid("reaccept", p) EXCEPT !.ev = e] BY <1>3, <1>4, BeginFields
  <1>6. k.ev = e /\ k.prop = p BY <1>5 DEF OnBid, Idle
  <1>7. e \in Events /\ Live(e) /\ EventJob(e) = JobOf[p]
    BY <1>4 DEF PaidCharges, ChargesOf
  <1>8. pe[e].key # None BY <1>3, <1>7 DEF ChargesGood, Live
  <1>9. UNCHANGED pe BY <1>1 DEF AcceptReadJob, db
  <1> QED BY <1>6, <1>7, <1>8, <1>9

LEMMA SlotsNamed ==
  ASSUME Inv, Named, AsgsStay, NEW c \in Calls, Arrive(c) \/ Step(c) \/ Crash(c)
  PROVE  ReacceptSlots' /\ AsgSlots'
  <1>1. \A d \in Calls \ {c} : call'[d] = call[d] BY WhoArrives, WhoSteps
  <1>2. PICK k : k = call'[c] OBVIOUS
  <1>3. ReacceptSlots'
    <2>1. ASSUME k.at = "reaccept"
          PROVE  pe'[k.ev].key # None /\ EventJob(k.ev)' = JobOf[k.prop]
      BY <1>2, <2>1, ReacceptBegins DEF EventJob
    <2>2. ASSUME NEW d \in Calls \ {c}, NEW n, n = call[d], n.at = "reaccept"
          PROVE  pe'[n.ev].key # None /\ EventJob(n.ev)' = JobOf[n.prop]
      <3>1. n.ev \in Events BY <2>2, OnEvent DEF EvLabels, Inv
      <3> QED BY <2>2, <3>1 DEF Named, ReacceptSlots, AsgsStay, EventJob
    <2> QED BY <1>1, <1>2, <2>1, <2>2 DEF ReacceptSlots, EventJob
  <1>4. ASSUME NEW n, n.ev \in Events, AsgKnown(n) PROVE AsgKnown(n)'
    BY <1>4 DEF AsgKnown, AsgsStay
  <1>5. ASSUME k.at \in MetaLabels PROVE AsgKnown(k)'
    <2>1. CASE MetaKnown(k)' BY <2>1 DEF MetaKnown, AsgKnown
    <2>2. CASE call[c].at \in MetaLabels /\ k.ev = call[c].ev /\ k.meta = call[c].meta
      <3>1. AsgKnown(k) BY <2>2 DEF Named, AsgSlots, AsgKnown
      <3> QED BY <1>2, <1>4, <1>5, <3>1, MetaMoves
    <2> QED BY <1>2, <1>5, <2>1, <2>2, MetaMoves
  <1>6. ASSUME NEW d \in Calls \ {c}, call[d].at \in MetaLabels PROVE AsgKnown(call[d])'
    <2>1. PICK n : n = call[d] OBVIOUS
    <2>2. n.ev \in Events /\ AsgKnown(n)
      BY <1>6, <2>1, OnEvent DEF MetaLabels, EvLabels, Inv, Named, AsgSlots
    <2>3. AsgKnown(n)' BY <1>4, <2>2
    <2> QED BY <1>1, <2>1, <2>3 DEF AsgKnown
  <1> QED BY <1>1, <1>2, <1>3, <1>5, <1>6 DEF AsgSlots, AsgKnown

LEMMA NamedStays ==
  ASSUME Inv, RowIds, Named, SingleCharge, SingleCharge', [Next]_vars
  PROVE  Named'
  <1>1. ASSUME NEW c \in Calls, Step(c) PROVE Named'
    BY <1>1, StepNamed, SlotsNamed DEF Named
  <1>2. ASSUME NEW c \in Calls, Arrive(c) \/ Crash(c) PROVE Named'
    BY <1>2, QuietSteps, NamedKept, SlotsNamed DEF Named, SameAsg, Live
  <1>3. ASSUME UNCHANGED <<pe, call>>,
               \A i \in Jobs : /\ asg'[i].id = asg[i].id
                               /\ asg'[i].status = "PENDING" => asg[i].status = "PENDING"
        PROVE  Named'
    <2>1. RowsNamed' BY <1>3, NamedKept DEF Named, SameAsg, Live
    <2>2. ReacceptSlots' /\ AsgSlots'
      BY <1>3 DEF Named, ReacceptSlots, AsgSlots, AsgKnown, EventJob, Live
    <2> QED BY <2>1, <2>2 DEF Named
  <1>4. ASSUME NEW j \in Jobs, CompleteTrip(j) PROVE Named'
    BY <1>3, <1>4, CompleteWrites DEF OthersKept
  <1>5. ASSUME NEW j \in Jobs, StartTrip(j) \/ OpenException(j) PROVE UNCHANGED <<asg, pe, call>>
    BY <1>5 DEF StartTrip, OpenException
  <1>6. ASSUME NEW e \in Events, Settle(e) \/ Age(e) PROVE UNCHANGED <<asg, pe, call>>
    BY <1>6 DEF Settle, Age, db
  <1>7. UNCHANGED vars => UNCHANGED <<asg, pe, call>> BY DEF vars
  <1> QED BY <1>1, <1>2, <1>3, <1>4, <1>5, <1>6, <1>7 DEF Next, Trips, External

(* However requests overlap, and wherever a process dies: while no job has *)
(* two charge rows at once, a reservation is never left without a charge   *)
(* row that names it.  The next accept, webhook or sync finds it there and *)
(* locks it or unwinds it (acceptProposal, acceptWithPriorCharge,          *)
(* unwindFailedAccept).                                                    *)
THEOREM ReservationsRecoverable == Spec /\ []SingleCharge => []ReservationRecoverable
  <1>1. Init => Named
    BY DEF Init, OpenForBids, Named, RowsNamed, ChargeNamed, ChargesOf, Live, NoEvent, NoAsg,
           ReacceptSlots, AsgSlots, MetaLabels, Idle
  <1>2. Inv /\ RowIds /\ [Next]_vars => RowIds' BY NextRows
  <1>3. Inv /\ RowIds /\ Named /\ SingleCharge /\ SingleCharge' /\ [Next]_vars => Named'
    BY NamedStays
  <1>4. Named => ReservationRecoverable
    BY DEF Named, RowsNamed, ChargeNamed, ReservationRecoverable
  <1> QED BY <1>1, <1>2, <1>3, <1>4, AlwaysInv, InitRowIds, PTL DEF Spec

-----------------------------------------------------------------------------
(* Requests that do not overlap.  The account of a job: its live charge    *)
(* row, of which there is one at most, created its assignment; what a firm *)
(* or finished award, a trip, an exception and a release rest on is paid;  *)
(* an accepted bid has the award or a paid one succeeded it.               *)
Paid(j)  == PaidCharges(j) # {}
Moved(j) == \/ asg[j].status \in {"LOCKED", "COMPLETED"}
            \/ trip[j] # "NONE" \/ exc[j]
            \/ job[j] = "BIDDING" /\ asg[j].status # "NONE"
NamesAward(e, j) == /\ pe[e].asg = e /\ asg[j].id = e /\ asg[j].prop = pe[e].prop
                    /\ asg[j].prop \in Proposals /\ JobOf[asg[j].prop] = j
AwardOfBid(j) == asg[j].status = "PENDING" => /\ ChargesOf(j) # {}
                                              /\ asg[j].prop \in Proposals
                                              /\ JobOf[asg[j].prop] = j
BidAwarded(p, j) == asg[j].status # "NONE" /\ (asg[j].prop = p \/ Paid(j))

Account(j) ==
    /\ \A e \in ChargesOf(j) : NamesAward(e, j)
    /\ AwardOfBid(j) /\ AwardHoldsBid(j) /\ LockedIsAccounted(j)
    /\ Moved(j) => Paid(j)
    /\ \A p \in Proposals : JobOf[p] = j /\ proposal[p] = "ACCEPTED" => BidAwarded(p, j)
SerialRows == \A j \in Jobs : Account(j)

(* What the running request still knows from what it read. *)
UnpaidLabels == MetaLabels \cup {"syncFail", "syncAction"}
SlotKnows(k) ==
    /\ k.at \in UnpaidLabels => pe[k.ev].st # "SUCCEEDED"
    /\ k.at \in MetaLabels => MetaKnown(k)
    /\ k.at = "withdraw" => proposal[k.prop] = "SUBMITTED"
    /\ k.at = "reserve" => k.row = 0 /\ asg[JobOf[k.prop]].status = "NONE"
    /\ k.at = "reaccept" => k.ev \in PaidCharges(JobOf[k.prop])
    /\ k.at \in {"createTrip", "reviveTrip"} => Paid(EventJob(k.ev))
    /\ k.at = "release" => Paid(k.job)
    /\ k.at \in {"adjust", "cancelJob"} => asg[k.job].status # "LOCKED"
SlotsKnow == \A c \in Calls : SlotKnows(call[c])

Sound == Inv /\ RowIds /\ SerialRows

(* The charge rows of a job, and which of its bids are accepted, stay.     *)
ChargesKept(j) == \A f \in Events : /\ f \in ChargesOf(j) => SameCharge(f)
                                    /\ f \in ChargesOf(j)' => f \in ChargesOf(j)
BidsKept(j) == \A q \in Proposals :
    JobOf[q] = j => (proposal'[q] = "ACCEPTED" <=> proposal[q] = "ACCEPTED")

LEMMA BidOfAward ==
  ASSUME Sound, NEW j \in Jobs, asg[j].status = "PENDING"
  PROVE  asg[j].prop \in Proposals /\ JobOf[asg[j].prop] = j
  BY DEF Sound, SerialRows, Account, AwardOfBid

(* A step that leaves the award of j and keeps its rows in other respects. *)
LEMMA AccountKept ==
  ASSUME Sound, NEW j \in Jobs, asg'[j] = asg[j], lines'[j] = lines[j], ChargesKept(j),
         Paid(j) => Paid(j)', BidsKept(j), Moved(j)' => Moved(j),
         asg[j].status = "LOCKED" => job'[j] \in {"ASSIGNED", "IN_TRANSIT"}
  PROVE  Account(j)'
  <1>1. Account(j) BY DEF Sound, SerialRows
  <1>2. \A e \in ChargesOf(j)' : NamesAward(e, j)'
    <2>1. SUFFICES ASSUME NEW e \in Events, e \in ChargesOf(j)' PROVE NamesAward(e, j)'
      BY DEF ChargesOf
    <2>2. e \in ChargesOf(j) /\ SameCharge(e) BY <2>1 DEF ChargesKept
    <2> QED BY <1>1, <2>2 DEF Account, NamesAward, SameCharge
  <1>3. AwardHoldsBid(j)' BY <1>1, BidOfAward DEF Account, AwardHoldsBid, BidsKept
  <1>4. LockedIsAccounted(j)' BY <1>1 DEF Account, LockedIsAccounted, Paid
  <1>5. \A p \in Proposals : JobOf[p] = j /\ proposal'[p] = "ACCEPTED" => BidAwarded(p, j)'
    BY <1>1 DEF Account, BidsKept, BidAwarded
  <1>6. AwardOfBid(j)'
    BY <1>1 DEF Account, AwardOfBid, ChargesKept, ChargesOf, SameCharge, EventJob
  <1> QED BY <1>1, <1>2, <1>3, <1>4, <1>5, <1>6 DEF Account

(* A paid charge row stays one while its status does. *)
LEMMA PaidKept ==
  ASSUME NEW j \in Jobs, ChargesKept(j),
         \A f \in Events : pe[f].st = "SUCCEEDED" /\ pe[f].hasPi
                             => pe'[f].st = "SUCCEEDED" /\ pe'[f].hasPi
  PROVE  Paid(j) => Paid(j)'
  <1>1. SUFFICES ASSUME Paid(j) PROVE Paid(j)' OBVIOUS
  <1>2. PICK e \in Events : e \in ChargesOf(j) /\ pe[e].st = "SUCCEEDED" /\ pe[e].hasPi
    BY <1>1 DEF Paid, PaidCharges, ChargesOf
  <1>3. e \in ChargesOf(j)' BY <1>2 DEF ChargesKept, SameCharge, ChargesOf, EventJob
  <1> QED BY <1>2, <1>3 DEF Paid, PaidCharges

(* The accounts of the jobs whose rows a step on job j leaves alone. *)
LEMMA OtherAccounts ==
  ASSUME Sound, NEW j \in Jobs, NEW i \in Jobs \ {j}, OthersKept(j), lines'[i] = lines[i],
         \A f \in ChargesOf(i) : pe'[f] = pe[f],
         \A f \in Events : f \in ChargesOf(i)' => f \in ChargesOf(i),
         BidsKept(i)
  PROVE  Account(i)'
  <1>1. ChargesKept(i) BY DEF ChargesKept, SameCharge, Live
  <1>2. Paid(i) => Paid(i)'
    <2>1. SUFFICES ASSUME Paid(i) PROVE Paid(i)' OBVIOUS
    <2>2. PICK e \in ChargesOf(i) : pe[e].st = "SUCCEEDED" /\ pe[e].hasPi
      BY <2>1 DEF Paid, PaidCharges
    <2>3. e \in ChargesOf(i)' BY <1>1, <2>2 DEF ChargesKept, SameCharge, ChargesOf, EventJob
    <2> QED BY <2>2, <2>3 DEF Paid, PaidCharges
  <1>3. asg'[i] = asg[i] /\ job'[i] = job[i] /\ (Moved(i)' => Moved(i))
    BY DEF OthersKept, Moved
  <1>4. asg[i].status = "LOCKED" => job[i] \in {"ASSIGNED", "IN_TRANSIT"}
    BY DEF Sound, SerialRows, Account, LockedIsAccounted
  <1> QED BY <1>1, <1>2, <1>3, <1>4, AccountKept

(* The live charge row of a job is the only one. *)
LEMMA OneCharge ==
  ASSUME Sound, NEW e \in Events, Live(e), NEW j \in Jobs, j = EventJob(e)
  PROVE  /\ NamesAward(e, j) /\ \A f \in ChargesOf(j) : f = e
         /\ asg[j].id = e /\ asg[j].status # "NONE"
         /\ pe[e].st # "SUCCEEDED" => ~Paid(j)
  <1>1. e \in ChargesOf(j) BY DEF ChargesOf
  <1>2. \A f \in ChargesOf(j) : NamesAward(f, j) BY DEF Sound, SerialRows, Account
  <1>3. e # 0 BY AwardConstants DEF Events
  <1>4. asg[j].status # "NONE" BY <1>1, <1>2, <1>3 DEF NamesAward, Sound, RowIds, AsgIds
  <1> QED BY <1>1, <1>2, <1>4 DEF NamesAward, Paid, PaidCharges

LEMMA ReserveAccounts ==
  ASSUME Sound, NEW p \in Proposals, NEW e \in Events, Reserved(p, 0, e)
  PROVE  SerialRows'
  <1>1. PICK j \in Jobs : j = JobOf[p] BY AwardConstants
  <1>2. RowsTyped BY DEF Sound, Inv, RowsGood
  <1>3. AwardTo(p, e) /\ asg[j].id = 0 BY <1>1 DEF Reserved
  <1>4. asg[j].status = "NONE" /\ trip[j] = "NONE" /\ ~exc[j]
    BY <1>1, <1>3 DEF Sound, RowIds, AsgIds
  <1>5. ChargesOf(j) = {}
    <2>1. \A f \in ChargesOf(j) : f = 0
      BY <1>3 DEF Sound, SerialRows, Account, NamesAward
    <2> QED BY <2>1, AwardConstants DEF ChargesOf, Events
  <1>6. /\ job'[j] = "ASSIGNED" /\ asg'[j] = [id |-> e, status |-> "PENDING", prop |-> p]
        /\ \A i \in Jobs \ {j} : job'[i] = job[i] /\ asg'[i] = asg[i]
        /\ proposal'[p] = "ACCEPTED"
        /\ \A q \in Proposals \ {p} : proposal'[q] = "ACCEPTED" <=> proposal[q] = "ACCEPTED"
    BY <1>1, <1>2, <1>3, AwardWrites
  <1>7. /\ pe'[e].key = p /\ pe'[e].prop = p /\ pe'[e].asg = e
        /\ ~Live(e) /\ \A f \in Events \ {e} : pe'[f] = pe[f]
        /\ UNCHANGED <<trip, lines, exc>>
    BY DEF Reserved, Live
  <1>8. Account(j)'
    <2>1. ChargesOf(j)' \subseteq {e} BY <1>5, <1>7 DEF ChargesOf, Live, EventJob
    <2>2. NamesAward(e, j)' BY <1>1, <1>6, <1>7 DEF NamesAward
    <2>3. AwardHoldsBid(j)' /\ LockedIsAccounted(j)' /\ ~Moved(j)'
      BY <1>4, <1>6, <1>7 DEF AwardHoldsBid, LockedIsAccounted, Moved
    <2>4. \A q \in Proposals : JobOf[q] = j /\ proposal'[q] = "ACCEPTED" => BidAwarded(q, j)'
      BY <1>4, <1>6 DEF BidAwarded, Sound, SerialRows, Account
    <2>5. e \in ChargesOf(j)'
      BY <1>1, <1>7 DEF ChargesOf, EventJob, Reserved, Live
    <2>6. AwardOfBid(j)' BY <1>1, <1>6, <2>5 DEF AwardOfBid
    <2> QED BY <2>1, <2>2, <2>3, <2>4, <2>6 DEF Account
  <1>9. ASSUME NEW i \in Jobs \ {j} PROVE Account(i)'
    <2>1. OthersKept(j) BY <1>6, <1>7 DEF OthersKept
    <2>2. BidsKept(i) BY <1>1, <1>6, <1>9 DEF BidsKept
    <2>3. /\ \A f \in ChargesOf(i) : pe'[f] = pe[f]
          /\ \A f \in Events : f \in ChargesOf(i)' => f \in ChargesOf(i)
      BY <1>1, <1>7, <1>9 DEF ChargesOf, Live, EventJob
    <2> QED BY <1>7, <2>1, <2>2, <2>3, OtherAccounts
  <1> QED BY <1>8, <1>9 DEF SerialRows

LEMMA ReacceptAccounts ==
  ASSUME Sound, NEW p \in Proposals, NEW e \in Events, Repointed(p, e),
         e \in PaidCharges(JobOf[p])
  PROVE  SerialRows'
  <1>1. PICK j \in Jobs : j = JobOf[p] BY AwardConstants
  <1>2. RowsTyped BY DEF Sound, Inv, RowsGood
  <1>3. e \in ChargesOf(j) /\ Live(e) /\ EventJob(e) = j /\ pe[e].st = "SUCCEEDED" /\ pe[e].hasPi
    BY <1>1 DEF PaidCharges, ChargesOf
  <1>4. (\A f \in ChargesOf(j) : f = e) /\ asg[j].id = e /\ asg[j].status # "NONE"
    BY <1>3, OneCharge
  <1>5. AwardTo(p, e) BY <1>1, <1>4 DEF Repointed
  <1>6. /\ job'[j] = "ASSIGNED" /\ asg'[j] = [id |-> e, status |-> "PENDING", prop |-> p]
        /\ \A i \in Jobs \ {j} : job'[i] = job[i] /\ asg'[i] = asg[i]
        /\ proposal'[p] = "ACCEPTED"
        /\ \A q \in Proposals \ {p} : proposal'[q] = "ACCEPTED" <=> proposal[q] = "ACCEPTED"
    BY <1>1, <1>2, <1>5, AwardWrites
  <1>7. /\ pe'[e].key = pe[e].key /\ pe'[e].prop = p /\ pe'[e].asg = e
        /\ pe'[e].st = pe[e].st /\ pe'[e].hasPi = pe[e].hasPi
        /\ \A f \in Events \ {e} : pe'[f] = pe[f]
        /\ UNCHANGED <<trip, lines, exc>>
    BY <1>1, <1>4 DEF Repointed
  <1>8. Account(j)'
    <2>1. ChargesOf(j)' = {e} BY <1>3, <1>4, <1>7 DEF ChargesOf, Live, EventJob
    <2>2. NamesAward(e, j)' BY <1>1, <1>6, <1>7 DEF NamesAward
    <2>3. Paid(j)' BY <1>3, <1>7, <2>1 DEF Paid, PaidCharges
    <2>4. AwardHoldsBid(j)' /\ LockedIsAccounted(j)'
      BY <1>6 DEF AwardHoldsBid, LockedIsAccounted
    <2>5. \A q \in Proposals : BidAwarded(q, j)' BY <1>6, <2>3 DEF BidAwarded
    <2>6. AwardOfBid(j)' BY <1>1, <1>6, <2>1 DEF AwardOfBid
    <2> QED BY <2>1, <2>2, <2>3, <2>4, <2>5, <2>6 DEF Account
  <1>9. ASSUME NEW i \in Jobs \ {j} PROVE Account(i)'
    <2>1. OthersKept(j) BY <1>6, <1>7 DEF OthersKept
    <2>2. BidsKept(i) BY <1>1, <1>6, <1>9 DEF BidsKept
    <2>3. /\ \A f \in ChargesOf(i) : pe'[f] = pe[f]
          /\ \A f \in Events : f \in ChargesOf(i)' => f \in ChargesOf(i)
      BY <1>3, <1>7, <1>9 DEF ChargesOf, Live, EventJob
    <2> QED BY <1>7, <2>1, <2>2, <2>3, OtherAccounts
  <1> QED BY <1>8, <1>9 DEF SerialRows

LEMMA UnwindAccounts ==
  ASSUME Sound, NEW e \in Events, NEW j \in Jobs, NEW m, Unwound(e, j, m),
         pe[e].st # "SUCCEEDED", m.prop = pe[e].prop, m.asg = pe[e].asg
  PROVE  SerialRows'
  <1>1. Live(e) /\ j = EventJob(e) BY DEF Unwound
  <1>2. /\ NamesAward(e, j) /\ (\A f \in ChargesOf(j) : f = e)
        /\ asg[j].id = e /\ asg[j].status # "NONE" /\ ~Paid(j)
    BY <1>1, OneCharge
  <1>3. Account(j) /\ ~Moved(j) BY <1>2 DEF Sound, SerialRows, Account
  <1>4. /\ \A f \in Events \ {e} : pe'[f] = pe[f]
        /\ pe'[e].key = pe[e].key /\ ~Live(e)' /\ UNCHANGED lines /\ OthersKept(j)
    BY DEF Unwound
  <1>5. \A q \in Proposals : proposal'[q] = "ACCEPTED" =>
                             proposal[q] = "ACCEPTED" /\ q # pe[e].prop
    BY DEF Unwound
  <1>6. Account(j)'
    <2>1. ChargesOf(j)' = {} BY <1>2, <1>4 DEF ChargesOf, Live, EventJob
    <2>2. AwardOfBid(j)' /\ AwardHoldsBid(j)' /\ LockedIsAccounted(j)' /\ ~Moved(j)'
      <3>1. CASE Deletable(asg[j], pe[e].asg)
        <4>1. asg'[j] = NoAsg /\ trip'[j] = "NONE" /\ exc'[j] = FALSE
          BY <3>1 DEF Unwound
        <4> QED BY <4>1 DEF AwardOfBid, AwardHoldsBid, LockedIsAccounted, Moved, NoAsg
      <3>2. CASE ~Deletable(asg[j], pe[e].asg)
        <4>1. asg'[j] = asg[j] /\ trip'[j] = trip[j] /\ exc'[j] = exc[j] /\ job'[j] = job[j]
          BY <1>2, <3>2 DEF Unwound
        <4>2. asg[j].status # "PENDING" BY <1>2, <3>2 DEF Deletable, NamesAward
        <4> QED BY <1>3, <4>1, <4>2 DEF AwardOfBid, AwardHoldsBid, LockedIsAccounted, Moved
      <3> QED BY <3>1, <3>2
    <2>3. \A q \in Proposals : JobOf[q] = j => proposal'[q] # "ACCEPTED"
      BY <1>2, <1>3, <1>5 DEF Account, BidAwarded, NamesAward
    <2> QED BY <2>1, <2>2, <2>3 DEF Account
  <1>7. ASSUME NEW i \in Jobs \ {j} PROVE Account(i)'
    <2>1. JobOf[pe[e].prop] = j BY <1>2 DEF NamesAward
    <2>2. BidsKept(i) BY <1>7, <2>1 DEF BidsKept, Unwound
    <2>3. /\ \A f \in ChargesOf(i) : pe'[f] = pe[f]
          /\ \A f \in Events : f \in ChargesOf(i)' => f \in ChargesOf(i)
      BY <1>1, <1>4, <1>7 DEF ChargesOf, Live, EventJob
    <2> QED BY <1>4, <2>2, <2>3, OtherAccounts
  <1> QED BY <1>6, <1>7 DEF SerialRows

LEMMA LockAccounts ==
  ASSUME Sound, NEW e \in Events, NEW j \in Jobs, Locked(e, j)
  PROVE  SerialRows'
  <1>1. Live(e) /\ j = EventJob(e) /\ SameCharge(e) BY DEF Locked
  <1>2. NamesAward(e, j) /\ \A f \in ChargesOf(j) : f = e BY <1>1, OneCharge
  <1>3. /\ \A f \in Events \ {e} : pe'[f] = pe[f]
        /\ pe'[e].st = "SUCCEEDED" /\ pe'[e].hasPi = TRUE
        /\ asg'[j].id = asg[j].id /\ asg'[j].prop = asg[j].prop /\ asg'[j].status = "LOCKED"
        /\ job'[j] = "ASSIGNED" /\ lines'[j] = "live" /\ UNCHANGED proposal
        /\ OthersKept(j) /\ \A i \in Jobs \ {j} : lines'[i] = lines[i]
    BY DEF Locked
  <1>4. Account(j)'
    <2>1. ChargesOf(j)' = {e} BY <1>1, <1>2, <1>3 DEF ChargesOf, SameCharge, Live, EventJob
    <2>2. NamesAward(e, j)' BY <1>1, <1>2, <1>3 DEF NamesAward, SameCharge
    <2>3. Paid(j)' BY <1>3, <2>1 DEF Paid, PaidCharges
    <2>4. AwardHoldsBid(j)' /\ LockedIsAccounted(j)'
      BY <1>3, <2>3 DEF AwardHoldsBid, LockedIsAccounted, Paid
    <2>5. \A q \in Proposals : BidAwarded(q, j)' BY <1>3, <2>3 DEF BidAwarded
    <2>6. AwardOfBid(j)' BY <1>3 DEF AwardOfBid
    <2> QED BY <2>1, <2>2, <2>3, <2>4, <2>5, <2>6 DEF Account
  <1>5. ASSUME NEW i \in Jobs \ {j} PROVE Account(i)'
    <2>1. BidsKept(i) BY <1>3 DEF BidsKept
    <2>2. /\ \A f \in ChargesOf(i) : pe'[f] = pe[f]
          /\ \A f \in Events : f \in ChargesOf(i)' => f \in ChargesOf(i)
      BY <1>1, <1>3, <1>5 DEF ChargesOf, SameCharge, Live, EventJob
    <2> QED BY <1>3, <1>5, <2>1, <2>2, OtherAccounts
  <1> QED BY <1>4, <1>5 DEF SerialRows

(* A step that keeps the charge rows and moves a job's award on. *)
LEMMA AwardMoves ==
  ASSUME Sound, NEW j \in Jobs, UNCHANGED pe, BidsKept(j),
         asg'[j].id = asg[j].id, asg'[j].prop = asg[j].prop,
         asg[j].status # "NONE" => asg'[j].status # "NONE",
         asg'[j].status = "PENDING" => asg[j].status = "PENDING",
         asg'[j].status = "LOCKED" => lines'[j] = "live" /\ job'[j] \in {"ASSIGNED", "IN_TRANSIT"},
         Moved(j)' => Paid(j)
  PROVE  Account(j)'
  <1>1. Account(j) BY DEF Sound, SerialRows
  <1>2. ChargesOf(j)' = ChargesOf(j) /\ PaidCharges(j)' = PaidCharges(j)
    BY DEF PaidCharges, ChargesOf, Live, EventJob
  <1>3. Paid(j)' <=> Paid(j) BY <1>2 DEF Paid
  <1>4. \A e \in ChargesOf(j)' : NamesAward(e, j)' BY <1>1, <1>2 DEF Account, NamesAward
  <1>5. AwardHoldsBid(j)' BY <1>1, BidOfAward DEF Account, AwardHoldsBid, BidsKept
  <1>6. LockedIsAccounted(j)' BY <1>3 DEF Moved, LockedIsAccounted, Paid
  <1>7. \A p \in Proposals : JobOf[p] = j /\ proposal'[p] = "ACCEPTED" => BidAwarded(p, j)'
    BY <1>1, <1>3 DEF Account, BidsKept, BidAwarded
  <1>8. AwardOfBid(j)' BY <1>1, <1>2 DEF Account, AwardOfBid
  <1> QED BY <1>3, <1>4, <1>5, <1>6, <1>7, <1>8 DEF Account

LEMMA LetGoAccounts ==
  ASSUME Sound, NEW j \in Jobs, NEW row, LetGo(j, row),
         asg'[j].status # "LOCKED", Moved(j)' => Moved(j) \/ Paid(j)
  PROVE  SerialRows'
  <1>1. /\ UNCHANGED <<lines, pe>> /\ OthersKept(j)
        /\ asg'[j].id = asg[j].id /\ asg'[j].prop = asg[j].prop
        /\ asg'[j] = asg[j] \/ asg'[j].status = "CANCELLED"
    BY DEF LetGo
  <1>2. \A i \in Jobs : BidsKept(i) BY DEF LetGo, BidsKept
  <1>3. Moved(j)' => Paid(j) BY DEF Sound, SerialRows, Account
  <1>4. Account(j)' BY <1>1, <1>2, <1>3, AwardMoves
  <1>5. ASSUME NEW i \in Jobs \ {j} PROVE Account(i)'
    <2>1. /\ \A f \in ChargesOf(i) : pe'[f] = pe[f]
          /\ \A f \in Events : f \in ChargesOf(i)' => f \in ChargesOf(i)
      BY <1>1 DEF ChargesOf, Live, EventJob
    <2> QED BY <1>1, <1>2, <2>1, OtherAccounts
  <1> QED BY <1>4, <1>5 DEF SerialRows

LEMMA SameAccounts ==
  ASSUME Sound, UNCHANGED <<job, asg, trip, lines, exc, pe>>, \A i \in Jobs : BidsKept(i)
  PROVE  SerialRows'
  <1>1. ASSUME NEW i \in Jobs PROVE Account(i)'
    <2>1. Moved(i)' => Paid(i) BY DEF Moved, Sound, SerialRows, Account
    <2>2. asg[i].status = "LOCKED" => lines[i] = "live" /\ job[i] \in {"ASSIGNED", "IN_TRANSIT"}
      BY DEF Sound, SerialRows, Account, LockedIsAccounted
    <2> QED BY <2>1, <2>2, AwardMoves
  <1> QED BY <1>1 DEF SerialRows

LEMMA BidAccounts ==
  ASSUME Sound, SlotsKnow, NEW c \in Calls, SubmitCreate(c) \/ WithdrawWrite(c)
  PROVE  SerialRows'
  <1>1. PICK p : p = call[c].prop OBVIOUS
  <1>2. proposal \in [Proposals -> ProposalStatus] BY DEF Sound, Inv, RowsGood, RowsTyped
  <1>3. \A q \in Proposals : proposal'[q] = "ACCEPTED" <=> proposal[q] = "ACCEPTED"
    <2>1. CASE SubmitCreate(c)
      <3>1. \/ proposal' = proposal
            \/ proposal[p] = "NONE" /\ proposal' = [proposal EXCEPT ![p] = "SUBMITTED"]
        BY <1>1, <2>1 DEF SubmitCreate
      <3> QED BY <1>2, <3>1
    <2>2. CASE WithdrawWrite(c)
      <3>1. proposal[p] = "SUBMITTED" /\ proposal' = [proposal EXCEPT ![p] = "WITHDRAWN"]
        BY <1>1, <2>2 DEF WithdrawWrite, SlotsKnow, SlotKnows, At
      <3> QED BY <1>2, <3>1
    <2> QED BY <2>1, <2>2
  <1>4. UNCHANGED <<job, asg, trip, lines, exc, pe>> BY DEF SubmitCreate, WithdrawWrite
  <1> QED BY <1>3, <1>4, SameAccounts DEF BidsKept

(* A step that writes the status of an unpaid charge row. *)
LEMMA StatusAccounts ==
  ASSUME Sound, SlotsKnow, NEW c \in Calls,
         FailPe(c) \/ FailWrite(c) \/ SyncWrite(c) \/ AttachPi(c)
  PROVE  SerialRows'
  <1>1. PICK e \in Events : e = call[c].ev BY StatusWrites DEF Sound
  <1>2. pe[e].st # "SUCCEEDED"
    BY <1>1 DEF SlotsKnow, SlotKnows, UnpaidLabels, MetaLabels,
           FailPe, FailWrite, SyncWrite, AttachPi, At
  <1>3. /\ UNCHANGED <<job, proposal, asg, trip, lines, exc>>
        /\ KnownCharge(e, call[c].meta, FailPe(c))
        /\ \A f \in Events \ {e} : pe'[f] = pe[f]
    BY <1>1, StatusWrites DEF Sound
  <1>5. FailPe(c) /\ Live(e) => call[c].meta.prop = pe[e].prop /\ call[c].meta.asg = pe[e].asg
    BY <1>1 DEF FailPe, At, SlotsKnow, SlotKnows, MetaKnown, MetaLabels
  <1>6. \A f \in Events : SameCharge(f) BY <1>3, <1>5 DEF KnownCharge, SameCharge, Live
  <1>4. ASSUME NEW i \in Jobs PROVE Account(i)'
    <2>1. ChargesKept(i) BY <1>6 DEF ChargesKept, ChargesOf, SameCharge, EventJob
    <2>2. Paid(i) => Paid(i)' BY <1>2, <1>3, <2>1, PaidKept
    <2>3. Moved(i)' => Moved(i) BY <1>3 DEF Moved
    <2>4. asg[i].status = "LOCKED" => job[i] \in {"ASSIGNED", "IN_TRANSIT"}
      BY DEF Sound, SerialRows, Account, LockedIsAccounted
    <2>5. BidsKept(i) BY <1>3 DEF BidsKept
    <2> QED BY <1>3, <2>1, <2>2, <2>3, <2>4, <2>5, AccountKept
  <1> QED BY <1>4 DEF SerialRows

(* A trip is created or revived for a firm award, which is paid. *)
LEMMA TripAccounts ==
  ASSUME Sound, SlotsKnow, NEW c \in Calls, WriteTrip(c)
  PROVE  SerialRows'
  <1>1. PICK j : j = EventJob(call[c].ev) OBVIOUS
  <1>2. Paid(j) BY <1>1 DEF WriteTrip, SlotsKnow, SlotKnows, At
  <1>3. trip \in [Jobs -> TripStatus] BY DEF Sound, Inv, RowsGood, RowsTyped
  <1>4. UNCHANGED <<job, proposal, asg, lines, exc, pe>> BY DEF WriteTrip
  <1>5. trip' = trip \/ trip' = [trip EXCEPT ![j] = "PENDING_GATES"]
    BY <1>1 DEF WriteTrip
  <1>6. ASSUME NEW i \in Jobs PROVE Account(i)'
    <2>1. Moved(i)' => Paid(i)
      BY <1>2, <1>3, <1>4, <1>5 DEF Moved, Sound, SerialRows, Account
    <2>2. asg[i].status = "LOCKED" => lines[i] = "live" /\ job[i] \in {"ASSIGNED", "IN_TRANSIT"}
      BY DEF Sound, SerialRows, Account, LockedIsAccounted
    <2>3. BidsKept(i) BY <1>4 DEF BidsKept
    <2> QED BY <1>4, <2>1, <2>2, <2>3, AwardMoves
  <1> QED BY <1>6 DEF SerialRows

(* The lines that a release voids belong to no firm award. *)
LEMMA AdjustAccounts ==
  ASSUME Sound, SlotsKnow, NEW c \in Calls, Adjust(c)
  PROVE  SerialRows'
  <1>1. PICK j : j = call[c].job OBVIOUS
  <1>2. asg[j].status # "LOCKED" BY <1>1 DEF Adjust, SlotsKnow, SlotKnows, At
  <1>3. lines \in [Jobs -> LineStatus] BY DEF Sound, Inv, RowsGood, RowsTyped
  <1>4. UNCHANGED <<job, proposal, asg, trip, exc, pe>> BY DEF Adjust
  <1>5. lines' = lines \/ lines' = [lines EXCEPT ![j] = "void"] BY <1>1 DEF Adjust
  <1>6. ASSUME NEW i \in Jobs PROVE Account(i)'
    <2>1. Moved(i)' => Paid(i) BY <1>4 DEF Moved, Sound, SerialRows, Account
    <2>2. asg[i].status = "LOCKED" => lines'[i] = "live" /\ job[i] \in {"ASSIGNED", "IN_TRANSIT"}
      BY <1>2, <1>3, <1>5 DEF Sound, SerialRows, Account, LockedIsAccounted
    <2>3. BidsKept(i) BY <1>4 DEF BidsKept
    <2> QED BY <1>4, <2>1, <2>2, <2>3, AwardMoves
  <1> QED BY <1>6 DEF SerialRows

LEMMA LetGoRequests ==
  ASSUME Sound, SlotsKnow, NEW c \in Calls, CancelJob(c) \/ Release(c)
  PROVE  SerialRows'
  <1>1. CASE CancelJob(c)
    <2>1. PICK j \in Jobs : j = call[c].job BY <1>1, CancelWrites DEF Sound
    <2>2. PICK row : row = call[c].row OBVIOUS
    <2>3. asg[j].status # "LOCKED" BY <1>1, <2>1 DEF CancelJob, SlotsKnow, SlotKnows, At
    <2>4. CASE UNCHANGED <<job, proposal, asg, trip, lines, exc, pe>>
      BY <2>4, SameAccounts DEF BidsKept
    <2>5. CASE LetGo(j, row) /\ UNCHANGED <<trip, exc>> /\ job'[j] = "CANCELLED"
      <3>1. asg'[j].status # "LOCKED" BY <2>3, <2>5 DEF LetGo
      <3>2. Moved(j)' => Moved(j) BY <2>5 DEF LetGo, Moved
      <3> QED BY <2>5, <3>1, <3>2, LetGoAccounts
    <2> QED BY <1>1, <2>1, <2>2, <2>4, <2>5, CancelWrites DEF Sound
  <1>2. CASE Release(c)
    <2>1. PICK j \in Jobs : j = call[c].job BY <1>2, ReleaseWrites DEF Sound
    <2>2. PICK row : row = call[c].row OBVIOUS
    <2>3. Paid(j) BY <1>2, <2>1 DEF Release, SlotsKnow, SlotKnows, At
    <2>4. CASE UNCHANGED <<job, proposal, asg, trip, lines, exc, pe>>
      BY <2>4, SameAccounts DEF BidsKept
    <2>5. CASE LetGo(j, row) /\ row # 0
      <3>1. asg'[j].status # "LOCKED" BY <2>5 DEF LetGo
      <3> QED BY <2>3, <2>5, <3>1, LetGoAccounts
    <2> QED BY <1>2, <2>1, <2>2, <2>4, <2>5, ReleaseWrites DEF Sound
  <1> QED BY <1>1, <1>2

LEMMA TripMoveAccounts ==
  ASSUME Sound, NEW j \in Jobs, StartTrip(j) \/ CompleteTrip(j) \/ OpenException(j)
  PROVE  SerialRows'
  <1>1. RowsTyped BY DEF Sound, Inv, RowsGood
  <1>2. Account(j) BY DEF Sound, SerialRows
  <1>3. /\ UNCHANGED <<proposal, lines, pe>> /\ OthersKept(j) /\ Paid(j)
        /\ asg'[j].id = asg[j].id /\ asg'[j].prop = asg[j].prop
        /\ \/ asg'[j].status = "COMPLETED"
           \/ asg'[j] = asg[j] /\ job'[j] \in {job[j], "IN_TRANSIT"}
    <2>1. CASE StartTrip(j)
      BY <1>1, <1>2, <2>1 DEF StartTrip, RowsTyped, OthersKept, Account, LockedIsAccounted, Paid
    <2>2. CASE CompleteTrip(j)
      <3>1. Paid(j) BY <1>2, <2>2, CompleteWrites DEF Sound, Account, Moved
      <3> QED BY <2>2, <3>1, CompleteWrites DEF Sound
    <2>3. CASE OpenException(j)
      BY <1>1, <1>2, <2>3
         DEF OpenException, RowsTyped, OthersKept, Account, LockedIsAccounted, Paid
    <2> QED BY <2>1, <2>2, <2>3
  <1>4. \A i \in Jobs : BidsKept(i) BY <1>3 DEF BidsKept
  <1>5. Account(j)'
    BY <1>2, <1>3, <1>4, AwardMoves DEF Account, LockedIsAccounted
  <1>6. ASSUME NEW i \in Jobs \ {j} PROVE Account(i)'
    <2>1. /\ \A f \in ChargesOf(i) : pe'[f] = pe[f]
          /\ \A f \in Events : f \in ChargesOf(i)' => f \in ChargesOf(i)
      BY <1>3 DEF ChargesOf, Live, EventJob
    <2> QED BY <1>3, <1>4, <2>1, OtherAccounts
  <1> QED BY <1>5, <1>6 DEF SerialRows

LEMMA StepAccounts ==
  ASSUME Sound, SlotsKnow, NEW c \in Calls, Step(c)
  PROVE  SerialRows'
  <1>1. ASSUME UNCHANGED <<job, proposal, asg, trip, lines, exc, pe>> PROVE SerialRows'
    BY <1>1, SameAccounts DEF BidsKept
  <1>2. CASE Reserve(c)
    <2>1. PICK p \in Proposals : p = call[c].prop BY <1>2, ReserveWrites DEF Sound
    <2>2. call[c].row = 0 BY <1>2 DEF Reserve, SlotsKnow, SlotKnows, At
    <2>3. ASSUME NEW e \in Events, Reserved(p, 0, e) PROVE SerialRows'
      BY <2>3, ReserveAccounts
    <2> QED BY <1>1, <1>2, <2>1, <2>2, <2>3, ReserveWrites DEF Sound
  <1>3. CASE Reaccept(c)
    <2>1. PICK p \in Proposals : p = call[c].prop BY <1>3, ReacceptWrites DEF Sound
    <2>2. PICK e \in Events : e = call[c].ev BY <1>3, ReacceptWrites DEF Sound
    <2>3. e \in PaidCharges(JobOf[p])
      BY <1>3, <2>1, <2>2 DEF Reaccept, SlotsKnow, SlotKnows, At
    <2>4. CASE Repointed(p, e) BY <2>3, <2>4, ReacceptAccounts
    <2> QED BY <1>1, <1>3, <2>1, <2>2, <2>4, ReacceptWrites DEF Sound
  <1>4. CASE Unwind(c)
    <2>1. PICK e \in Events : e = call[c].ev BY <1>4, UnwindWrites DEF Sound
    <2>2. pe[e].st # "SUCCEEDED"
      BY <1>4, <2>1 DEF Unwind, SlotsKnow, SlotKnows, UnpaidLabels, MetaLabels, At
    <2>4. PICK m : m = call[c].meta OBVIOUS
    <2>3. ASSUME NEW j \in Jobs, Unwound(e, j, m) PROVE SerialRows'
      <3>1. m.prop = pe[e].prop /\ m.asg = pe[e].asg
        BY <1>4, <2>1, <2>3, <2>4
           DEF Unwind, At, Unwound, SlotsKnow, SlotKnows, MetaKnown, MetaLabels
      <3> QED BY <2>2, <2>3, <3>1, UnwindAccounts
    <2> QED BY <1>1, <1>4, <2>1, <2>3, <2>4, UnwindWrites DEF Sound
  <1>5. CASE Lock(c)
    <2>1. PICK e \in Events : e = call[c].ev BY <1>5, LockWrites DEF Sound
    <2>2. ASSUME NEW j \in Jobs, Locked(e, j) PROVE SerialRows'
      BY <2>2, LockAccounts
    <2> QED BY <1>1, <1>5, <2>1, <2>2, LockWrites DEF Sound
  <1>6. ASSUME AcceptProbe(c) \/ AcceptReadJob(c) \/ CreatePiAnswer(c) \/ CreatePiThrow(c)
               \/ CancelPi(c) \/ LockRead(c) \/ EnsureTrip(c) \/ FailCheck(c) \/ Record(c)
        PROVE  UNCHANGED <<job, proposal, asg, trip, lines, exc, pe>>
    BY <1>6 DEF AcceptProbe, AcceptReadJob, CreatePiAnswer, CreatePiThrow, CancelPi, LockRead,
                EnsureTrip, FailCheck, Record, db
  <1> QED
    BY <1>1, <1>2, <1>3, <1>4, <1>5, <1>6, BidAccounts, StatusAccounts, TripAccounts,
       AdjustAccounts, LetGoRequests DEF Step

-----------------------------------------------------------------------------
(* What a slot knows when it starts and when it moves on. *)
IdleKnown == {"idle", "readJob", "submit", "lockRead", "lock", "ensureTrip",
              "recordSucceeded", "recordFailed"}

LEMMA KnowsNothing == ASSUME NEW k, k.at \in IdleKnown PROVE SlotKnows(k)'
  BY DEF SlotKnows, IdleKnown, UnpaidLabels, MetaLabels

LEMMA KnowsUnpaid ==
  ASSUME NEW k, k.at \in UnpaidLabels, pe'[k.ev].st # "SUCCEEDED",
         k.at \in MetaLabels => MetaKnown(k)'
  PROVE  SlotKnows(k)'
  BY DEF SlotKnows, UnpaidLabels, MetaLabels

(* What the running request read is still in the charge row. *)
LEMMA MetaStays ==
  ASSUME Sound, SlotsKnow, NEW c \in Calls, Arrive(c) \/ Step(c) \/ Crash(c), NEW k, k = call'[c]
  PROVE  k.at \in MetaLabels => MetaKnown(k)'
  <1>1. SUFFICES ASSUME k.at \in MetaLabels PROVE MetaKnown(k)'
    OBVIOUS
  <1>2. ASSUME call[c].at \in MetaLabels, k.ev = call[c].ev, k.meta = call[c].meta,
               KnownCharge(k.ev, k.meta, TRUE)
        PROVE  MetaKnown(k)'
    <2>1. MetaKnown(k) BY <1>2 DEF SlotsKnow, SlotKnows, MetaKnown
    <2> QED BY <1>2, <2>1 DEF MetaKnown, KnownCharge
  <1> QED BY <1>1, <1>2, MetaMoves DEF Sound

(* The slot of a running request is the only one at work. *)
LEMMA OneSlotKnows ==
  ASSUME NEW c \in Calls, \A d \in Calls \ {c} : call'[d].at = "idle",
         NEW k, k = call'[c], SlotKnows(k)'
  PROVE  SlotsKnow'
  <1>1. ASSUME NEW d \in Calls PROVE SlotKnows(call[d])'
    <2>1. CASE d = c BY <2>1 DEF SlotKnows
    <2>2. CASE d # c
      <3>1. call'[d].at = "idle" BY <2>2
      <3> QED BY <3>1 DEF SlotKnows, UnpaidLabels, MetaLabels
    <2> QED BY <2>1, <2>2
  <1> QED BY <1>1 DEF SlotsKnow

LEMMA ArriveKnows ==
  ASSUME Sound, SlotsKnow, NEW c \in Calls, Arrive(c), NEW k, k = call'[c]
  PROVE  SlotKnows(k)'
  <1>1. SlotsTyped BY DEF Sound, Inv, SlotsGood
  <1>2. UNCHANGED <<job, proposal, asg, trip, lines, exc, pe>>
    BY DEF Arrive, SubmitRead, WithdrawRead, AcceptRead, HookSucceeded, HookFailed, SyncRead,
           CancelRead, ReleaseRead, db
  <1>3. \A m : Begin(c, m) => k = m BY <1>1, BeginFields
  <1>12. k.at \in MetaLabels => MetaKnown(k)' BY MetaStays
  <1>4. ASSUME NEW p \in Proposals, SubmitRead(c, p) PROVE SlotKnows(k)'
    BY <1>3, <1>4, NewFields, KnowsNothing DEF SubmitRead, IdleKnown
  <1>5. ASSUME NEW p \in Proposals, WithdrawRead(c, p) PROVE SlotKnows(k)'
    <2>1. k.at = "withdraw" /\ k.prop = p BY <1>3, <1>5, NewFields DEF WithdrawRead
    <2>2. proposal'[p] = "SUBMITTED" BY <1>2, <1>5 DEF WithdrawRead, MayWithdraw
    <2> QED BY <2>1, <2>2 DEF SlotKnows, UnpaidLabels, MetaLabels
  <1>6. ASSUME NEW p \in Proposals, AcceptRead(c, p) PROVE SlotKnows(k)'
    <2>1. CASE Begin(c, OnBid("readJob", p))
      BY <1>3, <2>1, NewFields, KnowsNothing DEF IdleKnown
    <2>2. ASSUME NEW e, NEW l \in {"cancelPi", "unwind", "probe", "probeAged"},
                 pe[e].st # "SUCCEEDED",
                 Begin(c, [OnCharge(l, e, "readJob") EXCEPT !.prop = p, !.meta = Meta(e)])
          PROVE  SlotKnows(k)'
      <3>1. k = [OnCharge(l, e, "readJob") EXCEPT !.prop = p, !.meta = Meta(e)] BY <1>3, <2>2
      <3>2. k.at = l /\ k.ev = e BY <3>1 DEF OnCharge, Idle
      <3> QED BY <1>2, <1>12, <2>2, <3>2, KnowsUnpaid DEF UnpaidLabels, MetaLabels
    <2>3. \/ Begin(c, OnBid("readJob", p))
          \/ \E e \in Events, l \in {"cancelPi", "unwind", "probe", "probeAged"} :
                /\ Recoverable(e) \/ Awaiting(e)
                /\ Begin(c, [OnCharge(l, e, "readJob") EXCEPT !.prop = p, !.meta = Meta(e)])
      BY <1>6, Zenon DEF AcceptRead
    <2>4. \A e : Recoverable(e) \/ Awaiting(e) => pe[e].st # "SUCCEEDED"
      BY DEF Recoverable, Awaiting
    <2> QED BY <2>1, <2>2, <2>3, <2>4, Zenon
  <1>7. ASSUME NEW e \in Events, HookSucceeded(c, e) PROVE SlotKnows(k)'
    BY <1>3, <1>7, NewFields, KnowsNothing DEF HookSucceeded, IdleKnown
  <1>8. ASSUME NEW e \in Events, HookFailed(c, e) PROVE SlotKnows(k)'
    <2>1. PICK l : /\ l = (IF MayFail(e) THEN "failWrite" ELSE "recordFailed")
                   /\ Begin(c, [OnCharge(l, e, "recordFailed") EXCEPT !.flag = pe[e].hasPi,
                                                                      !.meta = Meta(e)])
      BY <1>8, Zenon DEF HookFailed
    <2>2. k = [OnCharge(l, e, "recordFailed") EXCEPT !.flag = pe[e].hasPi, !.meta = Meta(e)]
      BY <1>3, <2>1
    <2>3. k.at = l /\ k.ev = e BY <2>2 DEF OnCharge, Idle
    <2>4. CASE l = "recordFailed" BY <2>3, <2>4, KnowsNothing DEF IdleKnown
    <2>5. CASE l = "failWrite"
      <3>1. pe'[e].st # "SUCCEEDED" BY <1>2, <2>1, <2>5 DEF MayFail
      <3> QED BY <1>12, <2>3, <2>5, <3>1, KnowsUnpaid DEF UnpaidLabels, MetaLabels
    <2> QED BY <2>1, <2>4, <2>5
  <1>9. ASSUME NEW j \in Jobs, SyncRead(c, j) PROVE SlotKnows(k)'
    <2>1. PICK e \in Events : /\ SyncStep(pi[e]) # "idle"
                             /\ Begin(c, OnCharge(SyncStep(pi[e]), e, "idle"))
      BY <1>9 DEF SyncRead, ChargesOf
    <2>2. PICK l : l = SyncStep(pi[e]) OBVIOUS
    <2>3. k.at = l /\ k.ev = e BY <1>3, <2>1, <2>2, NewFields
    <2>4. CASE pi[e] = "succeeded"
      BY <2>2, <2>3, <2>4, KnowsNothing DEF SyncStep, IdleKnown
    <2>5. CASE pi[e] # "succeeded"
      <3>1. pe'[e].st # "SUCCEEDED" BY <1>2, <2>5 DEF Sound, Inv, RowsGood, ChargesGood
      <3>2. l \in UnpaidLabels BY <2>1, <2>2, <2>5 DEF SyncStep, UnpaidLabels, MetaLabels
      <3> QED BY <1>12, <2>3, <3>1, <3>2, KnowsUnpaid
    <2> QED BY <2>4, <2>5
  <1>10. ASSUME NEW j \in Jobs, CancelRead(c, j) PROVE SlotKnows(k)'
    <2>1. PICK b : Begin(c, [OnJob("cancelJob", j) EXCEPT !.flag = b])
      BY <1>10 DEF CancelRead
    <2>2. k = [OnJob("cancelJob", j) EXCEPT !.flag = b] BY <1>3, <2>1
    <2>3. k.at = "cancelJob" /\ k.job = j BY <2>2 DEF OnJob, Idle
    <2>4. asg'[j].status # "LOCKED" BY <1>2, <1>10 DEF CancelRead, MayCancel
    <2> QED BY <2>3, <2>4 DEF SlotKnows, UnpaidLabels, MetaLabels
  <1>11. ASSUME NEW j \in Jobs, ReleaseRead(c, j) PROVE SlotKnows(k)'
    <2>1. k.at = "release" /\ k.job = j BY <1>3, <1>11, NewFields DEF ReleaseRead
    <2>2. Paid(j) BY <1>11 DEF ReleaseRead, Sound, SerialRows, Account, Moved
    <2>3. Paid(j)' BY <1>2, <2>2 DEF Paid, PaidCharges, ChargesOf, Live, EventJob
    <2> QED BY <2>1, <2>3 DEF SlotKnows, UnpaidLabels, MetaLabels
  <1> QED BY <1>4, <1>5, <1>6, <1>7, <1>8, <1>9, <1>10, <1>11 DEF Arrive

LEMMA LeaveKnows ==
  ASSUME SlotsTyped, NEW c \in Calls, Leave(c) \/ Resume(c), NEW k, k = call'[c]
  PROVE  SlotKnows(k)'
  BY LeaveFields, ResumeFields, KnowsNothing DEF IdleKnown

LEMMA AcceptJobKnows ==
  ASSUME Sound, NEW c \in Calls, AcceptReadJob(c), NEW k, k = call'[c]
  PROVE  SlotKnows(k)'
  <1>1. SlotsTyped BY DEF Sound, Inv, SlotsGood
  <1>2. UNCHANGED <<asg, pe>> BY DEF AcceptReadJob, db
  <1>3. \A m : Begin(c, m) => k = m BY <1>1, BeginFields
  <1>4. PICK p : p = call[c].prop OBVIOUS
  <1>5. p \in Proposals
    BY <1>4 DEF AcceptReadJob, At, PropLabels, Sound, Inv, SlotsGood, SlotGood, SlotTyped
  <1>6. PICK j \in Jobs : j = JobOf[p] BY <1>5, AwardConstants
  <1>7. CASE Leave(c) BY <1>1, <1>7, LeaveKnows
  <1>8. CASE /\ ~Refused(p) /\ PaidCharges(j) = {}
             /\ Begin(c, [OnBid("reserve", p) EXCEPT !.row = asg[j].id])
    <2>1. k = [OnBid("reserve", p) EXCEPT !.row = asg[j].id] BY <1>3, <1>8
    <2>2. k.at = "reserve" /\ k.prop = p /\ k.row = asg[j].id BY <2>1 DEF OnBid, Idle
    <2>3. ~Moved(j) BY <1>8 DEF Sound, SerialRows, Account, Paid
    <2>4. asg[j].status = "NONE" /\ asg[j].id = 0
      BY <1>6, <1>8, <2>3 DEF Refused, Moved, Sound, RowIds, AsgIds
    <2> QED BY <1>2, <1>6, <2>2, <2>4 DEF SlotKnows, UnpaidLabels, MetaLabels
  <1>9. ASSUME NEW e \in PaidCharges(j), Begin(c, [OnBid("reaccept", p) EXCEPT !.ev = e])
        PROVE  SlotKnows(k)'
    <2>1. k = [OnBid("reaccept", p) EXCEPT !.ev = e] BY <1>3, <1>9
    <2>2. k.at = "reaccept" /\ k.prop = p /\ k.ev = e BY <2>1 DEF OnBid, Idle
    <2>3. PaidCharges(j)' = PaidCharges(j)
      BY <1>2 DEF PaidCharges, ChargesOf, Live, EventJob
    <2> QED BY <1>6, <2>2, <2>3 DEF SlotKnows, UnpaidLabels, MetaLabels
  <1> QED BY <1>4, <1>6, <1>7, <1>8, <1>9 DEF AcceptReadJob

(* A request that goes on with an unpaid charge row does not pay it. *)
LEMMA UnpaidKnows ==
  ASSUME Sound, SlotsKnow, NEW c \in Calls,
         \/ AcceptProbe(c) \/ CreatePiAnswer(c) \/ CreatePiThrow(c) \/ CancelPi(c) \/ FailCheck(c)
         \/ FailPe(c) \/ FailWrite(c) \/ AttachPi(c),
         NEW k, k = call'[c]
  PROVE  SlotKnows(k)'
  <1>1. SlotsTyped BY DEF Sound, Inv, SlotsGood
  <1>2. PICK e \in Events : e = call[c].ev
    BY OnEvent DEF AcceptProbe, CreatePiAnswer, CreatePiThrow, CancelPi, FailCheck, FailPe,
                   FailWrite, AttachPi, At, EvLabels, Sound, Inv
  <1>3. pe[e].st # "SUCCEEDED"
    BY <1>2 DEF AcceptProbe, CreatePiAnswer, CreatePiThrow, CancelPi, FailCheck, FailPe,
                FailWrite, AttachPi, At, SlotsKnow, SlotKnows, UnpaidLabels, MetaLabels
  <1>4. pe \in [Events -> ChargeRow] BY DEF Sound, Inv, RowsGood, RowsTyped
  <1>13. k.at \in MetaLabels => MetaKnown(k)' BY MetaStays DEF Step
  <1>5. ASSUME NEW l \in UnpaidLabels, Goto(c, l), pe'[e].st # "SUCCEEDED" PROVE SlotKnows(k)'
    <2>1. k.at = l /\ k.ev = e BY <1>1, <1>2, <1>5, GotoFields
    <2> QED BY <1>5, <1>13, <2>1, KnowsUnpaid
  <1>6. ASSUME NEW t, Begin(c, OnCharge("lockRead", e, t)) PROVE SlotKnows(k)'
    BY <1>1, <1>6, BeginFields, NewFields, KnowsNothing DEF IdleKnown
  <1>7. CASE AcceptProbe(c)
    <2>1. pe' = pe BY <1>7 DEF AcceptProbe, db
    <2>2. Leave(c) \/ Goto(c, "cancelPi") \/ Begin(c, OnCharge("lockRead", e, "idle"))
      BY <1>2, <1>7 DEF AcceptProbe
    <2> QED BY <1>1, <1>3, <1>5, <1>6, <2>1, <2>2, LeaveKnows DEF UnpaidLabels, MetaLabels
  <1>8. CASE CreatePiAnswer(c)
    <2>1. k.at = "attachPi" /\ k.ev = e
      BY <1>1, <1>2, <1>8 DEF CreatePiAnswer, SlotsTyped, Slot
    <2>2. pe' = pe BY <1>8 DEF CreatePiAnswer, db
    <2> QED BY <1>3, <1>13, <2>1, <2>2, KnowsUnpaid DEF UnpaidLabels, MetaLabels
  <1>9. CASE CreatePiThrow(c) \/ CancelPi(c)
    <2>1. pe' = pe /\ (Goto(c, "failPe") \/ Goto(c, "unwind"))
      BY <1>9 DEF CreatePiThrow, CancelPi, db
    <2> QED BY <1>3, <1>5, <2>1 DEF UnpaidLabels, MetaLabels
  <1>10. CASE FailCheck(c)
    <2>1. /\ pe' = pe
          /\ Goto(c, "cancelPi") \/ Goto(c, "unwind") \/ Goto(c, "recordFailed")
      BY <1>10 DEF FailCheck, db
    <2>2. CASE Goto(c, "recordFailed")
      BY <1>1, <2>2, GotoFields, KnowsNothing DEF IdleKnown
    <2> QED BY <1>3, <1>5, <2>1, <2>2 DEF UnpaidLabels, MetaLabels
  <1>11. CASE FailPe(c) \/ FailWrite(c)
    <2>1. \/ Leave(c)
          \/ /\ pe'[e].st = "FAILED"
             /\ Goto(c, "unwind") \/ Goto(c, "failCheck")
      <3>1. CASE FailPe(c)
        <4>1. PICK m : m = call[c].meta OBVIOUS
        <4>2. \/ Leave(c)
              \/ /\ pe' = [pe EXCEPT ![e].st = "FAILED", ![e].prop = m.prop, ![e].asg = m.asg,
                                     ![e].expired = m.expired]
                 /\ Goto(c, "unwind")
          BY <1>2, <3>1, <4>1, Zenon DEF FailPe
        <4> QED BY <1>4, <4>2 DEF ChargeRow
      <3>2. CASE FailWrite(c)
        <4>1. \/ Leave(c)
              \/ pe' = [pe EXCEPT ![e].st = "FAILED"] /\ Goto(c, "failCheck")
          BY <1>2, <3>2 DEF FailWrite
        <4> QED BY <1>4, <4>1 DEF ChargeRow
      <3> QED BY <1>11, <3>1, <3>2
    <2> QED BY <1>1, <1>5, <2>1, LeaveKnows DEF UnpaidLabels, MetaLabels
  <1>12. CASE AttachPi(c)
    <2>1. Leave(c) \/ Begin(c, OnCharge("lockRead", e, "idle"))
      BY <1>2, <1>12 DEF AttachPi
    <2> QED BY <1>1, <1>6, <2>1, LeaveKnows
  <1> QED BY <1>7, <1>8, <1>9, <1>10, <1>11, <1>12

LEMMA ReserveKnows ==
  ASSUME Sound, SlotsKnow, NEW c \in Calls, Reserve(c) \/ Reaccept(c), NEW k, k = call'[c]
  PROVE  SlotKnows(k)'
  <1>1. SlotsTyped BY DEF Sound, Inv, SlotsGood
  <1>2. CASE Leave(c) BY <1>1, <1>2, LeaveKnows
  <1>3. ASSUME NEW e \in Events, pe'[e].st = "PENDING", BeginsCreate(c, e)
        PROVE  SlotKnows(k)'
    <2>1. PICK m : Begin(c, [OnCharge("createPi", e, "idle") EXCEPT !.meta = m])
      BY <1>3 DEF BeginsCreate
    <2>2. k = [OnCharge("createPi", e, "idle") EXCEPT !.meta = m] BY <1>1, <2>1, BeginFields
    <2>3. k.at = "createPi" /\ k.ev = e BY <2>2 DEF OnCharge, Idle
    <2>4. k.at \in MetaLabels => MetaKnown(k)' BY MetaStays DEF Step
    <2> QED BY <1>3, <2>3, <2>4, KnowsUnpaid DEF UnpaidLabels, MetaLabels
  <1>4. ASSUME NEW e, Begin(c, OnCharge("lockRead", e, "idle")) PROVE SlotKnows(k)'
    BY <1>1, <1>4, BeginFields, NewFields, KnowsNothing DEF IdleKnown
  <1> QED BY <1>2, <1>3, <1>4, ReserveWrites, ReacceptWrites DEF Sound, Reserved

(* Only a firm award, which is paid, gets a trip. *)
LEMMA EnsureTripKnows ==
  ASSUME Sound, NEW c \in Calls, EnsureTrip(c), NEW k, k = call'[c]
  PROVE  SlotKnows(k)'
  <1>1. SlotsTyped BY DEF Sound, Inv, SlotsGood
  <1>2. PICK e \in Events : e = call[c].ev /\ EventJob(e) \in Jobs
    BY OnEvent, PaidEvent DEF EnsureTrip, At, EvLabels, PaidLabels, Sound, Inv, RowsGood
  <1>3. PICK j \in Jobs : j = EventJob(e) BY <1>2
  <1>4. CASE Resume(c) BY <1>1, <1>4, LeaveKnows
  <1>5. ASSUME NEW l \in {"createTrip", "reviveTrip"}, NEW r, asg[j].status = "LOCKED",
               call' = [call EXCEPT ![c].at = l, ![c].row = r]
        PROVE  SlotKnows(k)'
    <2>1. k.at = l /\ k.ev = e BY <1>1, <1>2, <1>5 DEF SlotsTyped, Slot
    <2>2. Paid(j) BY <1>5 DEF Sound, SerialRows, Account, LockedIsAccounted, Paid
    <2>3. Paid(j)' /\ EventJob(e)' = j
      BY <1>3, <2>2 DEF Paid, PaidCharges, ChargesOf, Live, EventJob, EnsureTrip, db
    <2> QED BY <1>5, <2>1, <2>3 DEF SlotKnows, UnpaidLabels, MetaLabels
  <1> QED BY <1>2, <1>3, <1>4, <1>5 DEF EnsureTrip

LEMMA ReleaseKnows ==
  ASSUME Sound, NEW c \in Calls, Release(c), NEW k, k = call'[c]
  PROVE  SlotKnows(k)'
  <1>1. SlotsTyped BY DEF Sound, Inv, SlotsGood
  <1>2. CASE Leave(c) BY <1>1, <1>2, LeaveKnows
  <1>3. CASE LetGo(call[c].job, call[c].row) /\ call[c].row # 0 /\ Goto(c, "adjust")
    <2>1. PICK j : j = call[c].job OBVIOUS
    <2>2. k.at = "adjust" /\ k.job = j BY <1>1, <1>3, <2>1, GotoFields
    <2>3. asg'[j].status # "LOCKED" BY <1>3, <2>1 DEF LetGo
    <2> QED BY <2>2, <2>3 DEF SlotKnows, UnpaidLabels, MetaLabels
  <1> QED BY <1>2, <1>3, ReleaseWrites DEF Sound

LEMMA StepKnows ==
  ASSUME Sound, SlotsKnow, NEW c \in Calls, Step(c) \/ Crash(c), NEW k, k = call'[c]
  PROVE  SlotKnows(k)'
  <1>1. SlotsTyped BY DEF Sound, Inv, SlotsGood
  <1>2. ASSUME Leave(c) \/ Resume(c) PROVE SlotKnows(k)' BY <1>1, <1>2, LeaveKnows
  <1>3. CASE SubmitCreate(c) \/ WithdrawWrite(c) \/ Record(c) \/ SyncWrite(c) \/ CancelJob(c)
             \/ Adjust(c) \/ Unwind(c) \/ WriteTrip(c) \/ Crash(c)
    <2>1. SubmitCreate(c) \/ WithdrawWrite(c) \/ Record(c) \/ SyncWrite(c) \/ CancelJob(c)
            \/ Adjust(c) \/ Crash(c) => Leave(c)
      BY DEF SubmitCreate, WithdrawWrite, Record, SyncWrite, CancelJob, Adjust, Crash
    <2>2. Unwind(c) => Leave(c) \/ Resume(c) BY SMT DEF Unwind
    <2>3. WriteTrip(c) => Leave(c) \/ Resume(c) BY SMT DEF WriteTrip
    <2> QED BY <1>2, <1>3, <2>1, <2>2, <2>3
  <1>4. CASE LockRead(c) \/ Lock(c)
    <2>1. \/ Leave(c) \/ Resume(c) \/ Goto(c, "ensureTrip")
          \/ call' = [call EXCEPT ![c].at = "lock", ![c].row = pe[call[c].ev].asg]
      BY <1>4 DEF LockRead, Lock
    <2>2. CASE Goto(c, "ensureTrip") BY <1>1, <2>2, GotoFields, KnowsNothing DEF IdleKnown
    <2>3. CASE call' = [call EXCEPT ![c].at = "lock", ![c].row = pe[call[c].ev].asg]
      <3>1. k.at = "lock" BY <1>1, <2>3 DEF SlotsTyped, Slot
      <3> QED BY <3>1, KnowsNothing DEF IdleKnown
    <2> QED BY <1>2, <2>1, <2>2, <2>3
  <1> QED BY <1>3, <1>4, AcceptJobKnows, UnpaidKnows, ReserveKnows, EnsureTripKnows, ReleaseKnows
          DEF Step

-----------------------------------------------------------------------------
LEMMA TripMoveKnows ==
  ASSUME Sound, SlotsKnow, UNCHANGED <<pe, call, proposal>>,
         \A j \in Jobs : \/ asg'[j] = asg[j]
                         \/ asg[j].status # "NONE" /\ asg'[j].status = "COMPLETED"
  PROVE  SlotsKnow'
  <1>1. ASSUME NEW c \in Calls PROVE SlotKnows(call[c])'
    <2>1. PICK k : k = call[c] OBVIOUS
    <2>2. SlotKnows(k) /\ SlotTyped(k) BY <2>1 DEF SlotsKnow, Sound, Inv, SlotsGood, SlotGood
    <2>3. \A j : Paid(j)' <=> Paid(j)
      BY DEF Paid, PaidCharges, ChargesOf, Live, EventJob
    <2>4. k.at = "reserve" => asg'[JobOf[k.prop]].status = "NONE"
      BY <2>2, AwardConstants DEF SlotKnows, SlotTyped, PropLabels
    <2>5. k.at \in {"adjust", "cancelJob"} => asg'[k.job].status # "LOCKED"
      BY <2>2 DEF SlotKnows, SlotTyped, JobLabels
    <2>6. \A j : PaidCharges(j)' = PaidCharges(j)
      BY DEF PaidCharges, ChargesOf, Live, EventJob
    <2>7. MetaKnown(k) => MetaKnown(k)' BY DEF MetaKnown, Live
    <2>8. SlotKnows(k)' BY <2>2, <2>3, <2>4, <2>5, <2>6, <2>7 DEF SlotKnows, EventJob
    <2> QED BY <2>1, <2>8 DEF SlotKnows, MetaKnown
  <1> QED BY <1>1 DEF SlotsKnow

SerialAward == SerialRows /\ SlotsKnow

LEMMA SerialStays ==
  ASSUME Inv, RowIds, SerialAward, Alone, Alone', [Next]_vars
  PROVE  SerialAward'
  <1>1. Sound /\ SlotsKnow BY DEF Sound, SerialAward
  <1>2. ASSUME NEW c \in Calls, Step(c) PROVE SerialAward'
    <2>1. SerialRows' BY <1>1, <1>2, StepAccounts
    <2>2. PICK k : k = call'[c] OBVIOUS
    <2>3. SlotKnows(k)' BY <1>1, <1>2, <2>2, StepKnows
    <2>4. ~Free(c)
      BY <1>2 DEF Step, SubmitCreate, WithdrawWrite, AcceptProbe, AcceptReadJob, Reserve, Reaccept,
         CreatePiAnswer, CreatePiThrow, FailPe, AttachPi, CancelPi, Unwind, LockRead, Lock,
         EnsureTrip, WriteTrip, FailWrite, FailCheck, Record, SyncWrite, CancelJob, Release,
         Adjust, At, Free
    <2>5. \A d \in Calls \ {c} : call'[d].at = "idle"
      BY <1>2, <2>4, WhoSteps DEF Alone, Free
    <2> QED BY <2>1, <2>2, <2>3, <2>5, OneSlotKnows DEF SerialAward
  <1>3. ASSUME NEW c \in Calls, Arrive(c) PROVE SerialAward'
    <2>1. UNCHANGED <<job, proposal, asg, trip, lines, exc, pe>>
      BY <1>3 DEF Arrive, SubmitRead, WithdrawRead, AcceptRead, HookSucceeded, HookFailed,
         SyncRead, CancelRead, ReleaseRead, db
    <2>2. SerialRows' BY <1>1, <2>1, SameAccounts DEF BidsKept
    <2>3. PICK k : k = call'[c] OBVIOUS
    <2>4. SlotKnows(k)' BY <1>1, <1>3, <2>3, ArriveKnows
    <2>5. k.at # "idle" BY <1>3, <2>3, WhoArrives
    <2>6. \A d \in Calls \ {c} : call'[d].at = "idle" BY <2>3, <2>5 DEF Alone, Free
    <2> QED BY <2>2, <2>3, <2>4, <2>6, OneSlotKnows DEF SerialAward
  <1>4. ASSUME NEW c \in Calls, Crash(c) PROVE SerialAward'
    <2>1. UNCHANGED <<job, proposal, asg, trip, lines, exc, pe>> BY <1>4 DEF Crash, db
    <2>2. SerialRows' BY <1>1, <2>1, SameAccounts DEF BidsKept
    <2>3. PICK k : k = call'[c] OBVIOUS
    <2>4. SlotKnows(k)' BY <1>1, <1>4, <2>3, StepKnows
    <2>5. \A d \in Calls \ {c} : call'[d].at = "idle"
      BY <1>4, WhoSteps DEF Alone, Free, Crash
    <2> QED BY <2>2, <2>3, <2>4, <2>5, OneSlotKnows DEF SerialAward
  <1>5. ASSUME NEW j \in Jobs, StartTrip(j) \/ CompleteTrip(j) \/ OpenException(j)
        PROVE  SerialAward'
    <2>1. SerialRows' BY <1>1, <1>5, TripMoveAccounts
    <2>2. /\ UNCHANGED <<pe, call, proposal>>
          /\ \A i \in Jobs : \/ asg'[i] = asg[i]
                             \/ asg[i].status # "NONE" /\ asg'[i].status = "COMPLETED"
      <3>1. CASE StartTrip(j) \/ OpenException(j) BY <3>1 DEF StartTrip, OpenException
      <3>2. CASE CompleteTrip(j)
        <4>1. asg[j].status # "NONE"
          BY <3>2, CompleteWrites DEF RowIds, AsgIds
        <4> QED BY <3>2, <4>1, CompleteWrites DEF OthersKept
      <3> QED BY <1>5, <3>1, <3>2
    <2> QED BY <1>1, <2>1, <2>2, TripMoveKnows DEF SerialAward
  <1>6. ASSUME UNCHANGED <<job, proposal, asg, trip, lines, exc, pe, call>> PROVE SerialAward'
    <2>1. SerialRows' BY <1>1, <1>6, SameAccounts DEF BidsKept
    <2> QED BY <1>1, <1>6, <2>1, TripMoveKnows DEF SerialAward
  <1>7. ASSUME NEW e \in Events, Settle(e) \/ Age(e)
        PROVE  UNCHANGED <<job, proposal, asg, trip, lines, exc, pe, call>>
    BY <1>7 DEF Settle, Age, db
  <1>8. UNCHANGED vars => UNCHANGED <<job, proposal, asg, trip, lines, exc, pe, call>>
    BY DEF vars
  <1> QED BY <1>2, <1>3, <1>4, <1>5, <1>6, <1>7, <1>8 DEF Next, Trips, External

LEMMA InitSerial == Init => SerialAward
  <1>1. SUFFICES ASSUME Init PROVE SerialAward OBVIOUS
  <1>2. SlotsKnow BY <1>1 DEF Init, OpenForBids, SlotsKnow, SlotKnows, Idle, UnpaidLabels, MetaLabels
  <1>3. ASSUME NEW j \in Jobs PROVE Account(j)
    <2>1. ChargesOf(j) = {} BY <1>1 DEF Init, OpenForBids, ChargesOf, Live, NoEvent
    <2>2. AwardOfBid(j) /\ AwardHoldsBid(j) /\ LockedIsAccounted(j) /\ ~Moved(j)
      BY <1>1 DEF Init, OpenForBids, NoAsg, AwardOfBid, AwardHoldsBid, LockedIsAccounted, Moved
    <2>3. \A p \in Proposals : proposal[p] # "ACCEPTED" BY <1>1 DEF Init, OpenForBids
    <2> QED BY <2>1, <2>2, <2>3 DEF Account
  <1> QED BY <1>2, <1>3 DEF SerialAward, SerialRows

LEMMA AlwaysSerial == Spec /\ []Alone => []SerialAward
  <1>1. Inv /\ RowIds /\ [Next]_vars => RowIds' BY NextRows
  <1>2. Inv /\ RowIds /\ SerialAward /\ Alone /\ Alone' /\ [Next]_vars => SerialAward'
    BY SerialStays
  <1> QED BY <1>1, <1>2, AlwaysInv, InitRowIds, InitSerial, PTL DEF Spec

(* While requests do not overlap, and whatever Stripe, the driver and      *)
(* crashes do between their steps, a reservation stands on an accepted bid *)
(* and a firm award on a succeeded charge row and live settlement lines,   *)
(* also after a release and another award (markPaidAndLock,                *)
(* acceptWithPriorCharge, adjustForMarketplaceRelease).                    *)
THEOREM AwardsStandAlone == Spec /\ []Alone => []AwardStands
  <1>1. SerialAward => AwardStands BY DEF SerialAward, SerialRows, Account, AwardStands
  <1> QED BY <1>1, AlwaysSerial, PTL

(* While requests do not overlap, and whatever Stripe, the driver and      *)
(* crashes do between their steps, a reservation is never left without the *)
(* charge row that names it, also after a release and another award, when  *)
(* the job has its old charge row still (unwindFailedAccept,               *)
(* acceptWithPriorCharge).                                                 *)
THEOREM RecoverableAlone == Spec /\ []Alone => []ReservationRecoverable
  <1>1. SerialAward => ReservationRecoverable
    BY DEF SerialAward, SerialRows, Account, AwardOfBid, NamesAward, ReservationRecoverable
  <1> QED BY <1>1, AlwaysSerial, PTL

(* While requests do not overlap, a job that unwinding re-opened has no    *)
(* accepted bid (unwindFailedAccept), also after a release.                *)
THEOREM BidsOpenAlone == Spec /\ []Alone => []OpenJobBidsOpen
  <1>1. SerialAward => OpenJobBidsOpen
    BY DEF SerialAward, SerialRows, Account, BidAwarded, OpenJobBidsOpen
  <1> QED BY <1>1, AlwaysSerial, PTL

-----------------------------------------------------------------------------
(* However requests overlap, until an exception is opened.  An award is    *)
(* never released then: a job is open for bids only while it has no        *)
(* assignment, and no accept finds a paid charge row to use again.         *)
OpenAccount(j) ==
    /\ \A e \in ChargesOf(j) : NamesAward(e, j)
    /\ job[j] = "BIDDING" => asg[j].status = "NONE"
    /\ \A p \in Proposals : JobOf[p] = j /\ proposal[p] = "ACCEPTED"
                              => asg[j].status # "NONE" /\ asg[j].prop = p
OpenSlots == \A c \in Calls : /\ call[c].at = "reserve" => call[c].row = 0
                              /\ call[c].at \in MetaLabels => MetaKnown(call[c])
                              /\ call[c].at \notin {"reaccept", "release", "adjust"}
OpenAward == (\A j \in Jobs : OpenAccount(j)) /\ OpenSlots
OpenSound == Inv /\ RowIds /\ OpenAward

LEMMA OpenKept ==
  ASSUME NEW j \in Jobs, OpenAccount(j), ChargesKept(j),
         asg'[j].id = asg[j].id, asg'[j].prop = asg[j].prop,
         asg[j].status # "NONE" => asg'[j].status # "NONE",
         job'[j] = "BIDDING" => job[j] = "BIDDING" /\ asg'[j].status = asg[j].status,
         \A q \in Proposals : proposal'[q] = "ACCEPTED" => proposal[q] = "ACCEPTED"
  PROVE  OpenAccount(j)'
  <1>1. ASSUME NEW e \in Events, e \in ChargesOf(j)' PROVE NamesAward(e, j)'
    <2>1. e \in ChargesOf(j) /\ SameCharge(e) BY <1>1 DEF ChargesKept
    <2> QED BY <2>1 DEF OpenAccount, NamesAward, SameCharge
  <1>2. \A e \in ChargesOf(j)' : e \in Events BY DEF ChargesOf
  <1> QED BY <1>1, <1>2 DEF OpenAccount

(* The jobs that a step on job j leaves alone. *)
LEMMA OpenElsewhere ==
  ASSUME NEW j \in Jobs, NEW i \in Jobs \ {j}, OpenAccount(i),
         job'[i] = job[i], asg'[i] = asg[i],
         NEW e \in Events, EventJob(e) = j \/ ~Live(e), Live(e)' => EventJob(e)' = j,
         \A f \in Events \ {e} : pe'[f] = pe[f],
         \A q \in Proposals : JobOf[q] = i /\ proposal'[q] = "ACCEPTED"
                                => proposal[q] = "ACCEPTED"
  PROVE  OpenAccount(i)'
  <1>1. ASSUME NEW f \in Events, f \in ChargesOf(i)' PROVE NamesAward(f, i)'
    <2>1. f # e BY <1>1 DEF ChargesOf
    <2>2. f \in ChargesOf(i) BY <1>1, <2>1 DEF ChargesOf, Live, EventJob
    <2> QED BY <2>1, <2>2 DEF OpenAccount, NamesAward
  <1>2. \A f \in ChargesOf(i)' : f \in Events BY DEF ChargesOf
  <1> QED BY <1>1, <1>2 DEF OpenAccount

LEMMA OpenCharge ==
  ASSUME OpenSound, NEW e \in Events, Live(e), NEW j \in Jobs, j = EventJob(e)
  PROVE  /\ NamesAward(e, j) /\ \A f \in ChargesOf(j) : f = e
         /\ asg[j].id = e /\ asg[j].status # "NONE"
  <1>1. e \in ChargesOf(j) BY DEF ChargesOf
  <1>2. \A f \in ChargesOf(j) : NamesAward(f, j) BY DEF OpenSound, OpenAward, OpenAccount
  <1>3. e # 0 BY AwardConstants DEF Events
  <1> QED BY <1>1, <1>2, <1>3 DEF NamesAward, OpenSound, RowIds, AsgIds

LEMMA ReserveOpen ==
  ASSUME OpenSound, NEW p \in Proposals, NEW e \in Events, Reserved(p, 0, e)
  PROVE  \A j \in Jobs : OpenAccount(j)'
  <1>1. PICK j \in Jobs : j = JobOf[p] BY AwardConstants
  <1>2. RowsTyped BY DEF OpenSound, Inv, RowsGood
  <1>3. AwardTo(p, e) /\ asg[j].id = 0 BY <1>1 DEF Reserved
  <1>4. asg[j].status = "NONE" BY <1>3 DEF OpenSound, RowIds, AsgIds
  <1>5. ChargesOf(j) = {}
    <2>1. \A f \in ChargesOf(j) : f = 0
      BY <1>3 DEF OpenSound, OpenAward, OpenAccount, NamesAward
    <2> QED BY <2>1, AwardConstants DEF ChargesOf, Events
  <1>6. /\ job'[j] = "ASSIGNED" /\ asg'[j] = [id |-> e, status |-> "PENDING", prop |-> p]
        /\ \A i \in Jobs \ {j} : job'[i] = job[i] /\ asg'[i] = asg[i]
        /\ \A q \in Proposals \ {p} : proposal'[q] = "ACCEPTED" => proposal[q] = "ACCEPTED"
    BY <1>1, <1>2, <1>3, AwardWrites
  <1>7. /\ pe'[e].key = p /\ pe'[e].prop = p /\ pe'[e].asg = e
        /\ ~Live(e) /\ \A f \in Events \ {e} : pe'[f] = pe[f]
    BY DEF Reserved, Live
  <1>8. OpenAccount(j)'
    <2>1. ChargesOf(j)' \subseteq {e} BY <1>5, <1>7 DEF ChargesOf, Live, EventJob
    <2>2. NamesAward(e, j)' BY <1>1, <1>6, <1>7 DEF NamesAward
    <2>3. \A q \in Proposals : JobOf[q] = j /\ proposal'[q] = "ACCEPTED" => q = p
      BY <1>4, <1>6 DEF OpenSound, OpenAward, OpenAccount
    <2> QED BY <1>6, <2>1, <2>2, <2>3 DEF OpenAccount
  <1>9. ASSUME NEW i \in Jobs \ {j} PROVE OpenAccount(i)'
    <2>1. Live(e)' => EventJob(e)' = j BY <1>1, <1>7 DEF EventJob
    <2>2. \A q \in Proposals : JobOf[q] = i /\ proposal'[q] = "ACCEPTED"
                                 => proposal[q] = "ACCEPTED"
      BY <1>1, <1>6, <1>9
    <2>3. OpenAccount(i) BY DEF OpenSound, OpenAward
    <2> QED BY <1>6, <1>7, <1>9, <2>1, <2>2, <2>3, OpenElsewhere
  <1> QED BY <1>8, <1>9

LEMMA UnwindOpen ==
  ASSUME OpenSound, NEW e \in Events, NEW j \in Jobs, NEW m, Unwound(e, j, m),
         m.prop = pe[e].prop, m.asg = pe[e].asg
  PROVE  \A i \in Jobs : OpenAccount(i)'
  <1>1. Live(e) /\ j = EventJob(e) BY DEF Unwound
  <1>2. /\ NamesAward(e, j) /\ (\A f \in ChargesOf(j) : f = e)
        /\ asg[j].id = e /\ asg[j].status # "NONE"
    BY <1>1, OpenCharge
  <1>3. OpenAccount(j) BY DEF OpenSound, OpenAward
  <1>4. /\ \A f \in Events \ {e} : pe'[f] = pe[f]
        /\ pe'[e].key = pe[e].key /\ ~Live(e)' /\ OthersKept(j)
    BY DEF Unwound
  <1>5. \A q \in Proposals : proposal'[q] = "ACCEPTED" =>
                             proposal[q] = "ACCEPTED" /\ q # pe[e].prop
    BY DEF Unwound
  <1>6. OpenAccount(j)'
    <2>1. ChargesOf(j)' = {} BY <1>2, <1>4 DEF ChargesOf, Live, EventJob
    <2>2. \A q \in Proposals : JobOf[q] = j => proposal'[q] # "ACCEPTED"
      BY <1>2, <1>3, <1>5 DEF OpenAccount, NamesAward
    <2>3. job'[j] = "BIDDING" => asg'[j].status = "NONE"
      BY <1>2, <1>3 DEF Unwound, OpenAccount
    <2> QED BY <2>1, <2>2, <2>3 DEF OpenAccount
  <1>7. ASSUME NEW i \in Jobs \ {j} PROVE OpenAccount(i)'
    <2>1. OpenAccount(i) BY DEF OpenSound, OpenAward
    <2> QED BY <1>1, <1>4, <1>5, <2>1, OpenElsewhere DEF OthersKept
  <1> QED BY <1>6, <1>7

LEMMA LockOpen ==
  ASSUME OpenSound, NEW e \in Events, NEW j \in Jobs, Locked(e, j)
  PROVE  \A i \in Jobs : OpenAccount(i)'
  <1>1. /\ j = EventJob(e) /\ SameCharge(e) /\ (\A f \in Events \ {e} : pe'[f] = pe[f])
        /\ asg'[j].id = asg[j].id /\ asg'[j].prop = asg[j].prop /\ asg'[j].status = "LOCKED"
        /\ job'[j] = "ASSIGNED" /\ UNCHANGED proposal /\ OthersKept(j)
    BY DEF Locked
  <1>2. \A i \in Jobs : OpenAccount(i) BY DEF OpenSound, OpenAward
  <1>3. ChargesKept(j) BY <1>1 DEF ChargesKept, ChargesOf, SameCharge, Live, EventJob
  <1>4. OpenAccount(j)' BY <1>1, <1>2, <1>3, OpenKept
  <1>5. ASSUME NEW i \in Jobs \ {j} PROVE OpenAccount(i)'
    BY <1>1, <1>2, <1>5, OpenElsewhere DEF OthersKept, SameCharge, EventJob
  <1> QED BY <1>4, <1>5

(* A step that keeps the charge rows and takes no award back. *)
LEMMA AwardsStayOpen ==
  ASSUME OpenSound, \A f \in Events : SameCharge(f),
         \A i \in Jobs : /\ asg'[i].id = asg[i].id /\ asg'[i].prop = asg[i].prop
                         /\ asg[i].status # "NONE" => asg'[i].status # "NONE"
                         /\ job'[i] = "BIDDING" =>
                              job[i] = "BIDDING" /\ asg'[i].status = asg[i].status,
         \A q \in Proposals : proposal'[q] = "ACCEPTED" => proposal[q] = "ACCEPTED"
  PROVE  \A i \in Jobs : OpenAccount(i)'
  <1>1. ASSUME NEW i \in Jobs PROVE OpenAccount(i)'
    <2>1. ChargesKept(i) BY DEF ChargesKept, ChargesOf, SameCharge, EventJob
    <2>2. OpenAccount(i) BY DEF OpenSound, OpenAward
    <2> QED BY <2>1, <2>2, OpenKept
  <1> QED BY <1>1

(* A step that writes the status of a charge row keeps its bid and award.  *)
LEMMA StatusOpen ==
  ASSUME OpenSound, NEW c \in Calls, FailPe(c) \/ FailWrite(c) \/ SyncWrite(c) \/ AttachPi(c)
  PROVE  \A f \in Events : SameCharge(f)
  <1>1. PICK e \in Events : e = call[c].ev BY StatusWrites DEF OpenSound
  <1>2. FailPe(c) /\ Live(e) => call[c].meta.prop = pe[e].prop /\ call[c].meta.asg = pe[e].asg
    BY <1>1 DEF FailPe, At, OpenSound, OpenAward, OpenSlots, MetaKnown, MetaLabels
  <1> QED BY <1>1, <1>2, StatusWrites DEF OpenSound, KnownCharge, SameCharge, Live

LEMMA StepOpen ==
  ASSUME OpenSound, NEW c \in Calls, Step(c)
  PROVE  \A i \in Jobs : OpenAccount(i)'
  <1>1. ASSUME UNCHANGED <<job, proposal, asg, trip, lines, exc, pe>>
        PROVE  \A i \in Jobs : OpenAccount(i)'
    BY <1>1, AwardsStayOpen DEF SameCharge, Live
  <1>2. CASE Reserve(c)
    <2>1. PICK p \in Proposals : p = call[c].prop BY <1>2, ReserveWrites DEF OpenSound
    <2>2. call[c].row = 0 BY <1>2 DEF Reserve, OpenSound, OpenAward, OpenSlots, At
    <2>3. ASSUME NEW e \in Events, Reserved(p, 0, e) PROVE \A i \in Jobs : OpenAccount(i)'
      BY <2>3, ReserveOpen
    <2> QED BY <1>1, <1>2, <2>1, <2>2, <2>3, ReserveWrites DEF OpenSound
  <1>3. ~Reaccept(c) /\ ~Release(c) /\ ~Adjust(c)
    BY DEF Reaccept, Release, Adjust, At, OpenSound, OpenAward, OpenSlots
  <1>4. CASE Unwind(c)
    <2>1. PICK e \in Events : e = call[c].ev BY <1>4, UnwindWrites DEF OpenSound
    <2>2. PICK m : m = call[c].meta OBVIOUS
    <2>3. ASSUME NEW j \in Jobs, Unwound(e, j, m) PROVE \A i \in Jobs : OpenAccount(i)'
      <3>1. m.prop = pe[e].prop /\ m.asg = pe[e].asg
        BY <1>4, <2>1, <2>2, <2>3
           DEF Unwind, At, Unwound, OpenSound, OpenAward, OpenSlots, MetaKnown, MetaLabels
      <3> QED BY <2>3, <3>1, UnwindOpen
    <2> QED BY <1>1, <1>4, <2>1, <2>2, <2>3, UnwindWrites DEF OpenSound
  <1>5. CASE Lock(c)
    <2>1. PICK e \in Events : e = call[c].ev BY <1>5, LockWrites DEF OpenSound
    <2>2. ASSUME NEW j \in Jobs, Locked(e, j) PROVE \A i \in Jobs : OpenAccount(i)'
      BY <2>2, LockOpen
    <2> QED BY <1>1, <1>5, <2>1, <2>2, LockWrites DEF OpenSound
  <1>6. CASE SubmitCreate(c) \/ WithdrawWrite(c)
    <2>1. UNCHANGED <<job, asg, pe>> BY <1>6 DEF SubmitCreate, WithdrawWrite
    <2>2. PICK p : p = call[c].prop OBVIOUS
    <2>3. \/ proposal' = proposal
          \/ \E s \in {"SUBMITTED", "WITHDRAWN"} : proposal' = [proposal EXCEPT ![p] = s]
      BY <1>6, <2>2 DEF SubmitCreate, WithdrawWrite
    <2>4. \A q \in Proposals : proposal'[q] = "ACCEPTED" => proposal[q] = "ACCEPTED"
      BY <2>3 DEF OpenSound, Inv, RowsGood, RowsTyped
    <2> QED BY <2>1, <2>4, AwardsStayOpen DEF SameCharge, Live
  <1>7. CASE FailPe(c) \/ FailWrite(c) \/ SyncWrite(c) \/ AttachPi(c)
    BY <1>7, StatusOpen, StatusWrites, AwardsStayOpen DEF OpenSound
  <1>8. CASE CancelJob(c)
    <2>1. ASSUME NEW j \in Jobs, NEW row, LetGo(j, row), job'[j] = "CANCELLED"
          PROVE  \A i \in Jobs : OpenAccount(i)'
      BY <2>1, AwardsStayOpen DEF LetGo, OthersKept, SameCharge, Live
    <2> QED BY <1>1, <1>8, <2>1, CancelWrites DEF OpenSound
  <1>9. ASSUME AcceptProbe(c) \/ AcceptReadJob(c) \/ CreatePiAnswer(c) \/ CreatePiThrow(c)
               \/ CancelPi(c) \/ LockRead(c) \/ EnsureTrip(c) \/ FailCheck(c) \/ Record(c)
        PROVE  UNCHANGED <<job, proposal, asg, trip, lines, exc, pe>>
    BY <1>9 DEF AcceptProbe, AcceptReadJob, CreatePiAnswer, CreatePiThrow, CancelPi, LockRead,
                EnsureTrip, FailCheck, Record, db
  <1>10. CASE WriteTrip(c)
    BY <1>10, AwardsStayOpen DEF WriteTrip, SameCharge, Live
  <1> QED BY <1>1, <1>2, <1>3, <1>4, <1>5, <1>6, <1>7, <1>8, <1>9, <1>10 DEF Step

(* An accept of an open job finds no assignment, and so no charge row.     *)
LEMMA AcceptJobOpen ==
  ASSUME OpenSound, NEW c \in Calls, AcceptReadJob(c), NEW k, k = call'[c]
  PROVE  (k.at = "reserve" => k.row = 0) /\ k.at # "reaccept"
  <1>1. SlotsTyped BY DEF OpenSound, Inv, SlotsGood
  <1>2. PICK p : p = call[c].prop OBVIOUS
  <1>3. p \in Proposals
    BY <1>2 DEF AcceptReadJob, At, PropLabels, OpenSound, Inv, SlotsGood, SlotGood, SlotTyped
  <1>4. PICK j \in Jobs : j = JobOf[p] BY <1>3, AwardConstants
  <1>5. CASE Leave(c) BY <1>1, <1>5, LeaveFields
  <1>6. CASE ~Refused(p)
    <2>1. asg[j].status = "NONE" /\ asg[j].id = 0
      BY <1>4, <1>6 DEF Refused, OpenSound, OpenAward, OpenAccount, RowIds, AsgIds
    <2>2. PaidCharges(j) = {}
      <3>1. \A e \in ChargesOf(j) : e \in Events /\ Live(e) /\ j = EventJob(e)
        BY DEF ChargesOf
      <3>2. ChargesOf(j) = {} BY <2>1, <3>1, OpenCharge
      <3> QED BY <3>2 DEF PaidCharges
    <2>3. Leave(c) \/ Begin(c, [OnBid("reserve", p) EXCEPT !.row = asg[j].id])
      BY <1>2, <1>4, <2>2 DEF AcceptReadJob
    <2>4. CASE Begin(c, [OnBid("reserve", p) EXCEPT !.row = asg[j].id])
      <3>1. PICK r : r = asg[j].id OBVIOUS
      <3>2. k = [OnBid("reserve", p) EXCEPT !.row = r] BY <1>1, <2>4, <3>1, BeginFields
      <3>3. k.at = "reserve" /\ k.row = r BY <3>2 DEF OnBid, Idle
      <3> QED BY <2>1, <3>1, <3>3
    <2> QED BY <1>5, <2>3, <2>4
  <1> QED BY <1>2, <1>5, <1>6 DEF AcceptReadJob

(* A charge row that has been created keeps its bid and its assignment.    *)
MetasStay == \A f \in Events : pe[f].key # None =>
                 /\ pe'[f].key = pe[f].key
                 /\ Live(f)' => Live(f) /\ pe'[f].prop = pe[f].prop /\ pe'[f].asg = pe[f].asg

LEMMA OpenCharges ==
  ASSUME OpenSound, NEW c \in Calls, Arrive(c) \/ Step(c) \/ Crash(c)
  PROVE  MetasStay
  <1>1. UNCHANGED pe => MetasStay BY DEF MetasStay, Live
  <1>2. CASE Reserve(c)
    <2>1. ASSUME NEW p, NEW row, NEW e \in Events, Reserved(p, row, e) PROVE MetasStay
      <3>1. pe[e].key = None BY <2>1 DEF Reserved, OpenSound, Inv, RowsGood, ChargesGood
      <3> QED BY <2>1, <3>1 DEF Reserved, MetasStay, Live
    <2> QED BY <1>1, <1>2, <2>1, ReserveWrites DEF OpenSound
  <1>3. CASE Unwind(c)
    <2>1. PICK e \in Events : e = call[c].ev BY <1>3, UnwindWrites DEF OpenSound
    <2>2. ASSUME NEW j, NEW m, Unwound(e, j, m) PROVE MetasStay
      BY <2>2 DEF Unwound, MetasStay, Live
    <2> QED BY <1>1, <1>3, <2>1, <2>2, UnwindWrites DEF OpenSound
  <1>4. CASE Lock(c)
    <2>1. PICK e \in Events : e = call[c].ev BY <1>4, LockWrites DEF OpenSound
    <2>2. ASSUME NEW j, Locked(e, j) PROVE MetasStay
      BY <2>2 DEF Locked, SameCharge, MetasStay, Live
    <2> QED BY <1>1, <1>4, <2>1, <2>2, LockWrites DEF OpenSound
  <1>5. CASE FailPe(c) \/ FailWrite(c) \/ SyncWrite(c) \/ AttachPi(c)
    BY <1>5, StatusOpen DEF MetasStay, SameCharge
  <1>6. CASE CancelJob(c) BY <1>1, <1>6 DEF CancelJob
  <1>7. ~Reaccept(c) /\ ~Release(c)
    BY DEF Reaccept, Release, At, OpenSound, OpenAward, OpenSlots
  <1> QED BY <1>1, <1>2, <1>3, <1>4, <1>5, <1>6, <1>7, QuietSteps DEF Step

LEMMA OpenSlotMoves ==
  ASSUME OpenSound, NoException, NEW c \in Calls, Arrive(c) \/ Step(c) \/ Crash(c)
  PROVE  OpenSlots'
  <1>1. PICK k : k = call'[c] OBVIOUS
  <1>2. \A d \in Calls \ {c} : call'[d] = call[d] BY WhoArrives, WhoSteps DEF OpenSound
  <1>3. \A j \in Jobs : ~ReleaseRead(c, j) BY DEF ReleaseRead, NoException
  <1>4. ~Release(c) BY DEF Release, At, OpenSound, OpenAward, OpenSlots
  <1>5. (k.at = "reserve" => k.row = 0) /\ k.at \notin {"reaccept", "release", "adjust"}
    <2>1. CASE AcceptReadJob(c)
      BY <1>1, <1>4, <2>1, AcceptJobOpen, WhoSteps DEF OpenSound, MoveLabels, Step
    <2>2. CASE Arrive(c) BY <1>1, <1>3, <2>2, WhoArrives DEF OpenSound
    <2>3. CASE (Step(c) \/ Crash(c)) /\ ~AcceptReadJob(c)
      BY <1>1, <1>4, <2>3, WhoSteps DEF OpenSound, MoveLabels
    <2> QED BY <2>1, <2>2, <2>3
  <1>6. OpenSlots BY DEF OpenSound, OpenAward
  <1>7. ASSUME k.at \in MetaLabels PROVE MetaKnown(k)'
    <2>1. ASSUME call[c].at \in MetaLabels, k.ev = call[c].ev, k.meta = call[c].meta,
                 KnownCharge(k.ev, k.meta, TRUE)
          PROVE  MetaKnown(k)'
      <3>1. MetaKnown(k) BY <1>6, <2>1 DEF OpenSlots, MetaKnown
      <3> QED BY <2>1, <3>1 DEF MetaKnown, KnownCharge
    <2> QED BY <1>1, <1>7, <2>1, MetaMoves DEF OpenSound
  <1>8. ASSUME NEW d \in Calls \ {c}, call[d].at \in MetaLabels PROVE MetaKnown(call[d])'
    <2>1. PICK n : n = call[d] OBVIOUS
    <2>2. n.ev \in Events /\ MetaKnown(n)
      BY <1>6, <1>8, <2>1, OnEvent DEF MetaLabels, EvLabels, OpenSound, Inv, OpenSlots
    <2>3. MetaKnown(n)' BY <2>2, OpenCharges DEF MetaKnown, MetasStay
    <2> QED BY <1>2, <2>1, <2>3 DEF MetaKnown
  <1> QED BY <1>1, <1>2, <1>5, <1>6, <1>7, <1>8 DEF OpenSlots, MetaKnown

LEMMA OpenAwardStays ==
  ASSUME Inv, RowIds, OpenAward, NoException, NoException', [Next]_vars
  PROVE  OpenAward'
  <1>1. OpenSound BY DEF OpenSound
  <1>2. ASSUME UNCHANGED <<job, proposal, asg, trip, lines, exc, pe>>
        PROVE  \A i \in Jobs : OpenAccount(i)'
    BY <1>1, <1>2, AwardsStayOpen DEF SameCharge, Live
  <1>3. ASSUME NEW c \in Calls, Step(c) PROVE OpenAward'
    BY <1>1, <1>3, StepOpen, OpenSlotMoves DEF OpenAward
  <1>4. ASSUME NEW c \in Calls, Arrive(c) \/ Crash(c) PROVE OpenAward'
    <2>1. UNCHANGED <<job, proposal, asg, trip, lines, exc, pe>>
      BY <1>4 DEF Arrive, SubmitRead, WithdrawRead, AcceptRead, HookSucceeded, HookFailed,
         SyncRead, CancelRead, ReleaseRead, Crash, db
    <2> QED BY <1>1, <1>2, <1>4, <2>1, OpenSlotMoves DEF OpenAward
  <1>5. ASSUME UNCHANGED <<pe, call>> PROVE OpenSlots'
    BY <1>5 DEF OpenAward, OpenSlots, MetaKnown, Live
  <1>6. ASSUME NEW j \in Jobs, CompleteTrip(j) PROVE OpenAward'
    <2>1. asg[j].status # "NONE" => asg'[j].status # "NONE" BY <1>6, CompleteWrites
    <2>2. \A i \in Jobs : OpenAccount(i)'
      BY <1>1, <1>6, <2>1, CompleteWrites, AwardsStayOpen DEF OthersKept, SameCharge, Live
    <2> QED BY <1>5, <1>6, <2>2, CompleteWrites DEF OpenAward
  <1>7. ASSUME NEW j \in Jobs, StartTrip(j) PROVE OpenAward'
    <2>1. /\ UNCHANGED <<proposal, asg, pe, call>>
          /\ \A i \in Jobs : job'[i] = "BIDDING" => job[i] = "BIDDING"
      BY <1>7 DEF StartTrip, Inv, RowsGood, RowsTyped
    <2>2. \A i \in Jobs : OpenAccount(i)'
      BY <1>1, <2>1, AwardsStayOpen DEF SameCharge, Live
    <2> QED BY <1>5, <2>1, <2>2 DEF OpenAward
  <1>8. ASSUME NEW j \in Jobs, OpenException(j) PROVE FALSE
    <2>1. exc'[j] = TRUE BY <1>8 DEF OpenException, Inv, RowsGood, RowsTyped
    <2> QED BY <2>1 DEF NoException
  <1>9. ASSUME NEW e \in Events, Settle(e) \/ Age(e)
        PROVE  UNCHANGED <<job, proposal, asg, trip, lines, exc, pe, call>>
    BY <1>9 DEF Settle, Age, db
  <1>10. UNCHANGED vars => UNCHANGED <<job, proposal, asg, trip, lines, exc, pe, call>>
    BY DEF vars
  <1>11. ASSUME UNCHANGED <<job, proposal, asg, trip, lines, exc, pe, call>> PROVE OpenAward'
    BY <1>2, <1>5, <1>11 DEF OpenAward
  <1> QED BY <1>3, <1>4, <1>6, <1>7, <1>8, <1>9, <1>10, <1>11 DEF Next, Trips, External

LEMMA AlwaysOpen == Spec /\ []NoException => []OpenAward
  <1>1. Init => OpenAward
    BY DEF Init, OpenForBids, OpenAward, OpenAccount, OpenSlots, ChargesOf, Live, NoAsg,
           NoEvent, Idle, MetaLabels
  <1>2. Inv /\ RowIds /\ [Next]_vars => RowIds' BY NextRows
  <1>3. Inv /\ RowIds /\ OpenAward /\ NoException /\ NoException' /\ [Next]_vars => OpenAward'
    BY OpenAwardStays
  <1> QED BY <1>1, <1>2, <1>3, AlwaysInv, InitRowIds, PTL DEF Spec

(* However requests overlap, and wherever a process dies: until an         *)
(* exception is opened, a job that unwinding re-opened has no accepted bid *)
(* (unwindFailedAccept gives the reservation's own bid back, and no other  *)
(* bid of the job is accepted).                                            *)
THEOREM BidsOpenUntilRelease == Spec /\ []NoException => []OpenJobBidsOpen
  <1>1. OpenAward => OpenJobBidsOpen BY DEF OpenAward, OpenAccount, OpenJobBidsOpen
  <1> QED BY <1>1, AlwaysOpen, PTL

(* However requests overlap, and wherever a process dies: until an         *)
(* exception is opened, a reservation is never left without the charge row *)
(* that names it, because a job gets no second row (acceptProposal refuses *)
(* an assigned job, and unwindFailedAccept drops both together).           *)
THEOREM RecoverableUntilRelease == Spec /\ []NoException => []ReservationRecoverable
  <1>1. OpenAward => SingleCharge
    BY DEF OpenAward, OpenAccount, NamesAward, SingleCharge
  <1> QED BY <1>1, AlwaysOpen, ReservationsRecoverable, PTL
=============================================================================
