------------------------ MODULE FleetComplianceProofs ------------------------
(***************************************************************************)
(* Proofs about FleetCompliance, for any fleet, any number of documents,   *)
(* cases and requests, and any run of the watchdog beside them.            *)
(*                                                                         *)
(* That a lapsed vehicle stays grounded needs more than the property says: *)
(* Grounded excludes a vehicle that waits for review, which an approval    *)
(* would activate, and one that was never added, which no certificate is   *)
(* for.  That a document under review is in an open case needs what the    *)
(* one request that runs read of its case (SlotGood).                      *)
(***************************************************************************)
EXTENDS FleetCompliance, FiniteSetTheorems, WellFoundedInduction, TLAPS

(* A certificate is for a vehicle that was added. *)
RwcAdded == \A d \in Docs : IsRwc(d) => vehicle[doc[d].vehicle] # "NONE"

(* A vehicle leaves the ground by a request that lifts suspensions only. *)
Lifted(x) == x.at \in {"reactivate", "lift"} => scope.restore
Grounded(d) == vehicle[doc[d].vehicle] \notin {"NONE", "PENDING_REVIEW", "ACTIVE"}
Exempt(d) == sweep.doc = d /\ sweep.at = "vehicle"
LapsedGround == \A d \in Docs :
                    doc[d].status = "EXPIRED" /\ IsRwc(d) /\ ~Exempt(d) => Grounded(d)
Inv == /\ TypeOK /\ RwcAdded /\ \A c \in Calls : Lifted(call[c])
       /\ ~scope.restore /\ crashes = 0 => LapsedGround

(* One request at a time. *)
Working(c) == call[c].at # "idle"
OneAtATime == \A c, d \in Calls : Working(c) /\ Working(d) => c = d
Rulings == {"approve", "reject", "info", "escalate"}
SlotGood(x) ==
    /\ x.at = "attach" /\ x.case # 0 => kase[x.case].status \in Actionable
    /\ x.at = "join" => x.case # 0 /\ kase[x.case].status \in Actionable
    /\ x.at \in Rulings => x.case # 0 /\ (x.vehicle # None => kase[x.case].type = "RWC")
SlotsGood == \A c \in Calls : SlotGood(call[c])
Listed == \A d \in Docs : doc[d].status = "UNDER_REVIEW" =>
              doc[d].case # 0 /\ kase[doc[d].case].status \in Actionable
SerialFits == OneAtATime /\ SlotsGood /\ Listed
FleetInv == Inv /\ (scope.width = 1 => SerialFits)

-----------------------------------------------------------------------------
(* Least and latest, of the documents and the cases there are. *)
LEMMA LeastExists ==
  ASSUME NEW S, S \subseteq Nat, S # {} PROVE \E x \in S : \A y \in S : x <= y
  <1> DEFINE R == {p \in Nat \X Nat : p[1] < p[2]}
  <1>1. IsWellFoundedOn(R, Nat) BY NatLessThanWellFounded DEF OpToRel
  <1> HIDE DEF R
  <1>2. PICK x \in S : \A y \in S : ~(<<y, x>> \in R) BY <1>1, WFMin
  <1>3. ASSUME NEW y \in S PROVE x <= y
    <2>1. x \in Nat /\ y \in Nat OBVIOUS
    <2>2. ~(<<y, x>> \in {p \in Nat \X Nat : p[1] < p[2]}) BY <1>2 DEF R
    <2>3. <<y, x>>[1] = y /\ <<y, x>>[2] = x /\ <<y, x>> \in Nat \X Nat BY <2>1
    <2>4. ~(y < x) BY <2>2, <2>3
    <2> QED BY <2>1, <2>4
  <1> QED BY <1>3

LEMMA LatestExists ==
  ASSUME NEW m \in Nat, NEW S, S \subseteq 0..m, S # {} PROVE \E x \in S : \A y \in S : y <= x
  <1> DEFINE T == {m - y : y \in S}
  <1>1. T \subseteq Nat /\ T # {}
    <2>1. \A y \in 0..m : m - y \in Nat OBVIOUS
    <2>2. T \subseteq Nat BY <2>1
    <2> QED BY <2>2
  <1>2. PICK t \in T : \A u \in T : t <= u BY <1>1, LeastExists
  <1>3. PICK x \in S : t = m - x BY <1>2
  <1>4. ASSUME NEW y \in S PROVE y <= x
    <2>1. m - y \in T OBVIOUS
    <2>2. m - x <= m - y BY <1>2, <1>3, <2>1
    <2>3. x \in 0..m /\ y \in 0..m OBVIOUS
    <2> QED BY <2>2, <2>3
  <1> QED BY <1>4

LEMMA Ranges == /\ Docs \subseteq Nat /\ Cases \subseteq Nat /\ 0 \notin Cases /\ 0 \notin Docs
                /\ Docs \subseteq 0..MaxDocs /\ MaxDocs \in Nat
                /\ Cases \subseteq 0..MaxCases /\ MaxCases \in Nat
  BY FleetConstants DEF Docs, Cases

LEMMA LeastCase == ASSUME NEW S, S \subseteq Cases, S # {} PROVE Least(S) \in S
  <1>1. \E x \in S : \A y \in S : x <= y BY Ranges, LeastExists
  <1> QED BY <1>1 DEF Least

LEMMA LatestCase == ASSUME NEW S, S \subseteq Cases, S # {} PROVE Latest(S) \in S
  <1>1. \E x \in S : \A y \in S : y <= x BY Ranges, LatestExists
  <1> QED BY <1>1 DEF Latest

LEMMA LatestDoc == ASSUME NEW S, S \subseteq Docs, S # {} PROVE Latest(S) \in S
  <1>1. \E x \in S : \A y \in S : y <= x BY Ranges, LatestExists
  <1> QED BY <1>1 DEF Latest

LEMMA FoundOpen ==
  /\ FleetCase \in {0} \cup Cases /\ Asked(FleetCase) \in BOOLEAN
  /\ FleetCase # 0 => kase[FleetCase].type = "RWC" /\ kase[FleetCase].status \in Actionable
  <1>1. Open("RWC") \subseteq Cases BY DEF Open
  <1>2. CASE Open("RWC") = {} BY <1>2 DEF FleetCase, Asked
  <1>3. CASE Open("RWC") # {}
    <2>1. Latest(Open("RWC")) \in Open("RWC") BY <1>1, <1>3, LatestCase
    <2> QED BY <1>1, <1>3, <2>1 DEF FleetCase, Open, Asked
  <1> QED BY <1>2, <1>3

LEMMA LeastUnopened ==
  ASSUME Unopened # {} PROVE Least(Unopened) \in Cases /\ kase[Least(Unopened)].status = "NONE"
  <1>1. Unopened \subseteq Cases BY DEF Unopened
  <1>2. Least(Unopened) \in Unopened BY <1>1, LeastCase
  <1> QED BY <1>2 DEF Unopened

LEMMA IdleTyped == /\ Idle \in Slot /\ NoDoc \in Doc /\ NoCase \in Case
                   /\ Idle.at = "idle" /\ Idle.case = 0 /\ Idle.docs = {} /\ Idle.vehicle = None
                   /\ NoDoc.status = "NONE" /\ NoDoc.vehicle = None /\ NoDoc.case = 0
                   /\ NoCase.status = "NONE" /\ Rested \in Sweep /\ Rested.at = "next"
                   /\ Rested.doc = 0
  BY DEF Idle, Slot, Labels, CompanyStatus, NoDoc, Doc, DocStatus, NoCase, Case, CaseStatus,
         Rested, Sweep

LEMMA Called == ASSUME TypeOK, NEW c \in Calls PROVE call[c] \in Slot
  BY DEF TypeOK

-----------------------------------------------------------------------------
(* A request that is received knows what it read, and changes no row.      *)
Fresh(c) == \E x \in Slot : Begins(c, x) /\ x.at # "idle" /\ SlotGood(x) /\ Lifted(x)

LEMMA ManageReads ==
  ASSUME TypeOK, NEW c \in Calls, Manages(c) PROVE Fresh(c)
  <1>1. company.status \in CompanyStatus BY DEF TypeOK, Company
  <1>2. CASE AddRead(c)
    <2> DEFINE x == [Idle EXCEPT !.at = "add", !.stand = company.status]
    <2>1. Begins(c, x) BY <1>2 DEF AddRead
    <2>2. x \in Slot /\ x.at = "add" BY <1>1, IdleTyped DEF Slot, Labels
    <2> HIDE DEF x
    <2> QED BY <2>1, <2>2 DEF Fresh, SlotGood, Lifted, Rulings
  <1>3. ASSUME NEW v \in Vehicles, NEW how \in {"disable", "retire", "delete"}, DropRead(c, v, how)
        PROVE  Fresh(c)
    <2> DEFINE x == [Idle EXCEPT !.at = how, !.vehicle = v]
    <2>1. Begins(c, x) BY <1>3 DEF DropRead
    <2>2. x \in Slot /\ x.at = how BY IdleTyped DEF Slot, Labels
    <2> HIDE DEF x
    <2> QED BY <2>1, <2>2 DEF Fresh, SlotGood, Lifted, Rulings
  <1>4. ASSUME NEW v \in Vehicles, ReactivateRead(c, v) PROVE Fresh(c)
    <2> DEFINE x == [Idle EXCEPT !.at = "reactivate", !.vehicle = v]
    <2>1. Begins(c, x) /\ scope.restore BY <1>4 DEF ReactivateRead
    <2>2. x \in Slot /\ x.at = "reactivate" BY IdleTyped DEF Slot, Labels
    <2> HIDE DEF x
    <2> QED BY <2>1, <2>2 DEF Fresh, SlotGood, Lifted, Rulings
  <1> QED BY <1>2, <1>3, <1>4 DEF Manages

LEMMA FileReads ==
  ASSUME TypeOK, NEW c \in Calls, Files(c) PROVE Fresh(c)
  <1>1. CASE ListRead(c)
    <2> DEFINE k == FleetCase
               a == Asked(FleetCase)
               x == [Idle EXCEPT !.at = "attach", !.docs = Loose(Waiting), !.case = k, !.asked = a]
    <2>1. Begins(c, x) BY <1>1 DEF ListRead
    <2>2. Loose(Waiting) \in SUBSET Docs BY DEF Loose
    <2>3. k \in {0} \cup Cases /\ a \in BOOLEAN /\ (k # 0 => kase[k].status \in Actionable)
      BY FoundOpen
    <2> HIDE DEF k, a
    <2>4. x \in Slot /\ x.at = "attach" /\ x.case = k BY <2>2, <2>3, IdleTyped DEF Slot, Labels
    <2> HIDE DEF x
    <2> QED BY <2>1, <2>3, <2>4 DEF Fresh, SlotGood, Lifted, Rulings
  <1>2. ASSUME NEW d \in Docs, ConfirmRead(c, d) PROVE Fresh(c)
    <2> DEFINE x == [Idle EXCEPT !.at = "confirm", !.docs = {d}, !.orphans = TRUE]
    <2>1. Begins(c, x) BY <1>2 DEF ConfirmRead
    <2>2. x \in Slot /\ x.at = "confirm" BY IdleTyped DEF Slot, Labels
    <2> HIDE DEF x
    <2> QED BY <2>1, <2>2 DEF Fresh, SlotGood, Lifted, Rulings
  <1> QED BY <1>1, <1>2 DEF Files

LEMMA SubmitReads ==
  ASSUME TypeOK, NEW c \in Calls, Submits(c) PROVE Fresh(c)
  <1>1. company.status \in CompanyStatus BY DEF TypeOK, Company
  <1>2. ASSUME NEW S, \A d \in S : d \in Docs,
               NEW k \in {0} \cup Cases,
               Begins(c, [Idle EXCEPT !.at = "submit", !.case = k, !.docs = S])
        PROVE  Fresh(c)
    <2> DEFINE x == [Idle EXCEPT !.at = "submit", !.case = k, !.docs = S]
    <2>1. Begins(c, x) BY <1>2
    <2>2. x \in Slot /\ x.at = "submit" BY <1>2, IdleTyped DEF Slot, Labels
    <2> HIDE DEF x
    <2> QED BY <2>1, <2>2 DEF Fresh, SlotGood, Lifted, Rulings
  <1>3. ASSUME NEW k \in {0} \cup Cases, SubmitRead(c, k) PROVE Fresh(c)
    <2>1. PICK allowed, S :
             /\ S = {Latest(Insurance(allowed))} \cup {Latest(RwcOf(v, allowed)) : v \in ActiveOnes}
             /\ \A v \in ActiveOnes : RwcOf(v, allowed) # {}
             /\ Insurance(allowed) # {}
             /\ Begins(c, [Idle EXCEPT !.at = "submit", !.case = k, !.docs = S])
      BY <1>3 DEF SubmitRead
    <2>2. Insurance(allowed) \subseteq Docs /\ \A v \in ActiveOnes : RwcOf(v, allowed) \subseteq Docs
      BY DEF Insurance, RwcOf
    <2>3. Latest(Insurance(allowed)) \in Docs BY <2>1, <2>2, LatestDoc
    <2>4. ASSUME NEW v \in ActiveOnes PROVE Latest(RwcOf(v, allowed)) \in Docs
      BY <2>1, <2>2, LatestDoc
    <2>5. \A d \in S : d \in Docs BY <2>1, <2>3, <2>4
    <2> QED BY <1>2, <2>1, <2>5
  <1>4. CASE SupplementRead(c)
    <2> DEFINE x == [Idle EXCEPT !.at = "supplement", !.docs = Insurance({"UPLOADED"}),
                                 !.stand = company.status]
    <2>1. Begins(c, x) BY <1>4 DEF SupplementRead
    <2>2. Insurance({"UPLOADED"}) \in SUBSET Docs BY DEF Insurance
    <2>3. x \in Slot /\ x.at = "supplement" BY <1>1, <2>2, IdleTyped DEF Slot, Labels
    <2> HIDE DEF x
    <2> QED BY <2>1, <2>3 DEF Fresh, SlotGood, Lifted, Rulings
  <1> QED BY <1>3, <1>4 DEF Submits

LEMMA DecideReads ==
  ASSUME TypeOK, NEW c \in Calls, Decides(c) \/ Governs(c) PROVE Fresh(c)
  <1>1. company.status \in CompanyStatus /\ company.before \in CompanyStatus \cup {"none"}
    BY DEF TypeOK, Company
  <1>2. ASSUME NEW k \in Cases, NEW how \in Rulings, NEW v \in Vehicles \cup {None},
               DecideRead(c, k, how, v)
        PROVE  Fresh(c)
    <2> DEFINE x == [Idle EXCEPT !.at = how, !.case = k, !.docs = InCase(k), !.vehicle = v,
                                 !.stand = company.status]
    <2>1. Begins(c, x) /\ (v # None => kase[k].type = "RWC") BY <1>2 DEF DecideRead
    <2>2. InCase(k) \in SUBSET Docs BY DEF InCase
    <2>3. x \in Slot /\ x.at = how /\ x.case = k /\ x.vehicle = v
      BY <1>1, <2>2, IdleTyped DEF Slot, Labels, Rulings
    <2> HIDE DEF x
    <2> QED BY <2>1, <2>3, Ranges DEF Fresh, SlotGood, Lifted, Rulings
  <1>3. CASE DisableRead(c)
    <2> DEFINE x == [Idle EXCEPT !.at = "suspend", !.stand = company.status]
    <2>1. Begins(c, x) BY <1>3 DEF DisableRead
    <2>2. x \in Slot /\ x.at = "suspend" BY <1>1, IdleTyped DEF Slot, Labels
    <2> HIDE DEF x
    <2> QED BY <2>1, <2>2 DEF Fresh, SlotGood, Lifted, Rulings
  <1>4. CASE LiftRead(c)
    <2> DEFINE st == IF company.before = "none" THEN "PENDING_REVIEW" ELSE company.before
               x == [Idle EXCEPT !.at = "lift", !.stand = st]
    <2>1. Begins(c, x) /\ scope.restore BY <1>4 DEF LiftRead
    <2>2. st \in CompanyStatus BY <1>1 DEF CompanyStatus
    <2> HIDE DEF st
    <2>3. x \in Slot /\ x.at = "lift" BY <2>2, IdleTyped DEF Slot, Labels
    <2> HIDE DEF x
    <2> QED BY <2>1, <2>3 DEF Fresh, SlotGood, Lifted, Rulings
  <1> QED BY <1>2, <1>3, <1>4 DEF Decides, Governs, Rulings

LEMMA Receiving ==
  ASSUME TypeOK, NEW c \in Calls, Receives(c)
  PROVE  Fresh(c) /\ UNCHANGED <<company, vehicle, doc, kase, sweep, unreviewed, rest>>
  <1>1. Fresh(c) BY ManageReads, FileReads, SubmitReads, DecideReads DEF Receives
  <1> QED BY <1>1 DEF Receives, Manages, Files, Submits, Decides, Governs, AddRead, DropRead,
         ReactivateRead, ConfirmRead, ListRead, SubmitRead, SupplementRead, DecideRead,
         DisableRead, LiftRead

-----------------------------------------------------------------------------
(* What every step but the watchdog's keeps: no vehicle rises from the     *)
(* ground while suspensions stand, no document becomes EXPIRED, and a      *)
(* certificate stays with a vehicle that was added.                        *)
Rising == {"NONE", "PENDING_REVIEW", "ACTIVE"}
VehicleForward ==
    /\ vehicle' \in [Vehicles -> VehicleStatus]
    /\ \A v \in Vehicles : vehicle[v] # "NONE" => vehicle'[v] # "NONE"
    /\ ~scope.restore => \A v \in Vehicles : vehicle[v] \notin Rising => vehicle'[v] \notin Rising
DocForward ==
    /\ doc' \in [Docs -> Doc]
    /\ \A d \in Docs :
          /\ IsRwc(d)' => vehicle[doc'[d].vehicle] # "NONE"
          /\ doc'[d].status = "EXPIRED" => /\ doc[d].status = "EXPIRED"
                                           /\ doc'[d].vehicle = doc[d].vehicle
CallForward == call' \in [Calls -> Slot] /\ \A c \in Calls : Lifted(call'[c])
RowsForward == /\ company' \in Company /\ kase' \in [Cases -> Case]
               /\ unreviewed' \in SUBSET Vehicles /\ lapses' \in Nat
Forward == /\ VehicleForward /\ DocForward /\ CallForward /\ RowsForward
           /\ UNCHANGED <<sweep, crashes, scope>>

LEMMA ForwardTypes == ASSUME Inv, Forward PROVE TypeOK'
  BY DEF Inv, TypeOK, Forward, VehicleForward, DocForward, CallForward, RowsForward

LEMMA ForwardAdded ==
  ASSUME TypeOK, VehicleForward, DocForward PROVE RwcAdded'
  <1> SUFFICES ASSUME NEW d \in Docs, IsRwc(d)' PROVE vehicle'[doc'[d].vehicle] # "NONE"
    BY DEF RwcAdded
  <1>1. doc'[d] \in Doc BY DEF DocForward
  <1>2. doc'[d].vehicle \in Vehicles BY <1>1 DEF IsRwc, Doc
  <1>3. vehicle[doc'[d].vehicle] # "NONE" BY DEF DocForward
  <1> QED BY <1>2, <1>3 DEF VehicleForward

LEMMA ForwardKeeps == ASSUME Inv, Forward PROVE Inv'
  <1>1. TypeOK' BY ForwardTypes
  <1>2. RwcAdded' BY ForwardAdded DEF Inv, Forward
  <1>3. \A c \in Calls : Lifted(call[c])' BY DEF Forward, CallForward, Lifted
  <1>4. ASSUME ~scope.restore, crashes = 0, NEW d \in Docs, doc'[d].status = "EXPIRED",
               IsRwc(d)', ~Exempt(d)'
        PROVE  Grounded(d)'
    <2>1. LapsedGround BY <1>4 DEF Inv
    <2>2. doc[d].status = "EXPIRED" /\ doc'[d].vehicle = doc[d].vehicle
      BY <1>4 DEF Forward, DocForward
    <2>3. IsRwc(d) /\ ~Exempt(d) BY <1>4, <2>2 DEF IsRwc, Exempt, Forward
    <2>4. Grounded(d) BY <2>1, <2>2, <2>3 DEF LapsedGround
    <2>5. doc[d].vehicle \in Vehicles
      <3>1. doc[d] \in Doc BY DEF Inv, TypeOK
      <3> QED BY <2>3, <3>1 DEF IsRwc, Doc
    <2>6. vehicle[doc[d].vehicle] \notin Rising BY <2>4 DEF Grounded, Rising
    <2>7. vehicle'[doc[d].vehicle] \notin Rising
      BY <1>4, <2>5, <2>6 DEF Forward, VehicleForward
    <2> QED BY <2>2, <2>7 DEF Grounded, Rising
  <1>5. ~scope'.restore /\ crashes' = 0 => LapsedGround' BY <1>4 DEF LapsedGround, Forward
  <1> QED BY <1>1, <1>2, <1>3, <1>5 DEF Inv

LEMMA VehicleStays == ASSUME TypeOK, UNCHANGED vehicle PROVE VehicleForward
  BY DEF TypeOK, VehicleForward

(* A decision, an upload or a filing changes a document's own columns. *)
LEMMA DocChanged ==
  ASSUME TypeOK, RwcAdded, doc' \in [Docs -> Doc],
         \A d \in Docs : /\ doc'[d].vehicle = doc[d].vehicle
                         /\ doc'[d].status = "EXPIRED" => doc[d].status = "EXPIRED"
  PROVE  DocForward
  BY DEF RwcAdded, DocForward, IsRwc

LEMMA DocStays == ASSUME TypeOK, RwcAdded, UNCHANGED doc PROVE DocForward
  <1>1. doc' \in [Docs -> Doc] BY DEF TypeOK
  <1> QED BY <1>1, DocChanged

LEMMA FiledForward ==
  ASSUME TypeOK, RwcAdded, NEW ds, NEW k \in {0} \cup Cases, doc' = Filed(ds, k)
  PROVE  DocForward
  <1> SUFFICES ASSUME NEW d \in Docs
               PROVE  /\ doc'[d] \in Doc /\ doc'[d].vehicle = doc[d].vehicle
                      /\ doc'[d].status = "EXPIRED" => doc[d].status = "EXPIRED"
    <2>1. doc' = [d \in Docs |-> doc'[d]] BY DEF Filed
    <2> QED BY <2>1, DocChanged
  <1>1. doc[d] \in Doc BY DEF TypeOK
  <1>2. doc'[d] \in {doc[d], [doc[d] EXCEPT !.case = k, !.status = "UNDER_REVIEW"]} BY DEF Filed
  <1> QED BY <1>1, <1>2 DEF Doc, DocStatus

LEMMA RuledForward ==
  ASSUME TypeOK, RwcAdded, NEW s, NEW st \in {"APPROVED", "REJECTED", "UPLOADED"},
         doc' = Ruled(s, st)
  PROVE  DocForward
  <1> SUFFICES ASSUME NEW d \in Docs
               PROVE  /\ doc'[d] \in Doc /\ doc'[d].vehicle = doc[d].vehicle
                      /\ doc'[d].status = "EXPIRED" => doc[d].status = "EXPIRED"
    <2>1. doc' = [d \in Docs |-> doc'[d]] BY DEF Ruled
    <2> QED BY <2>1, DocChanged
  <1>1. doc[d] \in Doc BY DEF TypeOK
  <1>2. doc'[d] \in {doc[d], [doc[d] EXCEPT !.status = st]} BY DEF Ruled
  <1> QED BY <1>1, <1>2 DEF Doc, DocStatus

LEMMA KaseTyped ==
  ASSUME TypeOK, NEW k, NEW st \in CaseStatus
  PROVE  /\ kase \in [Cases -> Case]
         /\ [kase EXCEPT ![k].status = st] \in [Cases -> Case]
  BY DEF TypeOK, Case

LEMMA ReopenedTyped ==
  ASSUME TypeOK, NEW k, NEW type \in {"KYB", "RWC"}
  PROVE  kase \in [Cases -> Case] /\ Reopened(k, type) \in [Cases -> Case]
  BY DEF TypeOK, Reopened, Case, CaseStatus, Actionable

LEMMA ClosedTyped ==
  ASSUME TypeOK, NEW s, NEW st \in CaseStatus PROVE Closed(s, st) \in [Cases -> Case]
  <1> DEFINE k == s.case
  <1>1. Closed(s, st) \in {kase, [kase EXCEPT ![k].status = st]} BY DEF Closed
  <1> HIDE DEF k
  <1>2. kase \in [Cases -> Case] /\ [kase EXCEPT ![k].status = st] \in [Cases -> Case]
    BY KaseTyped
  <1> QED BY <1>1, <1>2

LEMMA CompanyTyped ==
  ASSUME TypeOK, NEW st \in CompanyStatus
  PROVE  [company EXCEPT !.status = st] \in Company /\ company \in Company
  BY DEF TypeOK, Company

(* What a step leaves in the slot of c. *)
Puts(c, x) == call' = [call EXCEPT ![c] = x]
LEMMA PutForward ==
  ASSUME Inv, NEW c \in Calls, NEW x \in Slot, Puts(c, x), Lifted(x) PROVE CallForward
  <1>1. call' \in [Calls -> Slot] BY DEF Inv, TypeOK, Puts
  <1>2. ASSUME NEW d \in Calls PROVE Lifted(call'[d])
    BY DEF Inv, TypeOK, Puts
  <1> QED BY <1>1, <1>2 DEF CallForward
LEMMA EndForward == ASSUME Inv, NEW c \in Calls, Ends(c) PROVE CallForward
  <1>1. Puts(c, Idle) /\ Lifted(Idle) BY IdleTyped DEF Ends, Puts, Lifted
  <1> QED BY <1>1, IdleTyped, PutForward

LEMMA FleetForward ==
  ASSUME Inv, NEW c \in Calls,
         AddWrite(c) \/ DropWrite(c) \/ DeleteWrite(c) \/ ReactivateWrite(c) \/ WriteThrows(c)
  PROVE  Forward
  <1>1. CallForward /\ UNCHANGED <<company, kase, sweep, rest>>
    BY EndForward DEF AddWrite, DropWrite, DeleteWrite, ReactivateWrite, WriteThrows
  <1>2. TypeOK /\ RwcAdded /\ call[c] \in Slot /\ Lifted(call[c]) BY Called DEF Inv
  <1>3. SUFFICES VehicleForward /\ DocForward /\ unreviewed' \in SUBSET Vehicles
    BY <1>1, <1>2 DEF Forward, RowsForward, TypeOK, rest
  <1>4. CASE AddWrite(c)
    <2> DEFINE v == CHOOSE x \in Free : TRUE
               pending == call[c].stand = "BID_ELIGIBLE"
               st == IF pending THEN "PENDING_REVIEW" ELSE "ACTIVE"
    <2>1. v \in Vehicles /\ vehicle[v] = "NONE" BY <1>4 DEF AddWrite, Free
    <2>2. /\ vehicle' = [vehicle EXCEPT ![v] = st] /\ UNCHANGED doc
          /\ unreviewed' = IF pending THEN unreviewed \cup {v} ELSE unreviewed
      BY <1>4 DEF AddWrite
    <2>3. st \in VehicleStatus /\ st # "NONE" BY DEF VehicleStatus
    <2> HIDE DEF v, st
    <2>4. VehicleForward BY <1>2, <2>1, <2>2, <2>3 DEF TypeOK, VehicleForward, Rising
    <2>5. unreviewed' \in SUBSET Vehicles BY <1>2, <2>1, <2>2 DEF TypeOK
    <2> QED BY <1>2, <2>2, <2>4, <2>5, DocStays
  <1>5. CASE DropWrite(c)
    <2>1. PICK st \in {"SUSPENDED", "RETIRED"} :
             vehicle' = [vehicle EXCEPT ![call[c].vehicle] = st]
      BY <1>5 DEF DropWrite
    <2>2. VehicleForward BY <1>2, <2>1 DEF TypeOK, VehicleForward, VehicleStatus, Rising
    <2> QED BY <1>2, <1>5, <2>2, DocStays DEF DropWrite, TypeOK
  <1>6. CASE DeleteWrite(c)
    <2> DEFINE v == call[c].vehicle
               gone == [NoDoc EXCEPT !.status = "DELETED", !.vehicle = v]
    <2>1. Present(v) /\ vehicle' = [vehicle EXCEPT ![v] = "DELETED"] /\ UNCHANGED unreviewed
          /\ doc' = [d \in Docs |-> IF doc[d].vehicle = v THEN gone ELSE doc[d]]
      BY <1>6 DEF DeleteWrite
    <2>2. v \in Vehicles \cup {None} BY <1>2 DEF Slot
    <2>3. gone \in Doc /\ gone.vehicle = v /\ gone.status = "DELETED"
      BY <2>2, IdleTyped DEF Doc, DocStatus
    <2>4. VehicleForward BY <1>2, <2>1 DEF TypeOK, VehicleForward, VehicleStatus, Rising
    <2> HIDE DEF gone
    <2>5. ASSUME NEW d \in Docs
          PROVE  /\ doc'[d] \in Doc /\ doc'[d].vehicle = doc[d].vehicle
                 /\ doc'[d].status = "EXPIRED" => doc[d].status = "EXPIRED"
      BY <1>2, <2>1, <2>3 DEF TypeOK
    <2>6. doc' \in [Docs -> Doc] BY <2>1, <2>5
    <2>7. DocForward BY <1>2, <2>5, <2>6, DocChanged
    <2> QED BY <1>2, <2>1, <2>4, <2>7 DEF TypeOK
  <1>7. CASE ReactivateWrite(c)
    <2>1. scope.restore BY <1>2, <1>7 DEF ReactivateWrite, Lifted
    <2>2. VehicleForward
      BY <1>2, <1>7, <2>1 DEF ReactivateWrite, TypeOK, VehicleForward, VehicleStatus
    <2> QED BY <1>2, <1>7, <2>2, DocStays DEF ReactivateWrite, TypeOK
  <1>8. CASE WriteThrows(c)
    BY <1>2, <1>8, DocStays, VehicleStays DEF WriteThrows, TypeOK
  <1> QED BY <1>4, <1>5, <1>6, <1>7, <1>8

LEMMA FilingForward ==
  ASSUME Inv, NEW c \in Calls, ConfirmWrite(c) \/ AttachCase(c) \/ AttachDocs(c)
  PROVE  Forward
  <1>1. TypeOK /\ RwcAdded /\ call[c] \in Slot /\ Lifted(call[c]) BY Called DEF Inv
  <1>2. /\ UNCHANGED <<company, vehicle, sweep, unreviewed, rest>> /\ VehicleForward
    BY <1>1, VehicleStays DEF ConfirmWrite, AttachCase, AttachDocs
  <1>3. SUFFICES DocForward /\ CallForward /\ kase' \in [Cases -> Case]
    BY <1>1, <1>2 DEF Forward, RowsForward, TypeOK, rest
  <1>4. CASE ConfirmWrite(c)
    <2>1. PICK d \in call[c].docs :
             /\ doc' = IF d \in Kept THEN [doc EXCEPT ![d].status = "UPLOADED"] ELSE doc
             /\ \/ Ends(c)
                \/ call' = [call EXCEPT ![c].at = "attach", ![c].case = FleetCase,
                                       ![c].asked = Asked(FleetCase)]
      BY <1>4 DEF ConfirmWrite
    <2>2. \A x \in Docs : doc[x] \in Doc BY <1>1 DEF TypeOK
    <2>3. doc' \in [Docs -> Doc]
      <3>1. d \in Docs => [doc[d] EXCEPT !.status = "UPLOADED"] \in Doc
        BY <2>2 DEF Doc, DocStatus
      <3> QED BY <1>1, <2>1, <3>1 DEF TypeOK, Kept
    <2>4. \A x \in Docs : /\ doc'[x].vehicle = doc[x].vehicle
                          /\ doc'[x].status = "EXPIRED" => doc[x].status = "EXPIRED"
      BY <1>1, <2>1, <2>2 DEF TypeOK, Doc
    <2>5. DocForward BY <1>1, <2>3, <2>4, DocChanged
    <2>6. ASSUME call' = [call EXCEPT ![c].at = "attach", ![c].case = FleetCase,
                                     ![c].asked = Asked(FleetCase)]
          PROVE  CallForward
      <3> DEFINE k == FleetCase
                 a == Asked(FleetCase)
                 x == [call[c] EXCEPT !.at = "attach", !.case = k, !.asked = a]
      <3>1. Puts(c, x) BY <1>1, <2>6 DEF Puts, TypeOK
      <3>2. k \in {0} \cup Cases /\ a \in BOOLEAN BY FoundOpen
      <3> HIDE DEF k, a
      <3>3. x \in Slot /\ x.at = "attach" BY <1>1, <3>2 DEF Slot, Labels
      <3> HIDE DEF x
      <3>4. Lifted(x) BY <3>3 DEF Lifted
      <3> QED BY <3>1, <3>3, <3>4, PutForward
    <2>7. CallForward BY <2>1, <2>6, EndForward
    <2> QED BY <1>1, <1>4, <2>5, <2>7 DEF ConfirmWrite, TypeOK
  <1>5. CASE AttachCase(c)
    <2> DEFINE k == IF call[c].case = 0 THEN Least(Unopened) ELSE call[c].case
               x == [call[c] EXCEPT !.at = "join", !.case = k]
    <2>1. k \in Cases BY <1>1, <1>5, LeastUnopened DEF AttachCase, Slot
    <2>2. Puts(c, x) BY <1>1, <1>5 DEF AttachCase, Puts, TypeOK, Slot
    <2>3. kase' \in {kase, Reopened(k, "RWC")} /\ UNCHANGED doc BY <1>5 DEF AttachCase
    <2> HIDE DEF k
    <2>4. x \in Slot /\ x.at = "join" BY <1>1, <2>1 DEF Slot, Labels
    <2> HIDE DEF x
    <2>5. Lifted(x) BY <2>4 DEF Lifted
    <2>6. CallForward BY <2>2, <2>4, <2>5, PutForward
    <2>7. kase \in [Cases -> Case] /\ Reopened(k, "RWC") \in [Cases -> Case]
      BY <1>1, ReopenedTyped
    <2> QED BY <1>1, <2>3, <2>6, <2>7, DocStays
  <1>6. CASE AttachDocs(c)
    <2>1. \E ds : doc' = Filed(ds, call[c].case) BY <1>6 DEF AttachDocs
    <2>2. call[c].case \in {0} \cup Cases BY <1>1 DEF Slot
    <2>3. DocForward BY <1>1, <2>1, <2>2, FiledForward
    <2> QED BY <1>1, <1>6, <2>3, EndForward DEF AttachDocs, TypeOK
  <1> QED BY <1>4, <1>5, <1>6

LEMMA SubmitForward ==
  ASSUME Inv, NEW c \in Calls, SubmitWrite(c) \/ SupplementWrite(c) PROVE Forward
  <1>1. TypeOK /\ RwcAdded /\ call[c] \in Slot BY Called DEF Inv
  <1>2. CallForward /\ UNCHANGED <<vehicle, sweep, unreviewed, rest>> /\ VehicleForward
    BY <1>1, EndForward, VehicleStays DEF SubmitWrite, SupplementWrite
  <1>3. PICK k \in Cases : kase' = Reopened(k, "KYB") /\ \E ds : doc' = Filed(ds, k)
    <2>1. CASE SubmitWrite(c)
      <3> DEFINE k == IF call[c].case # 0 THEN call[c].case ELSE Least(Unopened)
      <3>1. k \in Cases BY <1>1, <2>1, LeastUnopened DEF SubmitWrite, Slot
      <3> QED BY <2>1, <3>1 DEF SubmitWrite
    <2>2. CASE SupplementWrite(c) BY <2>2, LeastUnopened DEF SupplementWrite
    <2> QED BY <2>1, <2>2
  <1>4. DocForward BY <1>1, <1>3, FiledForward
  <1>5. kase' \in [Cases -> Case] BY <1>1, <1>3, ReopenedTyped
  <1>6. company' \in {company, [company EXCEPT !.status = "PENDING_REVIEW"]}
    BY DEF SubmitWrite, SupplementWrite
  <1>7. company' \in Company BY <1>1, <1>6, CompanyTyped DEF CompanyStatus
  <1> QED BY <1>1, <1>2, <1>4, <1>5, <1>7 DEF Forward, RowsForward, TypeOK, rest

LEMMA DecideForward ==
  ASSUME Inv, NEW c \in Calls,
         \/ ApproveAssets(c) \/ ApproveCompany(c) \/ RejectWrite(c) \/ InfoWrite(c)
         \/ EscalateWrite(c)
  PROVE  Forward
  <1>1. TypeOK /\ RwcAdded /\ call[c] \in Slot BY Called DEF Inv
  <1>2. CallForward /\ UNCHANGED <<sweep, rest>>
    BY EndForward DEF ApproveAssets, ApproveCompany, RejectWrite, InfoWrite, EscalateWrite
  <1>3. DocForward
    <2>1. \/ UNCHANGED doc
          \/ \E st \in {"APPROVED", "REJECTED", "UPLOADED"} : doc' = Ruled(call[c], st)
      BY DEF ApproveAssets, ApproveCompany, RejectWrite, InfoWrite, EscalateWrite
    <2> QED BY <1>1, <2>1, DocStays, RuledForward
  <1>4. kase' \in [Cases -> Case]
    <2> DEFINE k == call[c].case
    <2>1. PICK st \in {"APPROVED", "REJECTED", "INFO_REQUESTED", "ESCALATED"} :
             kase' = Closed(call[c], st) \/ kase' = [kase EXCEPT ![k].status = st]
      BY DEF ApproveAssets, ApproveCompany, RejectWrite, InfoWrite, EscalateWrite
    <2> HIDE DEF k
    <2>2. st \in CaseStatus BY DEF CaseStatus
    <2>3. [kase EXCEPT ![k].status = st] \in [Cases -> Case] BY <1>1, <2>2, KaseTyped
    <2>4. Closed(call[c], st) \in [Cases -> Case] BY <1>1, <2>2, ClosedTyped
    <2> QED BY <2>1, <2>3, <2>4
  <1>5. company' \in Company
    <2>1. \/ UNCHANGED company
          \/ \E st \in {"BID_ELIGIBLE", "REJECTED", "INFO_REQUESTED"} :
                company' = [company EXCEPT !.status = st]
      BY DEF ApproveAssets, ApproveCompany, RejectWrite, InfoWrite, EscalateWrite
    <2>2. {"BID_ELIGIBLE", "REJECTED", "INFO_REQUESTED"} \subseteq CompanyStatus
      BY DEF CompanyStatus
    <2> QED BY <1>1, <2>1, <2>2, CompanyTyped
  <1>6. VehicleForward /\ unreviewed' \in SUBSET Vehicles
    <2>1. CASE ApproveAssets(c)
      <3>1. PICK up : /\ \A v \in up : Activated(v)
                      /\ vehicle' = [v \in Vehicles |-> IF v \in up THEN "ACTIVE" ELSE vehicle[v]]
                      /\ unreviewed' = unreviewed \ up
        BY <2>1 DEF ApproveAssets
      <3>2. VehicleForward BY <1>1, <3>1 DEF Activated, TypeOK, VehicleForward, VehicleStatus, Rising
      <3> QED BY <1>1, <3>1, <3>2 DEF TypeOK
    <2>2. CASE ~ApproveAssets(c)
      BY <1>1, <2>2, VehicleStays
         DEF ApproveCompany, RejectWrite, InfoWrite, EscalateWrite, TypeOK
    <2> QED BY <2>1, <2>2
  <1> QED BY <1>1, <1>2, <1>3, <1>4, <1>5, <1>6 DEF Forward, RowsForward, TypeOK, rest

LEMMA GovernForward ==
  ASSUME Inv, NEW c \in Calls, DisableWrite(c) \/ LiftWrite(c) PROVE Forward
  <1>1. TypeOK /\ RwcAdded /\ call[c] \in Slot /\ Lifted(call[c]) BY Called DEF Inv
  <1>2. CallForward /\ DocForward /\ UNCHANGED <<kase, sweep, unreviewed, rest>>
    BY <1>1, EndForward, DocStays DEF DisableWrite, LiftWrite
  <1>3. company' \in Company
    BY <1>1 DEF DisableWrite, LiftWrite, Slot, Company, CompanyStatus
  <1>4. VehicleForward
    <2>1. CASE DisableWrite(c)
      BY <1>1, <2>1 DEF DisableWrite, TypeOK, VehicleForward, VehicleStatus, Rising
    <2>2. CASE LiftWrite(c)
      <3>1. scope.restore BY <1>1, <2>2 DEF LiftWrite, Lifted
      <3> QED BY <1>1, <2>2, <3>1 DEF LiftWrite, TypeOK, VehicleForward, VehicleStatus
    <2> QED BY <2>1, <2>2
  <1> QED BY <1>1, <1>2, <1>3, <1>4 DEF Forward, RowsForward, TypeOK, rest

LEMMA RequestKeeps == ASSUME Inv, NEW c \in Calls, Steps(c) PROVE Inv'
  <1>1. Forward BY FleetForward, FilingForward, SubmitForward, DecideForward, GovernForward DEF Steps
  <1> QED BY <1>1, ForwardKeeps

LEMMA ReceiveKeeps == ASSUME Inv, NEW c \in Calls, Receives(c) PROVE Inv'
  <1>1. TypeOK /\ RwcAdded BY DEF Inv
  <1>2. UNCHANGED <<company, vehicle, doc, kase, sweep, unreviewed, rest>> /\ Fresh(c)
    BY <1>1, Receiving
  <1>3. PICK x \in Slot : Puts(c, x) /\ Lifted(x) BY <1>2 DEF Fresh, Begins, Puts
  <1>4. CallForward BY <1>3, PutForward
  <1>5. Forward
    BY <1>1, <1>2, <1>4, VehicleStays, DocStays DEF Forward, RowsForward, TypeOK, rest
  <1> QED BY <1>5, ForwardKeeps

(* An upload and a lapse are steps of their own. *)
LEMMA PaperKeeps ==
  ASSUME Inv, (\E v \in Vehicles \cup {None} : Intent(v)) \/ \E d \in Docs : Put(d) \/ Lapse(d)
  PROVE  Inv'
  <1>1. TypeOK /\ RwcAdded BY DEF Inv
  <1>2. /\ UNCHANGED <<company, vehicle, kase, sweep, unreviewed, call, crashes, scope>>
        /\ lapses' \in {lapses, lapses + 1}
    BY DEF Intent, Put, Lapse, rest
  <1>3. DocForward
    <2>1. ASSUME NEW v \in Vehicles \cup {None}, Intent(v) PROVE DocForward
      <3> DEFINE new == [NoDoc EXCEPT !.status = "UPLOAD_PENDING", !.vehicle = v]
      <3>1. PICK d \in Docs : doc' = [doc EXCEPT ![d] = new] BY <2>1 DEF Intent
      <3>2. new \in Doc /\ new.status = "UPLOAD_PENDING" /\ new.vehicle = v
        BY IdleTyped DEF Doc, DocStatus
      <3> HIDE DEF new
      <3>3. v # None => vehicle[v] # "NONE" BY <2>1 DEF Intent, Present
      <3>4. doc' \in [Docs -> Doc] BY <1>1, <3>1, <3>2 DEF TypeOK
      <3>5. ASSUME NEW x \in Docs
            PROVE  /\ IsRwc(x)' => vehicle[doc'[x].vehicle] # "NONE"
                   /\ doc'[x].status = "EXPIRED" => /\ doc[x].status = "EXPIRED"
                                                    /\ doc'[x].vehicle = doc[x].vehicle
        <4>1. CASE x = d BY <1>1, <3>1, <3>2, <3>3, <4>1 DEF TypeOK, IsRwc
        <4>2. CASE x # d
          <5>1. doc'[x] = doc[x] BY <1>1, <3>1, <4>2 DEF TypeOK
          <5> QED BY <1>1, <5>1 DEF RwcAdded, IsRwc
        <4> QED BY <4>1, <4>2
      <3> QED BY <3>4, <3>5 DEF DocForward
    <2>2. ASSUME NEW d \in Docs, Put(d) \/ Lapse(d) PROVE DocForward
      <3>1. \A x \in Docs : doc[x] \in Doc BY <1>1 DEF TypeOK
      <3>2. \/ doc' = [doc EXCEPT ![d].status = "UPLOADED"]
            \/ doc' = [doc EXCEPT ![d].lapsed = TRUE]
        BY <2>2 DEF Put, Lapse
      <3>3. doc' \in [Docs -> Doc]
        <4>1. CASE doc' = [doc EXCEPT ![d].status = "UPLOADED"]
          BY <1>1, <4>1 DEF TypeOK, Doc, DocStatus
        <4>2. CASE doc' = [doc EXCEPT ![d].lapsed = TRUE]
          <5>1. [doc[d] EXCEPT !.lapsed = TRUE] \in Doc BY <3>1 DEF Doc
          <5> QED BY <1>1, <4>2, <5>1 DEF TypeOK
        <4> QED BY <3>2, <4>1, <4>2
      <3>4. \A x \in Docs : /\ doc'[x].vehicle = doc[x].vehicle
                            /\ doc'[x].status = "EXPIRED" => doc[x].status = "EXPIRED"
        BY <1>1, <3>1, <3>2 DEF TypeOK, Doc
      <3> QED BY <1>1, <3>3, <3>4, DocChanged
    <2> QED BY <2>1, <2>2
  <1>4. CallForward BY <1>1, <1>2 DEF CallForward, Inv, TypeOK, Lifted
  <1>5. Forward
    BY <1>1, <1>2, <1>3, <1>4, VehicleStays DEF Forward, RowsForward, TypeOK
  <1> QED BY <1>5, ForwardKeeps

-----------------------------------------------------------------------------
(* The watchdog.  The document that it marks is exempt until its vehicle   *)
(* is suspended, or until the run ends on a vehicle that is DELETED.       *)
LEMMA SweepTyped == ASSUME TypeOK, Watchdog PROVE TypeOK' /\ UNCHANGED <<kase, call, rest>>
  <1>1. sweep \in Sweep BY DEF TypeOK
  <1>2. CASE SweepStart
    <2>1. sweep' \in Sweep BY <1>2 DEF SweepStart, Sweep, Due, Rested
    <2> QED BY <1>2, <2>1 DEF SweepStart, TypeOK, rest
  <1>3. CASE SweepVehicle
    <2>1. sweep' \in Sweep BY <1>1, <1>3, IdleTyped DEF SweepVehicle, Sweep
    <2>2. vehicle' \in [Vehicles -> VehicleStatus]
      BY <1>3 DEF SweepVehicle, TypeOK, VehicleStatus, Grounds
    <2> QED BY <1>3, <2>1, <2>2 DEF SweepVehicle, TypeOK, rest
  <1>4. CASE SweepCompany
    <2>1. sweep' \in Sweep BY <1>1, <1>4 DEF SweepCompany, Sweep
    <2> QED BY <1>4, <2>1 DEF SweepCompany, TypeOK, rest
  <1>5. CASE SweepWrite
    <2>1. sweep' \in Sweep BY <1>1, <1>5 DEF SweepWrite, Sweep
    <2>2. company' \in Company BY <1>5, CompanyTyped DEF SweepWrite, CompanyStatus
    <2> QED BY <1>5, <2>1, <2>2 DEF SweepWrite, TypeOK, rest
  <1>6. ASSUME NEW d \in Docs, SweepMark(d) PROVE TypeOK' /\ UNCHANGED <<kase, call, rest>>
    <2>1. sweep' \in Sweep BY <1>1, <1>6, IdleTyped DEF SweepMark, Sweep
    <2>2. doc' \in [Docs -> Doc] BY <1>6 DEF SweepMark, TypeOK, Doc, DocStatus
    <2> QED BY <1>6, <2>1, <2>2 DEF SweepMark, TypeOK, rest
  <1> QED BY <1>2, <1>3, <1>4, <1>5, <1>6 DEF Watchdog

LEMMA SweepAdded == ASSUME TypeOK, RwcAdded, Watchdog PROVE RwcAdded'
  <1>1. \A d \in Docs : doc[d] \in Doc BY DEF TypeOK
  <1>2. CASE UNCHANGED <<vehicle, doc>> BY <1>2 DEF RwcAdded, IsRwc
  <1>3. CASE SweepVehicle
    <2>1. \A v \in Vehicles : vehicle[v] # "NONE" => vehicle'[v] # "NONE"
      BY <1>3 DEF SweepVehicle, TypeOK, Grounds
    <2> QED BY <1>1, <1>3, <2>1 DEF SweepVehicle, RwcAdded, IsRwc, Doc
  <1>4. ASSUME NEW d \in Docs, SweepMark(d) PROVE RwcAdded'
    <2>1. \A x \in Docs : doc'[x].vehicle = doc[x].vehicle
      BY <1>1, <1>4 DEF SweepMark, TypeOK, Doc
    <2> QED BY <1>4, <2>1 DEF SweepMark, RwcAdded, IsRwc
  <1> QED BY <1>2, <1>3, <1>4 DEF Watchdog, SweepStart, SweepCompany, SweepWrite

LEMMA SweepGrounds == ASSUME TypeOK, RwcAdded, LapsedGround, Watchdog PROVE LapsedGround'
  <1>1. \A d \in Docs : doc[d] \in Doc BY DEF TypeOK
  <1>2. CASE SweepStart \/ SweepCompany \/ SweepWrite
    <2>1. UNCHANGED <<vehicle, doc>> /\ sweep.at # "vehicle"
      BY <1>2, IdleTyped DEF SweepStart, SweepCompany, SweepWrite
    <2> QED BY <2>1 DEF LapsedGround, IsRwc, Exempt, Grounded
  <1>3. ASSUME NEW m \in Docs, SweepMark(m) PROVE LapsedGround'
    <2>1. UNCHANGED vehicle /\ sweep.at = "next" BY <1>3 DEF SweepMark
    <2>2. ASSUME NEW d \in Docs, doc'[d].status = "EXPIRED", IsRwc(d)', ~Exempt(d)'
          PROVE  doc'[d] = doc[d]
      <3>1. CASE m \in Kept
        <4>1. sweep'.doc = m /\ sweep'.at = "vehicle" BY <1>3, <3>1 DEF SweepMark
        <4>2. d # m BY <2>2, <4>1 DEF Exempt
        <4> QED BY <1>3, <3>1, <4>2 DEF SweepMark, TypeOK
      <3>2. CASE m \notin Kept BY <1>3, <3>2 DEF SweepMark
      <3> QED BY <3>1, <3>2
    <2> QED BY <2>1, <2>2 DEF LapsedGround, IsRwc, Exempt, Grounded
  <1>4. CASE SweepVehicle
    <2>1. UNCHANGED doc BY <1>4 DEF SweepVehicle
    <2>2. SUFFICES ASSUME NEW d \in Docs, doc[d].status = "EXPIRED", IsRwc(d)
                   PROVE  vehicle'[doc[d].vehicle] \notin Rising
      BY <2>1 DEF LapsedGround, IsRwc, Grounded, Rising
    <2>3. doc[d].vehicle \in Vehicles BY <1>1, <2>2 DEF IsRwc, Doc
    <2>4. CASE sweep.doc = d
      <3> DEFINE v == doc[d].vehicle
      <3>1. v # None /\ vehicle[v] # "NONE" BY <2>2 DEF RwcAdded, IsRwc
      <3>2. CASE ~Present(v)
        <4>1. vehicle[v] = "DELETED" BY <3>1, <3>2 DEF Present
        <4> QED BY <1>4, <2>4, <3>1, <3>2, <4>1 DEF SweepVehicle, Rising
      <3>3. CASE Present(v)
        BY <1>4, <2>3, <2>4, <3>1, <3>3 DEF SweepVehicle, TypeOK, Grounds, Rising
      <3> QED BY <3>2, <3>3
    <2>5. CASE sweep.doc # d
      <3>1. vehicle[doc[d].vehicle] \notin Rising
        BY <2>2, <2>5 DEF LapsedGround, Exempt, Grounded, Rising
      <3>2. \A v \in Vehicles : vehicle'[v] \in {vehicle[v], "SUSPENDED"}
        BY <1>4 DEF SweepVehicle, TypeOK, Grounds
      <3> QED BY <2>3, <3>1, <3>2 DEF Rising
    <2> QED BY <2>4, <2>5
  <1> QED BY <1>2, <1>3, <1>4 DEF Watchdog

LEMMA SweepKeeps == ASSUME Inv, Watchdog PROVE Inv'
  <1>1. TypeOK' /\ RwcAdded' /\ UNCHANGED <<call, rest>> BY SweepTyped, SweepAdded DEF Inv
  <1>2. \A c \in Calls : Lifted(call[c])' BY <1>1 DEF Inv, Lifted, rest
  <1>3. ~scope'.restore /\ crashes' = 0 => LapsedGround' BY <1>1, SweepGrounds DEF Inv, rest
  <1> QED BY <1>1, <1>2, <1>3 DEF Inv

(* After a crash a document may be EXPIRED and its vehicle not suspended.  *)
LEMMA CrashKeeps == ASSUME Inv, Crash PROVE Inv'
  <1>1. TypeOK' BY IdleTyped DEF Inv, Crash, TypeOK
  <1>2. RwcAdded' BY DEF Inv, Crash, RwcAdded, IsRwc
  <1>3. \A c \in Calls : Lifted(call[c])' BY IdleTyped DEF Crash, Lifted
  <1>4. crashes' # 0 BY DEF Inv, Crash, TypeOK
  <1> QED BY <1>1, <1>2, <1>3, <1>4 DEF Inv

LEMMA InitInv == Init => Inv
  <1> SUFFICES ASSUME Init PROVE Inv OBVIOUS
  <1>1. FirstVehicle \in Vehicles BY FleetConstants DEF FirstVehicle
  <1>2. scope.start \in CompanyStatus BY FleetConstants DEF Init, CompanyStatus
  <1>3. company \in Company BY <1>2 DEF Init, Company
  <1>4. ASSUME NEW d \in Docs
        PROVE  doc[d] \in Doc /\ doc[d].status # "EXPIRED" /\ doc[d].vehicle \in {None, FirstVehicle}
    <2>1. CASE d > 2 BY <2>1, IdleTyped DEF Init
    <2>2. CASE ~(d > 2)
      <3> DEFINE st == IF scope.start = "DRAFT" THEN "UPLOADED" ELSE "APPROVED"
                 v == IF d = 1 THEN FirstVehicle ELSE None
                 new == [NoDoc EXCEPT !.status = st, !.vehicle = v]
      <3>1. doc[d] = new BY <2>2 DEF Init
      <3>2. st \in {"UPLOADED", "APPROVED"} /\ v \in {None, FirstVehicle} OBVIOUS
      <3> HIDE DEF st, v
      <3>3. new \in Doc /\ new.status = st /\ new.vehicle = v
        BY <1>1, <3>2, IdleTyped DEF Doc, DocStatus
      <3> HIDE DEF new
      <3> QED BY <3>1, <3>2, <3>3
    <2> QED BY <2>1, <2>2
  <1>5. doc \in [Docs -> Doc]
    <2>1. doc = [d \in Docs |-> doc[d]] BY DEF Init
    <2> QED BY <1>4, <2>1
  <1>6. TypeOK BY <1>3, <1>5, IdleTyped DEF Init, TypeOK, VehicleStatus
  <1>7. vehicle[FirstVehicle] # "NONE" BY <1>1 DEF Init
  <1>8. RwcAdded BY <1>4, <1>7 DEF RwcAdded, IsRwc
  <1>9. \A c \in Calls : Lifted(call[c]) BY IdleTyped DEF Init, Lifted
  <1> QED BY <1>4, <1>6, <1>8, <1>9 DEF Inv, LapsedGround

LEMMA NextKeeps == Inv /\ [Next]_vars => Inv'
  <1> SUFFICES ASSUME Inv, [Next]_vars PROVE Inv' OBVIOUS
  <1>1. CASE UNCHANGED vars
    BY <1>1 DEF vars, Inv, TypeOK, RwcAdded, IsRwc, Lifted, LapsedGround, Exempt, Grounded
  <1> QED BY <1>1, RequestKeeps, ReceiveKeeps, PaperKeeps, SweepKeeps, CrashKeeps DEF Next

(* Every row, request and run of the watchdog keeps its type.              *)
THEOREM FleetTypeCorrect == Spec => []TypeOK
  <1>1. Inv => TypeOK BY DEF Inv
  <1> QED BY <1>1, InitInv, NextKeeps, PTL DEF Spec

(* Until a suspension is lifted, a vehicle whose certificate the watchdog  *)
(* (runExpiryWatchdog) has expired does not drive, however its run         *)
(* interleaves with approvals, renewals, deletions and additions.          *)
THEOREM LapsedStaysGrounded == Spec => []LapsedIsGrounded
  <1>1. Inv => LapsedIsGrounded BY DEF Inv, LapsedGround, Exempt, Grounded, LapsedIsGrounded
  <1> QED BY <1>1, InitInv, NextKeeps, PTL DEF Spec

-----------------------------------------------------------------------------
(* One request at a time: a step of c meets only idle slots beside it.     *)
Moves(c) == \A d \in Calls \ {c} : call'[d] = call[d]
Alone(c) == \A d \in Calls \ {c} : call'[d] = call[d] /\ ~Working(d)

LEMMA Putting ==
  ASSUME TypeOK, NEW c \in Calls, NEW x \in Slot, Puts(c, x) PROVE call'[c] = x /\ Moves(c)
  BY DEF TypeOK, Puts, Moves

LEMMA BegunAlone ==
  ASSUME TypeOK, OneAtATime, scope.width = 1, NEW c \in Calls, NEW x \in Slot, Begins(c, x)
  PROVE  Alone(c) /\ call'[c] = x
  <1>1. Moves(c) /\ call'[c] = x /\ ~Working(c) BY Putting DEF Begins, Puts, Working
  <1>2. ASSUME NEW d \in Calls, Working(d) PROVE FALSE
    <2>1. Busy = {d} BY <1>2 DEF Busy, OneAtATime, Working
    <2>2. Cardinality({d}) = 1 BY FS_Singleton
    <2> QED BY <2>1, <2>2 DEF Begins
  <1> QED BY <1>1, <1>2 DEF Alone, Moves

LEMMA AloneFits ==
  ASSUME OneAtATime, NEW c \in Calls, Alone(c), NEW y, y = call'[c], SlotGood(y)', Listed'
  PROVE  SerialFits'
  <1>1. OneAtATime' BY DEF OneAtATime, Alone, Working
  <1>2. SlotsGood'
    <2> SUFFICES ASSUME NEW d \in Calls, NEW x, x = call'[d] PROVE SlotGood(x)' BY DEF SlotsGood
    <2>1. CASE d = c BY <2>1
    <2>2. CASE d # c
      <3>1. x.at = "idle" BY <2>2 DEF Alone, Working
      <3> QED BY <3>1 DEF SlotGood, Rulings
    <2> QED BY <2>1, <2>2
  <1> QED BY <1>1, <1>2 DEF SerialFits

LEMMA GoneFits ==
  ASSUME TypeOK, SerialFits, NEW c \in Calls, Working(c), NEW x \in Slot, Puts(c, x)
  PROVE  Alone(c) /\ call'[c] = x /\ OneAtATime /\ SlotGood(call[c]) /\ Listed
  <1>1. call'[c] = x /\ Moves(c) BY Putting
  <1> QED BY <1>1 DEF SerialFits, SlotsGood, OneAtATime, Moves, Alone

LEMMA EndFits ==
  ASSUME TypeOK, SerialFits, NEW c \in Calls, Working(c), Ends(c), Listed' PROVE SerialFits'
  <1>1. Puts(c, Idle) BY DEF Ends, Puts
  <1>2. PICK y : y = call'[c] /\ y.at = "idle" BY <1>1, IdleTyped, GoneFits
  <1>3. SlotGood(y)' BY <1>2 DEF SlotGood, Rulings
  <1> QED BY <1>1, <1>2, <1>3, IdleTyped, GoneFits, AloneFits

-----------------------------------------------------------------------------
(* Documents under review and their cases. *)
StillOpen == \A k \in Cases : kase[k].status \in Actionable => kase'[k].status \in Actionable

LEMMA CaseOf == ASSUME TypeOK, NEW d \in Docs PROVE doc[d].case \in {0} \cup Cases
  BY DEF TypeOK, Doc

LEMMA ListedOn ==
  ASSUME TypeOK, Listed, StillOpen,
         \A d \in Docs : doc'[d].status = "UNDER_REVIEW" =>
             doc[d].status = "UNDER_REVIEW" /\ doc'[d].case = doc[d].case
  PROVE  Listed'
  BY CaseOf DEF Listed, StillOpen

LEMMA ListedFiled ==
  ASSUME TypeOK, Listed, StillOpen, NEW ds, NEW k \in Cases, doc' = Filed(ds, k),
         kase'[k].status \in Actionable
  PROVE  Listed'
  <1> SUFFICES ASSUME NEW d \in Docs, doc'[d].status = "UNDER_REVIEW"
               PROVE  doc'[d].case # 0 /\ kase'[doc'[d].case].status \in Actionable
    BY DEF Listed
  <1>1. CASE doc'[d] = doc[d] BY <1>1, CaseOf DEF Listed, StillOpen
  <1>2. CASE doc'[d] # doc[d]
    <2>1. doc'[d] = [doc[d] EXCEPT !.case = k, !.status = "UNDER_REVIEW"] BY <1>2 DEF Filed
    <2>2. doc[d] \in Doc BY DEF TypeOK
    <2>3. doc'[d].case = k BY <2>1, <2>2 DEF Doc
    <2> QED BY <2>3, Ranges
  <1> QED BY <1>1, <1>2

(* What the decision s leaves under review is not what s was about. *)
LEMMA ListedRuled ==
  ASSUME TypeOK, Listed, NEW s, NEW st \in {"APPROVED", "REJECTED", "UPLOADED"},
         doc' = Ruled(s, st),
         \A k \in Cases \ {s.case} : kase'[k] = kase[k],
         \/ StillOpen
         \/ \A d \in InCase(s.case) \ Judged(s) : doc[d].status \notin Waiting
  PROVE  Listed'
  <1> SUFFICES ASSUME NEW d \in Docs, doc'[d].status = "UNDER_REVIEW"
               PROVE  doc'[d].case # 0 /\ kase'[doc'[d].case].status \in Actionable
    BY DEF Listed
  <1>1. doc[d] \in Doc BY DEF TypeOK
  <1>2. d \notin Judged(s)
    <2>1. SUFFICES ASSUME d \in Judged(s) PROVE FALSE OBVIOUS
    <2>2. doc'[d] = [doc[d] EXCEPT !.status = st] BY <2>1 DEF Ruled
    <2> QED BY <1>1, <2>2 DEF Doc
  <1>3. doc'[d] = doc[d] BY <1>2 DEF Ruled
  <1>4. doc[d].case # 0 /\ kase[doc[d].case].status \in Actionable BY <1>3 DEF Listed
  <1>5. CASE doc[d].case = s.case
    <2>1. d \in InCase(s.case) BY <1>5 DEF InCase
    <2>2. StillOpen BY <1>2, <1>3, <2>1 DEF Waiting
    <2> QED BY <1>3, <1>4, <2>2, CaseOf DEF StillOpen
  <1>6. CASE doc[d].case # s.case BY <1>3, <1>4, <1>6, CaseOf
  <1> QED BY <1>5, <1>6

LEMMA OpenStays == ASSUME UNCHANGED kase PROVE StillOpen
  BY DEF StillOpen

LEMMA OpenReopened ==
  ASSUME TypeOK, NEW k \in Cases, NEW type, kase' = Reopened(k, type)
  PROVE  StillOpen /\ kase'[k].status = "OPEN"
  <1>1. kase'[k] = [type |-> type, status |-> "OPEN"] BY DEF TypeOK, Reopened
  <1>2. \A j \in Cases \ {k} : kase'[j] = kase[j] BY DEF TypeOK, Reopened
  <1> QED BY <1>1, <1>2 DEF StillOpen, Actionable

-----------------------------------------------------------------------------
(* Fleet and company requests touch no case and put nothing under review.  *)
LEMMA StandingFits ==
  ASSUME TypeOK, SerialFits, NEW c \in Calls,
         \/ AddWrite(c) \/ DropWrite(c) \/ DeleteWrite(c) \/ ReactivateWrite(c)
         \/ WriteThrows(c) \/ DisableWrite(c) \/ LiftWrite(c)
  PROVE  SerialFits'
  <1>1. Working(c) /\ Ends(c) /\ UNCHANGED kase
    BY DEF AddWrite, DropWrite, DeleteWrite, ReactivateWrite, WriteThrows, DisableWrite,
           LiftWrite, Working
  <1>2. \A d \in Docs : doc'[d].status = "UNDER_REVIEW" => doc'[d] = doc[d]
    <2>1. CASE UNCHANGED doc BY <2>1
    <2>2. CASE DeleteWrite(c)
      <3> DEFINE v == call[c].vehicle
                 gone == [NoDoc EXCEPT !.status = "DELETED", !.vehicle = v]
      <3>1. doc' = [d \in Docs |-> IF doc[d].vehicle = v THEN gone ELSE doc[d]]
        BY <2>2 DEF DeleteWrite
      <3>2. gone.status = "DELETED" BY IdleTyped DEF Doc
      <3> HIDE DEF gone
      <3> QED BY <3>1, <3>2
    <2> QED BY <2>1, <2>2 DEF AddWrite, DropWrite, ReactivateWrite, WriteThrows, DisableWrite,
           LiftWrite
  <1>3. StillOpen BY <1>1, OpenStays
  <1>4. Listed' BY <1>2, <1>3, ListedOn DEF SerialFits
  <1> QED BY <1>1, <1>4, EndFits

LEMMA ConfirmFits ==
  ASSUME TypeOK, SerialFits, NEW c \in Calls, ConfirmWrite(c) PROVE SerialFits'
  <1>1. Working(c) /\ UNCHANGED kase /\ call[c] \in Slot
    BY Called DEF ConfirmWrite, Working
  <1>2. PICK d \in call[c].docs :
           /\ doc' = IF d \in Kept THEN [doc EXCEPT ![d].status = "UPLOADED"] ELSE doc
           /\ \/ Ends(c)
              \/ call' = [call EXCEPT ![c].at = "attach", ![c].case = FleetCase,
                                     ![c].asked = Asked(FleetCase)]
    BY DEF ConfirmWrite
  <1>3. \A x \in Docs : doc'[x].status = "UNDER_REVIEW" => doc'[x] = doc[x]
    <2> SUFFICES ASSUME NEW x \in Docs, doc'[x].status = "UNDER_REVIEW" PROVE doc'[x] = doc[x]
      OBVIOUS
    <2>1. doc[x] \in Doc BY DEF TypeOK
    <2> QED BY <1>2, <2>1 DEF TypeOK, Doc
  <1>4. StillOpen BY <1>1, OpenStays
  <1>5. Listed' BY <1>3, <1>4, ListedOn DEF SerialFits
  <1>6. CASE Ends(c) BY <1>1, <1>5, <1>6, EndFits
  <1>7. CASE call' = [call EXCEPT ![c].at = "attach", ![c].case = FleetCase,
                                  ![c].asked = Asked(FleetCase)]
    <2> DEFINE k == FleetCase
               a == Asked(FleetCase)
               x == [call[c] EXCEPT !.at = "attach", !.case = k, !.asked = a]
    <2>1. Puts(c, x) BY <1>7 DEF Puts, TypeOK
    <2>2. k \in {0} \cup Cases /\ a \in BOOLEAN /\ (k # 0 => kase[k].status \in Actionable)
      BY FoundOpen
    <2> HIDE DEF k, a
    <2>3. x \in Slot /\ x.at = "attach" /\ x.case = k BY <1>1, <2>2 DEF Slot, Labels
    <2> HIDE DEF x
    <2>4. Alone(c) /\ call'[c] = x /\ OneAtATime BY <1>1, <2>1, <2>3, GoneFits
    <2>5. PICK y : y = call'[c] /\ y.at = "attach" /\ (y.case # 0 => kase[y.case].status \in Actionable)
      BY <2>2, <2>3, <2>4
    <2>6. SlotGood(y)' BY <1>1, <2>5 DEF SlotGood, Rulings
    <2> QED BY <1>5, <2>4, <2>5, <2>6, AloneFits
  <1> QED BY <1>2, <1>6, <1>7

LEMMA AttachFits ==
  ASSUME TypeOK, SerialFits, NEW c \in Calls, AttachCase(c) PROVE SerialFits'
  <1>1. Working(c) /\ call[c] \in Slot /\ UNCHANGED doc BY Called DEF AttachCase, Working
  <1> DEFINE k == IF call[c].case = 0 THEN Least(Unopened) ELSE call[c].case
             x == [call[c] EXCEPT !.at = "join", !.case = k]
  <1>2. k \in Cases BY <1>1, LeastUnopened DEF AttachCase, Slot
  <1>3. Puts(c, x) BY <1>1 DEF AttachCase, Puts, TypeOK, Slot
  <1>4. \/ kase' = Reopened(k, "RWC")
        \/ UNCHANGED kase /\ k # 0 /\ k = call[c].case /\ call[c].at = "attach"
    BY DEF AttachCase
  <1> HIDE DEF k
  <1>5. x \in Slot /\ x.at = "join" /\ x.case = k BY <1>1, <1>2 DEF Slot, Labels
  <1> HIDE DEF x
  <1>6. Alone(c) /\ call'[c] = x /\ OneAtATime /\ SlotGood(call[c]) /\ Listed
    BY <1>1, <1>3, <1>5, GoneFits
  <1>7. StillOpen /\ kase'[k].status \in Actionable
    <2>1. CASE kase' = Reopened(k, "RWC") BY <1>2, <2>1, OpenReopened DEF Actionable
    <2>2. CASE UNCHANGED kase /\ k # 0 /\ k = call[c].case /\ call[c].at = "attach"
      BY <1>6, <2>2, OpenStays DEF SlotGood
    <2> QED BY <1>4, <2>1, <2>2
  <1>8. Listed' BY <1>1, <1>6, <1>7, ListedOn
  <1>9. PICK y : y = call'[c] /\ y.at = "join" /\ y.case \in Cases
                 /\ kase'[y.case].status \in Actionable
    BY <1>2, <1>5, <1>6, <1>7
  <1>10. SlotGood(y)' BY <1>9, Ranges DEF SlotGood, Rulings
  <1> QED BY <1>6, <1>8, <1>9, <1>10, AloneFits

LEMMA FileFits ==
  ASSUME TypeOK, SerialFits, NEW c \in Calls,
         AttachDocs(c) \/ SubmitWrite(c) \/ SupplementWrite(c)
  PROVE  SerialFits'
  <1>1. Working(c) /\ Ends(c) /\ call[c] \in Slot
    BY Called DEF AttachDocs, SubmitWrite, SupplementWrite, Working
  <1>2. SlotGood(call[c]) /\ Listed BY DEF SerialFits, SlotsGood
  <1>3. PICK k \in Cases : /\ StillOpen /\ kase'[k].status \in Actionable
                           /\ \E ds : doc' = Filed(ds, k)
    <2>1. CASE AttachDocs(c)
      <3> DEFINE k == call[c].case
      <3>1. k \in Cases /\ kase[k].status \in Actionable
        BY <1>1, <1>2, <2>1 DEF AttachDocs, SlotGood, Slot
      <3>2. UNCHANGED kase BY <2>1 DEF AttachDocs
      <3>3. PICK ds : doc' = Filed(ds, k) BY <2>1 DEF AttachDocs
      <3> HIDE DEF k
      <3>4. StillOpen /\ kase'[k].status \in Actionable BY <3>1, <3>2, OpenStays
      <3> QED BY <3>1, <3>3, <3>4
    <2>2. CASE SubmitWrite(c)
      <3> DEFINE k == IF call[c].case # 0 THEN call[c].case ELSE Least(Unopened)
      <3>1. k \in Cases BY <1>1, <2>2, LeastUnopened DEF SubmitWrite, Slot
      <3>2. kase' = Reopened(k, "KYB") /\ doc' = Filed(call[c].docs, k) BY <2>2 DEF SubmitWrite
      <3> HIDE DEF k
      <3>3. StillOpen /\ kase'[k].status \in Actionable BY <3>1, <3>2, OpenReopened DEF Actionable
      <3> QED BY <3>1, <3>2, <3>3
    <2>3. CASE SupplementWrite(c)
      <3> DEFINE k == Least(Unopened)
      <3>1. k \in Cases BY <2>3, LeastUnopened DEF SupplementWrite
      <3>2. kase' = Reopened(k, "KYB") /\ doc' = Filed(call[c].docs, k)
        BY <2>3 DEF SupplementWrite
      <3> HIDE DEF k
      <3>3. StillOpen /\ kase'[k].status \in Actionable BY <3>1, <3>2, OpenReopened DEF Actionable
      <3> QED BY <3>1, <3>2, <3>3
    <2> QED BY <2>1, <2>2, <2>3
  <1>4. Listed' BY <1>2, <1>3, ListedFiled
  <1> QED BY <1>1, <1>4, EndFits

(* A case is closed when nothing else in it waits: of an RWC case because  *)
(* the decision looks, of a KYB case because the decision is about all.    *)
LEMMA ClosedFits ==
  ASSUME TypeOK, NEW s, NEW st, kase' = Closed(s, st)
  PROVE  /\ \A k \in Cases \ {s.case} : kase'[k] = kase[k]
         /\ \/ StillOpen
            \/ \A d \in InCase(s.case) \ Judged(s) : doc[d].status \notin Waiting
  <1>1. CASE kase' = kase BY <1>1, OpenStays
  <1>2. CASE kase' # kase BY <1>2 DEF Closed, TypeOK
  <1> QED BY <1>1, <1>2

LEMMA WholeFits ==
  ASSUME TypeOK, NEW s, NEW st, kase' = [kase EXCEPT ![s.case].status = st],
         s.vehicle # None => kase[s.case].type = "RWC", kase[s.case].type # "RWC"
  PROVE  /\ \A k \in Cases \ {s.case} : kase'[k] = kase[k]
         /\ \A d \in InCase(s.case) \ Judged(s) : doc[d].status \notin Waiting
  BY DEF TypeOK, Judged

LEMMA DecideFits ==
  ASSUME TypeOK, SerialFits, NEW c \in Calls,
         \/ ApproveAssets(c) \/ ApproveCompany(c) \/ RejectWrite(c) \/ InfoWrite(c)
         \/ EscalateWrite(c)
  PROVE  SerialFits'
  <1>1. Working(c) /\ Ends(c) /\ call[c] \in Slot
    BY Called DEF ApproveAssets, ApproveCompany, RejectWrite, InfoWrite, EscalateWrite, Working
  <1>2. SlotGood(call[c]) /\ Listed BY DEF SerialFits, SlotsGood
  <1>3. SUFFICES Listed' BY <1>1, EndFits
  <1>4. ASSUME NEW s, s = call[c], s.at \in Rulings,
               NEW st \in {"APPROVED", "REJECTED"}, doc' = Ruled(s, st),
               \/ kase' = Closed(s, st)
               \/ kase' = [kase EXCEPT ![s.case].status = st] /\ kase[s.case].type # "RWC"
        PROVE  Listed'
    <2>1. s.vehicle # None => kase[s.case].type = "RWC" BY <1>2, <1>4 DEF SlotGood
    <2>2. /\ \A k \in Cases \ {s.case} : kase'[k] = kase[k]
          /\ \/ StillOpen
             \/ \A d \in InCase(s.case) \ Judged(s) : doc[d].status \notin Waiting
      BY <1>4, <2>1, ClosedFits, WholeFits
    <2> QED BY <1>2, <1>4, <2>2, ListedRuled
  <1>5. CASE ApproveAssets(c) BY <1>4, <1>5 DEF ApproveAssets, Rulings
  <1>6. CASE ApproveCompany(c) BY <1>4, <1>6 DEF ApproveCompany, Rulings
  <1>7. CASE RejectWrite(c) BY <1>4, <1>7 DEF RejectWrite, Keeps, Rulings
  <1>8. CASE InfoWrite(c) \/ EscalateWrite(c)
    <2> DEFINE j == call[c].case
    <2>1. PICK st \in {"INFO_REQUESTED", "ESCALATED"} : kase' = [kase EXCEPT ![j].status = st]
      BY <1>8 DEF InfoWrite, EscalateWrite
    <2> HIDE DEF j
    <2>2. StillOpen /\ \A k \in Cases \ {j} : kase'[k] = kase[k]
      BY <2>1 DEF StillOpen, Actionable, TypeOK, Case
    <2>3. UNCHANGED doc \/ doc' = Ruled(call[c], "UPLOADED") BY <1>8 DEF InfoWrite, EscalateWrite
    <2>4. CASE UNCHANGED doc BY <1>2, <2>2, <2>4, ListedOn
    <2>5. CASE doc' = Ruled(call[c], "UPLOADED") BY <1>2, <2>2, <2>5, ListedRuled DEF j
    <2> QED BY <2>3, <2>4, <2>5
  <1> QED BY <1>5, <1>6, <1>7, <1>8

LEMMA StepFits ==
  ASSUME TypeOK, SerialFits, NEW c \in Calls, Steps(c) PROVE SerialFits'
  BY StandingFits, ConfirmFits, AttachFits, FileFits, DecideFits DEF Steps

LEMMA ReceiveFits ==
  ASSUME TypeOK, SerialFits, scope.width = 1, NEW c \in Calls, Receives(c) PROVE SerialFits'
  <1>1. UNCHANGED <<doc, kase>> BY Receiving
  <1>2. PICK x \in Slot : Begins(c, x) /\ SlotGood(x) BY Receiving DEF Fresh
  <1>3. Alone(c) /\ call'[c] = x BY <1>2, BegunAlone DEF SerialFits
  <1>4. SlotGood(x)' BY <1>1, <1>2 DEF SlotGood
  <1>5. Listed' BY <1>1, OpenStays, ListedOn DEF SerialFits
  <1> QED BY <1>3, <1>4, <1>5, AloneFits DEF SerialFits

(* A step of nobody's request, that puts no document under review. *)
LEMMA ApartFits ==
  ASSUME TypeOK, SerialFits, UNCHANGED <<kase, call>>,
         \A d \in Docs : doc'[d].status = "UNDER_REVIEW" =>
             doc[d].status = "UNDER_REVIEW" /\ doc'[d].case = doc[d].case
  PROVE  SerialFits'
  <1>1. OneAtATime' BY DEF SerialFits, OneAtATime, Working
  <1>2. SlotsGood' BY DEF SerialFits, SlotsGood, SlotGood
  <1>3. Listed' BY OpenStays, ListedOn DEF SerialFits
  <1> QED BY <1>1, <1>2, <1>3 DEF SerialFits

LEMMA PaperFits ==
  ASSUME TypeOK, SerialFits,
         (\E v \in Vehicles \cup {None} : Intent(v)) \/ \E d \in Docs : Put(d) \/ Lapse(d)
  PROVE  SerialFits'
  <1>1. UNCHANGED <<kase, call>> BY DEF Intent, Put, Lapse
  <1>2. \A d \in Docs : doc[d] \in Doc BY DEF TypeOK
  <1>3. ASSUME NEW v \in Vehicles \cup {None}, Intent(v), NEW d \in Docs,
               doc'[d].status = "UNDER_REVIEW"
        PROVE  doc'[d] = doc[d]
    <2> DEFINE new == [NoDoc EXCEPT !.status = "UPLOAD_PENDING", !.vehicle = v]
    <2>1. PICK n \in Docs : doc' = [doc EXCEPT ![n] = new] BY <1>3 DEF Intent
    <2>2. new.status = "UPLOAD_PENDING" BY IdleTyped DEF Doc
    <2> HIDE DEF new
    <2> QED BY <1>3, <2>1, <2>2 DEF TypeOK
  <1>4. ASSUME NEW p \in Docs, Put(p) \/ Lapse(p), NEW d \in Docs,
               doc'[d].status = "UNDER_REVIEW"
        PROVE  doc[d].status = "UNDER_REVIEW" /\ doc'[d].case = doc[d].case
    <2>1. CASE Put(p) BY <1>2, <1>4, <2>1 DEF Put, TypeOK, Doc
    <2>2. CASE Lapse(p) BY <1>2, <1>4, <2>2 DEF Lapse, TypeOK, Doc
    <2> QED BY <1>4, <2>1, <2>2
  <1>5. \A d \in Docs : doc'[d].status = "UNDER_REVIEW" =>
            doc[d].status = "UNDER_REVIEW" /\ doc'[d].case = doc[d].case
    BY <1>3, <1>4
  <1> QED BY <1>1, <1>5, ApartFits

LEMMA SweepFits == ASSUME TypeOK, SerialFits, Watchdog PROVE SerialFits'
  <1>1. \A d \in Docs : doc[d] \in Doc BY DEF TypeOK
  <1>2. ASSUME NEW m \in Docs, SweepMark(m), NEW d \in Docs, doc'[d].status = "UNDER_REVIEW"
        PROVE  doc'[d] = doc[d]
    BY <1>1, <1>2 DEF SweepMark, TypeOK, Doc
  <1>3. \A d \in Docs : doc'[d].status = "UNDER_REVIEW" =>
            doc[d].status = "UNDER_REVIEW" /\ doc'[d].case = doc[d].case
    BY <1>2 DEF Watchdog, SweepStart, SweepVehicle, SweepCompany, SweepWrite
  <1> QED BY <1>3, SweepTyped, ApartFits

LEMMA CrashFits == ASSUME TypeOK, SerialFits, Crash PROVE SerialFits'
  <1>1. \A c \in Calls : call'[c].at = "idle" /\ UNCHANGED <<doc, kase>>
    BY IdleTyped DEF Crash
  <1>2. OneAtATime' BY <1>1 DEF OneAtATime, Working
  <1>3. SlotsGood'
    <2> SUFFICES ASSUME NEW c \in Calls, NEW x, x = call'[c] PROVE SlotGood(x)' BY DEF SlotsGood
    <2> QED BY <1>1 DEF SlotGood, Rulings
  <1>4. Listed' BY OpenStays, ListedOn DEF SerialFits, Crash
  <1> QED BY <1>2, <1>3, <1>4 DEF SerialFits

LEMMA InitFits == Init => FleetInv
  <1> SUFFICES ASSUME Init PROVE FleetInv OBVIOUS
  <1>1. OneAtATime BY IdleTyped DEF Init, OneAtATime, Working
  <1>2. SlotsGood
    <2> SUFFICES ASSUME NEW c \in Calls, NEW x, x = call[c] PROVE SlotGood(x) BY DEF SlotsGood
    <2> QED BY IdleTyped DEF Init, SlotGood, Rulings
  <1>3. ASSUME NEW d \in Docs PROVE doc[d].status # "UNDER_REVIEW"
    <2>1. CASE d > 2 BY <2>1, IdleTyped DEF Init
    <2>2. CASE ~(d > 2)
      <3> DEFINE st == IF scope.start = "DRAFT" THEN "UPLOADED" ELSE "APPROVED"
                 v == IF d = 1 THEN FirstVehicle ELSE None
      <3>1. doc[d] = [NoDoc EXCEPT !.status = st, !.vehicle = v] BY <2>2 DEF Init
      <3>2. doc[d].status = st BY <3>1, IdleTyped DEF Doc
      <3> QED BY <3>2
    <2> QED BY <2>1, <2>2
  <1>4. Listed BY <1>3 DEF Listed
  <1> QED BY <1>1, <1>2, <1>4, InitInv DEF FleetInv, SerialFits

LEMMA NextFits == FleetInv /\ [Next]_vars => FleetInv'
  <1> SUFFICES ASSUME FleetInv, [Next]_vars PROVE FleetInv' OBVIOUS
  <1>1. Inv' BY NextKeeps DEF FleetInv
  <1>2. scope' = scope
    <2>1. ASSUME NEW c \in Calls, Receives(c) PROVE scope' = scope
      BY <2>1, Receiving DEF FleetInv, Inv, rest
    <2>2. ASSUME NEW c \in Calls, Steps(c) PROVE scope' = scope
      BY <2>2 DEF Steps, AddWrite, DropWrite, DeleteWrite, ReactivateWrite, WriteThrows,
             ConfirmWrite, AttachCase, AttachDocs, SubmitWrite, SupplementWrite, ApproveAssets,
             ApproveCompany, RejectWrite, InfoWrite, EscalateWrite, DisableWrite, LiftWrite, rest
    <2>3. Watchdog => scope' = scope BY SweepTyped DEF FleetInv, Inv, rest
    <2> QED BY <2>1, <2>2, <2>3 DEF Next, Intent, Put, Lapse, Crash, vars, rest
  <1>3. SUFFICES ASSUME scope.width = 1, TypeOK, SerialFits PROVE SerialFits'
    BY <1>1, <1>2 DEF FleetInv, Inv
  <1>4. CASE UNCHANGED vars
    <2>1. UNCHANGED <<doc, kase, call>> BY <1>4 DEF vars
    <2> QED BY <1>3, <2>1, ApartFits
  <1> QED BY <1>3, <1>4, StepFits, ReceiveFits, PaperFits, SweepFits, CrashFits DEF Next

(* One request at a time, a document under review is in a case that staff  *)
(* can still decide, whatever is filed, judged alone, sent back or moved   *)
(* (approve, reject, requestInfo, confirm, submitVerification), and        *)
(* whatever the watchdog and a crash do in between.                        *)
THEOREM ReviewIsListed == Spec => []PendingIsListed
  <1>1. FleetInv => PendingIsListed BY DEF FleetInv, SerialFits, Listed, PendingIsListed
  <1> QED BY <1>1, InitFits, NextFits, PTL DEF Spec
=============================================================================
