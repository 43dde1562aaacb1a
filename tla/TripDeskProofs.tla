--------------------------- MODULE TripDeskProofs ---------------------------
(***************************************************************************)
(* Proofs about TripDesk, for every crew, every number of exceptions and   *)
(* any number of requests.                                                 *)
(*                                                                         *)
(* TypeOK is inductive however requests overlap.  What a started trip and  *)
(* a resolved exception promise holds one request at a time, and not by    *)
(* itself: DeskInv says of the request that runs what it read and is still *)
(* so (the driver it passes is the driver of the trip, the exception it    *)
(* settles is not resolved yet), and that a trip in BREAKDOWN has an       *)
(* exception that waits or a request on its way to take it back.           *)
(***************************************************************************)
EXTENDS TripDesk, FiniteSetTheorems, TLAPS

Working(c) == call[c].at # "idle"
OneAtATime == \A c, d \in Calls : Working(c) /\ Working(d) => c = d

(* The gates a trip has behind it. *)
Cleared == /\ trip.started => trip.safety = "passed" /\ trip.mass = "ok"
           /\ trip.safety = "passed" => passedBy = trip.driver

(* What a request read and still holds. *)
GatesGood(x) == /\ x.at \in {"ground", "failed", "overweight"} => ~trip.started
                /\ x.at = "passed" => x.crew.driver = trip.driver
                /\ x.at \in {"inspect", "start"} => trip.safety = "passed" /\ trip.mass = "ok"
                /\ x.at = "swap" /\ ~x.flag => x.crew.driver = trip.driver
CaseGood(x) == x.at \notin {"idle", "back"} /\ x.case # 0 =>
                   /\ case[x.case].status \notin Resolved
                   /\ x.at \in {"approve", "check", "swap", "reassigned"} =>
                          x.phase = case[x.case].phase
SlotGood(x) == GatesGood(x) /\ CaseGood(x)
SlotsGood == \A c \in Calls : SlotGood(call[c])

Waits(e) == case[e].status \in Open \cup {"AWAITING_SENDER_APPROVAL"} /\ case[e].phase = "MID_TRIP"
Answered == upsets = 0 /\ trip.status = "BREAKDOWN" =>
                (\E e \in Cases : Waits(e)) \/ \E c \in Calls : call[c].at = "back"

SerialFits == OneAtATime /\ Cleared /\ SlotsGood /\ Answered
DeskInv == TypeOK /\ (scope.width = 1 => SerialFits)

-----------------------------------------------------------------------------
LEMMA IdleTyped == /\ SomeCrew \in Crew /\ Idle \in Slot /\ NoCase \in Case
                   /\ Idle.at = "idle" /\ Idle.case = 0
                   /\ NoCase.status = "NONE" /\ NoCase.phase = "PRE_TRIP"
  <1>1. SomeCrew \in Crew BY DeskConstants DEF SomeCrew, Crew
  <1>2. Idle \in Slot BY <1>1 DEF Idle, Slot, Labels
  <1>3. NoCase \in Case BY <1>1 DEF NoCase, Case, CaseStatus
  <1> QED BY <1>1, <1>2, <1>3 DEF Idle, NoCase

LEMMA Scoped == ASSUME TypeOK
                PROVE  /\ scope.cases \subseteq Cases /\ scope.crews \subseteq Crew
                       /\ 0 \notin Cases /\ Cases \subseteq Nat
  BY DeskConstants DEF TypeOK, Crew

LEMMA Called == ASSUME TypeOK, NEW c \in Calls PROVE call[c] \in Slot
  BY DEF TypeOK

LEMMA CrewTyped == ASSUME TypeOK PROVE CrewOf(trip) \in Crew /\ CrewOf(trip).driver = trip.driver
  BY DEF TypeOK, RowsTyped, Trip, Crew, CrewOf

Onward(x, l) == [x EXCEPT !.at = l]
LEMMA Going ==
  ASSUME NEW x \in Slot, NEW l \in Labels
  PROVE  /\ Onward(x, l) \in Slot /\ Onward(x, l).at = l
         /\ Onward(x, l).case = x.case /\ Onward(x, l).crew = x.crew
         /\ Onward(x, l).flag = x.flag /\ Onward(x, l).phase = x.phase
  BY DEF Slot, Onward

Moves(c) == \A d \in Calls \ {c} : call'[d] = call[d]
(* What a step leaves in the slot of c. *)
Puts(c, x) == call' = [call EXCEPT ![c] = x]
LEMMA Putting ==
  ASSUME TypeOK, NEW c \in Calls, NEW x \in Slot, Puts(c, x)
  PROVE  call' \in [Calls -> Slot] /\ call'[c] = x /\ Moves(c)
  BY DEF TypeOK, Puts, Moves
LEMMA Ending ==
  ASSUME TypeOK, NEW c \in Calls, Ends(c) PROVE Puts(c, Idle) /\ call' \in [Calls -> Slot]
  <1>1. Puts(c, Idle) BY DEF Ends, Puts
  <1> QED BY <1>1, IdleTyped, Putting
LEMMA Goings ==
  ASSUME TypeOK, NEW c \in Calls, NEW l \in Labels, Goes(c, l)
  PROVE  Puts(c, Onward(call[c], l)) /\ call' \in [Calls -> Slot]
  <1>1. Puts(c, Onward(call[c], l)) BY DEF Goes, Puts, Onward, TypeOK
  <1> QED BY <1>1, Called, Going, Putting

-----------------------------------------------------------------------------
(* A request that is received knows what it read, and changes no row.      *)
Fresh(c) == \E x \in Slot : Begins(c, x) /\ x.at \notin {"idle", "back"} /\ SlotGood(x)

LEMMA GateRead ==
  ASSUME TypeOK, NEW c \in Calls, NEW b \in BOOLEAN,
         SafetyRead(c, b) \/ MassRead(c, b) \/ StartRead(c)
  PROVE  Fresh(c)
  <1>1. trip.started \in BOOLEAN BY DEF TypeOK, RowsTyped, Trip
  <1>2. CASE SafetyRead(c, b)
    <2> DEFINE l == IF b THEN "passed" ELSE "ground"
               f == b /\ trip.safety = "failed" /\ trip.marked
               x == [Idle EXCEPT !.at = l, !.crew = CrewOf(trip), !.flag = f]
    <2>1. l \in {"passed", "ground"} /\ f \in BOOLEAN /\ ~trip.started
      BY <1>2 DEF SafetyRead, TypeOK, RowsTyped, Trip
    <2>2. Begins(c, x) BY <1>2 DEF SafetyRead
    <2> HIDE DEF l, f
    <2>3. x \in Slot /\ x.at = l /\ x.case = 0 /\ x.crew = CrewOf(trip)
      BY <2>1, CrewTyped, IdleTyped DEF Slot, Labels
    <2> HIDE DEF x
    <2>4. SlotGood(x) BY <2>1, <2>3, CrewTyped DEF SlotGood, GatesGood, CaseGood
    <2> QED BY <2>1, <2>2, <2>3, <2>4 DEF Fresh
  <1>3. CASE MassRead(c, b)
    <2> DEFINE l == IF b THEN "overweight" ELSE "weighed"
               x == [Idle EXCEPT !.at = l]
    <2>1. l \in {"overweight", "weighed"} /\ ~trip.started BY <1>3 DEF MassRead
    <2>2. Begins(c, x) BY <1>3 DEF MassRead
    <2> HIDE DEF l
    <2>3. x \in Slot /\ x.at = l /\ x.case = 0 BY <2>1, IdleTyped DEF Slot, Labels
    <2> HIDE DEF x
    <2>4. SlotGood(x) BY <2>1, <2>3 DEF SlotGood, GatesGood, CaseGood
    <2> QED BY <2>1, <2>2, <2>3, <2>4 DEF Fresh
  <1>4. CASE StartRead(c)
    <2> DEFINE x == [Idle EXCEPT !.at = "inspect", !.crew = CrewOf(trip)]
    <2>1. trip.safety = "passed" /\ trip.mass = "ok" BY <1>4 DEF StartRead, MayStart
    <2>2. Begins(c, x) BY <1>4 DEF StartRead
    <2>3. x \in Slot /\ x.at = "inspect" /\ x.case = 0
      BY CrewTyped, IdleTyped DEF Slot, Labels
    <2> HIDE DEF x
    <2>4. SlotGood(x) BY <2>1, <2>3 DEF SlotGood, GatesGood, CaseGood
    <2> QED BY <2>2, <2>3, <2>4 DEF Fresh
  <1> QED BY <1>2, <1>3, <1>4

LEMMA OpenReads == ASSUME TypeOK, NEW c \in Calls, NEW b \in BOOLEAN, OpenRead(c, b) PROVE Fresh(c)
  <1> DEFINE p == IF trip.status = "PENDING_GATES" THEN "PRE_TRIP" ELSE "MID_TRIP"
             x == [Idle EXCEPT !.at = "open", !.crew = CrewOf(trip), !.flag = b, !.phase = p]
  <1>1. p \in {"PRE_TRIP", "MID_TRIP"} OBVIOUS
  <1>2. Begins(c, x) BY DEF OpenRead
  <1> HIDE DEF p
  <1>3. x \in Slot /\ x.at = "open" /\ x.case = 0
    BY <1>1, CrewTyped, IdleTyped DEF Slot, Labels
  <1> HIDE DEF x
  <1>4. SlotGood(x) BY <1>3 DEF SlotGood, GatesGood, CaseGood
  <1> QED BY <1>2, <1>3, <1>4 DEF Fresh

LEMMA CrewReads ==
  ASSUME TypeOK, NEW c \in Calls, NEW crew \in scope.crews,
         ReassignRead(c, crew) \/ \E e \in Cases : ProposeRead(c, e, crew)
  PROVE  Fresh(c)
  <1>1. crew \in Crew BY Scoped
  <1>2. CASE ReassignRead(c, crew)
    <2> DEFINE x == [Idle EXCEPT !.at = "check", !.crew = crew]
    <2>1. Begins(c, x) BY <1>2 DEF ReassignRead
    <2>2. x \in Slot /\ x.at = "check" /\ x.case = 0 BY <1>1, IdleTyped DEF Slot, Labels
    <2> HIDE DEF x
    <2>3. SlotGood(x) BY <2>2 DEF SlotGood, GatesGood, CaseGood
    <2> QED BY <2>1, <2>2, <2>3 DEF Fresh
  <1>3. ASSUME NEW e \in Cases, ProposeRead(c, e, crew) PROVE Fresh(c)
    <2> DEFINE x == [Idle EXCEPT !.at = "crew", !.case = e, !.crew = crew]
    <2>1. Begins(c, x) /\ case[e].status \notin Resolved
      BY <1>3 DEF ProposeRead, Open, Resolved
    <2>2. x \in Slot /\ x.at = "crew" /\ x.case = e BY <1>1, IdleTyped DEF Slot, Labels
    <2> HIDE DEF x
    <2>3. SlotGood(x) BY <2>1, <2>2 DEF SlotGood, GatesGood, CaseGood
    <2> QED BY <2>1, <2>2, <2>3 DEF Fresh
  <1> QED BY <1>2, <1>3

LEMMA CaseReads ==
  ASSUME TypeOK, NEW c \in Calls, NEW e \in Cases,
         \/ ApproveRead(c, e) \/ RejectRead(c, e) \/ ContinueRead(c, e)
         \/ EscalateRead(c, e) \/ ReleaseRead(c, e) \/ SweepRead(c, e)
  PROVE  Fresh(c) \/ UNCHANGED call
  <1>1. case[e] \in Case BY DEF TypeOK, RowsTyped
  <1>2. ASSUME NEW l \in {"reject", "escalate", "release"},
               Begins(c, [Idle EXCEPT !.at = l, !.case = e]), case[e].status \notin Resolved
        PROVE  Fresh(c)
    <2> DEFINE x == [Idle EXCEPT !.at = l, !.case = e]
    <2>1. Begins(c, x) BY <1>2
    <2>2. x \in Slot /\ x.at = l /\ x.case = e BY IdleTyped DEF Slot, Labels
    <2> HIDE DEF x
    <2>3. SlotGood(x) BY <1>2, <2>2 DEF SlotGood, GatesGood, CaseGood
    <2> QED BY <2>1, <2>2, <2>3 DEF Fresh
  <1>3. CASE RejectRead(c, e) BY <1>2, <1>3 DEF RejectRead, Resolved
  <1>4. CASE EscalateRead(c, e) BY <1>2, <1>4 DEF EscalateRead, Open, Resolved
  <1>5. CASE ReleaseRead(c, e) BY <1>2, <1>5 DEF ReleaseRead, Open, Resolved
  <1>6. CASE SweepRead(c, e)
    BY <1>2, <1>6 DEF SweepRead, StillDue, Overdue, Resolved
  <1>7. CASE ApproveRead(c, e)
    <2> DEFINE x == [Idle EXCEPT !.at = "approve", !.case = e, !.crew = case[e].proposed,
                                 !.phase = case[e].phase]
    <2>1. Begins(c, x) /\ case[e].status \notin Resolved BY <1>7 DEF ApproveRead, Resolved
    <2>2. case[e].proposed \in Crew /\ case[e].phase \in {"PRE_TRIP", "MID_TRIP"}
      BY <1>1 DEF Case
    <2>3. x \in Slot /\ x.at = "approve" /\ x.case = e /\ x.phase = case[e].phase
      BY <2>2, IdleTyped DEF Slot, Labels
    <2> HIDE DEF x
    <2>4. SlotGood(x) BY <2>1, <2>3 DEF SlotGood, GatesGood, CaseGood
    <2> QED BY <2>1, <2>3, <2>4 DEF Fresh
  <1>8. CASE ContinueRead(c, e)
    <2> DEFINE x == [Idle EXCEPT !.at = "continue", !.case = e, !.phase = case[e].phase]
    <2>1. Begins(c, x) /\ case[e].status \notin Resolved
      BY <1>8 DEF ContinueRead, Open, Resolved
    <2>2. case[e].phase \in {"PRE_TRIP", "MID_TRIP"} BY <1>1 DEF Case
    <2>3. x \in Slot /\ x.at = "continue" /\ x.case = e BY <2>2, IdleTyped DEF Slot, Labels
    <2> HIDE DEF x
    <2>4. SlotGood(x) BY <2>1, <2>3 DEF SlotGood, GatesGood, CaseGood
    <2> QED BY <2>1, <2>3, <2>4 DEF Fresh
  <1> QED BY <1>3, <1>4, <1>5, <1>6, <1>7, <1>8

LEMMA Receiving ==
  ASSUME TypeOK, NEW c \in Calls, Receives(c)
  PROVE  /\ Fresh(c) \/ UNCHANGED call
         /\ UNCHANGED <<trip, award, job, massDue, fleet, case, passedBy, rest>>
         /\ swept' \subseteq swept
  <1>1. Fresh(c) \/ UNCHANGED call
    BY GateRead, OpenReads, CrewReads, CaseReads DEF Receives, Decides
  <1>2. ASSUME NEW e \in Cases, Decides(c, e)
        PROVE  /\ UNCHANGED <<trip, award, job, massDue, fleet, case, passedBy, rest>>
               /\ swept' \subseteq swept
    BY <1>2 DEF Decides, ProposeRead, ApproveRead, RejectRead, ContinueRead, EscalateRead,
                ReleaseRead, SweepRead
  <1> QED BY <1>1, <1>2 DEF Receives, SafetyRead, MassRead, OpenRead, StartRead, ReassignRead

-----------------------------------------------------------------------------
(* Types. *)

LEMMA Settling ==
  ASSUME TypeOK, NEW e, NEW st \in CaseStatus, Settle(e, st) PROVE case' \in [Cases -> Case]
  BY DEF TypeOK, RowsTyped, Settle, Case

LEMMA GateTypes ==
  ASSUME TypeOK, NEW c \in Calls,
         \/ GroundVehicle(c) \/ SafetyFail(c) \/ SafetyPass(c) \/ LiftVehicle(c)
         \/ MassWrite(c) \/ MassBill(c) \/ StartInspect(c) \/ StartWrite(c)
  PROVE  TypeOK'
  <1>1. call[c] \in Slot /\ trip \in Trip BY Called DEF TypeOK, RowsTyped
  <1>2. call[c].crew \in Crew /\ call[c].flag \in BOOLEAN BY <1>1 DEF Slot
  <1>3. CASE GroundVehicle(c)
    <2> DEFINE v == call[c].crew.vehicle
               f == (vehicle[v] = "ACTIVE")
               x == [call[c] EXCEPT !.at = "failed", !.flag = f]
    <2>1. Puts(c, x) BY <1>3 DEF GroundVehicle, Puts, TypeOK
    <2>2. x \in Slot BY <1>1 DEF Slot, Labels
    <2>3. call' \in [Calls -> Slot] BY <2>1, <2>2, Putting
    <2>4. vehicle' \in [Vehicles -> FleetStatus]
      BY <1>2, <1>3 DEF GroundVehicle, TypeOK, FleetTyped, FleetStatus, Crew
    <2> QED BY <1>3, <2>3, <2>4 DEF GroundVehicle, TypeOK, RowsTyped, FleetTyped, rest
  <1>4. CASE SafetyFail(c)
    <2>1. trip' \in Trip BY <1>1, <1>2, <1>4 DEF SafetyFail, Trip, TripStatus
    <2> QED BY <1>4, <2>1, Ending DEF SafetyFail, TypeOK, RowsTyped, FleetTyped, fleet, rest
  <1>5. CASE SafetyPass(c)
    <2>1. trip' \in Trip BY <1>1, <1>5 DEF SafetyPass, Trip, TripStatus
    <2>2. passedBy' \in Drivers BY <1>2, <1>5 DEF SafetyPass, Crew
    <2>3. call' \in [Calls -> Slot] BY <1>5, Ending, Goings DEF SafetyPass, Labels
    <2> QED BY <1>5, <2>1, <2>2, <2>3 DEF SafetyPass, TypeOK, RowsTyped, FleetTyped, fleet, rest
  <1>6. CASE LiftVehicle(c)
    <2>1. vehicle' \in [Vehicles -> FleetStatus]
      BY <1>2, <1>6 DEF LiftVehicle, TypeOK, FleetTyped, FleetStatus, Crew
    <2> QED BY <1>6, <2>1, Ending DEF LiftVehicle, TypeOK, RowsTyped, FleetTyped, rest
  <1>7. CASE MassWrite(c)
    <2>1. trip' \in Trip BY <1>1, <1>7 DEF MassWrite, Trip, TripStatus
    <2>2. call' \in [Calls -> Slot] BY <1>7, Ending, Goings DEF MassWrite, Labels
    <2> QED BY <1>7, <2>1, <2>2 DEF MassWrite, TypeOK, RowsTyped, FleetTyped, fleet, rest
  <1>8. CASE MassBill(c)
    BY <1>8, Ending DEF MassBill, TypeOK, RowsTyped, FleetTyped, fleet, rest
  <1>9. CASE StartInspect(c)
    <2>1. call' \in [Calls -> Slot] BY <1>9, Ending, Goings DEF StartInspect, Labels
    <2> QED BY <1>9, <2>1 DEF StartInspect, TypeOK, RowsTyped, FleetTyped, fleet, rest
  <1>10. CASE StartWrite(c)
    <2>1. trip' \in Trip BY <1>1, <1>10 DEF StartWrite, Trip, TripStatus
    <2> QED BY <1>10, <2>1, Ending DEF StartWrite, TypeOK, RowsTyped, FleetTyped, fleet, rest
  <1> QED BY <1>3, <1>4, <1>5, <1>6, <1>7, <1>8, <1>9, <1>10

LEMMA CaseTypes ==
  ASSUME TypeOK, NEW c \in Calls,
         \/ OpenWrite(c) \/ ProposeCrew(c) \/ ProposeWrite(c) \/ ApproveWrite(c)
         \/ Reassigned(c) \/ RejectWrite(c) \/ ContinueWrite(c) \/ EscalateWrite(c)
         \/ ReleaseWrite(c)
  PROVE  TypeOK'
  <1>1. call[c] \in Slot /\ trip \in Trip BY Called DEF TypeOK, RowsTyped
  <1>2. call[c].crew \in Crew /\ call[c].phase \in {"PRE_TRIP", "MID_TRIP"} BY <1>1 DEF Slot
  <1>3. CASE OpenWrite(c)
    <2> DEFINE x == [NoCase EXCEPT !.status = "AWAITING_CARRIER", !.phase = call[c].phase]
    <2>1. x \in Case BY <1>2, IdleTyped DEF Case, CaseStatus, Open
    <2>2. \E e \in Unopened : case' = [case EXCEPT ![e] = x] BY <1>3 DEF OpenWrite
    <2> HIDE DEF x
    <2>3. case' \in [Cases -> Case] BY <2>1, <2>2 DEF TypeOK, RowsTyped
    <2>4. trip' \in Trip BY <1>1, <1>3 DEF OpenWrite, Trip, TripStatus
    <2>5. driver' \in [Drivers -> FleetStatus]
      BY <1>2, <1>3 DEF OpenWrite, TypeOK, FleetTyped, FleetStatus, Crew
    <2> QED BY <1>3, <2>3, <2>4, <2>5, Ending DEF OpenWrite, TypeOK, RowsTyped, FleetTyped, rest
  <1>4. CASE ProposeCrew(c)
    <2>1. call' \in [Calls -> Slot] BY <1>4, Ending, Goings DEF ProposeCrew, Labels
    <2> QED BY <1>4, <2>1 DEF ProposeCrew, TypeOK, RowsTyped, FleetTyped, fleet, rest
  <1>5. CASE ProposeWrite(c)
    <2>1. case' \in [Cases -> Case]
      BY <1>2, <1>5 DEF ProposeWrite, TypeOK, RowsTyped, Case, CaseStatus
    <2> QED BY <1>5, <2>1, Ending DEF ProposeWrite, TypeOK, RowsTyped, FleetTyped, fleet, rest
  <1>6. CASE ApproveWrite(c)
    <2>1. case' \in [Cases -> Case]
      BY <1>6, Settling DEF ApproveWrite, CaseStatus, Open
    <2>2. call' \in [Calls -> Slot] BY <1>6, Goings DEF ApproveWrite, Labels
    <2> QED BY <1>6, <2>1, <2>2 DEF ApproveWrite, TypeOK, RowsTyped, FleetTyped, fleet, rest
  <1>7. CASE Reassigned(c)
    <2>1. case' \in [Cases -> Case]
      BY <1>7, Settling DEF Reassigned, CaseStatus, Resolved
    <2>2. call' \in [Calls -> Slot] BY <1>7, Ending, Goings DEF Reassigned, Labels
    <2> QED BY <1>7, <2>1, <2>2 DEF Reassigned, TypeOK, RowsTyped, FleetTyped, fleet, rest
  <1>8. CASE RejectWrite(c)
    <2>1. case' \in [Cases -> Case]
      BY <1>8, Settling DEF RejectWrite, CaseStatus, Resolved
    <2>2. trip' \in Trip BY <1>1, <1>8 DEF RejectWrite, Trip, TripStatus
    <2> QED BY <1>8, <2>1, <2>2, Ending DEF RejectWrite, TypeOK, RowsTyped, FleetTyped, fleet, rest
  <1>9. CASE ContinueWrite(c)
    <2>1. case' \in [Cases -> Case]
      BY <1>9, Settling DEF ContinueWrite, CaseStatus, Resolved
    <2>2. trip' \in Trip BY <1>1, <1>9 DEF ContinueWrite, Trip, TripStatus
    <2> QED BY <1>9, <2>1, <2>2, Ending DEF ContinueWrite, TypeOK, RowsTyped, FleetTyped, fleet, rest
  <1>10. CASE EscalateWrite(c)
    <2>1. case' \in [Cases -> Case]
      BY <1>10, Settling DEF EscalateWrite, CaseStatus, Open
    <2> QED BY <1>10, <2>1, Ending DEF EscalateWrite, TypeOK, RowsTyped, FleetTyped, fleet, rest
  <1>11. CASE ReleaseWrite(c)
    <2>1. case' \in [Cases -> Case]
      BY <1>11, Settling DEF ReleaseWrite, CaseStatus, Resolved
    <2>2. trip' \in Trip BY <1>1, <1>11 DEF ReleaseWrite, Trip, TripStatus
    <2> QED BY <1>11, <2>1, <2>2, Ending DEF ReleaseWrite, TypeOK, RowsTyped, FleetTyped, fleet, rest
  <1> QED BY <1>3, <1>4, <1>5, <1>6, <1>7, <1>8, <1>9, <1>10, <1>11

LEMMA SwapTypes ==
  ASSUME TypeOK, NEW c \in Calls, SwapCheck(c) \/ SwapWrite(c) \/ BackWrite(c) PROVE TypeOK'
  <1>1. call[c] \in Slot /\ trip \in Trip BY Called DEF TypeOK, RowsTyped
  <1>2. call[c].crew \in Crew BY <1>1 DEF Slot
  <1>3. CASE SwapCheck(c)
    <2> DEFINE f == (call[c].crew.driver # trip.driver)
               x == [call[c] EXCEPT !.at = "swap", !.flag = f]
    <2>1. x \in Slot BY <1>1 DEF Slot, Labels
    <2>2. Ends(c) \/ Puts(c, x) BY <1>3 DEF SwapCheck, Puts, TypeOK
    <2>3. call' \in [Calls -> Slot] BY <2>1, <2>2, Ending, Putting
    <2> QED BY <1>3, <2>3 DEF SwapCheck, TypeOK, RowsTyped, FleetTyped, fleet, rest
  <1>4. CASE SwapWrite(c)
    <2>1. trip' \in Trip BY <1>1, <1>2, <1>4 DEF SwapWrite, Swapped, Trip, TripStatus, Crew
    <2>2. call' \in [Calls -> Slot] BY <1>4, Ending, Goings DEF SwapWrite, Labels
    <2> QED BY <1>4, <2>1, <2>2 DEF SwapWrite, TypeOK, RowsTyped, FleetTyped, fleet, rest
  <1>5. CASE BackWrite(c)
    <2>1. trip' \in Trip BY <1>1, <1>5 DEF BackWrite, Trip, TripStatus
    <2> QED BY <1>5, <2>1, Ending DEF BackWrite, TypeOK, RowsTyped, FleetTyped, fleet, rest
  <1> QED BY <1>3, <1>4, <1>5

LEMMA ElsewhereTypes ==
  ASSUME TypeOK, MassCleared \/ Complete \/ Sweep \/ FleetChange PROVE TypeOK'
  <1>1. trip \in Trip BY DEF TypeOK, RowsTyped
  <1>2. CASE MassCleared
    <2>1. trip' \in Trip BY <1>1, <1>2 DEF MassCleared, Trip
    <2> QED BY <1>2, <2>1 DEF MassCleared, TypeOK, RowsTyped, FleetTyped, fleet, rest
  <1>3. CASE Complete
    <2>1. trip' \in Trip BY <1>1, <1>3 DEF Complete, Trip, TripStatus
    <2> QED BY <1>3, <2>1 DEF Complete, TypeOK, RowsTyped, FleetTyped, fleet, rest
  <1>4. CASE Sweep BY <1>4 DEF Sweep, TypeOK, RowsTyped, FleetTyped, fleet, rest
  <1>5. CASE FleetChange BY <1>5 DEF FleetChange, TypeOK, RowsTyped, FleetTyped
  <1> QED BY <1>2, <1>3, <1>4, <1>5

LEMMA ReceiveTypes == ASSUME TypeOK, NEW c \in Calls, Receives(c) PROVE TypeOK'
  <1>1. call' \in [Calls -> Slot]
    <2>1. ASSUME NEW x \in Slot, Begins(c, x) PROVE call' \in [Calls -> Slot]
      BY <2>1 DEF Begins, TypeOK
    <2> QED BY <2>1, Receiving DEF Fresh, TypeOK
  <1> QED BY <1>1, Receiving DEF TypeOK, RowsTyped, FleetTyped, fleet, rest

LEMMA CrashTypes == ASSUME TypeOK, NEW c \in Calls, Crash(c) PROVE TypeOK'
  BY Ending DEF Crash, TypeOK, RowsTyped, FleetTyped, fleet

LEMMA InitTypes == Init => TypeOK
  <1> SUFFICES ASSUME Init PROVE TypeOK OBVIOUS
  <1>1. trip \in Trip BY IdleTyped DEF Init, Trip, TripStatus, Crew
  <1>2. SomeCrew.driver \in Drivers BY IdleTyped DEF Crew
  <1> QED BY <1>1, <1>2, IdleTyped DEF Init, TypeOK, RowsTyped, FleetTyped, FleetStatus

LEMMA StepTypes == TypeOK /\ [Next]_vars => TypeOK'
  <1> SUFFICES ASSUME TypeOK, [Next]_vars PROVE TypeOK' OBVIOUS
  <1>1. ASSUME NEW c \in Calls, Steps(c) PROVE TypeOK'
    BY <1>1, GateTypes, CaseTypes, SwapTypes DEF Steps
  <1>2. ASSUME UNCHANGED vars PROVE TypeOK'
    BY <1>2 DEF vars, TypeOK, RowsTyped, FleetTyped
  <1> QED BY <1>1, <1>2, ElsewhereTypes, ReceiveTypes, CrashTypes DEF Next

(* Every row, every request and the watchdog's list keep their types.      *)
THEOREM DeskTypeCorrect == Spec => []TypeOK
  BY InitTypes, StepTypes, PTL DEF Spec

-----------------------------------------------------------------------------
(* One request at a time: a step of c meets only idle slots beside it.     *)
Alone(c) == \A d \in Calls \ {c} : call'[d] = call[d] /\ ~Working(d)

LEMMA BegunAlone ==
  ASSUME TypeOK, OneAtATime, scope.width = 1, NEW c \in Calls, NEW x \in Slot, Begins(c, x)
  PROVE  Alone(c) /\ call'[c] = x /\ ~Working(c)
  <1>1. Moves(c) /\ call'[c] = x /\ ~Working(c) BY DEF Begins, Moves, TypeOK, Working
  <1>2. ASSUME NEW d \in Calls, Working(d) PROVE FALSE
    <2>1. Busy = {d} BY <1>2 DEF Busy, OneAtATime, Working
    <2>2. Cardinality({d}) = 1 BY FS_Singleton
    <2> QED BY <2>1, <2>2 DEF Begins
  <1> QED BY <1>1, <1>2 DEF Alone, Moves

LEMMA WorksAlone ==
  ASSUME OneAtATime, NEW c \in Calls, Working(c), Moves(c) PROVE Alone(c)
  BY DEF OneAtATime, Moves, Alone

LEMMA AloneFits ==
  ASSUME OneAtATime, NEW c \in Calls, Alone(c), NEW y, y = call'[c], SlotGood(y)',
         Cleared', Answered'
  PROVE  SerialFits'
  <1>1. OneAtATime' BY DEF OneAtATime, Alone, Working
  <1>2. SlotsGood'
    <2> SUFFICES ASSUME NEW d \in Calls, NEW x, x = call'[d] PROVE SlotGood(x)' BY DEF SlotsGood
    <2>1. CASE d = c BY <2>1
    <2>2. CASE d # c
      <3>1. x.at = "idle" BY <2>2 DEF Alone, Working
      <3> QED BY <3>1 DEF SlotGood, GatesGood, CaseGood
    <2> QED BY <2>1, <2>2
  <1> QED BY <1>1, <1>2 DEF SerialFits

LEMMA IdleGood == ASSUME NEW x, x.at = "idle" PROVE SlotGood(x)'
  BY DEF SlotGood, GatesGood, CaseGood

(* The request that works, what it read, and what it leaves.               *)
LEMMA Runs ==
  ASSUME TypeOK, SerialFits, NEW c \in Calls, Working(c), NEW x, Puts(c, x), x \in Slot
  PROVE  /\ Alone(c) /\ call'[c] = x /\ OneAtATime /\ Cleared /\ Answered
         /\ call[c] \in Slot /\ SlotGood(call[c]) /\ trip \in Trip
  BY Putting, WorksAlone, Called DEF SerialFits, SlotsGood, TypeOK, RowsTyped

(* A trip in BREAKDOWN keeps the exception that waits for it.              *)
LEMMA AnsweredStays ==
  ASSUME Answered, NEW c \in Calls, Alone(c), call[c].at # "back", upsets' = upsets,
         trip'.status \in {trip.status} \cup (TripStatus \ {"BREAKDOWN"}),
         \/ trip'.status # "BREAKDOWN"
         \/ \A e \in Cases : Waits(e) => Waits(e)'
  PROVE  Answered'
  <1>1. \A d \in Calls : call[d].at # "back" BY DEF Alone, Working
  <1> QED BY <1>1 DEF Answered

LEMMA WaitsOn == ASSUME UNCHANGED case PROVE \A e \in Cases : Waits(e) => Waits(e)'
  BY DEF Waits

(* A slot that goes on while no row it reads changes. *)
LEMMA GoodStays ==
  ASSUME UNCHANGED <<trip, case>>, NEW x, SlotGood(x) PROVE SlotGood(x)'
  BY DEF SlotGood, GatesGood, CaseGood

LEMMA ReceiveFits ==
  ASSUME TypeOK, SerialFits, scope.width = 1, NEW c \in Calls, Receives(c) PROVE SerialFits'
  <1>1. UNCHANGED <<trip, case, passedBy, upsets>> BY Receiving DEF rest
  <1>2. Cleared' BY <1>1 DEF SerialFits, Cleared
  <1>3. CASE Fresh(c)
    <2>1. PICK x \in Slot : Begins(c, x) /\ x.at \notin {"idle", "back"} /\ SlotGood(x)
      BY <1>3 DEF Fresh
    <2>2. Alone(c) /\ call'[c] = x /\ ~Working(c) BY <2>1, BegunAlone DEF SerialFits
    <2>3. SlotGood(x)' BY <1>1, <2>1, GoodStays
    <2>4. Answered'
      <3>1. call[c].at # "back" BY <2>2 DEF Working
      <3> QED BY <1>1, <2>2, <3>1, WaitsOn, AnsweredStays DEF SerialFits
    <2> QED BY <1>2, <2>2, <2>3, <2>4, AloneFits DEF SerialFits
  <1>4. CASE UNCHANGED call
    <2>1. OneAtATime' BY <1>4 DEF SerialFits, OneAtATime, Working
    <2>2. Answered' BY <1>1, <1>4 DEF SerialFits, Answered, Waits
    <2>3. SlotsGood'
      <3> SUFFICES ASSUME NEW d \in Calls, NEW x, x = call'[d] PROVE SlotGood(x)' BY DEF SlotsGood
      <3>1. SlotGood(x) BY <1>4 DEF SerialFits, SlotsGood
      <3> QED BY <1>1, <3>1, GoodStays
    <2> QED BY <1>2, <2>1, <2>2, <2>3 DEF SerialFits
  <1> QED BY <1>3, <1>4, Receiving

-----------------------------------------------------------------------------
LEMMA SafetyFits ==
  ASSUME TypeOK, SerialFits, NEW c \in Calls,
         GroundVehicle(c) \/ SafetyFail(c) \/ SafetyPass(c) \/ LiftVehicle(c)
  PROVE  SerialFits'
  <1>1. Working(c) /\ call[c].at # "back" /\ UNCHANGED <<case, upsets>>
    BY DEF GroundVehicle, SafetyFail, SafetyPass, LiftVehicle, Working, rest
  <1>2. call[c] \in Slot BY Called
  <1>3. CASE GroundVehicle(c)
    <2> DEFINE v == call[c].crew.vehicle
               f == (vehicle[v] = "ACTIVE")
               x == [call[c] EXCEPT !.at = "failed", !.flag = f]
    <2>1. Puts(c, x) BY <1>3 DEF GroundVehicle, Puts, TypeOK
    <2>2. x \in Slot /\ x.at = "failed" /\ x.case = call[c].case BY <1>2 DEF Slot, Labels
    <2> HIDE DEF x
    <2>3. /\ Alone(c) /\ call'[c] = x /\ OneAtATime /\ Cleared /\ Answered
          /\ SlotGood(call[c])
      BY <1>1, <2>1, <2>2, Runs
    <2>4. UNCHANGED <<trip, passedBy>> /\ call[c].at = "ground" BY <1>3 DEF GroundVehicle
    <2>5. PICK y : y = call'[c] /\ y.at = "failed" /\ y.case = call[c].case BY <2>2, <2>3
    <2>6. SlotGood(y)
      BY <2>3, <2>4, <2>5 DEF SlotGood, GatesGood, CaseGood
    <2>7. SlotGood(y)' BY <1>1, <2>4, <2>6, GoodStays
    <2>8. Cleared' BY <2>3, <2>4 DEF Cleared
    <2>9. Answered' BY <1>1, <2>3, <2>4, WaitsOn, AnsweredStays
    <2> QED BY <2>3, <2>5, <2>7, <2>8, <2>9, AloneFits
  <1>4. CASE SafetyFail(c)
    <2>1. /\ Alone(c) /\ call'[c] = Idle /\ OneAtATime /\ Cleared /\ Answered
          /\ SlotGood(call[c]) /\ trip \in Trip
      BY <1>1, <1>4, IdleTyped, Ending, Runs DEF SafetyFail
    <2>2. /\ ~trip'.started /\ trip'.safety = "failed" /\ trip'.status = "PENDING_GATES"
          /\ UNCHANGED passedBy
      BY <1>4, <2>1 DEF SafetyFail, SlotGood, GatesGood, Trip
    <2>3. Cleared' BY <2>2 DEF Cleared
    <2>4. Answered' BY <2>2 DEF Answered
    <2>5. PICK y : y = call'[c] /\ y.at = "idle" BY <2>1, IdleTyped
    <2>6. SlotGood(y)' BY <2>5, IdleGood
    <2> QED BY <2>1, <2>3, <2>4, <2>5, <2>6, AloneFits
  <1>5. CASE SafetyPass(c)
    <2>1. \/ Puts(c, Idle)
          \/ Puts(c, Onward(call[c], "lift"))
      BY <1>5, Ending, Goings DEF SafetyPass, Labels
    <2>2. Onward(call[c], "lift") \in Slot /\ Onward(call[c], "lift").at = "lift"
          /\ Onward(call[c], "lift").case = call[c].case
      BY <1>2, Going DEF Labels
    <2>3. /\ Alone(c) /\ OneAtATime /\ Cleared /\ Answered
          /\ SlotGood(call[c]) /\ trip \in Trip
          /\ call'[c] \in {Idle, Onward(call[c], "lift")}
      BY <1>1, <2>1, <2>2, IdleTyped, Runs
    <2>4. /\ trip'.started = trip.started /\ trip'.safety = "passed" /\ trip'.mass = trip.mass
          /\ trip'.status = "EN_ROUTE_PICKUP" /\ trip'.driver = trip.driver
          /\ passedBy' = call[c].crew.driver /\ call[c].at = "passed"
      BY <1>5, <2>3 DEF SafetyPass, Trip
    <2>5. Cleared' BY <2>3, <2>4 DEF Cleared, SlotGood, GatesGood
    <2>6. Answered' BY <2>4 DEF Answered
    <2>7. PICK y : y = call'[c] /\ y.at \in {"idle", "lift"}
                   /\ (y.at = "lift" => y.case = call[c].case)
      BY <2>2, <2>3, IdleTyped
    <2>8. SlotGood(y)'
      <3>1. GatesGood(y)' BY <2>7 DEF GatesGood
      <3>2. CaseGood(y)' BY <1>1, <2>3, <2>4, <2>7 DEF SlotGood, CaseGood
      <3> QED BY <3>1, <3>2 DEF SlotGood
    <2> QED BY <2>3, <2>5, <2>6, <2>7, <2>8, AloneFits
  <1>6. CASE LiftVehicle(c)
    <2>1. Alone(c) /\ call'[c] = Idle /\ OneAtATime /\ Cleared /\ Answered
      BY <1>1, <1>6, IdleTyped, Ending, Runs DEF LiftVehicle
    <2>2. UNCHANGED <<trip, passedBy>> BY <1>6 DEF LiftVehicle
    <2>3. Cleared' BY <2>1, <2>2 DEF Cleared
    <2>4. Answered' BY <1>1, <2>1, <2>2, WaitsOn, AnsweredStays
    <2>5. PICK y : y = call'[c] /\ y.at = "idle" BY <2>1, IdleTyped
    <2>6. SlotGood(y)' BY <2>5, IdleGood
    <2> QED BY <2>1, <2>3, <2>4, <2>5, <2>6, AloneFits
  <1> QED BY <1>3, <1>4, <1>5, <1>6

(* A request that ends leaves nothing to remember. *)
LEMMA EndAlone ==
  ASSUME TypeOK, SerialFits, NEW c \in Calls, Working(c), Ends(c)
  PROVE  /\ Alone(c) /\ OneAtATime /\ Cleared /\ Answered
         /\ SlotGood(call[c]) /\ call[c] \in Slot /\ trip \in Trip
  BY IdleTyped, Ending, Runs

LEMMA EndFits ==
  ASSUME TypeOK, SerialFits, NEW c \in Calls, Working(c), Ends(c), Cleared', Answered'
  PROVE  SerialFits'
  <1>1. Alone(c) /\ call'[c] = Idle /\ OneAtATime BY IdleTyped, Ending, Runs
  <1>2. PICK y : y = call'[c] /\ y.at = "idle" BY <1>1, IdleTyped
  <1>3. SlotGood(y)' BY <1>2, IdleGood
  <1> QED BY <1>1, <1>2, <1>3, AloneFits

LEMMA GoAlone ==
  ASSUME TypeOK, SerialFits, NEW c \in Calls, Working(c), NEW l \in Labels, Goes(c, l)
  PROVE  /\ Alone(c) /\ OneAtATime /\ Cleared /\ Answered
         /\ SlotGood(call[c]) /\ call[c] \in Slot /\ trip \in Trip
         /\ \E y : /\ y = call'[c] /\ y.at = l /\ y.case = call[c].case /\ y.crew = call[c].crew
                   /\ y.flag = call[c].flag /\ y.phase = call[c].phase
  BY Called, Going, Goings, Runs

LEMMA MassFits ==
  ASSUME TypeOK, SerialFits, NEW c \in Calls, MassWrite(c) \/ MassBill(c) PROVE SerialFits'
  <1>1. Working(c) /\ call[c].at # "back" /\ UNCHANGED <<case, upsets, passedBy>>
    BY DEF MassWrite, MassBill, Working, rest
  <1>2. CASE MassBill(c)
    <2>1. Ends(c) /\ UNCHANGED trip BY <1>2 DEF MassBill
    <2>2. Cleared' BY <1>1, <2>1 DEF SerialFits, Cleared
    <2>3. Answered' BY <1>1, <2>1, EndAlone, WaitsOn, AnsweredStays
    <2> QED BY <1>1, <2>1, <2>2, <2>3, EndFits
  <1>3. CASE MassWrite(c)
    <2>1. /\ trip \in Trip /\ Cleared /\ SlotGood(call[c])
      BY DEF SerialFits, SlotsGood, TypeOK, RowsTyped
    <2>2. /\ trip'.started = trip.started /\ trip'.safety = trip.safety
          /\ trip'.mass = (IF call[c].at = "overweight" THEN "over" ELSE "ok")
          /\ trip'.status = "AT_PICKUP" /\ trip'.driver = trip.driver
      BY <1>3, <2>1 DEF MassWrite, Trip
    <2>3. Cleared' BY <1>1, <2>1, <2>2 DEF Cleared, SlotGood, GatesGood
    <2>4. Answered' BY <2>2 DEF Answered
    <2>5. CASE Ends(c) BY <1>1, <2>3, <2>4, <2>5, EndFits
    <2>6. CASE Goes(c, "bill")
      <3>1. /\ Alone(c) /\ OneAtATime /\ CaseGood(call[c])
            /\ \E y : y = call'[c] /\ y.at = "bill" /\ y.case = call[c].case
        BY <1>1, <2>6, GoAlone DEF Labels, SlotGood
      <3>2. PICK y : y = call'[c] /\ y.at = "bill" /\ y.case = call[c].case BY <3>1
      <3>3. SlotGood(y)'
        BY <1>1, <1>3, <3>1, <3>2 DEF SlotGood, GatesGood, CaseGood, MassWrite
      <3> QED BY <2>3, <2>4, <3>1, <3>2, <3>3, AloneFits
    <2> QED BY <1>3, <2>5, <2>6 DEF MassWrite
  <1> QED BY <1>2, <1>3

LEMMA StartFits ==
  ASSUME TypeOK, SerialFits, NEW c \in Calls, StartInspect(c) \/ StartWrite(c) PROVE SerialFits'
  <1>1. Working(c) /\ call[c].at # "back" /\ UNCHANGED <<case, upsets, passedBy>>
    BY DEF StartInspect, StartWrite, Working, rest
  <1>2. trip \in Trip /\ Cleared /\ SlotGood(call[c])
    BY DEF SerialFits, SlotsGood, TypeOK, RowsTyped
  <1>3. CASE StartInspect(c)
    <2>1. UNCHANGED trip /\ call[c].at = "inspect" BY <1>3 DEF StartInspect
    <2>2. Cleared' BY <1>1, <2>1 DEF SerialFits, Cleared
    <2>3. Alone(c) => Answered' BY <1>1, <2>1, WaitsOn, AnsweredStays DEF SerialFits
    <2>4. CASE Ends(c) BY <1>1, <2>2, <2>3, <2>4, EndAlone, EndFits
    <2>5. CASE Goes(c, "start")
      <3>1. /\ Alone(c) /\ OneAtATime
            /\ \E y : y = call'[c] /\ y.at = "start" /\ y.case = call[c].case
        BY <1>1, <2>5, GoAlone DEF Labels
      <3>2. PICK y : y = call'[c] /\ y.at = "start" /\ y.case = call[c].case BY <3>1
      <3>3. SlotGood(y) BY <1>2, <2>1, <3>2 DEF SlotGood, GatesGood, CaseGood
      <3>4. SlotGood(y)' BY <1>1, <2>1, <3>3, GoodStays
      <3> QED BY <2>2, <2>3, <3>1, <3>2, <3>4, AloneFits
    <2> QED BY <1>3, <2>4, <2>5 DEF StartInspect
  <1>4. CASE StartWrite(c)
    <2>1. /\ trip'.safety = trip.safety /\ trip'.mass = trip.mass /\ trip'.driver = trip.driver
          /\ trip'.status = "IN_TRANSIT" /\ Ends(c) /\ call[c].at = "start"
      BY <1>2, <1>4 DEF StartWrite, Trip
    <2>2. Cleared' BY <1>1, <1>2, <2>1 DEF Cleared, SlotGood, GatesGood
    <2>3. Answered' BY <2>1 DEF Answered
    <2> QED BY <1>1, <2>1, <2>2, <2>3, EndFits
  <1> QED BY <1>3, <1>4

-----------------------------------------------------------------------------
(* A step that only writes exceptions, and may write the trip's status. *)
LEMMA ClearedStays ==
  ASSUME TypeOK, Cleared, UNCHANGED passedBy, trip'.started = trip.started,
         trip'.safety = trip.safety, trip'.mass = trip.mass, trip'.driver = trip.driver
  PROVE  Cleared'
  BY DEF Cleared

LEMMA SettledCase ==
  ASSUME TypeOK, NEW e \in Cases, NEW st, Settle(e, st)
  PROVE  /\ case'[e].status = st /\ case'[e].phase = case[e].phase
         /\ \A d \in Cases \ {e} : case'[d] = case[d]
  <1>1. case \in [Cases -> Case] /\ case[e] \in Case BY DEF TypeOK, RowsTyped
  <1> QED BY <1>1 DEF Settle, Case

LEMMA SettledNone ==
  ASSUME TypeOK, NEW st, Settle(0, st) PROVE case' = case
  <1>1. case \in [Cases -> Case] /\ 0 \notin Cases BY Scoped DEF TypeOK, RowsTyped
  <1> QED BY <1>1 DEF Settle

(* An exception that is settled but goes on waiting. *)
LEMMA SettledWaits ==
  ASSUME TypeOK, NEW e \in {0} \cup Cases, NEW st \in Open \cup {"AWAITING_SENDER_APPROVAL"},
         Settle(e, st), NEW d \in Cases, Waits(d)
  PROVE  Waits(d)'
  <1>1. CASE e = 0 BY <1>1, SettledNone DEF Waits
  <1>2. CASE e # 0
    <2>1. e \in Cases BY <1>2
    <2>2. CASE d = e BY <2>1, <2>2, SettledCase DEF Waits
    <2>3. CASE d # e BY <2>1, <2>3, SettledCase DEF Waits
    <2> QED BY <2>2, <2>3
  <1> QED BY <1>1, <1>2

LEMMA OpenFits ==
  ASSUME TypeOK, SerialFits, NEW c \in Calls, OpenWrite(c) PROVE SerialFits'
  <1>1. Working(c) /\ Ends(c) /\ UNCHANGED <<upsets, passedBy>>
    BY DEF OpenWrite, Working, rest
  <1>2. trip \in Trip /\ Cleared /\ Answered /\ Alone(c)
    BY <1>1, EndAlone
  <1>3. /\ trip'.started = trip.started /\ trip'.safety = trip.safety
        /\ trip'.mass = trip.mass /\ trip'.driver = trip.driver
        /\ trip'.status = (IF call[c].phase = "MID_TRIP" THEN "BREAKDOWN" ELSE trip.status)
    BY <1>2 DEF OpenWrite, Trip
  <1>4. Cleared' BY <1>1, <1>2, <1>3, ClearedStays
  <1> DEFINE x == [NoCase EXCEPT !.status = "AWAITING_CARRIER", !.phase = call[c].phase]
  <1>5. x.status = "AWAITING_CARRIER" /\ x.phase = call[c].phase BY IdleTyped DEF Case
  <1>6. PICK e \in Unopened : case' = [case EXCEPT ![e] = x] BY DEF OpenWrite
  <1> HIDE DEF x
  <1>7. /\ e \in Cases /\ case[e].status = "NONE" /\ case'[e] = x
        /\ \A d \in Cases : d # e => case'[d] = case[d]
    BY <1>6, Scoped DEF Unopened, TypeOK, RowsTyped
  <1>8. Answered'
    <2>1. CASE call[c].phase = "MID_TRIP"
      <3>1. Waits(e)' BY <1>5, <1>7, <2>1 DEF Waits, Open
      <3> QED BY <1>7, <3>1 DEF Answered
    <2>2. CASE call[c].phase # "MID_TRIP"
      <3>1. \A d \in Cases : Waits(d) => Waits(d)' BY <1>7 DEF Waits, Open
      <3>2. call[c].at # "back" BY DEF OpenWrite
      <3> QED BY <1>1, <1>2, <1>3, <2>2, <3>1, <3>2, AnsweredStays
    <2> QED BY <2>1, <2>2
  <1> QED BY <1>1, <1>4, <1>8, EndFits

LEMMA ProposeFits ==
  ASSUME TypeOK, SerialFits, NEW c \in Calls, ProposeCrew(c) \/ ProposeWrite(c) PROVE SerialFits'
  <1>1. Working(c) /\ call[c].at # "back" /\ UNCHANGED <<trip, upsets, passedBy>>
    BY DEF ProposeCrew, ProposeWrite, Working, rest
  <1>2. Cleared' BY <1>1 DEF SerialFits, Cleared
  <1>3. CASE ProposeCrew(c)
    <2>1. UNCHANGED case /\ call[c].at = "crew" BY <1>3 DEF ProposeCrew
    <2>2. Alone(c) => Answered' BY <1>1, <2>1, WaitsOn, AnsweredStays DEF SerialFits
    <2>3. CASE Ends(c) BY <1>1, <1>2, <2>2, <2>3, EndAlone, EndFits
    <2>4. CASE Goes(c, "propose")
      <3>1. /\ Alone(c) /\ OneAtATime /\ SlotGood(call[c])
            /\ \E y : y = call'[c] /\ y.at = "propose" /\ y.case = call[c].case
        BY <1>1, <2>4, GoAlone DEF Labels
      <3>2. PICK y : y = call'[c] /\ y.at = "propose" /\ y.case = call[c].case BY <3>1
      <3>3. SlotGood(y) BY <2>1, <3>1, <3>2 DEF SlotGood, GatesGood, CaseGood
      <3>4. SlotGood(y)' BY <1>1, <2>1, <3>3, GoodStays
      <3> QED BY <1>2, <2>2, <3>1, <3>2, <3>4, AloneFits
    <2> QED BY <1>3, <2>3, <2>4 DEF ProposeCrew
  <1>4. CASE ProposeWrite(c)
    <2> DEFINE e == call[c].case
    <2>1. Ends(c) /\ Alone(c) /\ call[c] \in Slot /\ Answered
      BY <1>1, <1>4, EndAlone DEF ProposeWrite
    <2>2. case \in [Cases -> Case] BY DEF TypeOK, RowsTyped
    <2>3. ASSUME NEW d \in Cases, Waits(d) PROVE Waits(d)'
      <3>1. case[d] \in Case BY <2>2
      <3>2. CASE d = e
        <4>1. case'[d].status = "AWAITING_SENDER_APPROVAL" /\ case'[d].phase = case[d].phase
          BY <1>4, <2>2, <3>1, <3>2 DEF ProposeWrite, Case
        <4> QED BY <2>3, <4>1 DEF Waits
      <3>3. CASE d # e
        <4>1. case'[d] = case[d] BY <1>4, <2>2, <3>3 DEF ProposeWrite
        <4> QED BY <2>3, <4>1 DEF Waits
      <3> QED BY <3>2, <3>3
    <2>4. Answered' BY <1>1, <2>1, <2>3, AnsweredStays
    <2> QED BY <1>1, <1>2, <2>1, <2>4, EndFits
  <1> QED BY <1>3, <1>4

LEMMA ApproveFits ==
  ASSUME TypeOK, SerialFits, NEW c \in Calls, ApproveWrite(c) PROVE SerialFits'
  <1> DEFINE e == call[c].case
  <1>1. /\ Working(c) /\ call[c].at = "approve" /\ UNCHANGED <<trip, upsets, passedBy>>
        /\ Settle(e, "REASSIGN_IN_PROGRESS") /\ Goes(c, "check")
    BY DEF ApproveWrite, Working, rest
  <1>2. /\ Alone(c) /\ OneAtATime /\ Answered /\ SlotGood(call[c]) /\ call[c] \in Slot
        /\ \E y : y = call'[c] /\ y.at = "check" /\ y.case = e /\ y.phase = call[c].phase
    BY <1>1, GoAlone DEF Labels
  <1>3. PICK y : y = call'[c] /\ y.at = "check" /\ y.case = e /\ y.phase = call[c].phase
    BY <1>2
  <1>4. Cleared' BY <1>1 DEF SerialFits, Cleared
  <1>5. e \in {0} \cup Cases BY <1>2 DEF Slot
  <1>6. Answered'
    <2>1. \A d \in Cases : Waits(d) => Waits(d)' BY <1>1, <1>5, SettledWaits DEF Open
    <2> QED BY <1>1, <1>2, <2>1, AnsweredStays
  <1>7. SlotGood(y)'
    <2>1. CASE e = 0 BY <1>3, <2>1 DEF SlotGood, GatesGood, CaseGood
    <2>2. CASE e # 0
      <3>1. case'[e].status = "REASSIGN_IN_PROGRESS" /\ case'[e].phase = case[e].phase
        BY <1>1, <1>5, <2>2, SettledCase
      <3>2. call[c].phase = case[e].phase BY <1>1, <1>2, <2>2 DEF SlotGood, CaseGood
      <3> HIDE DEF e
      <3> QED BY <1>3, <3>1, <3>2 DEF SlotGood, GatesGood, CaseGood, Resolved
    <2> QED BY <2>1, <2>2
  <1> QED BY <1>2, <1>3, <1>4, <1>6, <1>7, AloneFits

(* Another driver takes over with no gate behind him. *)
LEMMA SwapFits ==
  ASSUME TypeOK, SerialFits, NEW c \in Calls, SwapCheck(c) \/ SwapWrite(c) PROVE SerialFits'
  <1>1. Working(c) /\ call[c].at # "back" /\ UNCHANGED <<case, upsets, passedBy>>
    BY DEF SwapCheck, SwapWrite, Working, rest
  <1>2. trip \in Trip /\ Cleared /\ Answered /\ SlotGood(call[c]) /\ call[c] \in Slot
    BY Called DEF SerialFits, SlotsGood, TypeOK, RowsTyped
  <1>3. CASE SwapCheck(c)
    <2> DEFINE f == (call[c].crew.driver # trip.driver)
               x == [call[c] EXCEPT !.at = "swap", !.flag = f]
    <2>1. UNCHANGED trip /\ call[c].at = "check" /\ (Ends(c) \/ Puts(c, x))
      BY <1>3 DEF SwapCheck, Puts, TypeOK
    <2>2. Cleared' BY <1>1, <1>2, <2>1 DEF Cleared
    <2>3. Alone(c) => Answered' BY <1>1, <1>2, <2>1, WaitsOn, AnsweredStays
    <2>4. CASE Ends(c) BY <1>1, <2>2, <2>3, <2>4, EndAlone, EndFits
    <2>5. CASE Puts(c, x)
      <3>1. /\ x \in Slot /\ x.at = "swap" /\ x.case = call[c].case /\ x.flag = f
            /\ x.crew = call[c].crew /\ x.phase = call[c].phase
        BY <1>2 DEF Slot, Labels
      <3> HIDE DEF x
      <3>2. Alone(c) /\ call'[c] = x /\ OneAtATime BY <1>1, <2>5, <3>1, Runs
      <3>3. PICK y : y = x BY <3>1
      <3>4. SlotGood(y)
        <4>1. GatesGood(y) BY <3>1, <3>3 DEF GatesGood
        <4>2. CaseGood(y) BY <1>2, <2>1, <3>1, <3>3 DEF SlotGood, CaseGood
        <4> QED BY <4>1, <4>2 DEF SlotGood
      <3>5. SlotGood(y)' BY <1>1, <2>1, <3>4, GoodStays
      <3> QED BY <2>2, <2>3, <3>2, <3>3, <3>5, AloneFits
    <2> QED BY <2>1, <2>4, <2>5
  <1>4. CASE SwapWrite(c)
    <2>1. trip' = Swapped(trip, call[c].crew, call[c].flag) /\ call[c].at = "swap"
      BY <1>4 DEF SwapWrite
    <2>2. Cleared'
      <3>1. CASE call[c].flag
        <4>1. trip'.started = FALSE /\ trip'.safety = "none"
          BY <1>2, <2>1, <3>1 DEF Swapped, Trip
        <4> QED BY <4>1 DEF Cleared
      <3>2. CASE ~call[c].flag
        <4>1. /\ trip'.started = trip.started /\ trip'.safety = trip.safety
              /\ trip'.mass = trip.mass /\ trip'.driver = call[c].crew.driver
          BY <1>2, <2>1, <3>2 DEF Swapped, Trip
        <4>2. call[c].crew.driver = trip.driver BY <1>2, <2>1, <3>2 DEF SlotGood, GatesGood
        <4> QED BY <1>1, <1>2, <4>1, <4>2, ClearedStays
      <3> QED BY <3>1, <3>2
    <2>3. trip'.status \in {trip.status, "PENDING_GATES"}
      BY <1>2, <2>1 DEF Swapped, Trip
    <2>4. Alone(c) => Answered'
      BY <1>1, <1>2, <2>3, WaitsOn, AnsweredStays DEF TripStatus
    <2>5. CASE Ends(c) BY <1>1, <2>2, <2>4, <2>5, EndAlone, EndFits
    <2>6. CASE Goes(c, "reassigned")
      <3>1. /\ Alone(c) /\ OneAtATime
            /\ \E y : /\ y = call'[c] /\ y.at = "reassigned" /\ y.case = call[c].case
                      /\ y.phase = call[c].phase
        BY <1>1, <2>6, GoAlone DEF Labels
      <3>2. PICK y : /\ y = call'[c] /\ y.at = "reassigned" /\ y.case = call[c].case
                     /\ y.phase = call[c].phase
        BY <3>1
      <3>3. SlotGood(y)' BY <1>1, <1>2, <2>1, <3>2 DEF SlotGood, GatesGood, CaseGood
      <3> QED BY <2>2, <2>4, <3>1, <3>2, <3>3, AloneFits
    <2> QED BY <1>4, <2>5, <2>6 DEF SwapWrite
  <1> QED BY <1>3, <1>4

(* A trip that broke down is taken back before its exception's request is  *)
(* over; the exception of another phase leaves the one that waits alone.   *)
LEMMA ReassignedFits ==
  ASSUME TypeOK, SerialFits, NEW c \in Calls, Reassigned(c) PROVE SerialFits'
  <1> DEFINE e == call[c].case
  <1>1. /\ Working(c) /\ call[c].at = "reassigned" /\ UNCHANGED <<trip, upsets, passedBy>>
        /\ Settle(e, "RESOLVED_REASSIGNED")
    BY DEF Reassigned, Working, rest
  <1>2. Answered /\ SlotGood(call[c]) /\ call[c] \in Slot /\ e \in {0} \cup Cases
    BY Called DEF SerialFits, SlotsGood, Slot
  <1>3. Cleared' BY <1>1 DEF SerialFits, Cleared
  <1>4. CASE Goes(c, "back")
    <2>1. Alone(c) /\ OneAtATime /\ \E y : y = call'[c] /\ y.at = "back"
      BY <1>1, <1>4, GoAlone DEF Labels
    <2>2. PICK y : y = call'[c] /\ y.at = "back" BY <2>1
    <2>3. SlotGood(y)' BY <2>2 DEF SlotGood, GatesGood, CaseGood
    <2>4. Answered' BY <2>2 DEF Answered
    <2> QED BY <1>3, <2>1, <2>2, <2>3, <2>4, AloneFits
  <1>5. CASE Ends(c) /\ call[c].phase # "MID_TRIP"
    <2>1. \A d \in Cases : Waits(d) => Waits(d)'
      <3>1. CASE e = 0 BY <1>1, <3>1, SettledNone, WaitsOn
      <3>2. CASE e # 0
        <4>1. ~Waits(e) BY <1>1, <1>2, <1>5, <3>2 DEF SlotGood, CaseGood, Waits
        <4>2. \A d \in Cases : d # e => case'[d] = case[d]
          BY <1>1, <1>2, <3>2, SettledCase
        <4> QED BY <4>1, <4>2 DEF Waits
      <3> QED BY <3>1, <3>2
    <2>2. Answered' BY <1>1, <1>5, <2>1, EndAlone, AnsweredStays
    <2> QED BY <1>1, <1>3, <1>5, <2>2, EndFits
  <1> QED BY <1>4, <1>5 DEF Reassigned, Back

LEMMA ResolveFits ==
  ASSUME TypeOK, SerialFits, NEW c \in Calls,
         BackWrite(c) \/ RejectWrite(c) \/ ContinueWrite(c) \/ EscalateWrite(c) \/ ReleaseWrite(c)
  PROVE  SerialFits'
  <1>1. Working(c) /\ Ends(c) /\ UNCHANGED <<upsets, passedBy>>
    BY DEF BackWrite, RejectWrite, ContinueWrite, EscalateWrite, ReleaseWrite, Working, rest
  <1>2. /\ trip \in Trip /\ Cleared /\ Answered /\ Alone(c) /\ call[c] \in Slot
    BY <1>1, EndAlone
  <1>3. /\ trip'.started = trip.started /\ trip'.safety = trip.safety
        /\ trip'.mass = trip.mass /\ trip'.driver = trip.driver
        /\ trip'.status # "BREAKDOWN" \/ EscalateWrite(c)
    BY <1>2 DEF BackWrite, RejectWrite, ContinueWrite, EscalateWrite, ReleaseWrite, Trip
  <1>4. Cleared' BY <1>1, <1>2, <1>3, ClearedStays
  <1>5. CASE trip'.status # "BREAKDOWN"
    <2>1. Answered' BY <1>5 DEF Answered
    <2> QED BY <1>1, <1>4, <2>1, EndFits
  <1>6. CASE EscalateWrite(c)
    <2>1. UNCHANGED trip /\ call[c].at # "back" /\ Settle(call[c].case, "ESCALATED")
      BY <1>6 DEF EscalateWrite
    <2>2. call[c].case \in {0} \cup Cases BY <1>2 DEF Slot
    <2>3. \A d \in Cases : Waits(d) => Waits(d)' BY <2>1, <2>2, SettledWaits DEF Open
    <2>4. Answered' BY <1>1, <1>2, <2>1, <2>3, AnsweredStays
    <2> QED BY <1>1, <1>4, <2>4, EndFits
  <1> QED BY <1>3, <1>5, <1>6

LEMMA CrashFits ==
  ASSUME TypeOK, SerialFits, NEW c \in Calls, Crash(c) PROVE SerialFits'
  <1>1. Working(c) /\ Ends(c) /\ UNCHANGED <<trip, passedBy>> BY DEF Crash, Working
  <1>2. Cleared' BY <1>1 DEF SerialFits, Cleared
  <1>3. upsets' # 0 BY DEF Crash, TypeOK
  <1>4. Answered' BY <1>3 DEF Answered
  <1> QED BY <1>1, <1>2, <1>4, EndFits

(* What others do beside a request changes nothing that it read. *)
LEMMA ElsewhereFits ==
  ASSUME TypeOK, SerialFits, MassCleared \/ Complete \/ Sweep \/ FleetChange \/ UNCHANGED vars
  PROVE  SerialFits'
  <1>1. UNCHANGED <<call, case, passedBy>>
    BY DEF MassCleared, Complete, Sweep, FleetChange, vars
  <1>2. /\ trip'.started = trip.started /\ trip'.safety = trip.safety
        /\ trip'.driver = trip.driver /\ trip'.mass \in {trip.mass, "ok"}
        /\ trip'.status \in {trip.status, "COMPLETED"}
    <2>1. trip \in Trip BY DEF TypeOK, RowsTyped
    <2> QED BY <2>1 DEF MassCleared, Complete, Sweep, FleetChange, vars, Trip
  <1>3. upsets' = upsets \/ upsets' # 0
    BY DEF MassCleared, Complete, Sweep, FleetChange, vars, rest, TypeOK
  <1>4. OneAtATime' BY <1>1 DEF SerialFits, OneAtATime, Working
  <1>5. Cleared' BY <1>1, <1>2 DEF SerialFits, Cleared
  <1>6. SlotsGood'
    <2> SUFFICES ASSUME NEW d \in Calls, NEW x, x = call'[d] PROVE SlotGood(x)' BY DEF SlotsGood
    <2>1. SlotGood(x) BY <1>1 DEF SerialFits, SlotsGood
    <2> QED BY <1>1, <1>2, <2>1 DEF SlotGood, GatesGood, CaseGood
  <1>7. Answered' BY <1>1, <1>2, <1>3 DEF SerialFits, Answered, Waits
  <1> QED BY <1>4, <1>5, <1>6, <1>7 DEF SerialFits

-----------------------------------------------------------------------------
LEMMA InitDesk == Init => DeskInv
  <1> SUFFICES ASSUME Init PROVE DeskInv OBVIOUS
  <1>1. TypeOK BY InitTypes
  <1>2. \A c \in Calls : call[c].at = "idle" BY IdleTyped DEF Init
  <1>3. OneAtATime BY <1>2 DEF OneAtATime, Working
  <1>4. SlotsGood BY <1>2 DEF SlotsGood, SlotGood, GatesGood, CaseGood
  <1>5. Cleared /\ Answered BY DEF Init, Cleared, Answered
  <1> QED BY <1>1, <1>3, <1>4, <1>5 DEF DeskInv, SerialFits

LEMMA ScopeStays == ASSUME [Next]_vars PROVE scope' = scope
  <1>1. ASSUME NEW c \in Calls, Steps(c) PROVE scope' = scope
    BY <1>1 DEF Steps, GroundVehicle, SafetyFail, SafetyPass, LiftVehicle, MassWrite, MassBill,
       StartInspect, StartWrite, OpenWrite, ProposeCrew, ProposeWrite, ApproveWrite, SwapCheck,
       SwapWrite, Reassigned, BackWrite, RejectWrite, ContinueWrite, EscalateWrite, ReleaseWrite,
       rest
  <1>2. ASSUME NEW c \in Calls, Receives(c) PROVE scope' = scope
    BY <1>2 DEF Receives, Decides, SafetyRead, MassRead, OpenRead, StartRead, ReassignRead,
       ProposeRead, ApproveRead, RejectRead, ContinueRead, EscalateRead, ReleaseRead, SweepRead,
       rest
  <1> QED BY <1>1, <1>2 DEF Next, MassCleared, Complete, Sweep, FleetChange, Crash, rest, vars

LEMMA StepDesk == DeskInv /\ [Next]_vars => DeskInv'
  <1> SUFFICES ASSUME DeskInv, [Next]_vars PROVE DeskInv' OBVIOUS
  <1>1. TypeOK /\ TypeOK' BY StepTypes DEF DeskInv
  <1> SUFFICES ASSUME scope.width = 1 PROVE SerialFits' BY <1>1, ScopeStays DEF DeskInv
  <1>2. SerialFits BY DEF DeskInv
  <1>3. ASSUME NEW c \in Calls, Steps(c) PROVE SerialFits'
    BY <1>1, <1>2, <1>3, SafetyFits, MassFits, StartFits, OpenFits, ProposeFits, ApproveFits,
       SwapFits, ReassignedFits, ResolveFits DEF Steps
  <1> QED BY <1>1, <1>2, <1>3, ReceiveFits, CrashFits, ElsewhereFits DEF Next

LEMMA DeskInvHolds == Spec => []DeskInv
  BY InitDesk, StepDesk, PTL DEF Spec

(* One request at a time, a trip that started was passed by the driver who *)
(* drives it, with its mass in order, through any change of crew and any   *)
(* crash (startTrip, reassignAssignment).                                  *)
THEOREM StartedTripIsCleared == Spec => []StartedIsCleared
  <1>1. DeskInv => StartedIsCleared BY DEF DeskInv, SerialFits, Cleared, StartedIsCleared
  <1> QED BY <1>1, DeskInvHolds, PTL

(* One request at a time and with no crash, a trip in BREAKDOWN that no    *)
(* request is on has an exception that waits for an answer.                *)
THEOREM BreakdownIsAnswered == Spec => []NotStranded
  <1>1. DeskInv => NotStranded
    BY DEF DeskInv, SerialFits, Answered, Waits, NotStranded, Busy
  <1> QED BY <1>1, DeskInvHolds, PTL

-----------------------------------------------------------------------------
(* The action property. *)
Stands(e) == case[e].status \in Resolved => case'[e] = case[e]

(* A request that settles an exception read it unresolved. *)
LEMMA SettledStands ==
  ASSUME TypeOK, SerialFits, NEW c \in Calls, call[c].at \notin {"idle", "back"},
         NEW e \in Cases, e # call[c].case => case'[e] = case[e]
  PROVE  Stands(e)
  <1>1. SlotGood(call[c]) BY DEF SerialFits, SlotsGood
  <1>2. CASE e = call[c].case
    <2>1. e # 0 BY Scoped
    <2>2. case[e].status \notin Resolved BY <1>1, <1>2, <2>1 DEF SlotGood, CaseGood
    <2> QED BY <2>2 DEF Stands
  <1>3. CASE e # call[c].case BY <1>3 DEF Stands
  <1> QED BY <1>2, <1>3

LEMMA CaseStands ==
  ASSUME TypeOK, SerialFits, NEW c \in Calls, Steps(c), NEW e \in Cases PROVE Stands(e)
  <1>1. case \in [Cases -> Case] BY DEF TypeOK, RowsTyped
  <1>2. CASE OpenWrite(c)
    <2>1. PICK d \in Unopened : \E x : case' = [case EXCEPT ![d] = x] BY <1>2 DEF OpenWrite
    <2>2. case[d].status = "NONE" /\ (e # d => case'[e] = case[e])
      BY <1>1, <2>1 DEF Unopened
    <2> QED BY <2>2 DEF Stands, Resolved
  <1>3. CASE ProposeWrite(c)
    <2>1. e # call[c].case => case'[e] = case[e] BY <1>1, <1>3 DEF ProposeWrite
    <2>2. call[c].at = "propose" BY <1>3 DEF ProposeWrite
    <2> QED BY <2>1, <2>2, SettledStands
  <1>4. CASE \/ ApproveWrite(c) \/ Reassigned(c) \/ RejectWrite(c) \/ ContinueWrite(c)
             \/ EscalateWrite(c) \/ ReleaseWrite(c)
    <2>1. \E st : Settle(call[c].case, st)
      BY <1>4 DEF ApproveWrite, Reassigned, RejectWrite, ContinueWrite, EscalateWrite, ReleaseWrite
    <2>2. call[c].at \notin {"idle", "back"}
      BY <1>4 DEF ApproveWrite, Reassigned, RejectWrite, ContinueWrite, EscalateWrite, ReleaseWrite
    <2>3. e # call[c].case => case'[e] = case[e] BY <1>1, <2>1 DEF Settle
    <2> QED BY <2>2, <2>3, SettledStands
  <1>5. CASE UNCHANGED case BY <1>5 DEF Stands
  <1>6. \/ OpenWrite(c) \/ ProposeWrite(c) \/ UNCHANGED case
        \/ ApproveWrite(c) \/ Reassigned(c) \/ RejectWrite(c) \/ ContinueWrite(c)
        \/ EscalateWrite(c) \/ ReleaseWrite(c)
    BY DEF Steps, GroundVehicle, SafetyFail, SafetyPass, LiftVehicle, MassWrite, MassBill,
           StartInspect, StartWrite, ProposeCrew, SwapCheck, SwapWrite, BackWrite
  <1> QED BY <1>2, <1>3, <1>4, <1>5, <1>6

(* One request at a time, a resolved exception is never written again: no  *)
(* answer and no watchdog run with an old list undoes a resolution.        *)
THEOREM ResolutionStands == Spec => ResolvedStays
  <1>1. DeskInv /\ [Next]_vars => [scope.width = 1 => \A e \in Cases : Stands(e)]_vars
    <2> SUFFICES ASSUME DeskInv, [Next]_vars, scope.width = 1, NEW e \in Cases PROVE Stands(e)
      OBVIOUS
    <2>1. TypeOK /\ SerialFits BY DEF DeskInv
    <2>2. ASSUME NEW c \in Calls, Steps(c) PROVE Stands(e) BY <2>1, <2>2, CaseStands
    <2>3. ASSUME NEW c \in Calls, Receives(c) \/ Crash(c) PROVE Stands(e)
      BY <2>1, <2>3, Receiving DEF Crash, Stands
    <2>4. ASSUME MassCleared \/ Complete \/ Sweep \/ FleetChange \/ UNCHANGED vars PROVE Stands(e)
      BY <2>4 DEF MassCleared, Complete, Sweep, FleetChange, vars, Stands
    <2> QED BY <2>2, <2>3, <2>4 DEF Next
  <1>2. Spec => [][scope.width = 1 => \A e \in Cases : Stands(e)]_vars
    BY <1>1, DeskInvHolds, PTL DEF Spec
  <1> QED BY <1>2 DEF ResolvedStays, Stands
=============================================================================
