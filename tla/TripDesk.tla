------------------------------- MODULE TripDesk -------------------------------
(***************************************************************************)
(* A paid trip around its start, and the desk that handles what goes wrong *)
(* with it: safety and mass gates (safetyCheck, massCheck, startTrip), the *)
(* exceptions a driver opens and the carrier, the sender, a super admin or *)
(* the watchdog resolve, and the change of crew (reassignAssignment).      *)
(* Source: trips.service.ts, exceptions.service.ts, carrier.service.ts.    *)
(*                                                                         *)
(* A request runs in a slot of Calls and is cut where the code awaits the  *)
(* database.  The road itself is TripDelivery, the money of a release or a *)
(* rejection is CarrierPayout; here a started trip just completes.         *)
(***************************************************************************)
EXTENDS Naturals, FiniteSets

CONSTANTS Calls, Vehicles, Drivers,
          Cases,    \* exceptions that may be opened
          Scopes    \* the bounds a behaviour may choose at its start

ASSUME DeskConstants ==
    /\ Cases \subseteq Nat \ {0}
    /\ Vehicles # {} /\ Drivers # {}
    /\ \A s \in Scopes : /\ s.width \in Nat /\ s.upsets \in Nat /\ s.cases \subseteq Cases
                         /\ s.crews \subseteq [vehicle : Vehicles, driver : Drivers]
                         /\ s.fleet \in BOOLEAN /\ s.gates \in {"never", "once", "again"}

VARIABLES trip,      \* the Trip row, with the crew of its assignment
          award,     \* Assignment.status
          job,       \* Job.status
          massDue,   \* the trip's MASS surcharge
          vehicle,   \* Vehicle.status
          driver,    \* Driver.status
          case,      \* TripException rows
          swept,     \* exceptions a watchdog run listed and has not come to yet
          passedBy,  \* history: the driver who last passed the safety check
          call,
          upsets,    \* crashes and changes of the fleet from elsewhere so far
          scope      \* requests at a time, upsets, exceptions, crews to put on the
                     \* trip, whether the carrier changes its fleet on its own,
                     \* and how often the driver goes through the gates

vars == <<trip, award, job, massDue, vehicle, driver, case, swept, passedBy, call, upsets, scope>>

TripStatus == {"PENDING_GATES", "EN_ROUTE_PICKUP", "AT_PICKUP", "IN_TRANSIT", "BREAKDOWN",
               "COMPLETED", "CANCELLED"}
Open     == {"AWAITING_CARRIER", "REASSIGN_IN_PROGRESS", "ESCALATED"}
Resolved == {"RESOLVED_REASSIGNED", "RESOLVED_CONTINUED", "RESOLVED_RELISTED",
             "RESOLVED_CANCELLED"}
CaseStatus == {"NONE", "AWAITING_SENDER_APPROVAL"} \cup Open \cup Resolved
FleetStatus == {"ACTIVE", "SUSPENDED"}

(* safety is which of safetyPassedAt and safetyFailedAt is set, marked     *)
(* whether safetyNotes carry [SAFETY_SUSPEND].                             *)
Trip == [status : TripStatus, safety : {"none", "passed", "failed"}, marked : BOOLEAN,
         mass : {"none", "ok", "over"}, started : BOOLEAN, vehicle : Vehicles, driver : Drivers]
Crew == [vehicle : Vehicles, driver : Drivers]
Case == [status : CaseStatus, phase : {"PRE_TRIP", "MID_TRIP"}, proposed : Crew]

SomeCrew == [vehicle |-> CHOOSE v \in Vehicles : TRUE, driver |-> CHOOSE d \in Drivers : TRUE]
NoCase == [status |-> "NONE", phase |-> "PRE_TRIP", proposed |-> SomeCrew]

Labels == {"idle", "ground", "failed", "passed", "lift", "weighed", "overweight", "bill",
           "inspect", "start", "open", "crew", "propose", "approve", "check", "swap",
           "reassigned", "back", "reject", "continue", "release", "escalate"}
(* case 0: none.  crew is the crew read or asked for; flag what was read:  *)
(* a marker, a driver that changes, a driver who is unavailable.           *)
Slot == [at : Labels, case : {0} \cup Cases, crew : Crew, flag : BOOLEAN,
         phase : {"PRE_TRIP", "MID_TRIP"}]
Idle == [at |-> "idle", case |-> 0, crew |-> SomeCrew, flag |-> FALSE, phase |-> "PRE_TRIP"]

RowsTyped == /\ trip \in Trip /\ award \in {"LOCKED", "CANCELLED", "COMPLETED"}
             /\ job \in {"ASSIGNED", "IN_TRANSIT", "BIDDING", "COMPLETED", "CANCELLED"}
             /\ massDue \in {"none", "PENDING_PAYMENT", "cleared"}
             /\ case \in [Cases -> Case]
FleetTyped == vehicle \in [Vehicles -> FleetStatus] /\ driver \in [Drivers -> FleetStatus]
TypeOK == /\ RowsTyped /\ FleetTyped /\ call \in [Calls -> Slot]
          /\ swept \in SUBSET Cases /\ passedBy \in Drivers
          /\ upsets \in Nat /\ scope \in Scopes

Init == /\ trip = [status |-> "PENDING_GATES", safety |-> "none", marked |-> FALSE,
                   mass |-> "none", started |-> FALSE,
                   vehicle |-> SomeCrew.vehicle, driver |-> SomeCrew.driver]
        /\ award = "LOCKED" /\ job = "ASSIGNED" /\ massDue = "none"
        /\ vehicle = [v \in Vehicles |-> "ACTIVE"] /\ driver = [d \in Drivers |-> "ACTIVE"]
        /\ case = [e \in Cases |-> NoCase] /\ swept = {}
        /\ passedBy = SomeCrew.driver
        /\ call = [c \in Calls |-> Idle] /\ upsets = 0
        /\ scope \in Scopes

-----------------------------------------------------------------------------
Busy == {c \in Calls : call[c].at # "idle"}

Begins(c, s) == /\ call[c].at = "idle" /\ Cardinality(Busy) < scope.width
                /\ call' = [call EXCEPT ![c] = s]
Goes(c, l)   == call' = [call EXCEPT ![c].at = l]
Ends(c)      == call' = [call EXCEPT ![c] = Idle]

CrewOf(t) == [vehicle |-> t.vehicle, driver |-> t.driver]
fleet == <<vehicle, driver>>
rest  == <<upsets, scope>>

-----------------------------------------------------------------------------
(* The gates: safetyCheck, massCheck, startTrip, asked by the driver. *)

MayPass(first) == scope.gates = "again" \/ (scope.gates = "once" /\ first)

SafetyRead(c, ok) ==
    /\ ~trip.started /\ award = "LOCKED"
    /\ MayPass(trip.safety # "passed")
    /\ Begins(c, [Idle EXCEPT !.at = IF ok THEN "passed" ELSE "ground", !.crew = CrewOf(trip),
                              !.flag = ok /\ trip.safety = "failed" /\ trip.marked])
    /\ UNCHANGED <<trip, award, job, massDue, fleet, case, swept, passedBy, rest>>

(* Only an active vehicle is suspended, and only then the notes say so.    *)
GroundVehicle(c) ==
    /\ call[c].at = "ground"
    /\ LET v == call[c].crew.vehicle
       IN /\ vehicle' = [vehicle EXCEPT ![v] = "SUSPENDED"]
          /\ call' = [call EXCEPT ![c].at = "failed", ![c].flag = (vehicle[v] = "ACTIVE")]
    /\ UNCHANGED <<trip, award, job, massDue, driver, case, swept, passedBy, rest>>

SafetyFail(c) ==
    /\ call[c].at = "failed"
    /\ trip' = [trip EXCEPT !.safety = "failed", !.marked = call[c].flag,
                            !.status = "PENDING_GATES"]
    /\ Ends(c)
    /\ UNCHANGED <<award, job, massDue, fleet, case, swept, passedBy, rest>>

SafetyPass(c) ==
    /\ call[c].at = "passed"
    /\ trip' = [trip EXCEPT !.safety = "passed", !.marked = FALSE, !.status = "EN_ROUTE_PICKUP"]
    /\ passedBy' = call[c].crew.driver
    /\ IF call[c].flag THEN Goes(c, "lift") ELSE Ends(c)
    /\ UNCHANGED <<award, job, massDue, fleet, case, swept, rest>>

LiftVehicle(c) ==
    /\ call[c].at = "lift"
    /\ vehicle' = [vehicle EXCEPT ![call[c].crew.vehicle] = "ACTIVE"]
    /\ Ends(c)
    /\ UNCHANGED <<trip, award, job, massDue, driver, case, swept, passedBy, rest>>

(* Whether the weight is over the declared one is found at the scale.      *)
MassRead(c, over) ==
    /\ ~trip.started /\ trip.safety = "passed"
    /\ MayPass(trip.mass = "none")
    /\ Begins(c, [Idle EXCEPT !.at = IF over THEN "overweight" ELSE "weighed"])
    /\ UNCHANGED <<trip, award, job, massDue, fleet, case, swept, passedBy, rest>>

MassWrite(c) ==
    /\ call[c].at \in {"weighed", "overweight"}
    /\ LET over == call[c].at = "overweight"
       IN /\ trip' = [trip EXCEPT !.mass = IF over THEN "over" ELSE "ok", !.status = "AT_PICKUP"]
          /\ IF over THEN Goes(c, "bill") ELSE Ends(c)
    /\ UNCHANGED <<award, job, massDue, fleet, case, swept, passedBy, rest>>

(* createSurcharge: one MASS row per trip, never a second one.             *)
MassBill(c) ==
    /\ call[c].at = "bill"
    /\ massDue' = IF massDue = "none" THEN "PENDING_PAYMENT" ELSE massDue
    /\ Ends(c)
    /\ UNCHANGED <<trip, award, job, fleet, case, swept, passedBy, rest>>

(* The MASS row is paid (markSurchargePaid) or waived (waiveSurcharge).    *)
MassCleared ==
    /\ massDue = "PENDING_PAYMENT" /\ massDue' = "cleared"
    /\ trip' = [trip EXCEPT !.mass = "ok"]
    /\ UNCHANGED <<award, job, fleet, case, swept, passedBy, call, rest>>

MayStart == /\ award = "LOCKED" /\ trip.safety = "passed"
            /\ massDue # "PENDING_PAYMENT" /\ trip.mass = "ok"

StartRead(c) ==
    /\ MayStart /\ ~trip.started
    /\ Begins(c, [Idle EXCEPT !.at = "inspect", !.crew = CrewOf(trip)])
    /\ UNCHANGED <<trip, award, job, massDue, fleet, case, swept, passedBy, rest>>

StartInspect(c) ==
    /\ call[c].at = "inspect"
    /\ IF vehicle[call[c].crew.vehicle] = "ACTIVE" THEN Goes(c, "start") ELSE Ends(c)
    /\ UNCHANGED <<trip, award, job, massDue, fleet, case, swept, passedBy, rest>>

StartWrite(c) ==
    /\ call[c].at = "start"
    /\ trip' = [trip EXCEPT !.status = "IN_TRANSIT", !.started = TRUE]
    /\ job' = "IN_TRANSIT"
    /\ Ends(c)
    /\ UNCHANGED <<award, massDue, fleet, case, swept, passedBy, rest>>

(* TripDelivery's last step, which asks for no award.                      *)
Complete ==
    /\ trip.started /\ trip.status # "COMPLETED"
    /\ trip' = [trip EXCEPT !.status = "COMPLETED"]
    /\ job' = "COMPLETED" /\ award' = "COMPLETED"
    /\ UNCHANGED <<massDue, fleet, case, swept, passedBy, call, rest>>

-----------------------------------------------------------------------------
(* A driver opens an exception: open. *)

Unopened == {e \in scope.cases : case[e].status = "NONE"}

OpenRead(c, unavailable) ==
    /\ trip.status \notin {"COMPLETED", "CANCELLED"} /\ award = "LOCKED"
    /\ \A e \in Cases : case[e].status \notin Open
    /\ Unopened # {}
    /\ Begins(c, [Idle EXCEPT !.at = "open", !.crew = CrewOf(trip), !.flag = unavailable,
                              !.phase = IF trip.status = "PENDING_GATES" THEN "PRE_TRIP"
                                        ELSE "MID_TRIP"])
    /\ UNCHANGED <<trip, award, job, massDue, fleet, case, swept, passedBy, rest>>

OpenWrite(c) ==
    /\ call[c].at = "open"
    /\ \E e \in Unopened :
          /\ \A x \in Unopened : e <= x
          /\ case' = [case EXCEPT ![e] = [NoCase EXCEPT !.status = "AWAITING_CARRIER",
                                                       !.phase = call[c].phase]]
    /\ trip' = IF call[c].phase = "MID_TRIP" THEN [trip EXCEPT !.status = "BREAKDOWN"] ELSE trip
    /\ driver' = IF call[c].flag THEN [driver EXCEPT ![call[c].crew.driver] = "SUSPENDED"]
                 ELSE driver
    /\ Ends(c)
    /\ UNCHANGED <<award, job, massDue, vehicle, swept, passedBy, rest>>

-----------------------------------------------------------------------------
(* The carrier proposes another crew and the sender decides: reassign,     *)
(* approveReplacement, rejectReplacement.                                  *)

Settle(e, st) == case' = [case EXCEPT ![e].status = st]

ProposeRead(c, e, crew) ==
    /\ case[e].status \in Open \cup {"AWAITING_SENDER_APPROVAL"}
    /\ Begins(c, [Idle EXCEPT !.at = "crew", !.case = e, !.crew = crew])
    /\ UNCHANGED <<trip, award, job, massDue, fleet, case, swept, passedBy, rest>>

ActiveCrew(crew) == vehicle[crew.vehicle] = "ACTIVE" /\ driver[crew.driver] = "ACTIVE"

ProposeCrew(c) ==
    /\ call[c].at = "crew"
    /\ IF ActiveCrew(call[c].crew) THEN Goes(c, "propose") ELSE Ends(c)
    /\ UNCHANGED <<trip, award, job, massDue, fleet, case, swept, passedBy, rest>>

ProposeWrite(c) ==
    /\ call[c].at = "propose"
    /\ case' = [case EXCEPT ![call[c].case].status = "AWAITING_SENDER_APPROVAL",
                            ![call[c].case].proposed = call[c].crew]
    /\ Ends(c)
    /\ UNCHANGED <<trip, award, job, massDue, fleet, swept, passedBy, rest>>

ApproveRead(c, e) ==
    /\ case[e].status = "AWAITING_SENDER_APPROVAL"
    /\ Begins(c, [Idle EXCEPT !.at = "approve", !.case = e, !.crew = case[e].proposed,
                              !.phase = case[e].phase])
    /\ UNCHANGED <<trip, award, job, massDue, fleet, case, swept, passedBy, rest>>

ApproveWrite(c) ==
    /\ call[c].at = "approve"
    /\ Settle(call[c].case, "REASSIGN_IN_PROGRESS")
    /\ Goes(c, "check")
    /\ UNCHANGED <<trip, award, job, massDue, fleet, swept, passedBy, rest>>

(* The carrier changes the crew on its own: reassignAssignment.            *)
ReassignRead(c, crew) ==
    /\ award = "LOCKED" /\ scope.fleet
    /\ Begins(c, [Idle EXCEPT !.at = "check", !.crew = crew])
    /\ UNCHANGED <<trip, award, job, massDue, fleet, case, swept, passedBy, rest>>

(* A refusal leaves an approved exception in REASSIGN_IN_PROGRESS.         *)
SwapCheck(c) ==
    /\ call[c].at = "check"
    /\ LET crew == call[c].crew
       IN IF /\ award = "LOCKED" /\ trip.status \notin {"COMPLETED", "CANCELLED"}
             /\ ActiveCrew(crew) /\ crew # CrewOf(trip)
          THEN call' = [call EXCEPT ![c].at = "swap", ![c].flag = (crew.driver # trip.driver)]
          ELSE Ends(c)
    /\ UNCHANGED <<trip, award, job, massDue, fleet, case, swept, passedBy, rest>>

SwappedUnchecked(t, crew, changed) ==  \* seeded fault
    IF changed
    THEN [t EXCEPT !.vehicle = crew.vehicle, !.driver = crew.driver, !.status = "PENDING_GATES",
                   !.marked = FALSE]
    ELSE [t EXCEPT !.vehicle = crew.vehicle, !.driver = crew.driver]
SwappedAsJob(t, crew, changed) ==  \* seeded fault
    [t EXCEPT !.vehicle = crew.vehicle, !.driver = crew.driver, !.status = "ASSIGNED"]
(* Another driver starts over, at the safety check.                        *)
Swapped(t, crew, changed) ==
    IF changed
    THEN [t EXCEPT !.vehicle = crew.vehicle, !.driver = crew.driver, !.status = "PENDING_GATES",
                   !.safety = "none", !.marked = FALSE, !.started = FALSE]
    ELSE [t EXCEPT !.vehicle = crew.vehicle, !.driver = crew.driver]

SwapWrite(c) ==
    /\ call[c].at = "swap"
    /\ trip' = Swapped(trip, call[c].crew, call[c].flag)
    /\ IF call[c].case = 0 THEN Ends(c) ELSE Goes(c, "reassigned")
    /\ UNCHANGED <<award, job, massDue, fleet, case, swept, passedBy, rest>>

(* What a trip in the middle of its way goes back to.                      *)
BackNever(s) == FALSE  \* seeded fault
Back(s) == s.phase = "MID_TRIP"

Reassigned(c) ==
    /\ call[c].at = "reassigned"
    /\ Settle(call[c].case, "RESOLVED_REASSIGNED")
    /\ IF Back(call[c]) THEN Goes(c, "back") ELSE Ends(c)
    /\ UNCHANGED <<trip, award, job, massDue, fleet, swept, passedBy, rest>>

BackWrite(c) ==
    /\ call[c].at = "back"
    /\ trip' = [trip EXCEPT !.status = IF call[c].flag THEN "PENDING_GATES" ELSE "EN_ROUTE_PICKUP"]
    /\ Ends(c)
    /\ UNCHANGED <<award, job, massDue, fleet, case, swept, passedBy, rest>>

RejectRead(c, e) ==
    /\ case[e].status = "AWAITING_SENDER_APPROVAL"
    /\ Begins(c, [Idle EXCEPT !.at = "reject", !.case = e])
    /\ UNCHANGED <<trip, award, job, massDue, fleet, case, swept, passedBy, rest>>

RejectWrite(c) ==
    /\ call[c].at = "reject"
    /\ Settle(call[c].case, "RESOLVED_CANCELLED")
    /\ trip' = [trip EXCEPT !.status = "CANCELLED"]
    /\ award' = "CANCELLED" /\ job' = "CANCELLED"
    /\ Ends(c)
    /\ UNCHANGED <<massDue, fleet, swept, passedBy, rest>>

-----------------------------------------------------------------------------
(* Without the sender: continueTrip, escalate, releaseToMarketplace. *)

ContinueRead(c, e) ==
    /\ case[e].status \in Open
    /\ Begins(c, [Idle EXCEPT !.at = "continue", !.case = e, !.phase = case[e].phase])
    /\ UNCHANGED <<trip, award, job, massDue, fleet, case, swept, passedBy, rest>>

ContinueWrite(c) ==
    /\ call[c].at = "continue"
    /\ Settle(call[c].case, "RESOLVED_CONTINUED")
    /\ trip' = [trip EXCEPT !.status = IF call[c].phase = "PRE_TRIP" THEN "PENDING_GATES"
                                       ELSE "EN_ROUTE_PICKUP",
                            !.marked = FALSE]
    /\ Ends(c)
    /\ UNCHANGED <<award, job, massDue, fleet, swept, passedBy, rest>>

EscalateRead(c, e) ==
    /\ case[e].status \in Open \ {"ESCALATED"}
    /\ Begins(c, [Idle EXCEPT !.at = "escalate", !.case = e])
    /\ UNCHANGED <<trip, award, job, massDue, fleet, case, swept, passedBy, rest>>

EscalateWrite(c) ==
    /\ call[c].at = "escalate"
    /\ Settle(call[c].case, "ESCALATED")
    /\ Ends(c)
    /\ UNCHANGED <<trip, award, job, massDue, fleet, swept, passedBy, rest>>

ReleaseRead(c, e) ==
    /\ case[e].status \in Open
    /\ Begins(c, [Idle EXCEPT !.at = "release", !.case = e])
    /\ UNCHANGED <<trip, award, job, massDue, fleet, case, swept, passedBy, rest>>

ReleaseWrite(c) ==
    /\ call[c].at = "release"
    /\ Settle(call[c].case, "RESOLVED_RELISTED")
    /\ trip' = [trip EXCEPT !.status = "CANCELLED"]
    /\ award' = "CANCELLED" /\ job' = "BIDDING"
    /\ Ends(c)
    /\ UNCHANGED <<massDue, fleet, swept, passedBy, rest>>

(* The watchdog lists what waited too long, and comes to one after the     *)
(* other; it reads each row again before it releases.                      *)
Overdue(e) == case[e].status = "AWAITING_CARRIER" /\ case[e].phase = "PRE_TRIP"

Sweep ==
    /\ swept = {} /\ {e \in Cases : Overdue(e)} # {}
    /\ swept' = {e \in Cases : Overdue(e)}
    /\ UNCHANGED <<trip, award, job, massDue, fleet, case, passedBy, call, rest>>

StillDueListed(e) == TRUE  \* seeded fault
StillDueEscalated(e) == case[e].status = "ESCALATED" /\ case[e].phase = "PRE_TRIP"  \* seeded fault
StillDue(e) == Overdue(e)

SweepRead(c, e) ==
    /\ e \in swept /\ swept' = swept \ {e}
    /\ IF StillDue(e) THEN Begins(c, [Idle EXCEPT !.at = "release", !.case = e])
                      ELSE UNCHANGED call
    /\ UNCHANGED <<trip, award, job, massDue, fleet, case, passedBy, rest>>

-----------------------------------------------------------------------------
(* Elsewhere: compliance and the carrier suspend and reinstate the fleet.  *)

FleetChange ==
    /\ scope.fleet /\ upsets < scope.upsets /\ upsets' = upsets + 1
    /\ \/ \E v \in Vehicles, s \in FleetStatus : vehicle' = [vehicle EXCEPT ![v] = s]
          /\ UNCHANGED driver
       \/ \E d \in Drivers, s \in FleetStatus : driver' = [driver EXCEPT ![d] = s]
          /\ UNCHANGED vehicle
    /\ UNCHANGED <<trip, award, job, massDue, case, swept, passedBy, call, scope>>

(* The process that serves c dies between two statements. *)
Crash(c) ==
    /\ call[c].at # "idle" /\ upsets < scope.upsets
    /\ upsets' = upsets + 1
    /\ Ends(c)
    /\ UNCHANGED <<trip, award, job, massDue, fleet, case, swept, passedBy, scope>>

Steps(c) == \/ GroundVehicle(c) \/ SafetyFail(c) \/ SafetyPass(c) \/ LiftVehicle(c)
            \/ MassWrite(c) \/ MassBill(c) \/ StartInspect(c) \/ StartWrite(c)
            \/ OpenWrite(c) \/ ProposeCrew(c) \/ ProposeWrite(c) \/ ApproveWrite(c)
            \/ SwapCheck(c) \/ SwapWrite(c) \/ Reassigned(c) \/ BackWrite(c)
            \/ RejectWrite(c) \/ ContinueWrite(c) \/ EscalateWrite(c) \/ ReleaseWrite(c)

Decides(c, e) == \/ ApproveRead(c, e) \/ RejectRead(c, e) \/ ContinueRead(c, e)
                 \/ EscalateRead(c, e) \/ ReleaseRead(c, e) \/ SweepRead(c, e)
                 \/ \E crew \in scope.crews : ProposeRead(c, e, crew)

Receives(c) == \/ \E b \in BOOLEAN : SafetyRead(c, b) \/ MassRead(c, b) \/ OpenRead(c, b)
               \/ StartRead(c)
               \/ \E crew \in scope.crews : ReassignRead(c, crew)
               \/ \E e \in Cases : Decides(c, e)

Next == \/ MassCleared \/ Complete \/ Sweep \/ FleetChange
        \/ \E c \in Calls : Receives(c) \/ Steps(c) \/ Crash(c)

Spec == Init /\ [][Next]_vars

(* A request that runs goes on, and the watchdog's timer ticks: the slots  *)
(* stand for a server that has room for it now and then.                   *)
FairSpec == /\ Spec /\ WF_vars(Sweep)
            /\ \A c \in Calls : WF_vars(Steps(c))
            /\ SF_vars(\E c \in Calls, e \in Cases : SweepRead(c, e))

-----------------------------------------------------------------------------
(* Properties. *)

(* One request at a time, a trip that started was passed by the driver who *)
(* drives it now, with its mass in order, through any change of crew,      *)
(* exception or crash (startTrip, reassignAssignment).                     *)
StartedIsCleared ==
    scope.width = 1 /\ trip.started =>
        trip.safety = "passed" /\ trip.mass = "ok" /\ passedBy = trip.driver

(* One request at a time, no trip is left in BREAKDOWN by the resolution   *)
(* of its exceptions.                                                      *)
NotStranded ==
    scope.width = 1 /\ upsets = 0 /\ Busy = {} /\ trip.status = "BREAKDOWN" =>
        \E e \in Cases : /\ case[e].status \in Open \cup {"AWAITING_SENDER_APPROVAL"}
                         /\ case[e].phase = "MID_TRIP"

(* One request at a time, a resolution stands: also the watchdog, whose    *)
(* list is older than the answer it meets.                                 *)
ResolvedStays ==
    [][scope.width = 1 => \A e \in Cases :
          case[e].status \in Resolved => case'[e] = case[e]]_vars

(* An exception before the trip does not wait for its carrier for good:    *)
(* the watchdog finds it, whatever overlaps and dies on the way.           *)
PreTripAnswered == []<>(\A e \in Cases : ~Overdue(e))

=============================================================================
