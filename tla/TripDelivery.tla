---------------------------- MODULE TripDelivery ----------------------------
(***************************************************************************)
(* A started trip from its first stop to its completion: location samples  *)
(* move the geofence state of one stop after the other (evaluateGeofence), *)
(* the driver collects the proof of delivery (submitPodSignature,          *)
(* addPodPhoto, finalizePod), and whichever of the two comes last          *)
(* completes the trip (completeTripIfReady).  Source: trips.service.ts.    *)
(*                                                                         *)
(* A request runs in a slot of Calls and is cut where the code awaits the  *)
(* database; the notice of arrival goes on after its request was answered. *)
(* A stop's progress row is made on demand, so a missing row is a fresh    *)
(* one.                                                                    *)
(***************************************************************************)
EXTENDS Naturals, FiniteSets, Sequences

CONSTANTS Calls,
          Stops,    \* a job's stops, by sequence
          Bounce,   \* antiBounceSamples of the geofence policy
          Scopes    \* the bounds a behaviour may choose at its start

Kinds == {"PICKUP", "DROPOFF"}

ASSUME DeliveryConstants ==
    /\ Stops \subseteq Nat \ {0} /\ Bounce \in Nat \ {0}
    /\ \A s \in Scopes : /\ s.width \in Nat /\ s.detours \in Nat
                         /\ s.bills \in Nat /\ s.faults \in Nat
                         /\ DOMAIN s.route \subseteq Stops
                         /\ s.route \in [DOMAIN s.route -> Kinds]

VARIABLES status,     \* Trip.status, with the job and the award once COMPLETED
          odometer,   \* odometerEndKm was captured
          score,      \* reliability points the trip brought its carrier
          fence,      \* TripStopProgress: the geofence's columns
          pod,        \* TripStopProgress: the proof's columns
          due,        \* stops with a waiting surcharge PENDING_PAYMENT
          pos,        \* where the truck is: a stop, or 0
          trail,      \* history: where the last Bounce samples were taken
          call, bills, detours, faults,
          scope       \* requests at a time, route, detours, bills, faults

vars == <<status, odometer, score, fence, pod, due, pos, trail, call, bills, detours,
          faults, scope>>

TripStatus == {"EN_ROUTE_PICKUP", "AT_DROPOFF", "COMPLETED"}
PodStatus  == {"PENDING", "AWAITING_SIGNATURE", "SIGNED", "FINALIZED"}

(* count is insideCount, which counts the samples outside as well; only    *)
(* whether it reaches Bounce matters.  arrivalRecorded is set with entered *)
(* and neither is ever cleared.                                            *)
Fence   == [count : 0..Bounce, inside : BOOLEAN, entered : BOOLEAN, exited : BOOLEAN]
NoFence == [count |-> 0, inside |-> FALSE, entered |-> FALSE, exited |-> FALSE]
Pod     == [status : PodStatus, signed : BOOLEAN, photo : BOOLEAN, final : BOOLEAN,
            told : BOOLEAN]
NoPod   == [status |-> "PENDING", signed |-> FALSE, photo |-> FALSE, final |-> FALSE,
            told |-> FALSE]

Route    == DOMAIN scope.route
Dropoffs == {s \in Route : scope.route[s] = "DROPOFF"}

Labels == {"idle", "sample", "arrive", "told", "notify", "settle", "count", "sign", "photo",
           "odometer", "final", "ready", "complete", "reward"}
(* What a request read: the stop's columns, whether another stop is left   *)
(* (sample), the proof it wants to give (goal), whether it is the last one.*)
Slot == [at : Labels, stop : {0} \cup Stops, here : BOOLEAN, was : Fence, rest : BOOLEAN,
         goal : {"none", "sign", "photo", "final"}, proven : BOOLEAN, last : BOOLEAN,
         pod : PodStatus]
Idle == [at |-> "idle", stop |-> 0, here |-> FALSE, was |-> NoFence, rest |-> FALSE,
         goal |-> "none", proven |-> FALSE, last |-> FALSE, pod |-> "PENDING"]

RowsTyped == /\ status \in TripStatus /\ odometer \in BOOLEAN /\ score \in Nat
             /\ fence \in [Stops -> Fence] /\ pod \in [Stops -> Pod]
             /\ due \in SUBSET Stops
SlotsTyped == call \in [Calls -> Slot]
TypeOK == /\ RowsTyped /\ SlotsTyped /\ pos \in {0} \cup Stops
          /\ trail \in Seq({0} \cup Stops)
          /\ bills \in Nat /\ detours \in Nat /\ faults \in Nat /\ scope \in Scopes

Init == /\ status = "EN_ROUTE_PICKUP" /\ odometer = FALSE /\ score = 0
        /\ fence = [s \in Stops |-> NoFence] /\ pod = [s \in Stops |-> NoPod]
        /\ due = {} /\ pos = 0 /\ trail = <<>>
        /\ call = [c \in Calls |-> Idle]
        /\ bills = 0 /\ detours = 0 /\ faults = 0
        /\ scope \in Scopes

-----------------------------------------------------------------------------
(* The notice of arrival runs on its own, its request is answered. *)
InBackground == {"told", "notify"}
Busy == {c \in Calls : call[c].at \notin {"idle"} \cup InBackground}

Begins(c, s) == /\ call[c].at = "idle" /\ Cardinality(Busy) < scope.width
                /\ call' = [call EXCEPT ![c] = s]
Goes(c, l)   == call' = [call EXCEPT ![c].at = l]
Ends(c)      == call' = [call EXCEPT ![c] = Idle]
(* What is left of a request that goes on to complete the trip. *)
Completes(c) == call' = [call EXCEPT ![c] = [Idle EXCEPT !.at = "ready"]]

trip   == <<status, odometer, score>>
truck  == <<pos, trail>>
bounds == <<bills, detours, faults, scope>>

-----------------------------------------------------------------------------
(* The truck: it leaves a stop when the app shows the arrival, and an      *)
(* unloaded one when its proof is final, but for some detours (a bound).   *)

Visited(s) == fence[s].entered /\ (s \in Dropoffs => pod[s].final)
NextStop(s) == /\ s \in Route /\ ~Visited(s)
               /\ \A t \in Route : t < s => Visited(t)

Drive == /\ \/ pos # 0 /\ ~NextStop(pos) /\ pos' = 0
            \/ pos = 0 /\ pos' \in Route /\ NextStop(pos')
         /\ UNCHANGED <<trip, fence, pod, due, trail, call, bounds>>

Detour == /\ detours < scope.detours /\ detours' = detours + 1
          /\ pos' \in {0} \cup Route /\ pos' # pos
          /\ UNCHANGED <<trip, fence, pod, due, trail, call, bills, faults, scope>>

-----------------------------------------------------------------------------
(* A location sample: postLocation, evaluateGeofence. *)

(* The first stop not arrived at, or arrived at and not left. *)
UnfinishedDwell(s) == ~fence[s].entered  \* seeded fault
Unfinished(s) == ~fence[s].entered \/ ~fence[s].exited
Active(s)     == /\ s \in Route /\ Unfinished(s)
                 /\ \A t \in Route : t < s => ~Unfinished(t)

(* With no stop left, the sample completes the trip if it still can. *)
NothingLeftEnds(c) == UNCHANGED call  \* seeded fault
NothingLeft(c) == Begins(c, [Idle EXCEPT !.at = "ready"])

SampleRead(c) ==
    /\ \/ /\ \A s \in Route : ~Unfinished(s)
          /\ NothingLeft(c)
       \/ \E s \in Route :
             /\ Active(s)
             /\ Begins(c, [Idle EXCEPT !.at = "sample", !.stop = s, !.here = (pos = s),
                                       !.was = fence[s],
                                       !.rest = \E t \in Route \ {s} : Unfinished(t)])
    /\ UNCHANGED <<trip, fence, pod, due, truck, bounds>>

(* One counter serves both streaks: it starts again when the side changes. *)
StreakShared(was, side) == IF was.count < Bounce THEN was.count + 1 ELSE Bounce  \* seeded fault
Streak(was, side) ==
    IF was.inside = side THEN (IF was.count < Bounce THEN was.count + 1 ELSE Bounce) ELSE 1

Enters(was) == ~was.entered /\ Streak(was, TRUE) >= Bounce
Sampled(p) == trail' = LET t == Append(trail, p)
                       IN IF Len(t) > Bounce THEN Tail(t) ELSE t
Exits(was)  == was.entered /\ ~was.exited /\ Streak(was, FALSE) >= Bounce

(* Each branch updates the columns it names and leaves the others as they  *)
(* are by now; a stop that is entered is not left.                         *)
SampleInside(c) ==
    /\ call[c].at = "sample" /\ call[c].here
    /\ LET s == call[c].stop  was == call[c].was
       IN /\ fence' = [fence EXCEPT ![s].count = Streak(was, TRUE), ![s].inside = TRUE,
                                    ![s].entered = @ \/ Enters(was),
                                    ![s].exited = was.exited /\ ~Enters(was) /\ ~was.entered]
          /\ Sampled(s)
          /\ IF Enters(was) /\ s \in Dropoffs THEN Goes(c, "arrive") ELSE Ends(c)
          (* past the free wait, the dwell is billed (createSurcharge) *)
          /\ \/ UNCHANGED <<due, bills>>
             \/ /\ was.entered /\ bills < scope.bills
                /\ bills' = bills + 1 /\ due' = due \cup {s}
    /\ UNCHANGED <<trip, pod, pos, detours, faults, scope>>

(* The status is written whatever it is by now; the notice starts. *)
Arrive(c) ==
    /\ call[c].at = "arrive"
    /\ status' = "AT_DROPOFF"
    /\ call' = [call EXCEPT ![c] = [Idle EXCEPT !.at = "told", !.stop = call[c].stop]]
    /\ UNCHANGED <<odometer, score, fence, pod, due, truck, bounds>>

SampleOutside(c) ==
    /\ call[c].at = "sample" /\ ~call[c].here
    /\ LET s == call[c].stop  was == call[c].was
       IN /\ fence' = [fence EXCEPT ![s].count = Streak(was, FALSE), ![s].inside = FALSE,
                                    ![s].exited = Exits(was) \/ was.exited]
          /\ IF Exits(was) /\ ~call[c].rest THEN Completes(c) ELSE Ends(c)
    /\ Sampled(0)
    /\ UNCHANGED <<trip, pod, due, pos, bounds>>

(* notifyAtDropoffIfNeeded: once, and it writes the status it read.        *)
TellRead(c) ==
    /\ call[c].at = "told"
    /\ LET s == call[c].stop
       IN IF pod[s].told THEN Ends(c)
          ELSE call' = [call EXCEPT ![c].at = "notify", ![c].pod = pod[s].status]
    /\ UNCHANGED <<trip, fence, pod, due, truck, bounds>>

NoticedVerbatim(read) == IF read = "PENDING" THEN "AT_DROPOFF" ELSE read  \* seeded fault
Noticed(read) == IF read = "PENDING" THEN "AWAITING_SIGNATURE" ELSE read

TellWrite(c) ==
    /\ call[c].at = "notify"
    /\ pod' = [pod EXCEPT ![call[c].stop].told = TRUE,
                          ![call[c].stop].status = Noticed(call[c].pod)]
    /\ Ends(c)
    /\ UNCHANGED <<trip, fence, due, truck, bounds>>

-----------------------------------------------------------------------------
(* The proof of delivery: submitPodSignature, addPodPhoto, finalizePod. *)

(* The app asks for the proof of a dropoff it reached, one piece after the *)
(* other; a driver who asks for another piece, or too early, makes a detour. *)
Wanted(s) == IF ~pod[s].signed THEN "sign" ELSE IF ~pod[s].photo THEN "photo" ELSE "final"
Asked(s, goal) == fence[s].entered /\ pod[s].status # "FINALIZED" /\ goal = Wanted(s)

(* finalizePod reads the trip before anything else.                        *)
LastDropoff(s) == \A t \in Dropoffs \ {s} : pod[t].status = "FINALIZED"

ProofRead(c, s, goal) ==
    /\ s \in Dropoffs
    /\ \/ Asked(s, goal) /\ UNCHANGED detours
       \/ detours < scope.detours /\ detours' = detours + 1
    /\ IF goal = "final" /\ pod[s].status = "FINALIZED"
       THEN Begins(c, [Idle EXCEPT !.at = "ready"])
       ELSE LET read == [Idle EXCEPT !.at = "settle", !.stop = s, !.goal = goal]
            IN Begins(c, IF goal # "final" THEN read
                         ELSE [read EXCEPT !.proven = pod[s].signed /\ pod[s].photo,
                                           !.last = LastDropoff(s)])
    /\ UNCHANGED <<trip, fence, pod, due, truck, bills, faults, scope>>

(* assertReadyForPod charges what is due, as far as the charges succeed.   *)
Settle(c) ==
    /\ call[c].at = "settle"
    /\ \E unpaid \in SUBSET due : due' = unpaid
    /\ Goes(c, "count")
    /\ UNCHANGED <<trip, fence, pod, truck, bounds>>

(* ... and refuses the proof while something is due.                       *)
NextWriteUnproven(r) == IF r.goal # "final" THEN r.goal  \* seeded fault
                        ELSE IF r.last THEN "odometer" ELSE "final"
NextWrite(r) == CASE r.goal # "final" -> IF pod[r.stop].status = "FINALIZED" THEN "idle" ELSE r.goal
                  [] r.goal = "final" /\ ~r.proven -> "idle"
                  [] OTHER -> IF r.last THEN "odometer" ELSE "final"

CountDue(c) ==
    /\ call[c].at = "count"
    /\ IF due # {} \/ NextWrite(call[c]) = "idle" THEN Ends(c) ELSE Goes(c, NextWrite(call[c]))
    /\ UNCHANGED <<trip, fence, pod, due, truck, bounds>>

SignWrite(c) ==
    /\ call[c].at = "sign"
    /\ pod' = [pod EXCEPT ![call[c].stop].signed = TRUE, ![call[c].stop].status = "SIGNED"]
    /\ Ends(c)
    /\ UNCHANGED <<trip, fence, due, truck, bounds>>

PhotoWrite(c) ==
    /\ call[c].at = "photo"
    /\ pod' = [pod EXCEPT ![call[c].stop].photo = TRUE]
    /\ Ends(c)
    /\ UNCHANGED <<trip, fence, due, truck, bounds>>

(* captureEndOdometer, for the last dropoff.                               *)
ReadOdometer(c) ==
    /\ call[c].at = "odometer"
    /\ odometer' = TRUE
    /\ Goes(c, "final")
    /\ UNCHANGED <<status, score, fence, pod, due, truck, bounds>>

FinalWrite(c) ==
    /\ call[c].at = "final"
    /\ pod' = [pod EXCEPT ![call[c].stop].final = TRUE, ![call[c].stop].status = "FINALIZED"]
    /\ Completes(c)
    /\ UNCHANGED <<trip, fence, due, truck, bounds>>

(* The sender pays, or an admin waives, what a proof waits for. *)
PaidOrWaived(s) ==
    /\ s \in due /\ due' = due \ {s}
    /\ UNCHANGED <<trip, fence, pod, truck, call, bounds>>

-----------------------------------------------------------------------------
(* completeTripIfReady. *)

Ready == /\ \A s \in Route : ~Unfinished(s)
         /\ Dropoffs # {}
         /\ \A s \in Dropoffs : pod[s].status = "FINALIZED"

CompleteRead(c) ==
    /\ call[c].at = "ready"
    /\ IF status # "COMPLETED" /\ Ready THEN Goes(c, "complete") ELSE Ends(c)
    /\ UNCHANGED <<trip, fence, pod, due, truck, bounds>>

CompleteWrite(c) ==
    /\ call[c].at = "complete"
    /\ status' = "COMPLETED"
    /\ Goes(c, "reward")
    /\ UNCHANGED <<odometer, score, fence, pod, due, truck, bounds>>

Reward(c) ==
    /\ call[c].at = "reward"
    /\ score' = score + 1
    /\ Ends(c)
    /\ UNCHANGED <<status, odometer, fence, pod, due, truck, bounds>>

-----------------------------------------------------------------------------
(* The process that serves c dies between two statements. *)
Crash(c) ==
    /\ call[c].at # "idle" /\ faults < scope.faults
    /\ faults' = faults + 1
    /\ Ends(c)
    /\ UNCHANGED <<trip, fence, pod, due, truck, bills, detours, scope>>

Steps(c) == \/ SampleInside(c) \/ Arrive(c) \/ SampleOutside(c) \/ TellRead(c) \/ TellWrite(c)
            \/ Settle(c) \/ CountDue(c) \/ SignWrite(c) \/ PhotoWrite(c)
            \/ ReadOdometer(c) \/ FinalWrite(c)
            \/ CompleteRead(c) \/ CompleteWrite(c) \/ Reward(c)

Goals == {"sign", "photo", "final"}

Next == \/ Drive \/ Detour
        \/ \E s \in Stops : PaidOrWaived(s)
        \/ \E c \in Calls : \/ SampleRead(c) \/ Steps(c) \/ Crash(c)
                            \/ \E s \in Stops, goal \in Goals : ProofRead(c, s, goal)

Spec == Init /\ [][Next]_vars

(* A request that runs goes on; the app goes on posting its place and      *)
(* asking for proofs, the truck follows its route, and what is due is      *)
(* settled in the end.                                                     *)
Proves(c) == \E s \in Dropoffs, goal \in Goals : Asked(s, goal) /\ ProofRead(c, s, goal)

FairSpec == /\ Spec /\ WF_vars(Drive)
            /\ \A c \in Calls : WF_vars(Steps(c))
            /\ SF_vars(\E c \in Calls : SampleRead(c)) /\ SF_vars(\E c \in Calls : Proves(c))
            /\ \A s \in Stops : WF_vars(PaidOrWaived(s))

-----------------------------------------------------------------------------
(* Properties. *)

(* However requests overlap, a trip that reads COMPLETED was at every stop *)
(* and has a signature, a photo and a final proof for every dropoff        *)
(* (completeTripIfReady's gates); one request at a time, its end odometer  *)
(* was read too, whatever the order of the proofs and of a late notice.    *)
DeliveredIsProven ==
    status = "COMPLETED" => /\ \A s \in Route : fence[s].entered
                            /\ \A s \in Dropoffs : pod[s].final /\ pod[s].signed /\ pod[s].photo
                            /\ scope.width = 1 => odometer

(* One request at a time, the geofence looks at a stop only after the ones *)
(* before it were left (evaluateGeofence's active stop).                   *)
StopsInOrder ==
    scope.width = 1 => \A s, t \in Route :
        t < s /\ fence[s].count > 0 => fence[t].entered /\ fence[t].exited

(* One request at a time, a stop is entered after Bounce samples in a row  *)
(* inside it, and left after Bounce in a row outside.                      *)
Debounced ==
    [][scope.width = 1 => \A s \in Route :
         LET all(side) == Len(trail') = Bounce /\ \A i \in 1..Bounce : (trail'[i] = s) <=> side
         IN /\ ~fence[s].entered /\ fence'[s].entered => all(TRUE)
            /\ ~fence[s].exited /\ fence'[s].exited => all(FALSE)]_vars

(* The trip completes, whatever requests overlap or die on the way: no     *)
(* stop, proof or completion that was missed is missed for good.           *)
TripCompletes == <>(status = "COMPLETED")
=============================================================================
