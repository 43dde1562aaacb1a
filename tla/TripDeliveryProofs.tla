------------------------- MODULE TripDeliveryProofs -------------------------
(***************************************************************************)
(* Proofs about TripDelivery, for every route, every number of samples the *)
(* fence waits for, and any number of requests.                            *)
(*                                                                         *)
(* Inv is inductive however requests overlap and die.  It says of every    *)
(* request what it still knows of the trip: a proof that is about to be    *)
(* final has its signature and its photo, a notice that read FINALIZED     *)
(* writes it over a final proof only, a completion read a delivered trip.  *)
(* Serial adds what one request at a time promises; the notice of arrival  *)
(* runs beside it, so it also says that a stop has one notice, and that a  *)
(* notice finalizes nothing.                                               *)
(***************************************************************************)
EXTENDS TripDelivery, FiniteSetTheorems, SequenceTheorems, TLAPS

Finalized(s) == pod[s].status = "FINALIZED"
Proven(s)    == pod[s].signed /\ pod[s].photo
Done(s)      == pod[s].final /\ Proven(s)
Delivered    == (\A s \in Route : fence[s].entered) /\ \A s \in Dropoffs : Done(s)

PodsReal == \A s \in Stops : Finalized(s) => Done(s)
SlotReal(x) ==
    /\ x.at \in Labels \ {"idle", "ready", "complete", "reward"} => x.stop \in Route
    /\ x.at \in {"settle", "count"} => /\ x.goal # "none"
                                       /\ x.goal = "final" /\ x.proven => Proven(x.stop)
    /\ x.at \in {"odometer", "final"} => Proven(x.stop)
    /\ x.at = "notify" /\ x.pod = "FINALIZED" => Done(x.stop)
    /\ x.at = "complete" => Delivered
SlotsReal == \A c \in Calls : SlotReal(call[c])
EndReal == status = "COMPLETED" => Delivered
Inv == TypeOK /\ PodsReal /\ SlotsReal /\ EndReal

(* One request at a time. *)
Working(c) == call[c].at \notin {"idle"} \cup InBackground
OneAtATime == \A c, d \in Calls : Working(c) /\ Working(d) => c = d

Notice(c, s) == call[c].at \in {"arrive", "told", "notify"} /\ call[c].stop = s
OneNotice == \A c \in Calls, s \in Route : Notice(c, s) =>
                 fence[s].entered /\ \A d \in Calls : Notice(d, s) => c = d

(* A dropoff other than s has no final proof yet. *)
Open(s) == \E t \in Dropoffs \ {s} : ~Finalized(t)
SlotGood(x) ==
    /\ x.at = "sample" => x.was = fence[x.stop] /\ Active(x.stop)
    /\ x.at = "notify" /\ x.pod = "FINALIZED" => Finalized(x.stop)
    /\ x.at = "sign" => ~Finalized(x.stop)
    /\ x.at \in {"settle", "count"} /\ x.goal = "final" /\ ~x.last => Open(x.stop)
    /\ x.at = "final" => odometer \/ Open(x.stop)
    /\ x.at = "complete" => odometer
SlotsGood == \A c \in Calls : SlotGood(call[c])
OdometerRead == /\ (\A s \in Dropoffs : Finalized(s)) /\ Dropoffs # {} => odometer
                /\ status = "COMPLETED" => odometer

InOrder == \A s, t \in Route : t < s /\ fence[s].count > 0 => ~Unfinished(t)
(* The streak of the stop the fence looks at is what the last samples say. *)
Streaks(s) == /\ fence[s].count <= Len(trail)
              /\ \A i \in 1..Len(trail) :
                     i > Len(trail) - fence[s].count => ((trail[i] = s) <=> fence[s].inside)
Tracked == Len(trail) <= Bounce /\ \A s \in Route : Unfinished(s) => Streaks(s)

SerialFits == OneAtATime /\ OneNotice /\ SlotsGood /\ OdometerRead /\ InOrder /\ Tracked
SerialInv  == Inv /\ (scope.width = 1 => SerialFits)

-----------------------------------------------------------------------------
(* What every step does: no arrival, signature, photo or final proof is    *)
(* ever taken back.                                                        *)
FenceForward == /\ fence' \in [Stops -> Fence]
                /\ \A s \in Stops : fence[s].entered => fence'[s].entered
PodForward == /\ pod' \in [Stops -> Pod]
              /\ \A s \in Stops : /\ Proven(s) => Proven(s)'
                                  /\ Done(s) => Done(s)'
                                  /\ Finalized(s)' => Done(s)'
TripForward == /\ status' \in TripStatus /\ odometer' \in BOOLEAN /\ score' \in Nat
               /\ status' = "COMPLETED" => Delivered
RestForward == /\ due' \in SUBSET Stops /\ pos' \in {0} \cup Stops
               /\ trail' \in Seq({0} \cup Stops)
               /\ bills' \in Nat /\ detours' \in Nat /\ faults' \in Nat /\ scope' = scope
Forward == FenceForward /\ PodForward /\ TripForward /\ RestForward

LEMMA Routed == ASSUME TypeOK PROVE Route \subseteq Stops /\ Dropoffs \subseteq Route
                                    /\ 0 \notin Stops /\ Stops \subseteq Nat
  BY DeliveryConstants DEF TypeOK, Route, Dropoffs

LEMMA RouteStays == ASSUME scope' = scope PROVE Route' = Route /\ Dropoffs' = Dropoffs
  BY DEF Route, Dropoffs

LEMMA DeliveredStays == ASSUME TypeOK, Forward, Delivered PROVE Delivered'
  BY Routed, RouteStays DEF Delivered, Forward, FenceForward, PodForward, RestForward

LEMMA SlotForward ==
  ASSUME TypeOK, Forward, NEW x \in Slot, SlotReal(x) PROVE SlotReal(x)'
  <1>1. /\ x.at \in Labels \ {"idle", "ready", "complete", "reward"} => x.stop \in Route'
        /\ x.stop \in Route => x.stop \in Stops
    BY Routed, RouteStays DEF Forward, RestForward, SlotReal
  <1>2. x.stop \in Stops /\ Proven(x.stop) => Proven(x.stop)' BY DEF Forward, PodForward
  <1>3. x.stop \in Stops /\ Done(x.stop) => Done(x.stop)' BY DEF Forward, PodForward
  <1>4. Delivered => Delivered' BY DeliveredStays
  <1> QED BY <1>1, <1>2, <1>3, <1>4 DEF SlotReal, Slot, Labels

LEMMA KeptBy ==
  ASSUME Inv, Forward, call' \in [Calls -> Slot],
         \A c \in Calls : call'[c] = call[c] \/ SlotReal(call'[c])
  PROVE  Inv'
  <1>1. TypeOK' BY DEF Inv, TypeOK, Forward, FenceForward, PodForward, TripForward, RestForward,
                       RowsTyped, SlotsTyped
  <1>2. PodsReal' BY DEF PodsReal, Forward, PodForward
  <1>3. EndReal' BY DeliveredStays DEF EndReal, Inv, Forward, TripForward
  <1>4. SlotsReal'
    <2> SUFFICES ASSUME NEW c \in Calls, NEW x, x = call'[c] PROVE SlotReal(x)' BY DEF SlotsReal
    <2>1. x \in Slot /\ SlotReal(x) BY DEF Inv, SlotsReal
    <2> QED BY <2>1, SlotForward DEF Inv
  <1> QED BY <1>1, <1>2, <1>3, <1>4 DEF Inv

LEMMA FenceStays == ASSUME Inv, UNCHANGED fence PROVE FenceForward
  BY DEF Inv, TypeOK, RowsTyped, FenceForward
LEMMA PodStays == ASSUME Inv, UNCHANGED pod PROVE PodForward
  BY DEF Inv, TypeOK, RowsTyped, PodsReal, PodForward, Finalized, Done, Proven
LEMMA TripStays == ASSUME Inv, UNCHANGED trip PROVE TripForward
  BY DEF Inv, TypeOK, RowsTyped, EndReal, TripForward, trip
LEMMA RestStays == ASSUME Inv, UNCHANGED <<due, truck, bounds>> PROVE RestForward
  BY DEF Inv, TypeOK, RowsTyped, RestForward, truck, bounds

LEMMA SlotMoves ==
  ASSUME Inv, Forward, NEW c \in Calls, NEW x, x \in Slot, SlotReal(x),
         call' = [call EXCEPT ![c] = x]
  PROVE  Inv'
  <1>1. /\ call' \in [Calls -> Slot]
        /\ \A d \in Calls : call'[d] = call[d] \/ call'[d] = x
    BY DEF Inv, TypeOK, SlotsTyped
  <1> QED BY <1>1, KeptBy

LEMMA IdleReal == Idle \in Slot /\ SlotReal(Idle) /\ Idle.at = "idle"
  <1>1. NoFence \in Fence BY DeliveryConstants DEF NoFence, Fence
  <1>2. Idle \in Slot BY <1>1 DEF Idle, Slot, Labels, PodStatus
  <1>3. Idle.at = "idle" BY DEF Idle
  <1> QED BY <1>2, <1>3 DEF SlotReal
LEMMA Leaves == ASSUME Inv, Forward, NEW c \in Calls, Ends(c) PROVE Inv'
  BY IdleReal, SlotMoves DEF Ends

(* A slot that goes on to a label it needs nothing new for. *)
LEMMA Called == ASSUME Inv, NEW c \in Calls PROVE call[c] \in Slot /\ SlotReal(call[c])
  BY DEF Inv, TypeOK, SlotsTyped, SlotsReal

Onward(x, l) == [x EXCEPT !.at = l]
LEMMA Going ==
  ASSUME NEW x \in Slot, NEW l \in Labels
  PROVE  /\ Onward(x, l) \in Slot /\ Onward(x, l).at = l
         /\ Onward(x, l).stop = x.stop /\ Onward(x, l).goal = x.goal
         /\ Onward(x, l).proven = x.proven /\ Onward(x, l).last = x.last
         /\ Onward(x, l).pod = x.pod
  BY DEF Slot, Onward
LEMMA Goings ==
  ASSUME Inv, NEW c \in Calls, NEW l, Goes(c, l)
  PROVE  call' = [call EXCEPT ![c] = Onward(call[c], l)]
  BY DEF Goes, Onward, Inv, TypeOK, SlotsTyped

LEMMA ReadyReal == LET x == [Idle EXCEPT !.at = "ready"]
                   IN x \in Slot /\ SlotReal(x) /\ x.at = "ready"
  <1> DEFINE x == [Idle EXCEPT !.at = "ready"]
  <1>1. x \in Slot /\ x.at = "ready" BY IdleReal DEF Slot, Labels
  <1> HIDE DEF x
  <1>2. SlotReal(x) BY <1>1 DEF SlotReal
  <1> QED BY <1>1, <1>2 DEF x
LEMMA Completing == ASSUME Inv, Forward, NEW c \in Calls, Completes(c) PROVE Inv'
  BY ReadyReal, SlotMoves DEF Completes

-----------------------------------------------------------------------------
(* Requests that arrive. *)
LEMMA SampleArrives == ASSUME Inv, NEW c \in Calls, SampleRead(c) PROVE Inv'
  <1>1. Forward BY FenceStays, PodStays, TripStays, RestStays DEF SampleRead, Forward
  <1>2. ASSUME NothingLeft(c) PROVE Inv'
    BY <1>1, <1>2, ReadyReal, SlotMoves DEF NothingLeft, Begins
  <1>3. ASSUME NEW s \in Route, NEW h \in BOOLEAN, NEW r \in BOOLEAN,
               Begins(c, [Idle EXCEPT !.at = "sample", !.stop = s, !.here = h,
                                      !.was = fence[s], !.rest = r])
        PROVE  Inv'
    <2> DEFINE x == [Idle EXCEPT !.at = "sample", !.stop = s, !.here = h,
                                 !.was = fence[s], !.rest = r]
    <2>1. s \in Stops /\ fence[s] \in Fence BY <1>3, Routed DEF Inv, TypeOK, RowsTyped
    <2>2. x \in Slot /\ x.at = "sample" /\ x.stop = s BY <2>1, IdleReal DEF Slot, Labels
    <2>3. call' = [call EXCEPT ![c] = x] BY <1>3 DEF Begins
    <2> HIDE DEF x
    <2>4. SlotReal(x) BY <2>2 DEF SlotReal
    <2> QED BY <1>1, <2>2, <2>3, <2>4, SlotMoves
  <1> QED BY <1>2, <1>3 DEF SampleRead

LEMMA ProofArrives ==
  ASSUME Inv, NEW c \in Calls, NEW s \in Stops, NEW goal \in Goals, ProofRead(c, s, goal)
  PROVE  Inv'
  <1>1. Forward
    <2>1. detours' \in Nat BY DEF ProofRead, Inv, TypeOK
    <2> QED BY <2>1, FenceStays, PodStays, TripStays
            DEF ProofRead, Forward, RestForward, Inv, TypeOK, RowsTyped, truck, bounds
  <1>2. CASE Begins(c, [Idle EXCEPT !.at = "ready"])
    BY <1>1, <1>2, ReadyReal, SlotMoves DEF Begins
  <1> DEFINE read == [Idle EXCEPT !.at = "settle", !.stop = s, !.goal = goal]
             proven == pod[s].signed /\ pod[s].photo
             final == [read EXCEPT !.proven = proven, !.last = LastDropoff(s)]
  <1>3. read \in Slot /\ read.at = "settle" /\ read.stop = s /\ read.goal = goal /\ ~read.proven
    <2>1. Idle.proven = FALSE BY DEF Idle
    <2> QED BY <2>1, IdleReal DEF Slot, Labels, Goals
  <1>4. s \in Route /\ goal # "none" BY Routed DEF ProofRead, Goals, Inv
  <1>5. pod[s] \in Pod BY DEF Inv, TypeOK, RowsTyped
  <1>6. proven \in BOOLEAN /\ LastDropoff(s) \in BOOLEAN BY <1>5 DEF Pod, LastDropoff
  <1> HIDE DEF read, proven
  <1>7. /\ final \in Slot /\ final.at = "settle" /\ final.stop = s /\ final.goal = goal
        /\ final.proven = proven
    BY <1>3, <1>6 DEF Slot
  <1> HIDE DEF final
  <1>8. SlotReal(read) BY <1>3, <1>4 DEF SlotReal
  <1>9. SlotReal(final) BY <1>4, <1>7 DEF SlotReal, Proven, proven
  <1>10. \/ Begins(c, [Idle EXCEPT !.at = "ready"])
         \/ call' = [call EXCEPT ![c] = read]
         \/ call' = [call EXCEPT ![c] = final]
    BY DEF ProofRead, Begins, read, final, proven
  <1> QED BY <1>1, <1>2, <1>3, <1>7, <1>8, <1>9, <1>10, SlotMoves

-----------------------------------------------------------------------------
(* Steps of the fence. *)
LEMMA FenceWritten ==
  ASSUME Inv, NEW s \in Stops, NEW f \in Fence, fence' = [fence EXCEPT ![s] = f],
         fence[s].entered => f.entered
  PROVE  FenceForward
  BY DEF Inv, TypeOK, RowsTyped, FenceForward

LEMMA TrailTyped ==
  ASSUME Inv, NEW p \in {0} \cup Stops, Sampled(p) PROVE trail' \in Seq({0} \cup Stops)
  <1> DEFINE P == {0} \cup Stops
             t == Append(trail, p)
  <1>1. t \in Seq(P) /\ Len(t) = Len(trail) + 1 /\ Len(trail) \in Nat BY DEF Inv, TypeOK
  <1>2. t # <<>> BY <1>1
  <1>3. Tail(t) \in Seq(P) BY <1>1, <1>2
  <1> QED BY <1>1, <1>3 DEF Sampled

LEMMA Sampling ==
  ASSUME Inv, NEW c \in Calls, SampleInside(c) \/ SampleOutside(c) PROVE Inv'
  <1> DEFINE s == call[c].stop
             was == call[c].was
  <1>1. s \in Route /\ s \in Stops /\ was \in Fence /\ call[c] \in Slot
    BY Called, Routed DEF SampleInside, SampleOutside, SlotReal, Labels, Inv, Slot
  <1>2. fence \in [Stops -> Fence] /\ fence[s] \in Fence BY <1>1 DEF Inv, TypeOK, RowsTyped
  <1>3. PodForward /\ TripForward BY PodStays, TripStays DEF SampleInside, SampleOutside
  <1>4. CASE SampleInside(c)
    <2> DEFINE n == Streak(was, TRUE)
               e == fence[s].entered \/ Enters(was)
               x == was.exited /\ ~Enters(was) /\ ~was.entered
               f == [fence[s] EXCEPT !.count = n, !.inside = TRUE, !.entered = e, !.exited = x]
    <2>1. fence' = [fence EXCEPT ![s] = f] BY <1>2, <1>4 DEF SampleInside
    <2>2. n \in 0..Bounce BY <1>1, DeliveryConstants DEF Streak, Fence
    <2>3. e \in BOOLEAN /\ x \in BOOLEAN BY <1>1, <1>2 DEF Fence, Enters
    <2> HIDE DEF n, e, x
    <2>4. f \in Fence /\ f.entered = e BY <1>2, <2>2, <2>3 DEF Fence
    <2>5. FenceForward BY <1>1, <2>1, <2>4, FenceWritten DEF e
    <2>6. RestForward
      <3>1. due' \in SUBSET Stops /\ bills' \in Nat
        BY <1>1, <1>4 DEF SampleInside, Inv, TypeOK, RowsTyped
      <3>2. trail' \in Seq({0} \cup Stops) BY <1>1, <1>4, TrailTyped DEF SampleInside
      <3> QED BY <1>4, <3>1, <3>2 DEF SampleInside, RestForward, Inv, TypeOK
    <2>7. Forward BY <1>3, <2>5, <2>6 DEF Forward
    <2>8. CASE Goes(c, "arrive")
      <3>1. call' = [call EXCEPT ![c] = Onward(call[c], "arrive")] BY <2>8, Goings
      <3>2. "arrive" \in Labels BY DEF Labels
      <3>3. SlotReal(Onward(call[c], "arrive")) BY <1>1, <3>2, Going DEF SlotReal
      <3> QED BY <1>1, <2>7, <3>1, <3>2, <3>3, Going, SlotMoves
    <2> QED BY <1>4, <2>7, <2>8, Leaves DEF SampleInside
  <1>5. CASE SampleOutside(c)
    <2> DEFINE n == Streak(was, FALSE)
               x == Exits(was) \/ was.exited
               f == [fence[s] EXCEPT !.count = n, !.inside = FALSE, !.exited = x]
    <2>1. fence' = [fence EXCEPT ![s] = f] BY <1>2, <1>5 DEF SampleOutside
    <2>2. n \in 0..Bounce BY <1>1, DeliveryConstants DEF Streak, Fence
    <2>3. x \in BOOLEAN BY <1>1, <1>2 DEF Fence, Exits
    <2> HIDE DEF n, x
    <2>4. f \in Fence /\ f.entered = fence[s].entered BY <1>2, <2>2, <2>3 DEF Fence
    <2>5. FenceForward BY <1>1, <2>1, <2>4, FenceWritten
    <2>6. RestForward
      <3>1. trail' \in Seq({0} \cup Stops) BY <1>5, TrailTyped DEF SampleOutside
      <3> QED BY <1>5, <3>1 DEF SampleOutside, RestForward, Inv, TypeOK, RowsTyped, bounds
    <2>7. Forward BY <1>3, <2>5, <2>6 DEF Forward
    <2> QED BY <1>5, <2>7, Leaves, Completing DEF SampleOutside
  <1> QED BY <1>4, <1>5

LEMMA Arriving == ASSUME Inv, NEW c \in Calls, Arrive(c) PROVE Inv'
  <1>1. FenceForward /\ PodForward /\ RestForward
    BY FenceStays, PodStays, RestStays DEF Arrive
  <1>2. TripForward BY DEF Arrive, TripForward, Inv, TypeOK, RowsTyped, TripStatus
  <1> DEFINE s == call[c].stop
             x == [Idle EXCEPT !.at = "told", !.stop = s]
  <1>3. s \in Route /\ s \in Stops BY Called, Routed DEF Arrive, SlotReal, Labels, Inv
  <1>4. x \in Slot /\ x.at = "told" /\ x.stop = s BY <1>3, IdleReal DEF Slot, Labels
  <1>5. call' = [call EXCEPT ![c] = x] BY DEF Arrive
  <1> HIDE DEF x
  <1>6. SlotReal(x) BY <1>3, <1>4 DEF SlotReal
  <1> QED BY <1>1, <1>2, <1>4, <1>5, <1>6, SlotMoves DEF Forward

-----------------------------------------------------------------------------
(* Steps of the proof. *)
LEMMA PodWritten ==
  ASSUME Inv, NEW s \in Stops, NEW p \in Pod, pod' = [pod EXCEPT ![s] = p],
         pod[s].signed => p.signed, pod[s].photo => p.photo, pod[s].final => p.final,
         p.status = "FINALIZED" => p.final /\ p.signed /\ p.photo
  PROVE  PodForward
  <1>1. pod \in [Stops -> Pod] BY DEF Inv, TypeOK, RowsTyped
  <1>2. ASSUME NEW t \in Stops
        PROVE  /\ Proven(t) => Proven(t)'
               /\ Done(t) => Done(t)'
               /\ Finalized(t)' => Done(t)'
    <2>1. CASE t = s BY <1>1, <2>1 DEF Proven, Done, Finalized
    <2>2. CASE t # s
      <3>1. pod'[t] = pod[t] BY <1>1, <2>2
      <3> QED BY <3>1 DEF Proven, Done, Finalized, Inv, PodsReal
    <2> QED BY <2>1, <2>2
  <1> QED BY <1>1, <1>2 DEF PodForward

LEMMA Telling == ASSUME Inv, NEW c \in Calls, TellRead(c) \/ TellWrite(c) PROVE Inv'
  <1> DEFINE s == call[c].stop
  <1>1. s \in Route /\ s \in Stops /\ call[c] \in Slot /\ SlotReal(call[c])
    BY Called, Routed DEF TellRead, TellWrite, SlotReal, Labels, Inv
  <1>2. pod \in [Stops -> Pod] /\ pod[s] \in Pod BY <1>1 DEF Inv, TypeOK, RowsTyped
  <1>3. FenceForward /\ TripForward /\ RestForward
    BY FenceStays, TripStays, RestStays DEF TellRead, TellWrite
  <1>4. CASE TellRead(c)
    <2>1. Forward BY <1>3, <1>4, PodStays DEF TellRead, Forward
    <2> DEFINE st == pod[s].status
               x == [call[c] EXCEPT !.at = "notify", !.pod = st]
    <2>2. st \in PodStatus /\ (st = "FINALIZED" => Done(s))
      BY <1>1, <1>2 DEF Pod, Inv, PodsReal, Finalized
    <2>3. ~pod[s].told => call' = [call EXCEPT ![c] = x]
      BY <1>4 DEF TellRead, Inv, TypeOK, SlotsTyped
    <2> HIDE DEF st
    <2>4. x \in Slot /\ x.at = "notify" /\ x.stop = s /\ x.pod = st
      BY <1>1, <2>2 DEF Slot, Labels
    <2> HIDE DEF x
    <2>5. SlotReal(x) BY <1>1, <2>2, <2>4 DEF SlotReal
    <2> QED BY <1>4, <2>1, <2>3, <2>4, <2>5, Leaves, SlotMoves DEF TellRead
  <1>5. CASE TellWrite(c)
    <2> DEFINE st == Noticed(call[c].pod)
               p == [pod[s] EXCEPT !.told = TRUE, !.status = st]
    <2>1. st \in PodStatus /\ (st = "FINALIZED" => Done(s))
      BY <1>1, <1>5 DEF Noticed, PodStatus, Slot, SlotReal, TellWrite
    <2>2. pod' = [pod EXCEPT ![s] = p] BY <1>5 DEF TellWrite
    <2> HIDE DEF st
    <2>3. /\ p \in Pod /\ p.status = st
          /\ p.signed = pod[s].signed /\ p.photo = pod[s].photo /\ p.final = pod[s].final
      BY <1>2, <2>1 DEF Pod
    <2>4. PodForward BY <1>1, <2>1, <2>2, <2>3, PodWritten DEF Done, Proven
    <2> QED BY <1>3, <1>5, <2>4, Leaves DEF Forward, TellWrite
  <1> QED BY <1>4, <1>5

LEMMA Asking == ASSUME Inv, NEW c \in Calls, Settle(c) \/ CountDue(c) PROVE Inv'
  <1>1. FenceForward /\ PodForward /\ TripForward
    BY FenceStays, PodStays, TripStays DEF Settle, CountDue
  <1>2. RestForward
    <2>1. due' \in SUBSET Stops BY DEF Settle, CountDue, Inv, TypeOK, RowsTyped
    <2> QED BY <2>1 DEF Settle, CountDue, RestForward, Inv, TypeOK, truck, bounds
  <1>3. Forward BY <1>1, <1>2 DEF Forward
  <1>4. call[c] \in Slot /\ SlotReal(call[c]) BY Called
  <1>5. CASE Settle(c)
    <2>1. call' = [call EXCEPT ![c] = Onward(call[c], "count")] BY <1>5, Goings DEF Settle
    <2>2. "count" \in Labels /\ call[c].at = "settle" BY <1>5 DEF Labels, Settle
    <2>3. SlotReal(Onward(call[c], "count")) BY <1>4, <2>2, Going DEF SlotReal, Labels
    <2> QED BY <1>3, <1>4, <2>1, <2>2, <2>3, Going, SlotMoves
  <1>6. CASE CountDue(c)
    <2> DEFINE l == NextWrite(call[c])
    <2>1. /\ l \in {"idle", "sign", "photo", "odometer", "final"}
          /\ l \in {"odometer", "final"} => call[c].goal = "final" /\ call[c].proven
      BY <1>4, <1>6 DEF NextWrite, CountDue, SlotReal, Slot
    <2>2. call[c].at = "count" /\ (Ends(c) \/ (Goes(c, l) /\ l # "idle")) BY <1>6 DEF CountDue
    <2> HIDE DEF l
    <2>3. ASSUME Goes(c, l), l # "idle" PROVE Inv'
      <3>1. l \in Labels /\ call' = [call EXCEPT ![c] = Onward(call[c], l)]
        BY <2>1, <2>3, Goings DEF Labels
      <3>2. SlotReal(Onward(call[c], l))
        <4>1. call[c].stop \in Route BY <1>4, <2>2 DEF SlotReal, Labels
        <4>2. l \in {"odometer", "final"} => Proven(call[c].stop)
          BY <1>4, <2>1, <2>2 DEF SlotReal
        <4> DEFINE x == Onward(call[c], l)
        <4>3. x.at = l /\ x.stop = call[c].stop BY <1>4, <3>1, Going
        <4> HIDE DEF x
        <4> QED BY <2>1, <4>1, <4>2, <4>3 DEF SlotReal, x
      <3> QED BY <1>3, <1>4, <3>1, <3>2, Going, SlotMoves
    <2> QED BY <1>3, <2>2, <2>3, Leaves
  <1> QED BY <1>5, <1>6

LEMMA Proving ==
  ASSUME Inv, NEW c \in Calls, SignWrite(c) \/ PhotoWrite(c) \/ FinalWrite(c) PROVE Inv'
  <1> DEFINE s == call[c].stop
  <1>1. s \in Stops /\ SlotReal(call[c])
    BY Called, Routed DEF SignWrite, PhotoWrite, FinalWrite, SlotReal, Labels, Inv
  <1>2. pod \in [Stops -> Pod] /\ pod[s] \in Pod BY <1>1 DEF Inv, TypeOK, RowsTyped
  <1>3. FenceForward /\ TripForward /\ RestForward
    BY FenceStays, TripStays, RestStays DEF SignWrite, PhotoWrite, FinalWrite
  <1>4. CASE SignWrite(c)
    <2> DEFINE p == [pod[s] EXCEPT !.signed = TRUE, !.status = "SIGNED"]
    <2>1. pod' = [pod EXCEPT ![s] = p] BY <1>4 DEF SignWrite
    <2>2. p \in Pod /\ p.signed /\ p.photo = pod[s].photo /\ p.final = pod[s].final
          /\ p.status = "SIGNED"
      BY <1>2 DEF Pod, PodStatus
    <2>3. PodForward BY <1>1, <2>1, <2>2, PodWritten
    <2> QED BY <1>3, <1>4, <2>3, Leaves DEF Forward, SignWrite
  <1>5. CASE PhotoWrite(c)
    <2> DEFINE p == [pod[s] EXCEPT !.photo = TRUE]
    <2>1. pod' = [pod EXCEPT ![s] = p] BY <1>5 DEF PhotoWrite
    <2>2. p \in Pod /\ p.photo /\ p.signed = pod[s].signed /\ p.final = pod[s].final
          /\ p.status = pod[s].status
      BY <1>2 DEF Pod
    <2>3. PodForward
      BY <1>1, <2>1, <2>2, PodWritten DEF Inv, PodsReal, Finalized, Done, Proven
    <2> QED BY <1>3, <1>5, <2>3, Leaves DEF Forward, PhotoWrite
  <1>6. CASE FinalWrite(c)
    <2> DEFINE p == [pod[s] EXCEPT !.final = TRUE, !.status = "FINALIZED"]
    <2>1. pod' = [pod EXCEPT ![s] = p] BY <1>6 DEF FinalWrite
    <2>2. p \in Pod /\ p.final /\ p.signed = pod[s].signed /\ p.photo = pod[s].photo
      BY <1>2 DEF Pod, PodStatus
    <2>3. pod[s].signed /\ pod[s].photo BY <1>1, <1>6 DEF FinalWrite, SlotReal, Proven
    <2>4. PodForward BY <1>1, <2>1, <2>2, <2>3, PodWritten
    <2> QED BY <1>3, <1>6, <2>4, Completing DEF Forward, FinalWrite
  <1> QED BY <1>4, <1>5, <1>6

LEMMA Reading == ASSUME Inv, NEW c \in Calls, ReadOdometer(c) PROVE Inv'
  <1>1. TripForward BY DEF ReadOdometer, TripForward, Inv, TypeOK, RowsTyped, EndReal
  <1>2. Forward BY <1>1, FenceStays, PodStays, RestStays DEF Forward, ReadOdometer
  <1>3. "final" \in Labels /\ call[c].at = "odometer" BY DEF Labels, ReadOdometer
  <1>4. call' = [call EXCEPT ![c] = Onward(call[c], "final")] BY Goings DEF ReadOdometer
  <1>5. SlotReal(Onward(call[c], "final")) BY <1>3, Called, Going DEF SlotReal, Labels
  <1> QED BY <1>2, <1>3, <1>4, <1>5, Called, Going, SlotMoves

-----------------------------------------------------------------------------
(* Completion, and the rest. *)
LEMMA ReadyDelivers == ASSUME Inv, Ready PROVE Delivered
  BY Routed DEF Inv, PodsReal, Ready, Unfinished, Delivered, Finalized

LEMMA Ending ==
  ASSUME Inv, NEW c \in Calls, CompleteRead(c) \/ CompleteWrite(c) \/ Reward(c) PROVE Inv'
  <1>1. FenceForward /\ PodForward /\ RestForward
    BY FenceStays, PodStays, RestStays DEF CompleteRead, CompleteWrite, Reward
  <1>2. call[c] \in Slot /\ SlotReal(call[c]) BY Called
  <1>3. CASE CompleteRead(c)
    <2>1. Forward BY <1>1, <1>3, TripStays DEF CompleteRead, Forward
    <2>2. CASE Goes(c, "complete") /\ Ready
      <3>1. "complete" \in Labels /\ call' = [call EXCEPT ![c] = Onward(call[c], "complete")]
        BY <2>2, Goings DEF Labels
      <3>2. SlotReal(Onward(call[c], "complete"))
        BY <1>2, <2>2, <3>1, Going, ReadyDelivers DEF SlotReal
      <3> QED BY <1>2, <2>1, <3>1, <3>2, Going, SlotMoves
    <2> QED BY <1>3, <2>1, <2>2, Leaves DEF CompleteRead
  <1>4. CASE CompleteWrite(c)
    <2>1. TripForward
      BY <1>2, <1>4 DEF CompleteWrite, SlotReal, TripForward, Inv, TypeOK, RowsTyped, TripStatus
    <2>2. "reward" \in Labels /\ call' = [call EXCEPT ![c] = Onward(call[c], "reward")]
      BY <1>4, Goings DEF CompleteWrite, Labels
    <2>3. SlotReal(Onward(call[c], "reward")) BY <1>2, <2>2, Going DEF SlotReal
    <2> QED BY <1>1, <1>2, <2>1, <2>2, <2>3, Going, SlotMoves DEF Forward
  <1>5. CASE Reward(c)
    <2>1. TripForward BY <1>5 DEF Reward, TripForward, Inv, TypeOK, RowsTyped, EndReal
    <2> QED BY <1>1, <1>5, <2>1, Leaves DEF Forward, Reward
  <1> QED BY <1>3, <1>4, <1>5

LEMMA Outside ==
  ASSUME Inv, Drive \/ Detour \/ (\E s \in Stops : PaidOrWaived(s)) \/ UNCHANGED vars PROVE Inv'
  <1>1. FenceForward /\ PodForward /\ TripForward
    BY FenceStays, PodStays, TripStays DEF Drive, Detour, PaidOrWaived, vars, trip
  <1>2. RestForward
    BY Routed DEF Drive, Detour, PaidOrWaived, vars, RestForward, Inv, TypeOK, RowsTyped, truck, bounds
  <1>3. call' = call /\ call \in [Calls -> Slot]
    BY DEF Drive, Detour, PaidOrWaived, vars, Inv, TypeOK, SlotsTyped
  <1> QED BY <1>1, <1>2, <1>3, KeptBy DEF Forward

LEMMA Dying == ASSUME Inv, NEW c \in Calls, Crash(c) PROVE Inv'
  <1>1. RestForward
    BY DEF Crash, RestForward, Inv, TypeOK, RowsTyped, truck
  <1>2. Forward BY <1>1, FenceStays, PodStays, TripStays DEF Crash, Forward
  <1> QED BY <1>2, Leaves DEF Crash

LEMMA InitInv == Init => Inv
  <1> SUFFICES ASSUME Init PROVE Inv OBVIOUS
  <1>1. NoFence \in Fence /\ NoPod \in Pod /\ NoPod.status = "PENDING"
    BY DeliveryConstants DEF NoFence, Fence, NoPod, Pod, PodStatus
  <1>2. RowsTyped BY <1>1 DEF Init, RowsTyped, TripStatus
  <1>3. SlotsTyped /\ SlotsReal BY IdleReal DEF Init, SlotsTyped, SlotsReal
  <1>4. TypeOK
    <2>1. trail \in Seq({0} \cup Stops) BY DEF Init
    <2> QED BY <1>2, <1>3, <2>1 DEF Init, TypeOK
  <1>5. PodsReal /\ EndReal BY <1>1 DEF Init, PodsReal, EndReal, Finalized
  <1> QED BY <1>3, <1>4, <1>5 DEF Inv

LEMMA StepInv == Inv /\ [Next]_vars => Inv'
  <1> SUFFICES ASSUME Inv, [Next]_vars PROVE Inv' OBVIOUS
  <1>1. ASSUME NEW c \in Calls, Steps(c) PROVE Inv'
    BY <1>1, Sampling, Arriving, Telling, Asking, Proving, Reading, Ending DEF Steps
  <1> QED BY <1>1, SampleArrives, ProofArrives, Dying, Outside DEF Next

(* Every row of the trip and every request keeps its type. *)
THEOREM DeliveryTypeCorrect == Spec => []TypeOK
  <1>1. Inv => TypeOK BY DEF Inv
  <1> QED BY <1>1, InitInv, StepInv, PTL DEF Spec

-----------------------------------------------------------------------------
(* One request at a time. *)
Moves(c)  == \A d \in Calls \ {c} : call'[d] = call[d]
Apart(c)  == Moves(c) /\ \A d \in Calls \ {c} : ~Working(d)
NoNews(c) == \A s \in Route : Notice(c, s)' => Notice(c, s)

(* A request begins when no other works. *)
LEMMA NoneWorks ==
  ASSUME OneAtATime, scope.width = 1, NEW c \in Calls, NEW x, Begins(c, x)
  PROVE  \A d \in Calls : ~Working(d)
  <1> SUFFICES ASSUME NEW d \in Calls, Working(d) PROVE FALSE OBVIOUS
  <1>1. Busy = {d} BY DEF Busy, OneAtATime, Working
  <1>2. Cardinality({d}) = 1 BY FS_Singleton
  <1> QED BY <1>1, <1>2 DEF Begins

LEMMA Began ==
  ASSUME Inv, OneAtATime, scope.width = 1, NEW c \in Calls, NEW x, Begins(c, x)
  PROVE  Apart(c) /\ call'[c] = x
  <1>1. Moves(c) /\ call'[c] = x BY DEF Begins, Moves, Inv, TypeOK, SlotsTyped
  <1> QED BY <1>1, NoneWorks DEF Apart

LEMMA OneAtATimeKept ==
  ASSUME OneAtATime, NEW c \in Calls, Apart(c) \/ (Moves(c) /\ ~Working(c)') PROVE OneAtATime'
  <1>1. CASE Apart(c) BY <1>1 DEF Apart, Moves, OneAtATime, Working
  <1>2. CASE Moves(c) /\ ~Working(c)' BY <1>2 DEF Moves, OneAtATime, Working
  <1> QED BY <1>1, <1>2

(* What a request knows stays true while nothing it looks at changes ...   *)
LEMMA GoodStays ==
  ASSUME UNCHANGED <<fence, pod, scope>>, odometer => odometer', NEW x, SlotGood(x)
  PROVE  SlotGood(x)'
  <1>1. Active(x.stop)' = Active(x.stop) BY DEF Active, Route, Unfinished
  <1>2. Open(x.stop)' = Open(x.stop) BY DEF Open, Dropoffs, Route, Finalized
  <1> QED BY <1>1, <1>2 DEF SlotGood, Finalized
(* ... and what a notice knows, while a request works.                     *)
LEMMA NoticeStays ==
  ASSUME \A s \in Route : Finalized(s) => Finalized(s)', NEW x, SlotReal(x), SlotGood(x),
         x.at \in {"idle"} \cup InBackground
  PROVE  SlotGood(x)'
  <1>1. x.at = "notify" => x.stop \in Route BY DEF SlotReal, Labels
  <1> QED BY <1>1 DEF SlotGood, InBackground, Finalized

LEMMA QuietGood ==
  ASSUME Inv, SlotsGood, UNCHANGED <<fence, pod, scope>>, odometer => odometer',
         NEW c \in Calls, Moves(c), NEW y, y = call'[c], SlotGood(y)'
  PROVE  SlotsGood'
  <1> SUFFICES ASSUME NEW d \in Calls, NEW x, x = call'[d] PROVE SlotGood(x)' BY DEF SlotsGood
  <1>1. CASE d = c BY <1>1
  <1>2. CASE d # c
    <2>1. x = call[d] BY <1>2 DEF Moves
    <2> QED BY <2>1, GoodStays DEF SlotsGood
  <1> QED BY <1>1, <1>2

LEMMA ApartGood ==
  ASSUME Inv, SlotsGood, \A s \in Route : Finalized(s) => Finalized(s)',
         NEW c \in Calls, Apart(c), NEW y, y = call'[c], SlotGood(y)'
  PROVE  SlotsGood'
  <1> SUFFICES ASSUME NEW d \in Calls, NEW x, x = call'[d] PROVE SlotGood(x)' BY DEF SlotsGood
  <1>1. CASE d = c BY <1>1
  <1>2. CASE d # c
    <2>1. x = call[d] /\ ~Working(d) BY <1>2 DEF Apart, Moves
    <2>2. SlotReal(x) /\ SlotGood(x) BY <2>1, Called DEF SlotsGood
    <2> QED BY <2>1, <2>2, NoticeStays DEF Working
  <1> QED BY <1>1, <1>2

(* Steps that move neither the fence nor the trail. *)
LEMMA FenceFits ==
  ASSUME InOrder, Tracked, UNCHANGED <<fence, trail, scope>> PROVE InOrder' /\ Tracked'
  BY DEF InOrder, Tracked, Streaks, Unfinished, Route

(* A step that only moves the slot of c. *)
LEMMA QuietFits ==
  ASSUME Inv, Inv', SerialFits, NEW c \in Calls, UNCHANGED <<status, odometer, fence, pod, trail, scope>>,
         Apart(c) \/ (Moves(c) /\ ~Working(c)'), NoNews(c), NEW y, y = call'[c], SlotGood(y)'
  PROVE  SerialFits'
  <1>1. Moves(c) BY DEF Apart
  <1>2. OneAtATime' BY OneAtATimeKept DEF SerialFits
  <1>3. OneNotice'
    <2>1. \A d \in Calls, s \in Route : Notice(d, s)' => Notice(d, s)
      BY <1>1 DEF NoNews, Moves, Notice
    <2> QED BY <2>1 DEF SerialFits, OneNotice, Route
  <1>4. SlotsGood' BY <1>1, QuietGood DEF SerialFits
  <1>5. OdometerRead' BY DEF SerialFits, OdometerRead, Dropoffs, Route, Finalized
  <1> QED BY <1>2, <1>3, <1>4, <1>5, FenceFits DEF SerialFits

(* A slot that promises nothing the fence or a proof could break. *)
Plain == Labels \ {"sample", "notify", "sign", "settle", "count", "final", "complete"}
LEMMA PlainGood == ASSUME NEW x, x.at \in Plain PROVE SlotGood(x)'
  BY DEF SlotGood, Plain
LEMMA Idles ==
  ASSUME Inv, NEW c \in Calls, Ends(c)
  PROVE  Moves(c) /\ NoNews(c) /\ ~Working(c)' /\ \E y : y = call'[c] /\ SlotGood(y)'
  <1>1. call'[c] = Idle /\ Moves(c) BY DEF Ends, Moves, Inv, TypeOK, SlotsTyped
  <1>2. \E y : y = call'[c] /\ y.at = "idle" BY <1>1, IdleReal
  <1> QED BY <1>1, <1>2, IdleReal, PlainGood DEF Plain, Labels, NoNews, Notice, Working
LEMMA Readies ==
  ASSUME Inv, NEW c \in Calls, Completes(c)
  PROVE  Moves(c) /\ NoNews(c) /\ \E y : y = call'[c] /\ SlotGood(y)'
  <1> DEFINE x == [Idle EXCEPT !.at = "ready"]
  <1>1. call'[c] = x /\ Moves(c) BY DEF Completes, Moves, Inv, TypeOK, SlotsTyped
  <1>2. x.at = "ready" BY ReadyReal
  <1> HIDE DEF x
  <1>3. \E y : y = call'[c] /\ y.at = "ready" BY <1>1, <1>2
  <1> QED BY <1>1, <1>2, <1>3, PlainGood DEF Plain, Labels, NoNews, Notice
LEMMA Goes2 ==
  ASSUME Inv, NEW c \in Calls, NEW l \in Labels, Goes(c, l)
  PROVE  Moves(c) /\ \E y : /\ y = call'[c] /\ y.at = l /\ y.stop = call[c].stop
                            /\ y.goal = call[c].goal /\ y.last = call[c].last
  <1>1. call'[c] = Onward(call[c], l) /\ Moves(c)
    BY Goings DEF Moves, Inv, TypeOK, SlotsTyped
  <1> QED BY <1>1, Called, Going
LEMMA Works == ASSUME OneAtATime, NEW c \in Calls, Working(c), Moves(c) PROVE Apart(c)
  BY DEF OneAtATime, Apart

LEMMA SampleFits ==
  ASSUME Inv, SerialFits, scope.width = 1, NEW c \in Calls, SampleRead(c) PROVE SerialFits'
  <1>1. UNCHANGED <<status, odometer, fence, pod, trail, scope>>
    BY DEF SampleRead, trip, truck, bounds
  <1>2. Inv' BY SampleArrives
  <1>3. OneAtATime BY DEF SerialFits
  <1>4. ASSUME NothingLeft(c) PROVE SerialFits'
    <2> DEFINE x == [Idle EXCEPT !.at = "ready"]
    <2>1. Apart(c) /\ call'[c] = x BY <1>3, <1>4, Began DEF NothingLeft
    <2>2. x.at = "ready" BY ReadyReal
    <2> HIDE DEF x
    <2>3. PICK y : y = call'[c] /\ y.at = "ready" BY <2>1, <2>2
    <2>4. SlotGood(y)' BY <2>3, PlainGood DEF Plain, Labels
    <2>5. NoNews(c) BY <2>1, <2>2 DEF NoNews, Notice
    <2> QED BY <1>1, <1>2, <2>1, <2>3, <2>4, <2>5, QuietFits
  <1>5. ASSUME NEW s \in Route, Active(s), NEW h \in BOOLEAN, NEW r \in BOOLEAN,
               Begins(c, [Idle EXCEPT !.at = "sample", !.stop = s, !.here = h,
                                      !.was = fence[s], !.rest = r])
        PROVE  SerialFits'
    <2> DEFINE x == [Idle EXCEPT !.at = "sample", !.stop = s, !.here = h,
                                 !.was = fence[s], !.rest = r]
    <2>1. Apart(c) /\ call'[c] = x BY <1>3, <1>5, Began
    <2>2. x.at = "sample" /\ x.stop = s /\ x.was = fence[s] BY IdleReal DEF Slot
    <2> HIDE DEF x
    <2>3. PICK y : y = call'[c] /\ y.at = "sample" /\ y.stop = s /\ y.was = fence[s]
      BY <2>1, <2>2
    <2>4. Active(s)' BY <1>1, <1>5 DEF Active, Route, Unfinished
    <2>5. SlotGood(y)' BY <1>1, <2>3, <2>4 DEF SlotGood
    <2>6. NoNews(c) BY <2>1, <2>2 DEF NoNews, Notice
    <2> QED BY <1>1, <1>2, <2>1, <2>3, <2>5, <2>6, QuietFits
  <1> QED BY <1>4, <1>5 DEF SampleRead

LEMMA ProofFits ==
  ASSUME Inv, SerialFits, scope.width = 1,
         NEW c \in Calls, NEW s \in Stops, NEW goal \in Goals, ProofRead(c, s, goal)
  PROVE  SerialFits'
  <1>1. UNCHANGED <<status, odometer, fence, pod, trail, scope>>
    BY DEF ProofRead, trip, truck
  <1>2. Inv' BY ProofArrives
  <1>3. OneAtATime BY DEF SerialFits
  <1> DEFINE read == [Idle EXCEPT !.at = "settle", !.stop = s, !.goal = goal]
             proven == pod[s].signed /\ pod[s].photo
             last == LastDropoff(s)
             final == [read EXCEPT !.proven = proven, !.last = last]
             ready == [Idle EXCEPT !.at = "ready"]
  <1>4. ASSUME NEW x, Begins(c, x), SlotGood(x)', x.at \in {"ready", "settle"} PROVE SerialFits'
    <2>1. Apart(c) /\ call'[c] = x BY <1>3, <1>4, Began
    <2>2. NoNews(c) BY <1>4, <2>1 DEF NoNews, Notice
    <2> QED BY <1>1, <1>2, <1>4, <2>1, <2>2, QuietFits
  <1>5. ASSUME Begins(c, ready) PROVE SerialFits'
    <2>1. ready.at = "ready" BY ReadyReal
    <2> HIDE DEF ready
    <2>2. PICK x : x = ready BY <1>5
    <2>3. SlotGood(x)' BY <2>1, <2>2, PlainGood DEF Plain, Labels
    <2> QED BY <1>4, <1>5, <2>1, <2>2, <2>3
  <1>6. ASSUME Begins(c, read), goal # "final" PROVE SerialFits'
    <2>1. read.at = "settle" /\ read.goal = goal BY IdleReal DEF Slot
    <2> HIDE DEF read
    <2>2. PICK x : x = read BY <1>6
    <2>3. SlotGood(x)' BY <1>6, <2>1, <2>2 DEF SlotGood
    <2> QED BY <1>4, <1>6, <2>1, <2>2, <2>3
  <1>7. ASSUME Begins(c, final) PROVE SerialFits'
    <2>1. final.at = "settle" /\ final.stop = s /\ final.last = last
      BY IdleReal DEF Slot
    <2>2. ~last => Open(s) BY DEF LastDropoff, Open, Finalized
    <2>3. Open(s)' = Open(s) BY <1>1 DEF Open, Dropoffs, Route, Finalized
    <2> HIDE DEF final, last
    <2>4. PICK x : x = final BY <1>7
    <2>5. SlotGood(x)' BY <2>1, <2>2, <2>3, <2>4 DEF SlotGood
    <2> QED BY <1>4, <1>7, <2>1, <2>4, <2>5
  <1> QED BY <1>5, <1>6, <1>7 DEF ProofRead

LEMMA AskingFits ==
  ASSUME Inv, Inv', SerialFits, NEW c \in Calls, Settle(c) \/ CountDue(c) PROVE SerialFits'
  <1>1. UNCHANGED <<status, odometer, fence, pod, trail, scope>>
    BY DEF Settle, CountDue, trip, truck, bounds
  <1>2. /\ Working(c) /\ OneAtATime /\ call[c] \in Slot
        /\ SlotGood(call[c]) /\ SlotReal(call[c])
    BY Called DEF Settle, CountDue, Working, InBackground, SerialFits, SlotsGood
  <1>4. CASE Ends(c) BY <1>1, <1>4, Idles, QuietFits
  <1>5. CASE Settle(c)
    <2>1. "count" \in Labels /\ Goes(c, "count") /\ call[c].at = "settle"
      BY <1>5 DEF Labels, Settle
    <2>2. PICK y : /\ y = call'[c] /\ y.at = "count" /\ y.stop = call[c].stop
                   /\ y.goal = call[c].goal /\ y.last = call[c].last
      BY <2>1, Goes2
    <2>3. SlotGood(y)
      BY <1>2, <2>1, <2>2 DEF SlotGood
    <2>4. SlotGood(y)' BY <1>1, <2>3, GoodStays
    <2>5. NoNews(c) BY <2>2 DEF NoNews, Notice
    <2>6. Apart(c) BY <1>2, <2>1, Goes2, Works
    <2> QED BY <1>1, <2>2, <2>4, <2>5, <2>6, QuietFits
  <1>6. ASSUME NEW l, l = NextWrite(call[c]), l # "idle", Goes(c, l), CountDue(c)
        PROVE  SerialFits'
    <2>1. /\ l \in {"sign", "photo", "odometer", "final"}
          /\ l = "sign" => ~Finalized(call[c].stop)
          /\ l = "final" => call[c].goal = "final" /\ ~call[c].last
      BY <1>2, <1>6 DEF NextWrite, CountDue, SlotReal, Slot, Finalized
    <2>2. PICK y : /\ y = call'[c] /\ y.at = l /\ y.stop = call[c].stop
                   /\ y.goal = call[c].goal /\ y.last = call[c].last
      BY <1>6, <2>1, Goes2 DEF Labels
    <2>3. SlotGood(y)
      BY <1>2, <1>6, <2>1, <2>2 DEF SlotGood, CountDue
    <2>4. SlotGood(y)' BY <1>1, <2>3, GoodStays
    <2>5. NoNews(c) BY <2>1, <2>2 DEF NoNews, Notice
    <2>6. Apart(c) BY <1>2, <1>6, <2>1, Goes2, Works DEF Labels
    <2> QED BY <1>1, <2>2, <2>4, <2>5, <2>6, QuietFits
  <1> QED BY <1>4, <1>5, <1>6 DEF CountDue

(* The late notice: it finalizes no stop, and no other notice of its stop  *)
(* is on its way.                                                          *)
LEMMA TellingFits ==
  ASSUME Inv, Inv', SerialFits, NEW c \in Calls, TellRead(c) \/ TellWrite(c) PROVE SerialFits'
  <1>1. PICK s : s = call[c].stop BY Called
  <1>2. /\ s \in Route /\ s \in Stops /\ call[c] \in Slot /\ SlotGood(call[c])
        /\ pod \in [Stops -> Pod] /\ call[c].at \in InBackground
    BY <1>1, Called, Routed DEF TellRead, TellWrite, SlotReal, Labels, Inv, SerialFits, SlotsGood,
       TypeOK, RowsTyped, InBackground
  <1>3. UNCHANGED <<status, odometer, fence, trail, scope>>
    BY DEF TellRead, TellWrite, trip, truck, bounds
  <1>4. CASE TellRead(c)
    <2>1. UNCHANGED pod BY <1>4 DEF TellRead
    <2>2. CASE Ends(c) BY <1>3, <2>1, <2>2, Idles, QuietFits
    <2>3. CASE call' = [call EXCEPT ![c].at = "notify", ![c].pod = pod[s].status]
      <3>1. /\ Moves(c) /\ call'[c].at = "notify" /\ call'[c].stop = s
            /\ call'[c].pod = pod[s].status
        BY <1>1, <1>2, <2>3 DEF Moves, Inv, TypeOK, SlotsTyped, Slot
      <3>2. PICK y : y = call'[c] /\ y.at = "notify" /\ y.stop = s /\ y.pod = pod[s].status
        BY <3>1
      <3>3. SlotGood(y)' BY <2>1, <3>2 DEF SlotGood, Finalized
      <3>4. NoNews(c) BY <1>1, <1>2, <3>1 DEF NoNews, Notice, InBackground
      <3>5. ~Working(c)' BY <3>1 DEF Working, InBackground
      <3> QED BY <1>3, <2>1, <3>1, <3>2, <3>3, <3>4, <3>5, QuietFits
    <2> QED BY <1>1, <1>4, <2>2, <2>3 DEF TellRead
  <1>5. CASE TellWrite(c)
    <2>1. Ends(c) /\ Moves(c) /\ NoNews(c) /\ ~Working(c)' BY <1>5, Idles DEF TellWrite
    <2>2. \A t \in Stops : t # s => pod'[t] = pod[t] BY <1>1, <1>2, <1>5 DEF TellWrite
    <2>3. Finalized(s)' => Finalized(s)
      <3>1. pod'[s].status = Noticed(call[c].pod) BY <1>1, <1>2, <1>5 DEF TellWrite, Pod
      <3> QED BY <1>1, <1>2, <1>5, <3>1 DEF Noticed, TellWrite, SlotGood, Finalized
    <2>4. \A t \in Stops : Finalized(t)' => Finalized(t) BY <2>2, <2>3 DEF Finalized
    <2>5. Route' = Route /\ Dropoffs' = Dropoffs /\ Dropoffs \subseteq Route /\ Route \subseteq Stops
      BY <1>3, Routed, RouteStays DEF Inv
    <2>6. OneAtATime' BY <2>1, OneAtATimeKept DEF SerialFits
    <2>7. OneNotice'
      <3>1. \A d \in Calls, t \in Route : Notice(d, t)' => Notice(d, t)
        BY <2>1 DEF NoNews, Moves, Notice
      <3> QED BY <1>3, <2>5, <3>1 DEF SerialFits, OneNotice
    <2>8. SlotsGood'
      <3> SUFFICES ASSUME NEW d \in Calls, NEW x, x = call'[d] PROVE SlotGood(x)' BY DEF SlotsGood
      <3>1. CASE d = c BY <2>1, <3>1, Idles
      <3>2. CASE d # c
        <4>1. x = call[d] /\ SlotGood(x) /\ SlotReal(x) /\ x \in Slot
          BY <2>1, <3>2, Called DEF Moves, SerialFits, SlotsGood
        <4>2. x.at = "sample" => Active(x.stop)'
          BY <1>3, <4>1 DEF SlotGood, Active, Route, Unfinished
        <4>3. x.at = "notify" => x.stop # s
          BY <1>1, <1>2, <3>2, <4>1 DEF SerialFits, OneNotice, Notice, InBackground
        <4>4. x.at = "notify" /\ x.pod = "FINALIZED" => Finalized(x.stop)'
          <5>1. x.at = "notify" => x.stop \in Stops BY <2>5, <4>1 DEF SlotReal, Labels
          <5> QED BY <2>2, <4>1, <4>3, <5>1 DEF SlotGood, Finalized
        <4>5. x.at = "sign" => ~Finalized(x.stop)'
          <5>1. x.at = "sign" => x.stop \in Stops BY <2>5, <4>1 DEF SlotReal, Labels
          <5> QED BY <2>4, <4>1, <5>1 DEF SlotGood
        <4>6. Open(x.stop) => Open(x.stop)' BY <2>4, <2>5 DEF Open
        <4> QED BY <1>3, <4>1, <4>2, <4>4, <4>5, <4>6 DEF SlotGood
      <3> QED BY <3>1, <3>2
    <2>9. OdometerRead' BY <1>3, <2>4, <2>5 DEF SerialFits, OdometerRead
    <2> QED BY <1>3, <2>6, <2>7, <2>8, <2>9, FenceFits DEF SerialFits
  <1> QED BY <1>4, <1>5

(* A proof that is written while no other request works. *)
LEMMA ProvingFits ==
  ASSUME Inv, Inv', SerialFits, NEW c \in Calls, SignWrite(c) \/ PhotoWrite(c) \/ FinalWrite(c)
  PROVE  SerialFits'
  <1>1. PICK s : s = call[c].stop BY Called
  <1>2. /\ s \in Route /\ s \in Stops /\ SlotGood(call[c]) /\ pod \in [Stops -> Pod]
        /\ Working(c) /\ OneAtATime
    BY <1>1, Called, Routed DEF SignWrite, PhotoWrite, FinalWrite, SlotReal, Labels, Inv, SerialFits,
       SlotsGood, TypeOK, RowsTyped, Working, InBackground
  <1>3. UNCHANGED <<status, odometer, fence, trail, scope>>
    BY DEF SignWrite, PhotoWrite, FinalWrite, trip, truck, bounds
  <1>4. Moves(c) /\ NoNews(c) /\ \E y : y = call'[c] /\ SlotGood(y)'
    BY Idles, Readies DEF SignWrite, PhotoWrite, FinalWrite
  <1>5. Apart(c) BY <1>2, <1>4, Works
  <1>6. Route' = Route /\ Dropoffs' = Dropoffs /\ Dropoffs \subseteq Route /\ Route \subseteq Stops
    BY <1>3, Routed, RouteStays DEF Inv
  <1>7. \A t \in Stops : t # s => pod'[t] = pod[t]
    BY <1>1, <1>2 DEF SignWrite, PhotoWrite, FinalWrite
  <1>8. \A t \in Stops : Finalized(t) => Finalized(t)'
    <2>1. Finalized(s) => Finalized(s)'
      BY <1>1, <1>2 DEF SignWrite, PhotoWrite, FinalWrite, Finalized, SlotGood, Pod
    <2> QED BY <1>7, <2>1 DEF Finalized
  <1>9. OneAtATime' BY <1>5, OneAtATimeKept DEF SerialFits
  <1>10. OneNotice'
    <2>1. \A d \in Calls, t \in Route : Notice(d, t)' => Notice(d, t)
      BY <1>4 DEF NoNews, Moves, Notice
    <2> QED BY <1>3, <1>6, <2>1 DEF SerialFits, OneNotice
  <1>11. SlotsGood' BY <1>4, <1>5, <1>6, <1>8, ApartGood DEF SerialFits
  <1>12. OdometerRead'
    <2>1. CASE FinalWrite(c)
      <3>1. odometer \/ Open(s) BY <1>1, <1>2, <2>1 DEF FinalWrite, SlotGood
      <3>2. Open(s) => \E t \in Dropoffs : ~Finalized(t)'
        BY <1>6, <1>7 DEF Open, Finalized
      <3> QED BY <1>3, <1>6, <3>1, <3>2 DEF SerialFits, OdometerRead
    <2>2. CASE SignWrite(c) \/ PhotoWrite(c)
      <3>1. Finalized(s)' => Finalized(s)
        BY <1>1, <1>2, <2>2 DEF SignWrite, PhotoWrite, Finalized, Pod
      <3>2. \A t \in Stops : Finalized(t)' => Finalized(t) BY <1>7, <3>1 DEF Finalized
      <3> QED BY <1>3, <1>6, <3>2 DEF SerialFits, OdometerRead
    <2> QED BY <2>1, <2>2
  <1> QED BY <1>3, <1>9, <1>10, <1>11, <1>12, FenceFits DEF SerialFits

(* The odometer is read before the last proof is final, and the trip ends  *)
(* after it.                                                               *)
LEMMA EndingFits ==
  ASSUME Inv, Inv', SerialFits, NEW c \in Calls,
         \/ Arrive(c) \/ ReadOdometer(c)
         \/ CompleteRead(c) \/ CompleteWrite(c) \/ Reward(c)
  PROVE  SerialFits'
  <1>1. UNCHANGED <<fence, pod, trail, scope>>
    BY DEF Arrive, ReadOdometer, CompleteRead, CompleteWrite, Reward, trip, truck, bounds
  <1>2. /\ call[c] \in Slot /\ SlotGood(call[c]) /\ SlotReal(call[c]) /\ Working(c) /\ OneAtATime
        /\ OdometerRead /\ odometer \in BOOLEAN
    BY Called DEF Arrive, ReadOdometer, CompleteRead, CompleteWrite, Reward, SerialFits,
       SlotsGood, Working, InBackground, Inv, TypeOK, RowsTyped
  <1>3. odometer => odometer'
    BY DEF Arrive, ReadOdometer, CompleteRead, CompleteWrite, Reward, trip
  <1>4. Moves(c) /\ NoNews(c) /\ \E y : y = call'[c] /\ SlotGood(y)'
    <2>1. CASE Ends(c) BY <2>1, Idles
    <2>2. CASE Arrive(c)
      <3> DEFINE s == call[c].stop
                 x == [Idle EXCEPT !.at = "told", !.stop = s]
      <3>1. call'[c] = x /\ Moves(c)
        BY <2>2 DEF Arrive, Moves, Inv, TypeOK, SlotsTyped
      <3>2. x.at = "told" /\ x.stop = s BY IdleReal DEF Slot
      <3> HIDE DEF x
      <3>3. NoNews(c) BY <2>2, <3>1, <3>2 DEF NoNews, Notice, Arrive
      <3>4. PICK y : y = call'[c] /\ y.at = "told" BY <3>1, <3>2
      <3> QED BY <3>1, <3>3, <3>4, PlainGood DEF Plain, Labels
    <2>3. ASSUME NEW l \in {"final", "complete", "reward"}, Goes(c, l),
                 l \in {"final", "complete"} => odometer'
          PROVE  Moves(c) /\ NoNews(c) /\ \E y : y = call'[c] /\ SlotGood(y)'
      <3>1. PICK y : y = call'[c] /\ y.at = l BY <2>3, Goes2 DEF Labels
      <3>2. SlotGood(y)' BY <2>3, <3>1 DEF SlotGood
      <3> QED BY <2>3, <3>1, <3>2, Goes2 DEF Labels, NoNews, Notice
    <2>4. CASE ReadOdometer(c) BY <2>3, <2>4 DEF ReadOdometer
    <2>5. CASE CompleteRead(c)
      <3>1. Ready => odometer BY <1>2 DEF Ready, OdometerRead, Finalized
      <3> QED BY <1>3, <2>1, <2>3, <2>5, <3>1 DEF CompleteRead
    <2>6. CASE CompleteWrite(c) BY <2>3, <2>6 DEF CompleteWrite
    <2> QED BY <2>1, <2>2, <2>4, <2>5, <2>6 DEF Reward
  <1>5. Apart(c) /\ OneAtATime' BY <1>2, <1>4, Works, OneAtATimeKept
  <1>6. OneNotice'
    <2>1. \A d \in Calls, t \in Route : Notice(d, t)' => Notice(d, t)
      BY <1>4 DEF NoNews, Moves, Notice
    <2> QED BY <1>1, <2>1 DEF SerialFits, OneNotice, Route
  <1>7. SlotsGood' BY <1>1, <1>3, <1>4, QuietGood DEF SerialFits
  <1>8. OdometerRead'
    <2>1. \A t \in Stops : Finalized(t)' = Finalized(t) BY <1>1 DEF Finalized
    <2>2. Dropoffs' = Dropoffs BY <1>1, RouteStays
    <2>3. status' = "COMPLETED" => odometer'
      BY <1>2, <1>3 DEF Arrive, ReadOdometer, CompleteRead, CompleteWrite, Reward, trip,
                        OdometerRead, SlotGood
    <2> QED BY <1>1, <1>2, <1>3, <2>2, <2>3 DEF OdometerRead, Finalized
  <1> QED BY <1>1, <1>5, <1>6, <1>7, <1>8, FenceFits DEF SerialFits

-----------------------------------------------------------------------------
(* A sample, one request at a time: it read the fence as it still is.      *)
Writes(s, f, side) ==
    /\ fence' = [fence EXCEPT ![s] = f]
    /\ f.count = Streak(fence[s], side) /\ f.inside = side
    /\ fence[s].entered => f.entered
    /\ ~fence[s].entered /\ f.entered => side /\ f.count >= Bounce
    /\ ~fence[s].exited /\ f.exited => ~side /\ f.count >= Bounce
    /\ \E p \in {0} \cup Stops : Sampled(p) /\ (side <=> p = s)

LEMMA SampleKnows ==
  ASSUME Inv, SerialFits, NEW c \in Calls, SampleInside(c) \/ SampleOutside(c)
  PROVE  /\ call[c].stop \in Route /\ call[c].stop \in Stops /\ call[c].stop # 0
         /\ call[c].was = fence[call[c].stop] /\ Active(call[c].stop)
         /\ fence \in [Stops -> Fence] /\ fence[call[c].stop] \in Fence
         /\ call[c].at = "sample" /\ Working(c) /\ OneAtATime
  <1>1. /\ call[c].at = "sample" /\ SlotReal(call[c]) /\ SlotGood(call[c])
        /\ fence \in [Stops -> Fence] /\ OneAtATime
    BY Called DEF SampleInside, SampleOutside, SerialFits, SlotsGood, Inv, TypeOK, RowsTyped
  <1>2. call[c].stop \in Route BY <1>1 DEF SlotReal, Labels
  <1>3. call[c].stop \in Stops /\ call[c].stop # 0 BY <1>2, Routed DEF Inv
  <1> QED BY <1>1, <1>2, <1>3 DEF SlotGood, Working, InBackground

LEMMA SampleWrites ==
  ASSUME Inv, SerialFits, NEW c \in Calls, SampleInside(c) \/ SampleOutside(c)
  PROVE  \E f \in Fence, side \in BOOLEAN :
            Writes(call[c].stop, f, side) /\ (side <=> SampleInside(c))
  <1>1. PICK s : s = call[c].stop BY Called
  <1>2. /\ s \in Route /\ s \in Stops /\ s # 0 /\ call[c].was = fence[s]
        /\ fence \in [Stops -> Fence] /\ fence[s] \in Fence
    BY <1>1, SampleKnows
  <1>3. CASE SampleInside(c)
    <2> DEFINE n == Streak(fence[s], TRUE)
               e == fence[s].entered \/ Enters(fence[s])
               x == fence[s].exited /\ ~Enters(fence[s]) /\ ~fence[s].entered
               f == [fence[s] EXCEPT !.count = n, !.inside = TRUE, !.entered = e, !.exited = x]
    <2>1. fence' = [fence EXCEPT ![s] = f] /\ Sampled(s)
      BY <1>1, <1>2, <1>3 DEF SampleInside
    <2>2. n \in 0..Bounce BY <1>2, DeliveryConstants DEF Streak, Fence
    <2>3. e \in BOOLEAN /\ x \in BOOLEAN BY <1>2 DEF Fence, Enters
    <2>4. e => fence[s].entered \/ n >= Bounce BY DEF Enters
    <2>5. (x => fence[s].exited) /\ (fence[s].entered => e) OBVIOUS
    <2> HIDE DEF n, e, x
    <2>6. f \in Fence /\ f.count = n /\ f.inside /\ f.entered = e /\ f.exited = x
      BY <1>2, <2>2, <2>3 DEF Fence
    <2> HIDE DEF f
    <2>7. Writes(s, f, TRUE) BY <1>2, <2>1, <2>4, <2>5, <2>6 DEF Writes, n, Fence
    <2> QED BY <1>1, <1>3, <2>6, <2>7
  <1>4. CASE SampleOutside(c) /\ ~SampleInside(c)
    <2> DEFINE n == Streak(fence[s], FALSE)
               x == Exits(fence[s]) \/ fence[s].exited
               f == [fence[s] EXCEPT !.count = n, !.inside = FALSE, !.exited = x]
    <2>1. fence' = [fence EXCEPT ![s] = f] /\ Sampled(0)
      BY <1>1, <1>2, <1>4 DEF SampleOutside
    <2>2. n \in 0..Bounce BY <1>2, DeliveryConstants DEF Streak, Fence
    <2>3. x \in BOOLEAN BY <1>2 DEF Fence, Exits
    <2>4. x => fence[s].exited \/ n >= Bounce BY DEF Exits
    <2> HIDE DEF n, x
    <2>5. f \in Fence /\ f.count = n /\ ~f.inside /\ f.entered = fence[s].entered /\ f.exited = x
      BY <1>2, <2>2, <2>3 DEF Fence
    <2> HIDE DEF f
    <2>6. f.inside = FALSE BY <2>5 DEF Fence
    <2>7. Writes(s, f, FALSE) BY <1>2, <2>1, <2>4, <2>5, <2>6 DEF Writes, n
    <2> QED BY <1>1, <1>4, <2>5, <2>7
  <1> QED BY <1>3, <1>4

(* A sample lengthens the streak of the stop the fence looks at, or starts *)
(* it again.                                                               *)
LEMMA StreakGoesOn ==
  ASSUME Inv, Len(trail) <= Bounce, NEW s \in Stops, Streaks(s), NEW p \in {0} \cup Stops,
         NEW side \in BOOLEAN, side <=> p = s, Sampled(p), NEW m, m = Streak(fence[s], side)
  PROVE  /\ Len(trail') <= Bounce /\ m <= Len(trail')
         /\ \A i \in 1..Len(trail') : i > Len(trail') - m => ((trail'[i] = s) <=> side)
  <1> DEFINE P == {0} \cup Stops
             t == Append(trail, p)
             L == Len(trail)
             k == fence[s].count
             in == fence[s].inside
  <1>1. k \in 0..Bounce /\ in \in BOOLEAN /\ Bounce \in Nat /\ Bounce >= 1 /\ k <= L
    BY DeliveryConstants DEF Inv, TypeOK, RowsTyped, Fence, Streaks
  <1>2. trail \in Seq(P) /\ L \in Nat /\ L <= Bounce BY DEF Inv, TypeOK
  <1>3. /\ t \in Seq(P) /\ Len(t) = L + 1 /\ t[L + 1] = p
        /\ \A i \in 1..L : t[i] = trail[i]
    BY <1>2
  <1>4. \A i \in 1..L : i > L - k => ((t[i] = s) <=> in) BY <1>3 DEF Streaks
  <1>5. m = IF in = side THEN (IF k < Bounce THEN k + 1 ELSE Bounce) ELSE 1 BY DEF Streak
  <1>6. trail' = IF L + 1 > Bounce THEN Tail(t) ELSE t BY <1>3 DEF Sampled
  <1>7. m \in 1..Bounce /\ m <= L + 1 /\ (m # 1 => in = side /\ m <= k + 1)
    <2> HIDE DEF k, in, L
    <2> QED BY <1>1, <1>2, <1>5
  <1>8. \A j \in 1..L + 1 : j > L + 1 - m => ((t[j] = s) <=> side)
    <2> SUFFICES ASSUME NEW j \in 1..L + 1, j > L + 1 - m PROVE (t[j] = s) <=> side OBVIOUS
    <2>1. CASE j = L + 1 BY <1>3, <2>1
    <2>2. CASE j # L + 1
      <3>1. j \in 1..L /\ m # 1 /\ j > L - k
        <4> HIDE DEF k, in, L, t
        <4> QED BY <1>1, <1>2, <1>7, <2>2
      <3> HIDE DEF k, in, L, t
      <3> QED BY <1>4, <1>7, <3>1
    <2> QED BY <2>1, <2>2
  <1>9. CASE L + 1 > Bounce
    <2>1. t # <<>> /\ L = Bounce BY <1>1, <1>2, <1>3, <1>9
    <2>2. trail' = Tail(t) BY <1>6, <1>9
    <2>3. Len(Tail(t)) = L /\ \A i \in 1..L : Tail(t)[i] = t[i + 1] BY <1>2, <1>3, <2>1
    <2> HIDE DEF t, k, in
    <2>4. \A i \in 1..L : i > L - m => i + 1 \in 1..L + 1 /\ i + 1 > L + 1 - m
      <3> HIDE DEF L
      <3> QED BY <1>2, <1>7
    <2> HIDE DEF L
    <2> QED BY <1>7, <1>8, <2>1, <2>2, <2>3, <2>4
  <1>10. CASE ~(L + 1 > Bounce)
    <2>1. trail' = t /\ Len(t) = L + 1 BY <1>3, <1>6, <1>10
    <2> HIDE DEF t, k, in, L
    <2> QED BY <1>1, <1>2, <1>7, <1>8, <1>10, <2>1
  <1> QED BY <1>9, <1>10

LEMMA SampleTracks ==
  ASSUME Inv, InOrder, Tracked, scope' = scope, NEW s \in Route, Active(s),
         NEW f \in Fence, NEW side \in BOOLEAN, Writes(s, f, side)
  PROVE  InOrder' /\ Tracked' /\ Streaks(s)'
  <1>1. /\ Route' = Route /\ Route \subseteq Stops /\ Stops \subseteq Nat
        /\ fence \in [Stops -> Fence] /\ Bounce \in Nat
    BY Routed, RouteStays, DeliveryConstants DEF Inv, TypeOK, RowsTyped
  <1>2. s \in Stops /\ s \in Nat /\ Unfinished(s) BY <1>1 DEF Active
  <1>3. fence'[s] = f /\ \A a \in Stops : a # s => fence'[a] = fence[a]
    BY <1>1, <1>2 DEF Writes
  <1>4. \A a \in Route : a # s => (Unfinished(a)' <=> Unfinished(a))
    BY <1>1, <1>3 DEF Unfinished
  <1>5. /\ Len(trail') <= Bounce /\ f.count <= Len(trail')
        /\ \A i \in 1..Len(trail') : i > Len(trail') - f.count => ((trail'[i] = s) <=> side)
    <2>1. PICK p \in {0} \cup Stops : Sampled(p) /\ (side <=> p = s) BY DEF Writes
    <2>2. f.count = Streak(fence[s], side) BY DEF Writes
    <2>3. Len(trail) <= Bounce /\ Streaks(s) BY <1>2 DEF Tracked
    <2> QED BY <1>2, <2>1, <2>2, <2>3, StreakGoesOn
  <1>6. Streaks(s)'
    <2>1. f.inside = side BY DEF Writes
    <2> QED BY <1>3, <1>5, <2>1 DEF Streaks
  <1>7. InOrder'
    <2> SUFFICES ASSUME NEW a \in Route, NEW t \in Route, t < a, fence'[a].count > 0
                 PROVE  ~Unfinished(t)'
      BY <1>1 DEF InOrder
    <2>1. CASE a = s
      <3>1. t # s /\ ~Unfinished(t) BY <1>2, <2>1 DEF Active
      <3> QED BY <1>4, <3>1
    <2>2. CASE a # s
      <3>1. ~Unfinished(t) BY <1>1, <1>3, <2>2 DEF InOrder
      <3> QED BY <1>2, <1>4, <3>1
    <2> QED BY <2>1, <2>2
  <1>8. Tracked'
    <2> SUFFICES ASSUME NEW a \in Route, Unfinished(a)' PROVE Streaks(a)'
      BY <1>1, <1>5 DEF Tracked
    <2>1. CASE a = s BY <1>6, <2>1
    <2>2. CASE a # s
      <3>1. s < a BY <1>1, <1>2, <1>4, <2>2 DEF Active
      <3>2. ~(fence[a].count > 0) BY <1>2, <3>1 DEF InOrder
      <3>3. fence'[a].count = 0
        <4>1. fence[a] \in Fence /\ fence'[a] = fence[a] BY <1>1, <1>3, <2>2
        <4> QED BY <1>1, <3>2, <4>1 DEF Fence
      <3>4. Len(trail') \in Nat
        <4>1. trail' \in Seq({0} \cup Stops) BY TrailTyped DEF Writes
        <4> QED BY <4>1
      <3> QED BY <3>3, <3>4 DEF Streaks
    <2> QED BY <2>1, <2>2
  <1> QED BY <1>6, <1>7, <1>8

LEMMA SamplingFits ==
  ASSUME Inv, SerialFits, NEW c \in Calls, SampleInside(c) \/ SampleOutside(c)
  PROVE  SerialFits'
  <1>1. PICK s : s = call[c].stop BY Called
  <1>2. /\ s \in Route /\ s \in Stops /\ Active(s) /\ call[c].was = fence[s]
        /\ fence \in [Stops -> Fence] /\ fence[s] \in Fence
        /\ call[c].at = "sample" /\ Working(c) /\ OneAtATime
    BY <1>1, SampleKnows
  <1>3. PICK f \in Fence, side \in BOOLEAN : Writes(s, f, side) BY <1>1, SampleWrites
  <1>4. UNCHANGED <<status, odometer, pod, scope>>
    BY DEF SampleInside, SampleOutside, trip, bounds
  <1>5. Route' = Route /\ Dropoffs' = Dropoffs /\ Dropoffs \subseteq Route /\ Route \subseteq Stops
    BY <1>4, Routed, RouteStays DEF Inv
  <1>6. \A t \in Route : fence[t].entered => fence'[t].entered
    BY <1>2, <1>3, <1>5 DEF Writes
  <1>7. Moves(c) /\ \E y : /\ y = call'[c] /\ SlotGood(y)'
                           /\ \/ NoNews(c)
                              \/ /\ y.at = "arrive" /\ y.stop = s
                                 /\ ~fence[s].entered /\ fence'[s].entered
    <2>1. CASE Ends(c) BY <2>1, Idles
    <2>2. CASE Completes(c) BY <2>2, Readies
    <2>3. CASE SampleInside(c) /\ Enters(fence[s]) /\ Goes(c, "arrive")
      <3>1. PICK y : y = call'[c] /\ y.at = "arrive" /\ y.stop = s
        BY <1>1, <2>3, Goes2 DEF Labels
      <3>2. ~fence[s].entered /\ fence'[s].entered
        BY <1>1, <1>2, <2>3 DEF Enters, SampleInside, Fence
      <3>3. SlotGood(y)' BY <3>1, PlainGood DEF Plain, Labels
      <3> QED BY <2>3, <3>1, <3>2, <3>3, Goes2 DEF Labels
    <2> QED BY <1>1, <1>2, <2>1, <2>2, <2>3 DEF SampleInside, SampleOutside
  <1>8. Apart(c) /\ OneAtATime' BY <1>2, <1>7, Works, OneAtATimeKept
  <1>9. OneNotice'
    <2>1. CASE NoNews(c)
      <3>1. \A d \in Calls, t \in Route : Notice(d, t)' => Notice(d, t)
        BY <1>7, <2>1 DEF NoNews, Moves, Notice
      <3> QED BY <1>5, <1>6, <3>1 DEF SerialFits, OneNotice
    <2>2. CASE call'[c].at = "arrive" /\ call'[c].stop = s /\ ~fence[s].entered /\ fence'[s].entered
      <3>1. \A d \in Calls, t \in Route : d # c => (Notice(d, t)' => Notice(d, t))
        BY <1>7 DEF Moves, Notice
      <3>2. \A d \in Calls : ~Notice(d, s) BY <1>2, <2>2 DEF SerialFits, OneNotice
      <3>3. \A t \in Route : Notice(c, t)' => t = s BY <2>2 DEF Notice
      <3> QED BY <1>5, <1>6, <2>2, <3>1, <3>2, <3>3 DEF SerialFits, OneNotice
    <2> QED BY <1>7, <2>1, <2>2
  <1>10. SlotsGood'
    <2>1. \A t \in Route : Finalized(t) => Finalized(t)' BY <1>4 DEF Finalized
    <2> QED BY <1>7, <1>8, <2>1, ApartGood DEF SerialFits
  <1>11. OdometerRead' BY <1>4, <1>5 DEF SerialFits, OdometerRead, Finalized
  <1>12. InOrder' /\ Tracked' BY <1>2, <1>3, <1>4, SampleTracks DEF SerialFits
  <1> QED BY <1>8, <1>9, <1>10, <1>11, <1>12 DEF SerialFits

(* The rest: nothing moves, or a request dies. *)
LEMMA OutsideFits ==
  ASSUME Inv, SerialFits,
         Drive \/ Detour \/ (\E s \in Stops : PaidOrWaived(s)) \/ UNCHANGED vars
  PROVE  SerialFits'
  <1>1. UNCHANGED <<status, odometer, fence, pod, trail, call, scope>>
    BY DEF Drive, Detour, PaidOrWaived, vars, trip, truck, bounds
  <1>2. OneAtATime' BY <1>1 DEF SerialFits, OneAtATime, Working
  <1>3. OneNotice' BY <1>1 DEF SerialFits, OneNotice, Notice, Route
  <1>4. SlotsGood'
    <2> SUFFICES ASSUME NEW d \in Calls, NEW x, x = call'[d] PROVE SlotGood(x)' BY DEF SlotsGood
    <2>1. SlotGood(x) BY <1>1 DEF SerialFits, SlotsGood
    <2> QED BY <1>1, <2>1, GoodStays
  <1>5. OdometerRead' BY <1>1 DEF SerialFits, OdometerRead, Dropoffs, Route, Finalized
  <1> QED BY <1>1, <1>2, <1>3, <1>4, <1>5, FenceFits DEF SerialFits

LEMMA DyingFits ==
  ASSUME Inv, SerialFits, NEW c \in Calls, Crash(c) PROVE SerialFits'
  <1>1. UNCHANGED <<status, odometer, fence, pod, trail, scope>> BY DEF Crash, trip, truck
  <1>2. Inv' BY Dying
  <1> QED BY <1>1, <1>2, Idles, QuietFits DEF Crash

LEMMA InitSerial == Init => SerialInv
  <1> SUFFICES ASSUME Init PROVE SerialInv OBVIOUS
  <1>1. Inv BY InitInv
  <1>2. \A c \in Calls : call[c].at = "idle" BY IdleReal DEF Init
  <1>3. OneAtATime /\ OneNotice BY <1>2 DEF OneAtATime, Working, OneNotice, Notice
  <1>4. SlotsGood BY <1>2 DEF SlotsGood, SlotGood
  <1>5. Route \subseteq Stops /\ Dropoffs \subseteq Route BY <1>1, Routed DEF Inv
  <1>6. OdometerRead BY <1>5 DEF Init, OdometerRead, Finalized, NoPod
  <1>7. \A s \in Route : fence[s].count = 0 BY <1>5 DEF Init, NoFence
  <1>8. trail = <<>> /\ Bounce \in Nat BY DeliveryConstants DEF Init
  <1>9. InOrder BY <1>7 DEF InOrder
  <1>10. Tracked BY <1>7, <1>8 DEF Tracked, Streaks
  <1> QED BY <1>1, <1>3, <1>4, <1>6, <1>9, <1>10 DEF SerialInv, SerialFits

LEMMA StepSerial == SerialInv /\ [Next]_vars => SerialInv'
  <1> SUFFICES ASSUME SerialInv, [Next]_vars PROVE SerialInv' OBVIOUS
  <1>1. Inv /\ Inv' BY StepInv DEF SerialInv
  <1>2. scope' = scope
    <2>1. ASSUME NEW c \in Calls, Steps(c) PROVE scope' = scope
      BY <2>1 DEF Steps, SampleInside, Arrive, SampleOutside, TellRead, TellWrite, Settle, CountDue,
                  SignWrite, PhotoWrite, ReadOdometer, FinalWrite, CompleteRead, CompleteWrite,
                  Reward, bounds
    <2> QED BY <2>1 DEF Next, Drive, Detour, PaidOrWaived, SampleRead, Crash, ProofRead, bounds, vars
  <1> SUFFICES ASSUME scope.width = 1 PROVE SerialFits' BY <1>1, <1>2 DEF SerialInv
  <1>3. SerialFits BY DEF SerialInv
  <1>4. ASSUME NEW c \in Calls, Steps(c) PROVE SerialFits'
    BY <1>1, <1>3, <1>4, SamplingFits, EndingFits, TellingFits, AskingFits, ProvingFits DEF Steps
  <1> QED BY <1>1, <1>3, <1>4, OutsideFits, SampleFits, ProofFits, DyingFits DEF Next

LEMMA SerialInvHolds == Spec => []SerialInv
  BY InitSerial, StepSerial, PTL DEF Spec

(* However requests overlap and die, a trip is COMPLETED only with every   *)
(* stop entered and every dropoff signed, photographed and final; one      *)
(* request at a time, also with its end odometer (completeTripIfReady).    *)
THEOREM CompletedIsDelivered == Spec => []DeliveredIsProven
  <1>1. SerialInv => DeliveredIsProven
    BY DEF SerialInv, SerialFits, Inv, EndReal, Delivered, Done, Proven, OdometerRead,
           DeliveredIsProven
  <1> QED BY <1>1, SerialInvHolds, PTL

(* One request at a time, the fence counts at a stop only when the ones    *)
(* before it were entered and left (evaluateGeofence).                     *)
THEOREM FenceInOrder == Spec => []StopsInOrder
  <1>1. SerialInv => StopsInOrder
    <2> SUFFICES ASSUME SerialInv, scope.width = 1, NEW s \in Route, NEW t \in Route, t < s,
                        fence[s].count > 0
                 PROVE  fence[t].entered /\ fence[t].exited
      BY DEF StopsInOrder
    <2> QED BY DEF SerialInv, SerialFits, InOrder, Unfinished
  <1> QED BY <1>1, SerialInvHolds, PTL

-----------------------------------------------------------------------------
(* The action property. *)
Bounced(s) ==
    LET all(side) == Len(trail') = Bounce /\ \A i \in 1..Bounce : (trail'[i] = s) <=> side
    IN /\ ~fence[s].entered /\ fence'[s].entered => all(TRUE)
       /\ ~fence[s].exited /\ fence'[s].exited => all(FALSE)

LEMMA SampleBounces ==
  ASSUME Inv, SerialFits, NEW c \in Calls, SampleInside(c) \/ SampleOutside(c), NEW a \in Route
  PROVE  Bounced(a)
  <1>1. PICK s : s = call[c].stop BY Called
  <1>2. s \in Route /\ Active(s) /\ s \in Stops /\ fence \in [Stops -> Fence]
    BY <1>1, SampleKnows
  <1>3. PICK f \in Fence, side \in BOOLEAN : Writes(s, f, side) BY <1>1, SampleWrites
  <1>4. scope' = scope BY DEF SampleInside, SampleOutside, bounds
  <1>5. Streaks(s)' /\ Tracked' BY <1>2, <1>3, <1>4, SampleTracks DEF SerialFits
  <1>6. fence'[s] = f /\ (a # s => fence'[a] = fence[a])
    <2>1. a \in Stops BY Routed DEF Inv
    <2> QED BY <1>2, <1>3, <2>1 DEF Writes
  <1>7. CASE a # s BY <1>6, <1>7 DEF Bounced
  <1>8. CASE a = s
    <2>1. Len(trail') \in Nat /\ Len(trail') <= Bounce /\ Bounce \in Nat /\ f.count \in Nat
      <3>1. trail' \in Seq({0} \cup Stops) BY <1>3, TrailTyped DEF Writes
      <3> QED BY <1>5, <3>1, DeliveryConstants DEF Tracked, Fence
    <2>2. ASSUME f.count >= Bounce
          PROVE  Len(trail') = Bounce /\ \A i \in 1..Bounce : (trail'[i] = s) <=> f.inside
      <3>1. f.count <= Len(trail') BY <1>5, <1>6 DEF Streaks
      <3>2. Len(trail') = Bounce /\ f.count = Bounce BY <2>1, <2>2, <3>1
      <3> QED BY <1>5, <1>6, <2>1, <3>2 DEF Streaks
    <2>3. /\ ~fence[s].entered /\ f.entered => f.inside = TRUE /\ f.count >= Bounce
          /\ ~fence[s].exited /\ f.exited => f.inside = FALSE /\ f.count >= Bounce
      BY <1>3 DEF Writes
    <2> QED BY <1>6, <1>8, <2>2, <2>3 DEF Bounced
  <1> QED BY <1>7, <1>8

(* One request at a time, the fence reports an arrival after Bounce        *)
(* samples in a row at the stop, and a departure after Bounce in a row     *)
(* away from it (evaluateGeofence's anti-bounce).                          *)
THEOREM FenceDebounced == Spec => Debounced
  <1>1. SerialInv /\ [Next]_vars =>
           [scope.width = 1 => \A s \in Route : Bounced(s)]_vars
    <2> SUFFICES ASSUME SerialInv, [Next]_vars, scope.width = 1, NEW s \in Route PROVE Bounced(s)
      OBVIOUS
    <2>1. Inv /\ SerialFits BY DEF SerialInv
    <2>2. ASSUME UNCHANGED fence PROVE Bounced(s) BY <2>2 DEF Bounced
    <2>3. ASSUME NEW c \in Calls, Steps(c) PROVE Bounced(s)
      <3>1. CASE SampleInside(c) \/ SampleOutside(c) BY <2>1, <3>1, SampleBounces
      <3>2. CASE ~(SampleInside(c) \/ SampleOutside(c))
        <4>1. UNCHANGED fence
          BY <2>3, <3>2 DEF Steps, Arrive, TellRead, TellWrite, Settle, CountDue, SignWrite,
               PhotoWrite, ReadOdometer, FinalWrite, CompleteRead, CompleteWrite, Reward
        <4> QED BY <2>2, <4>1
      <3> QED BY <3>1, <3>2
    <2>4. ASSUME \/ Drive \/ Detour \/ UNCHANGED vars
                 \/ \E t \in Stops : PaidOrWaived(t)
                 \/ \E c \in Calls : \/ SampleRead(c) \/ Crash(c)
                                     \/ \E t \in Stops, goal \in Goals : ProofRead(c, t, goal)
          PROVE  Bounced(s)
      BY <2>2, <2>4 DEF Drive, Detour, vars, PaidOrWaived, SampleRead, Crash, ProofRead
    <2> QED BY <2>3, <2>4 DEF Next
  <1>2. Spec => [][scope.width = 1 => \A s \in Route : Bounced(s)]_vars
    BY <1>1, SerialInvHolds, PTL DEF Spec
  <1> QED BY <1>2 DEF Debounced, Bounced
=============================================================================
