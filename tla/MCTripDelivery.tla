--------------------------- MODULE MCTripDelivery ---------------------------
(* Instances of TripDelivery for TLC: a pickup and one or two dropoffs, and *)
(* requests one or two at a time.                                          *)
EXTENDS TripDelivery, TLC

CONSTANTS c1, c2

Short == <<"PICKUP", "DROPOFF">>
Long  == <<"PICKUP", "DROPOFF", "DROPOFF">>

Scope(w, r, d, b, f) == [width |-> w, route |-> r, detours |-> d, bills |-> b, faults |-> f]

Mixed == {Scope(2, Short, 0, 0, 1), Scope(2, Short, 0, 1, 0), Scope(1, Short, 1, 1, 1),
          Scope(1, Long, 0, 1, 1), Scope(1, Long, 1, 0, 0)}
=============================================================================
