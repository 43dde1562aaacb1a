----------------------------- MODULE MCTripDesk -----------------------------
(* Instances of TripDesk for TLC.                                          *)
EXTENDS TripDesk, TLC

CONSTANTS c1, c2, v1, v2, d1, d2

Lorry(v, d) == [vehicle |-> v, driver |-> d]
Scope(w, u, k, crews, fleetMoves, gatesAgain) ==
    [width |-> w, upsets |-> u, cases |-> 1..k, crews |-> crews,
     fleet |-> fleetMoves, gates |-> gatesAgain]

Mixed == {Scope(2, 1, 1, {Lorry(v2, d2)}, FALSE, "never"),
          Scope(2, 0, 1, {}, FALSE, "once"),
          Scope(1, 1, 1, {Lorry(v2, d2)}, TRUE, "once"),
          Scope(1, 0, 1, {Lorry(v2, d2), Lorry(v2, d1)}, FALSE, "again"),
          Scope(1, 0, 2, {Lorry(v2, d2)}, FALSE, "once")}
=============================================================================
