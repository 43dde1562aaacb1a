-------------------------- MODULE MCFleetCompliance --------------------------
(* Instances of FleetCompliance for TLC.                                   *)
EXTENDS FleetCompliance, TLC

CONSTANTS c1, c2, v1, v2

Scope(w, f, l, n, lifted, standing, requests) ==
    [width |-> w, crashes |-> f, lapses |-> l, cases |-> n, restore |-> lifted, start |-> standing,
     kinds |-> requests]

Slots == Permutations(Calls)
AnyKind == {"add", "drop", "file", "submit", "decide", "admin"}

Mixed == {Scope(2, 0, 1, 1, FALSE, "BID_ELIGIBLE", {"add", "file", "decide"}),
          Scope(2, 0, 1, 1, FALSE, "BID_ELIGIBLE", {"add", "drop", "file"}),
          Scope(1, 1, 1, 2, FALSE, "BID_ELIGIBLE", AnyKind \ {"admin"}),
          Scope(1, 0, 1, 1, TRUE, "BID_ELIGIBLE", AnyKind \ {"submit"}),
          Scope(1, 0, 0, 2, FALSE, "DRAFT", AnyKind)}

(* A reviewed carrier adds a vehicle and changes its mind about it.        *)
FleetOnly == {Scope(1, 0, 1, 1, TRUE, "BID_ELIGIBLE", {"add", "drop"})}
=============================================================================
