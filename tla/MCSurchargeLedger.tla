-------------------------- MODULE MCSurchargeLedger --------------------------
(* Instances of SurchargeLedger for TLC.  A behaviour picks its bounds: one *)
(* request at a time with everything the module has, or two at once over   *)
(* one hard case each: growth, retries, disputes, faults.                  *)
EXTENDS SurchargeLedger, TLC

CONSTANTS c1, c2

Scope(w, d, a, k, f) == [width |-> w, wait |-> d, attempts |-> a, cases |-> k, faults |-> f]

Mixed == {Scope(1, 2, 1, 0, 0), Scope(1, 2, 0, 0, 1), Scope(1, 1, 1, 0, 1),
          Scope(1, 1, 0, 1, 0), Scope(2, 1, 1, 0, 0), Scope(2, 1, 0, 0, 1)}
=============================================================================
