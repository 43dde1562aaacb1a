--------------------------- MODULE MCCarrierPayout ---------------------------
(* Instances of CarrierPayout for TLC: model values for jobs, carriers and *)
(* slots.  payout_serial takes carriers for each other; payout_overlap is  *)
(* run without symmetry, which its liveness property does not allow.       *)
EXTENDS CarrierPayout, MCRevenueSplit, TLC

CONSTANTS j1, k1, k2, c1, c2

CarriersAlike == Permutations(Carriers)
=============================================================================
