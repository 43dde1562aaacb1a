--------------------------- MODULE MCAwardPayment ---------------------------
(* Instances of AwardPayment for TLC. *)
EXTENDS AwardPayment, TLC

CONSTANTS j1, j2, p1, p2, p3, c1, c2

(* Every bid is for j1, by a carrier and a crew of its own. *)
OneJobOf   == [p \in Proposals |-> j1]
OwnCarrier == [p \in Proposals |-> p]
OwnCrew    == [p \in Proposals |-> {p}]

(* p1 bids for j1; p2 and p3 bid for j2, and p1 and p2 share a truck. *)
TwoJobOf   == [p \in Proposals |-> IF p = p1 THEN j1 ELSE j2]
SharedCrew == [p \in Proposals |-> IF p = p2 THEN {p1} ELSE {p}]

(* Where every bid has its own carrier and crew, slots and bids are alike. *)
SlotsAndBids == Permutations(Calls) \cup Permutations(Proposals)
=============================================================================
