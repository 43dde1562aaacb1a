---------------------------- MODULE MCAuthSessions ----------------------------
(* Instances of AuthSessions for TLC.                                      *)
EXTENDS AuthSessions, TLC

CONSTANTS c1, c2

Scope(w, f) == [width |-> w, crashes |-> f]
Slots == Permutations(Calls)

Mixed == {Scope(1, 1), Scope(2, 1)}
=============================================================================
