----------------------------- MODULE MCWebSession -----------------------------
(* Instances of WebSession for TLC: three requests of one login, or two     *)
(* requests with a second login or a fault.                                *)
EXTENDS WebSession

Scope(n, l, f) == [requests |-> n, logins |-> l, faults |-> f]
Mixed == {Scope(3, 0, 0), Scope(2, 1, 0), Scope(2, 0, 1), Scope(2, 1, 1)}
=============================================================================
