---------------------------- MODULE MCRevenueSplit ----------------------------
(* What RevenueSplit computes, compared with reference definitions over    *)
(* small inputs.  It has no behaviours: TLC evaluates it with the payout   *)
(* runs, whose lines are its results.                                      *)
EXTENDS RevenueSplit, SequencesExt

(* The loop of getEffectiveNational: rows sorted, the first that will do.  *)
LoopNational(versions, at) ==
    LET rows == SetToSortSeq({v \in versions : v.published \in 1..at}, Newer)
        fit  == SelectSeq(rows, LAMBDA v : v.from <= at /\ v.percents \in National)
    IN  IF fit = <<>> THEN Default ELSE fit[1].percents

Even  == [carrier |-> 50, super |-> 50, state |-> 0, local |-> 0]
Short == [Even EXCEPT !.super = 49]
Version(n, published, from, p) ==
    [version |-> n, published |-> published, from |-> from, percents |-> p]

(* Versions published in any order, at once, ahead of time or invalid.     *)
ASSUME LatestInForce ==
    \A pub \in [1..3 -> 0..2], from \in [1..3 -> 1..2], p2, p3 \in {Default, Even, Short}, at \in 0..2 :
        LET V == {Version(1, pub[1], from[1], Default), Version(2, pub[2], from[2], p2),
                  Version(3, pub[3], from[3], p3)}
        IN  EffectiveNational(V, at) = LoopNational(V, at)

(* A share is a nearest cent, the higher of two.                           *)
Nearest(gross, percent) ==
    CHOOSE c \in 0..gross : \A d \in 0..gross :
        LET off(e) == IF 100 * e > gross * percent THEN 100 * e - gross * percent
                      ELSE gross * percent - 100 * e
        IN  off(c) < off(d) \/ (off(c) = off(d) /\ c >= d)
ASSUME SharesNearest ==
    \A gross \in 0..21, percent \in {0, 1, 5, 10, 15, 25, 33, 50, 70, 95, 100} :
        Share(gross, percent) = Nearest(gross, percent)

(* Rounding alone can leave the local line below zero; so can a package    *)
(* whose state and local shares outgrow what a later policy leaves.        *)
ASSUME LocalBelowZero ==
    /\ AllocateCents(1, Even).local = -1
    /\ LET package == [super |-> 0, state |-> 25, local |-> 5]
           later   == [carrier |-> 90, super |-> 5, state |-> 3, local |-> 2]
       IN  /\ InPool(package, Default.carrier) /\ later \in National
           /\ AllocateCents(1000, Beside(package, later)).local = -150
=============================================================================
