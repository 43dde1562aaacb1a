---------------------------- MODULE AwardContract ----------------------------
(***************************************************************************)
(* What PaymentsService promises about the one award of a job, without     *)
(* requests, rows or Stripe: an award is reserved, and becomes firm or     *)
(* finished only once the sender's fare has been captured; only an award   *)
(* that is not firm can disappear.  A fare once captured stays captured.   *)
(***************************************************************************)
CONSTANT Jobs
VARIABLES award, paid

Init == /\ award = [j \in Jobs |-> "NONE"]
        /\ paid = [j \in Jobs |-> FALSE]

Becomes(j, s) == /\ award' = [award EXCEPT ![j] = s]
                 /\ UNCHANGED paid

Capture(j) == paid' = [paid EXCEPT ![j] = TRUE] /\ UNCHANGED award
Reserve(j) == Becomes(j, "PENDING")
Drop(j)    == award[j] = "PENDING" /\ Becomes(j, "NONE")
Lock(j)    == award[j] # "NONE" /\ paid[j] /\ Becomes(j, "LOCKED")
Finish(j)  == award[j] # "NONE" /\ paid[j] /\ Becomes(j, "COMPLETED")
Cancel(j)  == award[j] # "NONE" /\ Becomes(j, "CANCELLED")

Next == \E j \in Jobs : \/ Capture(j) \/ Reserve(j) \/ Drop(j)
                        \/ Lock(j) \/ Finish(j) \/ Cancel(j)

Spec == Init /\ [][Next]_<<award, paid>>
==============================================================================
