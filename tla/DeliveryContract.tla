-------------------------- MODULE DeliveryContract --------------------------
(***************************************************************************)
(* What the delivery service promises for one work item, without rows,     *)
(* sessions, signals, activities or runners: it is worked on only after an *)
(* approval, in a bounded number of runs, a pull request is opened only    *)
(* for a run that passed, before the work item counts as delivered, and a  *)
(* cancellation is carried out only before the work has begun - unless the *)
(* whole procedure is started again, which may cancel whatever the first   *)
(* one has left, and leaves no other trace.                                *)
(***************************************************************************)
EXTENDS Naturals

CONSTANT MaxRuns

VARIABLES stage,   \* where the work item is
          runs,    \* runner results judged so far
          opened,  \* has its pull request been opened?
          again    \* has the procedure been started again?

contract == <<stage, runs, opened, again>>

Init == stage = "pending" /\ runs = 0 /\ opened = FALSE /\ again = FALSE

Restart == again' = TRUE /\ UNCHANGED <<stage, runs, opened>>

Approve == stage = "pending" /\ stage' = "approved" /\ UNCHANGED <<runs, opened, again>>

Withdraw ==
    /\ stage \in {"pending", "approved"} \/ again
    /\ stage' = "cancelled"
    /\ UNCHANGED <<runs, opened, again>>

Begin == stage = "approved" /\ stage' = "working" /\ UNCHANGED <<runs, opened, again>>

\* A run passes, or fails and is repaired while runs are left.
Judge ==
    /\ stage = "working"
    /\ runs < MaxRuns
    /\ runs' = runs + 1
    /\ stage' \in {"delivering", IF runs' < MaxRuns THEN "working" ELSE "human"}
    /\ UNCHANGED <<opened, again>>

\* A run that passed may open its pull request after the item was withdrawn.
Open ==
    /\ stage = "delivering" \/ (stage = "cancelled" /\ again /\ runs > 0)
    /\ opened' = TRUE
    /\ UNCHANGED <<stage, runs, again>>

Finish ==
    /\ stage = "delivering"
    /\ opened
    /\ stage' = "delivered"
    /\ UNCHANGED <<runs, opened, again>>

Next == Restart \/ Approve \/ Withdraw \/ Begin \/ Judge \/ Open \/ Finish

Spec == Init /\ [][Next]_contract
=============================================================================
