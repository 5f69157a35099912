----------------------------- MODULE RunnerJob -----------------------------
(***************************************************************************)
(* What the delivery workflow relies on when it polls a runner job: a job  *)
(* goes from QUEUED over LEASED to COMPLETED, its result is that of work   *)
(* done since the job was last queued, and it stands until the job is      *)
(* queued again.  A report that was overtaken by what happened to its      *)
(* lease is the exception: it completes the job whatever its status, with  *)
(* the work of any round so far.                                           *)
(***************************************************************************)
EXTENDS Naturals

VARIABLES status, \* QUEUED, LEASED or COMPLETED
          round,  \* how often the job has been queued
          result, \* the round whose work the result reports, 0 for none
          late    \* the rounds in which an overtaken report arrived

vars == <<status, round, result, late>>

Init == status = "QUEUED" /\ round = 1 /\ result = 0 /\ late = {}

Lease ==
    /\ status = "QUEUED"
    /\ status' = "LEASED"
    /\ UNCHANGED <<round, result, late>>

Complete ==
    /\ status = "LEASED"
    /\ status' = "COMPLETED"
    /\ result' = round
    /\ UNCHANGED <<round, late>>

CompleteLate ==
    /\ status' = "COMPLETED"
    /\ result' \in 1..round
    /\ late' = late \cup {round}
    /\ UNCHANGED round

Requeue ==
    /\ status = "COMPLETED"
    /\ status' = "QUEUED"
    /\ round' = round + 1
    /\ result' = 0
    /\ UNCHANGED late

Next == Lease \/ Complete \/ CompleteLate \/ Requeue

Spec == Init /\ [][Next]_vars
=============================================================================
