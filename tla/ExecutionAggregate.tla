------------------------- MODULE ExecutionAggregate -------------------------
(***************************************************************************)
(* The Execution aggregate of services/delivery/domain/models.py: one row  *)
(* of the executions table and the commands that change it.  A command is  *)
(* a pair: Can...(e), the guard whose failure raises, and the operator     *)
(* that returns the execution the command leaves.                          *)
(*                                                                         *)
(* turn_count, duration_seconds and cost_minor are accumulated and checked *)
(* by the same code; cost stands for the three of them.  version is        *)
(* written by every command and read by none, and is left out.             *)
(* A definition named Bug... is a variant of the one it precedes with a    *)
(* mistake in it; no specification uses it.                                *)
(***************************************************************************)
EXTENDS Naturals

CONSTANTS MaxAttempts,  \* ExecutionBudget.max_attempts
          MaxCost       \* ExecutionBudget.max_cost_minor (max_turns, max_duration_seconds)

ASSUME BudgetAssumption == MaxAttempts \in Nat /\ MaxCost \in Nat

ExecutionStatus ==
    {"AWAITING_APPROVAL", "QUEUED", "PROVISIONING", "PLANNING",
     "AWAITING_PLAN_APPROVAL", "BUILDING", "VERIFYING", "REPAIRING",
     "DELIVERING", "DELIVERED", "FAILED", "CANCELLED", "AWAITING_HUMAN"}

Terminal == {"DELIVERED", "FAILED", "CANCELLED"}

Execution ==
    [approval_status        : {"PENDING", "APPROVED"},
     status                 : ExecutionStatus,
     attempt_count          : Nat,
     cost                   : Nat,
     cancellation_requested : BOOLEAN,
     result_reference       : {"none", "pull_request"}]

NewExecution ==
    [approval_status        |-> "PENDING",
     status                 |-> "AWAITING_APPROVAL",
     attempt_count          |-> 0,
     cost                   |-> 0,
     cancellation_requested |-> FALSE,
     result_reference       |-> "none"]

BugCanApproveAgain(e) == e.status \in {"AWAITING_APPROVAL", "CANCELLED"}
CanApprove(e) == e.status = "AWAITING_APPROVAL"
BugApproveStatusOnly(e) == [e EXCEPT !.status = "QUEUED"]
Approve(e) == [e EXCEPT !.approval_status = "APPROVED", !.status = "QUEUED"]

CanStartProvisioning(e) == e.status = "QUEUED"
StartProvisioning(e) == [e EXCEPT !.status = "PROVISIONING"]

StartPlanning(e) == [e EXCEPT !.status = "PLANNING"]

StartBuilding(e) == [e EXCEPT !.status = "BUILDING"]

CanStartVerification(e) == e.status = "BUILDING"
StartVerification(e) == [e EXCEPT !.status = "VERIFYING"]

BugRequestRepairUnbounded(e) == [e EXCEPT !.status = "REPAIRING"]
RequestRepair(e) ==
    [e EXCEPT !.status = IF e.attempt_count >= MaxAttempts
                         THEN "AWAITING_HUMAN" ELSE "REPAIRING"]

StartDelivery(e) == [e EXCEPT !.status = "DELIVERING"]

CanDeliver(e) == e.status = "DELIVERING"
Deliver(e) == [e EXCEPT !.result_reference = "pull_request", !.status = "DELIVERED"]

BugWithinBudgetNoCost(e, cost) == e.attempt_count + 1 =< MaxAttempts
BugRecordUsageNoAttempt(e, cost) == [e EXCEPT !.cost = @ + cost]
\* record_usage is all or nothing: ensure_within rejects the new totals
\* before any counter moves.
WithinBudget(e, cost) == e.attempt_count + 1 =< MaxAttempts /\ e.cost + cost =< MaxCost
RecordUsage(e, cost) == [e EXCEPT !.attempt_count = @ + 1, !.cost = @ + cost]

CanRequestCancellation(e) == e.status \notin Terminal
RequestCancellation(e) == [e EXCEPT !.cancellation_requested = TRUE]

BugCanCancelQueued(e) == e.cancellation_requested /\ e.status = "QUEUED"
CanCancel(e) == e.cancellation_requested
Cancel(e) == [e EXCEPT !.status = "CANCELLED"]
=============================================================================
