------------------------- MODULE DeliveryExecution -------------------------
(***************************************************************************)
(* One execution of the delivery service, from the READY work item to the  *)
(* pull request: the executions row and its runner job, the API handlers   *)
(* that approve and cancel it, the command outbox, the Temporal workflow,  *)
(* the activities it runs and their retries, and the runner that completes *)
(* the job (its lease protocol is module RunnerLease).  The dispatcher may *)
(* hand over any command again: START of a workflow that has closed makes  *)
(* Temporal run it once more.                                              *)
(*                                                                         *)
(* Every change of the row is a database session of several steps.         *)
(* get_execution reads the row and the command computes the new execution  *)
(* from that snapshot; update_execution reads the row once more and the    *)
(* ORM flushes only the columns in which the new execution differs from    *)
(* this second read; the flush takes effect with the commit.  Nothing      *)
(* compares versions, so other sessions may commit between any two steps.  *)
(* Overlap = FALSE restricts the model to sessions that do not overlap.    *)
(***************************************************************************)
EXTENDS ExecutionAggregate, FiniteSets

CONSTANTS ApproveRequests,      \* POST .../approve requests
          CancelRequests,       \* POST .../cancel requests
          MaxActivityAttempts,  \* RetryPolicy(maximum_attempts)
          MaxStarts,            \* bound: how many runs of the workflow START opens
          MaxScheduled,         \* bound: how many attempts these runs schedule in all
          Costs,                \* what one runner job may report as cost
          Overlap,              \* may sessions on the row overlap?
          Faults                \* the faults that may happen

ASSUME DeliveryAssumption ==
    /\ ApproveRequests \cap CancelRequests = {}
    /\ "START" \notin ApproveRequests \cup CancelRequests
    /\ MaxActivityAttempts \in Nat \ {0}
    /\ MaxStarts \in Nat \ {0}
    /\ MaxScheduled \in Nat
    /\ Costs \subseteq Nat
    /\ Overlap \in BOOLEAN
    /\ Faults \subseteq {"crash", "timeout", "refused", "rollback", "overtaken"}

Requests == ApproveRequests \cup CancelRequests
Tries == 1..MaxActivityAttempts
Attempts == (1..MaxStarts) \X Tries   \* the tries of each run of the workflow

VARIABLES
    row,          \* the execution's row in the executions table, as committed
    job,          \* its row in the runner_jobs table
    outbox,       \* the commands that await dispatch: START, or the request that issued
                  \* an APPROVE or a CANCEL
    workflow,     \* the Temporal workflow execution/{id}
    request,      \* the session of each API request
    cleanup,      \* the session of the cancel-and-cleanup-execution activity
    attempt,      \* the attempts of the execute-delivery activity
    pullRequest,  \* has the pull request been opened?
    judged        \* history: the runner results a commit has judged

vars == <<row, job, outbox, workflow, request, cleanup, attempt, pullRequest, judged>>

-----------------------------------------------------------------------------
(* Types *)

\* The signals _result_ carries; a job without result reads as all FALSE and 0.
Verdict == [success : BOOLEAN, passed : BOOLEAN, cost : Costs \cup {0}]
NoVerdict == [success |-> FALSE, passed |-> FALSE, cost |-> 0]
BugVerifiedByAgent(v) == v.success
Verified(v) == v.success /\ v.passed

Job == [status : {"none", "QUEUED", "LEASED", "COMPLETED"}, result : Verdict]

Workflow ==
    [state     : {"none", "waiting", "cancelling", "executing", "closed"},
     approved  : BOOLEAN,
     cancelled : BOOLEAN,
     run       : 1..MaxStarts]   \* its latest run, or the first one to be

Session(steps) == [at : steps, new : Execution, base : Execution]

RequestStep == {"new", "read", "reread", "committed", "rejected"}
CleanupStep == {"new", "read", "reread", "done"}
AttemptSession == {"enqueue.read", "enqueue.reread", "verify.read",
                   "deliver.read", "deliver.reread"}
AttemptRunning == AttemptSession \cup {"enqueue", "poll", "open", "deliver"}
AttemptStep == AttemptRunning \cup {"new", "returned", "failed"}
ActivityAttempt ==
    [at : AttemptStep, new : Execution, base : Execution, verdict : Verdict, lost : BOOLEAN]

TypeOK ==
    /\ row \in Execution
    /\ job \in Job
    /\ outbox \in SUBSET (Requests \cup {"START"})
    /\ workflow \in Workflow
    /\ request \in [Requests -> Session(RequestStep)]
    /\ cleanup \in Session(CleanupStep)
    /\ attempt \in [Attempts -> ActivityAttempt]
    /\ pullRequest \in BOOLEAN
    /\ judged \in Nat

\* accept_ready_work_item has committed the row and its START command.
Init ==
    /\ row = NewExecution
    /\ job = [status |-> "none", result |-> NoVerdict]
    /\ outbox = {"START"}
    /\ workflow = [state |-> "none", approved |-> FALSE, cancelled |-> FALSE, run |-> 1]
    /\ request = [h \in Requests |->
                    [at |-> "new", new |-> NewExecution, base |-> NewExecution]]
    /\ cleanup = [at |-> "new", new |-> NewExecution, base |-> NewExecution]
    /\ attempt = [k \in Attempts |->
                    [at |-> "new", new |-> NewExecution, base |-> NewExecution,
                     verdict |-> NoVerdict, lost |-> FALSE]]
    /\ pullRequest = FALSE
    /\ judged = 0

-----------------------------------------------------------------------------
(* Sessions on the row *)

SessionOpen ==
    \/ \E h \in Requests : request[h].at \in {"read", "reread"}
    \/ cleanup.at \in {"read", "reread"}
    \/ \E k \in Attempts : attempt[k].at \in AttemptSession

MayRead == Overlap \/ ~SessionOpen

\* The end of a session: step s.at = step follows, nothing read is kept.
Leave(s, step) == [s EXCEPT !.at = step, !.new = NewExecution, !.base = NewExecution]

\* The flush writes a column only if the new value differs from the second
\* read; another column keeps what is committed by now.
Column(new, base, now) == IF new # base THEN new ELSE now
Flushed(s) ==
    [approval_status |->
        Column(s.new.approval_status, s.base.approval_status, row.approval_status),
     status |-> Column(s.new.status, s.base.status, row.status),
     attempt_count |->
        Column(s.new.attempt_count, s.base.attempt_count, row.attempt_count),
     cost |-> Column(s.new.cost, s.base.cost, row.cost),
     cancellation_requested |->
        Column(s.new.cancellation_requested, s.base.cancellation_requested,
               row.cancellation_requested),
     result_reference |->
        Column(s.new.result_reference, s.base.result_reference, row.result_reference)]

-----------------------------------------------------------------------------
(* The API handlers *)

\* Both handlers read the row and run the aggregate's command on the snapshot;
\* a command that raises rolls the session back (409).
RequestReads(h, Allowed(_), Command(_)) ==
    /\ request[h].at = "new"
    /\ MayRead
    /\ request' = [request EXCEPT
                     ![h] = IF Allowed(row)
                            THEN [at |-> "read", new |-> Command(row), base |-> row]
                            ELSE [@ EXCEPT !.at = "rejected"]]
    /\ UNCHANGED <<row, job, outbox, workflow, cleanup, attempt, pullRequest, judged>>

ApproveExecution(h) == RequestReads(h, CanApprove, Approve)

CancelExecution(h) == RequestReads(h, CanRequestCancellation, RequestCancellation)

\* update_execution reads the row a second time.
RequestRereads(h) ==
    /\ request[h].at = "read"
    /\ request' = [request EXCEPT ![h].at = "reread", ![h].base = row]
    /\ UNCHANGED <<row, job, outbox, workflow, cleanup, attempt, pullRequest, judged>>

\* The row and the workflow command commit in one transaction.
RequestCommits(h) ==
    /\ request[h].at = "reread"
    /\ request' = [request EXCEPT ![h] = Leave(@, "committed")]
    /\ row' = Flushed(request[h])
    /\ outbox' = outbox \cup {h}
    /\ UNCHANGED <<job, workflow, cleanup, attempt, pullRequest, judged>>

\* The API process or its connection dies: the transaction never happened.
RequestCrashes(h) ==
    /\ "crash" \in Faults
    /\ request[h].at \in {"read", "reread"}
    /\ request' = [request EXCEPT ![h] = Leave(@, "rejected")]
    /\ UNCHANGED <<row, job, outbox, workflow, cleanup, attempt, pullRequest, judged>>

-----------------------------------------------------------------------------
(* The dispatcher and the workflow (module WorkflowDispatcher has the batches) *)

IsOpen == workflow.state \in {"waiting", "cancelling", "executing"}

\* A batch that fails or crashes later on is rolled back as a whole: what was
\* handed over from it stays in the outbox.
Handed(c) ==
    \/ outbox' = outbox \ {c}
    \/ "rollback" \in Faults /\ outbox' = outbox

\* START of an open workflow is suppressed (WorkflowAlreadyStartedError).
DispatchStart ==
    /\ "START" \in outbox
    /\ Handed("START")
    /\ \/ /\ IsOpen
          /\ UNCHANGED <<workflow, cleanup>>
       \/ /\ workflow.state = "none"
          /\ workflow' = [workflow EXCEPT !.state = "waiting"]
          /\ UNCHANGED cleanup
       \/ /\ workflow.state = "closed"
          /\ workflow.run < MaxStarts
          /\ workflow' = [state |-> "waiting", approved |-> FALSE, cancelled |-> FALSE,
                          run |-> workflow.run + 1]
          /\ cleanup' = [cleanup EXCEPT !.at = "new"]
    /\ UNCHANGED <<row, job, request, attempt, pullRequest, judged>>

\* Only an open workflow takes a signal: to a closed one the dispatcher fails.
DispatchSignal(h) ==
    /\ h \in outbox
    /\ IsOpen
    /\ workflow' = IF h \in ApproveRequests
                   THEN [workflow EXCEPT !.approved = TRUE]
                   ELSE [workflow EXCEPT !.cancelled = TRUE]
    /\ Handed(h)
    /\ UNCHANGED <<row, job, request, cleanup, attempt, pullRequest, judged>>

BugWorkflowDoesNotWait ==
    /\ workflow.state = "waiting"
    /\ workflow' = [workflow EXCEPT !.state = "executing"]
    /\ attempt' = [attempt EXCEPT ![<<workflow.run, 1>>].at = "enqueue"]
    /\ UNCHANGED <<row, job, outbox, request, cleanup, pullRequest, judged>>

\* The bound on the attempts leaves room for another one.
MaySchedule == Cardinality({k \in Attempts : attempt[k].at # "new"}) < MaxScheduled

\* wait_condition: a cancel signal wins over an approval, but it is looked at
\* only here.
WorkflowWakes ==
    /\ workflow.state = "waiting"
    /\ workflow.approved \/ workflow.cancelled
    /\ IF workflow.cancelled
       THEN /\ workflow' = [workflow EXCEPT !.state = "cancelling"]
            /\ UNCHANGED attempt
       ELSE /\ MaySchedule
            /\ workflow' = [workflow EXCEPT !.state = "executing"]
            /\ attempt' = [attempt EXCEPT ![<<workflow.run, 1>>].at = "enqueue"]
    /\ UNCHANGED <<row, job, outbox, request, cleanup, pullRequest, judged>>

\* The n-th try is the latest that Temporal has scheduled in this run.
IsLatest(n) ==
    /\ attempt[<<workflow.run, n>>].at # "new"
    /\ \A m \in Tries : m > n => attempt[<<workflow.run, m>>].at = "new"

GivenUp(k) == attempt[k].at = "failed" \/ attempt[k].lost

\* Temporal schedules the next attempt of an activity that failed or timed
\* out; a timed out attempt may still be running, even when the run is over.
RetryDelivery(n) ==
    /\ workflow.state = "executing"
    /\ IsLatest(n)
    /\ GivenUp(<<workflow.run, n>>)
    /\ n < MaxActivityAttempts
    /\ MaySchedule
    /\ attempt' = [attempt EXCEPT ![<<workflow.run, n + 1>>].at = "enqueue"]
    /\ UNCHANGED <<row, job, outbox, workflow, request, cleanup, pullRequest, judged>>

BugWorkflowGoesOn ==
    /\ workflow.state = "cancelling"
    /\ cleanup.at = "done"
    /\ workflow' = [workflow EXCEPT !.state = "executing"]
    /\ attempt' = [attempt EXCEPT ![<<workflow.run, 1>>].at = "enqueue"]
    /\ UNCHANGED <<row, job, outbox, request, cleanup, pullRequest, judged>>

\* The workflow ends when its activity has returned or used up its attempts.
WorkflowCloses ==
    /\ \/ /\ workflow.state = "cancelling"
          /\ cleanup.at = "done"
       \/ /\ workflow.state = "executing"
          /\ \E n \in Tries :
                LET k == <<workflow.run, n>>
                IN  /\ IsLatest(n)
                    /\ \/ attempt[k].at = "returned" /\ ~attempt[k].lost
                       \/ GivenUp(k) /\ n = MaxActivityAttempts
    /\ workflow' = [workflow EXCEPT !.state = "closed"]
    /\ UNCHANGED <<row, job, outbox, request, cleanup, attempt, pullRequest, judged>>

-----------------------------------------------------------------------------
(* The cancel-and-cleanup-execution activity *)

CleanupReads ==
    /\ workflow.state = "cancelling"
    /\ cleanup.at = "new"
    /\ MayRead
    /\ cleanup' = IF CanCancel(row)
                  THEN [at |-> "read", new |-> Cancel(row), base |-> row]
                  ELSE [cleanup EXCEPT !.at = "done"]
    /\ UNCHANGED <<row, job, outbox, workflow, request, attempt, pullRequest, judged>>

CleanupRereads ==
    /\ cleanup.at = "read"
    /\ cleanup' = [cleanup EXCEPT !.at = "reread", !.base = row]
    /\ UNCHANGED <<row, job, outbox, workflow, request, attempt, pullRequest, judged>>

CleanupCommits ==
    /\ cleanup.at = "reread"
    /\ cleanup' = Leave(cleanup, "done")
    /\ row' = Flushed(cleanup)
    /\ UNCHANGED <<job, outbox, workflow, request, attempt, pullRequest, judged>>

\* Its worker dies, before or after the commit: Temporal runs it again.
CleanupCrashes ==
    /\ "crash" \in Faults
    /\ workflow.state = "cancelling"
    /\ cleanup.at # "new"
    /\ cleanup' = Leave(cleanup, "new")
    /\ UNCHANGED <<row, job, outbox, workflow, request, attempt, pullRequest, judged>>

-----------------------------------------------------------------------------
(* The execute-delivery activity *)

\* _enqueue moves a QUEUED execution to BUILDING in memory; another status is
\* left alone (a retry) and update_execution is not called.
EnqueueReads(k) ==
    /\ attempt[k].at = "enqueue"
    /\ MayRead
    /\ attempt' = [attempt EXCEPT ![k] =
         IF CanStartProvisioning(row)
         THEN [@ EXCEPT !.at = "enqueue.read", !.base = row,
                        !.new = StartBuilding(StartPlanning(StartProvisioning(row)))]
         ELSE [@ EXCEPT !.at = "enqueue.reread", !.base = row, !.new = row]]
    /\ UNCHANGED <<row, job, outbox, workflow, request, cleanup, pullRequest, judged>>

EnqueueRereads(k) ==
    /\ attempt[k].at = "enqueue.read"
    /\ attempt' = [attempt EXCEPT ![k].at = "enqueue.reread", ![k].base = row]
    /\ UNCHANGED <<row, job, outbox, workflow, request, cleanup, pullRequest, judged>>

\* create_runner_job returns the job the execution already has.
EnqueueCommits(k) ==
    /\ attempt[k].at = "enqueue.reread"
    /\ attempt' = [attempt EXCEPT ![k] = Leave(@, "poll")]
    /\ row' = Flushed(attempt[k])
    /\ job' = IF job.status = "none"
              THEN [status |-> "QUEUED", result |-> NoVerdict] ELSE job
    /\ UNCHANGED <<outbox, workflow, request, cleanup, pullRequest, judged>>

\* The execution a result leads to, by both signals and the attempts left.
AfterVerification(e, v) ==
    LET used == StartVerification(RecordUsage(e, v.cost))
        repair == RequestRepair(used)
    IN  IF Verified(v) THEN StartDelivery(used)
        ELSE IF repair.status = "REPAIRING" THEN StartBuilding(repair) ELSE repair

\* A poll that finds the job COMPLETED.  BudgetExceeded and
\* InvalidExecutionTransition are not caught: the attempt fails.
PollReads(k) ==
    /\ attempt[k].at = "poll"
    /\ job.status = "COMPLETED"
    /\ MayRead
    /\ attempt' = [attempt EXCEPT ![k] =
         IF WithinBudget(row, job.result.cost) /\ CanStartVerification(row)
         THEN [@ EXCEPT !.at = "verify.read", !.verdict = job.result, !.base = row,
                        !.new = AfterVerification(row, job.result)]
         ELSE [@ EXCEPT !.at = "failed"]]
    /\ UNCHANGED <<row, job, outbox, workflow, request, cleanup, pullRequest, judged>>

\* update_execution runs twice in this transaction.  The first flush locks the
\* row and the second compares with what it left, so together they write every
\* column of the new execution, whatever was committed since the snapshot.
VerifyCommits(k) ==
    /\ attempt[k].at = "verify.read"
    /\ row' = attempt[k].new
    /\ judged' = judged + 1
    /\ \/ /\ attempt[k].new.status = "BUILDING"
          /\ job' = [status |-> "QUEUED", result |-> NoVerdict]
          /\ attempt' = [attempt EXCEPT ![k] = Leave(@, "poll")]
       \/ /\ attempt[k].new.status = "AWAITING_HUMAN"
          /\ attempt' = [attempt EXCEPT ![k] = Leave(@, "returned")]
          /\ UNCHANGED job
       \/ /\ attempt[k].new.status = "DELIVERING"
          /\ attempt' = [attempt EXCEPT ![k] = Leave(@, "open")]
          /\ UNCHANGED job
    /\ UNCHANGED <<outbox, workflow, request, cleanup, pullRequest>>

BugCreatePullRequestUnchecked(k) ==
    /\ attempt[k].at = "open"
    /\ pullRequest' \in {pullRequest, TRUE}
    /\ attempt' = [attempt EXCEPT ![k].at = "deliver"]
    /\ UNCHANGED <<row, job, outbox, workflow, request, cleanup, judged>>

\* Module PullRequest has what the integrations service does: the branch has its
\* pull request after an answer; an error may come before or after the fact.
CreatePullRequest(k) ==
    /\ attempt[k].at = "open"
    /\ \/ /\ pullRequest' = TRUE
          /\ attempt' = [attempt EXCEPT ![k].at = "deliver"]
       \/ /\ "refused" \in Faults
          /\ pullRequest' \in {pullRequest, TRUE}
          /\ attempt' = [attempt EXCEPT ![k].at = "failed"]
    /\ UNCHANGED <<row, job, outbox, workflow, request, cleanup, judged>>

DeliverReads(k) ==
    /\ attempt[k].at = "deliver"
    /\ MayRead
    /\ attempt' = [attempt EXCEPT ![k] =
         IF CanDeliver(row)
         THEN [@ EXCEPT !.at = "deliver.read", !.new = Deliver(row), !.base = row]
         ELSE [@ EXCEPT !.at = "failed"]]
    /\ UNCHANGED <<row, job, outbox, workflow, request, cleanup, pullRequest, judged>>

DeliverRereads(k) ==
    /\ attempt[k].at = "deliver.read"
    /\ attempt' = [attempt EXCEPT ![k].at = "deliver.reread", ![k].base = row]
    /\ UNCHANGED <<row, job, outbox, workflow, request, cleanup, pullRequest, judged>>

DeliverCommits(k) ==
    /\ attempt[k].at = "deliver.reread"
    /\ attempt' = [attempt EXCEPT ![k] = Leave(@, "returned")]
    /\ row' = Flushed(attempt[k])
    /\ UNCHANGED <<job, outbox, workflow, request, cleanup, pullRequest, judged>>

\* The worker dies between two steps; an open transaction is rolled back.
AttemptCrashes(k) ==
    /\ "crash" \in Faults
    /\ attempt[k].at \in AttemptRunning
    /\ attempt' = [attempt EXCEPT ![k] = Leave(@, "failed")]
    /\ UNCHANGED <<row, job, outbox, workflow, request, cleanup, pullRequest, judged>>

\* Temporal counts an attempt as lost after 30 s without a heartbeat or 30 min
\* in all; the attempt itself is not stopped.
AttemptTimesOut(k) ==
    /\ "timeout" \in Faults
    /\ attempt[k].at \in AttemptRunning
    /\ workflow.state = "executing" /\ workflow.run = k[1]
    /\ attempt' = [attempt EXCEPT ![k].lost = TRUE]
    /\ UNCHANGED <<row, job, outbox, workflow, request, cleanup, pullRequest, judged>>

-----------------------------------------------------------------------------
(* The runner *)

RunnerLeases ==
    /\ job.status = "QUEUED"
    /\ job' = [job EXCEPT !.status = "LEASED"]
    /\ UNCHANGED <<row, outbox, workflow, request, cleanup, attempt, pullRequest, judged>>

\* A report that was overtaken by another lease replaces a result (RunnerJob).
RunnerCompletes(v) ==
    /\ \/ job.status = "LEASED"
       \/ job.status = "COMPLETED" /\ "overtaken" \in Faults
    /\ job' = [status |-> "COMPLETED", result |-> v]
    /\ UNCHANGED <<row, outbox, workflow, request, cleanup, attempt, pullRequest, judged>>

-----------------------------------------------------------------------------
Attempt(k) ==
    \/ EnqueueReads(k) \/ EnqueueRereads(k) \/ EnqueueCommits(k)
    \/ PollReads(k) \/ VerifyCommits(k)
    \/ CreatePullRequest(k)
    \/ DeliverReads(k) \/ DeliverRereads(k) \/ DeliverCommits(k)

Cleanup == CleanupReads \/ CleanupRereads \/ CleanupCommits

Runner == RunnerLeases \/ \E v \in Verdict : RunnerCompletes(v)

Temporal ==
    \/ DispatchStart
    \/ \E h \in Requests : DispatchSignal(h)
    \/ WorkflowWakes
    \/ \E n \in Tries : RetryDelivery(n)
    \/ WorkflowCloses

Api ==
    \/ \E h \in ApproveRequests : ApproveExecution(h)
    \/ \E h \in CancelRequests : CancelExecution(h)

ApiSession == \E h \in Requests : RequestRereads(h) \/ RequestCommits(h)

Fault ==
    \/ \E h \in Requests : RequestCrashes(h)
    \/ CleanupCrashes
    \/ \E k \in Attempts : AttemptCrashes(k) \/ AttemptTimesOut(k)

Next ==
    \/ Api \/ ApiSession \/ Temporal \/ Cleanup
    \/ \E k \in Attempts : Attempt(k)
    \/ Runner \/ Fault

Spec == Init /\ [][Next]_vars

\* Open sessions, the dispatcher, the workflow, the activity workers and the
\* runner keep going; nobody has to send a request and no fault has to happen.
Fairness ==
    /\ WF_vars(ApiSession)
    /\ WF_vars(Temporal)
    /\ WF_vars(Cleanup)
    /\ \A k \in Attempts : WF_vars(Attempt(k))
    /\ WF_vars(Runner)

FairSpec == Spec /\ Fairness

-----------------------------------------------------------------------------
(* What holds however the sessions interleave *)

Approved == \E h \in ApproveRequests : request[h].at = "committed"

\* No runner job exists and no pull request is opened before an approval of the
\* execution has been committed: the row, the command, the signal and the
\* activity pass the approval on (application/service.py, temporal_workflow.py).
NoWorkBeforeApproval == job.status # "none" \/ pullRequest => Approved

\* The independent verification rule of activities.py: an execution is being
\* delivered, is delivered or has a pull request only on account of a runner
\* result in which the agent succeeded and the validation passed.
DeliveredOnlyIfVerified ==
    pullRequest \/ row.status \in {"DELIVERING", "DELIVERED"} =>
        \E k \in Attempts : attempt[k].verdict.success /\ attempt[k].verdict.passed

\* A DELIVERED execution has its pull request: the commit follows the call.
DeliveredHasPullRequest == row.status = "DELIVERED" => pullRequest

\* The totals on the row never exceed the budget.
RecordedUsageWithinBudget == row.attempt_count =< MaxAttempts /\ row.cost =< MaxCost

\* START was repeated after the workflow had closed.
Restarted == workflow.run > 1

\* Cancelling and executing are alternatives, whatever is signalled later: once
\* the cancel activity has run to its end, there is a job or a pull request only
\* if the workflow has run more than once.
CancelledIsWorkedOnOnlyIfRestarted ==
    cleanup.at = "done" /\ (job.status # "none" \/ pullRequest) => Restarted

-----------------------------------------------------------------------------
(* What holds if sessions on the row do not overlap *)

\* However often the workflow runs: the row of a CANCELLED execution does not
\* change again, no result of its runner is judged, and it has no pull request
\* unless a result had passed before.  DELIVERED is left only by the cancel
\* activity of a repeated START, and an accepted cancellation stays on record.
TerminalIsFinal ==
    [][/\ row.status = "CANCELLED" => row' = row /\ judged' = judged
       /\ row.status = "DELIVERED" =>
             \/ row'.status = "DELIVERED"
             \/ row'.status = "CANCELLED" /\ row.cancellation_requested /\ Restarted
       /\ row.cancellation_requested => row'.cancellation_requested]_<<row, judged>>

\* Every judged runner result is counted as an attempt, so the repairs are
\* bounded by max_attempts.
EveryJudgementIsCounted == row.attempt_count = judged

\* The columns of the row agree with one another; a pull request is on the row
\* of an execution that is delivered or that a repeated START has cancelled since.
ColumnsAgree ==
    /\ row.approval_status = "PENDING" <=> ~Approved
    /\ row.status = "DELIVERED" => row.result_reference = "pull_request"
    /\ row.result_reference = "pull_request" =>
          \/ row.status = "DELIVERED"
          \/ row.status = "CANCELLED" /\ row.cancellation_requested /\ Restarted

\* The service implements its contract: every step that changes the committed
\* row or opens the pull request is a step of DeliveryContract.
Stage ==
    [s \in ExecutionStatus |->
        CASE s = "AWAITING_APPROVAL" -> "pending"
          [] s = "QUEUED"            -> "approved"
          [] s = "BUILDING"          -> "working"
          [] s = "AWAITING_HUMAN"    -> "human"
          [] s = "DELIVERING"        -> "delivering"
          [] s = "DELIVERED"         -> "delivered"
          [] s = "CANCELLED"         -> "cancelled"
          [] OTHER                   -> "transient"]

Promised == INSTANCE DeliveryContract WITH
                MaxRuns <- MaxAttempts,
                stage   <- Stage[row.status],
                runs    <- row.attempt_count,
                opened  <- pullRequest,
                again   <- Restarted
ImplementsContract == Promised!Spec

-----------------------------------------------------------------------------
(* Liveness *)

Settled == row.status \in Terminal \cup {"AWAITING_HUMAN"}

\* Without faults and within the budget, an approved execution settles.
ApprovedSettles == (row.status = "QUEUED") ~> Settled

\* The accepted cancellation of an execution nobody approves is carried out.
CancellationIsCarriedOut ==
    (row.cancellation_requested /\ ~Approved) ~> (row.status = "CANCELLED" \/ Approved)

-----------------------------------------------------------------------------
(* What the documentation says and the code does not do *)

\* README.md:171-173, 187: transitions are the aggregate's guarded commands and
\* none of them leaves DELIVERED.
DeliveredStaysDelivered == [][row.status = "DELIVERED" => row'.status = "DELIVERED"]_row

\* ADR 0003:12 (retries are explicit, handlers idempotent) and README.md:192
\* (FAILED): when the workflow is over and nothing runs, the row is settled.
Quiet ==
    /\ workflow.state = "closed"
    /\ \A k \in Attempts : attempt[k].at \notin AttemptRunning
    /\ ~SessionOpen
ClosedWorkflowLeavesSettled == Quiet => Settled
=============================================================================
