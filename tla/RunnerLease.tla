---------------------------- MODULE RunnerLease ----------------------------
(***************************************************************************)
(* The lease of one runner job: the runners that poll for it, extend it    *)
(* and complete it (docker_runner daemon.py and control_client.py), the    *)
(* delivery endpoints that serve them and the queries on the runner_jobs   *)
(* row behind these, and the workflow activity that requeues the job.      *)
(*                                                                         *)
(* lease_runner_job locks the row.  heartbeat_runner_job and               *)
(* complete_runner_job read it without a lock, check the lease and write   *)
(* only their own columns when the request commits, so their calls take    *)
(* two steps.  A call carries the runner and the job, and nothing that     *)
(* tells one lease of the runner from the next: a call that its caller has *)
(* given up, or whose lease has changed hands, still takes effect, and the *)
(* history variable late says in which rounds a complete did.              *)
(* A definition named Bug... is a variant of the one it precedes with a    *)
(* mistake in it; no specification uses it.                                *)
(***************************************************************************)
EXTENDS Naturals, FiniteSets

CONSTANTS Runners,
          NoRunner,
          MaxRounds,    \* how often the job may be queued
          MaxFaults     \* how many crashes, timeouts and delays happen

ASSUME LeaseAssumption ==
    /\ NoRunner \notin Runners
    /\ MaxRounds \in Nat \ {0}
    /\ MaxFaults \in Nat

VARIABLES
    job,      \* the row: status, leased_by_runner_id, result, and whether
              \* leased_at is less than 45 s old
    round,    \* history: how often the job has been queued
    runner,   \* what each daemon does, and the round its work belongs to
    calls,    \* the heartbeat and complete calls under way
    judge,    \* the session of the activity that judges the result
    faults,   \* crashes, timeouts and delays so far
    late      \* history: the rounds in which an overtaken complete committed

vars == <<job, round, runner, calls, judge, faults, late>>

Rounds == 1..MaxRounds

Call == [kind : {"heartbeat", "complete"}, from : Runners, round : Rounds \cup {0},
         at : {"sent", "checked"},
         given_up : 0..MaxFaults]   \* by which fault, 0 while its caller waits

Awaited(c) == c.given_up = 0

TypeOK ==
    /\ job \in [status : {"QUEUED", "LEASED", "COMPLETED"},
                leased_by : Runners \cup {NoRunner},
                fresh : BOOLEAN,
                result : Rounds \cup {0}]
    /\ round \in Rounds
    /\ runner \in [Runners -> [at : {"idle", "running", "heartbeating", "failed",
                                     "completing"},
                               round : Rounds \cup {0}]]
    /\ calls \in SUBSET Call
    /\ judge \in {"polling", "judging", "done"}
    /\ faults \in 0..MaxFaults
    /\ late \in SUBSET Rounds

Idle == [at |-> "idle", round |-> 0]

Init ==
    /\ job = [status |-> "QUEUED", leased_by |-> NoRunner, fresh |-> FALSE, result |-> 0]
    /\ round = 1
    /\ runner = [r \in Runners |-> Idle]
    /\ calls = {}
    /\ judge = "polling"
    /\ faults = 0
    /\ late = {}

-----------------------------------------------------------------------------
(* Leasing *)

BugLeasableWhenLeased == job.status \in {"QUEUED", "LEASED"}
BugLeasableQueuedOnly == job.status = "QUEUED"
\* A queued job, or one whose lease is older than 45 s, whoever held it.
Leasable == job.status = "QUEUED" \/ (job.status = "LEASED" /\ ~job.fresh)

\* FOR UPDATE SKIP LOCKED makes the step atomic.
LeaseCommits(r) ==
    /\ runner[r].at = "idle"
    /\ Leasable
    /\ job' = [job EXCEPT !.status = "LEASED", !.leased_by = r, !.fresh = TRUE]
    /\ UNCHANGED <<round, calls, judge, late>>

LeaseJob(r) ==
    /\ LeaseCommits(r)
    /\ runner' = [runner EXCEPT ![r] = [at |-> "running", round |-> round]]
    /\ UNCHANGED faults

\* The daemon times out or dies before it has the answer.
LeaseAnswerIsLost(r) ==
    /\ LeaseCommits(r)
    /\ faults < MaxFaults
    /\ faults' = faults + 1
    /\ UNCHANGED runner

\* 45 s have passed since leased_at: nobody works for the lease or, a fault, its
\* runner's heartbeats, which come every 10 s, are held up that long.
LeaseGoesStale ==
    /\ job.status = "LEASED"
    /\ job.fresh
    /\ job' = [job EXCEPT !.fresh = FALSE]
    /\ \/ runner[job.leased_by].at = "idle" /\ UNCHANGED faults
       \/ faults < MaxFaults /\ faults' = faults + 1
    /\ UNCHANGED <<round, runner, calls, judge, late>>

-----------------------------------------------------------------------------
(* The daemon *)

\* Every 10 s while the work goes on, and before each source capability.
SendHeartbeat(r) ==
    /\ runner[r].at = "running"
    /\ runner' = [runner EXCEPT ![r].at = "heartbeating"]
    /\ calls' = calls \cup {[kind |-> "heartbeat", from |-> r,
                             round |-> runner[r].round, at |-> "sent", given_up |-> 0]}
    /\ UNCHANGED <<job, round, judge, faults, late>>

\* The work is done or has failed: the one call that reports it.
SendComplete(r) ==
    /\ runner[r].at \in {"running", "failed"}
    /\ runner' = [runner EXCEPT ![r].at = "completing"]
    /\ calls' = calls \cup {[kind |-> "complete", from |-> r,
                             round |-> runner[r].round, at |-> "sent", given_up |-> 0]}
    /\ UNCHANGED <<job, round, judge, faults, late>>

\* Where the daemon goes on when its call is over: after a heartbeat that was
\* accepted with the work, after another with reporting a failure, after
\* complete with polling, whatever the answer.
Resumes(r, accepted) ==
    runner' = [runner EXCEPT ![r] =
        IF @.at = "completing" THEN Idle
        ELSE [@ EXCEPT !.at = IF accepted THEN "running" ELSE "failed"]]

\* The caller of the calls C no longer waits for an answer; the server is still
\* at them.
GivenUp(C) == (calls \ C) \cup {[c EXCEPT !.given_up = faults'] : c \in C}

\* The client's timeout: 10 s for a heartbeat, 35 s for complete.
CallTimesOut(c) ==
    /\ c \in calls
    /\ Awaited(c)
    /\ faults < MaxFaults
    /\ faults' = faults + 1
    /\ Resumes(c.from, FALSE)
    /\ calls' = GivenUp({c})
    /\ UNCHANGED <<job, round, judge, late>>

\* The daemon dies and starts again: its work is gone, its calls are not.
RunnerCrashes(r) ==
    /\ runner[r].at # "idle"
    /\ faults < MaxFaults
    /\ faults' = faults + 1
    /\ runner' = [runner EXCEPT ![r] = Idle]
    /\ calls' = GivenUp({c \in calls : c.from = r /\ Awaited(c)})
    /\ UNCHANGED <<job, round, judge, late>>

-----------------------------------------------------------------------------
(* The endpoints *)

BugHoldsLeaseOfAnyone(r) == job.status = "LEASED"
\* Both endpoints answer 409 unless the caller holds the lease.
HoldsLease(r) == job.leased_by = r /\ job.status = "LEASED"

Answered(c, accepted) == IF Awaited(c) THEN Resumes(c.from, accepted) ELSE UNCHANGED runner

CheckCall(c) ==
    /\ c \in calls
    /\ c.at = "sent"
    /\ IF HoldsLease(c.from)
       THEN /\ calls' = (calls \ {c}) \cup {[c EXCEPT !.at = "checked"]}
            /\ UNCHANGED runner
       ELSE /\ calls' = calls \ {c}
            /\ Answered(c, FALSE)
    /\ UNCHANGED <<job, round, judge, faults, late>>

\* The caller has given the call up, or the lease it was checked against is gone.
Overtaken(c) == ~Awaited(c) \/ ~HoldsLease(c.from)

\* The flush writes leased_at, or result, status and completed_at; it checks
\* nothing again.
CommitCall(c) ==
    /\ c \in calls
    /\ c.at = "checked"
    /\ job' = IF c.kind = "heartbeat"
              THEN [job EXCEPT !.fresh = TRUE]
              ELSE [job EXCEPT !.status = "COMPLETED", !.result = c.round]
    /\ calls' = calls \ {c}
    /\ Answered(c, TRUE)
    /\ late' = IF c.kind = "complete" /\ Overtaken(c) THEN late \cup {round} ELSE late
    /\ UNCHANGED <<round, judge, faults>>

-----------------------------------------------------------------------------
(* The activity *)

Poll ==
    /\ judge = "polling"
    /\ job.status = "COMPLETED"
    /\ judge' = "judging"
    /\ UNCHANGED <<job, round, runner, calls, faults, late>>

BugJudgeKeepsLease ==
    /\ judge = "judging"
    /\ round < MaxRounds
    /\ judge' = "polling"
    /\ round' = round + 1
    /\ job' = [job EXCEPT !.status = "LEASED", !.result = 0]
    /\ UNCHANGED <<runner, calls, faults, late>>
\* A repair puts the job back into the queue and clears result and lease; a
\* result that passed ends the matter.
Judge ==
    /\ judge = "judging"
    /\ \/ /\ round < MaxRounds
          /\ judge' = "polling"
          /\ round' = round + 1
          /\ job' = [status |-> "QUEUED", leased_by |-> NoRunner, fresh |-> FALSE,
                     result |-> 0]
       \/ /\ judge' = "done"
          /\ UNCHANGED <<job, round>>
    /\ UNCHANGED <<runner, calls, faults, late>>

-----------------------------------------------------------------------------
Runner(r) == LeaseJob(r) \/ SendHeartbeat(r) \/ SendComplete(r)

Server == \E c \in calls : CheckCall(c) \/ CommitCall(c)

Activity == Poll \/ Judge

Fault ==
    \/ \E c \in calls : CallTimesOut(c)
    \/ \E r \in Runners : LeaseAnswerIsLost(r) \/ RunnerCrashes(r)

Next ==
    \/ \E r \in Runners : Runner(r)
    \/ LeaseGoesStale \/ Server \/ Activity \/ Fault

Spec == Init /\ [][Next]_vars

\* A daemon polls for ever and finishes its work in the end, calls are served,
\* time passes and the activity polls and judges; there are finitely many
\* faults.
Fairness ==
    /\ \A r \in Runners : WF_vars(LeaseJob(r)) /\ SF_vars(SendComplete(r))
    /\ WF_vars(LeaseGoesStale)
    /\ WF_vars(Server)
    /\ WF_vars(Activity)

FairSpec == Spec /\ Fairness

-----------------------------------------------------------------------------
(* Properties *)

\* The result a workflow activity reads and judges is that of the work done
\* since the job was last queued, whichever leases were lost, taken over or never
\* learnt of.  Only a complete that was overtaken in this very round can leave
\* another one: the lease check at each call and the requeue that clears the
\* lease keep everything else of earlier rounds out.
ResultOfThisRound == job.status = "COMPLETED" /\ round \notin late => job.result = round

\* Duplicate leases begin with a fault: as long as nobody crashed, gave a call up
\* or was kept from its heartbeats for 45 s, no runner's report is overtaken,
\* although checks and commits interleave with the leases of other runners.
OvertakenAfterFault == faults = 0 => late = {}

\* The lease protocol implements the job that the delivery workflow relies on:
\* leases that change hands, heartbeats, late answers and restarted runners are
\* invisible to it, but for the completes they overtake, and in the other rounds
\* a result stands until the requeue.
Promised == INSTANCE RunnerJob WITH status <- job.status, result <- job.result
ImplementsRunnerJob == Promised!Spec

\* A queued job is completed in the end, whichever runners die or lose their
\* calls on the way: its lease goes stale and another poll takes it.
QueuedIsCompleted == (job.status = "QUEUED") ~> (job.status = "COMPLETED")
=============================================================================
