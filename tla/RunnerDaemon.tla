---------------------------- MODULE RunnerDaemon ----------------------------
(***************************************************************************)
(* The work behind one runner job with a connected repository: run_job and *)
(* run_with_heartbeat of the runner's daemon.py, the workspaces of         *)
(* workspace.py, the lease checks behind the source capabilities, and the  *)
(* branch the result is pushed to.                                         *)
(*                                                                         *)
(* run_job runs as a task beside the heartbeats.  When a heartbeat fails,  *)
(* the daemon reports a failure and goes on polling, and nothing cancels   *)
(* the task: it goes on in the same directory as the next job of the same  *)
(* execution.  Calls to the delivery service are one step here;            *)
(* RunnerLease has their interleavings.  Every runner has disks of its     *)
(* own.  A definition named Bug... is a variant of the one it precedes     *)
(* with a mistake in it; no specification uses it.                         *)
(***************************************************************************)
EXTENDS Naturals

CONSTANTS Runners,
          NoRunner,
          MaxRounds,    \* how often the job may be queued
          MaxTasks,     \* how often the job may be leased
          MaxTrunk,     \* how often somebody pushes to the default branch
          MaxFaults     \* how many crashes, failing calls and delays happen

ASSUME DaemonAssumption ==
    /\ NoRunner \notin Runners
    /\ MaxRounds \in Nat \ {0}
    /\ {MaxTasks, MaxTrunk, MaxFaults} \subseteq Nat

VARIABLES
    job,        \* the runner_jobs row
    round,      \* history: how often the job has been queued
    accepted,   \* history: the commit of the result that was judged and passed
    daemon,     \* what each daemon does
    task,       \* the run_job coroutines, in the order of their leases
    exchange,   \* the task that created the exchange directory on each runner's disk
    ws,         \* the workspace directory on each runner's disk
    trunk,      \* the default branch of the repository, by its length
    branch,     \* the branch of the execution
    validated,  \* history: the contents that have passed validation
    late,       \* history: has a task replaced the directory of a later one?
    faults

daemonVars == <<job, round, accepted, daemon, task, exchange, ws, trunk, branch,
                validated, late, faults>>

Tasks == 1..MaxTasks

\* What a task's agent made of the default branch at a certain length; the
\* default branch itself has by = 0.
Commit == [by : Tasks \cup {0}, base : 0..MaxTrunk]
NoCommit == [by |-> 0, base |-> MaxTrunk + 1]

Failed == NoCommit      \* the result of a job that did not succeed

\* Where run_job is; in Inside it is between its try and its finally.
Inside == {"agent", "validate", "commit", "refresh", "rebase", "revalidate", "mint", "push",
           "head", "cleanup", "remove"}
TaskStep == {"new", "checkout", "provision", "clone", "exchange", "ended"} \cup Inside

Task == [at : TaskStep, on : Runners \cup {NoRunner}, result : Commit \cup {NoCommit},
         base : 0..MaxTrunk, fetched : 0..MaxTrunk, tries : 0..2, mount : Tasks \cup {0}]

\* made is the task whose provision_empty made the directory.
Workspace == [at : {"none", "empty", "clean", "dirty", "committed"},
              made : Tasks \cup {0}, head : Commit]

NoWorkspace == [at |-> "none", made |-> 0, head |-> [by |-> 0, base |-> 0]]

DaemonTypeOK ==
    /\ job \in [status : {"QUEUED", "LEASED", "COMPLETED"}, leased_by : Runners \cup {NoRunner},
                fresh : BOOLEAN, result : Commit \cup {NoCommit}]
    /\ round \in 1..MaxRounds
    /\ accepted \in Commit \cup {NoCommit}
    /\ daemon \in [Runners -> [at : {"idle", "working", "reporting"},
                               task : Tasks \cup {0}, result : Commit \cup {NoCommit}]]
    /\ task \in [Tasks -> Task]
    /\ exchange \in [Runners -> Tasks \cup {0}]
    /\ ws \in [Runners -> Workspace]
    /\ trunk \in 0..MaxTrunk
    /\ branch \in Commit \cup {NoCommit}
    /\ validated \in SUBSET Commit
    /\ late \in BOOLEAN
    /\ faults \in 0..MaxFaults

Idle == [at |-> "idle", task |-> 0, result |-> Failed]

DaemonInit ==
    /\ job = [status |-> "QUEUED", leased_by |-> NoRunner, fresh |-> FALSE, result |-> Failed]
    /\ round = 1
    /\ accepted = NoCommit
    /\ daemon = [r \in Runners |-> Idle]
    /\ task = [t \in Tasks |-> [at |-> "new", on |-> NoRunner, result |-> Failed, base |-> 0,
                                fetched |-> 0, tries |-> 0, mount |-> 0]]
    /\ exchange = [r \in Runners |-> 0]
    /\ ws = [r \in Runners |-> NoWorkspace]
    /\ trunk = 0
    /\ branch = NoCommit
    /\ validated = {}
    /\ late = FALSE
    /\ faults = 0

-----------------------------------------------------------------------------
(* The lease *)

Leasable == job.status = "QUEUED" \/ (job.status = "LEASED" /\ ~job.fresh)

HoldsLease(r) == job.leased_by = r /\ job.status = "LEASED"

Fault == faults < MaxFaults /\ faults' = faults + 1

\* An earlier task of this runner may be at any step, before the directory is
\* made included: a failing heartbeat is reported at once, and the job is queued
\* and leased again while the task waits for the answers to its first calls.
LeaseJob(r) ==
    /\ daemon[r].at = "idle"
    /\ Leasable
    /\ \E t \in Tasks :
         /\ \A u \in Tasks : task[u].at = "new" <=> u >= t
         /\ task' = [task EXCEPT ![t].at = "checkout", ![t].on = r]
         /\ daemon' = [daemon EXCEPT ![r] = [at |-> "working", task |-> t, result |-> Failed]]
    /\ job' = [job EXCEPT !.status = "LEASED", !.leased_by = r, !.fresh = TRUE]
    /\ UNCHANGED <<round, accepted, exchange, ws, trunk, branch, validated, late, faults>>

Heartbeat(r) ==
    /\ daemon[r].at = "working"
    /\ HoldsLease(r)
    /\ ~job.fresh
    /\ job' = [job EXCEPT !.fresh = TRUE]
    /\ UNCHANGED <<round, accepted, daemon, task, exchange, ws, trunk, branch, validated,
                   late, faults>>

\* 409, or the call fails: the daemon stops waiting for the task and reports
\* that the job failed.
HeartbeatFails(r) ==
    /\ daemon[r].at = "working"
    /\ task[daemon[r].task].at # "ended"
    /\ IF HoldsLease(r) THEN Fault ELSE UNCHANGED faults
    /\ daemon' = [daemon EXCEPT ![r].at = "reporting", ![r].result = Failed]
    /\ UNCHANGED <<job, round, accepted, task, exchange, ws, trunk, branch, validated, late>>

TaskIsDone(r) ==
    /\ daemon[r].at = "working"
    /\ task[daemon[r].task].at = "ended"
    /\ daemon' = [daemon EXCEPT ![r].at = "reporting",
                                ![r].result = task[daemon[r].task].result]
    /\ UNCHANGED <<job, round, accepted, task, exchange, ws, trunk, branch,
                   validated, late, faults>>

\* Without the lease the answer is 409, which changes nothing; or the call is lost.
CompleteJob(r) ==
    /\ daemon[r].at = "reporting"
    /\ daemon' = [daemon EXCEPT ![r] = Idle]
    /\ \/ /\ HoldsLease(r)
          /\ job' = [job EXCEPT !.status = "COMPLETED", !.result = daemon[r].result]
          /\ UNCHANGED faults
       \/ /\ UNCHANGED job
          /\ IF HoldsLease(r) THEN Fault ELSE UNCHANGED faults
    /\ UNCHANGED <<round, accepted, task, exchange, ws, trunk, branch, validated, late>>

\* 45 s pass with no heartbeat: nobody sends any, or (a fault) they are held up.
LeaseGoesStale ==
    /\ job.status = "LEASED"
    /\ job.fresh
    /\ IF daemon[job.leased_by].at = "idle" THEN UNCHANGED faults ELSE Fault
    /\ job' = [job EXCEPT !.fresh = FALSE]
    /\ UNCHANGED <<round, accepted, daemon, task, exchange, ws, trunk, branch, validated, late>>

\* The process dies with all its tasks; the directories remain.
DaemonCrashes(r) ==
    /\ Fault
    /\ daemon' = [daemon EXCEPT ![r] = Idle]
    /\ task' = [t \in Tasks |->
         IF task[t].on = r THEN [task[t] EXCEPT !.at = "ended", !.result = Failed] ELSE task[t]]
    /\ UNCHANGED <<job, round, accepted, exchange, ws, trunk, branch, validated, late>>

\* execute-delivery accepts a result that passed, and requeues the job otherwise.
Judge ==
    /\ job.status = "COMPLETED"
    /\ accepted = NoCommit
    /\ IF job.result = Failed
       THEN /\ round < MaxRounds
            /\ round' = round + 1
            /\ job' = [status |-> "QUEUED", leased_by |-> NoRunner, fresh |-> FALSE,
                       result |-> Failed]
            /\ UNCHANGED accepted
       ELSE /\ accepted' = job.result
            /\ UNCHANGED <<round, job>>
    /\ UNCHANGED <<daemon, task, exchange, ws, trunk, branch, validated, late, faults>>

-----------------------------------------------------------------------------
(* run_job *)

Raises(t) ==
    task' = [task EXCEPT ![t].at = IF @ \in Inside THEN "cleanup" ELSE "ended",
                         ![t].result = Failed]

Goes(t, step) == task' = [task EXCEPT ![t].at = step]

\* source_capability answers 409 unless the runner holds the lease, and extends
\* it; the integrations service may refuse the capability.
MintsSource(t, Then) ==
    \/ /\ HoldsLease(task[t].on)
       /\ job' = [job EXCEPT !.fresh = TRUE]
       /\ Then
    \/ /\ Raises(t)
       /\ UNCHANGED job

Checkout(t) ==
    /\ task[t].at = "checkout"
    /\ MintsSource(t, Goes(t, "provision"))
    /\ UNCHANGED <<round, accepted, daemon, exchange, ws, trunk, branch,
                   validated, late, faults>>

\* Whatever is in the way is removed first.
ProvisionEmpty(t) ==
    /\ task[t].at = "provision"
    /\ ws' = [ws EXCEPT ![task[t].on] =
         [at |-> "empty", made |-> t, head |-> [by |-> 0, base |-> 0]]]
    /\ late' = (late \/ \E u \in Tasks : u > t /\ task[u].on = task[t].on)
    /\ Goes(t, "clone")
    /\ UNCHANGED <<job, round, accepted, daemon, exchange, trunk, branch, validated, faults>>

\* git loses the race if its directory is replaced, and removes what is there
\* by then, or some of it, as it fails.
CloneRepository(t) ==
    LET r == task[t].on
    IN  /\ task[t].at = "clone"
        /\ \/ /\ ws[r].made = t
              /\ ws' = [ws EXCEPT ![r].at = "clean", ![r].head = [by |-> 0, base |-> trunk]]
              /\ task' = [task EXCEPT ![t].at = "exchange", ![t].base = trunk]
           \/ /\ ws' \in {ws, [ws EXCEPT ![r] = NoWorkspace]}
              /\ Raises(t)
        /\ UNCHANGED <<job, round, accepted, daemon, exchange, trunk, branch,
                       validated, late, faults>>

BugMakeExchangeShared(t) ==
    /\ task[t].at = "exchange"
    /\ exchange' = [exchange EXCEPT ![task[t].on] = t]
    /\ task' = [task EXCEPT ![t].at = "agent", ![t].mount = ws[task[t].on].made]
    /\ UNCHANGED <<job, round, accepted, daemon, ws, trunk, branch, validated, late, faults>>
\* mkdir with exist_ok=False, before the try: no cleanup if it raises.  The
\* container that is started next gets the workspace of this moment.
MakeExchange(t) ==
    /\ task[t].at = "exchange"
    /\ IF exchange[task[t].on] = 0
       THEN /\ exchange' = [exchange EXCEPT ![task[t].on] = t]
            /\ task' = [task EXCEPT ![t].at = "agent", ![t].mount = ws[task[t].on].made]
       ELSE /\ Raises(t)
            /\ UNCHANGED exchange
    /\ UNCHANGED <<job, round, accepted, daemon, ws, trunk, branch, validated, late, faults>>

\* model_capability extends the lease too.
ResolveSecret(t) ==
    /\ task[t].at = "agent"
    /\ HoldsLease(task[t].on)
    /\ job' = [job EXCEPT !.fresh = TRUE]
    /\ UNCHANGED <<round, accepted, daemon, task, exchange, ws, trunk, branch, validated,
                   late, faults>>

\* The agent may change nothing, or fail; it changes the directory it was
\* given, which may have been removed.
AgentEnds(t) ==
    LET r == task[t].on
    IN  /\ task[t].at = "agent"
        /\ \/ /\ ws' = IF ws[r].at = "clean" /\ ws[r].made = task[t].mount
                       THEN [ws EXCEPT ![r].at = "dirty", ![r].head.by = t]
                       ELSE ws
              /\ Goes(t, "validate")
           \/ /\ UNCHANGED ws
              /\ \/ Goes(t, "validate")
                 \/ Goes(t, "cleanup")
        /\ UNCHANGED <<job, round, accepted, daemon, exchange, trunk, branch,
                       validated, late, faults>>

HasContent(r) == ws[r].at \in {"clean", "dirty", "committed"}

\* The commands see the directory as it is when their container starts.
Validates(t, Passed) ==
    \/ /\ validated' = IF HasContent(task[t].on) THEN validated \cup {ws[task[t].on].head}
                       ELSE validated
       /\ Passed
    \/ /\ Raises(t)
       /\ UNCHANGED validated

Validate(t) ==
    /\ task[t].at = "validate"
    /\ Validates(t, Goes(t, "commit"))
    /\ UNCHANGED <<job, round, accepted, daemon, exchange, ws, trunk, branch, late, faults>>

\* git commit fails if there is nothing to commit, and the job if a workflow
\* file of the repository was changed.
CommitWork(t) ==
    LET r == task[t].on
    IN  /\ task[t].at = "commit"
        /\ \/ /\ ws[r].at = "dirty"
              /\ ws' = [ws EXCEPT ![r].at = "committed"]
              /\ Goes(t, "refresh")
           \/ /\ UNCHANGED ws
              /\ Raises(t)
        /\ UNCHANGED <<job, round, accepted, daemon, exchange, trunk, branch,
                       validated, late, faults>>

\* At most twice: the fetched branch is compared with the base of the work.
Refresh(t) ==
    /\ task[t].at = "refresh"
    /\ MintsSource(t,
         IF ~HasContent(task[t].on) THEN Raises(t)
         ELSE task' = [task EXCEPT ![t].at = IF trunk = task[t].base THEN "mint" ELSE "rebase",
                                   ![t].fetched = trunk])
    /\ UNCHANGED <<round, accepted, daemon, exchange, ws, trunk, branch,
                   validated, late, faults>>

\* A conflict ends the job.
Rebase(t) ==
    LET r == task[t].on
    IN  /\ task[t].at = "rebase"
        /\ \/ /\ HasContent(r)
              /\ ws' = [ws EXCEPT ![r].head.base = task[t].fetched]
              /\ Goes(t, "revalidate")
           \/ /\ UNCHANGED ws
              /\ Raises(t)
        /\ UNCHANGED <<job, round, accepted, daemon, exchange, trunk, branch,
                       validated, late, faults>>

AfterRebase(t) ==
    task' = [task EXCEPT ![t].at = IF task[t].tries = 0 THEN "refresh" ELSE "mint",
                         ![t].base = task[t].fetched,
                         ![t].tries = @ + 1]

Revalidate(t) ==
    /\ task[t].at = "revalidate"
    /\ Validates(t, AfterRebase(t))
    /\ UNCHANGED <<job, round, accepted, daemon, exchange, ws, trunk, branch, late, faults>>

MintPublish(t) ==
    /\ task[t].at = "mint"
    /\ MintsSource(t, Goes(t, "push"))
    /\ UNCHANGED <<round, accepted, daemon, exchange, ws, trunk, branch,
                   validated, late, faults>>

\* Is b the commit a, or one that descends from it?
Descends(b, a) == a = b \/ (a.by = 0 /\ a.base <= b.base)

\* Without --force the branch must not lose a commit.  The call may fail, also
\* after the repository has taken the commit.
Push(t) ==
    LET head == ws[task[t].on].head
        Taken == HasContent(task[t].on) /\ (branch = NoCommit \/ Descends(head, branch))
    IN  /\ task[t].at = "push"
        /\ branch' \in IF Taken THEN {branch, head} ELSE {branch}
        /\ \/ /\ Taken
              /\ branch' = head
              /\ Goes(t, "head")
           \/ Raises(t)
        /\ UNCHANGED <<job, round, accepted, daemon, exchange, ws, trunk,
                       validated, late, faults>>

\* rev-parse HEAD, after the push.
ReadHead(t) ==
    /\ task[t].at = "head"
    /\ IF HasContent(task[t].on)
       THEN task' = [task EXCEPT ![t].at = "cleanup", ![t].result = ws[task[t].on].head]
       ELSE Raises(t)
    /\ UNCHANGED <<job, round, accepted, daemon, exchange, ws, trunk, branch,
                   validated, late, faults>>

\* The finally: the workspace first, whoever made it, then the exchange.
Cleanup(t) ==
    /\ task[t].at = "cleanup"
    /\ ws' = [ws EXCEPT ![task[t].on] = NoWorkspace]
    /\ Goes(t, "remove")
    /\ UNCHANGED <<job, round, accepted, daemon, exchange, trunk, branch,
                   validated, late, faults>>

RemoveExchange(t) ==
    /\ task[t].at = "remove"
    /\ exchange' = [exchange EXCEPT ![task[t].on] = 0]
    /\ Goes(t, "ended")
    /\ UNCHANGED <<job, round, accepted, daemon, ws, trunk, branch, validated, late, faults>>

-----------------------------------------------------------------------------
\* Other work is merged.
TrunkMoves ==
    /\ trunk < MaxTrunk
    /\ trunk' = trunk + 1
    /\ UNCHANGED <<job, round, accepted, daemon, task, exchange, ws, branch,
                   validated, late, faults>>

RunJob(t) ==
    \/ Checkout(t) \/ ProvisionEmpty(t) \/ CloneRepository(t) \/ MakeExchange(t)
    \/ ResolveSecret(t) \/ AgentEnds(t) \/ Validate(t) \/ CommitWork(t)
    \/ Refresh(t) \/ Rebase(t) \/ Revalidate(t) \/ MintPublish(t) \/ Push(t) \/ ReadHead(t)
    \/ Cleanup(t) \/ RemoveExchange(t)

Daemon(r) ==
    \/ LeaseJob(r) \/ Heartbeat(r) \/ HeartbeatFails(r) \/ TaskIsDone(r) \/ CompleteJob(r)
    \/ DaemonCrashes(r)

DaemonNext ==
    \/ \E r \in Runners : Daemon(r)
    \/ \E t \in Tasks : RunJob(t)
    \/ LeaseGoesStale \/ Judge \/ TrunkMoves

DaemonSpec == DaemonInit /\ [][DaemonNext]_daemonVars

-----------------------------------------------------------------------------
(* Properties *)

\* The commit of an accepted result is the one on the execution's branch, and
\* stays there: tasks that outlive their lease, on this runner or another one,
\* push before it, which keeps the result from being accepted, or not at all.
\* And it has been validated just as it was pushed, on the base that it was
\* rebased to.  The pull request that delivery opens next shows the work that
\* was judged.  Only if an earlier task of the runner has replaced the directory
\* of a later one can the accepted commit be one without any work.
AcceptedIsPublished ==
    accepted # NoCommit =>
        \/ accepted.by # 0 /\ branch = accepted /\ accepted \in validated
        \/ accepted.by = 0 /\ late
=============================================================================
