------------------------- MODULE RunnerDaemon_proofs -------------------------
(***************************************************************************)
(* Theorems about what the runner's daemon does.  RunnerDaemon: the commit *)
(* that is accepted in the end, for any number of runners, rounds, tasks   *)
(* and faults.  AgentRuntimes and ProviderVerification: what delivery      *)
(* accepts, for every configuration there is, and what becomes of a        *)
(* verification, for any runners, keys and bounds.                         *)
(***************************************************************************)
EXTENDS RunnerDaemon, ProviderVerification, TLAPS

-----------------------------------------------------------------------------
(* The daemon: what an accepted result rests on *)

\* c is the commit on the branch for good, and was validated as it is; or it carries no
\* work, because the directory of a task was replaced.
Published(c) == IF c.by # 0 THEN branch = c /\ c \in validated ELSE late

\* c will be so after the step.
Remains(c) == IF c.by # 0 THEN branch' = c /\ c \in validated' ELSE late'

Results ==
    /\ \A r \in Runners : daemon[r].result # Failed => Published(daemon[r].result)
    /\ job.result # Failed => Published(job.result)
    /\ accepted # NoCommit => Published(accepted)

\* A leased task knows its runner, and a daemon that works knows its task.
Assigned ==
    /\ \A t \in Tasks : IF task[t].at = "new"
                       THEN task[t].on = NoRunner /\ task[t].result = Failed
                       ELSE task[t].on \in Runners
    /\ \A r \in Runners :
         daemon[r].at = "working"
           => daemon[r].task \in Tasks /\ task[daemon[r].task].on = r

\* After two rebases a task does not rebase again.
TriedTwice ==
    \A t \in Tasks :
        task[t].tries = 2 => task[t].at \in {"mint", "push", "head", "cleanup", "remove", "ended"}

\* The exchange directory keeps all but one task of a runner out of the work.
OneInside ==
    /\ \A t \in Tasks : task[t].at \in Inside => exchange[task[t].on] = t
    /\ \A r \in Runners : exchange[r] # 0 => task[exchange[r]].on = r

\* What has been changed in a workspace is the work of the task with the exchange directory,
\* which takes it along when it leaves.
WorkHasAnAuthor ==
    \A r \in Runners :
        /\ ws[r].at \in {"dirty", "committed"}
             => /\ exchange[r] # 0
                /\ ws[r].head.by = exchange[r]
                /\ task[exchange[r]].at # "remove"
        /\ ws[r].at \in {"none", "empty", "clean"} => ws[r].head.by = 0
        /\ ws[r].made = 0 => ws[r] = NoWorkspace

AtWork == {"clone", "exchange", "agent", "validate", "commit", "refresh", "rebase",
           "revalidate", "mint", "push", "head"}
Committed == {"refresh", "rebase", "revalidate", "mint", "push", "head"}
Validated == {"commit", "refresh", "rebase", "mint", "push", "head"}

\* The task that the daemon of r waits for is the latest of r.  It has the workspace to
\* itself, unless an earlier one is late, and its result is what it has validated and pushed.
\* A task that nobody waits for may do anything.
Awaited(r) ==
    LET t == daemon[r].task IN
    /\ \A u \in Tasks : task[u].on = r => u =< t
    /\ task[t].at \in AtWork /\ ~late => ws[r].made \in {t, 0}
    /\ task[t].at \in Committed /\ ~late => ws[r].at \in {"none", "committed"}
    /\ task[t].at \in Validated /\ HasContent(r) /\ ws[r].head.by # 0
         => ws[r].head \in validated
    /\ task[t].at = "head" /\ HasContent(r) => Published(ws[r].head)
    /\ task[t].result # Failed => Published(task[t].result)

DaemonInv ==
    /\ DaemonTypeOK /\ Results /\ Assigned /\ TriedTwice /\ OneInside /\ WorkHasAnAuthor
    /\ \A r \in Runners : daemon[r].at = "working" => Awaited(r)

-----------------------------------------------------------------------------
\* Commits, workspaces and idle daemons have their types.
LEMMA DaemonRecords ==
    /\ NoCommit \notin Commit /\ NoCommit.by = 0
    /\ NoWorkspace \in Workspace
    /\ 0 \notin Tasks
    /\ 0 \in 0..MaxTrunk
BY DaemonAssumption DEF NoCommit, Commit, NoWorkspace, Workspace, Tasks

\* The initial state has its type.
LEMMA DaemonInitTypeOK == DaemonInit => DaemonTypeOK
<1>1. DaemonInit => late \in BOOLEAN
  BY DEF DaemonInit
<1> QED
  BY <1>1, DaemonRecords, DaemonAssumption
     DEF DaemonInit, DaemonTypeOK, Idle, Failed, Task, TaskStep

\* A task is still one when one of its fields gets a value of the field's type.
LEMMA TaskFields ==
    ASSUME NEW u \in Task
    PROVE  /\ \A x \in TaskStep : [u EXCEPT !.at = x] \in Task
           /\ \A x \in Runners \cup {NoRunner} : [u EXCEPT !.on = x] \in Task
           /\ \A x \in Commit \cup {NoCommit} : [u EXCEPT !.result = x] \in Task
           /\ \A x \in 0..MaxTrunk : /\ [u EXCEPT !.base = x] \in Task
                                      /\ [u EXCEPT !.fetched = x] \in Task
           /\ \A x \in 0..2 : [u EXCEPT !.tries = x] \in Task
           /\ \A x \in Tasks \cup {0} : [u EXCEPT !.mount = x] \in Task
           /\ u.at \in TaskStep /\ u.result \in Commit \cup {NoCommit}
           /\ u.fetched \in 0..MaxTrunk
BY DEF Task

\* What a daemon may be doing.
Daemons == [at : {"idle", "working", "reporting"}, task : Tasks \cup {0},
            result : Commit \cup {NoCommit}]

\* The same for a daemon.
LEMMA DaemonFields ==
    ASSUME NEW d \in Daemons
    PROVE  /\ \A x \in {"idle", "working", "reporting"} : [d EXCEPT !.at = x] \in Daemons
           /\ \A x \in Commit \cup {NoCommit} : [d EXCEPT !.result = x] \in Daemons
           /\ d.result \in Commit \cup {NoCommit}
           /\ Idle \in Daemons
BY DEF Daemons, Idle, Failed

\* A step that changes the lease, the daemons or the default branch keeps the types.
LEMMA LeaseKeepsTypes ==
    ASSUME DaemonTypeOK, Assigned,
           \/ \E r \in Runners : Daemon(r)
           \/ LeaseGoesStale \/ Judge \/ TrunkMoves
    PROVE  DaemonTypeOK'
<1>1. ASSUME Fault PROVE faults' \in 0..MaxFaults
  BY <1>1, DaemonAssumption DEF Fault, DaemonTypeOK
<1>2. daemon \in [Runners -> Daemons] /\ task \in [Tasks -> Task]
  BY DEF DaemonTypeOK, Daemons
<1>3. ASSUME daemon' \in [Runners -> Daemons], task' \in [Tasks -> Task],
             faults' \in 0..MaxFaults,
             job' \in [status : {"QUEUED", "LEASED", "COMPLETED"},
                      leased_by : Runners \cup {NoRunner},
                      fresh : BOOLEAN, result : Commit \cup {NoCommit}],
             UNCHANGED <<round, accepted, exchange, ws, trunk, branch, validated, late>>
      PROVE  DaemonTypeOK'
  BY <1>3 DEF DaemonTypeOK, Daemons
<1>4. ASSUME NEW r \in Runners, LeaseJob(r) PROVE DaemonTypeOK'
  <2>1. PICK t \in Tasks :
          /\ task' = [task EXCEPT ![t].at = "checkout", ![t].on = r]
          /\ daemon' = [daemon EXCEPT ![r] = [at |-> "working", task |-> t, result |-> Failed]]
    BY <1>4 DEF LeaseJob
  <2>2. [[task[t] EXCEPT !.at = "checkout"] EXCEPT !.on = r] \in Task
    BY <1>2, TaskFields DEF TaskStep
  <2>3. task' \in [Tasks -> Task]
    BY <1>2, <2>1, <2>2
  <2>4. [at |-> "working", task |-> t, result |-> Failed] \in Daemons
    BY DEF Daemons, Failed
  <2>5. daemon' \in [Runners -> Daemons]
    BY <1>2, <2>1, <2>4
  <2> QED
    BY <1>3, <1>4, <2>3, <2>5 DEF LeaseJob, DaemonTypeOK
<1>5. ASSUME NEW r \in Runners, Heartbeat(r) PROVE DaemonTypeOK'
  BY <1>5 DEF Heartbeat, DaemonTypeOK
<1>6. ASSUME NEW r \in Runners, NEW c \in Commit \cup {NoCommit},
             daemon' = [daemon EXCEPT ![r].at = "reporting", ![r].result = c]
      PROVE  daemon' \in [Runners -> Daemons]
  <2>1. [[daemon[r] EXCEPT !.at = "reporting"] EXCEPT !.result = c] \in Daemons
    BY <1>2, DaemonFields
  <2> QED
    BY <1>2, <1>6, <2>1
<1>7. ASSUME NEW r \in Runners, HeartbeatFails(r) PROVE DaemonTypeOK'
  <2>1. daemon' \in [Runners -> Daemons]
    BY <1>6, <1>7 DEF HeartbeatFails, Failed
  <2>2. faults' \in 0..MaxFaults
    BY <1>1, <1>7 DEF HeartbeatFails, DaemonTypeOK
  <2> QED
    BY <1>7, <2>1, <2>2 DEF HeartbeatFails, DaemonTypeOK, Daemons
<1>8. ASSUME NEW r \in Runners, TaskIsDone(r) PROVE DaemonTypeOK'
  <2>1. task[daemon[r].task].result \in Commit \cup {NoCommit}
    BY <1>2, <1>8, TaskFields DEF TaskIsDone, Assigned
  <2>2. daemon' \in [Runners -> Daemons]
    BY <1>6, <1>8, <2>1 DEF TaskIsDone
  <2> QED
    BY <1>8, <2>2 DEF TaskIsDone, DaemonTypeOK, Daemons
<1>9. ASSUME NEW r \in Runners, CompleteJob(r) PROVE DaemonTypeOK'
  <2>1. daemon' \in [Runners -> Daemons]
    BY <1>2, <1>9, DaemonFields DEF CompleteJob
  <2>2. faults' \in 0..MaxFaults
    BY <1>1, <1>9 DEF CompleteJob, DaemonTypeOK
  <2>3. daemon[r].result \in Commit \cup {NoCommit}
    BY <1>2, DaemonFields
  <2>4. job' \in [status : {"QUEUED", "LEASED", "COMPLETED"},
                 leased_by : Runners \cup {NoRunner},
                 fresh : BOOLEAN, result : Commit \cup {NoCommit}]
    BY <1>9, <2>3 DEF CompleteJob, DaemonTypeOK
  <2> QED
    BY <1>2, <1>3, <1>9, <2>1, <2>2, <2>4 DEF CompleteJob
<1>10. ASSUME NEW r \in Runners, DaemonCrashes(r) PROVE DaemonTypeOK'
  <2>1. ASSUME NEW t \in Tasks
        PROVE  [[task[t] EXCEPT !.at = "ended"] EXCEPT !.result = Failed] \in Task
    BY <1>2, TaskFields DEF TaskStep, Failed
  <2>2. task' \in [Tasks -> Task]
    BY <1>2, <1>10, <2>1 DEF DaemonCrashes
  <2>3. daemon' \in [Runners -> Daemons]
    BY <1>2, <1>10, DaemonFields DEF DaemonCrashes
  <2> QED
    BY <1>1, <1>3, <1>10, <2>2, <2>3 DEF DaemonCrashes, DaemonTypeOK
<1>11. CASE LeaseGoesStale
  BY <1>1, <1>11 DEF LeaseGoesStale, DaemonTypeOK
<1>12. CASE Judge
  <2>1. round' \in 1..MaxRounds
    BY <1>12, DaemonAssumption DEF Judge, DaemonTypeOK
  <2>2. job' \in [status : {"QUEUED", "LEASED", "COMPLETED"},
                 leased_by : Runners \cup {NoRunner},
                 fresh : BOOLEAN, result : Commit \cup {NoCommit}]
        /\ accepted' \in Commit \cup {NoCommit}
    <3>1. CASE job.result = Failed
      <4>1. /\ job' = [status |-> "QUEUED", leased_by |-> NoRunner, fresh |-> FALSE,
                       result |-> NoCommit]
            /\ accepted' = accepted
        BY <1>12, <3>1 DEF Judge, Failed
      <4> QED
        BY <4>1 DEF DaemonTypeOK
    <3>2. CASE job.result # Failed
      BY <1>12, <3>2 DEF Judge, DaemonTypeOK
    <3> QED
      BY <3>1, <3>2
  <2> QED
    BY <1>12, <2>1, <2>2 DEF Judge, DaemonTypeOK
<1>13. CASE TrunkMoves
  BY <1>13, DaemonAssumption DEF TrunkMoves, DaemonTypeOK
<1> QED
  BY <1>4, <1>5, <1>7, <1>8, <1>9, <1>10, <1>11, <1>12, <1>13 DEF Daemon

\* A task that goes on, or raises, is a task.
LEMMA TaskGoesOn ==
    ASSUME DaemonTypeOK, NEW t \in Tasks, NEW step \in TaskStep
    PROVE  /\ Goes(t, step) => task' \in [Tasks -> Task]
           /\ Raises(t) => task' \in [Tasks -> Task]
<1>1. task \in [Tasks -> Task] /\ task[t] \in Task
  BY DEF DaemonTypeOK
<1>2. [task[t] EXCEPT !.at = step] \in Task
  BY <1>1, TaskFields
<1>3. ASSUME NEW x \in TaskStep
      PROVE  [[task[t] EXCEPT !.at = x] EXCEPT !.result = Failed] \in Task
  BY <1>1, TaskFields DEF Failed
<1>4. (IF task[t].at \in Inside THEN "cleanup" ELSE "ended") \in TaskStep
  BY DEF TaskStep, Inside
<1> QED
  BY <1>1, <1>2, <1>3, <1>4 DEF Goes, Raises

\* A step of run_job keeps the types.
LEMMA RunJobKeepsTypes ==
    ASSUME DaemonTypeOK, TriedTwice, NEW t \in Tasks, task[t].on \in Runners, RunJob(t)
    PROVE  DaemonTypeOK'
<1> DEFINE r == task[t].on
<1> HIDE DEF r
<1>0. r \in Runners /\ r = task[t].on
  BY DEF r
<1>1. \A step \in TaskStep : /\ Goes(t, step) => task' \in [Tasks -> Task]
                             /\ Raises(t) => task' \in [Tasks -> Task]
  BY TaskGoesOn
<1>2. TaskStep = {"new", "checkout", "provision", "clone", "exchange", "ended", "agent",
                  "validate", "commit", "refresh", "rebase", "revalidate", "mint", "push",
                  "head", "cleanup", "remove"}
  BY DEF TaskStep, Inside
<1>3. /\ ws[r] \in Workspace /\ ws[r].head \in Commit /\ ws[r].made \in Tasks \cup {0}
      /\ task[t] \in Task /\ task[t].fetched \in 0..MaxTrunk
  BY <1>0 DEF DaemonTypeOK, Workspace, Task
<1>4. ASSUME NEW w \in Workspace PROVE [ws EXCEPT ![r] = w] \in [Runners -> Workspace]
  BY <1>0, <1>4 DEF DaemonTypeOK
<1> USE DaemonRecords
<1>5. CASE Checkout(t) \/ MintPublish(t)
  BY <1>1, <1>2, <1>5 DEF Checkout, MintPublish, MintsSource, DaemonTypeOK
<1>6. CASE ProvisionEmpty(t)
  <2>1. [at |-> "empty", made |-> t, head |-> [by |-> 0, base |-> 0]] \in Workspace
    BY DEF Workspace, Commit
  <2> QED
    BY <1>0, <1>1, <1>2, <1>4, <1>6, <2>1 DEF ProvisionEmpty, DaemonTypeOK
<1>7. CASE CloneRepository(t)
  <2>1. [ws[r] EXCEPT !.at = "clean", !.head = [by |-> 0, base |-> trunk]] \in Workspace
    BY <1>3 DEF Workspace, Commit, DaemonTypeOK
  <2>2. ws' \in [Runners -> Workspace]
    BY <1>0, <1>4, <1>7, <2>1 DEF CloneRepository, DaemonTypeOK
  <2>3. [[task[t] EXCEPT !.at = "exchange"] EXCEPT !.base = trunk] \in Task
    BY <1>2, <1>3, TaskFields DEF DaemonTypeOK
  <2>4. [task EXCEPT ![t].at = "exchange", ![t].base = trunk] \in [Tasks -> Task]
    BY <2>3 DEF DaemonTypeOK
  <2> QED
    BY <1>1, <1>2, <1>7, <2>2, <2>4 DEF CloneRepository, DaemonTypeOK
<1>8. CASE MakeExchange(t)
  <2>1. [[task[t] EXCEPT !.at = "agent"] EXCEPT !.mount = ws[r].made] \in Task
    BY <1>2, <1>3, TaskFields
  <2>2. task' \in [Tasks -> Task]
    BY <1>0, <1>1, <1>2, <1>8, <2>1 DEF MakeExchange, DaemonTypeOK
  <2>3. exchange' \in [Runners -> Tasks \cup {0}]
    BY <1>0, <1>8 DEF MakeExchange, DaemonTypeOK
  <2> QED
    BY <1>8, <2>2, <2>3 DEF MakeExchange, DaemonTypeOK
<1>9. CASE ResolveSecret(t)
  BY <1>9 DEF ResolveSecret, DaemonTypeOK
<1>10. CASE AgentEnds(t)
  <2>1. [ws EXCEPT ![r].at = "dirty"] \in [Runners -> Workspace]
    BY <1>0, <1>3 DEF Workspace, DaemonTypeOK
  <2>2. ASSUME NEW v \in [Runners -> Workspace]
        PROVE  [v EXCEPT ![r].head.by = t] \in [Runners -> Workspace]
    BY <1>0 DEF Workspace, Commit
  <2>3. ws' = ws \/ ws' = [[ws EXCEPT ![r].at = "dirty"] EXCEPT ![r].head.by = t]
    BY <1>0, <1>10 DEF AgentEnds
  <2>4. ws' \in [Runners -> Workspace]
    <3>1. ws \in [Runners -> Workspace]
      BY DEF DaemonTypeOK
    <3> QED
      BY <2>1, <2>2, <2>3, <3>1
  <2> QED
    BY <1>1, <1>2, <1>10, <2>4 DEF AgentEnds, DaemonTypeOK
<1>11. CASE Validate(t)
  BY <1>0, <1>1, <1>2, <1>3, <1>11 DEF Validate, Validates, DaemonTypeOK
<1>12. CASE CommitWork(t)
  <2>1. [ws[r] EXCEPT !.at = "committed"] \in Workspace
    BY <1>3 DEF Workspace
  <2>2. ws' \in [Runners -> Workspace]
    BY <1>0, <1>4, <1>12, <2>1 DEF CommitWork, DaemonTypeOK
  <2> QED
    BY <1>1, <1>2, <1>12, <2>2 DEF CommitWork, DaemonTypeOK
<1>13. CASE Refresh(t)
  <2>0. \A step \in {"mint", "rebase"} :
          [[task[t] EXCEPT !.at = step] EXCEPT !.fetched = trunk] \in Task
    BY <1>2, <1>3, TaskFields DEF DaemonTypeOK
  <2>1. \A step \in {"mint", "rebase"} :
          [task EXCEPT ![t].at = step, ![t].fetched = trunk] \in [Tasks -> Task]
    BY <2>0 DEF DaemonTypeOK
  <2> QED
    BY <1>1, <1>2, <1>13, <2>1 DEF Refresh, MintsSource, DaemonTypeOK
<1>14. CASE Rebase(t)
  <2>1. [ws[r] EXCEPT !.head.base = task[t].fetched] \in Workspace
    BY <1>3 DEF Workspace, Commit
  <2>2. ws' \in [Runners -> Workspace]
    BY <1>0, <1>4, <1>14, <2>1 DEF Rebase, DaemonTypeOK
  <2> QED
    BY <1>1, <1>2, <1>14, <2>2 DEF Rebase, DaemonTypeOK
<1>15. CASE Revalidate(t)
  <2>1. task[t].tries + 1 \in 0..2
    BY <1>3, <1>15 DEF Revalidate, Task, TriedTwice
  <2>2. \A x \in {"refresh", "mint"} :
          [[[task[t] EXCEPT !.at = x] EXCEPT !.base = task[t].fetched]
                                      EXCEPT !.tries = task[t].tries + 1] \in Task
    BY <1>2, <1>3, <2>1, TaskFields
  <2>3. AfterRebase(t) =>
          \E x \in {"refresh", "mint"} :
            task' = [task EXCEPT ![t] =
                       [[[task[t] EXCEPT !.at = x] EXCEPT !.base = task[t].fetched]
                                                   EXCEPT !.tries = task[t].tries + 1]]
    BY DEF AfterRebase, DaemonTypeOK
  <2>4. AfterRebase(t) => task' \in [Tasks -> Task]
    BY <2>2, <2>3 DEF DaemonTypeOK
  <2> QED
    BY <1>0, <1>1, <1>2, <1>3, <1>15, <2>4 DEF Revalidate, Validates, DaemonTypeOK
<1>16. CASE Push(t)
  <2>1. branch' \in Commit \cup {NoCommit}
    BY <1>0, <1>3, <1>16 DEF Push, DaemonTypeOK
  <2> QED
    BY <1>1, <1>2, <1>16, <2>1 DEF Push, DaemonTypeOK
<1>17. CASE ReadHead(t)
  <2>0. [[task[t] EXCEPT !.at = "cleanup"] EXCEPT !.result = ws[r].head] \in Task
    BY <1>2, <1>3, TaskFields
  <2>1. [task EXCEPT ![t].at = "cleanup", ![t].result = ws[r].head] \in [Tasks -> Task]
    BY <2>0 DEF DaemonTypeOK
  <2> QED
    BY <1>0, <1>1, <1>2, <1>17, <2>1 DEF ReadHead, DaemonTypeOK
<1>18. CASE Cleanup(t)
  BY <1>0, <1>1, <1>2, <1>4, <1>18 DEF Cleanup, DaemonTypeOK
<1>19. CASE RemoveExchange(t)
  BY <1>0, <1>1, <1>2, <1>19 DEF RemoveExchange, DaemonTypeOK
<1> QED
  BY <1>5, <1>6, <1>7, <1>8, <1>9, <1>10, <1>11, <1>12, <1>13, <1>14, <1>15, <1>16, <1>17,
     <1>18, <1>19 DEF RunJob

\* What has been published stays published: only the same commit can be pushed over it.
LEMMA PushedOnce ==
    ASSUME NEW t \in Tasks, Push(t), branch # NoCommit, branch.by # 0
    PROVE  branch' = branch
BY DEF Push, Descends

\* No step but a push changes the branch, and none forgets what was validated.
LEMMA PublishedStays ==
    ASSUME DaemonNext
    PROVE  /\ validated \subseteq validated' /\ (late => late')
           /\ \A c : Published(c) => Remains(c)
<1>1. validated \subseteq validated' /\ (late => late')
      /\ (branch' = branch \/ \E t \in Tasks : Push(t))
  <2>1. ASSUME NEW r \in Runners, Daemon(r) PROVE UNCHANGED <<validated, late, branch>>
    BY <2>1 DEF Daemon, LeaseJob, Heartbeat, HeartbeatFails, TaskIsDone, CompleteJob,
                DaemonCrashes
  <2>2. ASSUME LeaseGoesStale \/ Judge \/ TrunkMoves
        PROVE  UNCHANGED <<validated, late, branch>>
    BY <2>2 DEF LeaseGoesStale, Judge, TrunkMoves
  <2>3. ASSUME NEW t \in Tasks, RunJob(t)
        PROVE  validated \subseteq validated' /\ (late => late') /\ (branch' = branch \/ Push(t))
    <3>1. CASE Push(t)
      BY <3>1 DEF Push
    <3>2. CASE Validate(t) \/ Revalidate(t)
      BY <3>2 DEF Validate, Revalidate, Validates
    <3>3. CASE ProvisionEmpty(t)
      <4>1. UNCHANGED <<validated, branch>>
        BY <3>3 DEF ProvisionEmpty
      <4>2. late => late'
        BY <3>3 DEF ProvisionEmpty
      <4> QED
        BY <4>1, <4>2
    <3>4. CASE ~Push(t) /\ ~Validate(t) /\ ~Revalidate(t) /\ ~ProvisionEmpty(t)
      BY <2>3, <3>4
         DEF RunJob, Checkout, CloneRepository, MakeExchange, ResolveSecret, AgentEnds,
             CommitWork, Refresh, Rebase, MintPublish, ReadHead, Cleanup, RemoveExchange
    <3> QED
      BY <3>1, <3>2, <3>3, <3>4
  <2> QED
    BY <2>1, <2>2, <2>3 DEF DaemonNext
<1>2. ASSUME NEW c, Published(c) PROVE Remains(c)
  <2>1. CASE c.by # 0
    <3>1. branch # NoCommit /\ branch.by # 0 /\ c \in validated /\ branch = c
      BY <1>2, <2>1, DaemonRecords DEF Published, Remains
    <3>2. branch' = branch
      BY <1>1, <3>1, PushedOnce
    <3> QED
      BY <1>1, <2>1, <3>1, <3>2 DEF Published, Remains
  <2>2. CASE c.by = 0
    BY <1>1, <1>2, <2>2 DEF Published, Remains
  <2> QED
    BY <2>1, <2>2
<1> QED
  BY <1>1, <1>2

-----------------------------------------------------------------------------
(* The invariant holds at first. *)

\* The initial state satisfies the invariant.
LEMMA DaemonInitInv == DaemonInit => DaemonInv
<1> SUFFICES ASSUME DaemonInit PROVE DaemonInv
  OBVIOUS
<1>1. \A t \in Tasks : task[t].at = "new" /\ task[t].tries = 0
  BY DEF DaemonInit
<1>2. Results /\ Assigned /\ TriedTwice
  BY <1>1 DEF DaemonInit, Results, Assigned, TriedTwice, Idle
<1>3. OneInside
  BY <1>1 DEF DaemonInit, OneInside, Inside
<1>4. WorkHasAnAuthor
  BY DEF DaemonInit, WorkHasAnAuthor, NoWorkspace
<1>5. \A r \in Runners : daemon[r].at # "working"
  BY DEF DaemonInit, Idle
<1> QED
  BY <1>2, <1>3, <1>4, <1>5, DaemonInitTypeOK DEF DaemonInv

-----------------------------------------------------------------------------
(* The steps of run_job *)

\* What a step of task t leaves alone, whichever it is.
LEMMA OneTaskMoves ==
    ASSUME DaemonInv, NEW t \in Tasks, NEW r \in Runners, r = task[t].on, RunJob(t)
    PROVE  /\ \A u \in Tasks \ {t} : task'[u] = task[u]
           /\ task'[t].on = r /\ task'[t].at # "new"
           /\ \A q \in Runners \ {r} : ws'[q] = ws[q] /\ exchange'[q] = exchange[q]
           /\ daemon' = daemon /\ accepted' = accepted /\ job'.result = job.result
<1>1. /\ task \in [Tasks -> Task] /\ ws \in [Runners -> Workspace]
      /\ exchange \in [Runners -> Tasks \cup {0}]
  BY DEF DaemonInv, DaemonTypeOK
<1>2. task[t] \in Task
  BY <1>1
<1>3. ASSUME Raises(t)
      PROVE  /\ \A u \in Tasks \ {t} : task'[u] = task[u]
             /\ task'[t].on = r /\ task'[t].at \in {"cleanup", "ended"}
  BY <1>1, <1>2, <1>3 DEF Raises, Task
<1>4. ASSUME NEW x, Goes(t, x)
      PROVE  /\ \A u \in Tasks \ {t} : task'[u] = task[u]
             /\ task'[t].on = r /\ task'[t].at = x
  BY <1>1, <1>2, <1>4 DEF Goes, Task
<1>5. job' = [job EXCEPT !.fresh = TRUE] => job'.result = job.result
  BY DEF DaemonInv, DaemonTypeOK
<1>6. CASE Checkout(t) \/ MintPublish(t)
  BY <1>3, <1>4, <1>5, <1>6 DEF Checkout, MintPublish, MintsSource
<1>7. CASE ProvisionEmpty(t)
  BY <1>1, <1>4, <1>7 DEF ProvisionEmpty
<1>8. CASE CloneRepository(t)
  BY <1>1, <1>2, <1>3, <1>8 DEF CloneRepository, Task
<1>9. CASE MakeExchange(t)
  BY <1>1, <1>2, <1>3, <1>9 DEF MakeExchange, Task
<1>10. CASE ResolveSecret(t)
  BY <1>2, <1>5, <1>10 DEF ResolveSecret
<1>11. CASE AgentEnds(t)
  BY <1>1, <1>4, <1>11 DEF AgentEnds
<1>12. CASE Validate(t)
  BY <1>3, <1>4, <1>12 DEF Validate, Validates
<1>13. CASE CommitWork(t)
  BY <1>1, <1>3, <1>4, <1>13 DEF CommitWork
<1>14. CASE Refresh(t)
  BY <1>1, <1>2, <1>3, <1>5, <1>14 DEF Refresh, MintsSource, Task
<1>15. CASE Rebase(t)
  BY <1>1, <1>3, <1>4, <1>15 DEF Rebase
<1>16. CASE Revalidate(t)
  BY <1>1, <1>2, <1>3, <1>16 DEF Revalidate, Validates, AfterRebase, Task
<1>17. CASE Push(t)
  BY <1>3, <1>4, <1>17 DEF Push
<1>18. CASE ReadHead(t)
  BY <1>1, <1>2, <1>3, <1>18 DEF ReadHead, Task
<1>19. CASE Cleanup(t) \/ RemoveExchange(t)
  BY <1>1, <1>4, <1>19 DEF Cleanup, RemoveExchange
<1> QED
  BY <1>6, <1>7, <1>8, <1>9, <1>10, <1>11, <1>12, <1>13, <1>14, <1>15, <1>16, <1>17, <1>18,
     <1>19 DEF RunJob

\* What a task's step does to itself: where it goes, and with which result.
LEMMA TaskSteps ==
    ASSUME DaemonInv, NEW t \in Tasks, RunJob(t)
    PROVE  /\ task'[t].at \in Inside => task[t].at \in Inside \/ MakeExchange(t)
           /\ task'[t].at = "remove" => Cleanup(t)
           /\ task'[t].result \in {task[t].result, Failed} \/ ReadHead(t)
           /\ task'[t].tries = 2 =>
                task'[t].at \in {"mint", "push", "head", "cleanup", "remove", "ended"}
<1>1. task[t] \in Task /\ task \in [Tasks -> Task]
  BY DEF DaemonInv, DaemonTypeOK
<1>2. task[t].tries \in 0..2
      /\ (task[t].tries = 2 =>
            task[t].at \in {"mint", "push", "head", "cleanup", "remove", "ended"})
  BY <1>1 DEF DaemonInv, TriedTwice, Task
<1>3. ASSUME Raises(t)
      PROVE  /\ task'[t].at = IF task[t].at \in Inside THEN "cleanup" ELSE "ended"
             /\ task'[t].result = Failed /\ task'[t].tries = task[t].tries
  BY <1>1, <1>3 DEF Raises, Task
<1>4. ASSUME NEW x, Goes(t, x)
      PROVE  /\ task'[t].at = x
             /\ task'[t].result = task[t].result /\ task'[t].tries = task[t].tries
  BY <1>1, <1>4 DEF Goes, Task
<1> USE DEF Inside
<1>6. CASE Checkout(t) \/ MintPublish(t)
  BY <1>2, <1>3, <1>4, <1>6 DEF Checkout, MintPublish, MintsSource
<1>7. CASE ProvisionEmpty(t)
  BY <1>2, <1>4, <1>7 DEF ProvisionEmpty
<1>8. CASE CloneRepository(t)
  BY <1>1, <1>2, <1>3, <1>8 DEF CloneRepository, Task
<1>9. CASE MakeExchange(t)
  BY <1>1, <1>2, <1>3, <1>9 DEF MakeExchange, Task
<1>10. CASE ResolveSecret(t)
  BY <1>1, <1>2, <1>10 DEF ResolveSecret
<1>11. CASE AgentEnds(t)
  BY <1>2, <1>4, <1>11 DEF AgentEnds
<1>12. CASE Validate(t)
  BY <1>2, <1>3, <1>4, <1>12 DEF Validate, Validates
<1>13. CASE CommitWork(t)
  BY <1>2, <1>3, <1>4, <1>13 DEF CommitWork
<1>14. CASE Refresh(t)
  BY <1>1, <1>2, <1>3, <1>14 DEF Refresh, MintsSource, Task
<1>15. CASE Rebase(t)
  BY <1>2, <1>3, <1>4, <1>15 DEF Rebase
<1>16. CASE Revalidate(t)
  BY <1>1, <1>2, <1>3, <1>16 DEF Revalidate, Validates, AfterRebase, Task
<1>17. CASE Push(t)
  BY <1>2, <1>3, <1>4, <1>17 DEF Push
<1>18. CASE ReadHead(t)
  BY <1>1, <1>2, <1>3, <1>18 DEF ReadHead, Task
<1>19. CASE Cleanup(t) \/ RemoveExchange(t)
  BY <1>2, <1>4, <1>19 DEF Cleanup, RemoveExchange
<1> QED
  BY <1>6, <1>7, <1>8, <1>9, <1>10, <1>11, <1>12, <1>13, <1>14, <1>15, <1>16, <1>17, <1>18,
     <1>19 DEF RunJob

\* What a task does to the workspace and to the exchange directory of its runner r.
LEMMA WorkspaceSteps ==
    ASSUME DaemonInv, NEW t \in Tasks, NEW r \in Runners, r = task[t].on, RunJob(t)
    PROVE  /\ \/ ws'[r] = ws[r]
              \/ /\ ws'[r] = NoWorkspace
                 /\ (CloneRepository(t) /\ task'[t].at = "ended") \/ Cleanup(t)
              \/ /\ ProvisionEmpty(t)
                 /\ ws'[r] = [at |-> "empty", made |-> t, head |-> [by |-> 0, base |-> 0]]
              \/ /\ CloneRepository(t) /\ ws[r].made = t
                 /\ ws'[r].at = "clean" /\ ws'[r].made = t /\ ws'[r].head.by = 0
              \/ /\ AgentEnds(t) /\ ws[r].at = "clean" /\ ws'[r].made = ws[r].made
                 /\ ws'[r].at = "dirty" /\ ws'[r].head.by = t
              \/ /\ CommitWork(t) /\ ws[r].at = "dirty" /\ ws'[r].made = ws[r].made
                 /\ ws'[r].at = "committed" /\ ws'[r].head = ws[r].head
                 /\ task'[t].at = "refresh"
              \/ /\ Rebase(t) /\ HasContent(r) /\ ws'[r].made = ws[r].made
                 /\ ws'[r].at = ws[r].at /\ ws'[r].head.by = ws[r].head.by
                 /\ task'[t].at = "revalidate"
           /\ \/ exchange'[r] = exchange[r]
              \/ MakeExchange(t) /\ exchange[r] = 0 /\ exchange'[r] = t
              \/ RemoveExchange(t) /\ exchange'[r] = 0
<1>1. /\ ws \in [Runners -> Workspace] /\ ws[r] \in Workspace /\ ws[r].head \in Commit
      /\ exchange \in [Runners -> Tasks \cup {0}]
      /\ task \in [Tasks -> Task] /\ task[t] \in Task
  BY DEF DaemonInv, DaemonTypeOK, Workspace
<1>2. ASSUME Raises(t)
      PROVE  task'[t].at = IF task[t].at \in Inside THEN "cleanup" ELSE "ended"
  BY <1>1, <1>2 DEF Raises, Task
<1>3. ASSUME NEW x, Goes(t, x) PROVE task'[t].at = x
  BY <1>1, <1>3 DEF Goes, Task
<1>4. CASE ProvisionEmpty(t)
  BY <1>1, <1>4 DEF ProvisionEmpty
<1>5. CASE CloneRepository(t)
  BY <1>1, <1>2, <1>5 DEF CloneRepository, Workspace, Inside
<1>6. CASE AgentEnds(t)
  BY <1>1, <1>6 DEF AgentEnds, Workspace, Commit
<1>7. CASE CommitWork(t)
  BY <1>1, <1>3, <1>7 DEF CommitWork, Workspace
<1>8. CASE Rebase(t)
  BY <1>1, <1>3, <1>8 DEF Rebase, Workspace, Commit
<1>9. CASE MakeExchange(t)
  BY <1>1, <1>9 DEF MakeExchange
<1>10. CASE Cleanup(t) \/ RemoveExchange(t)
  BY <1>1, <1>10 DEF Cleanup, RemoveExchange
<1>11. CASE ws' = ws /\ exchange' = exchange
  BY <1>11
<1> QED
  BY <1>4, <1>5, <1>6, <1>7, <1>8, <1>9, <1>10, <1>11
     DEF RunJob, Checkout, ResolveSecret, Validate, Refresh, Revalidate, MintPublish, Push,
         ReadHead

\* A step of run_job keeps the exchange directory with the task inside.
LEMMA RunJobKeepsOneInside ==
    ASSUME DaemonInv, NEW t \in Tasks, NEW r \in Runners, r = task[t].on, RunJob(t)
    PROVE  OneInside'
<1>1. OneInside
  BY DEF DaemonInv
<1>2. /\ \A u \in Tasks \ {t} : task'[u] = task[u]
      /\ task'[t].on = r
      /\ \A q \in Runners \ {r} : exchange'[q] = exchange[q]
  BY OneTaskMoves
<1>3. task'[t].at \in Inside => task[t].at \in Inside \/ MakeExchange(t)
  BY TaskSteps
<1>4. \/ exchange'[r] = exchange[r]
      \/ MakeExchange(t) /\ exchange[r] = 0 /\ exchange'[r] = t
      \/ RemoveExchange(t) /\ exchange'[r] = 0
  BY WorkspaceSteps
<1>5. RemoveExchange(t) => task[t].at \in Inside /\ task'[t].at \notin Inside
  BY DEF RemoveExchange, Goes, Inside, DaemonInv, DaemonTypeOK
<1>6. MakeExchange(t) => (exchange'[r] = t \/ task'[t].at \notin Inside)
  <2>1. Raises(t) /\ task[t].at = "exchange" => task'[t].at = "ended"
    BY DEF Raises, Inside, DaemonInv, DaemonTypeOK, Task
  <2> QED
    BY <2>1 DEF MakeExchange, Inside, DaemonInv, DaemonTypeOK
<1>7. \A q \in Runners : exchange[q] \in Tasks \cup {0}
  BY DEF DaemonInv, DaemonTypeOK
<1>8. ASSUME NEW u \in Tasks, task'[u].at \in Inside PROVE exchange'[task'[u].on] = u
  <2>1. CASE u = t
    BY <1>1, <1>2, <1>3, <1>4, <1>5, <1>6, <1>8, <2>1 DEF OneInside
  <2>2. CASE u # t
    <3>1. task[u].at \in Inside /\ exchange[task[u].on] = u /\ task[u].on \in Runners
      BY <1>1, <1>2, <1>8, <2>2 DEF OneInside, DaemonInv, Assigned, Inside
    <3>2. CASE task[u].on = r
      BY <1>1, <1>2, <1>4, <1>5, <2>2, <3>1, <3>2, DaemonRecords DEF OneInside
    <3>3. CASE task[u].on # r
      BY <1>2, <2>2, <3>1, <3>3
    <3> QED
      BY <3>2, <3>3
  <2> QED
    BY <2>1, <2>2
<1>9. ASSUME NEW q \in Runners, exchange'[q] # 0 PROVE task'[exchange'[q]].on = q
  BY <1>1, <1>2, <1>4, <1>7, <1>9 DEF OneInside
<1> QED
  BY <1>8, <1>9 DEF OneInside

\* A step of run_job keeps what has been changed with its author.
LEMMA RunJobKeepsAuthors ==
    ASSUME DaemonInv, NEW t \in Tasks, NEW r \in Runners, r = task[t].on, RunJob(t)
    PROVE  WorkHasAnAuthor'
<1>1. WorkHasAnAuthor /\ OneInside
  BY DEF DaemonInv
<1>2. /\ \A u \in Tasks \ {t} : task'[u] = task[u]
      /\ \A q \in Runners \ {r} : ws'[q] = ws[q] /\ exchange'[q] = exchange[q]
  BY OneTaskMoves
<1>3. \A q \in Runners : exchange[q] \in Tasks \cup {0}
  BY DEF DaemonInv, DaemonTypeOK
<1>4. ASSUME NEW q \in Runners \ {r}
      PROVE  exchange[q] # 0 => task'[exchange[q]] = task[exchange[q]]
  BY <1>1, <1>2, <1>3 DEF OneInside
<1>5. task'[t].at = "remove" => Cleanup(t)
  BY TaskSteps
<1>6. Cleanup(t) => ws'[r] = NoWorkspace
  BY DEF Cleanup, DaemonInv, DaemonTypeOK
<1>7. RemoveExchange(t) => exchange[r] = t /\ task[t].at = "remove" /\ ws'[r] = ws[r]
  BY <1>1 DEF RemoveExchange, OneInside, Inside
<1>8. AgentEnds(t) \/ CommitWork(t) \/ Rebase(t) => exchange[r] = t /\ exchange'[r] = exchange[r]
  BY <1>1 DEF AgentEnds, CommitWork, Rebase, OneInside, Inside
<1>9. MakeExchange(t) => ws' = ws
  BY DEF MakeExchange
<1>10. NoWorkspace.at = "none" /\ NoWorkspace.head.by = 0 /\ NoWorkspace.made = 0
  BY DEF NoWorkspace
<1>11. /\ ws'[r].at \in {"dirty", "committed"}
            => /\ exchange'[r] # 0
               /\ ws'[r].head.by = exchange'[r]
               /\ task'[exchange'[r]].at # "remove"
       /\ ws'[r].at \in {"none", "empty", "clean"} => ws'[r].head.by = 0
       /\ ws'[r].made = 0 => ws'[r] = NoWorkspace
  <2>1. \/ ws'[r] = ws[r]
        \/ /\ ws'[r] = NoWorkspace
           /\ (CloneRepository(t) /\ task'[t].at = "ended") \/ Cleanup(t)
        \/ /\ ProvisionEmpty(t)
           /\ ws'[r] = [at |-> "empty", made |-> t, head |-> [by |-> 0, base |-> 0]]
        \/ /\ CloneRepository(t) /\ ws[r].made = t
           /\ ws'[r].at = "clean" /\ ws'[r].made = t /\ ws'[r].head.by = 0
        \/ /\ AgentEnds(t) /\ ws[r].at = "clean" /\ ws'[r].made = ws[r].made
           /\ ws'[r].at = "dirty" /\ ws'[r].head.by = t
        \/ /\ CommitWork(t) /\ ws[r].at = "dirty" /\ ws'[r].made = ws[r].made
           /\ ws'[r].at = "committed" /\ ws'[r].head = ws[r].head
        \/ /\ Rebase(t) /\ HasContent(r) /\ ws'[r].made = ws[r].made
           /\ ws'[r].at = ws[r].at /\ ws'[r].head.by = ws[r].head.by
    BY WorkspaceSteps
  <2>2. \/ exchange'[r] = exchange[r]
        \/ MakeExchange(t) /\ exchange[r] = 0 /\ exchange'[r] = t
        \/ RemoveExchange(t) /\ exchange'[r] = 0
    BY WorkspaceSteps
  <2>3. /\ ws[r].at \in {"dirty", "committed"}
             => /\ exchange[r] # 0
                /\ ws[r].head.by = exchange[r]
                /\ task[exchange[r]].at # "remove"
        /\ ws[r].at \in {"none", "empty", "clean"} => ws[r].head.by = 0
        /\ ws[r].made = 0 => ws[r] = NoWorkspace
    BY <1>1 DEF WorkHasAnAuthor
  <2>4. ws'[r].at \in {"dirty", "committed"} =>
           /\ exchange'[r] = exchange[r] /\ exchange[r] # 0 /\ ws'[r].head.by = exchange[r]
           /\ ~Cleanup(t)
    BY <1>6, <1>7, <1>8, <1>9, <1>10, <2>1, <2>2, <2>3, DaemonRecords
  <2>5. exchange[r] # 0 /\ exchange[r] # t => task'[exchange[r]] = task[exchange[r]]
    BY <1>2, <1>3
  <2>6. ws'[r].at \in {"dirty", "committed"} => task'[exchange[r]].at # "remove"
    <3>1. CASE exchange[r] = t
      BY <1>5, <2>4, <3>1
    <3>2. CASE exchange[r] # t
      BY <1>8, <2>1, <2>3, <2>4, <2>5, <1>10, <3>2
    <3> QED
      BY <3>1, <3>2
  <2>7. ws'[r].at \in {"none", "empty", "clean"} => ws'[r].head.by = 0
    BY <1>10, <2>1, <2>3 DEF HasContent
  <2>8. ws'[r].made = 0 => ws'[r] = NoWorkspace
    BY <1>10, <2>1, <2>3, DaemonRecords DEF HasContent
  <2> QED
    BY <2>4, <2>6, <2>7, <2>8
<1> QED
  BY <1>1, <1>2, <1>4, <1>11 DEF WorkHasAnAuthor

\* Another task of a runner does not disturb the one its daemon waits for.
LEMMA OthersKeepAwaited ==
    ASSUME DaemonInv, NEW t \in Tasks, NEW r \in Runners, r = task[t].on, RunJob(t),
           NEW q \in Runners, daemon[q].at = "working", daemon[q].task # t
    PROVE  Awaited(q)'
<1> DEFINE d == daemon[q].task
<1>1. d \in Tasks /\ task[d].on = q /\ Awaited(q) /\ d # t /\ daemon'[q].task = d
      /\ task'[d] = task[d]
  BY OneTaskMoves DEF DaemonInv, Assigned
<1>2. /\ \A u \in Tasks \ {t} : task'[u] = task[u]
      /\ task'[t].on = r
      /\ \A p \in Runners \ {r} : ws'[p] = ws[p]
  BY OneTaskMoves
<1> HIDE DEF d
<1>3. \A u \in Tasks : task'[u].on = q => u =< d
  BY <1>1, <1>2 DEF Awaited, d
<1>4. DaemonNext
  BY DEF DaemonNext
<1>5. /\ validated \subseteq validated' /\ (late => late')
      /\ \A c : Published(c) => Remains(c)
  BY <1>4, PublishedStays
<1>6. NoWorkspace.at = "none" /\ NoWorkspace.made = 0
  BY DEF NoWorkspace
<1>7. ASSUME task[d].at \in AtWork
      PROVE  \/ ws'[q] = ws[q]
             \/ ws'[q] = NoWorkspace
             \/ late' /\ ws'[q].at \in {"empty", "clean"} /\ ws'[q].head.by = 0
             \/ task[d].at \in {"clone", "exchange"} /\ ws'[q].made = ws[q].made
  <2>1. CASE q # r
    BY <1>2, <2>1
  <2>2. CASE q = r
    <3>1. ProvisionEmpty(t) => late'
      <4>1. t =< d
        BY <1>1, <2>2 DEF Awaited, d
      <4>2. d > t /\ task[d].on = task[t].on
        BY <1>1, <2>2, <4>1, DaemonAssumption DEF Tasks
      <4> QED
        BY <1>1, <4>2 DEF ProvisionEmpty
    <3>2. late' \/ ws[q].made \in {d, 0}
      BY <1>1, <1>5, <1>7 DEF Awaited, d
    <3>4. task[t].at \in Inside => task[d].at \notin Inside
      BY <1>1, <2>2 DEF DaemonInv, OneInside
    <3>5. AgentEnds(t) \/ CommitWork(t) \/ Rebase(t) => task[t].at \in Inside
      BY DEF AgentEnds, CommitWork, Rebase, Inside
    <3>6. \/ ws'[r] = ws[r]
          \/ ws'[r] = NoWorkspace
          \/ /\ ProvisionEmpty(t)
             /\ ws'[r] = [at |-> "empty", made |-> t, head |-> [by |-> 0, base |-> 0]]
          \/ /\ CloneRepository(t) /\ ws[r].made = t
             /\ ws'[r].at = "clean" /\ ws'[r].head.by = 0
          \/ (AgentEnds(t) \/ CommitWork(t) \/ Rebase(t)) /\ ws'[r].made = ws[r].made
      BY WorkspaceSteps
    <3>7. task[d].at \notin Inside => task[d].at \in {"clone", "exchange"}
      BY <1>7 DEF AtWork, Inside
    <3> QED
      BY <1>1, <2>2, <3>1, <3>2, <3>4, <3>5, <3>6, <3>7, DaemonRecords
  <2> QED
    BY <2>1, <2>2
<1>8. Committed \subseteq AtWork \ {"clone", "exchange"} /\ "head" \in Committed
      /\ Validated \subseteq AtWork \ {"clone", "exchange"}
  BY DEF Committed, AtWork, Validated
<1>9. /\ task[d].at \in AtWork /\ ~late' => ws'[q].made \in {d, 0}
      /\ task[d].at \in Committed /\ ~late' => ws'[q].at \in {"none", "committed"}
  BY <1>1, <1>5, <1>6, <1>7, <1>8 DEF Awaited, d
<1>10. HasContent(q)' /\ task[d].at \in AtWork \ {"clone", "exchange"} =>
          \/ ws'[q] = ws[q] /\ HasContent(q)
          \/ late' /\ ws'[q].head.by = 0
  BY <1>6, <1>7 DEF HasContent
<1>11. task[d].at \in Validated /\ HasContent(q)' /\ ws'[q].head.by # 0
          => ws'[q].head \in validated'
  BY <1>1, <1>5, <1>8, <1>10 DEF Awaited, d
<1>12. task[d].at = "head" /\ HasContent(q)' =>
          Remains(ws'[q].head)
  BY <1>1, <1>5, <1>8, <1>10 DEF Remains, Awaited, d
<1>13. task[d].result # Failed => Remains(task[d].result)
  BY <1>1, <1>5 DEF Awaited, d
<1> QED
  BY <1>1, <1>3, <1>9, <1>11, <1>12, <1>13 DEF Awaited, Published, Remains, d

\* The task that the daemon waits for keeps the workspace, validates what it commits and
\* pushes what it has validated.
LEMMA AwaitedGoesOn ==
    ASSUME DaemonInv, NEW t \in Tasks, NEW r \in Runners, r = task[t].on, RunJob(t),
           daemon[r].at = "working", daemon[r].task = t
    PROVE  Awaited(r)'
<1>1. /\ \A u \in Tasks : task[u].on = r => u =< t
      /\ task[t].at \in AtWork /\ ~late => ws[r].made \in {t, 0}
      /\ task[t].at \in Committed /\ ~late => ws[r].at \in {"none", "committed"}
      /\ task[t].at \in Validated /\ HasContent(r) /\ ws[r].head.by # 0
           => ws[r].head \in validated
      /\ task[t].at = "head" /\ HasContent(r) => Published(ws[r].head)
      /\ task[t].result # Failed => Published(task[t].result)
  BY DEF DaemonInv, Awaited
<1>2. /\ \A u \in Tasks \ {t} : task'[u] = task[u]
      /\ task'[t].on = r /\ daemon' = daemon
  BY OneTaskMoves
<1>3. /\ task \in [Tasks -> Task] /\ task[t] \in Task
      /\ ws \in [Runners -> Workspace] /\ ws[r] \in Workspace
  BY DEF DaemonInv, DaemonTypeOK
<1>4. DaemonNext
  BY DEF DaemonNext
<1>5. (late => late') /\ \A c : Published(c) => Remains(c)
  BY <1>4, PublishedStays
<1>6. NoWorkspace.at = "none" /\ NoWorkspace.made = 0
  BY DEF NoWorkspace
<1>7. ws[r].made = 0 => ws[r] = NoWorkspace
  BY DEF DaemonInv, WorkHasAnAuthor
<1>8. SUFFICES
        /\ task'[t].at \in AtWork /\ ~late' => ws'[r].made \in {t, 0}
        /\ task'[t].at \in Committed /\ ~late' => ws'[r].at \in {"none", "committed"}
        /\ task'[t].at \in Validated /\ HasContent(r)' /\ ws'[r].head.by # 0
             => ws'[r].head \in validated'
        /\ task'[t].at = "head" /\ HasContent(r)'
             => IF ws'[r].head.by # 0 THEN branch' = ws'[r].head ELSE late'
        /\ task'[t].result # Failed =>
             \/ ReadHead(t) /\ HasContent(r)
             \/ Remains(task'[t].result)
  <2>1. "head" \in Validated
    BY DEF Validated
  <2>3. ReadHead(t) /\ HasContent(r) =>
          task'[t].result = ws[r].head /\ task[t].at = "head"
    BY <1>3 DEF ReadHead, Task
  <2>4. task'[t].result # Failed => Remains(task'[t].result)
    BY <1>1, <1>5, <1>8, <2>3
  <2>5. \A u \in Tasks : task'[u].on = r => u =< t
    BY <1>1, <1>2
  <2>6. task'[t].at = "head" /\ HasContent(r)' => Remains(ws'[r].head)
    BY <1>8, <2>1 DEF Remains
  <2> QED
    BY <1>2, <1>8, <2>4, <2>5, <2>6 DEF Awaited, Published, Remains
<1>9. task'[t].result # Failed =>
         \/ ReadHead(t) /\ HasContent(r)
         \/ Remains(task'[t].result)
  <2>1. task'[t].result \in {task[t].result, Failed} \/ ReadHead(t)
    BY TaskSteps
  <2>2. ReadHead(t) /\ ~HasContent(r) => task'[t].result = Failed
    BY <1>3 DEF ReadHead, Raises, Task
  <2>3. ASSUME task[t].result # Failed PROVE Remains(task[t].result)
    BY <1>1, <1>5, <2>3
  <2> QED
    BY <2>1, <2>2, <2>3
<1>10. ASSUME Raises(t) PROVE task'[t].at \in {"cleanup", "ended"}
  BY <1>3, <1>10 DEF Raises, Task
<1>11. ASSUME NEW x, Goes(t, x) PROVE task'[t].at = x
  BY <1>3, <1>11 DEF Goes, Task
<1>12. {"cleanup", "ended", "remove", "provision"} \cap (AtWork \cup Committed \cup Validated) = {}
  BY DEF AtWork, Committed, Validated
<1> HIDE DEF DaemonInv
<1> DEFINE Keeps ==
        /\ task'[t].at \in AtWork /\ ~late' => ws'[r].made \in {t, 0}
        /\ task'[t].at \in Committed /\ ~late' => ws'[r].at \in {"none", "committed"}
        /\ task'[t].at \in Validated /\ HasContent(r)' /\ ws'[r].head.by # 0
             => ws'[r].head \in validated'
        /\ task'[t].at = "head" /\ HasContent(r)'
             => IF ws'[r].head.by # 0 THEN branch' = ws'[r].head ELSE late'
<1>13. ASSUME task'[t].at \in {"cleanup", "ended", "remove", "provision"} PROVE Keeps
  BY <1>12, <1>13
<1>14. ASSUME Checkout(t) \/ Cleanup(t) \/ RemoveExchange(t) \/ ReadHead(t) PROVE Keeps
  BY <1>3, <1>10, <1>11, <1>13, <1>14
     DEF Checkout, Cleanup, RemoveExchange, ReadHead, MintsSource, Task
<1>15. ASSUME ProvisionEmpty(t) PROVE Keeps
  BY <1>3, <1>11, <1>15 DEF ProvisionEmpty, AtWork, Committed, Validated
<1>16. ASSUME CloneRepository(t) PROVE Keeps
  <2>1. CASE Raises(t)
    BY <1>10, <1>13, <2>1
  <2>2. CASE ~Raises(t)
    BY <1>3, <1>16, <2>2 DEF CloneRepository, Task, Workspace, AtWork, Committed, Validated
  <2> QED
    BY <2>1, <2>2
<1>17. ASSUME MakeExchange(t) PROVE Keeps
  <2>1. CASE Raises(t)
    BY <1>10, <1>13, <2>1
  <2>2. CASE ~Raises(t)
    BY <1>1, <1>3, <1>5, <1>17, <2>2 DEF MakeExchange, Task, AtWork, Committed, Validated
  <2> QED
    BY <2>1, <2>2
<1>18. ASSUME ResolveSecret(t) PROVE Keeps
  BY <1>1, <1>5, <1>18 DEF ResolveSecret, HasContent, Published
<1>19. ASSUME AgentEnds(t) PROVE Keeps
  <2>1. ws'[r].made = ws[r].made
    BY <1>3, <1>19 DEF AgentEnds, Workspace
  <2>2. task'[t].at \in {"validate", "cleanup"}
    BY <1>11, <1>19 DEF AgentEnds
  <2> QED
    BY <1>1, <1>5, <1>12, <1>19, <2>1, <2>2 DEF AgentEnds, AtWork, Committed, Validated
<1>20. ASSUME Validate(t) PROVE Keeps
  <2>1. CASE Raises(t)
    BY <1>10, <1>13, <2>1
  <2>2. CASE ~Raises(t)
    BY <1>1, <1>5, <1>11, <1>20, <2>2
       DEF Validate, Validates, HasContent, AtWork, Committed, Validated
  <2> QED
    BY <2>1, <2>2
<1>21. ASSUME CommitWork(t) PROVE Keeps
  <2>1. CASE Raises(t)
    BY <1>10, <1>13, <2>1
  <2>2. CASE ~Raises(t)
    <3>1. /\ task'[t].at = "refresh" /\ task[t].at = "commit"
          /\ ws[r].at = "dirty"
          /\ ws'[r].at = "committed" /\ ws'[r].head = ws[r].head /\ ws'[r].made = ws[r].made
          /\ validated' = validated
      BY <1>3, <1>11, <1>21, <2>2 DEF CommitWork, Workspace
    <3> QED
      BY <1>1, <1>5, <3>1 DEF HasContent, AtWork, Committed, Validated
  <2> QED
    BY <2>1, <2>2
<1>22. ASSUME Refresh(t) PROVE Keeps
  <2>1. CASE Raises(t)
    BY <1>10, <1>13, <2>1
  <2>2. CASE ~Raises(t)
    <3>1. /\ task'[t].at \in {"mint", "rebase"} /\ task[t].at = "refresh"
          /\ ws' = ws /\ validated' = validated
      BY <1>3, <1>22, <2>2 DEF Refresh, MintsSource, Task
    <3> QED
      BY <1>1, <1>5, <3>1 DEF HasContent, AtWork, Committed, Validated
  <2> QED
    BY <2>1, <2>2
<1>23. ASSUME Rebase(t) PROVE Keeps
  <2>1. CASE Raises(t)
    BY <1>10, <1>13, <2>1
  <2>2. CASE ~Raises(t)
    <3>1. /\ task'[t].at = "revalidate" /\ task[t].at = "rebase"
          /\ ws'[r].at = ws[r].at /\ ws'[r].made = ws[r].made
      BY <1>3, <1>11, <1>23, <2>2 DEF Rebase, Workspace
    <3> QED
      BY <1>1, <1>5, <3>1 DEF AtWork, Committed, Validated
  <2> QED
    BY <2>1, <2>2
<1>24. ASSUME Revalidate(t) PROVE Keeps
  <2>1. CASE Raises(t)
    BY <1>10, <1>13, <2>1
  <2>2. CASE ~Raises(t)
    <3>1. /\ task'[t].at \in {"refresh", "mint"} /\ task[t].at = "revalidate"
          /\ ws' = ws
          /\ HasContent(r) => ws[r].head \in validated'
      BY <1>3, <1>24, <2>2 DEF Revalidate, Validates, AfterRebase, Task
    <3> QED
      BY <1>1, <1>5, <3>1 DEF HasContent, AtWork, Committed, Validated
  <2> QED
    BY <2>1, <2>2
<1>25. ASSUME MintPublish(t) PROVE Keeps
  <2>1. CASE Raises(t)
    BY <1>10, <1>13, <2>1
  <2>2. CASE ~Raises(t)
    <3>1. /\ task'[t].at = "push" /\ task[t].at = "mint"
          /\ ws' = ws /\ validated' = validated
      BY <1>11, <1>25, <2>2 DEF MintPublish, MintsSource
    <3> QED
      BY <1>1, <1>5, <3>1 DEF HasContent, AtWork, Committed, Validated
  <2> QED
    BY <2>1, <2>2
<1>26. ASSUME Push(t) PROVE Keeps
  <2>1. CASE Raises(t)
    BY <1>10, <1>13, <2>1
  <2>2. CASE ~Raises(t)
    <3>1. /\ task'[t].at = "head" /\ task[t].at = "push"
          /\ ws' = ws /\ validated' = validated /\ branch' = ws[r].head
      BY <1>11, <1>26, <2>2 DEF Push
    <3>2. HasContent(r) /\ ws[r].head.by = 0 => late
      <4>1. HasContent(r) /\ ~late => ws[r].at = "committed"
        BY <1>1, <1>5, <3>1 DEF HasContent, Committed
      <4> QED
        BY <4>1 DEF DaemonInv, WorkHasAnAuthor
    <3> QED
      BY <1>1, <1>5, <3>1, <3>2 DEF HasContent, AtWork, Committed, Validated
  <2> QED
    BY <2>1, <2>2
<1> HIDE DEF Keeps
<1>27. Keeps
  BY <1>14, <1>15, <1>16, <1>17, <1>18, <1>19, <1>20, <1>21, <1>22, <1>23, <1>24, <1>25, <1>26
     DEF RunJob
<1> QED
  BY <1>9, <1>27 DEF Keeps

\* A step of run_job keeps the invariant.
LEMMA RunJobKeepsDaemonInv ==
    ASSUME DaemonInv, NEW t \in Tasks, RunJob(t)
    PROVE  DaemonInv'
<1>1. task[t].at # "new"
  BY DEF RunJob, Checkout, ProvisionEmpty, CloneRepository, MakeExchange, ResolveSecret,
         AgentEnds, Validate, CommitWork, Refresh, Rebase, Revalidate, MintPublish, Push,
         ReadHead, Cleanup, RemoveExchange
<1>2. PICK r \in Runners : r = task[t].on
  BY <1>1 DEF DaemonInv, Assigned
<1>3. DaemonTypeOK'
  BY <1>2, RunJobKeepsTypes DEF DaemonInv
<1>4. \A c : Published(c) => Remains(c)
  BY PublishedStays DEF DaemonNext
<1>5. /\ \A u \in Tasks \ {t} : task'[u] = task[u]
      /\ task'[t].on = r /\ task'[t].at # "new"
      /\ daemon' = daemon /\ accepted' = accepted /\ job'.result = job.result
  BY <1>2, OneTaskMoves
<1>6. Results'
  BY <1>4, <1>5 DEF DaemonInv, Results, Published, Remains
<1>7. Assigned'
  BY <1>2, <1>5 DEF DaemonInv, Assigned
<1>8. TriedTwice'
  BY <1>5, TaskSteps DEF DaemonInv, TriedTwice
<1>9. ASSUME NEW q \in Runners, daemon'[q].at = "working" PROVE Awaited(q)'
  <2>1. daemon[q].at = "working"
    BY <1>5, <1>9
  <2>2. CASE daemon[q].task = t
    <3>1. q = r
      BY <1>2, <2>1, <2>2 DEF DaemonInv, Assigned
    <3> QED
      BY <1>2, <2>1, <2>2, <3>1, AwaitedGoesOn
  <2>3. CASE daemon[q].task # t
    BY <1>2, <2>1, <2>3, OthersKeepAwaited
  <2> QED
    BY <2>2, <2>3
<1> QED
  BY <1>2, <1>3, <1>6, <1>7, <1>8, <1>9, RunJobKeepsOneInside, RunJobKeepsAuthors
     DEF DaemonInv

-----------------------------------------------------------------------------
(* The steps of the daemons *)

\* A step that leaves disks, branch and what was validated alone keeps the part of a daemon
\* whose tasks it does not touch.
LEMMA AwaitedUntouched ==
    ASSUME DaemonInv, NEW q \in Runners, daemon[q].at = "working",
           daemon'[q] = daemon[q],
           \A u \in Tasks : task'[u] = task[u] \/ (task[u].on # q /\ task'[u].on # q),
           UNCHANGED <<ws, branch, validated, late>>
    PROVE  Awaited(q)'
<1>1. /\ daemon[q].task \in Tasks /\ task[daemon[q].task].on = q
      /\ task'[daemon[q].task] = task[daemon[q].task]
      /\ Awaited(q)
  BY DEF DaemonInv, Assigned
<1> QED
  BY <1>1 DEF Awaited, Published, HasContent

\* A step of a daemon keeps the invariant.
LEMMA DaemonStepKeepsDaemonInv ==
    ASSUME DaemonInv, NEW r \in Runners, Daemon(r)
    PROVE  DaemonInv'
<1>1. DaemonTypeOK'
  BY LeaseKeepsTypes DEF DaemonInv
<1>2. UNCHANGED <<accepted, exchange, ws, trunk, branch, validated, late>>
  BY DEF Daemon, LeaseJob, Heartbeat, HeartbeatFails, TaskIsDone, CompleteJob, DaemonCrashes
<1>3. /\ daemon \in [Runners -> Daemons] /\ task \in [Tasks -> Task]
      /\ \A t \in Tasks : task[t] \in Task
      /\ exchange \in [Runners -> Tasks \cup {0}]
  BY DEF DaemonInv, DaemonTypeOK, Daemons
<1>4. \A q \in Runners \ {r} : daemon'[q] = daemon[q]
  BY <1>3 DEF Daemon, LeaseJob, Heartbeat, HeartbeatFails, TaskIsDone, CompleteJob,
              DaemonCrashes
<1>5. \A c : Published(c) => Remains(c)
  BY <1>2 DEF Published, Remains
<1>6. ASSUME LeaseJob(r) PROVE DaemonInv'
  <2>1. PICK t \in Tasks :
          /\ \A u \in Tasks : task[u].at = "new" <=> u >= t
          /\ task' = [task EXCEPT ![t].at = "checkout", ![t].on = r]
          /\ daemon' = [daemon EXCEPT ![r] = [at |-> "working", task |-> t, result |-> Failed]]
    BY <1>6 DEF LeaseJob
  <2>2. /\ task[t].at = "new" /\ task'[t].at = "checkout" /\ task'[t].on = r
        /\ task'[t].tries = task[t].tries /\ task'[t].result = task[t].result
        /\ \A u \in Tasks \ {t} : task'[u] = task[u]
    BY <1>3, <2>1, DaemonAssumption DEF Task, Tasks
  <2>10. task[t].on = NoRunner /\ NoRunner \notin Runners /\ task[t].result = Failed
    BY <2>2, DaemonAssumption DEF DaemonInv, Assigned
  <2>3. Results'
    BY <1>2, <1>3, <1>4, <1>5, <1>6, <2>1 DEF LeaseJob, DaemonInv, DaemonTypeOK, Results, Published, Remains
  <2>4. Assigned'
    BY <1>3, <1>4, <2>10, <2>1, <2>2 DEF DaemonInv, Assigned
  <2>5. TriedTwice'
    BY <2>2 DEF DaemonInv, TriedTwice
  <2>6. \A q \in Runners : exchange[q] # t
    BY <2>10, DaemonRecords DEF DaemonInv, OneInside
  <2>7. OneInside'
    BY <1>2, <1>3, <2>2, <2>6 DEF DaemonInv, OneInside, Inside
  <2>8. WorkHasAnAuthor'
    BY <1>2, <1>3, <2>2, <2>6 DEF DaemonInv, WorkHasAnAuthor
  <2>9. ASSUME NEW q \in Runners, daemon'[q].at = "working" PROVE Awaited(q)'
    <3>1. CASE q # r
      BY <1>2, <1>4, <2>10, <2>2, <2>9, <3>1, AwaitedUntouched
    <3>2. CASE q = r
      <4>1. daemon'[r].task = t
        BY <1>3, <2>1
      <4>2. \A u \in Tasks : task'[u].on = r => u =< t
        <5>1. ASSUME NEW u \in Tasks, ~(u =< t) PROVE task'[u].on = NoRunner
          <6>1. u # t /\ u >= t
            BY <5>1, DaemonAssumption DEF Tasks
          <6> QED
            BY <2>1, <2>2, <6>1 DEF DaemonInv, Assigned
        <5> QED
          BY <2>10, <5>1
      <4>3. "checkout" \notin AtWork \cup Committed \cup Validated
        BY DEF AtWork, Committed, Validated
      <4>4. task'[t].result = Failed
        BY <2>2, <2>10
      <4> QED
        BY <2>2, <3>2, <4>1, <4>2, <4>3, <4>4 DEF Awaited
    <3> QED
      BY <3>1, <3>2
  <2> QED
    BY <1>1, <2>3, <2>4, <2>5, <2>7, <2>8, <2>9 DEF DaemonInv
<1>7. ASSUME Heartbeat(r) \/ HeartbeatFails(r) \/ TaskIsDone(r) \/ CompleteJob(r)
      PROVE  DaemonInv'
  <2>1. task' = task
    BY <1>7 DEF Heartbeat, HeartbeatFails, TaskIsDone, CompleteJob
  <2>2. /\ daemon'[r] = daemon[r] \/ daemon'[r].at # "working"
        /\ daemon'[r].result \in {daemon[r].result, Failed}
             \/ (daemon[r].at = "working" /\ daemon'[r].result = task[daemon[r].task].result)
        /\ job'.result \in {job.result, daemon[r].result}
    <3>1. \A b \in BOOLEAN : [job EXCEPT !.fresh = b].result = job.result
      BY DEF DaemonInv, DaemonTypeOK
    <3>2. \A c : [[job EXCEPT !.status = "COMPLETED"] EXCEPT !.result = c].result = c
      BY DEF DaemonInv, DaemonTypeOK
    <3>3. \A c : /\ [[daemon[r] EXCEPT !.at = "reporting"] EXCEPT !.result = c].result = c
                 /\ [[daemon[r] EXCEPT !.at = "reporting"] EXCEPT !.result = c].at = "reporting"
      BY <1>3 DEF Daemons
    <3>4. CASE Heartbeat(r)
      BY <3>1, <3>4 DEF Heartbeat
    <3>5. CASE HeartbeatFails(r)
      BY <1>3, <3>3, <3>5 DEF HeartbeatFails
    <3>6. CASE TaskIsDone(r)
      BY <1>3, <3>3, <3>6 DEF TaskIsDone
    <3>7. CASE CompleteJob(r)
      BY <1>3, <3>2, <3>7 DEF CompleteJob, Idle
    <3> QED
      BY <1>7, <3>4, <3>5, <3>6, <3>7
  <2>3. daemon[r].at = "working" =>
          (task[daemon[r].task].result # Failed => Published(task[daemon[r].task].result))
    BY DEF DaemonInv, Awaited
  <2>4. Results'
    <3>1. \A c : (c # Failed => Published(c)) => (c # Failed => Remains(c))
      BY <1>5
    <3>2. /\ \A q \in Runners : daemon[q].result # Failed => Published(daemon[q].result)
          /\ job.result # Failed => Published(job.result)
          /\ accepted # NoCommit => Published(accepted)
      BY DEF DaemonInv, Results
    <3>3. ASSUME NEW q \in Runners, daemon'[q].result # Failed
          PROVE  Remains(daemon'[q].result)
      BY <1>4, <1>5, <2>2, <2>3, <3>2, <3>3
    <3>4. job'.result # Failed => Remains(job'.result)
      BY <1>5, <2>2, <3>2
    <3> QED
      BY <1>2, <1>5, <3>2, <3>3, <3>4 DEF Results, Published, Remains
  <2>5. Assigned'
    BY <1>4, <2>1, <2>2 DEF DaemonInv, Assigned
  <2>6. TriedTwice' /\ OneInside' /\ WorkHasAnAuthor'
    BY <1>2, <2>1 DEF DaemonInv, TriedTwice, OneInside, WorkHasAnAuthor
  <2>7. ASSUME NEW q \in Runners, daemon'[q].at = "working" PROVE Awaited(q)'
    BY <1>2, <1>4, <2>1, <2>2, <2>7, AwaitedUntouched
  <2> QED
    BY <1>1, <2>4, <2>5, <2>6, <2>7 DEF DaemonInv
<1>8. ASSUME DaemonCrashes(r) PROVE DaemonInv'
  <2>1. /\ \A u \in Tasks : IF task[u].on = r
                            THEN /\ task'[u].at = "ended" /\ task'[u].on = r
                                 /\ task'[u].result = Failed
                            ELSE task'[u] = task[u]
        /\ daemon'[r] = Idle /\ job' = job
    BY <1>3, <1>8 DEF DaemonCrashes, Task
  <2>2. Idle.at # "working" /\ Idle.result = Failed
    BY DEF Idle
  <2>3. Results'
    BY <1>2, <1>4, <1>5, <2>1, <2>2 DEF DaemonInv, Results, Published, Remains
  <2>4. Assigned'
    BY <1>4, <2>1, <2>2 DEF DaemonInv, Assigned
  <2>5. TriedTwice'
    BY <2>1 DEF DaemonInv, TriedTwice
  <2>6. OneInside'
    BY <1>2, <1>3, <2>1 DEF DaemonInv, OneInside, Inside
  <2>7. WorkHasAnAuthor'
    BY <1>2, <1>3, <2>1 DEF DaemonInv, WorkHasAnAuthor
  <2>8. ASSUME NEW q \in Runners, daemon'[q].at = "working" PROVE Awaited(q)'
    <3>1. q # r
      BY <2>1, <2>2, <2>8
    <3>2. \A u \in Tasks : task'[u] = task[u] \/ (task[u].on # q /\ task'[u].on # q)
      BY <2>1, <3>1
    <3> QED
      BY <1>2, <1>4, <2>8, <3>1, <3>2, AwaitedUntouched
  <2> QED
    BY <1>1, <2>3, <2>4, <2>5, <2>6, <2>7, <2>8 DEF DaemonInv
<1> QED
  BY <1>6, <1>7, <1>8 DEF Daemon

\* The judgement, a lease that goes stale and other people's pushes keep the invariant.
LEMMA OthersKeepDaemonInv ==
    ASSUME DaemonInv, LeaseGoesStale \/ Judge \/ TrunkMoves
    PROVE  DaemonInv'
<1>1. DaemonTypeOK'
  BY LeaseKeepsTypes DEF DaemonInv
<1>2. UNCHANGED <<daemon, task, exchange, ws, branch, validated, late>>
  BY DEF LeaseGoesStale, Judge, TrunkMoves
<1>3. /\ job'.result \in {job.result, Failed}
      /\ accepted' \in {accepted, job.result}
  BY DEF LeaseGoesStale, Judge, TrunkMoves, DaemonInv, DaemonTypeOK
<1>4. Results'
  BY <1>2, <1>3 DEF DaemonInv, Results, Published, Failed
<1>5. Assigned' /\ TriedTwice' /\ OneInside' /\ WorkHasAnAuthor'
  BY <1>2 DEF DaemonInv, Assigned, TriedTwice, OneInside, WorkHasAnAuthor
<1>6. ASSUME NEW q \in Runners, daemon'[q].at = "working" PROVE Awaited(q)'
  BY <1>2, <1>6, AwaitedUntouched
<1> QED
  BY <1>1, <1>4, <1>5, <1>6 DEF DaemonInv

\* DaemonInv is an invariant of the daemon.
THEOREM DaemonInvariant == DaemonSpec => []DaemonInv
<1>1. DaemonInv /\ [DaemonNext]_daemonVars => DaemonInv'
  <2> SUFFICES ASSUME DaemonInv, [DaemonNext]_daemonVars PROVE DaemonInv'
    OBVIOUS
  <2>1. CASE DaemonNext
    BY <2>1, RunJobKeepsDaemonInv, DaemonStepKeepsDaemonInv, OthersKeepDaemonInv DEF DaemonNext
  <2>2. CASE UNCHANGED daemonVars
    <3>1. ASSUME NEW q \in Runners, daemon'[q].at = "working" PROVE Awaited(q)'
      BY <2>2, <3>1, AwaitedUntouched DEF daemonVars
    <3> QED
      BY <2>2, <3>1 DEF daemonVars, DaemonInv, DaemonTypeOK, Results, Published, Assigned,
                        TriedTwice, OneInside, WorkHasAnAuthor
  <2> QED
    BY <2>1, <2>2
<1> QED
  BY <1>1, DaemonInitInv, PTL DEF DaemonSpec

\* The commit of an accepted result is the one on the branch and stays there, and it was
\* validated as it is, whatever tasks outlive their leases, from their first call on
\* (daemon.py, run_job and run_with_heartbeat; workspace.py); it carries no work only if an
\* earlier task of the runner replaced the directory of a later one.
THEOREM AcceptedIsPublishedHolds == DaemonSpec => []AcceptedIsPublished
<1>1. DaemonInv => AcceptedIsPublished
  BY DEF DaemonInv, Results, Published, AcceptedIsPublished
<1> QED
  BY <1>1, DaemonInvariant, PTL


-----------------------------------------------------------------------------
(* The configurations *)

\* A configuration is accepted for one of the four runtimes that are known.
LEMMA RuntimeIsKnown ==
    ASSUME NEW c \in Configuration, Accepted(c)
    PROVE  c.runtime \in {"deterministic", "codex-cli", "claude-code-cli", "claude-agent-sdk"}
BY DEF Accepted, EnsureSupported, RUNTIME_COMPATIBILITY, Configuration, Runtime

\* What the table says of the runtime of a configuration that was accepted.
LEMMA AcceptedFitsItsRuntime ==
    ASSUME NEW c \in Configuration, Accepted(c)
    PROVE  \/ /\ c.runtime = "deterministic" /\ c.provider = "local"
              /\ c.authentication_mode = "NONE"
           \/ /\ c.runtime = "codex-cli" /\ c.provider = "openai"
              /\ c.authentication_mode \in {"LOCAL_SESSION", "API_KEY_REFERENCE"}
           \/ /\ c.runtime = "claude-code-cli"
              /\ c.provider \in {"anthropic", "zhipu-glm", "moonshot-kimi"}
              /\ c.authentication_mode \in {"LOCAL_SESSION", "API_KEY_REFERENCE"}
              /\ c.authentication_mode = "LOCAL_SESSION" => c.provider = "anthropic"
           \/ /\ c.runtime = "claude-agent-sdk" /\ c.provider = "anthropic"
              /\ c.authentication_mode = "API_KEY_REFERENCE"
<1> DEFINE row == RUNTIME_COMPATIBILITY[c.runtime]
<1>1. c.runtime \in Runtime \ {"unknown"}
  BY RuntimeIsKnown DEF Runtime
<1>2. /\ c.provider \in row.providers
      /\ c.authentication_mode \in row.authentication_modes
      /\ c.authentication_mode = "LOCAL_SESSION" => c.provider = row.local_session_provider
  BY DEF Accepted, EnsureSupported
<1>3. CASE c.runtime = "deterministic"
  <2>1. row = Compatibility({"local"}, {"NONE"}, TRUE, "none")
    BY <1>1, <1>3 DEF RUNTIME_COMPATIBILITY
  <2> QED
    BY <1>2, <1>3, <2>1 DEF Compatibility
<1>4. CASE c.runtime = "codex-cli"
  <2>1. row = Compatibility({"openai"}, {"LOCAL_SESSION", "API_KEY_REFERENCE"}, FALSE,
                            "openai")
    BY <1>1, <1>4 DEF RUNTIME_COMPATIBILITY
  <2> QED
    BY <1>2, <1>4, <2>1 DEF Compatibility
<1>5. CASE c.runtime = "claude-code-cli"
  <2>1. row = Compatibility({"anthropic", "zhipu-glm", "moonshot-kimi"},
                            {"LOCAL_SESSION", "API_KEY_REFERENCE"}, FALSE, "anthropic")
    BY <1>1, <1>5 DEF RUNTIME_COMPATIBILITY
  <2> QED
    BY <1>2, <1>5, <2>1 DEF Compatibility
<1>6. CASE c.runtime = "claude-agent-sdk"
  <2>1. row = Compatibility({"anthropic"}, {"API_KEY_REFERENCE"}, FALSE, "none")
    BY <1>1, <1>6 DEF RUNTIME_COMPATIBILITY
  <2> QED
    BY <1>2, <1>6, <2>1 DEF Compatibility
<1> QED
  BY <1>3, <1>4, <1>5, <1>6, RuntimeIsKnown

\* What the runner's catalog says of the providers it knows.
LEMMA Endpoints ==
    /\ DOMAIN PROVIDER_CATALOG = Provider \ {"unknown"}
    /\ PROVIDER_CATALOG["local"] = Endpoint("NONE", "none", {}, {"deterministic"})
    /\ PROVIDER_CATALOG["anthropic"]
         = Endpoint("ANTHROPIC_API_KEY", "none", {"api.anthropic.com"},
                    {"claude-agent-sdk", "claude-code-cli"})
    /\ PROVIDER_CATALOG["openai"]
         = Endpoint("OPENAI_API_KEY", "none", {"api.openai.com", "chatgpt.com"}, {"codex-cli"})
    /\ PROVIDER_CATALOG["zhipu-glm"]
         = Endpoint("ANTHROPIC_AUTH_TOKEN", "open.bigmodel.cn", {"open.bigmodel.cn"},
                    {"claude-code-cli"})
    /\ PROVIDER_CATALOG["moonshot-kimi"]
         = Endpoint("ANTHROPIC_AUTH_TOKEN", "api.moonshot.ai", {"api.moonshot.ai"},
                    {"claude-code-cli"})
BY DEF PROVIDER_CATALOG, Provider

\* A host of a provider is let through.
LEMMA HostsAreAllowed ==
    {"open.bigmodel.cn", "api.moonshot.ai"} \subseteq allowlisted_hosts
<1>1. /\ "zhipu-glm" \in DOMAIN PROVIDER_CATALOG
      /\ "open.bigmodel.cn" \in PROVIDER_CATALOG["zhipu-glm"].egress_hosts
  BY Endpoints DEF Endpoint, Provider
<1>2. /\ "moonshot-kimi" \in DOMAIN PROVIDER_CATALOG
      /\ "api.moonshot.ai" \in PROVIDER_CATALOG["moonshot-kimi"].egress_hosts
  BY Endpoints DEF Endpoint, Provider
<1> QED
  BY <1>1, <1>2 DEF allowlisted_hosts

\* Delivery's table and the runner's agree: every configuration that is accepted,
\* among all combinations of the names in either table, is one that the runner
\* starts; and its agent has a key that it reads and a host that it reaches unless
\* the configuration relies on a session, which no container has.
THEOREM AcceptedStarts ==
    ASSUME NEW c \in Configuration, Accepted(c)
    PROVE  /\ Starts(c, c.authentication_mode = "API_KEY_REFERENCE")
           /\ CanAuthenticate(c, c.authentication_mode = "API_KEY_REFERENCE")
                <=> c.authentication_mode # "LOCAL_SESSION"
<1>1. CASE c.runtime = "deterministic"
  <2>1. c.provider = "local" /\ c.authentication_mode = "NONE"
    BY <1>1, AcceptedFitsItsRuntime
  <2>2. Starts(c, c.authentication_mode = "API_KEY_REFERENCE")
    BY <1>1, <2>1, Endpoints DEF Starts, Provider, SUPPORTED_RUNTIMES, Capabilities,
       AdapterAccepts
  <2>3. CanAuthenticate(c, c.authentication_mode = "API_KEY_REFERENCE")
          <=> c.authentication_mode # "LOCAL_SESSION"
    BY <1>1, <2>1, Endpoints DEF CanAuthenticate, Volumes, SessionMount, KeyVariable, Endpoint,
       EGRESS_REQUIRED_RUNTIMES
  <2> QED
    BY <2>2, <2>3
<1>2. CASE c.runtime = "codex-cli"
  <2>1. c.provider = "openai"
        /\ c.authentication_mode \in {"LOCAL_SESSION", "API_KEY_REFERENCE"}
    BY <1>2, AcceptedFitsItsRuntime
  <2>2. Starts(c, c.authentication_mode = "API_KEY_REFERENCE")
    BY <1>2, <2>1, Endpoints DEF Starts, Provider, SUPPORTED_RUNTIMES, Capabilities,
       AdapterAccepts
  <2>3. CanAuthenticate(c, c.authentication_mode = "API_KEY_REFERENCE")
          <=> c.authentication_mode # "LOCAL_SESSION"
    BY <1>2, <2>1, Endpoints DEF CanAuthenticate, Volumes, SessionMount, KeyVariable, Endpoint,
       EGRESS_REQUIRED_RUNTIMES
  <2> QED
    BY <2>2, <2>3
<1>3. CASE c.runtime = "claude-code-cli"
  <2>1. /\ c.provider \in {"anthropic", "zhipu-glm", "moonshot-kimi"}
        /\ c.authentication_mode \in {"LOCAL_SESSION", "API_KEY_REFERENCE"}
        /\ c.authentication_mode = "LOCAL_SESSION" => c.provider = "anthropic"
    BY <1>3, AcceptedFitsItsRuntime
  <2>2. Starts(c, c.authentication_mode = "API_KEY_REFERENCE")
    BY <1>3, <2>1, Endpoints DEF Starts, Provider, SUPPORTED_RUNTIMES, Capabilities,
       AdapterAccepts
  <2>3. CanAuthenticate(c, c.authentication_mode = "API_KEY_REFERENCE")
          <=> c.authentication_mode # "LOCAL_SESSION"
    BY <1>3, <2>1, Endpoints, HostsAreAllowed DEF CanAuthenticate, Volumes, SessionMount, KeyVariable, Endpoint,
       EGRESS_REQUIRED_RUNTIMES
  <2> QED
    BY <2>2, <2>3
<1>4. CASE c.runtime = "claude-agent-sdk"
  <2>1. c.provider = "anthropic" /\ c.authentication_mode = "API_KEY_REFERENCE"
    BY <1>4, AcceptedFitsItsRuntime
  <2>2. Starts(c, c.authentication_mode = "API_KEY_REFERENCE")
    BY <1>4, <2>1, Endpoints DEF Starts, Provider, SUPPORTED_RUNTIMES, Capabilities,
       AdapterAccepts
  <2>3. CanAuthenticate(c, c.authentication_mode = "API_KEY_REFERENCE")
          <=> c.authentication_mode # "LOCAL_SESSION"
    BY <1>4, <2>1, Endpoints DEF CanAuthenticate, Volumes, SessionMount, KeyVariable, Endpoint,
       EGRESS_REQUIRED_RUNTIMES
  <2> QED
    BY <2>2, <2>3
<1> QED
  BY <1>1, <1>2, <1>3, <1>4, RuntimeIsKnown

\* Whatever the catalog offers to the web client is accepted when it is submitted.
THEOREM OfferedIsAccepted ==
    ASSUME NEW entry \in AGENT_CATALOG, NEW model \in entry.models
    PROVE  Accepted(Offered(entry, model))
<1> DEFINE c == Offered(entry, model)
<1>1. /\ entry.runtime \in {"codex-cli", "claude-code-cli", "claude-agent-sdk"}
      /\ entry.runtime = "codex-cli" => entry.provider = "openai"
      /\ entry.runtime = "claude-code-cli"
           => entry.provider \in {"anthropic", "zhipu-glm", "moonshot-kimi"}
      /\ entry.runtime = "claude-agent-sdk" => entry.provider = "anthropic"
  BY DEF AGENT_CATALOG, Entry
<1>2. /\ c.runtime = entry.runtime /\ c.provider = entry.provider /\ c.model = model
      /\ c.authentication_mode = "API_KEY_REFERENCE" /\ c.secret_reference = TRUE
      /\ c.is_development_substitute = FALSE
  BY DEF Offered
<1>3. InCatalog(c)
  BY <1>2 DEF InCatalog
<1>4. DOMAIN RUNTIME_COMPATIBILITY = Runtime \ {"unknown"}
  BY DEF RUNTIME_COMPATIBILITY
<1>5. entry.runtime \in DOMAIN RUNTIME_COMPATIBILITY
  BY <1>1, <1>4 DEF Runtime
<1>6. LET compatibility == RUNTIME_COMPATIBILITY[entry.runtime]
      IN  /\ entry.provider \in compatibility.providers
          /\ "API_KEY_REFERENCE" \in compatibility.authentication_modes
          /\ compatibility.is_development_substitute = FALSE
  BY <1>1, <1>5 DEF RUNTIME_COMPATIBILITY, Compatibility
<1>7. EnsureSupported(c)
  <2> HIDE DEF c
  <2> QED
    BY <1>2, <1>3, <1>5, <1>6 DEF EnsureSupported
<1> HIDE DEF c
<1>8. Accepted(c)
  BY <1>2, <1>7 DEF Accepted
<1> QED
  BY <1>8 DEF c

-----------------------------------------------------------------------------
(* The verification *)

\* A daemon past its lease has a verification; what was stored had been accepted.
VerificationInv ==
    /\ VerificationTypeOK
    /\ \A r \in Pool : runner[r].at \in {"leased", "probing", "failed", "passed"}
                           => runner[r].probe.key \in Keys
    /\ configuration # NoConfiguration => Accepted(configuration)

\* Nothing is leased, and there is no configuration.
LEMMA InitEstablishesVerificationInv ==
    ASSUME VerificationInit
    PROVE  VerificationInv
BY VerificationAssumption
   DEF VerificationInit, VerificationInv, VerificationTypeOK, Probe, NoProbe

\* Where a daemon goes, if the other variables keep their types.
LEMMA BecomesKeepsItsType ==
    ASSUME VerificationInv, NEW r \in Pool,
           NEW at \in {"unknown", "down", "idle", "leased", "probing", "failed", "passed"},
           NEW probe \in Probe, Becomes(r, at, probe),
           at \in {"leased", "probing", "failed", "passed"} => probe.key \in Keys
    PROVE  /\ runner' \in [Pool -> [at : {"unknown", "down", "idle", "leased", "probing",
                                          "failed", "passed"}, probe : Probe]]
           /\ \A q \in Pool : runner'[q].at \in {"leased", "probing", "failed", "passed"}
                                  => runner'[q].probe.key \in Keys
<1>1. runner' = [runner EXCEPT ![r] = [at |-> at, probe |-> probe]]
  BY DEF Becomes
<1>2. runner'[r] = [at |-> at, probe |-> probe] /\ \A q \in Pool \ {r} : runner'[q] = runner[q]
  BY <1>1 DEF VerificationInv, VerificationTypeOK
<1> QED
  BY <1>1, <1>2 DEF VerificationInv, VerificationTypeOK

\* A fault that is counted.
LEMMA ProbeFaultsAreCounted ==
    ASSUME VerificationInv, ProbeFault \/ UNCHANGED probeFaults
    PROVE  probeFaults' \in 0..MaxProbeFaults
BY VerificationAssumption DEF VerificationInv, VerificationTypeOK, ProbeFault

\* Enrolment and the administrator keep the invariant.
LEMMA AdministrationKeepsVerificationInv ==
    ASSUME VerificationInv,
           \/ TokenExpires \/ CreateConfiguration
           \/ \E r \in Pool : EnrollRunner(r) \/ RunnerStarts(r) \/ RunnerCrashes(r)
    PROVE  VerificationInv'
<1>0. NoProbe \in Probe
  BY DEF NoProbe, Probe
<1>1. CASE TokenExpires
  BY <1>1 DEF TokenExpires, VerificationInv, VerificationTypeOK
<1>2. CASE CreateConfiguration
  BY <1>2 DEF CreateConfiguration, VerificationInv, VerificationTypeOK
<1>3. ASSUME NEW r \in Pool, EnrollRunner(r) PROVE VerificationInv'
  BY <1>0, <1>3, BecomesKeepsItsType DEF EnrollRunner, VerificationInv, VerificationTypeOK
<1>4. ASSUME NEW r \in Pool, RunnerStarts(r) PROVE VerificationInv'
  BY <1>0, <1>4, BecomesKeepsItsType DEF RunnerStarts, VerificationInv, VerificationTypeOK
<1>5. ASSUME NEW r \in Pool, RunnerCrashes(r) PROVE VerificationInv'
  BY <1>0, <1>5, BecomesKeepsItsType, ProbeFaultsAreCounted
     DEF RunnerCrashes, VerificationInv, VerificationTypeOK
<1> QED
  BY <1>1, <1>2, <1>3, <1>4, <1>5

\* What changes only the row of one verification keeps the invariant.
LEMMA RowsKeepVerificationInv ==
    ASSUME VerificationInv, NEW k \in Keys,
           \/ CreateVerification(k) \/ VerificationGoesStale(k)
           \/ \E r \in Pool : OrphanRedeems(r, k) \/ OrphanEnds(r, k)
    PROVE  VerificationInv'
<1>1. CASE CreateVerification(k)
  BY <1>1 DEF CreateVerification, VerificationInv, VerificationTypeOK
<1>2. CASE VerificationGoesStale(k)
  <2>1. probeFaults' \in 0..MaxProbeFaults
    BY <1>2, ProbeFaultsAreCounted DEF VerificationGoesStale
  <2> QED
    BY <1>2, <2>1 DEF VerificationGoesStale, VerificationInv, VerificationTypeOK
<1>3. ASSUME NEW r \in Pool, OrphanRedeems(r, k) PROVE VerificationInv'
  BY <1>3 DEF OrphanRedeems, VerificationInv, VerificationTypeOK
<1>4. ASSUME NEW r \in Pool, OrphanEnds(r, k) PROVE VerificationInv'
  BY <1>4 DEF OrphanEnds, VerificationInv, VerificationTypeOK
<1> QED
  BY <1>1, <1>2, <1>3, <1>4

\* The steps of a daemon keep the invariant.
LEMMA ProbeKeepsVerificationInv ==
    ASSUME VerificationInv, NEW r \in Pool,
           \/ \E k \in Keys : LeaseVerification(r, k)
           \/ ProbeHeartbeat(r) \/ ProbeHeartbeatFails(r) \/ MakeProbeExchange(r)
           \/ RedeemCapability(r) \/ ProbeEnds(r) \/ SendVerdict(r)
    PROVE  VerificationInv'
<1> DEFINE probe == runner[r].probe
<1>0. /\ NoProbe \in Probe /\ probe \in Probe
      /\ \A k \in Keys : [NoProbe EXCEPT !.key = k] \in Probe
                         /\ [NoProbe EXCEPT !.key = k].key = k
      /\ \A b \in BOOLEAN : [probe EXCEPT !.secret = b] \in Probe
                            /\ [probe EXCEPT !.secret = b].key = probe.key
  BY DEF NoProbe, Probe, VerificationInv, VerificationTypeOK
<1>1. ASSUME NEW k \in Keys, LeaseVerification(r, k) PROVE VerificationInv'
  BY <1>0, <1>1, BecomesKeepsItsType DEF LeaseVerification, VerificationInv, VerificationTypeOK
<1>2. CASE ProbeHeartbeatFails(r)
  <2>1. probe.key \in Keys
    BY <1>2 DEF ProbeHeartbeatFails, VerificationInv
  <2>2. probeFaults' \in 0..MaxProbeFaults
    BY <1>2, ProbeFaultsAreCounted DEF ProbeHeartbeatFails
  <2>3. Becomes(r, "failed", [probe EXCEPT !.secret = FALSE])
    BY <1>2 DEF ProbeHeartbeatFails
  <2> QED
    BY <1>0, <1>2, <2>1, <2>2, <2>3, BecomesKeepsItsType
       DEF ProbeHeartbeatFails, VerificationInv, VerificationTypeOK
<1>3. CASE MakeProbeExchange(r)
  <2>1. probe.key \in Keys
    BY <1>3 DEF MakeProbeExchange, VerificationInv
  <2>2. Becomes(r, "failed", probe) \/ Becomes(r, "probing", probe)
    BY <1>3 DEF MakeProbeExchange
  <2>3. directory' \in [Pool -> SUBSET Keys]
    BY <1>3, <2>1 DEF MakeProbeExchange, VerificationInv, VerificationTypeOK
  <2> QED
    BY <1>0, <1>3, <2>1, <2>2, <2>3, BecomesKeepsItsType
       DEF MakeProbeExchange, VerificationInv, VerificationTypeOK
<1>4. CASE RedeemCapability(r)
  <2>1. probe.key \in Keys
    BY <1>4 DEF RedeemCapability, VerificationInv
  <2>2. Becomes(r, "probing", [probe EXCEPT !.secret = TRUE])
    BY <1>4 DEF RedeemCapability
  <2>3. /\ verification' = [verification EXCEPT ![probe.key].fresh = TRUE]
        /\ UNCHANGED <<tokens, configuration, orphan, directory, reports, probeFaults>>
    BY <1>4 DEF RedeemCapability
  <2>4. [probe EXCEPT !.secret = TRUE] \in Probe /\ [probe EXCEPT !.secret = TRUE].key \in Keys
    BY <1>0, <2>1
  <2> HIDE DEF probe
  <2>5. verification' \in [Keys -> [status : {"none", "QUEUED", "RUNNING", "PASSED", "FAILED"},
                                    leased_by : Pool \cup {NoMember}, fresh : BOOLEAN]]
    BY <2>1, <2>3 DEF VerificationInv, VerificationTypeOK
  <2> QED
    BY <2>2, <2>3, <2>4, <2>5, BecomesKeepsItsType DEF VerificationInv, VerificationTypeOK
<1>5. CASE ProbeEnds(r)
  <2>1. probe.key \in Keys
    BY <1>5 DEF ProbeEnds, VerificationInv
  <2>2. \/ Becomes(r, "failed", [probe EXCEPT !.secret = FALSE])
        \/ Becomes(r, "passed", [probe EXCEPT !.secret = FALSE])
    BY <1>5 DEF ProbeEnds
  <2> QED
    BY <1>0, <1>5, <2>1, <2>2, BecomesKeepsItsType
       DEF ProbeEnds, VerificationInv, VerificationTypeOK
<1>6. CASE SendVerdict(r)
  <2>1. probe.key \in Keys
    BY <1>6 DEF SendVerdict, VerificationInv
  <2>2. Becomes(r, "idle", NoProbe)
    BY <1>6 DEF SendVerdict
  <2>3. reports' \subseteq [from : Pool, key : Keys, success : BOOLEAN]
    <3>1. PICK success \in BOOLEAN : success = (runner[r].at = "passed")
      OBVIOUS
    <3>2. reports' = reports \cup {[from |-> r, key |-> probe.key, success |-> success]}
      BY <1>6, <3>1 DEF SendVerdict
    <3> QED
      BY <2>1, <3>2 DEF VerificationInv, VerificationTypeOK
  <2> QED
    BY <1>0, <1>6, <2>1, <2>2, <2>3, BecomesKeepsItsType
       DEF SendVerdict, VerificationInv, VerificationTypeOK
<1>7. CASE ProbeHeartbeat(r)
  <2>1. probe.key \in Keys
    BY <1>7 DEF ProbeHeartbeat, VerificationInv
  <2>2. /\ verification' = [verification EXCEPT ![probe.key].fresh = TRUE]
        /\ UNCHANGED <<tokens, configuration, runner, orphan, directory, reports, probeFaults>>
    BY <1>7 DEF ProbeHeartbeat
  <2> HIDE DEF probe
  <2> QED
    BY <2>1, <2>2 DEF VerificationInv, VerificationTypeOK
<1> QED
  BY <1>1, <1>2, <1>3, <1>4, <1>5, <1>6, <1>7

\* So do the reports, whichever arrive.
LEMMA ReportsKeepVerificationInv ==
    ASSUME VerificationInv, NEW c \in reports, CompleteVerification(c) \/ VerdictIsLost(c)
    PROVE  VerificationInv'
<1> DEFINE Rows == [status : {"none", "QUEUED", "RUNNING", "PASSED", "FAILED"},
                   leased_by : Pool \cup {NoMember}, fresh : BOOLEAN]
<1>1. CASE CompleteVerification(c)
  <2>1. verification \in [Keys -> Rows]
    BY DEF VerificationInv, VerificationTypeOK
  <2>2. \/ verification' = verification
        \/ \E s \in {"PASSED", "FAILED"} :
             verification' = [verification EXCEPT ![c.key].status = s, ![c.key].fresh = TRUE]
    BY <1>1 DEF CompleteVerification
  <2>3. verification' \in [Keys -> Rows]
    BY <2>1, <2>2
  <2>4. reports' \subseteq reports
        /\ UNCHANGED <<tokens, configuration, runner, orphan, directory, probeFaults>>
    BY <1>1 DEF CompleteVerification
  <2> QED
    BY <2>3, <2>4 DEF VerificationInv, VerificationTypeOK
<1>2. CASE VerdictIsLost(c)
  BY <1>2, ProbeFaultsAreCounted DEF VerdictIsLost, VerificationInv, VerificationTypeOK
<1> QED
  BY <1>1, <1>2

\* The invariant holds in every reachable state.
THEOREM VerificationInvariant == VerificationSpec => []VerificationInv
<1>1. VerificationInit => VerificationInv
  BY InitEstablishesVerificationInv
<1>2. ASSUME VerificationInv, [VerificationNext]_verificationVars PROVE VerificationInv'
  <2>1. CASE UNCHANGED verificationVars
    BY <1>2, <2>1 DEF verificationVars, VerificationInv, VerificationTypeOK
  <2>2. CASE VerificationNext
    <3>1. CASE TokenExpires \/ CreateConfiguration
      BY <1>2, <3>1, AdministrationKeepsVerificationInv
    <3>2. ASSUME NEW k \in Keys, CreateVerification(k) \/ VerificationGoesStale(k)
          PROVE  VerificationInv'
      BY <1>2, <3>2, RowsKeepVerificationInv
    <3>3. ASSUME NEW r \in Pool, VerifyingRunner(r) PROVE VerificationInv'
      BY <1>2, <3>3, AdministrationKeepsVerificationInv, RowsKeepVerificationInv,
         ProbeKeepsVerificationInv DEF VerifyingRunner
    <3>4. ASSUME NEW c \in reports, CompleteVerification(c) \/ VerdictIsLost(c)
          PROVE  VerificationInv'
      BY <1>2, <3>4, ReportsKeepVerificationInv
    <3> QED
      BY <2>2, <3>1, <3>2, <3>3, <3>4 DEF VerificationNext
  <2> QED
    BY <1>2, <2>1, <2>2
<1> QED
  BY <1>1, <1>2, PTL DEF VerificationSpec

\* The variables keep their types.
THEOREM VerificationTypeCorrect == VerificationSpec => []VerificationTypeOK
<1>1. VerificationInv => VerificationTypeOK
  BY DEF VerificationInv
<1> QED
  BY <1>1, VerificationInvariant, PTL

\* A configuration that was stored can be started by the runner, and its agent can
\* authenticate, if it names a key or needs none, and only then.
THEOREM StoredCanRun == VerificationSpec => []AcceptedCanRun
<1>1. VerificationInv => AcceptedCanRun
  <2> SUFFICES ASSUME VerificationInv, configuration # NoConfiguration
               PROVE  /\ Starts(configuration, NeedsSecret)
                      /\ CanAuthenticate(configuration, NeedsSecret)
                           <=> configuration.authentication_mode # "LOCAL_SESSION"
    BY DEF AcceptedCanRun
  <2>1. configuration \in Configuration /\ Accepted(configuration)
    BY VerificationAssumption DEF VerificationInv, VerificationTypeOK
  <2> QED
    BY <2>1, AcceptedStarts DEF NeedsSecret
<1> QED
  BY <1>1, VerificationInvariant, PTL

\* A verdict is given once and stands.
THEOREM VerdictStandsHolds == VerificationSpec => VerdictStands
<1> DEFINE Stands == \A k \in Keys : verification[k].status \in {"PASSED", "FAILED"}
                                         => verification'[k].status = verification[k].status
<1>1. ASSUME VerificationInv, VerificationNext PROVE Stands
  <2> SUFFICES ASSUME NEW k \in Keys, verification[k].status \in {"PASSED", "FAILED"}
               PROVE  verification'[k].status = verification[k].status
    OBVIOUS
  <2>0. verification \in [Keys -> [status : {"none", "QUEUED", "RUNNING", "PASSED", "FAILED"},
                                   leased_by : Pool \cup {NoMember}, fresh : BOOLEAN]]
    BY <1>1 DEF VerificationInv, VerificationTypeOK
  <2>1. ASSUME NEW j \in Keys, CreateVerification(j) \/ VerificationGoesStale(j)
        PROVE  verification'[k].status = verification[k].status
    BY <2>0, <2>1 DEF CreateVerification, VerificationGoesStale
  <2>2. ASSUME NEW r \in Pool, VerifyingRunner(r)
        PROVE  verification'[k].status = verification[k].status
    <3>1. ASSUME NEW j \in Keys,
                 LeaseVerification(r, j) \/ OrphanEnds(r, j) \/ OrphanRedeems(r, j)
          PROVE  verification'[k].status = verification[k].status
      BY <2>0, <3>1 DEF LeaseVerification, VerificationLeasable, OrphanEnds, OrphanRedeems
    <3>2. CASE EnrollRunner(r) \/ ProbeHeartbeat(r) \/ ProbeHeartbeatFails(r)
               \/ MakeProbeExchange(r) \/ RedeemCapability(r) \/ ProbeEnds(r) \/ SendVerdict(r)
               \/ RunnerCrashes(r) \/ RunnerStarts(r)
      BY <2>0, <3>2 DEF EnrollRunner, ProbeHeartbeat, ProbeHeartbeatFails, MakeProbeExchange,
         RedeemCapability, ProbeEnds, SendVerdict, RunnerCrashes, RunnerStarts
    <3> QED
      BY <2>2, <3>1, <3>2 DEF VerifyingRunner
  <2>3. ASSUME NEW c \in reports, CompleteVerification(c) \/ VerdictIsLost(c)
        PROVE  verification'[k].status = verification[k].status
    <3>1. CASE CompleteVerification(c)
      BY <2>0, <3>1 DEF CompleteVerification, HoldsVerification
    <3>2. CASE VerdictIsLost(c)
      BY <3>2 DEF VerdictIsLost
    <3> QED
      BY <2>3, <3>1, <3>2
  <2>4. CASE TokenExpires \/ CreateConfiguration
    BY <2>4 DEF TokenExpires, CreateConfiguration
  <2> QED
    BY <1>1, <2>1, <2>2, <2>3, <2>4 DEF VerificationNext
<1>2. VerificationInv /\ [VerificationNext]_verificationVars => [Stands]_verificationVars
  BY <1>1
<1> QED
  BY <1>2, VerificationInvariant, PTL DEF VerificationSpec, VerdictStands
=============================================================================
