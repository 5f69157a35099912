# MVP Master: a verification project

TLA+ models of the services in this repository, model-checked with TLC, and theorems
about them checked with TLAPS. Paths below are relative to the repository; `delivery`,
`control_plane` and `integrations` stand for `services/<name>/src/mvp_<name>`, and
`runner` for `runners/docker_runner/src/mvp_runner`.

## 1. The system

A client's intake becomes a specification and then a work item (control plane). A READY
work item travels as a domain event to the delivery service, which creates an *execution*,
waits for a reviewer, lets a runner work on it, verifies the result independently, repairs
a bounded number of times, and opens a pull request (integrations).

| component | state | operations | talks to |
|---|---|---|---|
| control plane (`control_plane/application/service.py`) | intakes, specifications, work items, approvals, outbox | submit an intake; draft, submit and approve its specification; review a work item and make it ready | outbox publisher |
| event outbox and inbox (`control_plane/entrypoints/outbox.py`, `delivery/entrypoints/events.py`) | outbox and routing rows, JetStream, inbox rows | publish a batch, consume a batch | delivery service |
| execution aggregate (`delivery/domain/models.py`) | one execution | approve, start_..., record_usage, request_repair, deliver, request_cancellation, cancel | - |
| delivery API and repository (`delivery/application/service.py`, `entrypoints/api.py`, `adapters/postgres.py`) | executions, runner_jobs, workflow_commands | accept, approve, cancel, lease, heartbeat, complete | command outbox, runners |
| command dispatcher (`delivery/entrypoints/workflow_dispatcher.py`) | undispatched commands | read a batch, start or signal, commit | Temporal |
| workflow and activities (`delivery/adapters/temporal_workflow.py`, `activities.py`) | signals received, activity attempts | wait, cancel-and-cleanup, execute-delivery | executions, runner_jobs, integrations |
| execution events (`delivery/adapters/postgres.py`, `entrypoints/api.py`) | execution_events rows, one stream for each client | append, stream, resume | web client |
| agent runtimes (`delivery/domain/agent_runtimes.py`, `runner/adapters/provider_catalog.py`, `agent_registry.py`) | tables | accept a configuration, choose an executor | - |
| runners of a pool (`delivery/entrypoints/api.py`) | enrolment tokens, runners, provider_verifications | enrol, lease and complete a verification | runner daemon |
| runner daemon (`runner/entrypoints/daemon.py`, `adapters/control_client.py`, `workspace.py`) | the leased job, a workspace, an exchange directory | lease, heartbeat, complete, clone, push, probe a provider | delivery, integrations |
| integrations (`integrations/application/service.py`, `entrypoints/api.py`, `reconcile.py`) | setup attempts, installations, repositories, webhook deliveries, capabilities, model credentials | connect, reconcile, webhook, exchange, pull request | GitHub |
| secret store (`integrations/adapters/encrypted_file_secrets.py`) | encrypted files | put, get, delete | - |
| web application (`apps/web`) | session cookie | pages | the APIs |

What is hard about it:

* **Snapshots written back.** Every service reads a row into a frozen or plain object,
  changes the object and copies its columns back. No session locks the row it changes or
  compares its version, so two sessions on one row overwrite each other.
* **Two steps that are not one transaction**: commit, then call (the pull request, Temporal,
  NATS), or call, then commit (the secret store, and every answer: FastAPI's session commits
  after the response). A crash or an error in between is met by a retry that starts from
  the state the first try left.
* **Leases without a token.** A call of a runner names the runner and the job but not the
  lease; two leases of one runner look the same, and the lease is checked without a lock, a
  while before the call commits.
* **Commands that are repeated.** A dispatcher's batch that fails is handed over again, START
  included, and Temporal refuses START only while a run of the workflow is open: a workflow
  that has closed is run once more on the same row.
* **Several actors on one execution**: reviewer, canceller, dispatcher, workflow, two
  attempts of one activity (a timed out one is not stopped), several runners.
* **Tasks that are not cancelled**: when a heartbeat fails, the runner's daemon goes on polling
  while the task it was waiting for works on, in the same directories.
* **Batches that commit as a whole**, so that one command or event that fails for ever
  holds up those behind it.

What makes each component correct is the list of properties in section 4 for the parts that
are modelled, and section 7 for those that are not yet.

## 2. The modules

| module | models | kind |
|---|---|---|
| `ExecutionAggregate` | `delivery/domain/models.py`: each command as a guard `Can...` and an operator | operators |
| `DeliveryExecution` | one execution: the API sessions, the dispatcher's effect, the runs of the workflow, its activities and their retries, the runner's effect on the job | specification, EXTENDS ExecutionAggregate |
| `DeliveryContract` | what delivery promises for a work item | abstract specification |
| `RunnerLease` | one runner job, several daemons, the endpoints behind lease, heartbeat and complete, the requeueing activity | specification |
| `RunnerJob` | the job as the workflow polls it | abstract specification |
| `WorkflowDispatcher` | several executions, their command outbox, the batches of one or several dispatchers, runs of their workflows | specification |
| `WorkItemIntake` | one intake in the control plane: its specification and work items, the requests on them, the outbox | specification of the control plane's steps |
| `EventDelivery` | outbox publisher, JetStream, the delivery service's event loop and inbox, `accept_ready_work_item` | specification, EXTENDS WorkItemIntake and composes with it |
| `EventLog` | the events of one execution: sessions that append, clients that stream | specification |
| `AgentRuntimes` | the configurations delivery accepts and those the runner can start | operators |
| `ProviderVerification` | enrolment in a pool, one agent configuration and its verifications | specification, EXTENDS AgentRuntimes |
| `RunnerDaemon` | `run_job` behind one runner job with a repository: directories, capabilities, branch | specification |
| `Installation` | one GitHub App installation: connection, webhook, reconciliation | specification |
| `PullRequest` | the calls that open the pull request of one branch, GitHub, default branch and access | specification |
| `IntegrationSecrets` | model credentials, the platform's GitHub App and their files; single-use capabilities | specification |
| `MC...` | values of the constants for TLC; `MCParts` puts six components in one run | |
| `..._proofs` | theorems | |

A definition whose name starts with `Bug` is a plausible mistake in the definition it stands
next to; no specification uses it. Each property was seen to fail when one of them takes the
place of the original.

### DeliveryExecution

`row` is the executions row as committed, `job` its runner_jobs row, `outbox` the
undispatched commands, START among them, `workflow` what Temporal knows and which run of it is
the latest, and `request`,
`cleanup` and `attempt` hold the open session of each API request, of
cancel-and-cleanup-execution and of each attempt of execute-delivery, by run and number.

A session is modelled the way SQLAlchemy runs it. `get_execution` returns a copy of the row
(step *read*; the aggregate's command runs on the copy). The ORM object behind it is not
referenced any more and the session's identity map is weak, so `session.get` in
`update_execution` reads the row again (step *reread*), and the flush writes just the columns
in which the copy differs from this second read (`Column`, `Flushed`). The verification
transaction of a poll calls `update_execution` twice with a flush in between
(`next_event_sequence` autoflushes); after the first flush the row is locked, and the second
call compares with what the first left, so together they write every column
(`VerifyCommits`). `Overlap = FALSE` restricts the model to sessions that do not overlap, so
that what depends on overlapping is told apart from what is wrong in any order.

`Faults` says which faults may happen: `"crash"` (a process dies between two steps; its
transaction is rolled back), `"timeout"` (Temporal gives up an attempt that goes on running:
`AttemptTimesOut` only marks it lost), `"refused"` (the pull request call fails or its
answer is lost), `"rollback"` (the dispatcher's batch is rolled back after it has handed a
command over, which therefore stays in the outbox and is handed over again: a second run of
the workflow begins with `DispatchStart`) and `"overtaken"` (a report that another lease has
overtaken replaces the result of a completed job, what `RunnerJob` calls `CompleteLate`).

Abstractions: turns, duration and cost are one counter (the code accumulates and checks them
in the same way); `version` is written and never read; a runner's result is the pair of
signals the rule tests and the cost; the row and the job read by one poll are read in one
step; two overlapping `create_runner_job` calls adopt one job (the loser of the race fails on
the unique constraint, which is the outcome of `AttemptCrashes`), and so does an attempt whose event
sequence collides; cancel-and-cleanup-execution does not overlap with a timed out try of
itself. A signal is handed over only to an open run; what a refused one does to a batch is in
`WorkflowDispatcher`. `MaxStarts` and `MaxScheduled` bound the runs and the attempts of all runs
together; they are bounds of the model, the code has none.

### RunnerLease

`job` is the row, with `fresh` for "leased_at is less than 45 s old". `lease_runner_job`
locks the row and is one step; heartbeat and complete read it without a lock, check the lease
and write at the commit, so a call is *sent*, *checked* and committed, and leases may be
granted and the job requeued in between. A call outlives its caller: `given_up` is 0 while the
daemon waits for it, and the number of the fault that made the daemon give it up afterwards.
`round` counts how often the job was queued and is carried by runners and calls as history
only: the code has nothing like it, and no guard reads it but its bound. `late` is history: the
rounds in which a complete has committed although it was `Overtaken`, that is, its caller had
given it up or the lease it was checked against was gone.

### WorkflowDispatcher

`commands` are the rows in the order of their ids, `dispatched` those with `dispatched_at`,
and `batch` says of each dispatcher which rows it has read and locked, which of them it has
handed over, and which it has skipped because another dispatcher had them locked
(`with_for_update(skip_locked=True)`); several dispatchers are in the model because
`docs/deployment.md:5` asks for independently scalable services. `SendFails` is a signal to a
workflow that is not open: it raises, nothing catches it, and the process ends with its
transaction rolled back; the model starts it again, as an operator would. The body of a
workflow is an outcome (`DeliveryRuns`), and one outcome is that it fails in every attempt and
leaves the row as it was. Command ids are assigned in commit order in the model. A status
`QUEUED` stands for every status from QUEUED to DELIVERING.

### WorkItemIntake

`table` holds the committed status of the intake, its specification and its work items, and
for a work item the terms of its execution (provider configuration, repository, runner pool,
budget) as one value. Each request is a *session*: `Begins` reads its rows and runs the
domain's command on the copies, `Rereads` and `RereadsIntake` are the second reading in
`update_...`, `Commits` flushes and commits. The columns written are those in which copy and
second reading differ, as in DeliveryExecution. A request on a specification reads the intake
again after the specification was flushed, so it holds the lock on the specification's row
from there on (`HoldsSpecification`). `stale` is history: how many sessions have committed
although a row they had read had changed meanwhile.

Abstractions: the rows of one request are read in one step; the approvals row is the creation
of the work item; refused requests change nothing and are left out, and so are roles,
organizations, projects and audit rows; versions are counted by the code and never compared.

### EventDelivery

The publisher reads a batch of routes, publishes them one by one and deletes them in one
transaction. JetStream drops a repeated `Nats-Msg-Id` or, when the first copy is older than
its deduplication window, stores it again (`Stored`). The durable consumer offers a message
until it is acknowledged (`OffersAgain`). The event loop fetches the first messages on offer
(`Fetches`), and handles each in a session: `StartsEvent` reads inbox, execution and provider
configuration, `AddsExecution` is the second look for an execution in `add_execution`, and
`CommitsEvent` commits unless the primary key of the inbox or the unique constraint on
executions forbids it. What raises ends the loop with its batch; the model starts it again.

`Spec` composes this with WorkItemIntake. `AnyNext` puts any producer in its place, one that
announces every item with every terms at any time; what holds beside it holds beside the
control plane, and larger instances become checkable. `AcceptsDirectly` is the other way to an
execution, `POST /api/v1/organizations/{id}/executions`: it takes any work item, READY or not,
and the caller's terms, and no event; `direct` are the items accepted that way, `MaxDirect`
bounds them. Several publishers and event loops are
in the model because `docs/deployment.md:5` asks for independently scalable services. `Known`
are the terms whose provider configuration delivery has. `faults` counts crashes and lost
acknowledgements; redelivery is not a fault and may happen at any time.

Left out: membership.changed events, which take the same way to another table; the
integrations service's consumer; events that the envelope's parser refuses.

### EventLog

`events` are the committed rows, `own` those a session has added. `append_event` takes one
more than the largest sequence its session sees, and the query flushes what the session has
changed before it: a session that has changed the executions row holds that row's lock from
its first number to its end (`lock`) and collides with nobody that does the same. A
retried execute-delivery changes nothing in `_enqueue` and takes its number without the lock
(`Plain`); the unique key decides, and the loser is rolled back (`RollBack`). A stream lists
the rows above the last it has sent, then reads the status in a second statement, and ends on
a terminal status or after `MaxIdle` empty rounds; a client resumes with `Last-Event-ID`.

### AgentRuntimes and ProviderVerification

AgentRuntimes holds the tables of both sides and the checks that read them: what
`ensure_supported` and `AgentProviderConfiguration` accept (`Accepted`), and what the runner's
registry, `job.py` and the adapters' environments need (`Starts`, `CanAuthenticate`); an agent
authenticates with a secret, or with a session in one of the directories that
`docker_agent.py` mounts (`Volumes`).
ProviderVerification adds the state: tokens, the configuration row, the verification rows by
idempotency key, what each daemon does, its orphaned probes and its directories, and reports
that are under way. Calls to delivery are atomic here; that a daemon
asks for a verification only when it gets no job is left out.

### RunnerDaemon

One runner job leased by several runners, each with disks of its own. `task` are the
`run_job` coroutines in the order of their leases; `at` is the statement each is about to run.
When a heartbeat fails, `run_with_heartbeat` reports a failure and the task goes on (`daemon`
is idle, the task is not over), so two tasks of one execution may work in one workspace.
`exchange` is the task that made the exchange directory, whose `mkdir` fails if it exists;
`ws` what the workspace holds, which `provision_empty` replaces. A commit is *whose agent* on
*which base*; a push succeeds if the branch is an ancestor. An orphan may be anywhere in its
work when the same runner leases the job again, at its first call too, and so may call
`provision_empty` on the directory of its successor: `late` says that one has. `accepted`,
`validated` and `late` are history. The job has a repository: the development fixture is left
out; and calls to delivery are atomic (RunnerLease has their interleavings).

### Installation

Each request to connect locks its setup attempt, lists the installation at GitHub and inserts
installation, routing and repositories; the key of the routing row decides. A webhook request
begins, inserts its delivery row, changes status or repositories and commits; the worker reads
the installations that are ACTIVE, asks GitHub, and writes what it found. `update_installation`
reads the row again, so a session reads, rereads and commits as in DeliveryExecution. `sent`
are the events at GitHub, delivered in any order and repeatedly. `revived` is history: the row
has left DISCONNECTED.

### PullRequest

What `CreatePullRequest` of DeliveryExecution takes for granted: a call of the internal or the
public endpoint reads repository and installation, looks for a pull request between branch and
default branch in any state, opens one if there is none, and adds a check run if it names a
commit. Each request to GitHub may fail before or after its effect (`OpeningFails`). People
close pull requests, change the default branch, withdraw and return access, and the rows follow
later (`KnowDefaultBranch`) or independently (`InstallationChanges`). `overtaken` is history.
GitHub's rule, one open pull request between two branches, is external. The rows of one call
are read at once, and its audit row is left out.

### IntegrationSecrets

`file` is what `encrypted_file_secrets.py` has on disk; a file is written and removed at once,
while rows commit with the request, after the answer. create, revoke and exchange of model
credentials, completing the platform's GitHub App manifest, and the redemption of source and
model capabilities are sessions of a few steps, each of which may fail or die
(`MaxFailedRequests`). An insert waits for an uncommitted one with its key. Signatures, expiry
and encryption are left out.

## 3. Runs

| run | configuration | result |
|---|---|---|
| `work_item_path` | 2 sessions, 2 work items, 2 events, 2 terms, 1 publisher, 1 event loop, stream of 2, 1 direct request, no fault | holds |
| `event_delivery` | any producer, 1 work item, 2 events, 1 terms, 1 publisher, 2 event loops that fetch 2, stream of 3, 1 direct request, 1 fault, fair | holds |
| `delivery_serial` | 1 approval, 1 cancellation, 2 tries, 2 runs with 3 attempts in all, budget 2 attempts and cost 1, costs 0 and 1; crashes, timeouts, refusals, rollbacks; no overlap | holds |
| `delivery_overlap` | 1 approval, 1 cancellation, 1 try, 2 runs, cost 0; timeouts, refusals, rollbacks; overlap | holds |
| `delivery_live` | 1 approval, 2 cancellations, 3 attempts in the budget, no faults but overtaken reports, no overlap, fair | holds |
| `lease` | 2 runners, 3 rounds, 2 faults, fair | holds |
| `dispatcher` | 2 executions, one of them cancellable, 2 dispatchers with batches of 2, 1 crash, fair | holds |
| `parts` | six components, one per behaviour, see below | holds |
| `delivery_reverted`, `delivery_stuck_delivering`, `dispatcher_stuck`, `ready_event_poisoned` | each a small instance that shows it | violated, section 5 |

`parts` explores six components that share no variable. Its initial states choose one of
them (`part`), and only that one moves: a behaviour of the run is a behaviour of one
component, so the run says about each of them exactly what a run of its own would, and nothing
of how they act on each other. Its bounds:

| component | instance |
|---|---|
| Installation | 2 organizations with 1 request to connect each, 2 webhook requests, 1 repository, 2 events, 1 change of the repositories, 1 failing session, fair worker |
| PullRequest | 3 calls with 2 commits and with none, 2 default branches, 2 interventions, 1 failing request |
| IntegrationSecrets | 2 creations of one key, 2 manifests, 3 redemptions of 2 capabilities, 1 failing request |
| RunnerDaemon | 2 runners, 2 rounds, 2 leases, 1 push of somebody else, 1 fault |
| EventLog | 3 sessions of 2 events (one without the lock, one that ends the execution), 1 client, 2 streams of 2 empty rounds |
| ProviderVerification | 2 runners with different runtimes, 2 tokens, 1 key, every configuration submitted, 2 faults |

Why the bounds are enough. Two sessions on one row are the fewest that overwrite each other,
two work items the fewest a doubled approval makes, two events the fewest that announce one
item twice or with other terms; a stream of three holds both events and a copy of one; two
event loops can hold one message, or two messages about one item, at once. Two activity
attempts are the fewest that overlap (in `delivery_overlap` they are attempts of two runs: the
first timed out, its workflow has closed, and START is repeated; a crash there is an attempt
that timed out or a session that never goes on, which the run has, and `delivery_serial` has
the crashes themselves), two budgeted attempts the fewest with one repair and
one exhaustion, one approval and one cancellation the fewest that race with each other, with
both activities and with both attempts. Three rounds let a call of the first round meet a
result of the last; two runners let a lease change hands, and two faults make a runner give
its call up and then overtake another. Batches of two divide the five
commands of two executions across START and signals, and two dispatchers are the fewest of
which one skips what the other has locked. In `parts`, two requests are the fewest
that race for one key, one installation or one capability; two tasks the fewest of which one
outlives its lease; one fault makes an orphan and leaves a second lease to meet it, two
faults lose a probe and then its report; two streams are one resumption. `work_item_path` uses the symmetry of
sessions, items and events (`Alike`), which is sound because no liveness property is checked
there and no definition tells them apart. Deadlock is not checked: an execution that is
settled, an intake whose items are all ready, and a bounded model in which every round or
request is over or the stream is full, do stop.

## 4. What holds

*Intake* (`work_item_path`, and proved): an item is announced only after its review, whatever
sessions overwrite (`AnnouncedAfterReview`). Overlapping sessions do make work items and
announcements too many: two approvals make two work items, and of two ready requests one may
win the row and the other the execution. `TablesAgree` says what this costs: each work item
beyond the one of an approved specification, and each announcement beyond the one of a ready
item, is the doing of a session that committed over a change it did not see, so n such sessions
make n at most; a ready item was announced; and without such a session the statuses of intake
and specification go together and what was announced is what the row says.
`ExecutionHasTheRecordedTerms`: whatever overlaps or fails, what delivery executes was announced
with just these terms in an event that it has consumed, or was requested directly; and the item's row
records these terms if no session was late. The direct request takes terms and an item of the
caller's choice; the documentation promises nothing else.

*Events* (`event_delivery`, and proved): none is lost (`NoEventIsLost`), none takes effect
twice (`AppliedAtMostOnce`), a work item gets one execution and one START
(`OneExecutionPerWorkItem`). `ReadyIsAccepted`: it gets them in the end if all announced
events name known configurations.

*Delivery, however sessions interleave, whatever fails and is handed over again*
(`delivery_overlap`, and proved): no work before a committed approval (`NoWorkBeforeApproval`);
DELIVERING, DELIVERED and the pull request rest on a result with both signals
(`DeliveredOnlyIfVerified`); DELIVERED comes after the pull request
(`DeliveredHasPullRequest`); cancelling excludes executing, unless the workflow is started
again (`CancelledIsWorkedOnOnlyIfRestarted`; a second run may put a cancelled execution to
work, see section 5). The recorded totals stay in the budget (`RecordedUsageWithinBudget`:
checked without overlap, proved with it).

*If sessions on an execution's row do not overlap* (`delivery_serial`, and proved), however
often the workflow runs: a CANCELLED row does not change and none of its results is judged,
DELIVERED is left only for a recorded cancellation that a repeated START carries out late, and
an accepted cancellation stays on record (`TerminalIsFinal`); judged results are
counted (`EveryJudgementIsCounted`); the columns agree, and a pull request is on the row of a
delivered execution or one cancelled in that way (`ColumnsAgree`); and
`DeliveryExecution` implements `DeliveryContract` (`ImplementsContract`; the refinement maps
the status to a stage, the attempt count to the runs, the pull request to itself and a second
run of the workflow to `again`, which allows a withdrawal at any stage and nothing else). With
`Overlap = TRUE` the first of these also loses accepted cancellations.

*Liveness of delivery* (`delivery_live`): an approved execution settles, an unapproved one
that is cancelled becomes CANCELLED, if nothing fails and the results stay in the budget;
reports of overtaken leases may replace a result before, between and after the polls that read
it, which also leaves `DeliveredOnlyIfVerified` as it is. The theorems about delivery hold with such
reports too: `"overtaken"` is one of the `Faults`.

*Leases* (`lease`, and proved except liveness): the result that is judged is the work of the
round that was queued last, unless a complete that was overtaken, given up by its caller or
checked against a lease that has gone, was committed in that very round
(`ResultOfThisRound`); as long as nothing crashes, times out or is held up for 45 s, no complete
is overtaken, however checks and commits interleave with leases (`OvertakenAfterFault`); and
`RunnerLease` implements `RunnerJob` (`ImplementsRunnerJob`), which is what delivery relies on: a
result stands until the requeue, but for a late complete, which may bring the work of any round
so far. A queued job is completed in the end (`QueuedIsCompleted`). That a late complete can be
accepted is what `docs/runner-protocol.md:66-68` and README.md:272 leave open (fencing tokens are
still to come), so it is no finding.

*Dispatcher* (`dispatcher`, and proved): a committed command is in the outbox or was taken by
Temporal (`NoCommandIsLost`); a signal comes before the START of its workflow only when its
dispatcher had to skip that START because another one had it locked (`StartedBeforeSignalled`;
with a single dispatcher never, `AloneInOrder`). While nothing is cancelled, no dispatcher
crashes and none has to skip a row that another has locked, which a single dispatcher never
has, the workflow of an approved execution works
on it and ends (`ApprovedIsWorkedOn`; not proved); whether it settles is a matter of
`DeliveryExecution`. With batches that overlap that is false: a signal that comes before its START fails and
rolls its batch back, an APPROVE that was handed over in that batch is handed over again,
and its workflow may have closed by then, which is the stuck outbox of section 5.

*Events of an execution* (`parts`, and proved): what a client was shown when it resumes is all
that is committed up to its last event, each once (`NothingIsSkipped`).

*Runtimes* (`parts`, and proved): the two tables agree for every configuration, so what
delivery stores can be started by a runner that has its runtime, and its agent can authenticate
exactly if the configuration does not rely on a local session (`AcceptedCanRun`).
*Verifications* (`parts`, and proved): a verdict stands (`VerdictStands`).

*Runner daemon* (`parts`, and proved): the commit of an accepted result with work in it is the
one on the execution's branch, and it was validated just as it is (`AcceptedIsPublished`),
although orphaned tasks share directories with later ones: the exchange directory is made once
and the push is not forced, so of two tasks in one directory at most one gets to push. A commit
without work, the tip of the default branch, is accepted only if an earlier task has replaced
the directory of a later one, which happens (section 5).

*Installation* (`parts`, and proved except the last): one organization gets it and a refused
request leaves its attempt usable (`ConnectedOnce`); nothing revives a disconnected
installation but the commit of a session that had read its row before
(`DisconnectedIsFinal`); until then a deletion that was delivered keeps it disconnected, in
whatever order and however often events arrive (`DeletionStands`); a repository withdrawn at
GitHub is revoked in the end (`WithdrawnIsRevoked`). Suspensions that arrive out of order leave
the status of the last one to arrive; the documentation promises no order.

*Pull requests* (`parts`, and proved): calls that overlap, fail half-way or are repeated share
one pull request for each default branch, unless it is closed under a call that has just looked
for it, and an answer comes after the check run (`PullRequestIsShared`).

*Secrets* (`parts`, and proved): a revoked credential has no file, an active one has its file
unless somebody has tried to revoke it, a configuration has its secrets
(`SecretsFollowRows`); a source capability gives a second token only if the request that gave
the first failed to commit after its answer (`SourceCapabilityIsSingleUse`).

### Fairness

Weak fairness of the API's open sessions, the dispatcher, the workflow, the activity workers
and the runner: each is a loop that polls (`while True` with a sleep) or a step Temporal
schedules. No fairness on requests of users and none on faults. In `RunnerLease` the lease of
each polling runner and the server are weakly fair, and `SendComplete` is strongly fair,
because a heartbeat interrupts the work again and again while `run_job` is bounded by its
timeouts and ends. In `EventDelivery` the publisher and each event loop are weakly fair
(`while True`), and so is JetStream's offering again of each pending message, which its
acknowledgement timeout brings about; requests of the control plane are not. In
`Installation` only the reconciliation worker is weakly fair (`while True`, reconcile.py);
webhooks and GitHub are not. The daemon, the
dispatcher and the event loop are assumed to be started again when they die.

## 5. What the documentation says and the code does not do

Each is one run whose property fails; the trace is TLC's counterexample.

* **DELIVERED can be taken back** by a session that read the row before
  (`postgres.py:654`, README.md:171-173, 187).
* **A refused pull request leaves DELIVERING for ever** (`activities.py:145`, ADR 0003:12).
* **A signal to a closed workflow stops the dispatcher for everybody**
  (`workflow_dispatcher.py:49`, README.md:139-140).
* **An event with an unknown provider configuration stops the event loop for everybody**
  (`delivery/entrypoints/events.py:76`, docs/architecture.md:55). The control plane takes any
  provider configuration id; `accept_ready_work_item` raises for one it does not know, the
  message is never acknowledged and is offered again before those behind it.

What follows breaks a promise of the documentation as well. No run is spent on it, because a
property that holds names it as the exception it makes; in the same models TLC reaches each of
the states described when the property is checked without the exception.

* **A result over the budget leaves BUILDING for ever** (`activities.py:86`; README.md:192 draws
  an edge to FAILED): `record_usage` raises in every attempt and nothing calls `fail()`
  (`ClosedWorkflowLeavesSettled` with costs and no refusal).
* **A repeated START puts a cancelled execution to work** (`workflow_dispatcher.py:60`,
  ADR 0003:12): the batch is rolled back after the workflow has cancelled the execution and
  closed; START and APPROVE are handed over again, and `_enqueue` creates a runner job for a
  row that it leaves CANCELLED (`Restarted` in `CancelledIsWorkedOnOnlyIfRestarted`).
* **A repeated START cancels a delivered execution** (`domain/models.py:246`,
  README.md:171-193), without any overlap of sessions: `cancel()` does not look at the status
  (`Restarted` in `TerminalIsFinal` and `ColumnsAgree`).
* **LOCAL_SESSION is accepted and has no session** (`docker_agent.py:63`,
  docs/agent-provider-integration.md:126-128): the settings for its directory are read by
  nobody, and workspace and exchange are all that is mounted (`AcceptedCanRun`).
* **The default branch is accepted as the work of an execution** (`daemon.py:165`,
  docs/runner-protocol.md:48, README.md:42-43). A task whose heartbeat failed waits up to 30 s
  for its source credential and then replaces the directory in which the next task of the same
  execution is about to push (`late` in `AcceptedIsPublished`).
* **A disconnected installation is reactivated** (`integrations/application/service.py:178`,
  `integrations/domain/models.py:77`): reconciliation writes back the status it had read before
  the webhook of the deletion was processed (`AnOlderSessionCommits` in `DisconnectedIsFinal`).

Behaviours the models contain that no run is spent on, because nothing in the repository
promises otherwise or the promise is weaker than a property:

* A cancellation after the workflow has begun to execute is recorded and ignored
  (`temporal_workflow.py:51`; the diagram in README.md:188-191 draws the edge).
* Webhooks of an installation are applied in the order in which they arrive, and those that
  arrive before the connection is made are answered 404 and are lost.
* `create_pull_request` does not look at its idempotency key: a retry after the default branch
  has changed opens a second pull request, and one after a pull request was closed is answered
  with the closed one. It asks whether the installation is ACTIVE and not whether the
  repository is REVOKED; GitHub refuses then.
* A stream reads events and status in two statements and may end without the final event; the
  web client does not reconnect.
* After a crash, or beside an orphaned task, the exchange directory is in the way of every
  later attempt at the same execution on that host; after a push that was not reported every
  later push is refused. Both end in AWAITING_HUMAN.
* `exchange_model_credential` inserts its redemption at the commit, after the answer, so two
  concurrent redemptions may both be answered (`api.py:964` calls it one-time). Two overlapping
  creations with one key may answer with an id that has no row; two setup requests that have
  both begun may both complete.
* A direct request executes a work item that is not READY, with terms of the caller's choice.
* A complete that another lease has overtaken is accepted (fencing tokens are announced).
* A verification goes to any runner of the pool, whatever it advertises, and FAILED may say
  only that the wrong runner took it. A repeated idempotency key with another configuration
  answers the old row.

## 6. What is proved

For all values of the constants that satisfy the named assumptions (`BudgetAssumption`,
`DeliveryAssumption`, `LeaseAssumption`, `IntakeAssumption`, `EventDeliveryAssumption`,
`DispatcherAssumption`, `EventLogAssumption`, `VerificationAssumption`,
`InstallationAssumption`, `PullRequestAssumption`, `SecretsAssumption`, `DaemonAssumption`).
One further condition is a hypothesis of the theorems that need it, not an assumption of the
module: `~Overlap` in DeliveryExecution, a value the constant may take, and the run of the
property takes it. `AloneInOrder` has the hypothesis that there is a single dispatcher. Every
invariant and every action property that a passing run checks has a theorem, and so has the type invariant of every
specification: `TypeCorrect`, `LogTypeCorrect` and the like, or a conjunct of the invariant
that a theorem names (`DaemonTypeOK` of `DaemonInv`, `PullRequestTypeOK` of `PullRequestInv`).

`DeliveryExecution_proofs`: `TypeCorrect` first. `NoWorkBeforeApproval` is not inductive; the
approval travels from the request's commit over the outbox and the workflow's flag to the
first attempt of a run, so `Control` says at each station that the one before was passed
(`ApprovalIsPassedOn`) and that the two branches of a run exclude one another
(`Branch`); both `NoWorkBeforeApproval` and `CancelledIsWorkedOnOnlyIfRestarted` follow from it.
The properties of evidence must survive stale writes, so what they say of the committed row
has to hold of every snapshot that may still be written: `Evidence` asserts `Sound` of the
row and of each session's copy, and `AttemptSound` of what each attempt has seen.
`RecordedUsageWithinBudget`, `DeliveredOnlyIfVerified` and `DeliveredHasPullRequest` follow.

The second half of the module assumes `~Overlap`, because what it proves is false otherwise
(`delivery_reverted` shows it for one of the properties): with overlapping sessions a flush
writes a column of a row that is not committed any more. `Serial` says that at most one session
is open (`Alone`), that what it has read is the committed row and what it is about to write is
a command of the aggregate applied to it (`RequestFresh`, `CleanupFresh`, `AttemptFresh`), and
where the row can be (`Placed`): an execution no attempt has begun has not been worked on, and
one attempt at most delivers, of all runs together, while the row says DELIVERING or after a
second run has cancelled it (`Withdrawn`). The last is not about sessions at
all: an attempt that Temporal has given up goes on and opens the pull request beside its
successor if nothing keeps it out of DELIVERING. From `Serial`, and what was proved before,
`StepSerial` shows that every step of the specification, faults included, changes row, history
and pull request as `RowStep` says: not at all, or by one command of the aggregate that was
allowed. `EveryJudgementIsCounted` and `ColumnsAgree` are inductive under `RowStep`,
`TerminalIsFinal` is a property of one, and `ImplementsContractHolds` maps each of its
alternatives to a step of `DeliveryContract` or to a stutter.

`RunnerLease_proofs`: `TypeCorrect`; then `IInv`, which has three parts. `CallsInRound`: work and
calls belong to rounds that have begun, and a call that is awaited is awaited by its own runner.
`LeaseInRound`: whoever holds the lease works for the current round, if it works at all, and so
does whoever completed it, unless a report of this round was overtaken. Of a call that has passed
its check nothing is said of the lease, which may be gone by its commit. `FaultFree`, before the first fault: every
call is awaited, one that has passed its check still holds the lease, and the holder is at work,
so that no lease goes stale. `ResultOfThisRound` and
`OvertakenAfterFault` follow, and step by step `LeaseImplementsJob`, all for any interleaving.

`EventDelivery_proofs`: for both compositions, beside the control plane and beside any
producer. The control plane enters only through `ControlProduces`: each of its steps leaves
the outbox alone or adds one event. None of the three properties is inductive. `StreamInv`
says that a route is deleted only when its event is in the stream and a message acknowledged
only when its event is in the inbox, which gives `EventsAreKept`; `WorkerInv` says what an
event loop's decision still implies when it commits, long after the rows it rests on were
read; with it `EffectInv` keeps inbox, executions, STARTs and effects in step, and
`AtMostOnce` and `OneExecution` follow.

The same module proves the properties of the intake. `AnnouncedAfterReview` holds even of
stale sessions, because no session, however late, takes an item from REVIEWED or READY to
anything but these two (`ReadyInv`). `CountInv` pays for the rest: every commit that adds a work
item or an announcement either moves the row that accounts for it or was late, which `stale`
counts. `Story` is what the tables tell while `stale` is 0, the last part of `TablesAgree`; a
session that commits without being late found the committed row equal to what it read, so its
flush writes just what the command says. `TermsInv`, that an execution that was not requested directly has the
terms of some event in the inbox, joins it to delivery for `ExecutionHasTheRecordedTerms`; it
needs that events never change. `BatchInv` completes the types.

`WorkflowDispatcher_proofs`: `DispatcherInv` says that what was handed over is accepted, that
an accepted command's execution has a workflow, that every command has the START of its
execution before it in the table (`Ordered`), and that a dispatcher that has read a command has
read that START too, or had to skip it, or found it handed over (`ReadInOrder`); the last is what
carries `StartedBeforeSignalled` over batch boundaries and rollbacks, for any number of
dispatchers. A single dispatcher skips nothing, hence `AloneInOrder`.
`NoCommandIsLost` rests on `IssuedIsThere` and on a batch being committed only when it was
handed over (`SentIsHanded`).

`EventLog_proofs`: `LogInv` says that the committed numbers are 1 to `Count` (`Numbered`),
that a session's own rows continue them without a gap or collide with a committed one and so
can never commit (`Follows`), and that a reader was shown a beginning of the log and holds the
stretch that follows it (`Holds`). The two properties follow. The lock plays no part in them:
it only spares sessions the collision.

`RunnerDaemon_proofs`: `AcceptedIsPublished` compares the accepted result with a branch that
other tasks may be pushing to, so `DaemonInv` follows a commit from the agent to the result.
`OneInside`: a task is between making and removing the exchange directory only if the directory
is its own, which keeps two tasks of one host apart whatever has become of their leases.
`WorkHasAnAuthor`: what was changed in a workspace was changed by the task that has the
directory. `Awaited` is about the task a working daemon waits for: it is the latest of its
runner, the workspace is the one it made or gone unless an earlier task has replaced it (`late`), and past
validation its commit was validated, past the push it is the branch (`Published`). A push that
is not forced fails on a branch that holds another task's commit, so what is published stays
(`Results`). Orphaned tasks may be anywhere: nothing of `Awaited` is asked of them, because
their results go nowhere, and what they do to the directory of another task leaves a clone
without work. `TriedTwice` keeps the count of rebases in its type.

The module also has the theorems about runtimes and verifications: `AcceptedStarts` and
`OfferedIsAccepted` go through both tables for every configuration, not only for those of an
instance; what starts is proved without exception, what authenticates except for LOCAL_SESSION.
`StoredCanRun` adds that only accepted configurations are stored, and
`VerdictStandsHolds` that no step, report or lease leads away from a verdict.

`IntegrationSecrets_proofs`: `SecretsInv` says for each session what its step implies of row
and file: the file is there from before the row is inserted until a revocation deletes it, and
it is deleted before the row says so (`CredentialFile`, `SetupFiles`); and that one request at
a time has taken a source capability, and none a redeemed one (`OneTakes`).

`Installation_proofs`: `InstallationInv` has a part for the connection (`OneConnection`), gives
each open webhook session a delivery of its own that is not recorded yet, and on a row it has
read as disconnected only a deletion (`Sessions`), and says that until it is revived the row is
disconnected if a deletion is recorded or a session has reread it as such (`Disconnection`).
`DeletionStandsHolds` and `DisconnectedStays` rest on the last two: of all commits only those
that carry an older status can revive the row. The module
also proves `OnePullRequest`: what makes `PullRequestIsShared` inductive is that a call which
is to open a pull request would be refused by every one it has not seen (`OpenerKnows`).

Only model-checked: the liveness properties (`ApprovedSettles`, `CancellationIsCarriedOut`,
`QueuedIsCompleted`, `ApprovedIsWorkedOn`, `ReadyIsAccepted`, `WithdrawnIsRevoked`), because
TLAPS has no rules for ENABLED and fairness.

## 7. What is not modelled, and what is left to do

To do, in this order:

1. What the abstract specifications still take for granted of each other: `DeliveryExecution`
   uses the job as `RunnerJob` promises it and the commands as `WorkflowDispatcher` keeps them,
   by reading, not by a composed refinement.
2. membership.changed events and the consumers of both services.

Small components share a run, so that the number of runs stays that of the questions asked.

Left out for good: the agents, containers and the egress proxy (their outcome is any
verdict), cryptography, the local development connector, logging and metrics, the web pages,
migrations and generated contracts.
