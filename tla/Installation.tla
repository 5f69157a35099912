---------------------------- MODULE Installation ----------------------------
(***************************************************************************)
(* One GitHub App installation in the integrations service: the sessions   *)
(* of complete_github_installation that compete to connect it, the         *)
(* webhook, the reconciliation worker (api.py, service.py, reconcile.py)   *)
(* and the rows they read and write (postgres.py).                         *)
(*                                                                         *)
(* Nothing but a setup attempt is read under a lock.  update_installation  *)
(* reads the row again before it assigns the status that was read earlier, *)
(* and the flush writes the column only if the assignment changed it, so   *)
(* each session reads, rereads and commits.  A session ends with one       *)
(* commit, which a unique key may refuse, or is rolled back.               *)
(* A definition named Bug... is a variant of the one it precedes with a    *)
(* mistake in it; no specification uses it.                                *)
(***************************************************************************)
EXTENDS Naturals, Sequences

CONSTANTS Organizations,
          NoOrganization,
          Connects,     \* requests to connect: <<organization, number>>
          NoConnect,
          Requests,     \* requests that GitHub sends to the webhook
          Repositories,
          MaxEvents,    \* how often GitHub suspends, unsuspends or deletes
          MaxChanges,   \* how often a repository is added or withdrawn
          MaxFailures   \* how many sessions fail

ASSUME InstallationAssumption ==
    /\ NoOrganization \notin Organizations
    /\ Connects \subseteq Organizations \X Nat
    /\ NoConnect \notin Connects
    /\ {MaxEvents, MaxChanges, MaxFailures} \subseteq Nat

VARIABLES
    github,     \* the installation at GitHub: status and repositories
    sent,       \* the installation events at GitHub; a delivery id is an index
    changes,    \* how often the repositories have changed
    enabled,    \* is the source-control configuration enabled?
    attempt,    \* each organization's setup attempt: used, and who has it locked
    routing,    \* the organization of the routing and the installation row
    status,     \* the status of the installation row
    repo,       \* the access status of the repository rows
    connect,    \* the sessions of complete_github_installation
    hook,       \* the sessions of the webhook
    deliveries, \* the webhook_deliveries rows, in the order of their commits
    worker,     \* the session of the reconciliation worker
    revived,    \* history: has the row left DISCONNECTED?
    failures

installationVars == <<github, sent, changes, enabled, attempt, routing, status, repo, connect,
                      hook, deliveries, worker, revived, failures>>

Status == {"ACTIVE", "SUSPENDED", "DISCONNECTED"}
EventAction == {"suspend", "unsuspend", "deleted"}

InstallationTypeOK ==
    /\ github \in [status : Status, repositories : SUBSET Repositories]
    /\ sent \in Seq(EventAction) /\ Len(sent) <= MaxEvents
    /\ changes \in 0..MaxChanges
    /\ enabled \in BOOLEAN
    /\ attempt \in [Organizations -> [used : BOOLEAN, lock : Connects \cup {NoConnect}]]
    /\ routing \in Organizations \cup {NoOrganization}
    /\ status \in Status \cup {"none"}
    /\ repo \in [Repositories -> {"none", "ACTIVE", "REVOKED"}]
    /\ connect \in [Connects -> [at : {"new", "granted", "listed", "committed", "failed"},
                                 listed : SUBSET Repositories]]
    /\ hook \in [Requests -> [at : {"new", "read", "reread", "ended"}, delivery : 0..MaxEvents,
                              read : Status \cup {"none"}, base : Status \cup {"none"}]]
    /\ deliveries \in Seq(1..MaxEvents)
    /\ worker \in [at : {"idle", "read", "listed", "reread"},
                   listed : SUBSET Repositories, base : Status \cup {"none"}]
    /\ revived \in BOOLEAN
    /\ failures \in 0..MaxFailures

Over == [at |-> "ended", delivery |-> 0, read |-> "none", base |-> "none"]

WorkerAtRest == [at |-> "idle", listed |-> {}, base |-> "none"]

\* start_github_installation has made an attempt for each organization.
InstallationInit ==
    /\ github \in [status : {"ACTIVE"}, repositories : SUBSET Repositories]
    /\ sent = <<>>
    /\ changes = 0
    /\ enabled = TRUE
    /\ attempt = [o \in Organizations |-> [used |-> FALSE, lock |-> NoConnect]]
    /\ routing = NoOrganization
    /\ status = "none"
    /\ repo = [x \in Repositories |-> "none"]
    /\ connect = [c \in Connects |-> [at |-> "new", listed |-> {}]]
    /\ hook = [h \in Requests |-> [at |-> "new", delivery |-> 0, read |-> "none",
                                   base |-> "none"]]
    /\ deliveries = <<>>
    /\ worker = WorkerAtRest
    /\ revived = FALSE
    /\ failures = 0

-----------------------------------------------------------------------------
(* GitHub *)

\* The status an event leaves, at GitHub and (suspend, activate and disconnect
\* of the domain) on the row.
StatusAfter(action) ==
    CASE action = "suspend"   -> "SUSPENDED"
      [] action = "unsuspend" -> "ACTIVE"
      [] action = "deleted"   -> "DISCONNECTED"

GitHubEvent ==
    /\ Len(sent) < MaxEvents
    /\ \E action \in EventAction :
         /\ action = "suspend" => github.status = "ACTIVE"
         /\ action = "unsuspend" => github.status = "SUSPENDED"
         /\ action = "deleted" => github.status # "DISCONNECTED"
         /\ github' = [github EXCEPT !.status = StatusAfter(action)]
         /\ sent' = Append(sent, action)
    /\ UNCHANGED <<changes, enabled, attempt, routing, status, repo, connect, hook,
                   deliveries, worker, revived, failures>>

RepositoryChange ==
    /\ changes < MaxChanges
    /\ changes' = changes + 1
    /\ \E x \in Repositories :
         github' = [github EXCEPT !.repositories =
                      IF x \in @ THEN @ \ {x} ELSE @ \cup {x}]
    /\ UNCHANGED <<sent, enabled, attempt, routing, status, repo, connect, hook,
                   deliveries, worker, revived, failures>>

\* An operator disables the configuration.
Disable ==
    /\ enabled
    /\ enabled' = FALSE
    /\ UNCHANGED <<github, sent, changes, attempt, routing, status, repo, connect, hook,
                   deliveries, worker, revived, failures>>

SessionFails == failures < MaxFailures /\ failures' = failures + 1

-----------------------------------------------------------------------------
(* Connecting *)

Attempt(c) == attempt[c[1]]

\* consume_connector_setup_attempt: FOR UPDATE, until the session ends.
ConsumeAttempt(c) ==
    /\ connect[c].at = "new"
    /\ Attempt(c).lock = NoConnect
    /\ IF Attempt(c).used \/ ~enabled
       THEN /\ connect' = [connect EXCEPT ![c].at = "failed"]
            /\ UNCHANGED attempt
       ELSE /\ connect' = [connect EXCEPT ![c].at = "granted"]
            /\ attempt' = [attempt EXCEPT ![c[1]].lock = c]
    /\ UNCHANGED <<github, sent, changes, enabled, routing, status, repo, hook,
                   deliveries, worker, revived, failures>>

\* The user's token, the installation and its repositories, from GitHub.
ListForConnection(c) ==
    /\ connect[c].at = "granted"
    /\ github.status = "ACTIVE"
    /\ connect' = [connect EXCEPT ![c] = [at |-> "listed", listed |-> github.repositories]]
    /\ UNCHANGED <<github, sent, changes, enabled, attempt, routing, status, repo, hook,
                   deliveries, worker, revived, failures>>

BugRouted(c) == routing = c[1]
\* The key (provider, external_account_id) of the routing rows.
Routed(c) == routing # NoOrganization

CommitConnection(c) ==
    /\ connect[c].at = "listed"
    /\ ~Routed(c)
    /\ connect' = [connect EXCEPT ![c] = [at |-> "committed", listed |-> {}]]
    /\ attempt' = [attempt EXCEPT ![c[1]] = [used |-> TRUE, lock |-> NoConnect]]
    /\ routing' = c[1]
    /\ status' = "ACTIVE"
    /\ repo' = [x \in Repositories |->
                  IF x \in connect[c].listed THEN "ACTIVE" ELSE "none"]
    /\ UNCHANGED <<github, sent, changes, enabled, hook, deliveries, worker, revived, failures>>

\* GitHub, or a key, refuses, or (a failure) something else goes wrong: used_at
\* is rolled back with the rest.
RollBackConnection(c) ==
    /\ connect[c].at \in {"granted", "listed"}
    /\ IF Routed(c) \/ github.status # "ACTIVE" THEN UNCHANGED failures ELSE SessionFails
    /\ connect' = [connect EXCEPT ![c] = [at |-> "failed", listed |-> {}]]
    /\ attempt' = [attempt EXCEPT ![c[1]].lock = NoConnect]
    /\ UNCHANGED <<github, sent, changes, enabled, routing, status, repo, hook,
                   deliveries, worker, revived>>

-----------------------------------------------------------------------------
(* The webhook *)

Recorded == {deliveries[i] : i \in DOMAIN deliveries}

\* Another request of the same delivery has inserted its row and is not over.
Inserting(d) == \E h \in Requests : hook[h].at \in {"read", "reread"} /\ hook[h].delivery = d

BugRefused(action) == FALSE
\* suspend and activate of the domain raise; the delivery's row goes with them.
Refused(action) == status = "DISCONNECTED" /\ action # "deleted"

\* The delivery is recorded if it is new, and the installation is read.  The
\* insert waits for another one with the same key (provider, delivery_id).  An
\* installation that nobody has connected is answered 404.
RecordDelivery(h) ==
    /\ hook[h].at = "new"
    /\ enabled
    /\ routing # NoOrganization
    /\ \E d \in DOMAIN sent :
         /\ ~Inserting(d)
         /\ hook' = [hook EXCEPT ![h] =
              IF d \in Recorded \/ Refused(sent[d]) THEN Over
              ELSE [@ EXCEPT !.at = "read", !.delivery = d, !.read = status]]
    /\ UNCHANGED <<github, sent, changes, enabled, attempt, routing, status, repo, connect,
                   deliveries, worker, revived, failures>>

HookRereads(h) ==
    /\ hook[h].at = "read"
    /\ hook' = [hook EXCEPT ![h].at = "reread", ![h].base = status]
    /\ UNCHANGED <<github, sent, changes, enabled, attempt, routing, status, repo, connect,
                   deliveries, worker, revived, failures>>

\* The flush writes new if the assignment changed the row as it was reread.
Flushed(new, base) == IF new = base THEN status ELSE new

Revives == status = "DISCONNECTED" /\ status' # "DISCONNECTED"

BugHookCommitsNoUpdate(h) ==
    /\ hook[h].at = "reread"
    /\ deliveries' = Append(deliveries, hook[h].delivery)
    /\ hook' = [hook EXCEPT ![h] = Over]
    /\ UNCHANGED <<github, sent, changes, enabled, attempt, routing, status, repo, connect,
                   worker, revived, failures>>
HookCommits(h) ==
    /\ hook[h].at = "reread"
    /\ status' = Flushed(StatusAfter(sent[hook[h].delivery]), hook[h].base)
    /\ deliveries' = Append(deliveries, hook[h].delivery)
    /\ revived' = (revived \/ Revives)
    /\ hook' = [hook EXCEPT ![h] = Over]
    /\ UNCHANGED <<github, sent, changes, enabled, attempt, routing, repo, connect,
                   worker, failures>>

HookFails(h) ==
    /\ hook[h].at \in {"read", "reread"}
    /\ SessionFails
    /\ hook' = [hook EXCEPT ![h] = Over]
    /\ UNCHANGED <<github, sent, changes, enabled, attempt, routing, status, repo, connect,
                   deliveries, worker, revived>>

-----------------------------------------------------------------------------
(* The reconciliation worker *)

\* Only an active installation is reconciled.
ReconcileReads ==
    /\ worker.at = "idle"
    /\ status = "ACTIVE"
    /\ enabled
    /\ worker' = [worker EXCEPT !.at = "read"]
    /\ UNCHANGED <<github, sent, changes, enabled, attempt, routing, status, repo, connect,
                   hook, deliveries, revived, failures>>

\* GitHub gives no token for an installation that is suspended or deleted.
ReconcileLists ==
    /\ worker.at = "read"
    /\ worker' = IF github.status = "ACTIVE"
                 THEN [worker EXCEPT !.at = "listed", !.listed = github.repositories]
                 ELSE WorkerAtRest
    /\ UNCHANGED <<github, sent, changes, enabled, attempt, routing, status, repo, connect,
                   hook, deliveries, revived, failures>>

ReconcileRereads ==
    /\ worker.at = "listed"
    /\ worker' = [worker EXCEPT !.at = "reread", !.base = status]
    /\ UNCHANGED <<github, sent, changes, enabled, attempt, routing, status, repo, connect,
                   hook, deliveries, revived, failures>>

BugReconciledNeverRevokes(x) == IF x \in worker.listed THEN "ACTIVE" ELSE repo[x]
\* upsert_repository and revoke_repositories_except.
Reconciled(x) ==
    IF x \in worker.listed THEN "ACTIVE"
    ELSE IF repo[x] = "none" THEN "none" ELSE "REVOKED"

\* The status that was read is assigned once more.
ReconcileCommits ==
    /\ worker.at = "reread"
    /\ repo' = [x \in Repositories |-> Reconciled(x)]
    /\ status' = Flushed("ACTIVE", worker.base)
    /\ revived' = (revived \/ Revives)
    /\ worker' = WorkerAtRest
    /\ UNCHANGED <<github, sent, changes, enabled, attempt, routing, connect, hook,
                   deliveries, failures>>

\* The exception is logged; the next round comes after 300 seconds.
ReconcileFails ==
    /\ worker.at # "idle"
    /\ SessionFails
    /\ worker' = WorkerAtRest
    /\ UNCHANGED <<github, sent, changes, enabled, attempt, routing, status, repo, connect,
                   hook, deliveries, revived>>

-----------------------------------------------------------------------------
Connection(c) ==
    ConsumeAttempt(c) \/ ListForConnection(c) \/ CommitConnection(c) \/ RollBackConnection(c)

Webhook(h) == RecordDelivery(h) \/ HookRereads(h) \/ HookCommits(h) \/ HookFails(h)

Reconcile == ReconcileReads \/ ReconcileLists \/ ReconcileRereads \/ ReconcileCommits

InstallationNext ==
    \/ GitHubEvent \/ RepositoryChange \/ Disable
    \/ \E c \in Connects : Connection(c)
    \/ \E h \in Requests : Webhook(h)
    \/ Reconcile \/ ReconcileFails

InstallationSpec == InstallationInit /\ [][InstallationNext]_installationVars

\* The worker runs for ever.
InstallationFairness == WF_installationVars(Reconcile)

-----------------------------------------------------------------------------
(* Properties *)

\* However requests to connect race, with one attempt or with several, at most
\* one organization gets the installation, its attempt is the one that is used
\* up, and a request that was rolled back leaves its attempt as it was.
ConnectedOnce ==
    /\ \A c, d \in Connects :
         connect[c].at = "committed" /\ connect[d].at = "committed" => c = d
    /\ \A o \in Organizations :
         attempt[o].used <=> \E c \in Connects : c[1] = o /\ connect[c].at = "committed"
    /\ routing # NoOrganization => attempt[routing].used

\* A delivery takes effect once, whether GitHub sends it again meanwhile, later
\* or after a failure.
DeliveredOnce ==
    \A i, j \in DOMAIN deliveries : deliveries[i] = deliveries[j] => i = j

\* A session of the webhook, or the worker's, commits in this step that had read the
\* row before it was disconnected.
AnOlderSessionCommits ==
    \/ \E h \in Requests : HookCommits(h) /\ hook[h].read # "DISCONNECTED"
    \/ ReconcileCommits

\* No late or repeated event revives an installation that was deleted, and no request
\* to connect it again: only a session that was under way when it was disconnected,
\* and writes the status it had read.
DisconnectedIsFinal ==
    [][Revives => AnOlderSessionCommits]_installationVars

\* A deletion that was delivered disconnects the installation, in whatever order and
\* however often the events before and after it arrive, and whatever is reconciled
\* meanwhile, until such a session has revived it.
DeletionStands ==
    (\E i \in DOMAIN deliveries : sent[deliveries[i]] = "deleted") /\ ~revived
        => status = "DISCONNECTED"

\* A repository that was withdrawn from the installation is revoked in the end,
\* as long as there is something to reconcile.
WithdrawnIsRevoked ==
    \A x \in Repositories :
        (x \notin github.repositories) ~>
            \/ repo[x] # "ACTIVE"
            \/ x \in github.repositories
            \/ github.status # "ACTIVE" \/ status # "ACTIVE" \/ ~enabled
=============================================================================
