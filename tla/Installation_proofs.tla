------------------------- MODULE Installation_proofs -------------------------
(***************************************************************************)
(* Theorems about Installation, for any organizations, requests and        *)
(* bounds: who gets the installation, what a delivery does, what becomes   *)
(* of a deletion and who can undo it; and about PullRequest, for any calls *)
(* and bounds: which of them share one.                                    *)
(***************************************************************************)
EXTENDS Installation, PullRequest, TLAPS

\* An attempt is used up by the one request that was committed.
OneConnection ==
    /\ \A c \in Connects : connect[c].at = "committed" => routing = c[1]
    /\ \A c, d \in Connects :
         connect[c].at = "committed" /\ connect[d].at = "committed" => c = d
    /\ \A o \in Organizations :
         attempt[o].used <=> \E c \in Connects : c[1] = o /\ connect[c].at = "committed"
    /\ routing # NoOrganization => attempt[routing].used

Open(h) == hook[h].at \in {"read", "reread"}

\* A session of the webhook has a delivery of its own, which is not recorded; on a
\* row that is disconnected it has only a deletion.
DeliveryIsItsOwn(h) ==
    Open(h) =>
        /\ hook[h].delivery \in DOMAIN sent
        /\ hook[h].delivery \notin Recorded
        /\ \A g \in Requests : Open(g) /\ g # h => hook[g].delivery # hook[h].delivery
        /\ hook[h].read = "DISCONNECTED" => sent[hook[h].delivery] = "deleted"

\* Nothing happens before the connection, and a delivery is recorded once.
Sessions ==
    /\ routing = NoOrganization
         => /\ status = "none" /\ deliveries = <<>> /\ worker.at = "idle"
            /\ \A h \in Requests : ~Open(h)
    /\ \A h \in Requests : DeliveryIsItsOwn(h)
    /\ \A i \in DOMAIN deliveries : deliveries[i] \in DOMAIN sent
    /\ DeliveredOnce

Deleted == \E i \in DOMAIN deliveries : sent[deliveries[i]] = "deleted"

\* Until it is revived the row is disconnected if a deletion is recorded, and if a
\* session of the webhook has read it again as such.
Disconnection ==
    ~revived =>
        /\ Deleted => status = "DISCONNECTED"
        /\ \A h \in Requests :
             hook[h].at = "reread" /\ hook[h].base = "DISCONNECTED" => status = "DISCONNECTED"

InstallationInv ==
    InstallationTypeOK /\ OneConnection /\ Sessions /\ Disconnection

-----------------------------------------------------------------------------
\* What an event leaves is a status.
LEMMA StatusAfterIsAStatus ==
    ASSUME NEW action \in EventAction
    PROVE  /\ StatusAfter(action) \in Status
           /\ StatusAfter(action) = "DISCONNECTED" <=> action = "deleted"
BY DEF StatusAfter, EventAction, Status

\* Nobody has connected the installation.
LEMMA InitEstablishesInstallationInv ==
    ASSUME InstallationInit
    PROVE  InstallationInv
<1>1. InstallationTypeOK
  <2>1. 0 \in 0..MaxEvents /\ 0 \in 0..MaxChanges /\ 0 \in 0..MaxFailures
    BY InstallationAssumption
  <2>2. sent \in Seq(EventAction) /\ Len(sent) <= MaxEvents /\ deliveries \in Seq(1..MaxEvents)
    BY InstallationAssumption DEF InstallationInit
  <2> QED
    BY <2>1, <2>2, InstallationAssumption
       DEF InstallationInit, InstallationTypeOK, Status, WorkerAtRest
<1>2. OneConnection
  BY DEF InstallationInit, OneConnection
<1>4. Sessions
  BY DEF InstallationInit, Sessions, DeliveryIsItsOwn, Open, DeliveredOnce, WorkerAtRest
<1>5. Disconnection
  BY DEF InstallationInit, Disconnection, Deleted
<1> QED
  BY <1>1, <1>2, <1>4, <1>5 DEF InstallationInv

-----------------------------------------------------------------------------
(* The types *)

\* A session that fails is counted.
LEMMA FailuresAreCounted ==
    ASSUME InstallationTypeOK, SessionFails \/ UNCHANGED failures
    PROVE  failures' \in 0..MaxFailures
BY InstallationAssumption DEF InstallationTypeOK, SessionFails

\* Events, changes and the operator keep the types.
LEMMA GitHubKeepsTypes ==
    ASSUME InstallationTypeOK, GitHubEvent \/ RepositoryChange \/ Disable
    PROVE  InstallationTypeOK'
<1>1. CASE GitHubEvent
  <2>1. PICK action \in EventAction :
           /\ github' = [github EXCEPT !.status = StatusAfter(action)]
           /\ sent' = Append(sent, action)
    BY <1>1 DEF GitHubEvent
  <2>2. github' \in [status : Status, repositories : SUBSET Repositories]
    BY <2>1, StatusAfterIsAStatus DEF InstallationTypeOK
  <2>3. sent' \in Seq(EventAction) /\ Len(sent') <= MaxEvents
    BY <1>1, <2>1, InstallationAssumption DEF GitHubEvent, InstallationTypeOK
  <2> QED
    BY <1>1, <2>2, <2>3 DEF GitHubEvent, InstallationTypeOK
<1>2. CASE RepositoryChange
  <2>1. PICK repositories \in SUBSET Repositories :
           github' = [github EXCEPT !.repositories = repositories]
    <3>1. PICK x \in Repositories :
             github' = [github EXCEPT !.repositories =
                          IF x \in @ THEN @ \ {x} ELSE @ \cup {x}]
      BY <1>2 DEF RepositoryChange
    <3> DEFINE new == IF x \in github.repositories THEN github.repositories \ {x}
                      ELSE github.repositories \cup {x}
    <3>2. new \in SUBSET Repositories
      BY DEF InstallationTypeOK
    <3>3. github' = [github EXCEPT !.repositories = new]
      BY <3>1
    <3> QED
      BY <3>2, <3>3
  <2>4. github' \in [status : Status, repositories : SUBSET Repositories]
    BY <2>1 DEF InstallationTypeOK
  <2>2. changes' \in 0..MaxChanges
    BY <1>2, InstallationAssumption DEF RepositoryChange, InstallationTypeOK
  <2> QED
    BY <1>2, <2>2, <2>4 DEF RepositoryChange, InstallationTypeOK
<1>3. CASE Disable
  BY <1>3 DEF Disable, InstallationTypeOK
<1> QED
  BY <1>1, <1>2, <1>3

\* Connecting keeps the types.
LEMMA ConnectionKeepsTypes ==
    ASSUME InstallationTypeOK, NEW c \in Connects, Connection(c)
    PROVE  InstallationTypeOK'
<1>1. c[1] \in Organizations
  BY InstallationAssumption
<1>2. 0 \in 0..MaxEvents /\ Len(sent) \in 0..MaxEvents
  BY InstallationAssumption DEF InstallationTypeOK
<1>7. \A lock \in Connects \cup {NoConnect} :
        [attempt[c[1]] EXCEPT !.lock = lock]
            \in [used : BOOLEAN, lock : Connects \cup {NoConnect}]
  <2>1. attempt[c[1]] \in [used : BOOLEAN, lock : Connects \cup {NoConnect}]
    BY <1>1 DEF InstallationTypeOK
  <2> QED
    BY <2>1
<1>3. CASE ConsumeAttempt(c)
  <2>1. connect' \in [Connects -> [at : {"new", "granted", "listed", "committed", "failed"},
                                   listed : SUBSET Repositories]]
    <3>1. \/ connect' = [connect EXCEPT ![c] = [@ EXCEPT !.at = "failed"]]
          \/ connect' = [connect EXCEPT ![c] = [@ EXCEPT !.at = "granted"]]
      BY <1>3 DEF ConsumeAttempt
    <3>2. \A at \in {"failed", "granted"} : [connect[c] EXCEPT !.at = at]
             \in [at : {"new", "granted", "listed", "committed", "failed"},
                  listed : SUBSET Repositories]
      <4>1. connect[c] \in [at : {"new", "granted", "listed", "committed", "failed"},
                            listed : SUBSET Repositories]
        BY DEF InstallationTypeOK
      <4> QED
        BY <4>1
    <3> QED
      BY <3>1, <3>2 DEF InstallationTypeOK
  <2>2. attempt' \in [Organizations -> [used : BOOLEAN, lock : Connects \cup {NoConnect}]]
    <3> DEFINE new == [attempt[c[1]] EXCEPT !.lock = c]
    <3>1. attempt' = attempt \/ attempt' = [attempt EXCEPT ![c[1]] = new]
      BY <1>3 DEF ConsumeAttempt
    <3>2. new \in [used : BOOLEAN, lock : Connects \cup {NoConnect}]
      BY <1>7
    <3> HIDE DEF new
    <3> QED
      BY <1>1, <3>1, <3>2 DEF InstallationTypeOK
  <2> QED
    BY <1>3, <2>1, <2>2 DEF ConsumeAttempt, InstallationTypeOK
<1>4. CASE ListForConnection(c)
  <2>1. [at |-> "listed", listed |-> github.repositories]
          \in [at : {"new", "granted", "listed", "committed", "failed"},
               listed : SUBSET Repositories]
    BY <1>2 DEF InstallationTypeOK
  <2> QED
    BY <1>4, <2>1 DEF ListForConnection, InstallationTypeOK
<1>5. CASE CommitConnection(c)
  <2>2. repo' \in [Repositories -> {"none", "ACTIVE", "REVOKED"}]
    BY <1>5 DEF CommitConnection
  <2>3. /\ connect' = [connect EXCEPT ![c] = [at |-> "committed", listed |-> {}]]
        /\ attempt' = [attempt EXCEPT ![c[1]] = [used |-> TRUE, lock |-> NoConnect]]
        /\ status' = "ACTIVE" /\ routing' = c[1]
        /\ UNCHANGED <<github, sent, changes, enabled, hook, deliveries, worker, revived,
                       failures>>
    BY <1>5 DEF CommitConnection
  <2> QED
    BY <1>1, <2>2, <2>3 DEF InstallationTypeOK, Status
<1>6. CASE RollBackConnection(c)
  <2>1. failures' \in 0..MaxFailures
    BY <1>6, FailuresAreCounted DEF RollBackConnection
  <2>2. connect' \in [Connects -> [at : {"new", "granted", "listed", "committed", "failed"},
                                   listed : SUBSET Repositories]]
    BY <1>2, <1>6 DEF RollBackConnection, InstallationTypeOK
  <2>3. attempt' \in [Organizations -> [used : BOOLEAN, lock : Connects \cup {NoConnect}]]
    <3>1. attempt' = [attempt EXCEPT ![c[1]] = [@ EXCEPT !.lock = NoConnect]]
      BY <1>6 DEF RollBackConnection
    <3> QED
      BY <1>1, <1>7, <3>1 DEF InstallationTypeOK
  <2> QED
    BY <1>1, <1>2, <1>6, <2>1, <2>2, <2>3 DEF RollBackConnection, InstallationTypeOK
<1> QED
  BY <1>3, <1>4, <1>5, <1>6 DEF Connection

\* The row's status after a flush.
LEMMA FlushedIsAStatus ==
    ASSUME InstallationTypeOK, NEW new \in Status, NEW base
    PROVE  Flushed(new, base) \in Status \cup {"none"}
BY DEF InstallationTypeOK, Flushed

\* The webhook keeps the types.
LEMMA WebhookKeepsTypes ==
    ASSUME InstallationTypeOK, Sessions, NEW h \in Requests, Webhook(h)
    PROVE  InstallationTypeOK'
<1>0. Over \in [at : {"new", "read", "reread", "ended"}, delivery : 0..MaxEvents,
                read : Status \cup {"none"}, base : Status \cup {"none"}]
  BY InstallationAssumption DEF Over
<1>9. /\ hook[h] \in [at : {"new", "read", "reread", "ended"}, delivery : 0..MaxEvents,
                     read : Status \cup {"none"}, base : Status \cup {"none"}]
      /\ status \in Status \cup {"none"}
  BY DEF InstallationTypeOK
<1>1. CASE RecordDelivery(h)
  <2>1. PICK d \in DOMAIN sent :
          \/ hook' = [hook EXCEPT ![h] = Over]
          \/ hook' = [hook EXCEPT ![h] =
                        [hook[h] EXCEPT !.at = "read", !.delivery = d, !.read = status]]
    BY <1>1 DEF RecordDelivery
  <2>2. d \in 0..MaxEvents
    BY InstallationAssumption DEF InstallationTypeOK
  <2>3. [hook[h] EXCEPT !.at = "read", !.delivery = d, !.read = status]
          \in [at : {"new", "read", "reread", "ended"}, delivery : 0..MaxEvents,
               read : Status \cup {"none"}, base : Status \cup {"none"}]
    BY <1>9, <2>2
  <2> QED
    BY <1>0, <1>1, <2>1, <2>3 DEF RecordDelivery, InstallationTypeOK
<1>2. CASE HookRereads(h)
  <2>1. hook' = [hook EXCEPT ![h] = [hook[h] EXCEPT !.at = "reread", !.base = status]]
    BY <1>2 DEF HookRereads, InstallationTypeOK
  <2>2. [hook[h] EXCEPT !.at = "reread", !.base = status]
          \in [at : {"new", "read", "reread", "ended"}, delivery : 0..MaxEvents,
               read : Status \cup {"none"}, base : Status \cup {"none"}]
    BY <1>9
  <2> QED
    BY <1>2, <2>1, <2>2 DEF HookRereads, InstallationTypeOK
<1>3. CASE HookCommits(h)
  <2>1. hook[h].delivery \in DOMAIN sent
    BY <1>3 DEF HookCommits, Sessions, DeliveryIsItsOwn, Open
  <2>2. hook[h].delivery \in 1..MaxEvents /\ sent[hook[h].delivery] \in EventAction
    BY <2>1, InstallationAssumption DEF InstallationTypeOK
  <2>3. status' \in Status \cup {"none"}
    BY <1>3, <2>2, StatusAfterIsAStatus, FlushedIsAStatus DEF HookCommits
  <2>4. deliveries' \in Seq(1..MaxEvents)
    BY <1>3, <2>2 DEF HookCommits, InstallationTypeOK
  <2>5. revived' \in BOOLEAN
    BY <1>3 DEF HookCommits, InstallationTypeOK
  <2>6. hook' = [hook EXCEPT ![h] = Over]
        /\ UNCHANGED <<github, sent, changes, enabled, attempt, routing, repo, connect,
                       worker, failures>>
    BY <1>3 DEF HookCommits
  <2> QED
    BY <1>0, <2>3, <2>4, <2>5, <2>6 DEF InstallationTypeOK
<1>4. CASE HookFails(h)
  <2>1. failures' \in 0..MaxFailures
    BY <1>4, FailuresAreCounted DEF HookFails
  <2> QED
    BY <1>0, <1>4, <2>1 DEF HookFails, InstallationTypeOK
<1> QED
  BY <1>1, <1>2, <1>3, <1>4 DEF Webhook

\* The worker keeps the types.
LEMMA ReconcileKeepsTypes ==
    ASSUME InstallationTypeOK, Reconcile \/ ReconcileFails
    PROVE  InstallationTypeOK'
<1>0. WorkerAtRest \in [at : {"idle", "read", "listed", "reread"}, listed : SUBSET Repositories,
                        base : Status \cup {"none"}]
  BY DEF WorkerAtRest
<1>1. CASE ReconcileReads
  BY <1>1 DEF ReconcileReads, InstallationTypeOK
<1>2. CASE ReconcileLists
  <2>1. worker' \in [at : {"idle", "read", "listed", "reread"}, listed : SUBSET Repositories,
                     base : Status \cup {"none"}]
    BY <1>0, <1>2 DEF ReconcileLists, InstallationTypeOK
  <2> QED
    BY <1>2, <2>1 DEF ReconcileLists, InstallationTypeOK
<1>3. CASE ReconcileRereads
  BY <1>3 DEF ReconcileRereads, InstallationTypeOK
<1>4. CASE ReconcileCommits
  <2>1. repo' \in [Repositories -> {"none", "ACTIVE", "REVOKED"}]
    BY <1>4 DEF ReconcileCommits, Reconciled, InstallationTypeOK
  <2>2. status' \in Status \cup {"none"}
    BY <1>4, FlushedIsAStatus DEF ReconcileCommits, Status
  <2>3. revived' \in BOOLEAN
    BY <1>4 DEF ReconcileCommits, InstallationTypeOK
  <2>4. /\ worker' = WorkerAtRest
        /\ UNCHANGED <<github, sent, changes, enabled, attempt, routing, connect, hook,
                       deliveries, failures>>
    BY <1>4 DEF ReconcileCommits
  <2> QED
    BY <1>0, <2>1, <2>2, <2>3, <2>4 DEF InstallationTypeOK
<1>5. CASE ReconcileFails
  <2>1. failures' \in 0..MaxFailures
    BY <1>5, FailuresAreCounted DEF ReconcileFails
  <2> QED
    BY <1>0, <1>5, <2>1 DEF ReconcileFails, InstallationTypeOK
<1> QED
  BY <1>1, <1>2, <1>3, <1>4, <1>5 DEF Reconcile

\* Every step keeps the types.
LEMMA StepKeepsTypes ==
    ASSUME InstallationInv, InstallationNext
    PROVE  InstallationTypeOK'
BY GitHubKeepsTypes, ConnectionKeepsTypes, WebhookKeepsTypes, ReconcileKeepsTypes
   DEF InstallationInv, InstallationNext

-----------------------------------------------------------------------------
(* Who gets the installation *)

\* Only a request to connect changes who is connected.
LEMMA OthersDoNotConnect ==
    ASSUME \/ GitHubEvent \/ RepositoryChange \/ Disable
           \/ \E h \in Requests : Webhook(h)
           \/ Reconcile \/ ReconcileFails
    PROVE  UNCHANGED <<connect, attempt, routing>>
<1>1. CASE GitHubEvent \/ RepositoryChange \/ Disable
  BY <1>1 DEF GitHubEvent, RepositoryChange, Disable
<1>2. ASSUME NEW h \in Requests, Webhook(h)
      PROVE  UNCHANGED <<connect, attempt, routing>>
  BY <1>2 DEF Webhook, RecordDelivery, HookRereads, HookCommits, HookFails
<1>3. CASE Reconcile \/ ReconcileFails
  BY <1>3 DEF Reconcile, ReconcileReads, ReconcileLists, ReconcileRereads, ReconcileCommits,
     ReconcileFails
<1> QED
  BY <1>1, <1>2, <1>3

\* Before its commit a request to connect changes its place and a lock.
LEMMA NotYetConnected ==
    ASSUME InstallationTypeOK, NEW c \in Connects,
           ConsumeAttempt(c) \/ ListForConnection(c) \/ RollBackConnection(c)
    PROVE  /\ routing' = routing
           /\ \A d \in Connects : connect'[d].at = "committed" <=> connect[d].at = "committed"
           /\ \A o \in Organizations : attempt'[o].used = attempt[o].used
<1>1. routing' = routing /\ connect[c].at # "committed"
  BY DEF ConsumeAttempt, ListForConnection, RollBackConnection
<1>2. connect'[c].at # "committed" /\ \A d \in Connects \ {c} : connect'[d] = connect[d]
  <2>0. /\ connect \in [Connects -> [at : {"new", "granted", "listed", "committed", "failed"},
                                     listed : SUBSET Repositories]]
        /\ connect[c] \in [at : {"new", "granted", "listed", "committed", "failed"},
                           listed : SUBSET Repositories]
    BY DEF InstallationTypeOK
  <2>1. CASE ConsumeAttempt(c)
    <3>1. \/ connect' = [connect EXCEPT ![c].at = "failed"]
          \/ connect' = [connect EXCEPT ![c].at = "granted"]
      BY <2>1 DEF ConsumeAttempt
    <3> QED
      BY <2>0, <3>1
  <2>2. CASE ListForConnection(c)
    BY <2>0, <2>2 DEF ListForConnection
  <2>3. CASE RollBackConnection(c)
    BY <2>0, <2>3 DEF RollBackConnection
  <2> QED
    BY <2>1, <2>2, <2>3
<1>3. \A o \in Organizations : attempt'[o].used = attempt[o].used
  <2>0. /\ attempt \in [Organizations -> [used : BOOLEAN, lock : Connects \cup {NoConnect}]]
        /\ c[1] \in Organizations
    BY InstallationAssumption DEF InstallationTypeOK
  <2>1. CASE attempt' = attempt
    BY <2>1
  <2>2. ASSUME NEW lock, attempt' = [attempt EXCEPT ![c[1]].lock = lock]
        PROVE  \A o \in Organizations : attempt'[o].used = attempt[o].used
    <3>1. \A o \in Organizations \ {c[1]} : attempt'[o] = attempt[o]
      BY <2>0, <2>2
    <3>2. attempt'[c[1]] = [attempt[c[1]] EXCEPT !.lock = lock]
      BY <2>0, <2>2
    <3>3. attempt[c[1]] \in [used : BOOLEAN, lock : Connects \cup {NoConnect}]
      BY <2>0
    <3>4. attempt'[c[1]].used = attempt[c[1]].used
      BY <3>2, <3>3
    <3> QED
      BY <3>1, <3>4
  <2>3. \/ attempt' = attempt
        \/ attempt' = [attempt EXCEPT ![c[1]].lock = c]
        \/ attempt' = [attempt EXCEPT ![c[1]].lock = NoConnect]
    BY DEF ConsumeAttempt, ListForConnection, RollBackConnection
  <2> QED
    BY <2>1, <2>2, <2>3
<1> QED
  BY <1>1, <1>2, <1>3

\* A request that is not committed leaves the attempts and the routing as they were.
LEMMA OneConnectionStep ==
    ASSUME InstallationInv, InstallationNext
    PROVE  OneConnection'
<1>1. OneConnection /\ InstallationTypeOK
  BY DEF InstallationInv
<1>2. CASE UNCHANGED <<connect, attempt, routing>>
  BY <1>1, <1>2 DEF OneConnection
<1>3. ASSUME NEW c \in Connects, Connection(c) PROVE OneConnection'
  <2>0. c[1] \in Organizations /\ NoOrganization \notin Organizations
    BY InstallationAssumption
  <2>1. CASE ConsumeAttempt(c) \/ ListForConnection(c) \/ RollBackConnection(c)
    <3>1. /\ routing' = routing
          /\ \A d \in Connects : connect'[d].at = "committed" <=> connect[d].at = "committed"
      BY <1>1, <2>1, NotYetConnected
    <3>2. \A o \in Organizations : attempt'[o].used = attempt[o].used
      BY <1>1, <2>1, NotYetConnected
    <3>3. routing \in Organizations \cup {NoOrganization}
      BY <1>1 DEF InstallationTypeOK
    <3> QED
      BY <1>1, <3>1, <3>2, <3>3 DEF OneConnection
  <2>2. CASE CommitConnection(c)
    <3>1. /\ routing = NoOrganization /\ routing' = c[1]
          /\ connect' = [connect EXCEPT ![c] = [at |-> "committed", listed |-> {}]]
          /\ attempt' = [attempt EXCEPT ![c[1]] = [used |-> TRUE, lock |-> NoConnect]]
      BY <2>2 DEF CommitConnection, Routed
    <3>2. \A d \in Connects : connect[d].at # "committed"
      BY <1>1, <2>0, <3>1, InstallationAssumption DEF OneConnection
    <3>3. \A o \in Organizations : ~attempt[o].used
      BY <1>1, <3>2 DEF OneConnection
    <3>4. \A d \in Connects : connect'[d].at = "committed" <=> d = c
      BY <1>1, <3>1, <3>2 DEF InstallationTypeOK
    <3>5. \A o \in Organizations : attempt'[o].used <=> o = c[1]
      BY <1>1, <2>0, <3>1, <3>3 DEF InstallationTypeOK
    <3> QED
      BY <2>0, <3>1, <3>4, <3>5 DEF OneConnection
  <2> QED
    BY <1>3, <2>1, <2>2 DEF Connection
<1> QED
  BY <1>2, <1>3, OthersDoNotConnect DEF InstallationNext

-----------------------------------------------------------------------------
(* What a delivery does *)

\* The past of GitHub does not change.
LEMMA EventsAreKept ==
    ASSUME InstallationTypeOK, InstallationNext
    PROVE  /\ Len(sent) <= Len(sent')
           /\ \A n \in DOMAIN sent : n \in DOMAIN sent' /\ sent'[n] = sent[n]
<1>1. sent' = sent \/ \E action \in EventAction : sent' = Append(sent, action)
  <2>1. CASE GitHubEvent
    BY <2>1 DEF GitHubEvent
  <2>2. CASE RepositoryChange \/ Disable
    BY <2>2 DEF RepositoryChange, Disable
  <2>3. ASSUME NEW c \in Connects, Connection(c) PROVE sent' = sent
    BY <2>3 DEF Connection, ConsumeAttempt, ListForConnection, CommitConnection,
       RollBackConnection
  <2>4. ASSUME NEW h \in Requests, Webhook(h) PROVE sent' = sent
    BY <2>4 DEF Webhook, RecordDelivery, HookRereads, HookCommits, HookFails
  <2>5. CASE Reconcile \/ ReconcileFails
    BY <2>5 DEF Reconcile, ReconcileReads, ReconcileLists, ReconcileRereads, ReconcileCommits,
       ReconcileFails
  <2> QED
    BY <2>1, <2>2, <2>3, <2>4, <2>5 DEF InstallationNext
<1>2. /\ Len(sent) <= Len(sent')
      /\ \A n \in DOMAIN sent : n \in DOMAIN sent' /\ sent'[n] = sent[n]
  <2>1. CASE sent' = sent
    BY <2>1 DEF InstallationTypeOK
  <2>2. ASSUME NEW action \in EventAction, sent' = Append(sent, action)
        PROVE  /\ Len(sent) <= Len(sent')
               /\ \A n \in DOMAIN sent : n \in DOMAIN sent' /\ sent'[n] = sent[n]
    <3>1. sent \in Seq(EventAction) /\ Len(sent) \in Nat /\ DOMAIN sent = 1..Len(sent)
      BY DEF InstallationTypeOK
    <3>2. /\ Len(sent') = Len(sent) + 1
          /\ DOMAIN sent' = 1..(Len(sent) + 1)
          /\ \A n \in 1..Len(sent) : sent'[n] = sent[n]
      BY <2>2, <3>1
    <3> QED
      BY <3>1, <3>2
  <2> QED
    BY <1>1, <2>1, <2>2
<1> QED
  BY <1>2

\* Before the connection there is nothing to read.
LEMMA NothingBeforeTheConnection ==
    ASSUME InstallationInv, InstallationNext, routing' = NoOrganization
    PROVE  /\ routing = NoOrganization
           /\ status' = "none" /\ deliveries' = <<>> /\ worker'.at = "idle"
           /\ \A h \in Requests : hook'[h] = hook[h]
<1>1. InstallationTypeOK /\ OneConnection /\ Sessions
  BY DEF InstallationInv
<1>2. routing = NoOrganization
  <2>1. CASE routing' = routing
    BY <2>1
  <2>2. ASSUME NEW c \in Connects, Connection(c) PROVE routing = NoOrganization
    <3>1. c[1] # NoOrganization
      BY InstallationAssumption
    <3> QED
      BY <2>2, <3>1 DEF Connection, ConsumeAttempt, ListForConnection, CommitConnection,
         RollBackConnection
  <2> QED
    BY <2>1, <2>2, OthersDoNotConnect DEF InstallationNext
<1>3. /\ status = "none" /\ deliveries = <<>> /\ worker.at = "idle"
      /\ \A h \in Requests : ~Open(h)
  BY <1>1, <1>2 DEF Sessions
<1>4. CASE GitHubEvent \/ RepositoryChange \/ Disable
  BY <1>3, <1>4 DEF GitHubEvent, RepositoryChange, Disable
<1>5. ASSUME NEW c \in Connects, Connection(c) PROVE UNCHANGED <<status, deliveries, worker, hook>>
  <2>1. c[1] # NoOrganization
    BY InstallationAssumption
  <2> QED
    BY <1>5, <2>1 DEF Connection, ConsumeAttempt, ListForConnection, CommitConnection,
       RollBackConnection
<1>6. ASSUME NEW h \in Requests, Webhook(h) PROVE FALSE
  BY <1>2, <1>3, <1>6 DEF Webhook, RecordDelivery, HookRereads, HookCommits, HookFails, Open
<1>7. CASE Reconcile \/ ReconcileFails
  BY <1>3, <1>7 DEF Reconcile, ReconcileReads, ReconcileLists, ReconcileRereads,
     ReconcileCommits, ReconcileFails
<1> QED
  BY <1>2, <1>3, <1>4, <1>5, <1>6, <1>7 DEF InstallationNext

\* Only the webhook changes its sessions and what is recorded.
LEMMA OthersDeliverNothing ==
    ASSUME \/ GitHubEvent \/ RepositoryChange \/ Disable
           \/ \E c \in Connects : Connection(c)
           \/ Reconcile \/ ReconcileFails
    PROVE  UNCHANGED <<hook, deliveries>>
<1>1. CASE GitHubEvent \/ RepositoryChange \/ Disable
  BY <1>1 DEF GitHubEvent, RepositoryChange, Disable
<1>2. ASSUME NEW c \in Connects, Connection(c) PROVE UNCHANGED <<hook, deliveries>>
  BY <1>2 DEF Connection, ConsumeAttempt, ListForConnection, CommitConnection,
     RollBackConnection
<1>3. CASE Reconcile \/ ReconcileFails
  BY <1>3 DEF Reconcile, ReconcileReads, ReconcileLists, ReconcileRereads, ReconcileCommits,
     ReconcileFails
<1> QED
  BY <1>1, <1>2, <1>3

\* A step of the webhook changes one session.
LEMMA OneSession ==
    ASSUME InstallationTypeOK, NEW h \in Requests, Webhook(h)
    PROVE  /\ sent' = sent
           /\ \A g \in Requests \ {h} : hook'[g] = hook[g]
BY DEF InstallationTypeOK, Webhook, RecordDelivery, HookRereads, HookCommits, HookFails

\* A session that is over leaves the others with what they have.
LEMMA OneSessionLess ==
    ASSUME InstallationInv, NEW h \in Requests, Webhook(h), hook'[h] = Over,
           deliveries' = deliveries
    PROVE  \A g \in Requests : DeliveryIsItsOwn(g)'
<1>1. /\ sent' = sent /\ Recorded' = Recorded
      /\ \A g \in Requests \ {h} : hook'[g] = hook[g]
  BY OneSession DEF InstallationInv, Recorded
<1>2. \A g \in Requests : Open(g)' => g # h /\ Open(g)
  BY <1>1 DEF Open, Over
<1>3. ASSUME NEW g \in Requests, Open(g)' PROVE DeliveryIsItsOwn(g)'
  <2>1. DeliveryIsItsOwn(g) /\ Open(g) /\ hook'[g] = hook[g]
    BY <1>1, <1>2, <1>3 DEF InstallationInv, Sessions
  <2>2. \A f \in Requests : Open(f)' /\ f # g => hook'[f].delivery # hook'[g].delivery
    BY <1>1, <1>2, <2>1 DEF DeliveryIsItsOwn
  <2> QED
    BY <1>1, <2>1, <2>2 DEF DeliveryIsItsOwn
<1> QED
  BY <1>3 DEF DeliveryIsItsOwn

\* A delivery is recorded if no session, over or open, has had it.
LEMMA SessionsStep ==
    ASSUME InstallationInv, InstallationNext
    PROVE  Sessions'
<1>1. InstallationTypeOK /\ Sessions
  BY DEF InstallationInv
<1>2. \A n \in DOMAIN sent : n \in DOMAIN sent' /\ sent'[n] = sent[n]
  BY <1>1, EventsAreKept
<1>3. routing' = NoOrganization
         => /\ status' = "none" /\ deliveries' = <<>> /\ worker'.at = "idle"
            /\ \A h \in Requests : ~Open(h)'
  <2> SUFFICES ASSUME routing' = NoOrganization
               PROVE  /\ status' = "none" /\ deliveries' = <<>> /\ worker'.at = "idle"
                      /\ \A h \in Requests : ~Open(h)'
    OBVIOUS
  <2>1. /\ routing = NoOrganization
        /\ status' = "none" /\ deliveries' = <<>> /\ worker'.at = "idle"
        /\ \A h \in Requests : hook'[h] = hook[h]
    BY NothingBeforeTheConnection
  <2> QED
    BY <1>1, <2>1 DEF Sessions, Open
<1>4. CASE UNCHANGED <<hook, deliveries>>
  <2>1. \A h \in Requests : DeliveryIsItsOwn(h)'
    <3> SUFFICES ASSUME NEW h \in Requests PROVE DeliveryIsItsOwn(h)'
      OBVIOUS
    <3>1. DeliveryIsItsOwn(h) /\ Recorded' = Recorded
      BY <1>1, <1>4 DEF Sessions, Recorded
    <3> QED
      BY <1>2, <1>4, <3>1 DEF DeliveryIsItsOwn, Open
  <2>2. DeliveredOnce' /\ \A i \in DOMAIN deliveries' : deliveries'[i] \in DOMAIN sent'
    BY <1>1, <1>2, <1>4 DEF Sessions, DeliveredOnce
  <2> QED
    BY <1>3, <2>1, <2>2 DEF Sessions
<1>5. ASSUME NEW h \in Requests, Webhook(h) PROVE Sessions'
  <2>0. /\ sent' = sent
        /\ \A g \in Requests \ {h} : hook'[g] = hook[g]
    BY <1>1, <1>5, OneSession
  <2>1. ASSUME deliveries' = deliveries, \A g \in Requests : DeliveryIsItsOwn(g)'
        PROVE  Sessions'
    BY <1>1, <1>3, <2>0, <2>1 DEF Sessions, DeliveredOnce
  <2>2. CASE HookFails(h)
    <3>1. hook'[h] = Over /\ deliveries' = deliveries
      BY <1>1, <2>2 DEF HookFails, InstallationTypeOK
    <3> QED
      BY <1>5, <2>1, <3>1, OneSessionLess
  <2>3. CASE HookRereads(h)
    <3>0. hook' = [hook EXCEPT ![h] = [hook[h] EXCEPT !.at = "reread", !.base = status]]
      BY <2>3 DEF HookRereads, InstallationTypeOK
    <3>1. /\ Open(h) /\ hook'[h].delivery = hook[h].delivery /\ hook'[h].read = hook[h].read
          /\ deliveries' = deliveries
      BY <1>1, <2>3, <3>0 DEF HookRereads, InstallationTypeOK, Open
    <3>2. \A g \in Requests : /\ hook'[g].delivery = hook[g].delivery
                              /\ hook'[g].read = hook[g].read
                              /\ Open(g)' => Open(g)
      BY <2>0, <3>1 DEF Open
    <3>3. Recorded' = Recorded
      BY <3>1 DEF Recorded
    <3>4. \A g \in Requests : DeliveryIsItsOwn(g)'
      BY <1>1, <2>0, <3>2, <3>3 DEF Sessions, DeliveryIsItsOwn
    <3> QED
      BY <2>1, <3>1, <3>4
  <2>4. CASE RecordDelivery(h)
    <3>1. PICK d \in DOMAIN sent :
             /\ ~Inserting(d)
             /\ hook' = [hook EXCEPT ![h] =
                  IF d \in Recorded \/ Refused(sent[d]) THEN Over
                  ELSE [hook[h] EXCEPT !.at = "read", !.delivery = d, !.read = status]]
      BY <2>4 DEF RecordDelivery
    <3>2. deliveries' = deliveries /\ Recorded' = Recorded
      BY <2>4 DEF RecordDelivery, Recorded
    <3>3. CASE d \in Recorded \/ Refused(sent[d])
      <4>1. hook'[h] = Over
        BY <1>1, <3>1, <3>3 DEF InstallationTypeOK
      <4> QED
        BY <1>5, <2>1, <3>2, <4>1, OneSessionLess
    <3>4. CASE d \notin Recorded /\ ~Refused(sent[d])
      <4>0. hook' = [hook EXCEPT ![h] =
                       [hook[h] EXCEPT !.at = "read", !.delivery = d, !.read = status]]
        BY <3>1, <3>4
      <4>1. hook'[h].delivery = d /\ hook'[h].read = status
        BY <1>1, <4>0 DEF InstallationTypeOK
      <4>2. status = "DISCONNECTED" => sent[d] = "deleted"
        BY <3>4 DEF Refused
      <4>3. \A g \in Requests : Open(g) => hook[g].delivery # d
        BY <3>1 DEF Inserting, Open
      <4>4. \A g \in Requests \ {h} : Open(g)' => Open(g) /\ hook[g] = hook'[g]
        BY <2>0 DEF Open
      <4>5. ASSUME NEW g \in Requests PROVE DeliveryIsItsOwn(g)'
        <5>1. CASE g = h
          BY <2>0, <3>1, <3>2, <3>4, <4>1, <4>2, <4>3, <4>4, <5>1 DEF DeliveryIsItsOwn
        <5>2. CASE g # h /\ Open(g)'
          <6>1. Open(g) /\ hook[g] = hook'[g] /\ DeliveryIsItsOwn(g)
            BY <1>1, <4>4, <5>2 DEF Sessions
          <6>2. \A f \in Requests : Open(f)' /\ f # g => hook'[f].delivery # hook'[g].delivery
            BY <4>1, <4>3, <4>4, <6>1 DEF DeliveryIsItsOwn
          <6> QED
            BY <2>0, <3>2, <6>1, <6>2 DEF DeliveryIsItsOwn
        <5> QED
          BY <5>1, <5>2 DEF DeliveryIsItsOwn
      <4> QED
        BY <2>1, <3>2, <4>5
    <3> QED
      BY <3>3, <3>4
  <2>5. CASE HookCommits(h)
    <3> DEFINE d == hook[h].delivery
    <3>1. /\ Open(h) /\ DeliveryIsItsOwn(h)
          /\ d \in DOMAIN sent /\ d \notin Recorded
      BY <1>1, <2>5 DEF HookCommits, Open, Sessions, DeliveryIsItsOwn
    <3>2. hook'[h] = Over /\ deliveries' = Append(deliveries, d)
      BY <1>1, <2>5 DEF HookCommits, InstallationTypeOK
    <3>3. /\ deliveries \in Seq(1..MaxEvents) /\ Len(deliveries) \in Nat
          /\ DOMAIN deliveries = 1..Len(deliveries)
      BY <1>1 DEF InstallationTypeOK
    <3> HIDE DEF d
    <3>4. /\ DOMAIN deliveries' = 1..(Len(deliveries) + 1)
          /\ deliveries'[Len(deliveries) + 1] = d
          /\ \A i \in DOMAIN deliveries : deliveries'[i] = deliveries[i]
      BY <3>2, <3>3
    <3>5. \A i \in DOMAIN deliveries : deliveries[i] # d
      BY <3>1 DEF Recorded
    <3>6. Recorded' = Recorded \cup {d}
      BY <3>3, <3>4 DEF Recorded
    <3>7. DeliveredOnce'
      BY <1>1, <3>3, <3>4, <3>5 DEF Sessions, DeliveredOnce
    <3>8. \A i \in DOMAIN deliveries' : deliveries'[i] \in DOMAIN sent'
      BY <1>1, <2>0, <3>1, <3>3, <3>4 DEF Sessions
    <3>9. ASSUME NEW g \in Requests PROVE DeliveryIsItsOwn(g)'
      <4>1. CASE g = h
        BY <3>2, <4>1 DEF DeliveryIsItsOwn, Open, Over
      <4>2. CASE g # h /\ Open(g)'
        <5>1. Open(g) /\ hook'[g] = hook[g] /\ DeliveryIsItsOwn(g)
          BY <1>1, <2>0, <4>2 DEF Open, Sessions
        <5>2. hook[g].delivery # d
          BY <3>1, <4>2, <5>1 DEF DeliveryIsItsOwn, d
        <5>3. \A f \in Requests : Open(f)' => f # h /\ hook'[f] = hook[f] /\ Open(f)
          BY <2>0, <3>2 DEF Open, Over
        <5> QED
          BY <2>0, <3>6, <5>1, <5>2, <5>3 DEF DeliveryIsItsOwn
      <4> QED
        BY <4>1, <4>2 DEF DeliveryIsItsOwn
    <3> QED
      BY <1>3, <3>7, <3>8, <3>9 DEF Sessions
  <2> QED
    BY <1>5, <2>2, <2>3, <2>4, <2>5 DEF Webhook
<1> QED
  BY <1>4, <1>5, OthersDeliverNothing DEF InstallationNext

-----------------------------------------------------------------------------
(* Disconnection *)

\* What each step does to the status of the row.
LEMMA StatusStep ==
    ASSUME InstallationInv, InstallationNext
    PROVE  \/ UNCHANGED <<status, deliveries, revived>>
           \/ status' = "ACTIVE" /\ routing = NoOrganization
              /\ UNCHANGED <<deliveries, hook, revived>>
           \/ \E h \in Requests : HookCommits(h)
           \/ ReconcileCommits
<1>1. CASE GitHubEvent \/ RepositoryChange \/ Disable
  BY <1>1 DEF GitHubEvent, RepositoryChange, Disable
<1>2. ASSUME NEW c \in Connects, Connection(c)
      PROVE  \/ UNCHANGED <<status, deliveries, revived>>
             \/ status' = "ACTIVE" /\ routing = NoOrganization
                /\ UNCHANGED <<deliveries, hook, revived>>
  BY <1>2 DEF Connection, ConsumeAttempt, ListForConnection, CommitConnection, Routed,
     RollBackConnection
<1>3. ASSUME NEW h \in Requests, Webhook(h), ~HookCommits(h)
      PROVE  UNCHANGED <<status, deliveries, revived>>
  BY <1>3 DEF Webhook, RecordDelivery, HookRereads, HookFails
<1>4. CASE ReconcileReads \/ ReconcileLists \/ ReconcileRereads \/ ReconcileFails
  BY <1>4 DEF ReconcileReads, ReconcileLists, ReconcileRereads, ReconcileFails
<1> QED
  BY <1>1, <1>2, <1>3, <1>4 DEF InstallationNext, Reconcile

\* A session that has read a disconnected row leaves it disconnected; nobody else
\* but an older session writes it.
LEMMA RevivedByAnOlderSession ==
    ASSUME InstallationInv, InstallationNext, Revives
    PROVE  AnOlderSessionCommits
<1>1. CASE UNCHANGED <<status, deliveries, revived>>
  BY <1>1 DEF Revives
<1>2. CASE routing = NoOrganization
  BY <1>2 DEF Revives, InstallationInv, Sessions
<1>3. ASSUME NEW h \in Requests, HookCommits(h) PROVE hook[h].read # "DISCONNECTED"
  <2>1. DeliveryIsItsOwn(h) /\ Open(h)
    BY <1>3 DEF HookCommits, Open, InstallationInv, Sessions
  <2>2. status' = StatusAfter(sent[hook[h].delivery])
    BY <1>3 DEF HookCommits, Flushed, Revives
  <2>3. StatusAfter("deleted") = "DISCONNECTED"
    BY StatusAfterIsAStatus DEF EventAction
  <2> QED
    BY <2>1, <2>2, <2>3 DEF DeliveryIsItsOwn, Revives
<1> QED
  BY <1>1, <1>2, <1>3, StatusStep DEF AnOlderSessionCommits

\* A session of the webhook that is to write a deletion finds the row disconnected,
\* or disconnects it.
LEMMA DisconnectionStep ==
    ASSUME InstallationInv, InstallationNext
    PROVE  Disconnection'
<1>1. InstallationTypeOK /\ Sessions /\ Disconnection
  BY DEF InstallationInv
<1>2. \A n \in DOMAIN sent : n \in DOMAIN sent' /\ sent'[n] = sent[n]
  BY <1>1, EventsAreKept
<1>3. deliveries \in Seq(1..MaxEvents) /\ Len(deliveries) \in Nat
  BY <1>1 DEF InstallationTypeOK
<1>4. deliveries' = deliveries => (Deleted' <=> Deleted)
  BY <1>1, <1>2 DEF Deleted, Sessions
<1>9. \A h \in Requests :
        hook[h] \in [at : {"new", "read", "reread", "ended"}, delivery : 0..MaxEvents,
                     read : Status \cup {"none"}, base : Status \cup {"none"}]
  BY <1>1 DEF InstallationTypeOK
<1>5. \A h \in Requests : hook'[h].at = "reread" /\ hook'[h].base = "DISCONNECTED"
        => \/ hook[h].at = "reread" /\ hook[h].base = "DISCONNECTED"
           \/ HookRereads(h) /\ status = "DISCONNECTED"
  <2>1. CASE UNCHANGED hook
    BY <2>1
  <2>2. ASSUME NEW h \in Requests, Webhook(h)
        PROVE  hook'[h].at = "reread" => (HookRereads(h) /\ hook'[h].base = status)
    <3>1. HookRereads(h) => hook'[h].base = status
      BY <1>1 DEF HookRereads, InstallationTypeOK
    <3>2. ~HookRereads(h) => hook'[h].at # "reread"
      <4>1. CASE HookCommits(h) \/ HookFails(h)
        <5>1. hook'[h] = Over
          BY <1>1, <4>1 DEF HookCommits, HookFails, InstallationTypeOK
        <5> QED
          BY <5>1 DEF Over
      <4>2. CASE RecordDelivery(h)
        <5>1. PICK d \in DOMAIN sent :
                \/ hook' = [hook EXCEPT ![h] = Over]
                \/ hook' = [hook EXCEPT ![h] =
                              [hook[h] EXCEPT !.at = "read", !.delivery = d, !.read = status]]
          BY <4>2 DEF RecordDelivery
        <5>2. \/ hook'[h] = Over
              \/ hook'[h] = [hook[h] EXCEPT !.at = "read", !.delivery = d, !.read = status]
          BY <1>1, <5>1 DEF InstallationTypeOK
        <5>3. Over.at = "ended"
          BY DEF Over
        <5>4. [hook[h] EXCEPT !.at = "read", !.delivery = d, !.read = status].at = "read"
          BY <1>9
        <5>5. hook'[h].at \in {"ended", "read"}
          BY <5>2, <5>3, <5>4
        <5> QED
          BY <5>5
      <4> QED
        BY <2>2, <4>1, <4>2 DEF Webhook
    <3> QED
      BY <3>1, <3>2
  <2> QED
    BY <1>1, <2>1, <2>2, OneSession, OthersDeliverNothing DEF InstallationNext
<1>6. CASE UNCHANGED <<status, deliveries, revived>>
  BY <1>1, <1>4, <1>5, <1>6 DEF Disconnection
<1>7. CASE /\ status' = "ACTIVE" /\ routing = NoOrganization
           /\ UNCHANGED <<deliveries, hook, revived>>
  <2>1. deliveries' = <<>> /\ \A h \in Requests : hook'[h].at # "reread"
    BY <1>1, <1>7 DEF Sessions, Open
  <2> QED
    BY <2>1 DEF Disconnection, Deleted
<1>8. CASE (\E h \in Requests : HookCommits(h)) \/ ReconcileCommits
  <2> SUFFICES ASSUME ~revived'
               PROVE  /\ Deleted' => status' = "DISCONNECTED"
                      /\ \A h \in Requests :
                           hook'[h].at = "reread" /\ hook'[h].base = "DISCONNECTED"
                             => status' = "DISCONNECTED"
    BY DEF Disconnection
  <2>1. ~revived /\ (status = "DISCONNECTED" => status' = "DISCONNECTED")
    BY <1>8 DEF HookCommits, ReconcileCommits, Revives
  <2>2. \A h \in Requests : ~HookRereads(h)
    <3>1. ASSUME NEW h \in Requests, hook[h].at = "read", hook'[h].at = "reread" PROVE FALSE
      <4>1. CASE ReconcileCommits
        BY <3>1, <4>1 DEF ReconcileCommits
      <4>2. ASSUME NEW g \in Requests, HookCommits(g) PROVE FALSE
        <5>1. hook[g].at = "reread" /\ hook'[h] = hook[h]
          BY <1>1, <3>1, <4>2 DEF HookCommits, InstallationTypeOK
        <5> QED
          BY <3>1, <5>1
      <4> QED
        BY <1>8, <4>1, <4>2
    <3>2. \A h \in Requests : HookRereads(h)
            => hook[h].at = "read" /\ hook'[h] = [hook[h] EXCEPT !.at = "reread", !.base = status]
      BY <1>1 DEF HookRereads, InstallationTypeOK
    <3>3. \A h \in Requests : HookRereads(h) => hook[h].at = "read" /\ hook'[h].at = "reread"
      BY <1>9, <3>2
    <3> QED
      BY <3>1, <3>3
  <2>3. CASE ReconcileCommits
    BY <1>1, <1>4, <1>5, <2>1, <2>2, <2>3 DEF ReconcileCommits, Disconnection
  <2>4. ASSUME NEW h \in Requests, HookCommits(h)
        PROVE  Deleted' => status' = "DISCONNECTED"
    <3> SUFFICES ASSUME Deleted' PROVE status' = "DISCONNECTED"
      OBVIOUS
    <3>1. deliveries' = Append(deliveries, hook[h].delivery) /\ sent' = sent
      BY <2>4 DEF HookCommits
    <3>2. Deleted \/ sent[hook[h].delivery] = "deleted"
      BY <1>3, <3>1 DEF Deleted
    <3>3. CASE Deleted
      BY <1>1, <2>1, <3>3 DEF Disconnection
    <3>4. CASE sent[hook[h].delivery] = "deleted"
      <4>1. status' = Flushed("DISCONNECTED", hook[h].base) /\ hook[h].at = "reread"
        BY <2>4, <3>4, StatusAfterIsAStatus DEF HookCommits, EventAction
      <4> QED
        BY <1>1, <2>1, <4>1 DEF Flushed, Disconnection
    <3> QED
      BY <3>2, <3>3, <3>4
  <2> QED
    BY <1>1, <1>5, <1>8, <2>1, <2>2, <2>3, <2>4 DEF Disconnection
<1> QED
  BY <1>6, <1>7, <1>8, StatusStep

-----------------------------------------------------------------------------
(* The theorems *)

\* The invariant holds in every reachable state.
THEOREM InstallationInvariant == InstallationSpec => []InstallationInv
<1>1. InstallationInit => InstallationInv
  BY InitEstablishesInstallationInv
<1>2. ASSUME InstallationInv, [InstallationNext]_installationVars PROVE InstallationInv'
  <2>1. CASE UNCHANGED installationVars
    <3>1. InstallationTypeOK'
      BY <1>2, <2>1 DEF installationVars, InstallationInv, InstallationTypeOK
    <3>2. OneConnection'
      BY <1>2, <2>1 DEF installationVars, InstallationInv, OneConnection
    <3>4. Sessions'
      BY <1>2, <2>1 DEF installationVars, InstallationInv, Sessions, DeliveryIsItsOwn, Open,
         Recorded, DeliveredOnce
    <3>5. Disconnection'
      BY <1>2, <2>1 DEF installationVars, InstallationInv, Disconnection, Deleted
    <3> QED
      BY <3>1, <3>2, <3>4, <3>5 DEF InstallationInv
  <2>2. CASE InstallationNext
    BY <1>2, <2>2, StepKeepsTypes, OneConnectionStep, SessionsStep, DisconnectionStep
       DEF InstallationInv
  <2> QED
    BY <1>2, <2>1, <2>2
<1> QED
  BY <1>1, <1>2, PTL DEF InstallationSpec

\* The variables keep their types.
THEOREM InstallationTypeCorrect == InstallationSpec => []InstallationTypeOK
<1>1. InstallationInv => InstallationTypeOK
  BY DEF InstallationInv
<1> QED
  BY <1>1, InstallationInvariant, PTL

\* At most one organization gets the installation.
THEOREM ConnectedOnceHolds == InstallationSpec => []ConnectedOnce
<1>1. InstallationInv => ConnectedOnce
  BY DEF InstallationInv, OneConnection, ConnectedOnce
<1> QED
  BY <1>1, InstallationInvariant, PTL

\* A delivery takes effect once.
THEOREM DeliveredOnceHolds == InstallationSpec => []DeliveredOnce
<1>1. InstallationInv => DeliveredOnce
  BY DEF InstallationInv, Sessions
<1> QED
  BY <1>1, InstallationInvariant, PTL

\* A deletion that was delivered stands until an older session has undone it, in
\* whatever order and however often the other events arrive.
THEOREM DeletionStandsHolds == InstallationSpec => []DeletionStands
<1>1. InstallationInv => DeletionStands
  BY DEF InstallationInv, Disconnection, Deleted, DeletionStands
<1> QED
  BY <1>1, InstallationInvariant, PTL

\* Nobody but a session that was under way when an installation was disconnected
\* revives it.
THEOREM DisconnectedStays == InstallationSpec => DisconnectedIsFinal
<1>1. InstallationInv /\ [InstallationNext]_installationVars
        => [Revives => AnOlderSessionCommits]_installationVars
  BY RevivedByAnOlderSession
<1> QED
  BY <1>1, InstallationInvariant, PTL DEF InstallationSpec, DisconnectedIsFinal

-----------------------------------------------------------------------------
(* Pull requests *)

\* What the calls know of GitHub: a call that is to open a pull request would not
\* find a closed one, and one that has found or opened one has its number.
OpenerKnows(c) ==
    /\ opener[c].at \in {"look", "post", "check", "answered"} => opener[c].base \in Bases
    /\ opener[c].at = "post" /\ ~overtaken
         => \A n \in DOMAIN pulls : pulls[n].base = opener[c].base => pulls[n].open
    /\ opener[c].at \in {"check", "answered"}
         => /\ opener[c].pull \in DOMAIN pulls
            /\ pulls[opener[c].pull].base = opener[c].base
    /\ opener[c].at = "answered" => Checks(c) \subseteq checked

OneForEachBase ==
    ~overtaken => \A n, p \in DOMAIN pulls : pulls[n].base = pulls[p].base => n = p

PullRequestInv ==
    /\ PullRequestTypeOK
    /\ OneForEachBase
    /\ \A c \in Openers : OpenerKnows(c)

\* Nobody has called.
LEMMA InitEstablishesPullRequestInv ==
    ASSUME PullRequestInit
    PROVE  PullRequestInv
<1>1. PICK b \in Bases : remote = [base |-> b, granted |-> TRUE]
                           /\ known = [base |-> b, active |-> TRUE]
  BY DEF PullRequestInit
<1>2. /\ pulls = <<>> /\ checked = {} /\ overtaken = FALSE /\ turns = 0 /\ lost = 0
      /\ opener = [c \in Openers |-> [at |-> "new", base |-> NoBase, pull |-> 0]]
  BY DEF PullRequestInit
<1>3. pulls \in Seq(Pull) /\ DOMAIN pulls = {}
  BY <1>2
<1>4. PullRequestTypeOK
  <2>1. remote \in [base : Bases, granted : BOOLEAN]
        /\ known \in [base : Bases, active : BOOLEAN]
    BY <1>1
  <2>2. opener \in [Openers -> [at : {"new", "look", "post", "check", "answered", "failed"},
                               base : Bases \cup {NoBase}, pull : Nat]]
    BY <1>2
  <2>3. turns \in 0..MaxTurns /\ lost \in 0..MaxLost
    BY <1>2, PullRequestAssumption
  <2> QED
    BY <1>2, <1>3, <2>1, <2>2, <2>3 DEF PullRequestTypeOK
<1> QED
  BY <1>2, <1>3, <1>4 DEF PullRequestInv, OneForEachBase, OpenerKnows

\* A pull request that GitHub opens is the only one to its base that is open, and
\* leaves the others as they are.
LEMMA OpensAnother ==
    ASSUME PullRequestTypeOK, NEW base \in Bases, Opens(base)
    PROVE  /\ pulls' \in Seq(Pull)
           /\ Len(pulls') = Len(pulls) + 1
           /\ \A n \in DOMAIN pulls : n \in DOMAIN pulls' /\ pulls'[n] = pulls[n]
           /\ \A n \in DOMAIN pulls' : n \in DOMAIN pulls \/ n = Len(pulls) + 1
           /\ Len(pulls) + 1 \in DOMAIN pulls'
           /\ pulls'[Len(pulls) + 1] = [base |-> base, open |-> TRUE]
           /\ \A n \in DOMAIN pulls : pulls[n].base = base => ~pulls[n].open
<1>1. [base |-> base, open |-> TRUE] \in Pull
  BY DEF Pull
<1>2. pulls \in Seq(Pull)
  BY DEF PullRequestTypeOK
<1> QED
  BY <1>1, <1>2 DEF Opens

\* Opening one keeps one for each base, and what the other calls know.
LEMMA OpeningKeepsKnowledge ==
    ASSUME PullRequestInv, NEW c \in Openers, opener[c].at = "post", Opens(opener[c].base),
           UNCHANGED overtaken
    PROVE  /\ OneForEachBase'
           /\ \A n \in DOMAIN pulls : n \in DOMAIN pulls' /\ pulls'[n].base = pulls[n].base
           /\ ~overtaken => \A n \in DOMAIN pulls' :
                              pulls'[n].base = opener[c].base => pulls'[n].open
           /\ \A n \in DOMAIN pulls' : n \notin DOMAIN pulls => pulls'[n].open
           /\ \A n \in DOMAIN pulls : pulls'[n].open <=> pulls[n].open
<1>1. opener[c].base \in Bases /\ PullRequestTypeOK /\ OneForEachBase
  BY DEF PullRequestInv, OpenerKnows
<1>2. /\ \A n \in DOMAIN pulls : n \in DOMAIN pulls' /\ pulls'[n] = pulls[n]
      /\ \A n \in DOMAIN pulls' : n \in DOMAIN pulls \/ n = Len(pulls) + 1
      /\ pulls'[Len(pulls) + 1] = [base |-> opener[c].base, open |-> TRUE]
      /\ \A n \in DOMAIN pulls : pulls[n].base = opener[c].base => ~pulls[n].open
  BY <1>1, OpensAnother
<1>3. ~overtaken => \A n \in DOMAIN pulls : pulls[n].base # opener[c].base
  BY <1>2 DEF PullRequestInv, OpenerKnows
<1> QED
  BY <1>1, <1>2, <1>3 DEF OneForEachBase

\* The steps of a call.
LEMMA OpeningKeepsPullRequestInv ==
    ASSUME PullRequestInv, NEW c \in Openers, Opening(c)
    PROVE  PullRequestInv'
<1> DEFINE Steps == {"new", "look", "post", "check", "answered", "failed"}
           Calls == [at : Steps, base : Bases \cup {NoBase}, pull : Nat]
<1>1. /\ PullRequestTypeOK /\ OneForEachBase
      /\ opener \in [Openers -> Calls]
      /\ \A d \in Openers : OpenerKnows(d)
  BY DEF PullRequestInv, PullRequestTypeOK
<1>2. UNCHANGED <<remote, known, overtaken, turns>>
  BY DEF Opening, BeginOpening, FindPullRequest, PostPullRequest, CreateCheckRun, OpeningFails
<1>3. lost' \in 0..MaxLost
  BY <1>1, PullRequestAssumption
     DEF Opening, BeginOpening, FindPullRequest, PostPullRequest, CreateCheckRun, OpeningFails,
         PullRequestTypeOK
<1>4. ASSUME UNCHANGED <<pulls, checked>>, opener' \in [Openers -> Calls],
             \A d \in Openers \ {c} : opener'[d] = opener[d],
             OpenerKnows(c)'
      PROVE  PullRequestInv'
  <2>1. PullRequestTypeOK' /\ OneForEachBase'
    BY <1>1, <1>2, <1>3, <1>4 DEF PullRequestTypeOK, OneForEachBase
  <2>2. ASSUME NEW d \in Openers \ {c} PROVE OpenerKnows(d)'
    BY <1>1, <1>2, <1>4, <2>2 DEF OpenerKnows
  <2> QED
    BY <1>4, <2>1, <2>2 DEF PullRequestInv
<1>5. ASSUME UNCHANGED <<pulls, checked>>, OpenerIs(c, "failed") PROVE PullRequestInv'
  <2>1. opener' \in [Openers -> Calls] /\ opener'[c].at = "failed"
        /\ \A d \in Openers \ {c} : opener'[d] = opener[d]
    BY <1>1, <1>5 DEF OpenerIs
  <2>2. OpenerKnows(c)'
    BY <2>1 DEF OpenerKnows
  <2> QED
    BY <1>4, <1>5, <2>1, <2>2
<1>6. CASE BeginOpening(c)
  <2>1. UNCHANGED <<pulls, checked>>
    BY <1>6 DEF BeginOpening
  <2>2. CASE ~known.active
    BY <1>5, <1>6, <2>1, <2>2 DEF BeginOpening
  <2>3. CASE known.active
    <3>1. opener' = [opener EXCEPT ![c].at = "look", ![c].base = known.base]
          /\ known.base \in Bases
      BY <1>1, <1>6, <2>3 DEF BeginOpening, PullRequestTypeOK
    <3>2. opener' \in [Openers -> Calls] /\ opener'[c].at = "look" /\ opener'[c].base \in Bases
          /\ \A d \in Openers \ {c} : opener'[d] = opener[d]
      BY <1>1, <3>1
    <3>3. OpenerKnows(c)'
      BY <3>2 DEF OpenerKnows
    <3> QED
      BY <1>4, <2>1, <3>2, <3>3
  <2> QED
    BY <2>2, <2>3
<1>7. CASE FindPullRequest(c)
  <2>1. UNCHANGED <<pulls, checked>> /\ opener[c].at = "look" /\ opener[c].base \in Bases
    BY <1>1, <1>7 DEF FindPullRequest, OpenerKnows
  <2>2. CASE OpenerIs(c, "failed")
    BY <1>5, <2>1, <2>2
  <2>3. CASE OpenerIs(c, "post") /\ Found(opener[c].base) = {}
    <3>1. opener' \in [Openers -> Calls] /\ opener'[c].at = "post"
          /\ opener'[c].base = opener[c].base
          /\ \A d \in Openers \ {c} : opener'[d] = opener[d]
      BY <1>1, <2>3 DEF OpenerIs
    <3>2. OpenerKnows(c)'
      BY <2>1, <2>3, <3>1 DEF OpenerKnows, Found
    <3> QED
      BY <1>4, <2>1, <3>1, <3>2
  <2>4. ASSUME NEW n \in Found(opener[c].base),
               opener' = [opener EXCEPT ![c].at = "check", ![c].pull = n]
        PROVE  PullRequestInv'
    <3>1. n \in DOMAIN pulls /\ n \in Nat /\ pulls[n].base = opener[c].base
      BY <1>1, <2>4 DEF Found, PullRequestTypeOK
    <3>2. opener' \in [Openers -> Calls] /\ opener'[c].at = "check" /\ opener'[c].pull = n
          /\ opener'[c].base = opener[c].base
          /\ \A d \in Openers \ {c} : opener'[d] = opener[d]
      BY <1>1, <2>4, <3>1
    <3>3. OpenerKnows(c)'
      BY <2>1, <3>1, <3>2 DEF OpenerKnows
    <3> QED
      BY <1>4, <2>1, <3>2, <3>3
  <2> QED
    BY <1>7, <2>2, <2>3, <2>4 DEF FindPullRequest
<1>8. ASSUME opener[c].at = "post", Opens(opener[c].base), UNCHANGED checked,
             \/ OpenerIs(c, "failed")
             \/ opener' = [opener EXCEPT ![c].at = "check", ![c].pull = Len(pulls) + 1]
      PROVE  PullRequestInv'
  <2>1. opener[c].base \in Bases
    BY <1>1, <1>8 DEF OpenerKnows
  <2>2. /\ pulls' \in Seq(Pull)
        /\ Len(pulls) \in Nat /\ Len(pulls) + 1 \in DOMAIN pulls'
        /\ pulls'[Len(pulls) + 1].base = opener[c].base
    <3>1. /\ pulls' \in Seq(Pull) /\ Len(pulls) + 1 \in DOMAIN pulls'
          /\ pulls'[Len(pulls) + 1] = [base |-> opener[c].base, open |-> TRUE]
      BY <1>1, <1>8, <2>1, OpensAnother
    <3>2. pulls \in Seq(Pull)
      BY <1>1 DEF PullRequestTypeOK
    <3> QED
      BY <3>1, <3>2
  <2>3. /\ OneForEachBase'
        /\ \A n \in DOMAIN pulls : n \in DOMAIN pulls' /\ pulls'[n].base = pulls[n].base
        /\ \A n \in DOMAIN pulls' : n \notin DOMAIN pulls => pulls'[n].open
        /\ \A n \in DOMAIN pulls : pulls'[n].open <=> pulls[n].open
    BY <1>2, <1>8, OpeningKeepsKnowledge
  <2>4. /\ opener' \in [Openers -> Calls]
        /\ \A d \in Openers \ {c} : opener'[d] = opener[d]
        /\ opener'[c].base = opener[c].base
        /\ \/ opener'[c].at = "failed"
           \/ opener'[c].at = "check" /\ opener'[c].pull = Len(pulls) + 1
    <3>1. CASE OpenerIs(c, "failed")
      BY <1>1, <3>1 DEF OpenerIs
    <3>2. CASE opener' = [opener EXCEPT ![c].at = "check", ![c].pull = Len(pulls) + 1]
      <4>1. Len(pulls) + 1 \in Nat
        BY <2>2
      <4> DEFINE m == Len(pulls) + 1
      <4> HIDE DEF m
      <4>2. m \in Nat /\ opener' = [opener EXCEPT ![c].at = "check", ![c].pull = m]
        BY <3>2, <4>1 DEF m
      <4>3. /\ opener' \in [Openers -> Calls]
            /\ \A d \in Openers \ {c} : opener'[d] = opener[d]
            /\ opener'[c].base = opener[c].base
            /\ opener'[c].at = "check" /\ opener'[c].pull = m
        BY <1>1, <4>2
      <4> QED
        BY <4>3 DEF m
    <3> QED
      BY <1>8, <3>1, <3>2
  <2>5. PullRequestTypeOK'
    BY <1>1, <1>2, <1>3, <1>8, <2>2, <2>4 DEF PullRequestTypeOK
  <2>6. OpenerKnows(c)'
    BY <2>1, <2>2, <2>4 DEF OpenerKnows
  <2>7. ASSUME NEW d \in Openers \ {c} PROVE OpenerKnows(d)'
    BY <1>1, <1>2, <1>8, <2>3, <2>4, <2>7 DEF OpenerKnows
  <2> QED
    BY <2>3, <2>5, <2>6, <2>7 DEF PullRequestInv
<1>9. ASSUME opener[c].at = "check", UNCHANGED pulls, checked' = checked \cup Checks(c),
             OpenerIs(c, "answered") \/ OpenerIs(c, "failed")
      PROVE  PullRequestInv'
  <2>1. /\ opener' \in [Openers -> Calls]
        /\ \A d \in Openers \ {c} : opener'[d] = opener[d]
        /\ opener'[c].at \in {"answered", "failed"}
        /\ opener'[c].base = opener[c].base /\ opener'[c].pull = opener[c].pull
    BY <1>1, <1>9 DEF OpenerIs
  <2>2. PullRequestTypeOK' /\ OneForEachBase'
    BY <1>1, <1>2, <1>3, <1>9, <2>1 DEF PullRequestTypeOK, OneForEachBase
  <2>3. ASSUME NEW d \in Openers PROVE OpenerKnows(d)'
    BY <1>1, <1>2, <1>9, <2>1 DEF OpenerKnows
  <2> QED
    BY <2>2, <2>3 DEF PullRequestInv
<1>10. CASE PostPullRequest(c)
  <2>1. CASE Opens(opener[c].base)
             /\ opener' = [opener EXCEPT ![c].at = "check", ![c].pull = Len(pulls) + 1]
    BY <1>8, <1>10, <2>1 DEF PostPullRequest
  <2>2. CASE Refuses(opener[c].base) /\ OpenerIs(c, "failed")
    BY <1>5, <1>10, <2>2 DEF PostPullRequest, Refuses
  <2> QED
    BY <1>10, <2>1, <2>2 DEF PostPullRequest
<1>11. CASE CreateCheckRun(c)
  BY <1>5, <1>9, <1>11 DEF CreateCheckRun
<1>12. CASE OpeningFails(c)
  BY <1>5, <1>8, <1>9, <1>12 DEF OpeningFails
<1> QED
  BY <1>6, <1>7, <1>10, <1>11, <1>12 DEF Opening

\* Somebody else's step: a pull request that is closed under a call that is to
\* open one is history from then on.
LEMMA TurnKeepsPullRequestInv ==
    ASSUME PullRequestInv,
           \/ \E n \in DOMAIN pulls : ClosePullRequest(n)
           \/ ChangeDefaultBranch \/ WithdrawOrGrant \/ KnowDefaultBranch
           \/ InstallationChanges
    PROVE  PullRequestInv'
<1>1. PullRequestTypeOK /\ OneForEachBase /\ \A c \in Openers : OpenerKnows(c)
  BY DEF PullRequestInv
<1>2. turns' \in 0..MaxTurns
  BY <1>1, PullRequestAssumption
     DEF ClosePullRequest, ChangeDefaultBranch, WithdrawOrGrant, KnowDefaultBranch,
         InstallationChanges, Turn, PullRequestTypeOK
<1>3. CASE ChangeDefaultBranch \/ WithdrawOrGrant \/ KnowDefaultBranch \/ InstallationChanges
  <2>1. UNCHANGED <<pulls, checked, opener, overtaken, lost>>
    BY <1>3 DEF ChangeDefaultBranch, WithdrawOrGrant, KnowDefaultBranch, InstallationChanges
  <2>2. /\ remote' \in [base : Bases, granted : BOOLEAN]
        /\ known' \in [base : Bases, active : BOOLEAN]
    BY <1>1, <1>3 DEF ChangeDefaultBranch, WithdrawOrGrant, KnowDefaultBranch,
                      InstallationChanges, PullRequestTypeOK
  <2>3. PullRequestTypeOK' /\ OneForEachBase'
    BY <1>1, <1>2, <2>1, <2>2 DEF PullRequestTypeOK, OneForEachBase
  <2>4. ASSUME NEW c \in Openers PROVE OpenerKnows(c)'
    BY <1>1, <2>1 DEF OpenerKnows
  <2> QED
    BY <2>3, <2>4 DEF PullRequestInv
<1>4. ASSUME NEW n \in DOMAIN pulls, ClosePullRequest(n) PROVE PullRequestInv'
  <2>1. /\ pulls' = [pulls EXCEPT ![n].open = FALSE]
        /\ overtaken' = (overtaken \/ \E c \in Openers : opener[c].at = "post"
                                            /\ opener[c].base = pulls[n].base)
        /\ UNCHANGED <<remote, checked, known, opener, lost>>
    BY <1>4 DEF ClosePullRequest
  <2>2. /\ pulls' \in Seq(Pull) /\ DOMAIN pulls' = DOMAIN pulls
        /\ \A m \in DOMAIN pulls : pulls'[m].base = pulls[m].base
        /\ \A m \in DOMAIN pulls \ {n} : pulls'[m] = pulls[m]
    <3>1. pulls \in Seq(Pull) /\ n \in DOMAIN pulls /\ pulls[n] \in Pull
      BY <1>1, <1>4 DEF PullRequestTypeOK
    <3> DEFINE closed == [pulls[n] EXCEPT !.open = FALSE]
    <3>2. closed \in Pull /\ closed.base = pulls[n].base
      BY <3>1 DEF Pull
    <3>3. pulls' = [pulls EXCEPT ![n] = closed]
      BY <2>1, <3>1
    <3> HIDE DEF closed
    <3>4. pulls' \in Seq(Pull)
      BY <3>1, <3>2, <3>3
    <3>5. DOMAIN pulls' = DOMAIN pulls /\ pulls'[n] = closed
          /\ \A m \in DOMAIN pulls \ {n} : pulls'[m] = pulls[m]
      BY <3>1, <3>3
    <3> QED
      BY <3>2, <3>4, <3>5
  <2>3. overtaken' \in BOOLEAN /\ (~overtaken' => ~overtaken)
    BY <1>1, <2>1 DEF PullRequestTypeOK
  <2>4. PullRequestTypeOK' /\ OneForEachBase'
    BY <1>1, <1>2, <2>1, <2>2, <2>3 DEF PullRequestTypeOK, OneForEachBase
  <2>5. ASSUME NEW c \in Openers PROVE OpenerKnows(c)'
    BY <1>1, <2>1, <2>2, <2>3 DEF OpenerKnows
  <2> QED
    BY <2>4, <2>5 DEF PullRequestInv
<1> QED
  BY <1>3, <1>4

\* The invariant holds in every reachable state.
THEOREM PullRequestInvariant == PullRequestSpec => []PullRequestInv
<1>1. PullRequestInv /\ [PullRequestNext]_pullVars => PullRequestInv'
  <2> SUFFICES ASSUME PullRequestInv, [PullRequestNext]_pullVars PROVE PullRequestInv'
    OBVIOUS
  <2>1. CASE PullRequestNext
    BY <2>1, OpeningKeepsPullRequestInv, TurnKeepsPullRequestInv DEF PullRequestNext
  <2>2. CASE UNCHANGED pullVars
    BY <2>2 DEF pullVars, PullRequestInv, PullRequestTypeOK, OneForEachBase, OpenerKnows
  <2> QED
    BY <2>1, <2>2
<1> QED
  BY <1>1, InitEstablishesPullRequestInv, PTL DEF PullRequestSpec

\* However many calls overlap, fail half-way or are repeated, they share one pull
\* request for each default branch.
THEOREM OnePullRequest == PullRequestSpec => []PullRequestIsShared
<1>1. PullRequestInv => PullRequestIsShared
  BY DEF PullRequestInv, OneForEachBase, OpenerKnows, PullRequestIsShared
<1> QED
  BY <1>1, PullRequestInvariant, PTL
=============================================================================
