--------------------------- MODULE EventDelivery ---------------------------
(***************************************************************************)
(* The way of a work_item.ready event from the control plane's outbox over *)
(* JetStream into the delivery service: the outbox publisher               *)
(* (control_plane entrypoints/outbox.py), the stream and its durable pull  *)
(* consumer, and the event loop (delivery entrypoints/events.py) with      *)
(* record_inbox and accept_ready_work_item.  Module WorkItemIntake, which  *)
(* this one extends, writes the events.                                    *)
(*                                                                         *)
(* Publisher and event loop may run several times (deployment.md asks for  *)
(* independently scalable services).  An event loop that meets an          *)
(* exception ends with its process; the model starts it again.             *)
(***************************************************************************)
EXTENDS WorkItemIntake, Sequences, FiniteSetsExt, Functions

CONSTANTS Publishers, Workers,
          Known,       \* the terms that name a provider configuration delivery has
          BatchLimit,  \* limit(100)
          FetchLimit,  \* fetch(20)
          MaxMessages, \* bound on the length of the stream
          MaxFaults,   \* how often a publisher or an event loop fails by itself
          MaxDirect    \* how many executions are requested without an event

ASSUME EventDeliveryAssumption ==
    /\ Known \subseteq Terms
    /\ BatchLimit \in Nat \ {0} /\ FetchLimit \in Nat \ {0}
    /\ MaxMessages \in Nat /\ MaxFaults \in Nat /\ MaxDirect \in Nat

VARIABLES
    publisher, \* the routes each publisher has read, and those of them it has published
    stream,    \* the messages in DOMAIN_EVENTS, each the id of its event
    delivery,  \* what the durable consumer knows of each message
    worker,    \* the messages each event loop has fetched, and its session on one of them
    inbox,     \* the rows of event_inbox
    execution, \* the terms of each work item's execution
    starts,    \* the START commands written for each work item
    applied,   \* history: how often each event has taken effect
    direct,    \* history: the items whose execution was requested without an event
    faults

deliveryVars == <<publisher, stream, delivery, worker, inbox, execution, starts, applied, direct,
                  faults>>
vars == <<controlVars, deliveryVars>>

NoBatch == [routes |-> {}, sent |-> {}]
NoSession == "none"
Resting == [fetched |-> {}, message |-> 0, session |-> NoSession]

TypeOK ==
    /\ table \in [Rows -> Row]
    /\ event \in [Events -> [item : Items \cup {NoItem}, terms : Terms \cup {NoTerms}]]
    /\ routes \in SUBSET Events
    /\ stale \in Nat
    /\ \A s \in Sessions : session[s] # Idle => session[s].op \in DOMAIN Command
    /\ publisher \in [Publishers -> [routes : SUBSET Events, sent : SUBSET Events]]
    /\ stream \in Seq(Events) /\ Len(stream) <= MaxMessages
    /\ delivery \in [1..MaxMessages -> {"available", "pending", "acknowledged"}]
    /\ \A w \in Workers :
         /\ worker[w].fetched \in SUBSET (1..Len(stream))
         /\ worker[w].session \in {NoSession, "accept", "insert", "existing", "done"}
         /\ worker[w].message \in worker[w].fetched \/ worker[w].session = NoSession
    /\ inbox \in SUBSET Events
    /\ execution \in [Items -> Terms \cup {NoTerms}]
    /\ starts \in [Items -> Nat]
    /\ applied \in [Events -> Nat]
    /\ direct \in SUBSET Items
    /\ faults \in 0..MaxFaults

DeliveryInit ==
    /\ publisher = [p \in Publishers |-> NoBatch]
    /\ stream = <<>>
    /\ delivery = [m \in 1..MaxMessages |-> "available"]
    /\ worker = [w \in Workers |-> Resting]
    /\ inbox = {}
    /\ execution = [i \in Items |-> NoTerms]
    /\ starts = [i \in Items |-> 0]
    /\ applied = [e \in Events |-> 0]
    /\ direct = {}
    /\ faults = 0

Init == ControlInit /\ DeliveryInit

-----------------------------------------------------------------------------
\* The outbox publisher: one transaction for a batch of routes.

consumerVars == <<delivery, worker, inbox, execution, starts, applied, direct>>

\* Each route's deletion is committed on its own, before its message is sent.
BugReadsRoutes(p) ==
    /\ publisher[p] = NoBatch
    /\ routes # {}
    /\ \E batch \in SUBSET routes :
         /\ Cardinality(batch) = Min({BatchLimit, Cardinality(routes)})
         /\ publisher' = [publisher EXCEPT ![p].routes = batch]
         /\ routes' = routes \ batch
    /\ UNCHANGED <<table, session, event, stale, stream, consumerVars, faults>>

ReadsRoutes(p) ==
    /\ publisher[p] = NoBatch
    /\ routes # {}
    /\ \E batch \in SUBSET routes :
         /\ Cardinality(batch) = Min({BatchLimit, Cardinality(routes)})
         /\ publisher' = [publisher EXCEPT ![p].routes = batch]
    /\ UNCHANGED <<controlVars, stream, consumerVars, faults>>

\* JetStream drops a message whose Nats-Msg-Id it has seen in its deduplication window, and
\* stores it again when the first is older than that.
Stored(e) == \/ e \in Range(stream) /\ stream' = stream
             \/ Len(stream) < MaxMessages /\ stream' = Append(stream, e)

Publishes(p) ==
    \E e \in publisher[p].routes \ publisher[p].sent :
        /\ Stored(e)
        /\ publisher' = [publisher EXCEPT ![p].sent = @ \cup {e}]
        /\ UNCHANGED <<controlVars, consumerVars, faults>>

\* The batch commits: the routes that were published are deleted.
CommitsBatch(p) ==
    /\ publisher[p] # NoBatch
    /\ publisher[p].sent = publisher[p].routes
    /\ routes' = routes \ publisher[p].sent
    /\ publisher' = [publisher EXCEPT ![p] = NoBatch]
    /\ UNCHANGED <<table, session, event, stale, stream, consumerVars, faults>>

\* An error of NATS or of the database, or the end of the process: the batch is rolled back,
\* what was published of it stays published.
PublisherFails(p) ==
    /\ faults < MaxFaults
    /\ publisher[p] # NoBatch
    /\ publisher' = [publisher EXCEPT ![p] = NoBatch]
    /\ faults' = faults + 1
    /\ UNCHANGED <<controlVars, stream, consumerVars>>

-----------------------------------------------------------------------------
\* The event loop of the delivery service.

Available == {m \in 1..Len(stream) : delivery[m] = "available"}

\* The messages of a batch are acknowledged as soon as it is fetched.
BugFetches(w) ==
    /\ worker[w] = Resting
    /\ Available # {}
    /\ \E batch \in SUBSET Available :
         /\ Cardinality(batch) = Min({FetchLimit, Cardinality(Available)})
         /\ worker' = [worker EXCEPT ![w].fetched = batch]
         /\ delivery' = [m \in DOMAIN delivery |->
                           IF m \in batch THEN "acknowledged" ELSE delivery[m]]
    /\ UNCHANGED <<controlVars, publisher, stream, inbox, execution, starts, applied, direct,
                   faults>>

\* A fetch gets the first messages that the consumer may offer.
Fetches(w) ==
    /\ worker[w] = Resting
    /\ Available # {}
    /\ \E batch \in SUBSET Available :
         /\ Cardinality(batch) = Min({FetchLimit, Cardinality(Available)})
         /\ \A m \in batch, n \in Available \ batch : m < n
         /\ worker' = [worker EXCEPT ![w].fetched = batch]
         /\ delivery' = [m \in DOMAIN delivery |->
                           IF m \in batch THEN "pending" ELSE delivery[m]]
    /\ UNCHANGED <<controlVars, publisher, stream, inbox, execution, starts, applied, direct,
                   faults>>

\* The acknowledgement of a message is late: the consumer offers it again.
OffersAgain(m) ==
    /\ delivery[m] = "pending"
    /\ delivery' = [delivery EXCEPT ![m] = "available"]
    /\ UNCHANGED <<controlVars, publisher, stream, worker, inbox, execution, starts,
                   applied, direct, faults>>

Current(w) == stream[worker[w].message]

\* What process_event will do with e: nothing if the inbox has it, else accept_ready_work_item,
\* which raises when the provider configuration is unknown.
Decision(e) ==
    CASE e \in inbox -> "done"
      [] e \notin inbox /\ execution[event[e].item] # NoTerms -> "existing"
      [] e \notin inbox /\ execution[event[e].item] = NoTerms ->
            IF event[e].terms \in Known THEN "accept" ELSE "raise"

\* The transaction for the next message reads inbox, execution and configuration.
StartsEvent(w) ==
    /\ worker[w].session = NoSession
    /\ \E m \in worker[w].fetched :
         /\ \A n \in worker[w].fetched : m <= n
         /\ worker' = [worker EXCEPT ![w] =
                         IF Decision(stream[m]) = "raise" THEN Resting
                         ELSE [@ EXCEPT !.message = m, !.session = Decision(stream[m])]]
    /\ UNCHANGED <<controlVars, publisher, stream, delivery, inbox, execution, starts,
                   applied, direct, faults>>

\* add_execution looks for the work item's execution again before it inserts one.
AddsExecution(w) ==
    /\ worker[w].session = "accept"
    /\ worker' = [worker EXCEPT ![w].session =
                     IF execution[event[Current(w)].item] = NoTerms THEN "insert" ELSE "existing"]
    /\ UNCHANGED <<controlVars, publisher, stream, delivery, inbox, execution, starts,
                   applied, direct, faults>>

\* No unique constraint on the organization and the work item of an execution.
BugConflict(w) == Current(w) \in inbox

\* No primary key on the event of an inbox row.
BugConflictOfEvents(w) ==
    worker[w].session = "insert" /\ execution[event[Current(w)].item] # NoTerms

\* It commits, unless the inbox row or the work item's execution exists by now: then it raises
\* and the process ends.
Conflict(w) ==
    \/ Current(w) \in inbox
    \/ worker[w].session = "insert" /\ execution[event[Current(w)].item] # NoTerms

CommitsEvent(w) ==
    LET e == Current(w)
        i == event[e].item
    IN  /\ worker[w].session \in {"insert", "existing"}
        /\ IF Conflict(w)
           THEN /\ worker' = [worker EXCEPT ![w] = Resting]
                /\ UNCHANGED <<inbox, execution, starts, applied>>
           ELSE /\ worker' = [worker EXCEPT ![w].session = "done"]
                /\ inbox' = inbox \cup {e}
                /\ applied' = [applied EXCEPT ![e] = @ + 1]
                /\ IF worker[w].session = "insert"
                   THEN /\ execution' = [execution EXCEPT ![i] = event[e].terms]
                        /\ starts' = [starts EXCEPT ![i] = @ + 1]
                   ELSE UNCHANGED <<execution, starts>>
        /\ UNCHANGED <<controlVars, publisher, stream, delivery, direct, faults>>

\* message.ack() is sent after the commit; on a fault it is lost.
Acknowledges(w) ==
    /\ worker[w].session = "done"
    /\ \/ /\ delivery' = [delivery EXCEPT ![worker[w].message] = "acknowledged"]
          /\ UNCHANGED faults
       \/ /\ faults < MaxFaults
          /\ faults' = faults + 1
          /\ UNCHANGED delivery
    /\ worker' = [worker EXCEPT
                     ![w] = [Resting EXCEPT !.fetched = worker[w].fetched \ {worker[w].message}]]
    /\ UNCHANGED <<controlVars, publisher, stream, inbox, execution, starts, applied,
                   direct>>

\* The process ends between two steps; what it has fetched stays pending.
WorkerCrashes(w) ==
    /\ faults < MaxFaults
    /\ worker[w] # Resting
    /\ worker' = [worker EXCEPT ![w] = Resting]
    /\ faults' = faults + 1
    /\ UNCHANGED <<controlVars, publisher, stream, delivery, inbox, execution, starts, applied,
                   direct>>

-----------------------------------------------------------------------------
\* POST /organizations/{organization_id}/executions: a request of a person, without an event.
\* It names any work item, whatever the control plane says of it, and terms of its own.  One
\* step: what it reads before its insert can only end it without an effect, and so does the
\* unique constraint.
AcceptsDirectly(i, t) ==
    /\ Cardinality(direct) < MaxDirect
    /\ t \in Known
    /\ execution[i] = NoTerms
    /\ execution' = [execution EXCEPT ![i] = t]
    /\ starts' = [starts EXCEPT ![i] = @ + 1]
    /\ direct' = direct \cup {i}
    /\ UNCHANGED <<controlVars, publisher, stream, delivery, worker, inbox, applied, faults>>

-----------------------------------------------------------------------------
Publishing(p) == ReadsRoutes(p) \/ Publishes(p) \/ CommitsBatch(p)
Consuming(w) ==
    Fetches(w) \/ StartsEvent(w) \/ AddsExecution(w) \/ CommitsEvent(w) \/ Acknowledges(w)

DeliveryNext ==
    \/ \E p \in Publishers : Publishing(p) \/ PublisherFails(p)
    \/ \E w \in Workers : Consuming(w) \/ WorkerCrashes(w)
    \/ \E m \in 1..Len(stream) : OffersAgain(m)
    \/ \E i \in Items, t \in Terms : AcceptsDirectly(i, t)

Next ==
    \/ ControlNext /\ UNCHANGED deliveryVars
    \/ DeliveryNext

Spec == Init /\ [][Next]_vars

\* Delivery beside any producer: events of any item and with any terms, each at any time.
AnyNext ==
    \/ /\ \E e \in Events, i \in Items, t \in Terms : Announces(e, i, t)
       /\ UNCHANGED <<table, session, stale, deliveryVars>>
    \/ DeliveryNext

AnySpec == Init /\ [][AnyNext]_vars

\* Publisher and event loops are loops that poll, an event loop is started again when it ends,
\* and JetStream offers an unacknowledged message again.
AnyFairSpec ==
    /\ AnySpec
    /\ \A p \in Publishers : WF_vars(Publishing(p))
    /\ \A w \in Workers : WF_vars(Consuming(w))
    /\ \A m \in 1..MaxMessages : WF_vars(m \in DOMAIN stream /\ OffersAgain(m))

-----------------------------------------------------------------------------
\* Properties.

\* An announced event is still routed, or in the stream; and if all its messages are
\* acknowledged its inbox row exists. So no crash, lost acknowledgement or redelivery loses it
\* (outbox.py:23-54, events.py:68-75).
NoEventIsLost ==
    \A e \in Announced :
        \/ e \in routes
        \/ /\ e \in Range(stream)
           /\ e \notin inbox => \E m \in 1..Len(stream) :
                                   stream[m] = e /\ delivery[m] # "acknowledged"

\* Every copy of an event together takes effect once at most (README.md, event flow).
AppliedAtMostOnce == \A e \in Events : applied[e] <= 1

\* However often and in how many events a work item is announced, it has one execution and one
\* START, and these are there as soon as an event of it has been applied.
OneExecutionPerWorkItem ==
    \A i \in Items :
        /\ starts[i] <= 1
        /\ (starts[i] = 1) <=> (execution[i] # NoTerms)
        /\ (\E e \in inbox : event[e].item = i) => starts[i] = 1

\* What delivery executes was requested directly, or it was announced, with just these terms
\* and in an event that delivery has consumed; and that is what the control plane records for
\* the item as long as no session has committed over a change it did not see.
ExecutionHasTheRecordedTerms ==
    \A i \in Items \ direct : execution[i] # NoTerms =>
        /\ \E e \in inbox : event[e] = [item |-> i, terms |-> execution[i]]
        /\ stale = 0 => table[i] = [status |-> "READY", terms |-> execution[i]]

\* If every announced event names a known provider configuration, the work item of each gets
\* its execution.
ReadyIsAccepted ==
    \A i \in Items :
        (\E e \in Announced : event[e].item = i)
            ~> \/ execution[i] # NoTerms
               \/ \E e \in Announced : event[e].terms \notin Known

\* As the documentation has it, "work_item.ready.v1 starts a deterministic Temporal delivery
\* workflow" (docs/architecture.md:55): whenever the terms of the event are known.
ReadyStartsAWorkflow ==
    \A i \in Items :
        (\E e \in Announced : event[e].item = i /\ event[e].terms \in Known) ~> (starts[i] = 1)
=============================================================================
