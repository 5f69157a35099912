------------------------ MODULE EventDelivery_proofs ------------------------
(***************************************************************************)
(* Theorems about EventDelivery for any number of requests, work items,    *)
(* events, publishers and event loops: an event takes effect at most once, *)
(* none is lost, and a work item gets at most one execution and one START. *)
(* Then about the control plane's part of the same system: an item is      *)
(* announced only after its review; a second work item or announcement is  *)
(* the doing of a session that committed over a change it did not see; and *)
(* what delivery executes was announced or requested directly.             *)
(***************************************************************************)
EXTENDS EventDelivery, FiniteSetTheorems, TLAPS

-----------------------------------------------------------------------------
(* The control plane as delivery sees it: a producer of events *)

\* The fields of an open session.
Fields(r) ==
    r = [op |-> r.op, terms |-> r.terms, seen |-> r.seen, again |-> r.again, step |-> r.step]

\* A session that makes a work item ready has read the row of one item and was given terms.
ReadyOfAnItem(r) ==
    r.op = "ready" => DOMAIN r.seen \subseteq Items /\ r.terms \in Terms

SessionInv ==
    /\ session = [s \in Sessions |-> session[s]]
    /\ \A s \in Sessions :
         session[s] = Idle \/ (Fields(session[s]) /\ ReadyOfAnItem(session[s]))

\* A step of the control plane leaves the outbox alone or adds an event to it.
Produces ==
    \/ UNCHANGED <<event, routes>>
    \/ \E e \in Events, i \in Items, t \in Terms : Announces(e, i, t)

\* A request begins: it is a session with its fields.
LEMMA BeginsSession ==
    ASSUME SessionInv, NEW s \in Sessions, NEW op, NEW rows, NEW t, Begins(s, op, rows, t),
           op = "ready" => rows \subseteq Items /\ t \in Terms
    PROVE  SessionInv' /\ Produces
<1> DEFINE seen == [row \in rows |-> table[row]]
           r == [op |-> op, terms |-> t, seen |-> seen, again |-> seen, step |-> "read"]
<1>1. session' = [session EXCEPT ![s] = r] /\ UNCHANGED <<event, routes>>
  BY DEF Begins
<1>2. Fields(r) /\ ReadyOfAnItem(r)
  BY DEF Fields, ReadyOfAnItem
<1> HIDE DEF r
<1>3. \A q \in Sessions : session'[q] = IF q = s THEN r ELSE session[q]
  BY <1>1 DEF SessionInv
<1>4. session' = [q \in Sessions |-> session'[q]]
  BY <1>1 DEF SessionInv
<1> QED
  BY <1>1, <1>2, <1>3, <1>4 DEF SessionInv, Produces

\* An update of again and step keeps the fields of an open session, and the others' values.
LEMMA UpdatedFields ==
    ASSUME NEW q, NEW r, NEW row, NEW x, NEW next,
           Fields(q), r = [q EXCEPT !.again[row] = x, !.step = next]
    PROVE  Fields(r) /\ r.op = q.op /\ r.terms = q.terms /\ r.seen = q.seen
<1> DEFINE op == q.op
           terms == q.terms
           seen == q.seen
           again == q.again
           step == q.step
<1>1. q = [op |-> op, terms |-> terms, seen |-> seen, again |-> again, step |-> step]
  BY DEF Fields
<1> HIDE DEF op, terms, seen, again, step
<1>2. r.op = op /\ r.terms = terms /\ r.seen = seen
  BY <1>1
<1>3. r = [op |-> r.op, terms |-> r.terms, seen |-> r.seen, again |-> r.again, step |-> r.step]
  BY <1>1
<1> QED
  BY <1>2, <1>3 DEF Fields, op, terms, seen

\* A session that reads again keeps what it has read first.
LEMMA RereadsSession ==
    ASSUME SessionInv, NEW s \in Sessions, Rereads(s) \/ RereadsIntake(s)
    PROVE  SessionInv' /\ Produces
<1>1. PICK row, step : session' = [session EXCEPT ![s].again[row] = table[row], ![s].step = step]
  BY DEF Rereads, RereadsIntake
<1>2. session[s] # Idle /\ UNCHANGED <<event, routes>>
  BY DEF Rereads, RereadsIntake
<1> DEFINE r == [session[s] EXCEPT !.again[row] = table[row], !.step = step]
<1>3. Fields(session[s]) /\ ReadyOfAnItem(session[s])
  BY <1>2 DEF SessionInv
<1>4. Fields(r) /\ r.op = session[s].op /\ r.terms = session[s].terms /\ r.seen = session[s].seen
  BY <1>3, UpdatedFields
<1>5. ReadyOfAnItem(r)
  BY <1>3, <1>4 DEF ReadyOfAnItem
<1>6. \A q \in Sessions : session'[q] = IF q = s THEN r ELSE session[q]
  BY <1>1 DEF SessionInv
<1>7. session' = [q \in Sessions |-> session'[q]]
  BY <1>1 DEF SessionInv
<1> HIDE DEF r
<1> QED
  BY <1>2, <1>4, <1>5, <1>6, <1>7 DEF SessionInv, Produces

\* A session that ends is idle.
LEMMA EndsSession ==
    ASSUME SessionInv, NEW s \in Sessions, session' = [session EXCEPT ![s] = Idle]
    PROVE  SessionInv'
<1>1. \A q \in Sessions : session'[q] = IF q = s THEN Idle ELSE session[q]
  BY DEF SessionInv
<1>2. session' = [q \in Sessions |-> session'[q]]
  BY DEF SessionInv
<1> QED
  BY <1>1, <1>2 DEF SessionInv

\* What a commit inserts.
LEMMA CommitsProduces ==
    ASSUME SessionInv, NEW s \in Sessions, Commits(s)
    PROVE  Produces
<1>1. CASE session[s].op = "ready"
  <2>1. session[s] # Idle
    BY DEF Commits
  <2>2. DOMAIN session[s].seen \subseteq Items /\ session[s].terms \in Terms
    BY <1>1, <2>1 DEF SessionInv, ReadyOfAnItem
  <2>3. \E e \in Events, i \in DOMAIN session[s].seen : Announces(e, i, session[s].terms)
    BY <1>1 DEF Commits, Inserts
  <2> QED
    BY <2>2, <2>3 DEF Produces
<1>2. CASE session[s].op # "ready"
  <2>1. UNCHANGED <<event, routes>>
    BY <1>2 DEF Commits, Inserts
  <2> QED
    BY <2>1 DEF Produces
<1> QED
  BY <1>1, <1>2

\* Every step of the control plane is, for delivery, one of a producer of events.
LEMMA ControlProduces ==
    ASSUME SessionInv, ControlNext
    PROVE  SessionInv' /\ Produces
<1>1. PICK s \in Sessions :
        \/ DraftSpecification(s) \/ SubmitSpecification(s) \/ ApproveSpecification(s)
        \/ ReviewWorkItem(s) \/ ReadyWorkItem(s)
        \/ Rereads(s) \/ RereadsIntake(s) \/ Commits(s) \/ Fails(s)
  BY DEF ControlNext
<1>2. CASE DraftSpecification(s)
  BY <1>2, BeginsSession DEF DraftSpecification
<1>3. CASE SubmitSpecification(s)
  BY <1>3, BeginsSession DEF SubmitSpecification
<1>4. CASE ApproveSpecification(s)
  BY <1>4, BeginsSession DEF ApproveSpecification
<1>5. CASE ReviewWorkItem(s)
  <2>1. PICK i \in Items : Begins(s, "review", {i}, NoTerms)
    BY <1>5 DEF ReviewWorkItem
  <2> QED
    BY <2>1, BeginsSession
<1>6. CASE ReadyWorkItem(s)
  <2>1. PICK i \in Items, t \in Terms : Begins(s, "ready", {i}, t)
    BY <1>6 DEF ReadyWorkItem
  <2>2. {i} \subseteq Items
    OBVIOUS
  <2> QED
    BY <2>1, <2>2, BeginsSession
<1>7. CASE Rereads(s) \/ RereadsIntake(s)
  BY <1>7, RereadsSession
<1>8. CASE Commits(s)
  BY <1>8, CommitsProduces, EndsSession DEF Commits
<1>9. CASE Fails(s)
  BY <1>9, EndsSession DEF Fails, Produces
<1> QED
  BY <1>1, <1>2, <1>3, <1>4, <1>5, <1>6, <1>7, <1>8, <1>9

-----------------------------------------------------------------------------
(* The inductive invariant *)

\* Events are announced before they travel.
EventInv ==
    /\ event \in [Events -> [item : Items \cup {NoItem}, terms : Terms \cup {NoTerms}]]
    /\ \A e \in Announced : event[e].item \in Items /\ event[e].terms \in Terms
    /\ routes \subseteq Announced
    /\ publisher \in [Publishers -> [routes : SUBSET Announced, sent : SUBSET Announced]]
    /\ stream \in Seq(Announced)

\* A route is deleted when its event is in the stream, and a message is acknowledged when its
\* event is in the inbox.
StreamInv ==
    /\ Len(stream) <= MaxMessages
    /\ \A e \in Announced : e \in routes \/ e \in Range(stream)
    /\ \A p \in Publishers : publisher[p].sent \subseteq Range(stream)
    /\ delivery \in [1..MaxMessages -> {"available", "pending", "acknowledged"}]
    /\ \A m \in 1..MaxMessages :
         delivery[m] = "acknowledged" => m \in 1..Len(stream) /\ stream[m] \in inbox

SessionStates == {NoSession, "accept", "insert", "existing", "done"}

\* What an event loop has decided about its message still holds when it commits, as far as
\* Conflict does not tell it otherwise.
WorkerInv ==
    /\ worker \in [Workers -> [fetched : SUBSET (1..Len(stream)), message : 0..Len(stream),
                               session : SessionStates]]
    /\ \A w \in Workers :
         /\ worker[w].session # NoSession => worker[w].message \in 1..Len(stream)
         /\ worker[w].session \in {"accept", "insert"} => event[Current(w)].terms \in Known
         /\ worker[w].session = "existing" => execution[event[Current(w)].item] # NoTerms
         /\ worker[w].session = "done" => Current(w) \in inbox

\* Inbox, executions and START commands tell the same story.
EffectInv ==
    /\ inbox \in SUBSET Announced
    /\ execution \in [Items -> Terms \cup {NoTerms}]
    /\ starts = [i \in Items |-> IF execution[i] # NoTerms THEN 1 ELSE 0]
    /\ applied = [e \in Events |-> IF e \in inbox THEN 1 ELSE 0]
    /\ \A e \in inbox : execution[event[e].item] # NoTerms

Inv == SessionInv /\ EventInv /\ StreamInv /\ WorkerInv /\ EffectInv

\* The message a session works on is an announced event.
LEMMA CurrentIsAnnounced ==
    ASSUME EventInv, WorkerInv, NEW w \in Workers, worker[w].session # NoSession
    PROVE  /\ worker[w].message \in 1..Len(stream)
           /\ Current(w) \in Announced
           /\ Current(w) \in Events
           /\ event[Current(w)].item \in Items
           /\ event[Current(w)].terms \in Terms
<1>1. worker[w].message \in 1..Len(stream)
  BY DEF WorkerInv
<1>2. Current(w) \in Announced
  BY <1>1 DEF EventInv, Current
<1> QED
  BY <1>1, <1>2 DEF EventInv, Announced

\* The invariant holds at first: nothing is announced, nothing travels.
LEMMA InitInv == Init => Inv
<1> SUFFICES ASSUME ControlInit, DeliveryInit PROVE Inv
  BY DEF Init
<1>1. Announced = {}
  BY DEF ControlInit, Announced
<1>2. SessionInv
  BY DEF ControlInit, SessionInv
<1>3. EventInv
  BY <1>1 DEF ControlInit, DeliveryInit, EventInv, Unannounced, NoBatch
<1>4. StreamInv
  BY <1>1, EventDeliveryAssumption DEF DeliveryInit, StreamInv, NoBatch
<1>5. WorkerInv
  BY DEF DeliveryInit, WorkerInv, SessionStates, Resting, NoSession
<1>6. EffectInv
  BY <1>1 DEF DeliveryInit, EffectInv
<1> QED
  BY <1>2, <1>3, <1>4, <1>5, <1>6 DEF Inv

-----------------------------------------------------------------------------
(* The steps *)

\* An event that is announced joins the others, which stay what they are.
LEMMA ProducesInv ==
    ASSUME EventInv, StreamInv, WorkerInv, EffectInv, Produces, UNCHANGED deliveryVars
    PROVE  EventInv' /\ StreamInv' /\ WorkerInv' /\ EffectInv'
<1> USE DEF deliveryVars
<1>1. CASE UNCHANGED <<event, routes>>
  <2>1. Announced' = Announced
    BY <1>1 DEF Announced
  <2> QED
    BY <1>1, <2>1 DEF EventInv, StreamInv, WorkerInv, EffectInv, Current
<1>2. CASE \E e \in Events, i \in Items, t \in Terms : Announces(e, i, t)
  <2>1. PICK e \in Events, i \in Items, t \in Terms : Announces(e, i, t)
    BY <1>2
  <2>2. event' = [event EXCEPT ![e] = [item |-> i, terms |-> t]] /\ routes' = routes \cup {e}
    BY <2>1 DEF Announces
  <2>3. e \notin Announced
    BY <2>1 DEF Announces, Announced
  <2>4. [item |-> i, terms |-> t] # Unannounced
    BY IntakeAssumption DEF Unannounced
  <2>5. Announced' = Announced \cup {e}
    BY <2>2, <2>4 DEF Announced, EventInv
  <2>6. \A f \in Announced : event'[f] = event[f]
    BY <2>2, <2>3 DEF Announced, EventInv
  <2>7. event'[e] = [item |-> i, terms |-> t]
    BY <2>2 DEF EventInv
  <2>8. EventInv'
    <3>1. event' \in [Events -> [item : Items \cup {NoItem}, terms : Terms \cup {NoTerms}]]
      BY <2>2 DEF EventInv
    <3>2. \A f \in Announced' : event'[f].item \in Items /\ event'[f].terms \in Terms
      BY <2>5, <2>6, <2>7 DEF EventInv
    <3>3. publisher' \in [Publishers -> [routes : SUBSET Announced', sent : SUBSET Announced']]
      BY <2>5 DEF EventInv
    <3>4. stream' \in Seq(Announced')
      BY <2>5 DEF EventInv
    <3> QED
      BY <2>2, <2>5, <3>1, <3>2, <3>3, <3>4 DEF EventInv
  <2>9. StreamInv'
    BY <2>2, <2>5 DEF StreamInv
  <2>10. WorkerInv'
    <3>1. \A w \in Workers : worker[w].session # NoSession =>
             event'[Current(w)] = event[Current(w)] /\ Current(w)' = Current(w)
      BY <2>6, CurrentIsAnnounced DEF Current
    <3> QED
      BY <3>1 DEF WorkerInv, NoSession
  <2>11. EffectInv'
    BY <2>5, <2>6 DEF EffectInv
  <2> QED
    BY <2>8, <2>9, <2>10, <2>11
<1> QED
  BY <1>1, <1>2 DEF Produces

\* What is behind the end of the stream has not been acknowledged, so a stored message is not.
LEMMA StoredInv ==
    ASSUME EventInv, StreamInv, WorkerInv, NEW e \in Announced, Stored(e)
    PROVE  /\ stream' \in Seq(Announced)
           /\ Len(stream) <= Len(stream') /\ Len(stream') <= MaxMessages
           /\ \A m \in 1..Len(stream) : stream'[m] = stream[m]
           /\ Range(stream) \subseteq Range(stream')
           /\ e \in Range(stream')
<1>1. CASE e \in Range(stream) /\ stream' = stream
  BY <1>1 DEF EventInv, StreamInv
<1>2. CASE Len(stream) < MaxMessages /\ stream' = Append(stream, e)
  <2>1. stream \in Seq(Announced) /\ Len(stream) \in Nat
    BY DEF EventInv
  <2>2. /\ stream' \in Seq(Announced)
        /\ Len(stream') = Len(stream) + 1
        /\ \A m \in 1..Len(stream) : stream'[m] = stream[m]
        /\ stream'[Len(stream) + 1] = e
    BY <1>2, <2>1
  <2>3. DOMAIN stream = 1..Len(stream) /\ DOMAIN stream' = 1..(Len(stream) + 1)
    BY <2>1, <2>2
  <2> QED
    BY <1>2, <2>1, <2>2, <2>3, EventDeliveryAssumption DEF Range
<1> QED
  BY <1>1, <1>2 DEF Stored

\* A step of a publisher, or its failure, preserves what the parts say: a route goes when its
\* event is in the stream.
LEMMA PublisherInv ==
    ASSUME EventInv, StreamInv, WorkerInv, EffectInv, NEW p \in Publishers,
           Publishing(p) \/ PublisherFails(p)
    PROVE  EventInv' /\ StreamInv' /\ WorkerInv' /\ EffectInv'
<1>0. /\ publisher[p].routes \subseteq Announced /\ publisher[p].sent \subseteq Announced
      /\ publisher[p].sent \subseteq Range(stream)
  BY DEF EventInv, StreamInv
<1>a. UNCHANGED <<event, delivery, worker, inbox, execution, starts, applied>>
  BY DEF Publishing, ReadsRoutes, Publishes, CommitsBatch, PublisherFails, controlVars, consumerVars
<1>b. Announced' = Announced
  BY <1>a DEF Announced
<1>c. EffectInv'
  BY <1>a, <1>b DEF EffectInv
<1>1. CASE ReadsRoutes(p) \/ CommitsBatch(p) \/ PublisherFails(p)
  <2>1. stream' = stream
    BY <1>1 DEF ReadsRoutes, CommitsBatch, PublisherFails
  <2>2. WorkerInv'
    BY <1>a, <2>1 DEF WorkerInv, Current
  <2>3. PICK batch \in SUBSET routes :
          \/ publisher' = [publisher EXCEPT ![p].routes = batch]
          \/ publisher' = [publisher EXCEPT ![p] = NoBatch]
    BY <1>1 DEF ReadsRoutes, CommitsBatch, PublisherFails
  <2>4. batch \subseteq Announced
    BY <2>3 DEF EventInv
  <2>5. publisher' \in [Publishers -> [routes : SUBSET Announced, sent : SUBSET Announced]]
    BY <2>3, <2>4 DEF EventInv, NoBatch
  <2>6. \A q \in Publishers : publisher'[q].sent \subseteq publisher[q].sent
    BY <2>3 DEF EventInv, NoBatch
  <2>7. routes' = routes \/ routes' = routes \ publisher[p].sent
    BY <1>1 DEF ReadsRoutes, CommitsBatch, PublisherFails, controlVars
  <2>8. EventInv'
    BY <1>a, <1>b, <2>1, <2>5, <2>7 DEF EventInv
  <2>9. StreamInv'
    BY <1>0, <1>a, <1>b, <2>1, <2>6, <2>7 DEF StreamInv
  <2> QED
    BY <1>c, <2>2, <2>8, <2>9
<1>2. CASE Publishes(p)
  <2>1. PICK e \in publisher[p].routes :
          Stored(e) /\ publisher' = [publisher EXCEPT ![p].sent = @ \cup {e}]
    BY <1>2 DEF Publishes
  <2>2. e \in Announced /\ routes' = routes
    BY <1>0, <1>2, <2>1 DEF Publishes, controlVars
  <2>3. /\ stream' \in Seq(Announced)
        /\ Len(stream) <= Len(stream') /\ Len(stream') <= MaxMessages
        /\ \A m \in 1..Len(stream) : stream'[m] = stream[m]
        /\ Range(stream) \subseteq Range(stream')
        /\ e \in Range(stream')
    BY <2>1, <2>2, StoredInv
  <2>4. Len(stream) \in Nat /\ Len(stream') \in Nat
    BY <2>3 DEF EventInv
  <2>5. EventInv'
    <3>1. publisher' \in [Publishers -> [routes : SUBSET Announced, sent : SUBSET Announced]]
      BY <2>1, <2>2 DEF EventInv
    <3> QED
      BY <1>a, <1>b, <2>2, <2>3, <3>1 DEF EventInv
  <2>6. StreamInv'
    <3>1. \A q \in Publishers : publisher'[q].sent \subseteq Range(stream')
      BY <2>1, <2>3 DEF EventInv, StreamInv
    <3>2. \A m \in 1..MaxMessages :
            delivery'[m] = "acknowledged" => m \in 1..Len(stream') /\ stream'[m] \in inbox'
      BY <1>a, <2>3, <2>4 DEF StreamInv
    <3> QED
      BY <1>a, <1>b, <2>2, <2>3, <3>1, <3>2 DEF StreamInv
  <2>7. WorkerInv'
    <3>1. worker' \in [Workers -> [fetched : SUBSET (1..Len(stream')), message : 0..Len(stream'),
                                   session : SessionStates]]
      <4>1. 1..Len(stream) \subseteq 1..Len(stream') /\ 0..Len(stream) \subseteq 0..Len(stream')
        BY <2>3, <2>4
      <4> QED
        BY <1>a, <4>1 DEF WorkerInv
    <3>2. \A w \in Workers : worker[w].session # NoSession =>
             worker[w].message \in 1..Len(stream') /\ Current(w)' = Current(w)
      BY <1>a, <2>3, <2>4 DEF WorkerInv, Current
    <3> QED
      BY <1>a, <3>1, <3>2 DEF WorkerInv, NoSession
  <2> QED
    BY <1>c, <2>5, <2>6, <2>7
<1> QED
  BY <1>1, <1>2 DEF Publishing

\* The consumer's bookkeeping alone does not touch what the other parts say.
LEMMA OffersAgainInv ==
    ASSUME EventInv, StreamInv, WorkerInv, EffectInv, NEW m \in 1..Len(stream), OffersAgain(m)
    PROVE  EventInv' /\ StreamInv' /\ WorkerInv' /\ EffectInv'
<1>1. /\ UNCHANGED <<event, routes, publisher, stream, worker, inbox, execution, starts, applied>>
      /\ delivery' = [delivery EXCEPT ![m] = "available"]
  BY DEF OffersAgain, controlVars
<1>2. Announced' = Announced
  BY <1>1 DEF Announced
<1>3. StreamInv'
  BY <1>1, <1>2 DEF StreamInv
<1> QED
  BY <1>1, <1>2, <1>3 DEF EventInv, WorkerInv, EffectInv, Current

\* An execution that is requested directly is there once, and stays.
LEMMA AcceptsDirectlyInv ==
    ASSUME EventInv, StreamInv, WorkerInv, EffectInv, NEW i \in Items, NEW t \in Terms,
           AcceptsDirectly(i, t)
    PROVE  EventInv' /\ StreamInv' /\ WorkerInv' /\ EffectInv'
<1>1. /\ UNCHANGED <<event, routes, publisher, stream, delivery, worker, inbox, applied>>
      /\ execution' = [execution EXCEPT ![i] = t]
      /\ starts' = [starts EXCEPT ![i] = @ + 1]
      /\ execution[i] = NoTerms /\ t # NoTerms
  BY IntakeAssumption DEF AcceptsDirectly, controlVars
<1>2. Announced' = Announced
  BY <1>1 DEF Announced
<1>3. \A j \in Items : /\ execution[j] # NoTerms => execution'[j] # NoTerms
                       /\ execution'[j] = IF j = i THEN t ELSE execution[j]
  BY <1>1 DEF EffectInv
<1>4. starts' = [j \in Items |-> IF execution'[j] # NoTerms THEN 1 ELSE 0]
  BY <1>1, <1>3 DEF EffectInv
<1>5. execution' \in [Items -> Terms \cup {NoTerms}]
  BY <1>1 DEF EffectInv
<1>6. \A e \in inbox : event[e].item \in Items
  BY DEF EventInv, EffectInv
<1>7. EffectInv'
  BY <1>1, <1>2, <1>3, <1>4, <1>5, <1>6 DEF EffectInv
<1>8. \A w \in Workers : worker[w].session = "existing" => event[Current(w)].item \in Items
  BY CurrentIsAnnounced DEF NoSession
<1>9. WorkerInv'
  BY <1>1, <1>3, <1>8 DEF WorkerInv, Current
<1> QED
  BY <1>1, <1>2, <1>7, <1>9 DEF EventInv, StreamInv

\* Fetching, starting, acknowledging and crashing leave the effects alone.
LEMMA FetchesInv ==
    ASSUME EventInv, StreamInv, WorkerInv, EffectInv, NEW w \in Workers, Fetches(w)
    PROVE  StreamInv' /\ WorkerInv'
<1>1. PICK batch \in SUBSET Available :
        /\ worker' = [worker EXCEPT ![w].fetched = batch]
        /\ delivery' = [m \in DOMAIN delivery |-> IF m \in batch THEN "pending" ELSE delivery[m]]
  BY DEF Fetches
<1>2. UNCHANGED <<event, routes, publisher, stream, inbox, execution>>
  BY DEF Fetches, controlVars
<1>3. batch \subseteq 1..Len(stream)
  BY DEF Available
<1>4. Announced' = Announced
  BY <1>2 DEF Announced
<1>5. StreamInv'
  BY <1>1, <1>2, <1>4 DEF StreamInv
<1>6. /\ worker' \in [Workers -> [fetched : SUBSET (1..Len(stream)), message : 0..Len(stream),
                                  session : SessionStates]]
      /\ \A q \in Workers : /\ worker'[q].session = worker[q].session
                             /\ worker'[q].message = worker[q].message
  BY <1>1, <1>3 DEF WorkerInv
<1>7. WorkerInv'
  BY <1>2, <1>6 DEF WorkerInv, Current
<1> QED
  BY <1>5, <1>7

\* What an event loop decides when it starts on a message rests on what it has just read.
LEMMA StartsEventInv ==
    ASSUME EventInv, StreamInv, WorkerInv, EffectInv, NEW w \in Workers, StartsEvent(w)
    PROVE  StreamInv' /\ WorkerInv'
<1>1. PICK m \in worker[w].fetched :
        worker' = [worker EXCEPT ![w] =
                     IF Decision(stream[m]) = "raise" THEN Resting
                     ELSE [@ EXCEPT !.message = m, !.session = Decision(stream[m])]]
  BY DEF StartsEvent
<1>2. UNCHANGED <<event, routes, publisher, stream, delivery, inbox, execution>>
  BY DEF StartsEvent, controlVars
<1>3. m \in 1..Len(stream)
  BY DEF WorkerInv
<1>4. Announced' = Announced
  BY <1>2 DEF Announced
<1>5. StreamInv'
  BY <1>2, <1>4 DEF StreamInv
<1> DEFINE d == Decision(stream[m])
<1>6. /\ d \in {"done", "existing", "accept", "raise"}
      /\ d = "done" => stream[m] \in inbox
      /\ d = "existing" => execution[event[stream[m]].item] # NoTerms
      /\ d = "accept" => event[stream[m]].terms \in Known
  BY DEF Decision
<1> HIDE DEF d
<1>7. CASE d = "raise"
  <2>1. worker' = [worker EXCEPT ![w] = Resting]
    BY <1>1, <1>7 DEF d
  <2>2. /\ worker' \in [Workers -> [fetched : SUBSET (1..Len(stream)), message : 0..Len(stream),
                                    session : SessionStates]]
        /\ \A q \in Workers : worker'[q].session = NoSession \/ worker'[q] = worker[q]
    BY <1>3, <2>1 DEF SessionStates, WorkerInv, Resting
  <2> QED
    BY <1>2, <1>5, <2>2 DEF WorkerInv, Current, NoSession
<1>8. CASE d # "raise"
  <2> DEFINE r == [worker[w] EXCEPT !.message = m, !.session = d]
  <2>1. worker' = [worker EXCEPT ![w] = r]
    BY <1>1, <1>8 DEF d
  <2>3. /\ r \in [fetched : SUBSET (1..Len(stream)), message : 0..Len(stream),
                  session : SessionStates]
        /\ r.message = m /\ r.session = d
    <3>1. worker[w] \in [fetched : SUBSET (1..Len(stream)), message : 0..Len(stream),
                         session : SessionStates]
      BY DEF WorkerInv
    <3>2. m \in 0..Len(stream) /\ d \in SessionStates
      BY <1>3, <1>6, <1>8 DEF SessionStates
    <3> QED
      BY <3>1, <3>2
  <2> HIDE DEF r
  <2>2. /\ worker' \in [Workers -> [fetched : SUBSET (1..Len(stream)), message : 0..Len(stream),
                                    session : SessionStates]]
        /\ \A q \in Workers \ {w} : worker'[q] = worker[q]
        /\ worker'[w].session = d /\ worker'[w].message = m
    BY <2>1, <2>3 DEF WorkerInv
  <2> QED
    BY <1>2, <1>3, <1>5, <1>6, <2>2 DEF WorkerInv, Current
<1> QED
  BY <1>7, <1>8

\* The second look for an execution decides again, on what is committed by then.
LEMMA AddsExecutionInv ==
    ASSUME EventInv, StreamInv, WorkerInv, EffectInv, NEW w \in Workers, AddsExecution(w)
    PROVE  StreamInv' /\ WorkerInv'
<1> DEFINE d == IF execution[event[Current(w)].item] = NoTerms THEN "insert" ELSE "existing"
<1>1. worker' = [worker EXCEPT ![w].session = d] /\ worker[w].session = "accept"
  BY DEF AddsExecution
<1>2. UNCHANGED <<event, routes, publisher, stream, delivery, inbox, execution>>
  BY DEF AddsExecution, controlVars
<1>3. Announced' = Announced
  BY <1>2 DEF Announced
<1>4. StreamInv'
  BY <1>2, <1>3 DEF StreamInv
<1>5. /\ d \in {"insert", "existing"}
      /\ d = "existing" => execution[event[Current(w)].item] # NoTerms
  OBVIOUS
<1> HIDE DEF d
<1>6. /\ worker' \in [Workers -> [fetched : SUBSET (1..Len(stream)), message : 0..Len(stream),
                                  session : SessionStates]]
      /\ \A q \in Workers \ {w} : worker'[q] = worker[q]
      /\ worker'[w].session = d /\ worker'[w].message = worker[w].message
  BY <1>1, <1>5 DEF WorkerInv, SessionStates
<1>7. \A q \in Workers : Current(q)' = Current(q)
  BY <1>2, <1>6 DEF Current
<1>8. worker[w].session # NoSession
  BY <1>1 DEF NoSession
<1> QED
  BY <1>1, <1>2, <1>4, <1>5, <1>6, <1>7, <1>8 DEF WorkerInv

\* An event loop that ends a message or crashes only forgets what it had decided.
LEMMA LeavesInv ==
    ASSUME EventInv, StreamInv, WorkerInv, EffectInv, NEW w \in Workers,
           Acknowledges(w) \/ WorkerCrashes(w)
    PROVE  StreamInv' /\ WorkerInv'
<1>1. UNCHANGED <<event, routes, publisher, stream, inbox, execution>>
  BY DEF Acknowledges, WorkerCrashes, controlVars
<1>2. PICK left \in SUBSET worker[w].fetched :
        worker' = [worker EXCEPT ![w] = [fetched |-> left, message |-> 0, session |-> NoSession]]
  <2>1. CASE Acknowledges(w)
    <3> DEFINE left == worker[w].fetched \ {worker[w].message}
    <3>1. worker' = [worker EXCEPT ![w] = [Resting EXCEPT !.fetched = left]]
      BY <2>1 DEF Acknowledges
    <3>2. [Resting EXCEPT !.fetched = left]
            = [fetched |-> left, message |-> 0, session |-> NoSession]
      BY DEF Resting
    <3>3. left \in SUBSET worker[w].fetched
      OBVIOUS
    <3> QED
      BY <3>1, <3>2, <3>3
  <2>2. CASE WorkerCrashes(w)
    <3>1. {} \in SUBSET worker[w].fetched
      OBVIOUS
    <3> QED
      BY <2>2, <3>1 DEF WorkerCrashes, Resting
  <2> QED
    BY <2>1, <2>2
<1>3. /\ worker' \in [Workers -> [fetched : SUBSET (1..Len(stream)), message : 0..Len(stream),
                                  session : SessionStates]]
      /\ \A q \in Workers : worker'[q].session = NoSession \/ worker'[q] = worker[q]
  <2>1. Len(stream) \in Nat
    BY DEF EventInv
  <2> QED
    BY <1>2, <2>1 DEF SessionStates, WorkerInv
<1>4. WorkerInv'
  BY <1>1, <1>3 DEF WorkerInv, Current, NoSession
<1>5. Announced' = Announced
  BY <1>1 DEF Announced
<1>6. StreamInv'
  <2>1. CASE delivery' = delivery
    BY <1>1, <1>5, <2>1 DEF StreamInv
  <2>2. CASE Acknowledges(w) /\ delivery' = [delivery EXCEPT ![worker[w].message] = "acknowledged"]
    <3>1. worker[w].session = "done"
      BY <2>2 DEF Acknowledges
    <3>2. worker[w].message \in 1..Len(stream) /\ stream[worker[w].message] \in inbox
      BY <3>1 DEF WorkerInv, Current, NoSession
    <3> QED
      BY <1>1, <1>5, <2>2, <3>2 DEF StreamInv
  <2> QED
    BY <2>1, <2>2 DEF Acknowledges, WorkerCrashes
<1> QED
  BY <1>4, <1>6

\* A transaction of the event loop commits: its event was not in the inbox, and a new execution
\* is the first of its work item.
LEMMA CommitsEventInv ==
    ASSUME EventInv, StreamInv, WorkerInv, EffectInv, NEW w \in Workers, CommitsEvent(w)
    PROVE  StreamInv' /\ WorkerInv' /\ EffectInv'
<1> DEFINE e == Current(w)
           i == event[e].item
<1>1. /\ UNCHANGED <<event, routes, publisher, stream, delivery>>
      /\ worker[w].session \in {"insert", "existing"}
  BY DEF CommitsEvent, controlVars
<1>2. /\ worker[w].message \in 1..Len(stream)
      /\ e \in Announced /\ e \in Events /\ i \in Items /\ event[e].terms \in Terms
  BY <1>1, CurrentIsAnnounced DEF NoSession
<1>3. Announced' = Announced
  BY <1>1 DEF Announced
<1>4. CASE Conflict(w)
  <2>1. worker' = [worker EXCEPT ![w] = Resting] /\ UNCHANGED <<inbox, execution, starts, applied>>
    BY <1>4 DEF CommitsEvent
  <2>2. Len(stream) \in Nat
    BY DEF EventInv
  <2>3. /\ worker' \in [Workers -> [fetched : SUBSET (1..Len(stream)), message : 0..Len(stream),
                                    session : SessionStates]]
        /\ \A q \in Workers : worker'[q].session = NoSession \/ worker'[q] = worker[q]
    BY <2>1, <2>2 DEF SessionStates, WorkerInv, Resting
  <2>4. WorkerInv'
    BY <1>1, <2>1, <2>3 DEF WorkerInv, Current, NoSession
  <2> QED
    BY <1>1, <1>3, <2>1, <2>4 DEF StreamInv, EffectInv
<1>5. CASE ~Conflict(w)
  <2>1. /\ worker' = [worker EXCEPT ![w].session = "done"]
        /\ inbox' = inbox \cup {e}
        /\ applied' = [applied EXCEPT ![e] = @ + 1]
    BY <1>5 DEF CommitsEvent
  <2>2. e \notin inbox
    BY <1>5 DEF Conflict
  <2>3. \A j \in Items : execution[j] # NoTerms => execution'[j] # NoTerms
    <3>1. CASE worker[w].session = "insert"
      BY <1>2, <1>5, <3>1, IntakeAssumption DEF CommitsEvent, EffectInv
    <3>2. CASE worker[w].session # "insert"
      BY <1>5, <3>2 DEF CommitsEvent
    <3> QED
      BY <3>1, <3>2
  <2>4. /\ execution' \in [Items -> Terms \cup {NoTerms}]
        /\ execution'[i] # NoTerms
        /\ starts' = [j \in Items |-> IF execution'[j] # NoTerms THEN 1 ELSE 0]
    <3>1. CASE worker[w].session = "insert"
      <4>1. /\ execution' = [execution EXCEPT ![i] = event[e].terms]
            /\ starts' = [starts EXCEPT ![i] = @ + 1]
        BY <1>5, <3>1 DEF CommitsEvent
      <4>2. execution[i] = NoTerms /\ event[e].terms # NoTerms
        BY <1>2, <1>5, <3>1, IntakeAssumption DEF Conflict
      <4>3. execution' \in [Items -> Terms \cup {NoTerms}] /\ execution'[i] # NoTerms
        BY <1>2, <4>1, <4>2 DEF EffectInv
      <4>4. starts[i] = 0
        BY <1>2, <4>2 DEF EffectInv
      <4>5. \A j \in Items : starts'[j] = IF execution'[j] # NoTerms THEN 1 ELSE 0
        BY <1>2, <4>1, <4>2, <4>4 DEF EffectInv
      <4>6. starts' = [j \in Items |-> starts'[j]]
        BY <4>1 DEF EffectInv
      <4> QED
        BY <4>3, <4>5, <4>6
    <3>2. CASE worker[w].session = "existing"
      <4>1. UNCHANGED <<execution, starts>>
        BY <1>5, <3>2 DEF CommitsEvent
      <4> QED
        BY <3>2, <4>1 DEF EffectInv, WorkerInv
    <3> QED
      BY <1>1, <3>1, <3>2
  <2>5. EffectInv'
    <3>1. applied' = [f \in Events |-> IF f \in inbox' THEN 1 ELSE 0]
      <4>1. \A f \in Events : applied'[f] = IF f \in inbox' THEN 1 ELSE 0
        BY <1>2, <2>1, <2>2 DEF EffectInv
      <4>2. applied' = [f \in Events |-> applied'[f]]
        BY <2>1 DEF EffectInv
      <4> QED
        BY <4>1, <4>2
    <3>2. \A f \in inbox' : execution'[event'[f].item] # NoTerms
      <4>1. \A f \in inbox : event[f].item \in Items
        BY DEF EffectInv, EventInv
      <4> QED
        BY <1>1, <2>1, <2>3, <2>4, <4>1 DEF EffectInv
    <3>3. inbox' \in SUBSET Announced'
      BY <1>2, <1>3, <2>1 DEF EffectInv
    <3> QED
      BY <2>4, <3>1, <3>2, <3>3 DEF EffectInv
  <2>6. StreamInv'
    BY <1>1, <1>3, <2>1 DEF StreamInv
  <2>7. WorkerInv'
    <3>1. worker' \in [Workers -> [fetched : SUBSET (1..Len(stream)), message : 0..Len(stream),
                                   session : SessionStates]]
      BY <2>1 DEF SessionStates, WorkerInv
    <3>2. /\ worker'[w].session = "done" /\ worker'[w].message = worker[w].message
          /\ \A q \in Workers \ {w} : worker'[q] = worker[q]
      BY <2>1 DEF WorkerInv
    <3>3. \A q \in Workers : worker[q].session # NoSession => event[Current(q)].item \in Items
      BY CurrentIsAnnounced
    <3>4. \A q \in Workers : Current(q)' = Current(q)
      BY <1>1, <3>2 DEF Current
    <3> QED
      BY <1>1, <1>2, <2>1, <2>3, <3>1, <3>2, <3>3, <3>4 DEF WorkerInv, NoSession
  <2> QED
    BY <2>5, <2>6, <2>7
<1> QED
  BY <1>4, <1>5

\* A step of an event loop preserves all parts of the invariant.
LEMMA WorkerStepInv ==
    ASSUME EventInv, StreamInv, WorkerInv, EffectInv, NEW w \in Workers,
           Consuming(w) \/ WorkerCrashes(w)
    PROVE  EventInv' /\ StreamInv' /\ WorkerInv' /\ EffectInv'
<1>1. UNCHANGED <<event, routes, publisher, stream>>
  BY DEF Consuming, Fetches, StartsEvent, AddsExecution, CommitsEvent, Acknowledges,
         WorkerCrashes, controlVars
<1>2. Announced' = Announced
  BY <1>1 DEF Announced
<1>3. EventInv'
  BY <1>1, <1>2 DEF EventInv
<1>4. CASE CommitsEvent(w)
  BY <1>3, <1>4, CommitsEventInv
<1>5. CASE ~CommitsEvent(w)
  <2>1. UNCHANGED <<inbox, execution, starts, applied>>
    BY <1>5 DEF Consuming, Fetches, StartsEvent, AddsExecution, Acknowledges, WorkerCrashes
  <2>2. EffectInv'
    BY <1>1, <1>2, <2>1 DEF EffectInv
  <2>3. StreamInv' /\ WorkerInv'
    BY <1>5, FetchesInv, StartsEventInv, AddsExecutionInv, LeavesInv DEF Consuming
  <2> QED
    BY <1>3, <2>2, <2>3
<1> QED
  BY <1>4, <1>5

\* A step of delivery, or one that leaves all as it is, preserves the invariant.
LEMMA DeliveryStepInv ==
    ASSUME Inv, DeliveryNext \/ UNCHANGED vars
    PROVE  Inv'
<1> USE DEF Inv
<1>1. CASE DeliveryNext
  <2>1. UNCHANGED session
    BY <1>1 DEF DeliveryNext, Publishing, Consuming, ReadsRoutes, Publishes, CommitsBatch,
                PublisherFails, Fetches, StartsEvent, AddsExecution, CommitsEvent,
                Acknowledges, WorkerCrashes, OffersAgain, AcceptsDirectly, controlVars
  <2>2. SessionInv'
    BY <2>1 DEF SessionInv
  <2>3. EventInv' /\ StreamInv' /\ WorkerInv' /\ EffectInv'
    BY <1>1, PublisherInv, WorkerStepInv, OffersAgainInv, AcceptsDirectlyInv DEF DeliveryNext
  <2> QED
    BY <2>2, <2>3
<1>2. CASE UNCHANGED vars
  <2>1. UNCHANGED <<event, routes, session, deliveryVars>>
    BY <1>2 DEF vars, controlVars
  <2>2. Produces
    BY <2>1 DEF Produces
  <2> QED
    BY <2>1, <2>2, ProducesInv DEF SessionInv
<1> QED
  BY <1>1, <1>2

\* Delivery beside the control plane of WorkItemIntake.
LEMMA Invariance == Spec => []Inv
<1>1. Inv /\ [Next]_vars => Inv'
  BY ControlProduces, ProducesInv, DeliveryStepInv DEF Inv, Next
<1> QED
  BY <1>1, InitInv, PTL DEF Spec

\* Delivery beside any producer.
LEMMA AnyInvariance == AnySpec => []Inv
<1>1. ASSUME Inv, AnyNext PROVE Inv'
  <2>1. CASE DeliveryNext
    BY <1>1, <2>1, DeliveryStepInv
  <2>2. CASE ~DeliveryNext
    <3>1. Produces /\ UNCHANGED <<session, deliveryVars>>
      BY <1>1, <2>2 DEF AnyNext, Produces
    <3> QED
      BY <1>1, <3>1, ProducesInv DEF Inv, SessionInv
  <2> QED
    BY <2>1, <2>2
<1> QED
  BY <1>1, InitInv, DeliveryStepInv, PTL DEF AnySpec

-----------------------------------------------------------------------------
(* The theorems, for both producers *)

\* All the copies of an event together take effect once at most: the inbox has its row as soon
\* as it has taken effect, and a transaction that finds the row does not commit.
THEOREM AtMostOnce == Spec \/ AnySpec => []AppliedAtMostOnce
<1>1. Inv => AppliedAtMostOnce
  BY DEF Inv, EffectInv, AppliedAtMostOnce
<1> QED
  BY <1>1, Invariance, AnyInvariance, PTL

\* A work item has one execution and one START, in however many events it is announced.
THEOREM OneExecution == Spec \/ AnySpec => []OneExecutionPerWorkItem
<1>1. ASSUME Inv PROVE OneExecutionPerWorkItem
  <2>1. \A i \in Items : /\ starts[i] <= 1
                         /\ (starts[i] = 1) <=> (execution[i] # NoTerms)
    BY <1>1 DEF Inv, EffectInv
  <2>2. \A i \in Items : (\E e \in inbox : event[e].item = i) => starts[i] = 1
    BY <1>1, <2>1 DEF Inv, EffectInv
  <2> QED
    BY <2>1, <2>2 DEF OneExecutionPerWorkItem
<1> QED
  BY <1>1, Invariance, AnyInvariance, PTL

\* An announced event is routed or in the stream, and offered until its inbox row exists.
THEOREM EventsAreKept == Spec \/ AnySpec => []NoEventIsLost
<1>1. ASSUME Inv PROVE NoEventIsLost
  <2> SUFFICES ASSUME NEW e \in Announced, e \notin routes
               PROVE  /\ e \in Range(stream)
                      /\ e \notin inbox => \E m \in 1..Len(stream) :
                                              stream[m] = e /\ delivery[m] # "acknowledged"
    BY DEF NoEventIsLost
  <2>1. e \in Range(stream)
    BY <1>1 DEF Inv, StreamInv
  <2>2. PICK m \in 1..Len(stream) : stream[m] = e
    <3>1. DOMAIN stream = 1..Len(stream)
      BY <1>1 DEF Inv, EventInv
    <3> QED
      BY <2>1, <3>1 DEF Range
  <2>3. m \in 1..MaxMessages
    BY <1>1, EventDeliveryAssumption DEF Inv, StreamInv, EventInv
  <2>4. e \notin inbox => delivery[m] # "acknowledged"
    BY <1>1, <2>2, <2>3 DEF Inv, StreamInv
  <2> QED
    BY <2>1, <2>2, <2>4
<1> QED
  BY <1>1, Invariance, AnyInvariance, PTL

-----------------------------------------------------------------------------
(* The intake: what sessions read, write and announce *)

\* The rows that the requests of an operation read, in the states it requires.
RowsOf(op) ==
    CASE op = "draft" -> {{"intake"}}
      [] op \in {"submit", "approve"} -> {{"intake", "specification"}}
      [] op \in {"review", "ready"} -> {{i} : i \in Items}

Operations == {"draft", "submit", "approve", "review", "ready"}

ReadsItsRows(r) ==
    /\ r.op \in Operations
    /\ DOMAIN r.seen \in RowsOf(r.op)
    /\ r.seen \in [DOMAIN r.seen -> Row]
    /\ r.again \in [DOMAIN r.seen -> Row]
    /\ Allowed(r.op, r.seen)

RowsInv ==
    /\ table \in [Rows -> Row]
    /\ stale \in Nat
    /\ \A s \in Sessions : session[s] # Idle => ReadsItsRows(session[s])

\* An item that an open session has read is there, and it has been reviewed if the
\* session makes it ready.
ReadyInv ==
    \A s \in Sessions : session[s] # Idle =>
        \A row \in DOMAIN session[s].seen :
            /\ row \in Items => table[row].status # "none"
            /\ session[s].op = "ready" => table[row].status \in {"REVIEWED", "READY"}

Approved == IF table["specification"].status = "APPROVED" THEN 1 ELSE 0

\* Work items and announcements beyond those that approvals and ready items account
\* for are paid by late sessions.
CountInv ==
    /\ IsFiniteSet(Created) /\ IsFiniteSet(Announced)
    /\ Cardinality(Created) <= stale + Approved
    /\ Cardinality(Announced) <= stale + Cardinality(Ready)
    /\ \A i \in Ready : \E e \in Announced : event[e].item = i

Pairs ==
    {<<"RECEIVED", "none">>, <<"SPECIFICATION_DRAFTED", "DRAFT">>,
     <<"AWAITING_APPROVAL", "AWAITING_APPROVAL">>, <<"SPECIFICATION_APPROVED", "APPROVED">>}

\* What the tables tell as long as no session was late.
Story ==
    /\ <<table["intake"].status, table["specification"].status>> \in Pairs
    /\ table["specification"].status = "APPROVED" => Created # {}
    /\ \A e \in Announced :
          table[event[e].item] = [status |-> "READY", terms |-> event[e].terms]

IntakeInv == RowsInv /\ ReadyInv /\ CountInv /\ (stale = 0 => Story)

\* What an execution has was announced in an event that was consumed, or requested.
TermsInv ==
    /\ direct \subseteq Items
    /\ \A i \in Items \ direct : execution[i] # NoTerms =>
           \E e \in inbox : event[e].item = i /\ event[e].terms = execution[i]

\* The commands as the domain defines them.
LEMMA CommandIs ==
    /\ Command["draft"]["intake"] = [from |-> "RECEIVED", to |-> "SPECIFICATION_DRAFTED"]
    /\ Command["submit"]["intake"] =
          [from |-> "SPECIFICATION_DRAFTED", to |-> "AWAITING_APPROVAL"]
    /\ Command["submit"]["specification"] = [from |-> "DRAFT", to |-> "AWAITING_APPROVAL"]
    /\ Command["approve"]["intake"] =
          [from |-> "AWAITING_APPROVAL", to |-> "SPECIFICATION_APPROVED"]
    /\ Command["approve"]["specification"] = [from |-> "AWAITING_APPROVAL", to |-> "APPROVED"]
    /\ Command["review"]["item"] = [from |-> "IN_REVIEW", to |-> "REVIEWED"]
    /\ Command["ready"]["item"] = [from |-> "REVIEWED", to |-> "READY"]
BY DEF Command

\* Which command an operation runs on each row that it reads.
LEMMA RowCases ==
    ASSUME NEW op \in Operations, NEW rows \in RowsOf(op), NEW row \in rows
    PROVE  /\ row \in Rows
           /\ \/ op = "draft" /\ row = "intake" /\ Kind(row) = "intake"
              \/ op \in {"submit", "approve"} /\ row = "intake" /\ Kind(row) = "intake"
              \/ /\ op \in {"submit", "approve"}
                 /\ row = "specification" /\ Kind(row) = "specification"
              \/ op \in {"review", "ready"} /\ row \in Items /\ Kind(row) = "item"
<1>1. "intake" \notin Items /\ "specification" \notin Items
  BY IntakeAssumption
<1> QED
  BY <1>1 DEF Operations, RowsOf, Rows, Kind

\* A command leads to a state of its row's table.
LEMMA CommandTarget ==
    ASSUME NEW op \in Operations, NEW rows \in RowsOf(op), NEW row \in rows,
           NEW a, NEW b,
           a.status = Command[op][Kind(row)].from, b.status = Command[op][Kind(row)].to
    PROVE  /\ b.status \in IntakeStatus \cup SpecificationStatus \cup WorkItemStatus
           /\ row \in Items =>
                /\ b.status = IF op = "ready" THEN "READY" ELSE "REVIEWED"
                /\ a.status = IF op = "ready" THEN "REVIEWED" ELSE "IN_REVIEW"
           /\ row = "specification" =>
                /\ b.status = IF op = "approve" THEN "APPROVED" ELSE "AWAITING_APPROVAL"
                /\ a.status = IF op = "approve" THEN "AWAITING_APPROVAL" ELSE "DRAFT"
<1> USE CommandIs
<1>0. "intake" \notin Items /\ "specification" \notin Items
  BY IntakeAssumption
<1>1. CASE op = "draft" /\ row = "intake" /\ Kind(row) = "intake"
  BY <1>0, <1>1 DEF IntakeStatus
<1>2. CASE op \in {"submit", "approve"} /\ row = "intake" /\ Kind(row) = "intake"
  BY <1>0, <1>2 DEF IntakeStatus
<1>3. CASE op \in {"submit", "approve"} /\ row = "specification" /\ Kind(row) = "specification"
  BY <1>0, <1>3 DEF SpecificationStatus
<1>4. CASE op \in {"review", "ready"} /\ row \in Items /\ Kind(row) = "item"
  BY <1>0, <1>4 DEF WorkItemStatus
<1> QED
  BY <1>1, <1>2, <1>3, <1>4, RowCases

\* What a flush leaves in a row.
LEMMA FlushedRow ==
    ASSUME SessionInv, RowsInv, NEW s \in Sessions, session[s] # Idle,
           NEW row \in DOMAIN session[s].seen
    PROVE  /\ row \in Rows
           /\ Changed(session[s], row) \in Row
           /\ Flushed(session[s], row) \in Row
           /\ Changed(session[s], row).status = Command[session[s].op][Kind(row)].to
           /\ session[s].seen[row].status = Command[session[s].op][Kind(row)].from
           /\ Flushed(session[s], row).status \in {table[row].status, Changed(session[s], row).status}
           /\ row \in Items =>
                /\ Changed(session[s], row).status =
                     IF session[s].op = "ready" THEN "READY" ELSE "REVIEWED"
                /\ session[s].seen[row].status =
                     IF session[s].op = "ready" THEN "REVIEWED" ELSE "IN_REVIEW"
           /\ row = "specification" =>
                /\ Changed(session[s], row).status =
                     IF session[s].op = "approve" THEN "APPROVED" ELSE "AWAITING_APPROVAL"
                /\ session[s].seen[row].status =
                     IF session[s].op = "approve" THEN "AWAITING_APPROVAL" ELSE "DRAFT"
<1> DEFINE op == session[s].op
           seen == session[s].seen
           new == Changed(session[s], row)
<1>1. /\ op \in Operations /\ DOMAIN seen \in RowsOf(op)
      /\ seen[row] \in Row /\ session[s].again[row] \in Row
      /\ seen[row].status = Command[op][Kind(row)].from
  BY DEF RowsInv, ReadsItsRows, Allowed
<1>2. new.status = Command[op][Kind(row)].to
  BY DEF Changed
<1>3. /\ row \in Rows
      /\ new.status \in IntakeStatus \cup SpecificationStatus \cup WorkItemStatus
      /\ row \in Items =>
           /\ new.status = IF op = "ready" THEN "READY" ELSE "REVIEWED"
           /\ seen[row].status = IF op = "ready" THEN "REVIEWED" ELSE "IN_REVIEW"
      /\ row = "specification" =>
           /\ new.status = IF op = "approve" THEN "APPROVED" ELSE "AWAITING_APPROVAL"
           /\ seen[row].status = IF op = "approve" THEN "AWAITING_APPROVAL" ELSE "DRAFT"
  BY <1>1, <1>2, RowCases, CommandTarget
<1>4. new.terms \in Terms \cup {NoTerms}
  BY <1>1 DEF Changed, SessionInv, ReadyOfAnItem, Row
<1>5. new = [status |-> new.status, terms |-> new.terms]
  BY DEF Changed
<1>6. new \in Row
  BY <1>3, <1>4, <1>5 DEF Row
<1>7. table[row] \in Row
  BY <1>3 DEF RowsInv
<1>8. /\ Flushed(session[s], row).status \in {table[row].status, new.status}
      /\ Flushed(session[s], row).terms \in {table[row].terms, new.terms}
      /\ Flushed(session[s], row) = [status |-> Flushed(session[s], row).status,
                                     terms  |-> Flushed(session[s], row).terms]
  BY DEF Flushed
<1>9. Flushed(session[s], row) \in Row
  BY <1>6, <1>7, <1>8 DEF Row
<1> QED
  BY <1>1, <1>2, <1>3, <1>6, <1>8, <1>9

\* A session whose row is still as it has read it, twice, writes what its command
\* made of it.
LEMMA StraightFlush ==
    ASSUME SessionInv, RowsInv, NEW s \in Sessions, session[s] # Idle,
           NEW row \in DOMAIN session[s].seen, session[s].again[row] = table[row]
    PROVE  Flushed(session[s], row) = Changed(session[s], row)
<1> DEFINE new == Changed(session[s], row)
<1>1. new \in Row
  BY FlushedRow
<1>2. Flushed(session[s], row) = [status |-> new.status, terms |-> new.terms]
  BY DEF Flushed
<1>3. new = [status |-> new.status, terms |-> new.terms]
  BY <1>1 DEF Row
<1> QED
  BY <1>2, <1>3

\* What reading a row again does to a session.
ReadAgain(q, row, x, next) == [q EXCEPT !.again[row] = x, !.step = next]

\* A second reading changes the value read again and the step, and nothing else.
LEMMA ReadAgainIs ==
    ASSUME NEW q, NEW rows, NEW row \in rows, NEW x \in Row, NEW next,
           Fields(q), q.again \in [rows -> Row]
    PROVE  /\ ReadAgain(q, row, x, next).op = q.op
           /\ ReadAgain(q, row, x, next).seen = q.seen
           /\ ReadAgain(q, row, x, next).again \in [rows -> Row]
           /\ \A y \in rows :
                ReadAgain(q, row, x, next).again[y] = IF y = row THEN x ELSE q.again[y]
<1> DEFINE op == q.op
           terms == q.terms
           seen == q.seen
           again == q.again
           step == q.step
           r == ReadAgain(q, row, x, next)
<1>1. q = [op |-> op, terms |-> terms, seen |-> seen, again |-> again, step |-> step]
  BY DEF Fields
<1>2. again \in [rows -> Row]
  OBVIOUS
<1> HIDE DEF op, terms, seen, again, step
<1>3. r.op = op /\ r.seen = seen /\ r.again = [again EXCEPT ![row] = x]
  BY <1>1 DEF ReadAgain
<1>4. /\ [again EXCEPT ![row] = x] \in [rows -> Row]
      /\ \A y \in rows : [again EXCEPT ![row] = x][y] = IF y = row THEN x ELSE again[y]
  BY <1>2
<1> QED
  BY <1>3, <1>4 DEF op, seen, again

\* Steps that change no table and no event keep what these tell.
LEMMA SameStory ==
    ASSUME UNCHANGED <<table, event, stale>>, CountInv, stale = 0 => Story
    PROVE  CountInv' /\ (stale' = 0 => Story')
<1>1. Created' = Created /\ Announced' = Announced /\ Ready' = Ready /\ Approved' = Approved
  BY DEF Created, Announced, Ready, Approved
<1>2. CountInv'
  BY <1>1 DEF CountInv
<1>3. stale' = 0 => Story'
  BY <1>1 DEF Story
<1> QED
  BY <1>2, <1>3

\* The session that a step changes, among the others.
LEMMA OneSessionChanges ==
    ASSUME SessionInv, IntakeInv, NEW s \in Sessions, NEW r,
           session' = [session EXCEPT ![s] = r], UNCHANGED <<table, event, stale>>,
           r = Idle \/ /\ ReadsItsRows(r)
                       /\ \A row \in DOMAIN r.seen :
                            /\ row \in Items => table[row].status # "none"
                            /\ r.op = "ready" => table[row].status \in {"REVIEWED", "READY"}
    PROVE  IntakeInv'
<1>1. \A q \in Sessions : session'[q] = IF q = s THEN r ELSE session[q]
  BY DEF SessionInv
<1>2. RowsInv'
  BY <1>1 DEF IntakeInv, RowsInv
<1>3. ReadyInv'
  BY <1>1 DEF IntakeInv, ReadyInv
<1>4. CountInv' /\ (stale' = 0 => Story')
  BY SameStory DEF IntakeInv
<1> QED
  BY <1>2, <1>3, <1>4 DEF IntakeInv

\* A request reads its rows in the state that its command requires.
LEMMA BeginsIntake ==
    ASSUME SessionInv, IntakeInv, NEW s \in Sessions, NEW op \in Operations,
           NEW rows \in RowsOf(op), NEW t, Begins(s, op, rows, t)
    PROVE  IntakeInv'
<1> DEFINE seen == [row \in rows |-> table[row]]
           r == [op |-> op, terms |-> t, seen |-> seen, again |-> seen, step |-> "read"]
<1>1. /\ session' = [session EXCEPT ![s] = r]
      /\ UNCHANGED <<table, event, stale>>
      /\ Allowed(op, seen)
  BY DEF Begins
<1>2. r.op = op /\ r.seen = seen /\ r.again = seen /\ DOMAIN seen = rows
  OBVIOUS
<1>3. \A row \in rows : row \in Rows /\ seen[row] = table[row] /\ table[row] \in Row
  BY RowCases DEF IntakeInv, RowsInv
<1>4. seen \in [rows -> Row]
  BY <1>3
<1> HIDE DEF seen
<1>5. ReadsItsRows(r)
  BY <1>1, <1>2, <1>4 DEF ReadsItsRows
<1>6. ASSUME NEW row \in rows
      PROVE  /\ row \in Items => table[row].status # "none"
             /\ op = "ready" => table[row].status \in {"REVIEWED", "READY"}
  <2>1. seen[row].status = Command[op][Kind(row)].from
    BY <1>1, <1>2 DEF Allowed
  <2>2. op = "ready" => row \in Items
    BY RowCases
  <2>3. seen[row] = table[row]
    BY <1>3
  <2>4. row \in Items => op \in {"review", "ready"} /\ Kind(row) = "item"
    BY RowCases, IntakeAssumption
  <2>5. row \in Items => table[row].status = IF op = "ready" THEN "REVIEWED" ELSE "IN_REVIEW"
    BY <2>1, <2>3, <2>4, CommandIs
  <2> QED
    BY <2>2, <2>5
<1> HIDE DEF r
<1> QED
  BY <1>1, <1>2, <1>5, <1>6, OneSessionChanges

\* Reading again brings a row of the session up to date.
LEMMA RereadsIntakeInv ==
    ASSUME SessionInv, IntakeInv, NEW s \in Sessions, Rereads(s) \/ RereadsIntake(s)
    PROVE  IntakeInv'
<1> DEFINE q == session[s]
<1>1. /\ q # Idle /\ Fields(q) /\ ReadsItsRows(q)
      /\ UNCHANGED <<table, event, stale>>
  BY DEF Rereads, RereadsIntake, SessionInv, IntakeInv, RowsInv
<1>2. DOMAIN q.seen # {}
  BY <1>1 DEF ReadsItsRows, RowsOf, Operations
<1>3. PICK row \in DOMAIN q.seen, step \in {"reread", "flushed"} :
         session' = [session EXCEPT ![s].again[row] = table[row], ![s].step = step]
  <2>1. CASE Rereads(s)
    <3> DEFINE row == IF "specification" \in DOMAIN q.seen THEN "specification"
                      ELSE CHOOSE r \in DOMAIN q.seen : TRUE
    <3>1. row \in DOMAIN q.seen
      BY <1>2
    <3>2. session' = [session EXCEPT ![s].again[row] = table[row], ![s].step = "reread"]
      BY <2>1 DEF Rereads
    <3> QED
      BY <3>1, <3>2
  <2>2. CASE RereadsIntake(s)
    <3>1. "intake" \in DOMAIN q.seen
      BY <1>1, <2>2, IntakeAssumption DEF RereadsIntake, ReadsItsRows, RowsOf, Operations
    <3> QED
      BY <2>2, <3>1 DEF RereadsIntake
  <2> QED
    BY <2>1, <2>2
<1> DEFINE r == ReadAgain(q, row, table[row], step)
<1>4. row \in Rows /\ table[row] \in Row
  BY <1>1, RowCases DEF ReadsItsRows, IntakeInv, RowsInv
<1>6. /\ r.op = q.op /\ r.seen = q.seen /\ r.again \in [DOMAIN q.seen -> Row]
      /\ \A x \in DOMAIN q.seen : r.again[x] = IF x = row THEN table[row] ELSE q.again[x]
  <2>1. q.again \in [DOMAIN q.seen -> Row]
    BY <1>1 DEF ReadsItsRows
  <2> QED
    BY <1>1, <1>4, <2>1, ReadAgainIs
<1>5. session' = [session EXCEPT ![s] = r]
  <2>1. \A p \in Sessions : session'[p] = IF p = s THEN r ELSE session[p]
    BY <1>3 DEF SessionInv, ReadAgain
  <2>2. session' = [p \in Sessions |-> session'[p]]
    BY <1>3 DEF SessionInv, ReadAgain
  <2> QED
    BY <2>1, <2>2 DEF SessionInv
<1> HIDE DEF r
<1>7. ReadsItsRows(r)
  BY <1>1, <1>6 DEF ReadsItsRows
<1>8. \A x \in DOMAIN r.seen : /\ x \in Items => table[x].status # "none"
                               /\ r.op = "ready" => table[x].status \in {"REVIEWED", "READY"}
  BY <1>1, <1>6 DEF IntakeInv, ReadyInv
<1> QED
  BY <1>1, <1>5, <1>7, <1>8, OneSessionChanges

\* A commit that inserts a row x beside those that the session updates.
LEMMA InsertedRow ==
    ASSUME SessionInv, RowsInv, NEW s \in Sessions, session[s] # Idle,
           NEW x \in Rows, x \notin DOMAIN session[s].seen, table[x] = Absent,
           NEW status \in {"DRAFT", "IN_REVIEW"},
           table' = [Updated(s) EXCEPT ![x].status = status]
    PROVE  /\ table' \in [Rows -> Row]
           /\ table'[x] = [status |-> status, terms |-> NoTerms]
           /\ \A row \in DOMAIN session[s].seen : table'[row] = Flushed(session[s], row)
           /\ \A row \in Rows \ {x} :
                row \notin DOMAIN session[s].seen => table'[row] = table[row]
<1> DEFINE rows == DOMAIN session[s].seen
<1>1. \A row \in rows : row \in Rows /\ Flushed(session[s], row) \in Row
  BY FlushedRow
<1>2. table \in [Rows -> Row]
  BY DEF RowsInv
<1>3. /\ Updated(s) \in [Rows -> Row]
      /\ \A row \in rows : Updated(s)[row] = Flushed(session[s], row)
      /\ \A row \in Rows \ rows : Updated(s)[row] = table[row]
  BY <1>1, <1>2 DEF Updated
<1>4. Updated(s)[x] = [status |-> "none", terms |-> NoTerms]
  BY <1>3 DEF Absent
<1>5. table' = [Updated(s) EXCEPT ![x] = [Updated(s)[x] EXCEPT !.status = status]]
  OBVIOUS
<1>6. [Updated(s)[x] EXCEPT !.status = status] = [status |-> status, terms |-> NoTerms]
  BY <1>4
<1>7. [status |-> status, terms |-> NoTerms] \in Row
  BY DEF Row, SpecificationStatus, WorkItemStatus
<1>8. table' = [Updated(s) EXCEPT ![x] = [status |-> status, terms |-> NoTerms]]
  BY <1>5, <1>6
<1>9. \A row \in rows : row \in Rows /\ row # x
  BY <1>1
<1>10. /\ table' \in [Rows -> Row]
       /\ table'[x] = [status |-> status, terms |-> NoTerms]
       /\ \A row \in Rows \ {x} : table'[row] = Updated(s)[row]
  BY <1>3, <1>7, <1>8
<1> QED
  BY <1>3, <1>9, <1>10

\* A commit that inserts no row.
LEMMA UpdatedRows ==
    ASSUME SessionInv, RowsInv, NEW s \in Sessions, session[s] # Idle, table' = Updated(s)
    PROVE  /\ table' \in [Rows -> Row]
           /\ \A row \in DOMAIN session[s].seen : table'[row] = Flushed(session[s], row)
           /\ \A row \in Rows \ DOMAIN session[s].seen : table'[row] = table[row]
<1>1. \A row \in DOMAIN session[s].seen : row \in Rows /\ Flushed(session[s], row) \in Row
  BY FlushedRow
<1>2. table \in [Rows -> Row]
  BY DEF RowsInv
<1> QED
  BY <1>1, <1>2 DEF Updated

\* What each operation reads, and what its commit does.
LEMMA CommitCases ==
    ASSUME SessionInv, RowsInv, NEW s \in Sessions, Commits(s)
    PROVE  LET me == session[s]
           IN  \/ /\ me.op = "draft" /\ DOMAIN me.seen = {"intake"}
                  /\ table["specification"] = Absent
                  /\ table' = [Updated(s) EXCEPT !["specification"].status = "DRAFT"]
                  /\ UNCHANGED <<event, routes>>
               \/ /\ me.op = "submit" /\ DOMAIN me.seen = {"intake", "specification"}
                  /\ table' = Updated(s)
                  /\ UNCHANGED <<event, routes>>
               \/ /\ me.op = "approve" /\ DOMAIN me.seen = {"intake", "specification"}
                  /\ \E i \in Items : /\ table[i] = Absent
                                      /\ table' = [Updated(s) EXCEPT ![i].status = "IN_REVIEW"]
                  /\ UNCHANGED <<event, routes>>
               \/ /\ me.op = "review" /\ \E i \in Items : DOMAIN me.seen = {i}
                  /\ table' = Updated(s)
                  /\ UNCHANGED <<event, routes>>
               \/ /\ me.op = "ready"
                  /\ table' = Updated(s)
                  /\ \E i \in Items, e \in Events : /\ DOMAIN me.seen = {i}
                                                    /\ Announces(e, i, me.terms)
<1> DEFINE me == session[s]
<1>1. me.op \in Operations /\ DOMAIN me.seen \in RowsOf(me.op) /\ Inserts(s)
  BY DEF Commits, RowsInv, ReadsItsRows
<1>2. CASE me.op = "draft"
  BY <1>1, <1>2 DEF Inserts, RowsOf
<1>3. CASE me.op = "submit"
  BY <1>1, <1>3 DEF Inserts, RowsOf
<1>4. CASE me.op = "approve"
  BY <1>1, <1>4 DEF Inserts, RowsOf
<1>5. CASE me.op = "review"
  BY <1>1, <1>5 DEF Inserts, RowsOf
<1>6. CASE me.op = "ready"
  <2>1. PICK i \in Items : DOMAIN me.seen = {i}
    BY <1>1, <1>6 DEF RowsOf
  <2>2. /\ \E e \in Events, j \in DOMAIN me.seen : Announces(e, j, me.terms)
        /\ table' = Updated(s)
    BY <1>1, <1>6 DEF Inserts
  <2>3. \E e \in Events : Announces(e, i, me.terms)
    BY <2>1, <2>2
  <2> QED
    BY <1>6, <2>1, <2>2, <2>3
<1> QED
  BY <1>1, <1>2, <1>3, <1>4, <1>5, <1>6 DEF Operations

\* A commit writes the rows it has read, and other rows only where there were none.
LEMMA CommittedRows ==
    ASSUME SessionInv, RowsInv, NEW s \in Sessions, Commits(s)
    PROVE  /\ table' \in [Rows -> Row]
           /\ \A row \in DOMAIN session[s].seen : table'[row] = Flushed(session[s], row)
           /\ \A row \in Rows \ DOMAIN session[s].seen :
                \/ table'[row] = table[row]
                \/ table[row] = Absent /\ table'[row].status \in {"DRAFT", "IN_REVIEW"}
<1>1. session[s] # Idle
  BY DEF Commits
<1>2. CASE table' = Updated(s)
  BY <1>1, <1>2, UpdatedRows
<1>3. ASSUME NEW x \in Rows, x \notin DOMAIN session[s].seen, table[x] = Absent,
             NEW status \in {"DRAFT", "IN_REVIEW"},
             table' = [Updated(s) EXCEPT ![x].status = status]
      PROVE  /\ table' \in [Rows -> Row]
             /\ \A row \in DOMAIN session[s].seen : table'[row] = Flushed(session[s], row)
             /\ \A row \in Rows \ DOMAIN session[s].seen :
                  \/ table'[row] = table[row]
                  \/ table[row] = Absent /\ table'[row].status \in {"DRAFT", "IN_REVIEW"}
  <2>1. /\ table' \in [Rows -> Row]
        /\ table'[x] = [status |-> status, terms |-> NoTerms]
        /\ \A row \in DOMAIN session[s].seen : table'[row] = Flushed(session[s], row)
        /\ \A row \in Rows \ {x} :
             row \notin DOMAIN session[s].seen => table'[row] = table[row]
    BY <1>1, <1>3, InsertedRow
  <2>2. table'[x].status = status
    BY <2>1
  <2> QED
    BY <1>3, <2>1, <2>2
<1>4. "specification" \in Rows /\ "specification" # "intake" /\ Items \subseteq Rows
      /\ \A i \in Items : i \notin {"intake", "specification"}
  BY IntakeAssumption DEF Rows
<1>5. CASE /\ DOMAIN session[s].seen = {"intake"} /\ table["specification"] = Absent
           /\ table' = [Updated(s) EXCEPT !["specification"].status = "DRAFT"]
  BY <1>3, <1>4, <1>5
<1>6. CASE /\ DOMAIN session[s].seen = {"intake", "specification"}
           /\ \E i \in Items : /\ table[i] = Absent
                               /\ table' = [Updated(s) EXCEPT ![i].status = "IN_REVIEW"]
  BY <1>3, <1>4, <1>6
<1> QED
  BY <1>2, <1>5, <1>6, CommitCases

\* The rows of a session that is not late are as it has read them, and become what its
\* command makes of them.
LEMMA StraightRows ==
    ASSUME SessionInv, RowsInv, NEW s \in Sessions, Commits(s), ~Late(s),
           NEW row \in DOMAIN session[s].seen
    PROVE  /\ row \in Rows
           /\ table[row].status = Command[session[s].op][Kind(row)].from
           /\ table'[row] = Changed(session[s], row)
           /\ table'[row].status = Command[session[s].op][Kind(row)].to
<1>1. /\ session[s] # Idle
      /\ session[s].seen[row] = table[row] /\ session[s].again[row] = table[row]
  BY DEF Commits, Late
<1>2. table'[row] = Flushed(session[s], row)
  BY CommittedRows
<1>3. Flushed(session[s], row) = Changed(session[s], row)
  BY <1>1, StraightFlush
<1> QED
  BY <1>1, <1>2, <1>3, FlushedRow

\* A commit keeps what is said of the rows and the other sessions.
LEMMA CommitsOthers ==
    ASSUME SessionInv, IntakeInv, NEW s \in Sessions, Commits(s)
    PROVE  RowsInv' /\ ReadyInv'
<1>1. \A q \in Sessions : session'[q] # Idle => q # s /\ session'[q] = session[q]
  BY DEF Commits, SessionInv
<1>2. RowsInv'
  <2>1. stale' \in Nat
    BY DEF Commits, IntakeInv, RowsInv
  <2> QED
    BY <1>1, <2>1, CommittedRows DEF IntakeInv, RowsInv
<1>3. ReadyInv'
  <2> SUFFICES ASSUME NEW q \in Sessions, session[q] # Idle, NEW row \in DOMAIN session[q].seen,
                      row \in Items
               PROVE  /\ table'[row].status # "none"
                      /\ session[q].op = "ready" => table'[row].status \in {"REVIEWED", "READY"}
    BY <1>1 DEF ReadyInv, SessionInv, ReadyOfAnItem
  <2>1. /\ table[row].status # "none"
        /\ session[q].op = "ready" => table[row].status \in {"REVIEWED", "READY"}
    BY DEF IntakeInv, ReadyInv
  <2>2. row \in Rows
    BY DEF Rows
  <2>3. CASE row \in DOMAIN session[s].seen
    <3>1. session[s] # Idle /\ RowsInv
      BY DEF Commits, IntakeInv
    <3>2. table'[row] = Flushed(session[s], row)
      BY <2>3, <3>1, CommittedRows
    <3> QED
      BY <2>1, <2>2, <2>3, <3>1, <3>2, FlushedRow
  <2>4. CASE row \notin DOMAIN session[s].seen
    <3>1. table[row] # Absent
      BY <2>1 DEF Absent
    <3> QED
      BY <2>1, <2>2, <2>4, <3>1, CommittedRows DEF IntakeInv
  <2> QED
    BY <2>3, <2>4
<1> QED
  BY <1>2, <1>3

\* An event that is announced joins the others, which stay what they are.
LEMMA Announcing ==
    ASSUME EventInv, NEW e \in Events, NEW i \in Items, NEW t \in Terms, Announces(e, i, t)
    PROVE  /\ e \notin Announced
           /\ Announced' = Announced \cup {e}
           /\ \A f \in Announced : event'[f] = event[f]
           /\ event'[e] = [item |-> i, terms |-> t]
<1>1. event' = [event EXCEPT ![e] = [item |-> i, terms |-> t]]
  BY DEF Announces
<1>2. e \notin Announced
  BY DEF Announces, Announced
<1>3. [item |-> i, terms |-> t] # Unannounced
  BY IntakeAssumption DEF Unannounced
<1>4. Announced' = Announced \cup {e}
  BY <1>1, <1>3 DEF Announced, EventInv
<1>5. \A f \in Announced : event'[f] = event[f]
  BY <1>1, <1>2 DEF Announced, EventInv
<1>6. event'[e] = [item |-> i, terms |-> t]
  BY <1>1 DEF EventInv
<1> QED
  BY <1>2, <1>4, <1>5, <1>6

\* Intake and specification are written by the first three operations only.
LEMMA SpecificationStory ==
    ASSUME EventInv, Story, UNCHANGED event, \A i \in Items : table'[i] = table[i],
           <<table'["intake"].status, table'["specification"].status>> \in Pairs,
           table'["specification"].status # "APPROVED"
    PROVE  Story'
<1>1. Announced' = Announced
  BY DEF Announced
<1>2. \A e \in Announced : event[e].item \in Items
  BY DEF EventInv
<1> QED
  BY <1>1, <1>2 DEF Story

\* An approval creates a work item that nothing has announced.
LEMMA ApprovalStory ==
    ASSUME EventInv, Story, UNCHANGED event, NEW i \in Items, table[i] = Absent,
           table'[i].status = "IN_REVIEW", \A j \in Items \ {i} : table'[j] = table[j],
           <<table'["intake"].status, table'["specification"].status>> \in Pairs
    PROVE  Story'
<1>1. Announced' = Announced
  BY DEF Announced
<1>2. i \in Created'
  BY DEF Created, Absent
<1>3. \A e \in Announced : event[e].item \in Items /\ event[e].item # i
  <2> SUFFICES ASSUME NEW e \in Announced, event[e].item = i PROVE FALSE
    BY DEF EventInv
  <2>1. table[i] = [status |-> "READY", terms |-> event[e].terms]
    BY DEF Story
  <2> QED
    BY <2>1 DEF Absent
<1> QED
  BY <1>1, <1>2, <1>3 DEF Story

\* A review or a release of an item that is not late changes that item alone, and
\* announces it if it becomes ready.
LEMMA ItemStory ==
    ASSUME EventInv, Story, NEW i \in Items,
           \A row \in Rows \ {i} : table'[row] = table[row],
           \/ /\ table[i].status = "IN_REVIEW" /\ table'[i].status = "REVIEWED"
              /\ UNCHANGED event
           \/ /\ table[i].status = "REVIEWED"
              /\ \E e \in Events, t \in Terms : /\ table'[i] = [status |-> "READY", terms |-> t]
                                                /\ Announces(e, i, t)
    PROVE  Story'
<1>1. /\ "intake" \in Rows \ {i} /\ "specification" \in Rows \ {i}
      /\ \A j \in Items \ {i} : j \in Rows \ {i}
  BY IntakeAssumption DEF Rows
<1>2. table'[i].status \in {"REVIEWED", "READY"}
  <2>1. ASSUME NEW t, table'[i] = [status |-> "READY", terms |-> t]
        PROVE  table'[i].status = "READY"
    BY <2>1
  <2> QED
    BY <2>1
<1>3. i \in Created'
  BY <1>2 DEF Created, Absent
<1>4. /\ <<table'["intake"].status, table'["specification"].status>> \in Pairs
      /\ table'["specification"].status = "APPROVED" => Created' # {}
  BY <1>1, <1>3 DEF Story
<1>5. \A e \in Announced : event[e].item \in Items /\ event[e].item # i
  <2> SUFFICES ASSUME NEW e \in Announced, event[e].item = i PROVE FALSE
    BY DEF EventInv
  <2>1. table[i] = [status |-> "READY", terms |-> event[e].terms]
    BY DEF Story
  <2> QED
    BY <2>1
<1>6. \A e \in Announced :
        table'[event[e].item] = [status |-> "READY", terms |-> event[e].terms]
  BY <1>1, <1>5 DEF Story
<1>7. CASE UNCHANGED event
  <2>1. Announced' = Announced
    BY <1>7 DEF Announced
  <2> QED
    BY <1>4, <1>6, <1>7, <2>1 DEF Story
<1>8. ASSUME NEW e \in Events, NEW t \in Terms,
             table'[i] = [status |-> "READY", terms |-> t], Announces(e, i, t)
      PROVE  Story'
  <2>1. /\ Announced' = Announced \cup {e}
        /\ \A f \in Announced : event'[f] = event[f]
        /\ event'[e] = [item |-> i, terms |-> t]
    BY <1>8, Announcing
  <2>2. event'[e].item = i /\ event'[e].terms = t
    BY <2>1
  <2>3. \A f \in Announced' :
          table'[event'[f].item] = [status |-> "READY", terms |-> event'[f].terms]
    BY <1>6, <1>8, <2>1, <2>2
  <2> QED
    BY <1>4, <2>3 DEF Story
<1> QED
  BY <1>7, <1>8

\* A commit that is not late goes on with the story.
LEMMA CommitsStory ==
    ASSUME SessionInv, EventInv, RowsInv, Story, NEW s \in Sessions, Commits(s), ~Late(s)
    PROVE  Story'
<1> DEFINE me == session[s]
           from(row) == Command[me.op][Kind(row)].from
           to(row) == Command[me.op][Kind(row)].to
<1>1. /\ me # Idle
      /\ \A row \in DOMAIN me.seen :
           /\ row \in Rows
           /\ table[row].status = from(row)
           /\ table'[row] = Changed(me, row)
           /\ table'[row].status = to(row)
  BY StraightRows DEF Commits
<1>2. /\ "intake" \in Rows /\ "specification" \in Rows /\ "specification" # "intake"
      /\ \A i \in Items : i \in Rows /\ i \notin {"intake", "specification"} /\ Kind(i) = "item"
      /\ Kind("intake") = "intake" /\ Kind("specification") = "specification"
  BY IntakeAssumption DEF Rows, Kind
<1>4. CASE /\ me.op = "draft" /\ DOMAIN me.seen = {"intake"}
           /\ table["specification"] = Absent
           /\ table' = [Updated(s) EXCEPT !["specification"].status = "DRAFT"]
           /\ UNCHANGED <<event, routes>>
  <2>1. /\ table'["specification"] = [status |-> "DRAFT", terms |-> NoTerms]
        /\ \A i \in Items : table'[i] = table[i]
    BY <1>1, <1>2, <1>4, InsertedRow
  <2>2. table'["intake"].status = "SPECIFICATION_DRAFTED"
    BY <1>1, <1>2, <1>4, CommandIs
  <2>3. table'["specification"].status = "DRAFT"
    BY <2>1
  <2> QED
    BY <1>4, <2>1, <2>2, <2>3, SpecificationStory DEF Pairs
<1>5. CASE /\ me.op = "submit" /\ DOMAIN me.seen = {"intake", "specification"}
           /\ table' = Updated(s)
           /\ UNCHANGED <<event, routes>>
  <2>1. \A i \in Items : table'[i] = table[i]
    BY <1>1, <1>2, <1>5, UpdatedRows
  <2>2. /\ table'["intake"].status = "AWAITING_APPROVAL"
        /\ table'["specification"].status = "AWAITING_APPROVAL"
    BY <1>1, <1>2, <1>5, CommandIs
  <2> QED
    BY <1>5, <2>1, <2>2, SpecificationStory DEF Pairs
<1>6. CASE /\ me.op = "approve" /\ DOMAIN me.seen = {"intake", "specification"}
           /\ \E i \in Items : /\ table[i] = Absent
                               /\ table' = [Updated(s) EXCEPT ![i].status = "IN_REVIEW"]
           /\ UNCHANGED <<event, routes>>
  <2>1. PICK i \in Items : /\ table[i] = Absent
                           /\ table' = [Updated(s) EXCEPT ![i].status = "IN_REVIEW"]
    BY <1>6
  <2>2. /\ table'[i] = [status |-> "IN_REVIEW", terms |-> NoTerms]
        /\ \A row \in Rows \ {i} : row \notin DOMAIN me.seen => table'[row] = table[row]
    BY <1>1, <1>2, <1>6, <2>1, InsertedRow
  <2>3. /\ table'[i].status = "IN_REVIEW"
        /\ \A j \in Items \ {i} : table'[j] = table[j]
    BY <1>2, <1>6, <2>2
  <2>4. /\ table'["intake"].status = "SPECIFICATION_APPROVED"
        /\ table'["specification"].status = "APPROVED"
    BY <1>1, <1>2, <1>6, CommandIs
  <2> QED
    BY <1>6, <2>1, <2>3, <2>4, ApprovalStory DEF Pairs
<1>7. CASE /\ me.op = "review" /\ \E i \in Items : DOMAIN me.seen = {i}
           /\ table' = Updated(s)
           /\ UNCHANGED <<event, routes>>
  <2>1. PICK i \in Items : DOMAIN me.seen = {i}
    BY <1>7
  <2>2. \A row \in Rows \ {i} : table'[row] = table[row]
    BY <1>1, <1>7, <2>1, UpdatedRows
  <2>3. table[i].status = "IN_REVIEW" /\ table'[i].status = "REVIEWED"
    BY <1>1, <1>2, <1>7, <2>1, CommandIs
  <2> QED
    BY <1>7, <2>2, <2>3, ItemStory
<1>8. CASE /\ me.op = "ready"
           /\ table' = Updated(s)
           /\ \E i \in Items, e \in Events : /\ DOMAIN me.seen = {i}
                                             /\ Announces(e, i, me.terms)
  <2>1. PICK i \in Items, e \in Events : DOMAIN me.seen = {i} /\ Announces(e, i, me.terms)
    BY <1>8
  <2>2. \A row \in Rows \ {i} : table'[row] = table[row]
    BY <1>1, <1>8, <2>1, UpdatedRows
  <2>3. table[i].status = "REVIEWED" /\ table'[i].status = "READY"
    BY <1>1, <1>2, <1>8, <2>1, CommandIs
  <2>4. me.terms \in Terms
    BY <1>1, <1>8 DEF SessionInv, ReadyOfAnItem
  <2>5. Changed(me, i) = [status |-> Changed(me, i).status, terms |-> me.terms]
    BY <1>8 DEF Changed
  <2>6. table'[i] = [status |-> "READY", terms |-> me.terms]
    BY <1>1, <2>1, <2>3, <2>5
  <2> QED
    BY <2>1, <2>2, <2>3, <2>4, <2>6, ItemStory
<1> QED
  BY <1>1, <1>4, <1>5, <1>6, <1>7, <1>8, CommitCases

\* Each work item and each announcement too many is paid by a late session.
LEMMA CommitsCount ==
    ASSUME SessionInv, EventInv, IntakeInv, NEW s \in Sessions, Commits(s)
    PROVE  CountInv'
<1> DEFINE me == session[s]
           rows == DOMAIN me.seen
<1>1. /\ me # Idle /\ RowsInv /\ CountInv
      /\ stale \in Nat /\ stale' = IF Late(s) THEN stale + 1 ELSE stale
  BY DEF Commits, IntakeInv, RowsInv
<1>2. /\ "specification" \in Rows /\ "specification" # "intake"
      /\ \A i \in Items : i \in Rows /\ i \notin {"intake", "specification"} /\ Kind(i) = "item"
      /\ Kind("intake") = "intake" /\ Kind("specification") = "specification"
  BY IntakeAssumption DEF Rows, Kind
<1>3. Ready \subseteq Created
  BY DEF Ready, Created, Absent
<1>4. /\ IsFiniteSet(Created) /\ IsFiniteSet(Announced) /\ IsFiniteSet(Ready)
      /\ Cardinality(Created) \in Nat /\ Cardinality(Announced) \in Nat
      /\ Cardinality(Ready) \in Nat
      /\ Approved \in {0, 1} /\ Approved' \in {0, 1}
  BY <1>1, <1>3, FS_Subset, FS_CardinalityType DEF CountInv, Approved
\* Operations on intake and specification.
<1>5. ASSUME \A i \in Items : table'[i] = table[i], UNCHANGED event,
             ~Late(s) => Approved = 0
      PROVE  CountInv'
  <2>1. Created' = Created /\ Announced' = Announced /\ Ready' = Ready
    BY <1>5 DEF Created, Announced, Ready
  <2>2. stale + Approved <= stale' + Approved'
    BY <1>1, <1>4, <1>5 DEF Approved
  <2>3. stale <= stale'
    BY <1>1
  <2>4. /\ Cardinality(Created) <= stale + Approved
        /\ Cardinality(Announced) <= stale + Cardinality(Ready)
    BY <1>1 DEF CountInv
  <2>5. stale \in Nat /\ stale' \in Nat
    BY <1>1
  <2>6. Cardinality(Created) <= stale' + Approved'
    BY <1>1, <1>4, <1>5, <2>4, <2>5 DEF Approved
  <2>7. Cardinality(Announced) <= stale' + Cardinality(Ready)
    BY <1>4, <2>4, <2>5, <2>3
  <2> QED
    BY <1>1, <1>5, <2>1, <2>6, <2>7 DEF CountInv
<1>6. CASE /\ me.op = "draft" /\ rows = {"intake"}
           /\ table["specification"] = Absent
           /\ table' = [Updated(s) EXCEPT !["specification"].status = "DRAFT"]
           /\ UNCHANGED <<event, routes>>
  <2>1. \A i \in Items : table'[i] = table[i]
    BY <1>1, <1>2, <1>6, InsertedRow
  <2>2. Approved = 0
    BY <1>6 DEF Approved, Absent
  <2> QED
    BY <1>5, <1>6, <2>1, <2>2
<1>7. CASE /\ me.op = "submit" /\ rows = {"intake", "specification"}
           /\ table' = Updated(s)
           /\ UNCHANGED <<event, routes>>
  <2>1. \A i \in Items : table'[i] = table[i]
    BY <1>1, <1>2, <1>7, UpdatedRows
  <2>2. ASSUME ~Late(s) PROVE Approved = 0
    <3>1. table["specification"].status = "DRAFT"
      BY <1>1, <1>2, <1>7, <2>2, StraightRows, CommandIs
    <3> QED
      BY <3>1 DEF Approved
  <2> QED
    BY <1>5, <1>7, <2>1, <2>2
<1>8. CASE /\ me.op = "approve" /\ rows = {"intake", "specification"}
           /\ \E i \in Items : /\ table[i] = Absent
                               /\ table' = [Updated(s) EXCEPT ![i].status = "IN_REVIEW"]
           /\ UNCHANGED <<event, routes>>
  <2>1. PICK i \in Items : /\ table[i] = Absent
                           /\ table' = [Updated(s) EXCEPT ![i].status = "IN_REVIEW"]
    BY <1>8
  <2>2. /\ table'[i] = [status |-> "IN_REVIEW", terms |-> NoTerms]
        /\ table'["specification"] = Flushed(me, "specification")
        /\ \A j \in Items \ {i} : table'[j] = table[j]
    BY <1>1, <1>2, <1>8, <2>1, InsertedRow
  <2>3. table'[i].status = "IN_REVIEW" /\ table[i].status = "none"
    BY <2>1, <2>2 DEF Absent
  <2>4. i \notin Created /\ Created' = Created \cup {i}
    BY <2>1, <2>2, <2>3 DEF Created, Absent
  <2>5. Ready' = Ready /\ Announced' = Announced
    BY <1>8, <2>2, <2>3 DEF Ready, Announced
  <2>6. IsFiniteSet(Created') /\ Cardinality(Created') = Cardinality(Created) + 1
    BY <1>4, <2>4, FS_AddElement
  <2>7. table'["specification"].status \in {table["specification"].status, "APPROVED"}
    BY <1>1, <1>8, <2>2, FlushedRow
  <2>8. Approved <= Approved'
    BY <1>4, <2>7 DEF Approved
  <2>9. ASSUME ~Late(s) PROVE Approved = 0 /\ Approved' = 1
    <3>1. /\ table["specification"].status = "AWAITING_APPROVAL"
          /\ table'["specification"].status = "APPROVED"
      BY <1>1, <1>2, <1>8, <2>9, StraightRows, CommandIs
    <3> QED
      BY <3>1 DEF Approved
  <2>10. Cardinality(Created') <= stale' + Approved'
    <3>1. Cardinality(Created) <= stale + Approved
      BY <1>1 DEF CountInv
    <3> QED
      BY <1>1, <1>4, <2>6, <2>8, <2>9, <3>1
  <2>11. Cardinality(Announced') <= stale' + Cardinality(Ready')
    <3>1. Cardinality(Announced) <= stale + Cardinality(Ready)
      BY <1>1 DEF CountInv
    <3> QED
      BY <1>1, <1>4, <2>5, <3>1
  <2> QED
    BY <1>1, <1>8, <2>5, <2>6, <2>10, <2>11 DEF CountInv
\* Operations on a work item.
<1>9. ASSUME NEW i \in Items, rows = {i}, table' = Updated(s)
      PROVE  /\ \A row \in Rows \ {i} : table'[row] = table[row]
             /\ table'[i].status \in
                  {table[i].status, IF me.op = "ready" THEN "READY" ELSE "REVIEWED"}
             /\ Created' = Created /\ Approved' = Approved
  <2>1. /\ table'[i] = Flushed(me, i)
        /\ \A row \in Rows \ {i} : table'[row] = table[row]
    BY <1>1, <1>9, UpdatedRows
  <2>2. table'[i].status \in
           {table[i].status, IF me.op = "ready" THEN "READY" ELSE "REVIEWED"}
    BY <1>1, <1>9, <2>1, FlushedRow
  <2>3. table[i].status # "none"
    BY <1>1, <1>9 DEF IntakeInv, ReadyInv
  <2>4. i \in Created /\ i \in Created'
    BY <2>2, <2>3 DEF Created, Absent
  <2>5. Created' = Created
    BY <1>2, <2>1, <2>4 DEF Created
  <2>6. Approved' = Approved
    BY <1>2, <1>9, <2>1 DEF Approved
  <2> QED
    BY <2>1, <2>2, <2>5, <2>6
<1>10. CASE /\ me.op = "review" /\ \E i \in Items : rows = {i}
            /\ table' = Updated(s)
            /\ UNCHANGED <<event, routes>>
  <2>1. PICK i \in Items : rows = {i}
    BY <1>10
  <2>2. /\ \A row \in Rows \ {i} : table'[row] = table[row]
        /\ table'[i].status \in {table[i].status, "REVIEWED"}
        /\ Created' = Created /\ Approved' = Approved /\ Announced' = Announced
    BY <1>9, <1>10, <2>1 DEF Announced
  <2>3. Ready' \subseteq Ready /\ Ready \subseteq Ready' \cup {i}
    BY <1>2, <2>2 DEF Ready
  <2>4. IsFiniteSet(Ready') /\ Cardinality(Ready') \in Nat
    BY <1>4, <2>3, FS_Subset, FS_CardinalityType
  <2>5. Cardinality(Ready) <= Cardinality(Ready') + 1
    <3>1. /\ IsFiniteSet(Ready' \cup {i})
          /\ Cardinality(Ready' \cup {i}) \in {Cardinality(Ready'), Cardinality(Ready') + 1}
      BY <2>4, FS_AddElement
    <3>2. Cardinality(Ready) <= Cardinality(Ready' \cup {i})
      BY <2>3, <3>1, FS_Subset
    <3> QED
      BY <1>4, <2>4, <3>1, <3>2
  <2>6. ASSUME ~Late(s) PROVE Ready' = Ready
    <3>1. table[i].status = "IN_REVIEW" /\ table'[i].status = "REVIEWED"
      BY <1>1, <1>2, <1>10, <2>1, <2>6, StraightRows, CommandIs
    <3> QED
      BY <1>2, <2>2, <3>1 DEF Ready
  <2>7. Cardinality(Announced') <= stale' + Cardinality(Ready')
    <3>1. Cardinality(Announced) <= stale + Cardinality(Ready)
      BY <1>1 DEF CountInv
    <3> QED
      BY <1>1, <1>4, <2>2, <2>4, <2>5, <2>6, <3>1
  <2>8. Cardinality(Created') <= stale' + Approved'
    <3>1. Cardinality(Created) <= stale + Approved
      BY <1>1 DEF CountInv
    <3> QED
      BY <1>1, <1>4, <2>2, <3>1
  <2> QED
    BY <1>1, <1>10, <2>2, <2>3, <2>7, <2>8 DEF CountInv
<1>11. CASE /\ me.op = "ready"
            /\ table' = Updated(s)
            /\ \E i \in Items, e \in Events : /\ rows = {i}
                                              /\ Announces(e, i, me.terms)
  <2>1. PICK i \in Items, e \in Events : rows = {i} /\ Announces(e, i, me.terms)
    BY <1>11
  <2>2. /\ \A row \in Rows \ {i} : table'[row] = table[row]
        /\ table'[i].status \in {table[i].status, "READY"}
        /\ Created' = Created /\ Approved' = Approved
    BY <1>9, <1>11, <2>1
  <2>3. me.terms \in Terms
    BY <1>1, <1>11 DEF SessionInv, ReadyOfAnItem
  <2>4. /\ e \notin Announced /\ Announced' = Announced \cup {e}
        /\ \A f \in Announced : event'[f] = event[f]
        /\ event'[e] = [item |-> i, terms |-> me.terms]
    BY <2>1, <2>3, Announcing
  <2>5. event'[e].item = i
    BY <2>4
  <2>6. IsFiniteSet(Announced') /\ Cardinality(Announced') = Cardinality(Announced) + 1
    BY <1>4, <2>4, FS_AddElement
  <2>7. Ready \subseteq Ready' /\ Ready' \subseteq Ready \cup {i}
    BY <1>2, <2>2 DEF Ready
  <2>8. /\ IsFiniteSet(Ready \cup {i}) /\ IsFiniteSet(Ready')
        /\ Cardinality(Ready') \in Nat /\ Cardinality(Ready) <= Cardinality(Ready')
    <3>1. IsFiniteSet(Ready \cup {i})
      BY <1>4, FS_AddElement
    <3>2. IsFiniteSet(Ready')
      BY <2>7, <3>1, FS_Subset
    <3> QED
      BY <2>7, <3>1, <3>2, FS_Subset, FS_CardinalityType
  <2>9. ASSUME ~Late(s) PROVE Cardinality(Ready') = Cardinality(Ready) + 1
    <3>1. table[i].status = "REVIEWED" /\ table'[i].status = "READY"
      BY <1>1, <1>2, <1>11, <2>1, <2>9, StraightRows, CommandIs
    <3>2. i \notin Ready /\ Ready' = Ready \cup {i}
      BY <2>7, <3>1 DEF Ready
    <3> QED
      BY <1>4, <3>2, FS_AddElement
  <2>10. Cardinality(Announced') <= stale' + Cardinality(Ready')
    <3>1. Cardinality(Announced) <= stale + Cardinality(Ready)
      BY <1>1 DEF CountInv
    <3> QED
      BY <1>1, <1>4, <2>6, <2>8, <2>9, <3>1
  <2>11. Cardinality(Created') <= stale' + Approved'
    <3>1. Cardinality(Created) <= stale + Approved
      BY <1>1 DEF CountInv
    <3> QED
      BY <1>1, <1>4, <2>2, <3>1
  <2>12. \A j \in Ready' : \E f \in Announced' : event'[f].item = j
    BY <1>1, <2>4, <2>5, <2>7 DEF CountInv
  <2>13. IsFiniteSet(Created')
    BY <1>4, <2>2
  <2> QED
    BY <2>6, <2>10, <2>11, <2>12, <2>13 DEF CountInv
<1> QED
  BY <1>1, <1>6, <1>7, <1>8, <1>10, <1>11, CommitCases

\* IntakeInv holds at first: an intake is received, and nobody works on it.
LEMMA InitIntake == Init => IntakeInv
<1> SUFFICES ASSUME ControlInit PROVE IntakeInv
  BY DEF Init
<1>1. /\ "intake" \in Rows /\ "specification" \in Rows /\ "specification" # "intake"
      /\ \A i \in Items : i \in Rows /\ i \notin {"intake", "specification"}
  BY IntakeAssumption DEF Rows
<1>2. /\ table["intake"] = [status |-> "RECEIVED", terms |-> NoTerms]
      /\ \A row \in Rows \ {"intake"} : table[row] = [status |-> "none", terms |-> NoTerms]
      /\ table = [row \in Rows |-> table[row]]
  BY <1>1 DEF ControlInit, Absent
<1>3. table \in [Rows -> Row]
  <2>1. \A row \in Rows : table[row] \in Row
    BY <1>2 DEF Row, IntakeStatus, SpecificationStatus
  <2> QED
    BY <1>2, <2>1
<1>4. \A s \in Sessions : session[s] = Idle
  BY DEF ControlInit
<1>5. Announced = {} /\ stale = 0
  BY DEF ControlInit, Announced
<1>6. Created = {}
  BY <1>1, <1>2 DEF Created, Absent
<1>7. table["specification"].status = "none" /\ table["intake"].status = "RECEIVED"
  BY <1>1, <1>2
<1>8. \A i \in Items : table[i].status # "READY"
  BY <1>1, <1>2
<1>9. Story
  BY <1>5, <1>7 DEF Story, Pairs
<1>10. CountInv
  <2>1. Ready = {} /\ Approved = 0
    BY <1>7, <1>8 DEF Ready, Approved
  <2> QED
    BY <1>5, <1>6, <2>1, FS_EmptySet DEF CountInv
<1> QED
  BY <1>3, <1>4, <1>5, <1>9, <1>10 DEF IntakeInv, RowsInv, ReadyInv

\* Every step of the control plane preserves IntakeInv.
LEMMA ControlIntake ==
    ASSUME SessionInv, EventInv, IntakeInv, ControlNext
    PROVE  IntakeInv'
<1>1. PICK s \in Sessions :
        \/ DraftSpecification(s) \/ SubmitSpecification(s) \/ ApproveSpecification(s)
        \/ ReviewWorkItem(s) \/ ReadyWorkItem(s)
        \/ Rereads(s) \/ RereadsIntake(s) \/ Commits(s) \/ Fails(s)
  BY DEF ControlNext
<1>2. CASE DraftSpecification(s)
  <2>1. "draft" \in Operations /\ {"intake"} \in RowsOf("draft")
    BY DEF Operations, RowsOf
  <2> QED
    BY <1>2, <2>1, BeginsIntake DEF DraftSpecification
<1>3. CASE SubmitSpecification(s)
  <2>1. "submit" \in Operations /\ {"intake", "specification"} \in RowsOf("submit")
    BY DEF Operations, RowsOf
  <2> QED
    BY <1>3, <2>1, BeginsIntake DEF SubmitSpecification
<1>4. CASE ApproveSpecification(s)
  <2>1. "approve" \in Operations /\ {"intake", "specification"} \in RowsOf("approve")
    BY DEF Operations, RowsOf
  <2> QED
    BY <1>4, <2>1, BeginsIntake DEF ApproveSpecification
<1>5. CASE ReviewWorkItem(s)
  <2>1. PICK i \in Items : Begins(s, "review", {i}, NoTerms)
    BY <1>5 DEF ReviewWorkItem
  <2>2. "review" \in Operations /\ {i} \in RowsOf("review")
    BY DEF Operations, RowsOf
  <2> QED
    BY <2>1, <2>2, BeginsIntake
<1>6. CASE ReadyWorkItem(s)
  <2>1. PICK i \in Items, t \in Terms : Begins(s, "ready", {i}, t)
    BY <1>6 DEF ReadyWorkItem
  <2>2. "ready" \in Operations /\ {i} \in RowsOf("ready")
    BY DEF Operations, RowsOf
  <2> QED
    BY <2>1, <2>2, BeginsIntake
<1>7. CASE Rereads(s) \/ RereadsIntake(s)
  BY <1>7, RereadsIntakeInv
<1>8. CASE Commits(s)
  <2>1. stale' = 0 => stale = 0 /\ ~Late(s)
    BY <1>8 DEF Commits, IntakeInv, RowsInv
  <2>2. stale' = 0 => Story'
    BY <1>8, <2>1, CommitsStory DEF IntakeInv
  <2> QED
    BY <1>8, <2>2, CommitsOthers, CommitsCount DEF IntakeInv
<1>9. CASE Fails(s)
  <2>1. session' = [session EXCEPT ![s] = Idle] /\ UNCHANGED <<table, event, stale>>
    BY <1>9 DEF Fails
  <2> QED
    BY <2>1, OneSessionChanges
<1> QED
  BY <1>1, <1>2, <1>3, <1>4, <1>5, <1>6, <1>7, <1>8, <1>9

\* Delivery reads what the control plane writes, and deletes routes.
LEMMA DeliveryLeavesTables ==
    ASSUME DeliveryNext \/ UNCHANGED vars
    PROVE  UNCHANGED <<table, session, event, stale>>
BY DEF DeliveryNext, Publishing, Consuming, ReadsRoutes, Publishes, CommitsBatch,
       PublisherFails, Fetches, StartsEvent, AddsExecution, CommitsEvent, Acknowledges,
       WorkerCrashes, OffersAgain, AcceptsDirectly, controlVars, vars

\* IntakeInv holds in every reachable state.
LEMMA IntakeInvariance == Spec => []IntakeInv
<1>1. Inv /\ IntakeInv /\ [Next]_vars => IntakeInv'
  <2> SUFFICES ASSUME Inv, IntakeInv, [Next]_vars PROVE IntakeInv'
    OBVIOUS
  <2>1. CASE ControlNext
    BY <2>1, ControlIntake DEF Inv
  <2>2. CASE DeliveryNext \/ UNCHANGED vars
    <3>1. UNCHANGED <<table, session, event, stale>>
      BY <2>2, DeliveryLeavesTables
    <3>2. RowsInv' /\ ReadyInv'
      BY <3>1 DEF IntakeInv, RowsInv, ReadyInv
    <3> QED
      BY <3>1, <3>2, SameStory DEF IntakeInv
  <2> QED
    BY <2>1, <2>2 DEF Next
<1> QED
  BY InitIntake, <1>1, Invariance, PTL DEF Spec

\* Whatever the sessions have read and overwritten, an item is announced only when its
\* committed row says that somebody has reviewed it.
THEOREM AnnouncedAfterReviewHolds == Spec => AnnouncedAfterReview
<1>1. ASSUME Inv, IntakeInv, [Next]_vars, NEW e \in Events, event'[e] # event[e]
      PROVE  table[event'[e].item].status \in {"REVIEWED", "READY"}
  <2>1. ControlNext
    <3>1. ~(DeliveryNext \/ UNCHANGED vars)
      BY <1>1, DeliveryLeavesTables
    <3> QED
      BY <1>1, <3>1 DEF Next
  <2>2. SessionInv /\ EventInv /\ RowsInv /\ ReadyInv
    BY <1>1 DEF Inv, IntakeInv
  <2>3. PICK s \in Sessions : Commits(s)
    BY <1>1, <2>1 DEF ControlNext, DraftSpecification, SubmitSpecification,
                      ApproveSpecification, ReviewWorkItem, ReadyWorkItem, Begins, Rereads,
                      RereadsIntake, Fails
  <2>4. /\ session[s].op = "ready" /\ session[s] # Idle
        /\ \E i \in Items, f \in Events : /\ DOMAIN session[s].seen = {i}
                                          /\ Announces(f, i, session[s].terms)
    BY <1>1, <2>2, <2>3, CommitCases DEF Commits
  <2>5. PICK i \in Items, f \in Events : /\ DOMAIN session[s].seen = {i}
                                         /\ Announces(f, i, session[s].terms)
    BY <2>4
  <2>6. event' = [event EXCEPT ![f] = [item |-> i, terms |-> session[s].terms]]
    BY <2>5 DEF Announces
  <2>7. event'[e] = [item |-> i, terms |-> session[s].terms]
    BY <1>1, <2>2, <2>6 DEF EventInv
  <2>8. table[i].status \in {"REVIEWED", "READY"}
    BY <2>2, <2>4, <2>5 DEF ReadyInv
  <2>9. event'[e].item = i
    BY <2>7
  <2> QED
    BY <2>8, <2>9
<1>2. Inv /\ IntakeInv /\ [Next]_vars =>
        [\A e \in Events : event'[e] # event[e] =>
            table[event'[e].item].status \in {"REVIEWED", "READY"}]_controlVars
  BY <1>1
<1> QED
  BY <1>2, Invariance, IntakeInvariance, PTL DEF Spec, AnnouncedAfterReview

\* Work items and announcements too many are paid by sessions that committed over a change
\* they did not see, one each, and without such a session the tables tell one story.
THEOREM TablesAgreeHolds == Spec => []TablesAgree
<1>1. IntakeInv => TablesAgree
  BY DEF IntakeInv, CountInv, Approved, Story, Pairs, TablesAgree
<1> QED
  BY <1>1, IntakeInvariance, PTL

\* What an execution has was announced in an event that is consumed, or requested: an event
\* keeps its item and its terms.
LEMMA TermsInvariance == Spec => []TermsInv
<1>1. Init => TermsInv
  BY DEF Init, DeliveryInit, TermsInv
<1>2. ASSUME Inv, TermsInv, [Next]_vars PROVE TermsInv'
  <2>0. EventInv /\ SessionInv /\ WorkerInv /\ EffectInv
    BY <1>2 DEF Inv
  <2>1. Announced \subseteq Announced' /\ \A e \in Announced : event'[e] = event[e]
    <3>1. CASE UNCHANGED event
      BY <3>1 DEF Announced
    <3>2. CASE \E e \in Events, i \in Items, t \in Terms : Announces(e, i, t)
      BY <2>0, <3>2, Announcing
    <3>3. ControlNext \/ UNCHANGED event
      BY <1>2, DeliveryLeavesTables DEF Next
    <3> QED
      BY <2>0, <3>1, <3>2, <3>3, ControlProduces DEF Produces
  <2>2. inbox \subseteq Announced
    BY <2>0 DEF EffectInv
  <2>3. ASSUME UNCHANGED <<execution, direct>>, inbox \subseteq inbox' PROVE TermsInv'
    BY <1>2, <2>1, <2>2, <2>3 DEF TermsInv
  <2>4. ASSUME NEW w \in Workers, CommitsEvent(w) PROVE TermsInv'
    <3>1. worker[w].session # NoSession /\ UNCHANGED direct
      BY <2>4 DEF CommitsEvent, NoSession
    <3>2. \/ UNCHANGED execution /\ inbox \subseteq inbox'
          \/ /\ execution' = [execution EXCEPT ![event[Current(w)].item] = event[Current(w)].terms]
             /\ inbox' = inbox \cup {Current(w)}
      BY <2>4 DEF CommitsEvent
    <3>3. CASE /\ execution' =
                    [execution EXCEPT ![event[Current(w)].item] = event[Current(w)].terms]
               /\ inbox' = inbox \cup {Current(w)}
      <4>1. Current(w) \in Announced
        BY <2>0, <3>1, CurrentIsAnnounced
      <4>2. \A i \in Items : i # event[Current(w)].item => execution'[i] = execution[i]
        BY <2>0, <3>3 DEF EffectInv
      <4>3. execution'[event[Current(w)].item] = event[Current(w)].terms
        BY <2>0, <3>3, <4>1 DEF EffectInv, EventInv
      <4> QED
        BY <1>2, <2>1, <2>2, <3>1, <3>3, <4>1, <4>2, <4>3 DEF TermsInv
    <3> QED
      BY <2>3, <3>1, <3>2, <3>3
  <2>5. ASSUME NEW i \in Items, NEW t \in Terms, AcceptsDirectly(i, t) PROVE TermsInv'
    <3>1. /\ execution' = [execution EXCEPT ![i] = t]
          /\ direct' = direct \cup {i} /\ inbox' = inbox
      BY <2>5 DEF AcceptsDirectly
    <3>2. \A j \in Items \ {i} : execution'[j] = execution[j]
      BY <2>0, <3>1 DEF EffectInv
    <3> QED
      BY <1>2, <2>1, <2>2, <3>1, <3>2 DEF TermsInv
  <2>6. CASE UNCHANGED <<execution, direct, inbox>>
    BY <2>3, <2>6
  <2> QED
    BY <1>2, <2>4, <2>5, <2>6 DEF Next, vars, deliveryVars, DeliveryNext, Publishing, Consuming,
       ReadsRoutes, Publishes, CommitsBatch, PublisherFails, Fetches, StartsEvent,
       AddsExecution, Acknowledges, WorkerCrashes, OffersAgain, consumerVars
<1> QED
  BY <1>1, <1>2, Invariance, PTL DEF Spec

\* What delivery executes was requested directly, or announced with just these terms in an
\* event it has consumed; without a late session the control plane records the same.
THEOREM ExecutionHasTheRecordedTermsHolds == Spec => []ExecutionHasTheRecordedTerms
<1>1. Inv /\ IntakeInv /\ TermsInv => ExecutionHasTheRecordedTerms
  <2> SUFFICES ASSUME Inv, IntakeInv, TermsInv, NEW i \in Items \ direct,
                      execution[i] # NoTerms
               PROVE  /\ \E e \in inbox : event[e] = [item |-> i, terms |-> execution[i]]
                      /\ stale = 0 => table[i] = [status |-> "READY", terms |-> execution[i]]
    BY DEF ExecutionHasTheRecordedTerms
  <2>1. PICK e \in inbox : event[e].item = i /\ event[e].terms = execution[i]
    BY DEF TermsInv
  <2>2. e \in Announced /\ e \in Events
    BY DEF Inv, EffectInv, Announced
  <2>3. event[e] = [item |-> event[e].item, terms |-> event[e].terms]
    BY <2>2 DEF Inv, EventInv
  <2>4. event[e] = [item |-> i, terms |-> execution[i]]
    BY <2>1, <2>3
  <2>5. stale = 0 => table[i] = [status |-> "READY", terms |-> execution[i]]
    BY <2>1, <2>2 DEF IntakeInv, Story
  <2> QED
    BY <2>4, <2>5
<1> QED
  BY <1>1, Invariance, IntakeInvariance, TermsInvariance, PTL

-----------------------------------------------------------------------------
(* Type correctness *)

\* An event loop works on a message of its batch, and faults are counted.
BatchInv ==
    /\ \A w \in Workers :
         worker[w].message \in worker[w].fetched \/ worker[w].session = NoSession
    /\ faults \in 0..MaxFaults

\* A step of one event loop leaves it without a session, with the message it had, or with one
\* of its batch; it keeps its batch while it has a session.
LEMMA ConsumingKeepsBatch ==
    ASSUME Inv, BatchInv, NEW w \in Workers, Consuming(w) \/ WorkerCrashes(w)
    PROVE  BatchInv'
<1>1. worker \in [Workers -> [fetched : SUBSET (1..Len(stream)), message : 0..Len(stream),
                             session : SessionStates]]
  BY DEF Inv, WorkerInv
<1>2. /\ \A q \in Workers \ {w} : worker'[q] = worker[q]
      /\ worker'[w].message \in worker'[w].fetched \/ worker'[w].session = NoSession
  <2>1. CASE Fetches(w)
    <3>1. PICK batch : worker' = [worker EXCEPT ![w].fetched = batch] /\ worker[w] = Resting
      BY <2>1 DEF Fetches
    <3> QED
      BY <1>1, <3>1 DEF Resting
  <2>2. CASE StartsEvent(w)
    <3>1. PICK m \in worker[w].fetched :
            worker' = [worker EXCEPT ![w] =
                         IF Decision(stream[m]) = "raise" THEN Resting
                         ELSE [@ EXCEPT !.message = m, !.session = Decision(stream[m])]]
      BY <2>2 DEF StartsEvent
    <3> QED
      BY <1>1, <3>1 DEF Resting
  <2>3. CASE AddsExecution(w)
    <3>1. PICK next : worker' = [worker EXCEPT ![w].session = next] /\ worker[w].session = "accept"
      BY <2>3 DEF AddsExecution
    <3> QED
      BY <1>1, <3>1 DEF BatchInv, NoSession
  <2>4. CASE CommitsEvent(w)
    <3>1. worker[w].message \in worker[w].fetched
      BY <2>4 DEF CommitsEvent, BatchInv, NoSession
    <3>2. \/ worker' = [worker EXCEPT ![w] = Resting]
          \/ worker' = [worker EXCEPT ![w].session = "done"]
      BY <2>4 DEF CommitsEvent
    <3> QED
      BY <1>1, <3>1, <3>2 DEF Resting
  <2>5. CASE Acknowledges(w)
    <3>1. PICK left : worker' = [worker EXCEPT ![w] = [Resting EXCEPT !.fetched = left]]
      BY <2>5 DEF Acknowledges
    <3> QED
      BY <1>1, <3>1 DEF Resting
  <2>6. CASE WorkerCrashes(w)
    BY <1>1, <2>6 DEF WorkerCrashes, Resting
  <2> QED
    BY <2>1, <2>2, <2>3, <2>4, <2>5, <2>6 DEF Consuming
<1>3. faults' \in 0..MaxFaults
  <2>1. UNCHANGED faults \/ (faults < MaxFaults /\ faults' = faults + 1)
    BY DEF Consuming, Fetches, StartsEvent, AddsExecution, CommitsEvent, Acknowledges,
           WorkerCrashes
  <2> QED
    BY <2>1, EventDeliveryAssumption DEF BatchInv
<1> QED
  BY <1>2, <1>3 DEF BatchInv

\* BatchInv holds in every reachable state.
LEMMA BatchInvariance == Spec => []BatchInv
<1>1. Init => BatchInv
  BY EventDeliveryAssumption DEF Init, DeliveryInit, BatchInv, Resting
<1>2. ASSUME Inv, BatchInv, [Next]_vars PROVE BatchInv'
  <2>1. CASE UNCHANGED <<worker, faults>>
    BY <1>2, <2>1 DEF BatchInv
  <2>2. ASSUME NEW p \in Publishers, PublisherFails(p) PROVE BatchInv'
    <3>1. UNCHANGED worker /\ faults < MaxFaults /\ faults' = faults + 1
      BY <2>2 DEF PublisherFails, consumerVars
    <3> QED
      BY <1>2, <3>1, EventDeliveryAssumption DEF BatchInv
  <2>3. ASSUME NEW w \in Workers, Consuming(w) \/ WorkerCrashes(w) PROVE BatchInv'
    BY <1>2, <2>3, ConsumingKeepsBatch
  <2> QED
    BY <1>2, <2>1, <2>2, <2>3 DEF Next, vars, deliveryVars, DeliveryNext, Publishing,
       ReadsRoutes, Publishes, CommitsBatch, OffersAgain, AcceptsDirectly, consumerVars
<1> QED
  BY <1>1, <1>2, Invariance, PTL DEF Spec

\* Every variable of control plane, stream and delivery service keeps its type; in particular
\* an event loop never works on a message it has not fetched.
THEOREM TypeCorrect == Spec => []TypeOK
<1>1. ASSUME Inv, IntakeInv, TermsInv, BatchInv PROVE TypeOK
  <2>1. Announced \subseteq Events
    BY DEF Announced
  <2>2. /\ table \in [Rows -> Row] /\ stale \in Nat
        /\ \A s \in Sessions : session[s] # Idle => session[s].op \in DOMAIN Command
    BY <1>1 DEF IntakeInv, RowsInv, ReadsItsRows, Operations, Command
  <2>3. /\ event \in [Events -> [item : Items \cup {NoItem}, terms : Terms \cup {NoTerms}]]
        /\ routes \in SUBSET Events
        /\ publisher \in [Publishers -> [routes : SUBSET Events, sent : SUBSET Events]]
        /\ stream \in Seq(Events)
    BY <1>1, <2>1 DEF Inv, EventInv
  <2>4. /\ Len(stream) <= MaxMessages
        /\ delivery \in [1..MaxMessages -> {"available", "pending", "acknowledged"}]
    BY <1>1 DEF Inv, StreamInv
  <2>5. \A w \in Workers :
          /\ worker[w].fetched \in SUBSET (1..Len(stream))
          /\ worker[w].session \in {NoSession, "accept", "insert", "existing", "done"}
          /\ worker[w].message \in worker[w].fetched \/ worker[w].session = NoSession
    BY <1>1 DEF Inv, WorkerInv, SessionStates, BatchInv
  <2>6. /\ inbox \in SUBSET Events
        /\ execution \in [Items -> Terms \cup {NoTerms}]
        /\ starts \in [Items -> Nat]
        /\ applied \in [Events -> Nat]
    BY <1>1, <2>1 DEF Inv, EffectInv
  <2>7. direct \in SUBSET Items
    BY <1>1 DEF TermsInv
  <2> QED
    BY <1>1, <2>2, <2>3, <2>4, <2>5, <2>6, <2>7 DEF TypeOK, BatchInv
<1> QED
  BY <1>1, Invariance, IntakeInvariance, TermsInvariance, BatchInvariance, PTL
=============================================================================
