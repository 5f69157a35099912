--------------------------- MODULE WorkItemIntake ---------------------------
(***************************************************************************)
(* One intake on its way through the control plane                         *)
(* (application/service.py): intake and specification are drafted,         *)
(* submitted and approved; an approval creates a work item, which is       *)
(* reviewed and made ready; READY writes a work_item.ready event into the  *)
(* outbox in the same transaction.                                         *)
(*                                                                         *)
(* Every request is a session of its own.  It reads rows into domain       *)
(* objects, runs a command on the objects, reads the rows again when it    *)
(* updates them, and writes the columns in which object and second reading *)
(* differ; no row is locked before it is written and no version compared.  *)
(* A request whose command is refused changes nothing and is left out, and *)
(* so are requests of people whose role does not allow them.               *)
(* A definition named Bug... is a variant of the one it precedes with a    *)
(* mistake in it; no specification uses it.                                *)
(***************************************************************************)
EXTENDS Naturals, FiniteSets

CONSTANTS Sessions, \* requests that are open at the same time
          Items,    \* the work items that may come into being
          Events,   \* the events that may come into being
          Terms,    \* provider configuration, repository, runner pool and budget of an item
          NoTerms, NoItem, Nobody

ASSUME IntakeAssumption ==
    /\ NoTerms \notin Terms
    /\ NoItem \notin Items
    /\ Nobody \notin {"draft", "submit", "approve", "review", "ready"}
    /\ {"intake", "specification"} \cap (Items \cup {NoItem}) = {}

VARIABLES
    table,   \* the committed rows of the intake, its specification and its work items
    session, \* what each open session has read
    event,   \* the rows of event_outbox
    routes,  \* the rows of event_outbox_routing: what is still to be published
    stale    \* history: how many sessions have committed although a row changed under them

controlVars == <<table, session, event, routes, stale>>

Rows == {"intake", "specification"} \cup Items

IntakeStatus ==
    {"RECEIVED", "SPECIFICATION_DRAFTED", "AWAITING_APPROVAL", "SPECIFICATION_APPROVED"}
SpecificationStatus == {"none", "DRAFT", "AWAITING_APPROVAL", "APPROVED"}
WorkItemStatus == {"none", "IN_REVIEW", "REVIEWED", "READY"}

Row == [status : IntakeStatus \cup SpecificationStatus \cup WorkItemStatus,
        terms : Terms \cup {NoTerms}]

Absent == [status |-> "none", terms |-> NoTerms]
Unannounced == [item |-> NoItem, terms |-> NoTerms]

-----------------------------------------------------------------------------
\* The domain's commands: the status a row must have and the status it gets.

Command ==
    [draft |->
        [intake |-> [from |-> "RECEIVED", to |-> "SPECIFICATION_DRAFTED"]],
     submit |->
        [intake |-> [from |-> "SPECIFICATION_DRAFTED", to |-> "AWAITING_APPROVAL"],
         specification |-> [from |-> "DRAFT", to |-> "AWAITING_APPROVAL"]],
     approve |->
        [intake |-> [from |-> "AWAITING_APPROVAL", to |-> "SPECIFICATION_APPROVED"],
         specification |-> [from |-> "AWAITING_APPROVAL", to |-> "APPROVED"]],
     review |->
        [item |-> [from |-> "IN_REVIEW", to |-> "REVIEWED"]],
     ready |->
        [item |-> [from |-> "REVIEWED", to |-> "READY"]]]

Kind(row) == IF row \in Items THEN "item" ELSE row

\* mark_ready without its guard: a work item nobody has reviewed becomes ready.
BugAllowed(op, seen) ==
    op = "ready" \/ \A row \in DOMAIN seen : seen[row].status = Command[op][Kind(row)].from

\* May the command op run on what a session has read?
Allowed(op, seen) ==
    \A row \in DOMAIN seen : seen[row].status = Command[op][Kind(row)].from

\* mark_ready that changes the status and forgets the terms.
BugChanged(s, row) == [status |-> Command[s.op][Kind(row)].to, terms |-> s.seen[row].terms]

\* The domain object after the command; mark_ready also sets the terms.
Changed(s, row) ==
    [status |-> Command[s.op][Kind(row)].to,
     terms |-> IF s.op = "ready" THEN s.terms ELSE s.seen[row].terms]

-----------------------------------------------------------------------------
\* Sessions.

Idle == [op |-> Nobody]

\* The columns of a row that the flush of session s writes over the committed row.
Flushed(s, row) ==
    LET new == Changed(s, row)
        column(c) == IF new[c] = s.again[row][c] THEN table[row][c] ELSE new[c]
    IN  [status |-> column("status"), terms |-> column("terms")]

ControlInit ==
    /\ table = [row \in Rows |->
                  IF row = "intake" THEN [status |-> "RECEIVED", terms |-> NoTerms] ELSE Absent]
    /\ session = [s \in Sessions |-> Idle]
    /\ event = [e \in Events |-> Unannounced]
    /\ routes = {}
    /\ stale = 0

\* A request reads its rows and runs its command on the copies.
Begins(s, op, rows, terms) ==
    LET seen == [row \in rows |-> table[row]] IN
    /\ session[s] = Idle
    /\ Allowed(op, seen)
    /\ session' = [session EXCEPT ![s] = [op |-> op, terms |-> terms, seen |-> seen,
                                          again |-> seen, step |-> "read"]]
    /\ UNCHANGED <<table, event, routes, stale>>

DraftSpecification(s) == Begins(s, "draft", {"intake"}, NoTerms)
SubmitSpecification(s) == Begins(s, "submit", {"intake", "specification"}, NoTerms)
ApproveSpecification(s) == Begins(s, "approve", {"intake", "specification"}, NoTerms)
ReviewWorkItem(s) == \E i \in Items : Begins(s, "review", {i}, NoTerms)
ReadyWorkItem(s) == \E i \in Items, t \in Terms : Begins(s, "ready", {i}, t)

\* update_... reads its row again; a session with two rows starts with the specification.
Rereads(s) ==
    /\ session[s] # Idle
    /\ session[s].step = "read"
    /\ LET row == IF "specification" \in DOMAIN session[s].seen
                  THEN "specification"
                  ELSE CHOOSE r \in DOMAIN session[s].seen : TRUE
       IN  session' = [session EXCEPT ![s].again[row] = table[row], ![s].step = "reread"]
    /\ UNCHANGED <<table, event, routes, stale>>

\* Has session s written the specification's row without having committed yet?
HoldsSpecification(s) ==
    /\ session[s] # Idle
    /\ session[s].step = "flushed"
    /\ Changed(session[s], "specification") # session[s].again["specification"]

\* Reading the intake again flushes the specification first, which locks its row.
RereadsIntake(s) ==
    /\ session[s] # Idle
    /\ session[s].step = "reread"
    /\ "specification" \in DOMAIN session[s].seen
    /\ \A other \in Sessions : ~HoldsSpecification(other)
    /\ session' = [session EXCEPT ![s].again["intake"] = table["intake"], ![s].step = "flushed"]
    /\ UNCHANGED <<table, event, routes, stale>>

\* An update of the work item that writes the status alone.
BugUpdated(s) ==
    [row \in Rows |->
        IF row \in DOMAIN session[s].seen
        THEN [Flushed(session[s], row) EXCEPT !.terms = table[row].terms] ELSE table[row]]

\* The rows that the flush of s updates.
Updated(s) ==
    [row \in Rows |->
        IF row \in DOMAIN session[s].seen THEN Flushed(session[s], row) ELSE table[row]]

\* add_outbox: the event and its route are inserted together.
Announces(e, item, terms) ==
    /\ event[e] = Unannounced
    /\ event' = [event EXCEPT ![e] = [item |-> item, terms |-> terms]]
    /\ routes' = routes \cup {e}

\* The rows and the event that the transaction of s inserts: a specification (its intake_id is
\* unique), a work item, or an event with its route.
Inserts(s) ==
    LET me == session[s] IN
    CASE me.op = "draft" ->
           /\ table["specification"] = Absent
           /\ table' = [Updated(s) EXCEPT !["specification"].status = "DRAFT"]
           /\ UNCHANGED <<event, routes>>
      [] me.op = "approve" ->
           /\ \E i \in Items : /\ table[i] = Absent
                               /\ table' = [Updated(s) EXCEPT ![i].status = "IN_REVIEW"]
           /\ UNCHANGED <<event, routes>>
      [] me.op = "ready" ->
           /\ \E e \in Events, i \in DOMAIN me.seen : Announces(e, i, me.terms)
           /\ table' = Updated(s)
      [] OTHER ->
           /\ table' = Updated(s)
           /\ UNCHANGED <<event, routes>>

\* Did a row of s change after s had read it?
Late(s) ==
    \E row \in DOMAIN session[s].seen :
        session[s].seen[row] # session[s].again[row] \/ session[s].seen[row] # table[row]

\* The transaction commits.
Commits(s) ==
    /\ session[s] # Idle
    /\ session[s].step = IF "specification" \in DOMAIN session[s].seen THEN "flushed" ELSE "reread"
    /\ Inserts(s)
    /\ stale' = IF Late(s) THEN stale + 1 ELSE stale
    /\ session' = [session EXCEPT ![s] = Idle]

\* The transaction is rolled back: a constraint is violated, the client is gone, the process ends.
Fails(s) ==
    /\ session[s] # Idle
    /\ session' = [session EXCEPT ![s] = Idle]
    /\ UNCHANGED <<table, event, routes, stale>>

ControlNext ==
    \E s \in Sessions :
        \/ DraftSpecification(s) \/ SubmitSpecification(s) \/ ApproveSpecification(s)
        \/ ReviewWorkItem(s) \/ ReadyWorkItem(s)
        \/ Rereads(s) \/ RereadsIntake(s) \/ Commits(s) \/ Fails(s)

-----------------------------------------------------------------------------
\* Properties.

Created == {i \in Items : table[i] # Absent}
Announced == {e \in Events : event[e] # Unannounced}
Ready == {i \in Items : table[i].status = "READY"}

\* An item is announced only when its committed row says that somebody has reviewed it,
\* whatever the sessions on it have read and overwritten (service.py:320-407).
AnnouncedAfterReview ==
    [][\A e \in Events :
          event'[e] # event[e] =>
              table[event'[e].item].status \in {"REVIEWED", "READY"}]_controlVars

\* Each work item beyond the one that an approved specification has, and each
\* announcement beyond the one that a ready item has, is the doing of a session
\* that committed although a row it had read has changed: n such sessions make n
\* at most.  A ready item was announced.  And as long as there is no such session
\* the tables tell one story: intake and specification go together, an approved
\* specification has its item, and what was announced is ready and has the terms
\* that it was announced with.
TablesAgree ==
    /\ Cardinality(Created) <= stale + (IF table["specification"].status = "APPROVED" THEN 1 ELSE 0)
    /\ Cardinality(Announced) <= stale + Cardinality(Ready)
    /\ \A i \in Ready : \E e \in Announced : event[e].item = i
    /\ stale = 0 =>
         /\ <<table["intake"].status, table["specification"].status>> \in
              {<<"RECEIVED", "none">>, <<"SPECIFICATION_DRAFTED", "DRAFT">>,
               <<"AWAITING_APPROVAL", "AWAITING_APPROVAL">>,
               <<"SPECIFICATION_APPROVED", "APPROVED">>}
         /\ table["specification"].status = "APPROVED" => Created # {}
         /\ \A e \in Announced :
               table[event[e].item] = [status |-> "READY", terms |-> event[e].terms]
=============================================================================
