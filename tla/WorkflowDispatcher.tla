------------------------- MODULE WorkflowDispatcher -------------------------
(***************************************************************************)
(* The command outbox of the delivery service and its dispatchers          *)
(* (entrypoints/workflow_dispatcher.py), for several executions at once:   *)
(* START, APPROVE and CANCEL commands are rows of workflow_commands, and a *)
(* dispatcher hands them to Temporal in batches that commit as a whole.    *)
(* The rows of a batch are locked; other dispatchers skip them.  What a    *)
(* workflow does inside is module DeliveryExecution; here it is an         *)
(* outcome, and QUEUED stands for every status from QUEUED to DELIVERING.  *)
(*                                                                         *)
(* An error of Temporal, like a crash, ends the dispatcher's process and   *)
(* rolls its batch back; the process starts again and reads the commands   *)
(* that are not locked by then.  Commands commit in the order of their ids.*)
(* A definition named Bug... is a variant of the one it precedes with a    *)
(* mistake in it; no specification uses it.                                *)
(***************************************************************************)
EXTENDS Naturals, Sequences, FiniteSets, FiniteSetsExt

CONSTANTS Executions,
          Cancellable,  \* the executions somebody may cancel, once each
          Dispatchers,  \* the dispatcher processes
          BatchLimit,   \* limit(50)
          MaxFaults     \* how often dispatchers crash by themselves

ASSUME DispatcherAssumption ==
    /\ Cancellable \subseteq Executions
    /\ BatchLimit \in Nat \ {0}
    /\ MaxFaults \in Nat

VARIABLES
    status,     \* of each execution's row, "none" before its work item is accepted
    requested,  \* the executions with cancellation_requested
    commands,   \* the rows of workflow_commands, in the order of their ids
    dispatched, \* those of them with dispatched_at
    batch,      \* of each dispatcher: the rows it has read and locked, those of them it has
                \* handed over, and (history) the rows it skipped because another had locked them
    handed,     \* history: the rows Temporal has accepted
    workflow,   \* the latest run of each execution's workflow
    faults

outboxVars == <<commands, dispatched, batch, handed>>
vars == <<status, requested, outboxVars, workflow, faults>>

Command == [command : {"START", "APPROVE", "CANCEL"}, execution : Executions]

Terminal == {"DELIVERED", "CANCELLED"}
Open == {"waiting", "cancelling", "executing"}

TypeOK ==
    /\ status \in [Executions -> {"none", "AWAITING_APPROVAL", "QUEUED", "AWAITING_HUMAN",
                                  "DELIVERED", "CANCELLED"}]
    /\ requested \in SUBSET Cancellable
    /\ commands \in Seq(Command)
    /\ dispatched \in SUBSET (1..Len(commands))
    /\ batch \in [Dispatchers -> [rows : SUBSET (1..Len(commands)),
                                  sent : SUBSET (1..Len(commands)),
                                  skipped : SUBSET (1..Len(commands))]]
    /\ handed \in SUBSET (1..Len(commands))
    /\ workflow \in [Executions -> [state : Open \cup {"none", "closed"},
                                    approved : BOOLEAN, cancelled : BOOLEAN]]
    /\ faults \in 0..MaxFaults

Idle == [rows |-> {}, sent |-> {}, skipped |-> {}]

NewRun(state) == [state |-> state, approved |-> FALSE, cancelled |-> FALSE]

Init ==
    /\ status = [e \in Executions |-> "none"]
    /\ requested = {}
    /\ commands = <<>>
    /\ dispatched = {}
    /\ batch = [d \in Dispatchers |-> Idle]
    /\ handed = {}
    /\ workflow = [e \in Executions |-> NewRun("none")]
    /\ faults = 0

-----------------------------------------------------------------------------
(* The handlers: the row and its command commit together *)

Issue(name, e) ==
    /\ commands' = Append(commands, [command |-> name, execution |-> e])
    /\ UNCHANGED <<dispatched, batch, handed, workflow, faults>>

AcceptReadyWorkItem(e) ==
    /\ status[e] = "none"
    /\ status' = [status EXCEPT ![e] = "AWAITING_APPROVAL"]
    /\ Issue("START", e)
    /\ UNCHANGED requested

ApproveExecution(e) ==
    /\ status[e] = "AWAITING_APPROVAL"
    /\ status' = [status EXCEPT ![e] = "QUEUED"]
    /\ Issue("APPROVE", e)
    /\ UNCHANGED requested

CancelExecution(e) ==
    /\ e \in Cancellable \ requested
    /\ status[e] \notin Terminal \cup {"none"}
    /\ requested' = requested \cup {e}
    /\ Issue("CANCEL", e)
    /\ UNCHANGED status

-----------------------------------------------------------------------------
(* The dispatchers *)

Pending == (1..Len(commands)) \ dispatched
Locked == UNION {batch[d].rows : d \in Dispatchers}
Free == Pending \ Locked

\* The first commands that no other dispatcher has locked.
ReadBatch(d) ==
    /\ batch[d] = Idle
    /\ Free # {}
    /\ \E rows \in SUBSET Free :
         /\ Cardinality(rows) = Min({BatchLimit, Cardinality(Free)})
         /\ \A i \in rows, j \in Free \ rows : i < j
         /\ batch' = [batch EXCEPT ![d] = [rows |-> rows, sent |-> {},
                                           skipped |-> Pending \cap Locked]]
    /\ UNCHANGED <<status, requested, commands, dispatched, handed, workflow, faults>>

Unsent(d) == batch[d].rows \ batch[d].sent

\* The batch is handed over in any order.
BugIsNext(d, i) == i \in Unsent(d)

\* The row that d hands over next.
IsNext(d, i) == i \in Unsent(d) /\ \A j \in Unsent(d) : i <= j

\* START of a workflow that is open is suppressed (WorkflowAlreadyStarted); if
\* it is closed, Temporal starts another run.  Only an open run takes signals.
Accepts(c) == c.command = "START" \/ workflow[c.execution].state \in Open

Effect(c) ==
    LET run == workflow[c.execution]
    IN  CASE c.command = "APPROVE" -> [run EXCEPT !.approved = TRUE]
          [] c.command = "CANCEL"  -> [run EXCEPT !.cancelled = TRUE]
          [] c.command = "START"   -> IF run.state \in Open THEN run ELSE NewRun("waiting")

SendCommand(d) ==
    \E i \in Unsent(d) :
        /\ IsNext(d, i)
        /\ Accepts(commands[i])
        /\ workflow' = [workflow EXCEPT ![commands[i].execution] = Effect(commands[i])]
        /\ handed' = handed \cup {i}
        /\ batch' = [batch EXCEPT ![d].sent = @ \cup {i}]
        /\ UNCHANGED <<status, requested, commands, dispatched, faults>>

\* A batch that fails is recorded as dispatched.
BugSkipBatch(d) ==
    /\ \E i \in Unsent(d) : IsNext(d, i) /\ ~Accepts(commands[i])
    /\ batch' = [batch EXCEPT ![d] = Idle]
    /\ dispatched' = dispatched \cup batch[d].rows
    /\ UNCHANGED <<status, requested, commands, handed, workflow, faults>>

\* The signal fails, nothing catches it: the whole batch is rolled back.
SendFails(d) ==
    /\ \E i \in Unsent(d) : IsNext(d, i) /\ ~Accepts(commands[i])
    /\ batch' = [batch EXCEPT ![d] = Idle]
    /\ UNCHANGED <<status, requested, commands, dispatched, handed, workflow, faults>>

\* The batch ends without dispatched_at.
BugCommitBatch(d) ==
    /\ batch[d] # Idle
    /\ Unsent(d) = {}
    /\ batch' = [batch EXCEPT ![d] = Idle]
    /\ UNCHANGED <<status, requested, commands, dispatched, handed, workflow, faults>>

CommitBatch(d) ==
    /\ batch[d] # Idle
    /\ Unsent(d) = {}
    /\ dispatched' = dispatched \cup batch[d].rows
    /\ batch' = [batch EXCEPT ![d] = Idle]
    /\ UNCHANGED <<status, requested, commands, handed, workflow, faults>>

DispatcherCrashes(d) ==
    /\ batch[d] # Idle
    /\ faults < MaxFaults
    /\ faults' = faults + 1
    /\ batch' = [batch EXCEPT ![d] = Idle]
    /\ UNCHANGED <<status, requested, commands, dispatched, handed, workflow>>

-----------------------------------------------------------------------------
(* The workflows *)

WorkflowWakes(e) ==
    /\ workflow[e].state = "waiting"
    /\ workflow[e].approved \/ workflow[e].cancelled
    /\ workflow' = [workflow EXCEPT ![e].state =
                      IF workflow[e].cancelled THEN "cancelling" ELSE "executing"]
    /\ UNCHANGED <<status, requested, outboxVars, faults>>

\* cancel() asks for cancellation_requested and for nothing else.
CancelRuns(e) ==
    /\ workflow[e].state = "cancelling"
    /\ workflow' = [workflow EXCEPT ![e].state = "closed"]
    /\ status' = [status EXCEPT ![e] = IF e \in requested THEN "CANCELLED" ELSE @]
    /\ UNCHANGED <<requested, outboxVars, faults>>

\* The run ends settled, or fails in each attempt of its activity: over its budget, with a
\* pull request that was refused, or because the execution has left what QUEUED stands for.
DeliveryRuns(e) ==
    /\ workflow[e].state = "executing"
    /\ workflow' = [workflow EXCEPT ![e].state = "closed"]
    /\ \E outcome \in {"QUEUED", "DELIVERED", "AWAITING_HUMAN"} :
          status' = [status EXCEPT ![e] = IF @ = "QUEUED" THEN outcome ELSE @]
    /\ UNCHANGED <<requested, outboxVars, faults>>

-----------------------------------------------------------------------------
Handler(e) == AcceptReadyWorkItem(e) \/ ApproveExecution(e) \/ CancelExecution(e)

Dispatcher(d) == ReadBatch(d) \/ SendCommand(d) \/ SendFails(d) \/ CommitBatch(d)

Workflow(e) == WorkflowWakes(e) \/ CancelRuns(e) \/ DeliveryRuns(e)

Next ==
    \/ \E e \in Executions : Handler(e) \/ Workflow(e)
    \/ \E d \in Dispatchers : Dispatcher(d) \/ DispatcherCrashes(d)

Spec == Init /\ [][Next]_vars

\* A dispatcher is started again whenever it has died, and Temporal runs the
\* workflows; nobody has to approve or cancel anything.
FairSpec ==
    /\ Spec
    /\ \A d \in Dispatchers : WF_vars(Dispatcher(d))
    /\ \A e \in Executions : WF_vars(Workflow(e))

-----------------------------------------------------------------------------
(* Properties *)

Issued(e) ==
    (IF status[e] = "none" THEN {} ELSE {[command |-> "START", execution |-> e]})
    \cup (IF status[e] \in {"none", "AWAITING_APPROVAL"} \/ e \in requested THEN {}
          ELSE {[command |-> "APPROVE", execution |-> e]})
    \cup (IF e \in requested THEN {[command |-> "CANCEL", execution |-> e]} ELSE {})

\* However batches fail and are repeated, a command that was committed with its
\* row is still to be dispatched or has been accepted by Temporal.
NoCommandIsLost ==
    \A e \in Executions : \A c \in Issued(e) :
        \E i \in 1..Len(commands) : commands[i] = c /\ (i \in dispatched => i \in handed)

\* A dispatcher sends a signal to a workflow that has yet to be started only if
\* another one held the START when it read its batch, so that it had to skip it;
\* with a single dispatcher never.
StartedBeforeSignalled ==
    \A d \in Dispatchers : \A i \in Unsent(d) :
        IsNext(d, i) /\ commands[i].command # "START" =>
            \/ workflow[commands[i].execution].state # "none"
            \/ \E j \in batch[d].skipped :
                  commands[j] = [command |-> "START", execution |-> commands[i].execution]

\* As long as nothing is cancelled, no dispatcher crashes and none skips a row that
\* another has locked, the workflow of every approved execution works on it and ends.
\* (A crash after an APPROVE was handed over, and a workflow that closes before it is
\* handed over again, leave the stuck outbox of the next property; and so does a
\* second dispatcher's signal that comes before its START.)
ApprovedIsWorkedOn ==
    [](requested = {} /\ faults = 0 /\ \A d \in Dispatchers : batch[d].skipped = {}) =>
        \A e \in Executions : (status[e] = "QUEUED") ~> (workflow[e].state = "closed")

\* README.md:139-140: a work item that was accepted gets its workflow.  A
\* command that Temporal refuses for ever keeps every later one in the outbox.
AcceptedIsStarted ==
    \A e \in Executions :
        (status[e] = "AWAITING_APPROVAL") ~> (workflow[e].state # "none")
=============================================================================
