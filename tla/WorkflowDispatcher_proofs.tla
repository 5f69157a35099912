---------------------- MODULE WorkflowDispatcher_proofs ----------------------
(***************************************************************************)
(* Theorems about WorkflowDispatcher for any number of executions and      *)
(* dispatchers, batches of any size and any number of crashes: no          *)
(* committed command is lost, and a signal overtakes its START only where  *)
(* one dispatcher skips the rows that another has locked.                  *)
(***************************************************************************)
EXTENDS WorkflowDispatcher, SequenceTheorems, TLAPS

-----------------------------------------------------------------------------
(* The invariant *)

\* What a dispatcher has handed over has been accepted by Temporal, and so has
\* every row with dispatched_at.
SentIsHanded ==
    /\ \A d \in Dispatchers : batch[d].sent \subseteq handed
    /\ dispatched \subseteq handed

\* Temporal accepts nothing for an execution without a workflow, but its START.
HandedIsStarted == \A i \in handed : workflow[commands[i].execution].state # "none"

\* Only an execution that exists can be cancelled.
RequestedExists == \A e \in requested : status[e] # "none"

Start(e) == [command |-> "START", execution |-> e]

\* What was committed with its row is in the table.
IssuedIsThere == \A e \in Executions : \A c \in Issued(e) : \E i \in 1..Len(commands) : commands[i] = c

\* The START of an execution lies before its other commands.
Introduced(i) == \E j \in 1..i : commands[j] = Start(commands[i].execution)
Ordered == \A i \in 1..Len(commands) : Introduced(i)

\* A dispatcher that has read a command has read the START before it as well, or had to
\* skip it, or found it dispatched.
Followed(d, i) ==
    \E j \in 1..i : /\ commands[j] = Start(commands[i].execution)
                    /\ j \in batch[d].rows \cup batch[d].skipped \cup handed
ReadInOrder == \A d \in Dispatchers : \A i \in batch[d].rows : Followed(d, i)

DispatcherInv ==
    /\ TypeOK
    /\ RequestedExists
    /\ SentIsHanded
    /\ HandedIsStarted
    /\ IssuedIsThere
    /\ Ordered
    /\ ReadInOrder

Runs == [state : Open \cup {"none", "closed"}, approved : BOOLEAN, cancelled : BOOLEAN]
Rows == 1..Len(commands)
Batch == [rows : SUBSET Rows, sent : SUBSET Rows, skipped : SUBSET Rows]

\* The types, with names for them.
LEMMA Types ==
    ASSUME TypeOK
    PROVE  /\ commands \in Seq(Command) /\ Len(commands) \in Nat
           /\ \A i \in Rows : /\ commands[i] \in Command
                              /\ commands[i].command \in {"START", "APPROVE", "CANCEL"}
                              /\ commands[i].execution \in Executions
           /\ dispatched \subseteq Rows /\ handed \subseteq Rows
           /\ batch \in [Dispatchers -> Batch] /\ workflow \in [Executions -> Runs]
           /\ \A d \in Dispatchers : /\ batch[d].rows \subseteq Rows
                                     /\ batch[d].sent \subseteq Rows
                                     /\ batch[d].skipped \subseteq Rows
<1>1. commands \in Seq(Command) /\ Len(commands) \in Nat
  BY DEF TypeOK
<1>2. \A i \in Rows : commands[i] \in Command
  BY <1>1 DEF Rows
<1>3. batch \in [Dispatchers -> Batch]
  BY DEF TypeOK, Batch, Rows
<1>4. \A i \in Rows : /\ commands[i].command \in {"START", "APPROVE", "CANCEL"}
                      /\ commands[i].execution \in Executions
  BY <1>2 DEF Command
<1>5. \A d \in Dispatchers : /\ batch[d].rows \subseteq Rows
                             /\ batch[d].sent \subseteq Rows
                             /\ batch[d].skipped \subseteq Rows
  BY <1>3 DEF Batch
<1> QED
  BY <1>1, <1>2, <1>3, <1>4, <1>5 DEF TypeOK, Runs, Rows

-----------------------------------------------------------------------------
(* The handlers *)

\* A handler adds the command c for e, which owes nothing else, and after its START.
Adds(e, c) ==
    /\ c \in Command /\ c.execution = e
    /\ commands' = Append(commands, c)
    /\ UNCHANGED <<dispatched, batch, handed, workflow, faults>>
    /\ Issued(e)' \subseteq Issued(e) \cup {c}
    /\ \A d \in Executions \ {e} : Issued(d)' = Issued(d)
    /\ c = Start(e) \/ Start(e) \in Issued(e)

\* The new command is the last, the others stay where they are.
LEMMA AddKeepsInv ==
    ASSUME DispatcherInv, NEW e \in Executions, NEW c, Adds(e, c),
           status' \in [Executions -> {"none", "AWAITING_APPROVAL", "QUEUED", "AWAITING_HUMAN",
                                       "DELIVERED", "CANCELLED"}],
           requested' \in SUBSET Cancellable, RequestedExists'
    PROVE  DispatcherInv'
<1> DEFINE n == Len(commands)
<1>1. /\ TypeOK /\ commands \in Seq(Command) /\ n \in Nat
      /\ \A i \in 1..n : commands[i].execution \in Executions
      /\ \A d \in Dispatchers : batch[d].rows \subseteq 1..n
      /\ handed \subseteq 1..n
  BY Types DEF DispatcherInv, Rows
<1>2. /\ commands' \in Seq(Command)
      /\ Len(commands') = n + 1
      /\ \A i \in 1..n : commands'[i] = commands[i]
      /\ commands'[n + 1] = c
  BY <1>1, AppendProperties DEF Adds
<1>3. TypeOK'
  <2>1. 1..n \subseteq 1..Len(commands')
    BY <1>1, <1>2
  <2>2. batch' \in [Dispatchers -> [rows : SUBSET (1..Len(commands')),
                                    sent : SUBSET (1..Len(commands')),
                                    skipped : SUBSET (1..Len(commands'))]]
    <3>1. batch \in [Dispatchers -> [rows : SUBSET (1..n), sent : SUBSET (1..n),
                                     skipped : SUBSET (1..n)]]
      BY <1>1 DEF TypeOK
    <3>2. SUBSET (1..n) \subseteq SUBSET (1..Len(commands'))
      BY <2>1
    <3> QED
      BY <3>1, <3>2 DEF Adds
  <2>3. dispatched' \in SUBSET (1..Len(commands')) /\ handed' \in SUBSET (1..Len(commands'))
    BY <1>1, <2>1 DEF Adds, TypeOK
  <2>4. workflow' = workflow /\ faults' = faults
    BY DEF Adds
  <2> QED
    BY <1>1, <1>2, <2>2, <2>3, <2>4 DEF TypeOK
<1>4. SentIsHanded' /\ HandedIsStarted'
  BY <1>1, <1>2 DEF DispatcherInv, SentIsHanded, HandedIsStarted, Adds
<1>5. IssuedIsThere'
  <2> SUFFICES ASSUME NEW d \in Executions, NEW x \in Issued(d)'
               PROVE  \E i \in 1..Len(commands') : commands'[i] = x
    BY DEF IssuedIsThere
  <2>1. x \in Issued(d) \/ x = c
    BY DEF Adds
  <2>2. CASE x \in Issued(d)
    <3>1. PICK i \in 1..n : commands[i] = x
      BY <2>2 DEF DispatcherInv, IssuedIsThere
    <3> QED
      BY <1>1, <1>2, <3>1
  <2>3. CASE x = c
    BY <1>1, <1>2, <2>3
  <2> QED
    BY <2>1, <2>2, <2>3
<1>6. Ordered'
  <2> SUFFICES ASSUME NEW i \in 1..Len(commands')
               PROVE  \E j \in 1..i : commands'[j] = Start(commands'[i].execution)
    BY DEF Ordered, Introduced, Start
  <2>1. CASE i \in 1..n
    <3>1. PICK j \in 1..i : commands[j] = Start(commands[i].execution)
      BY <2>1 DEF DispatcherInv, Ordered, Introduced
    <3> QED
      BY <1>1, <1>2, <2>1, <3>1
  <2>2. CASE i = n + 1 /\ c = Start(e)
    BY <1>1, <1>2, <2>2 DEF Adds
  <2>3. CASE i = n + 1 /\ Start(e) \in Issued(e)
    <3>1. PICK j \in 1..n : commands[j] = Start(e)
      BY <2>3 DEF DispatcherInv, IssuedIsThere
    <3> QED
      BY <1>1, <1>2, <2>3, <3>1 DEF Adds
  <2> QED
    BY <1>1, <1>2, <2>1, <2>2, <2>3 DEF Adds
<1>7. ReadInOrder'
  <2> SUFFICES ASSUME NEW d \in Dispatchers, NEW i \in batch[d].rows
               PROVE  \E j \in 1..i : /\ commands'[j] = Start(commands'[i].execution)
                                      /\ j \in batch[d].rows \cup batch[d].skipped \cup handed
    BY DEF ReadInOrder, Followed, Start, Adds
  <2>1. PICK j \in 1..i : /\ commands[j] = Start(commands[i].execution)
                          /\ j \in batch[d].rows \cup batch[d].skipped \cup handed
    BY DEF DispatcherInv, ReadInOrder, Followed
  <2> QED
    BY <1>1, <1>2, <2>1
<1> QED
  BY <1>3, <1>4, <1>5, <1>6, <1>7 DEF DispatcherInv

\* A handler leaves the dispatchers alone and adds the command it owes.
LEMMA HandlerKeepsInv ==
    ASSUME DispatcherInv, NEW e \in Executions, Handler(e)
    PROVE  DispatcherInv'
<1> DEFINE Statuses == {"none", "AWAITING_APPROVAL", "QUEUED", "AWAITING_HUMAN",
                        "DELIVERED", "CANCELLED"}
<1>1. /\ TypeOK /\ RequestedExists
      /\ status \in [Executions -> Statuses] /\ requested \in SUBSET Cancellable
      /\ \A d \in requested : d \in Executions
  BY DispatcherAssumption DEF DispatcherInv, TypeOK
<1>2. CASE AcceptReadyWorkItem(e)
  <2> DEFINE c == [command |-> "START", execution |-> e]
  <2>1. /\ status[e] = "none" /\ status' = [status EXCEPT ![e] = "AWAITING_APPROVAL"]
        /\ requested' = requested /\ e \notin requested
    BY <1>1, <1>2 DEF AcceptReadyWorkItem, RequestedExists
  <2>2. \A d \in Executions : status'[d] = IF d = e THEN "AWAITING_APPROVAL" ELSE status[d]
    BY <1>1, <2>1
  <2>3. Adds(e, c)
    <3>1. Issued(e)' = {c} /\ \A d \in Executions \ {e} : Issued(d)' = Issued(d)
      BY <2>1, <2>2 DEF Issued
    <3> QED
      BY <1>2, <3>1 DEF AcceptReadyWorkItem, Issue, Adds, Start, Command
  <2>4. status' \in [Executions -> Statuses] /\ RequestedExists'
    BY <1>1, <2>1, <2>2 DEF RequestedExists
  <2> QED
    BY <1>1, <2>1, <2>3, <2>4, AddKeepsInv
<1>3. CASE ApproveExecution(e)
  <2> DEFINE c == [command |-> "APPROVE", execution |-> e]
  <2>1. /\ status[e] = "AWAITING_APPROVAL" /\ status' = [status EXCEPT ![e] = "QUEUED"]
        /\ requested' = requested
    BY <1>3 DEF ApproveExecution
  <2>2. \A d \in Executions : status'[d] = IF d = e THEN "QUEUED" ELSE status[d]
    BY <1>1, <2>1
  <2>3. Adds(e, c)
    <3>1. Issued(e)' \subseteq Issued(e) \cup {c} /\ Start(e) \in Issued(e)
      BY <2>1, <2>2 DEF Issued, Start
    <3>2. \A d \in Executions \ {e} : Issued(d)' = Issued(d)
      BY <2>1, <2>2 DEF Issued
    <3> QED
      BY <1>3, <3>1, <3>2 DEF ApproveExecution, Issue, Adds, Command
  <2>4. status' \in [Executions -> Statuses] /\ RequestedExists'
    BY <1>1, <2>1, <2>2 DEF RequestedExists
  <2> QED
    BY <1>1, <2>1, <2>3, <2>4, AddKeepsInv
<1>4. CASE CancelExecution(e)
  <2> DEFINE c == [command |-> "CANCEL", execution |-> e]
  <2>1. /\ status[e] # "none" /\ status' = status
        /\ requested' = requested \cup {e} /\ e \in Cancellable
    BY <1>4 DEF CancelExecution
  <2>2. Adds(e, c)
    <3>1. Issued(e)' \subseteq Issued(e) \cup {c} /\ Start(e) \in Issued(e)
      BY <2>1 DEF Issued, Start
    <3>2. \A d \in Executions \ {e} : Issued(d)' = Issued(d)
      BY <2>1 DEF Issued
    <3> QED
      BY <1>4, <3>1, <3>2 DEF CancelExecution, Issue, Adds, Command
  <2>3. RequestedExists' /\ requested' \in SUBSET Cancellable
    BY <1>1, <2>1 DEF RequestedExists
  <2> QED
    BY <1>1, <2>1, <2>2, <2>3, AddKeepsInv
<1> QED
  BY <1>2, <1>3, <1>4 DEF Handler

-----------------------------------------------------------------------------
(* The dispatchers and the workflows *)

\* Outside the handlers no command is added, and what was handed over and every
\* workflow that was started stay so.
LEMMA TableStays ==
    ASSUME DispatcherInv, TypeOK', RequestedExists', SentIsHanded', ReadInOrder',
           commands' = commands,
           \A e \in Executions : Issued(e)' = Issued(e),
           \A i \in handed' : workflow'[commands[i].execution].state # "none"
    PROVE  DispatcherInv'
<1>1. IssuedIsThere'
  BY DEF DispatcherInv, IssuedIsThere
<1>2. Ordered'
  BY DEF DispatcherInv, Ordered, Introduced, Start
<1>3. HandedIsStarted'
  BY DEF HandedIsStarted
<1> QED
  BY <1>1, <1>2, <1>3 DEF DispatcherInv

\* A dispatcher that reads a command reads what is free before it.
LEMMA ReadKeepsInv ==
    ASSUME DispatcherInv, NEW d \in Dispatchers, ReadBatch(d)
    PROVE  DispatcherInv'
<1>1. /\ TypeOK /\ RequestedExists /\ SentIsHanded /\ HandedIsStarted /\ Ordered /\ ReadInOrder
      /\ Len(commands) \in Nat
      /\ batch \in [Dispatchers -> Batch] /\ dispatched \subseteq handed
  BY Types DEF DispatcherInv, SentIsHanded
<1>2. PICK rows \in SUBSET Free :
        /\ \A i \in rows, j \in Free \ rows : i < j
        /\ batch' = [batch EXCEPT ![d] = [rows |-> rows, sent |-> {},
                                          skipped |-> Pending \cap Locked]]
  BY DEF ReadBatch
<1>3. UNCHANGED <<status, requested, commands, dispatched, handed, workflow, faults>>
  BY DEF ReadBatch
<1> DEFINE b == [rows |-> rows, sent |-> {}, skipped |-> Pending \cap Locked]
<1>4. b \in Batch /\ b.rows = rows /\ b.sent = {} /\ b.skipped = Pending \cap Locked
  BY DEF Free, Pending, Batch, Rows
<1> HIDE DEF b
<1>5. /\ batch' \in [Dispatchers -> Batch]
      /\ \A q \in Dispatchers : batch'[q] = IF q = d THEN b ELSE batch[q]
  BY <1>1, <1>2, <1>4 DEF b
<1>6. TypeOK'
  BY <1>1, <1>3, <1>5 DEF TypeOK, Batch, Rows
<1>7. SentIsHanded'
  BY <1>1, <1>3, <1>4, <1>5 DEF SentIsHanded
<1>8. ReadInOrder'
  <2> SUFFICES ASSUME NEW q \in Dispatchers, NEW i \in batch'[q].rows
               PROVE  \E j \in 1..i :
                         /\ commands[j] = Start(commands[i].execution)
                         /\ j \in batch'[q].rows \cup batch'[q].skipped \cup handed
    BY <1>3 DEF ReadInOrder, Followed, Start
  <2>1. CASE q # d
    BY <1>1, <1>5, <2>1 DEF ReadInOrder, Followed
  <2>2. CASE q = d
    <3>1. i \in Free /\ i \in 1..Len(commands)
      BY <1>4, <1>5, <2>2 DEF Free, Pending
    <3>2. PICK j \in 1..i : commands[j] = Start(commands[i].execution)
      BY <1>1, <3>1 DEF Ordered, Introduced
    <3>3. j \in 1..Len(commands) /\ j <= i
      BY <1>1, <3>1, <3>2
    <3>4. CASE j \in dispatched
      BY <1>1, <3>2, <3>4
    <3>5. CASE j \in Locked /\ j \notin dispatched
      BY <1>4, <1>5, <2>2, <3>2, <3>3, <3>5 DEF Pending
    <3>6. CASE j \notin Locked /\ j \notin dispatched
      <4>1. j \in Free
        BY <3>3, <3>6 DEF Free, Pending
      <4>2. j \in rows
        BY <1>2, <1>4, <1>5, <2>2, <3>1, <3>3, <4>1
      <4> QED
        BY <1>4, <1>5, <2>2, <3>2, <4>2
    <3> QED
      BY <3>4, <3>5, <3>6
  <2> QED
    BY <2>1, <2>2
<1>9. RequestedExists' /\ \A e \in Executions : Issued(e)' = Issued(e)
  BY <1>1, <1>3 DEF Issued, RequestedExists
<1> QED
  BY <1>1, <1>3, <1>6, <1>7, <1>8, <1>9, TableStays DEF HandedIsStarted

\* Giving a batch up hands nothing over, and committing it records what was handed over.
LEMMA EndKeepsInv ==
    ASSUME DispatcherInv, NEW d \in Dispatchers,
           SendFails(d) \/ DispatcherCrashes(d) \/ CommitBatch(d)
    PROVE  DispatcherInv'
<1>1. /\ TypeOK /\ RequestedExists /\ SentIsHanded /\ HandedIsStarted /\ ReadInOrder
      /\ batch \in [Dispatchers -> Batch] /\ dispatched \subseteq Rows
      /\ \A q \in Dispatchers : batch[q].rows \subseteq Rows
  BY Types DEF DispatcherInv
<1>2. /\ UNCHANGED <<status, requested, commands, handed, workflow>>
      /\ batch' = [batch EXCEPT ![d] = Idle]
      /\ \/ dispatched' = dispatched
         \/ dispatched' = dispatched \cup batch[d].rows /\ Unsent(d) = {}
      /\ faults' = faults \/ (faults < MaxFaults /\ faults' = faults + 1)
  BY DEF SendFails, DispatcherCrashes, CommitBatch
<1>3. Idle \in Batch /\ Idle.rows = {} /\ Idle.sent = {} /\ Idle.skipped = {}
  BY DEF Idle, Batch
<1>4. /\ batch' \in [Dispatchers -> Batch]
      /\ \A q \in Dispatchers : batch'[q] = IF q = d THEN Idle ELSE batch[q]
  BY <1>1, <1>2, <1>3
<1>5. faults' \in 0..MaxFaults
  BY <1>1, <1>2, DispatcherAssumption DEF TypeOK
<1>6. TypeOK'
  <2>1. dispatched' \in SUBSET Rows
    BY <1>1, <1>2
  <2> QED
    BY <1>1, <1>2, <1>4, <1>5, <2>1 DEF TypeOK, Batch, Rows
<1>7. SentIsHanded'
  <2>1. dispatched' \subseteq handed
    BY <1>1, <1>2 DEF SentIsHanded, Unsent
  <2> QED
    BY <1>1, <1>2, <1>3, <1>4, <2>1 DEF SentIsHanded
<1>8. ReadInOrder'
  BY <1>1, <1>2, <1>3, <1>4 DEF ReadInOrder, Followed, Start
<1>9. RequestedExists' /\ \A e \in Executions : Issued(e)' = Issued(e)
  BY <1>1, <1>2 DEF Issued, RequestedExists
<1> QED
  BY <1>1, <1>2, <1>6, <1>7, <1>8, <1>9, TableStays DEF HandedIsStarted

\* A command that Temporal accepts leaves its execution with a workflow.
LEMMA SendKeepsInv ==
    ASSUME DispatcherInv, NEW d \in Dispatchers, SendCommand(d)
    PROVE  DispatcherInv'
<1>1. /\ TypeOK /\ RequestedExists /\ SentIsHanded /\ HandedIsStarted /\ ReadInOrder
      /\ batch \in [Dispatchers -> Batch] /\ workflow \in [Executions -> Runs]
      /\ handed \subseteq Rows
      /\ \A i \in Rows : /\ commands[i].command \in {"START", "APPROVE", "CANCEL"}
                         /\ commands[i].execution \in Executions
      /\ \A q \in Dispatchers : batch[q].rows \subseteq Rows
  BY Types DEF DispatcherInv
<1>2. PICK i \in Unsent(d) :
        /\ Accepts(commands[i])
        /\ workflow' = [workflow EXCEPT ![commands[i].execution] = Effect(commands[i])]
        /\ handed' = handed \cup {i}
        /\ batch' = [batch EXCEPT ![d].sent = @ \cup {i}]
        /\ UNCHANGED <<status, requested, commands, dispatched, faults>>
  BY DEF SendCommand
<1> DEFINE c == commands[i]
           run == workflow[c.execution]
<1>3. /\ i \in Rows
      /\ c.command \in {"START", "APPROVE", "CANCEL"} /\ c.execution \in Executions
      /\ run \in Runs
  BY <1>1 DEF Unsent
<1>4. Effect(c) \in Runs /\ Effect(c).state # "none"
  <2>1. CASE c.command = "START"
    <3>1. Effect(c) = IF run.state \in Open THEN run ELSE NewRun("waiting")
      BY <2>1 DEF Effect
    <3> HIDE DEF run, c
    <3> QED
      BY <1>3, <3>1 DEF NewRun, Open, Runs
  <2>2. CASE c.command # "START"
    <3>1. run.state \in Open
      BY <1>2, <2>2 DEF Accepts
    <3>2. \/ Effect(c) = [run EXCEPT !.approved = TRUE]
          \/ Effect(c) = [run EXCEPT !.cancelled = TRUE]
      BY <1>3, <2>2 DEF Effect
    <3> HIDE DEF run, c
    <3> QED
      BY <1>3, <3>1, <3>2 DEF Open, Runs
  <2> QED
    BY <2>1, <2>2
<1> HIDE DEF c, run
<1>5. /\ workflow' \in [Executions -> Runs]
      /\ \A e \in Executions : workflow'[e] = IF e = c.execution THEN Effect(c) ELSE workflow[e]
  BY <1>1, <1>2, <1>3, <1>4 DEF c
<1> DEFINE b == [batch[d] EXCEPT !.sent = @ \cup {i}]
<1>6. /\ b \in Batch /\ b.rows = batch[d].rows /\ b.skipped = batch[d].skipped
      /\ b.sent = batch[d].sent \cup {i}
  BY <1>1, <1>3 DEF Batch
<1>7. batch' = [batch EXCEPT ![d] = b]
  BY <1>2
<1> HIDE DEF b
<1>8. /\ batch' \in [Dispatchers -> Batch]
      /\ \A q \in Dispatchers : batch'[q] = IF q = d THEN b ELSE batch[q]
  BY <1>1, <1>6, <1>7
<1>9. TypeOK'
  <2>1. handed' \in SUBSET Rows
    BY <1>1, <1>2, <1>3
  <2> QED
    BY <1>1, <1>2, <1>5, <1>8, <2>1 DEF TypeOK, Runs, Batch, Rows
<1>10. SentIsHanded'
  BY <1>1, <1>2, <1>6, <1>8 DEF SentIsHanded
<1>11. ReadInOrder'
  BY <1>1, <1>2, <1>6, <1>8 DEF ReadInOrder, Followed, Start
<1>12. \A j \in handed' : workflow'[commands[j].execution].state # "none"
  BY <1>1, <1>2, <1>3, <1>4, <1>5 DEF HandedIsStarted, c
<1>13. RequestedExists' /\ \A e \in Executions : Issued(e)' = Issued(e)
  BY <1>1, <1>2 DEF Issued, RequestedExists
<1> QED
  BY <1>2, <1>9, <1>10, <1>11, <1>12, <1>13, TableStays

\* A workflow that goes on stays started, and owes no command.
LEMMA WorkflowKeepsInv ==
    ASSUME DispatcherInv, NEW e \in Executions, Workflow(e)
    PROVE  DispatcherInv'
<1> DEFINE Statuses == {"none", "AWAITING_APPROVAL", "QUEUED", "AWAITING_HUMAN",
                        "DELIVERED", "CANCELLED"}
<1>1. /\ TypeOK /\ RequestedExists /\ SentIsHanded /\ HandedIsStarted /\ ReadInOrder
      /\ status \in [Executions -> Statuses] /\ workflow \in [Executions -> Runs]
      /\ handed \subseteq Rows /\ \A i \in Rows : commands[i].execution \in Executions
  BY Types DEF DispatcherInv, TypeOK
<1>2. UNCHANGED <<requested, commands, dispatched, batch, handed, faults>>
  BY DEF Workflow, WorkflowWakes, CancelRuns, DeliveryRuns, outboxVars
<1>3. PICK s \in Open \cup {"closed"} : workflow' = [workflow EXCEPT ![e].state = s]
  BY DEF Workflow, WorkflowWakes, CancelRuns, DeliveryRuns, Open
<1>4. /\ workflow' \in [Executions -> Runs]
      /\ \A d \in Executions : workflow[d].state # "none" => workflow'[d].state # "none"
  BY <1>1, <1>3 DEF Open, Runs
<1>5. status' \in [Executions -> Statuses]
  BY <1>1 DEF Workflow, WorkflowWakes, CancelRuns, DeliveryRuns
<1>6. TypeOK'
  BY <1>1, <1>2, <1>4, <1>5 DEF TypeOK, Runs
<1>7. SentIsHanded' /\ ReadInOrder'
  BY <1>1, <1>2 DEF SentIsHanded, ReadInOrder, Followed, Start
<1>8. \A i \in handed' : workflow'[commands[i].execution].state # "none"
  BY <1>1, <1>2, <1>4 DEF HandedIsStarted
<1>9. /\ \A d \in Executions \ {e} : status'[d] = status[d]
      /\ \/ status'[e] = status[e]
         \/ status[e] = "QUEUED" /\ status'[e] \in {"QUEUED", "DELIVERED", "AWAITING_HUMAN"}
         \/ e \in requested /\ status'[e] = "CANCELLED"
  BY <1>1 DEF Workflow, WorkflowWakes, CancelRuns, DeliveryRuns
<1>10. RequestedExists' /\ \A d \in Executions : Issued(d)' = Issued(d)
  BY <1>1, <1>2, <1>9, DispatcherAssumption DEF RequestedExists, Issued, TypeOK
<1> QED
  BY <1>2, <1>6, <1>7, <1>8, <1>10, TableStays

-----------------------------------------------------------------------------
(* The theorems *)

\* Every reachable state has its types, a table in order, and dispatchers that have read
\* what lies before a command.
THEOREM DispatcherInvariant == Spec => []DispatcherInv
<1>1. Init => DispatcherInv
  <2> SUFFICES ASSUME Init PROVE DispatcherInv
    OBVIOUS
  <2>1. /\ commands = <<>> /\ Len(commands) = 0 /\ dispatched = {} /\ handed = {}
        /\ requested = {} /\ \A d \in Dispatchers : batch[d].rows = {} /\ batch[d].sent = {}
    BY DEF Init, Idle
  <2>2. TypeOK
    <3>1. batch \in [Dispatchers -> [rows : SUBSET (1..Len(commands)),
                                     sent : SUBSET (1..Len(commands)),
                                     skipped : SUBSET (1..Len(commands))]]
      BY DEF Init, Idle
    <3>2. commands \in Seq(Command)
      BY DEF Init
    <3> QED
      BY <3>1, <3>2, DispatcherAssumption DEF Init, TypeOK, NewRun
  <2>3. IssuedIsThere
    BY <2>1 DEF Init, IssuedIsThere, Issued
  <2> QED
    BY <2>1, <2>2, <2>3 DEF DispatcherInv, SentIsHanded, HandedIsStarted, Ordered,
                            ReadInOrder, RequestedExists
<1>2. DispatcherInv /\ [Next]_vars => DispatcherInv'
  <2> SUFFICES ASSUME DispatcherInv, [Next]_vars PROVE DispatcherInv'
    OBVIOUS
  <2>1. CASE \E e \in Executions : Handler(e)
    BY <2>1, HandlerKeepsInv
  <2>2. CASE \E e \in Executions : Workflow(e)
    BY <2>2, WorkflowKeepsInv
  <2>3. CASE \E d \in Dispatchers : Dispatcher(d) \/ DispatcherCrashes(d)
    BY <2>3, ReadKeepsInv, SendKeepsInv, EndKeepsInv DEF Dispatcher
  <2>4. CASE UNCHANGED vars
    BY <2>4 DEF vars, outboxVars, DispatcherInv, TypeOK, RequestedExists, SentIsHanded,
                HandedIsStarted, IssuedIsThere, Issued, Ordered, Introduced, ReadInOrder,
                Followed, Start
  <2> QED
    BY <2>1, <2>2, <2>3, <2>4 DEF Next
<1> QED
  BY <1>1, <1>2, PTL DEF Spec

\* The dispatchers keep their types.
THEOREM TypeCorrect == Spec => []TypeOK
<1>1. DispatcherInv => TypeOK
  BY DEF DispatcherInv
<1> QED
  BY <1>1, DispatcherInvariant, PTL

\* workflow_dispatcher.py's promise to the handlers: a command that committed
\* with its row is to be dispatched until Temporal has accepted it.
THEOREM NoCommandIsLostHolds == Spec => []NoCommandIsLost
<1>1. DispatcherInv => NoCommandIsLost
  BY DEF DispatcherInv, IssuedIsThere, SentIsHanded, NoCommandIsLost
<1> QED
  BY <1>1, DispatcherInvariant, PTL

\* Over batch boundaries, errors and crashes, a signal overtakes the START of its execution
\* only if its dispatcher had to skip a START that another one had locked.
THEOREM StartedBeforeSignalledHolds == Spec => []StartedBeforeSignalled
<1>1. DispatcherInv => StartedBeforeSignalled
  <2> SUFFICES ASSUME DispatcherInv, NEW d \in Dispatchers, NEW i \in Unsent(d),
                      IsNext(d, i), commands[i].command # "START"
               PROVE  \/ workflow[commands[i].execution].state # "none"
                      \/ \E j \in batch[d].skipped :
                            commands[j] = Start(commands[i].execution)
    BY DEF StartedBeforeSignalled, Start
  <2>1. /\ TypeOK /\ SentIsHanded /\ HandedIsStarted /\ ReadInOrder
        /\ i \in batch[d].rows /\ i \in Rows
    BY Types DEF DispatcherInv, Unsent
  <2>2. PICK j \in 1..i : /\ commands[j] = Start(commands[i].execution)
                          /\ j \in batch[d].rows \cup batch[d].skipped \cup handed
    BY <2>1 DEF ReadInOrder, Followed
  <2>3. i \in Nat /\ j \in Nat /\ j <= i /\ j # i
    BY <2>1, <2>2 DEF Rows, Start
  <2>4. CASE j \in batch[d].skipped
    BY <2>2, <2>4
  <2>5. CASE j \in handed
    BY <2>1, <2>2, <2>5 DEF HandedIsStarted, Start
  <2>6. CASE j \in batch[d].rows
    <3>1. j \in batch[d].sent
      BY <2>3, <2>6 DEF IsNext, Unsent
    <3> QED
      BY <2>1, <2>5, <3>1 DEF SentIsHanded
  <2> QED
    BY <2>2, <2>4, <2>5, <2>6
<1> QED
  BY <1>1, DispatcherInvariant, PTL

\* A single dispatcher never sends a signal to a workflow that has yet to be started.
THEOREM AloneInOrder ==
    ASSUME NEW d0, Dispatchers = {d0}
    PROVE  Spec => [](\A i \in Unsent(d0) : IsNext(d0, i) /\ commands[i].command # "START" =>
                          workflow[commands[i].execution].state # "none")
<1> DEFINE Alone == batch[d0].skipped = {}
<1>1. Init => Alone
  BY DEF Init, Idle
<1>2. TypeOK /\ Alone /\ [Next]_vars => Alone'
  <2> SUFFICES ASSUME TypeOK, Alone, [Next]_vars PROVE Alone'
    OBVIOUS
  <2>1. batch \in [{d0} -> Batch]
    BY Types
  <2>2. CASE ReadBatch(d0)
    <3>1. batch[d0] = Idle
      BY <2>2 DEF ReadBatch
    <3>2. Locked = {}
      BY <3>1 DEF Locked, Idle
    <3>3. PICK rows : batch' = [batch EXCEPT ![d0] = [rows |-> rows, sent |-> {},
                                                      skipped |-> Pending \cap Locked]]
      BY <2>2 DEF ReadBatch
    <3> QED
      BY <2>1, <3>2, <3>3
  <2>3. CASE SendCommand(d0)
    <3>1. PICK i : batch' = [batch EXCEPT ![d0].sent = @ \cup {i}]
      BY <2>3 DEF SendCommand
    <3> QED
      BY <2>1, <3>1 DEF Batch
  <2>4. CASE SendFails(d0) \/ CommitBatch(d0) \/ DispatcherCrashes(d0)
    <3>1. batch' = [batch EXCEPT ![d0] = Idle]
      BY <2>4 DEF SendFails, CommitBatch, DispatcherCrashes
    <3> QED
      BY <2>1, <3>1 DEF Idle
  <2>5. CASE UNCHANGED batch
    BY <2>5
  <2> QED
    BY <2>2, <2>3, <2>4, <2>5 DEF Next, Dispatcher, Handler, AcceptReadyWorkItem,
       ApproveExecution, CancelExecution, Issue, Workflow, WorkflowWakes, CancelRuns,
       DeliveryRuns, vars, outboxVars
<1>3. StartedBeforeSignalled /\ Alone =>
         \A i \in Unsent(d0) : IsNext(d0, i) /\ commands[i].command # "START" =>
             workflow[commands[i].execution].state # "none"
  BY DEF StartedBeforeSignalled
<1> QED
  BY <1>1, <1>2, <1>3, TypeCorrect, StartedBeforeSignalledHolds, PTL DEF Spec
=============================================================================
