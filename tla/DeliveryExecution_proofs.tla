---------------------- MODULE DeliveryExecution_proofs ----------------------
(***************************************************************************)
(* Theorems about DeliveryExecution, for every value of its constants: any *)
(* number of requests and attempts, any budget, overlapping sessions or    *)
(* not, with or without faults.  What holds only if sessions do not        *)
(* overlap is proved from the assumption ~Overlap, at the end.             *)
(***************************************************************************)
EXTENDS DeliveryExecution, TLAPS

-----------------------------------------------------------------------------
(* The aggregate's commands stay within the type of executions. *)

\* A new execution is an execution.
LEMMA NewExecutionType == NewExecution \in Execution
BY DEF NewExecution, Execution, ExecutionStatus

\* Each command that takes nothing but the execution returns an execution.
LEMMA CommandType ==
    ASSUME NEW e \in Execution
    PROVE  /\ Approve(e) \in Execution
           /\ StartBuilding(StartPlanning(StartProvisioning(e))) \in Execution
           /\ Deliver(e) \in Execution
           /\ RequestCancellation(e) \in Execution
           /\ Cancel(e) \in Execution
BY DEF Execution, ExecutionStatus, Approve, StartBuilding, StartPlanning,
       StartProvisioning, Deliver, RequestCancellation, Cancel

\* The execution a runner result leads to is an execution.
LEMMA AfterVerificationType ==
    ASSUME NEW e \in Execution, NEW v \in Verdict
    PROVE  AfterVerification(e, v) \in Execution
<1>1. ASSUME NEW c \in Costs \cup {0}
      PROVE  RecordUsage(e, c) \in Execution
  <2>1. c \in Nat
    BY DeliveryAssumption
  <2>2. e.attempt_count \in Nat /\ e.cost \in Nat
    BY DEF Execution
  <2>3. e.attempt_count + 1 \in Nat /\ e.cost + c \in Nat
    BY <2>1, <2>2
  <2> QED
    BY <2>3 DEF Execution, RecordUsage
<1>2. v.cost \in Costs \cup {0}
  BY DEF Verdict
<1>3. RecordUsage(e, v.cost) \in Execution
  BY <1>1, <1>2
<1>4. StartVerification(RecordUsage(e, v.cost)) \in Execution
  BY <1>3 DEF Execution, ExecutionStatus, StartVerification
<1>5. ASSUME NEW u \in Execution
      PROVE  /\ StartDelivery(u) \in Execution
             /\ RequestRepair(u) \in Execution
             /\ StartBuilding(u) \in Execution
  BY DEF Execution, ExecutionStatus, StartDelivery, RequestRepair, StartBuilding
<1> QED
  BY <1>4, <1>5 DEF AfterVerification

\* What a session flushes is an execution.
LEMMA FlushedType ==
    ASSUME row \in Execution, NEW s, s.new \in Execution, s.base \in Execution
    PROVE  Flushed(s) \in Execution
BY DEF Flushed, Column, Execution

-----------------------------------------------------------------------------
(* Type correctness *)

\* The initial state has its type.
LEMMA InitTypeOK == Init => TypeOK
<1> SUFFICES ASSUME Init PROVE TypeOK
  OBVIOUS
<1>1. row \in Execution
  BY NewExecutionType DEF Init
<1>2. job \in Job /\ workflow \in Workflow /\ outbox \in SUBSET (Requests \cup {"START"})
      /\ pullRequest \in BOOLEAN /\ judged \in Nat
  <2>1. workflow \in Workflow
    BY DeliveryAssumption DEF Init, Workflow
  <2> QED
    BY <2>1 DEF Init, Job, NoVerdict, Verdict
<1>3. request \in [Requests -> Session(RequestStep)] /\ cleanup \in Session(CleanupStep)
  BY NewExecutionType DEF Init, Session, RequestStep, CleanupStep
<1>4. attempt \in [Attempts -> ActivityAttempt]
  BY NewExecutionType DEF Init, NoVerdict, Verdict, ActivityAttempt, AttemptStep
<1> QED
  BY <1>1, <1>2, <1>3, <1>4 DEF TypeOK

\* A record of a session or of an attempt keeps its type when one field changes.
LEMMA AttemptFieldType ==
    ASSUME NEW a \in ActivityAttempt
    PROVE  /\ a.new \in Execution /\ a.base \in Execution /\ a.verdict \in Verdict
           /\ \A step \in AttemptStep : [a EXCEPT !.at = step] \in ActivityAttempt
           /\ \A step \in AttemptStep : Leave(a, step) \in ActivityAttempt
           /\ [a EXCEPT !.lost = TRUE] \in ActivityAttempt
BY NewExecutionType DEF ActivityAttempt, Leave

\* The same for the session of a request.
LEMMA RequestFieldType ==
    ASSUME NEW r \in Session(RequestStep)
    PROVE  /\ r.new \in Execution /\ r.base \in Execution
           /\ \A step \in RequestStep : [r EXCEPT !.at = step] \in Session(RequestStep)
           /\ \A step \in RequestStep : Leave(r, step) \in Session(RequestStep)
BY NewExecutionType DEF Session, Leave

\* Every API step preserves the types.
LEMMA ApiTypeOK ==
    ASSUME TypeOK, Api \/ ApiSession
    PROVE  TypeOK'
<1>1. ASSUME NEW h \in ApproveRequests, ApproveExecution(h)
      PROVE  TypeOK'
  <2>1. h \in Requests
    BY DEF Requests
  <2>2. request'[h] \in Session(RequestStep)
    BY <1>1, <2>1, CommandType, RequestFieldType
       DEF ApproveExecution, RequestReads, TypeOK, Session, RequestStep
  <2> QED
    BY <1>1, <2>1, <2>2 DEF ApproveExecution, RequestReads, TypeOK
<1>2. ASSUME NEW h \in CancelRequests, CancelExecution(h)
      PROVE  TypeOK'
  <2>1. h \in Requests
    BY DEF Requests
  <2>2. request'[h] \in Session(RequestStep)
    BY <1>2, <2>1, CommandType, RequestFieldType
       DEF CancelExecution, RequestReads, TypeOK, Session, RequestStep
  <2> QED
    BY <1>2, <2>1, <2>2 DEF CancelExecution, RequestReads, TypeOK
<1>3. ASSUME NEW h \in Requests, RequestRereads(h)
      PROVE  TypeOK'
  <2>1. request'[h] \in Session(RequestStep)
    BY <1>3 DEF RequestRereads, TypeOK, Session, RequestStep
  <2> QED
    BY <1>3, <2>1 DEF RequestRereads, TypeOK
<1>4. ASSUME NEW h \in Requests, RequestCommits(h)
      PROVE  TypeOK'
  <2>1. request'[h] \in Session(RequestStep)
    BY <1>4, RequestFieldType DEF RequestCommits, TypeOK, RequestStep
  <2>2. row' \in Execution
    BY <1>4, RequestFieldType, FlushedType DEF RequestCommits, TypeOK
  <2> QED
    BY <1>4, <2>1, <2>2 DEF RequestCommits, TypeOK
<1> QED
  BY <1>1, <1>2, <1>3, <1>4 DEF Api, ApiSession

\* Every step of the dispatcher and the workflow preserves the types.
LEMMA TemporalTypeOK ==
    ASSUME TypeOK, Temporal
    PROVE  TypeOK'
<1> USE DEF TypeOK
<1>1. /\ workflow.run \in 1..MaxStarts
      /\ \A n \in Tries : <<workflow.run, n>> \in Attempts
      /\ 1 \in Tries
  BY DeliveryAssumption DEF Workflow, Attempts, Tries
<1>2. ASSUME DispatchStart PROVE TypeOK'
  <2>1. workflow' \in Workflow
    <3>1. CASE UNCHANGED workflow \/ workflow' = [workflow EXCEPT !.state = "waiting"]
      BY <3>1 DEF Workflow
    <3>2. CASE /\ workflow.run < MaxStarts
               /\ workflow' = [state |-> "waiting", approved |-> FALSE, cancelled |-> FALSE,
                               run |-> workflow.run + 1]
      <4>1. workflow.run + 1 \in 1..MaxStarts
        BY <1>1, <3>2, DeliveryAssumption
      <4> QED
        BY <3>2, <4>1 DEF Workflow
    <3> QED
      BY <1>2, <3>1, <3>2 DEF DispatchStart
  <2>2. cleanup' \in Session(CleanupStep)
    BY <1>2 DEF DispatchStart, Session, CleanupStep
  <2> QED
    BY <1>2, <2>1, <2>2 DEF DispatchStart, Handed
<1>3. ASSUME NEW h \in Requests, DispatchSignal(h) PROVE TypeOK'
  BY <1>3 DEF DispatchSignal, Handed, Workflow
<1>4. ASSUME WorkflowWakes PROVE TypeOK'
  <2>1. workflow' \in Workflow
    BY <1>4 DEF WorkflowWakes, Workflow
  <2>2. [attempt[<<workflow.run, 1>>] EXCEPT !.at = "enqueue"] \in ActivityAttempt
    BY <1>1, AttemptFieldType DEF AttemptStep, AttemptRunning
  <2>3. attempt' \in [Attempts -> ActivityAttempt]
    BY <1>1, <1>4, <2>2 DEF WorkflowWakes
  <2> QED
    BY <1>4, <2>1, <2>3 DEF WorkflowWakes
<1>5. ASSUME NEW n \in Tries, RetryDelivery(n) PROVE TypeOK'
  <2>1. <<workflow.run, n + 1>> \in Attempts
    BY <1>1, <1>5, DeliveryAssumption DEF RetryDelivery, Attempts, Tries
  <2>2. [attempt[<<workflow.run, n + 1>>] EXCEPT !.at = "enqueue"] \in ActivityAttempt
    BY <2>1, AttemptFieldType DEF AttemptStep, AttemptRunning
  <2>3. attempt' \in [Attempts -> ActivityAttempt]
    BY <1>5, <2>1, <2>2 DEF RetryDelivery
  <2> QED
    BY <1>5, <2>3 DEF RetryDelivery
<1>6. ASSUME WorkflowCloses PROVE TypeOK'
  BY <1>6 DEF WorkflowCloses, Workflow
<1> QED
  BY <1>2, <1>3, <1>4, <1>5, <1>6 DEF Temporal

\* Every step of the cancel activity preserves the types.
LEMMA CleanupTypeOK ==
    ASSUME TypeOK, Cleanup
    PROVE  TypeOK'
<1> USE DEF TypeOK
<1>1. ASSUME CleanupReads PROVE TypeOK'
  BY <1>1, CommandType DEF CleanupReads, Session, CleanupStep
<1>2. ASSUME CleanupRereads PROVE TypeOK'
  BY <1>2 DEF CleanupRereads, Session, CleanupStep
<1>3. ASSUME CleanupCommits PROVE TypeOK'
  <2>1. row' \in Execution
    BY <1>3, FlushedType DEF CleanupCommits, Session
  <2>2. cleanup' \in Session(CleanupStep)
    BY <1>3, NewExecutionType DEF CleanupCommits, Leave, Session, CleanupStep
  <2> QED
    BY <1>3, <2>1, <2>2 DEF CleanupCommits
<1> QED
  BY <1>1, <1>2, <1>3 DEF Cleanup

\* Every step of an attempt of the delivery activity preserves the types.
LEMMA AttemptTypeOK ==
    ASSUME TypeOK, NEW k \in Attempts, Attempt(k)
    PROVE  TypeOK'
<1> USE DEF TypeOK
<1>1. /\ attempt[k] \in ActivityAttempt
      /\ attempt[k].new \in Execution /\ attempt[k].base \in Execution
  BY AttemptFieldType
<1>2. ASSUME EnqueueReads(k) PROVE TypeOK'
  <2>1. attempt'[k] \in ActivityAttempt
    BY <1>1, <1>2, CommandType
       DEF EnqueueReads, ActivityAttempt, AttemptStep, AttemptRunning, AttemptSession
  <2> QED
    BY <1>2, <2>1 DEF EnqueueReads
<1>3. ASSUME EnqueueRereads(k) PROVE TypeOK'
  <2>1. attempt'[k] \in ActivityAttempt
    BY <1>1, <1>3
       DEF EnqueueRereads, ActivityAttempt, AttemptStep, AttemptRunning, AttemptSession
  <2> QED
    BY <1>3, <2>1 DEF EnqueueRereads
<1>4. ASSUME EnqueueCommits(k) PROVE TypeOK'
  <2>1. attempt'[k] \in ActivityAttempt
    BY <1>1, <1>4, AttemptFieldType DEF EnqueueCommits, AttemptStep, AttemptRunning
  <2>2. row' \in Execution
    BY <1>1, <1>4, FlushedType DEF EnqueueCommits
  <2>3. job' \in Job
    BY <1>4 DEF EnqueueCommits, Job, NoVerdict, Verdict
  <2> QED
    BY <1>4, <2>1, <2>2, <2>3 DEF EnqueueCommits
<1>5. ASSUME PollReads(k) PROVE TypeOK'
  <2>1. job.result \in Verdict
    BY DEF Job
  <2>2. AfterVerification(row, job.result) \in Execution
    BY <2>1, AfterVerificationType
  <2>3. attempt'[k] \in ActivityAttempt
    BY <1>1, <1>5, <2>1, <2>2
       DEF PollReads, ActivityAttempt, AttemptStep, AttemptRunning, AttemptSession
  <2> QED
    BY <1>5, <2>3 DEF PollReads
<1>6. ASSUME VerifyCommits(k) PROVE TypeOK'
  <2>1. attempt'[k] \in ActivityAttempt
    <3>1. {"poll", "returned", "open"} \subseteq AttemptStep
      BY DEF AttemptStep, AttemptRunning
    <3>2. \A step \in {"poll", "returned", "open"} :
             Leave(attempt[k], step) \in ActivityAttempt
      BY <1>1, <3>1, AttemptFieldType
    <3>3. attempt' \in {[attempt EXCEPT ![k] = Leave(@, step)] :
                              step \in {"poll", "returned", "open"}}
      BY <1>6 DEF VerifyCommits
    <3> QED
      BY <3>2, <3>3
  <2>2. [status |-> "QUEUED", result |-> NoVerdict] \in Job
    BY DEF Job, NoVerdict, Verdict
  <2>3. job' \in Job
    BY <1>6, <2>2 DEF VerifyCommits
  <2>4. row' \in Execution
    BY <1>1, <1>6, FlushedType DEF VerifyCommits
  <2>5. attempt' \in [Attempts -> ActivityAttempt]
    BY <1>6, <2>1 DEF VerifyCommits
  <2>6. judged' \in Nat
    BY <1>6 DEF VerifyCommits
  <2>7. UNCHANGED <<outbox, workflow, request, pullRequest, cleanup>>
    BY <1>6 DEF VerifyCommits
  <2> QED
    BY <2>3, <2>4, <2>5, <2>6, <2>7
<1>7. ASSUME CreatePullRequest(k) PROVE TypeOK'
  <2>1. /\ [attempt[k] EXCEPT !.at = "deliver"] \in ActivityAttempt
        /\ [attempt[k] EXCEPT !.at = "failed"] \in ActivityAttempt
    BY <1>1, AttemptFieldType DEF AttemptStep, AttemptRunning
  <2> QED
    BY <1>7, <2>1 DEF CreatePullRequest
<1>8. ASSUME DeliverReads(k) PROVE TypeOK'
  <2>1. attempt'[k] \in ActivityAttempt
    BY <1>1, <1>8, CommandType
       DEF DeliverReads, ActivityAttempt, AttemptStep, AttemptRunning, AttemptSession
  <2> QED
    BY <1>8, <2>1 DEF DeliverReads
<1>9. ASSUME DeliverRereads(k) PROVE TypeOK'
  <2>1. attempt'[k] \in ActivityAttempt
    BY <1>1, <1>9
       DEF DeliverRereads, ActivityAttempt, AttemptStep, AttemptRunning, AttemptSession
  <2> QED
    BY <1>9, <2>1 DEF DeliverRereads
<1>10. ASSUME DeliverCommits(k) PROVE TypeOK'
  <2>1. attempt'[k] \in ActivityAttempt
    BY <1>1, <1>10, AttemptFieldType DEF DeliverCommits, AttemptStep
  <2>2. row' \in Execution
    BY <1>1, <1>10, FlushedType DEF DeliverCommits
  <2> QED
    BY <1>10, <2>1, <2>2 DEF DeliverCommits
<1> QED
  BY <1>2, <1>3, <1>4, <1>5, <1>6, <1>7, <1>8, <1>9, <1>10 DEF Attempt

\* The steps of the runner and the faults preserve the types.
LEMMA RunnerAndFaultTypeOK ==
    ASSUME TypeOK, Runner \/ Fault
    PROVE  TypeOK'
<1> USE DEF TypeOK
<1>1. ASSUME RunnerLeases PROVE TypeOK'
  BY <1>1 DEF RunnerLeases, Job
<1>2. ASSUME NEW v \in Verdict, RunnerCompletes(v) PROVE TypeOK'
  BY <1>2 DEF RunnerCompletes, Job
<1>3. ASSUME NEW h \in Requests, RequestCrashes(h) PROVE TypeOK'
  BY <1>3, RequestFieldType DEF RequestCrashes, RequestStep
<1>4. ASSUME CleanupCrashes PROVE TypeOK'
  BY <1>4, NewExecutionType DEF CleanupCrashes, Leave, Session, CleanupStep
<1>5. ASSUME NEW k \in Attempts, AttemptCrashes(k) PROVE TypeOK'
  BY <1>5, AttemptFieldType DEF AttemptCrashes, AttemptStep
<1>6. ASSUME NEW k \in Attempts, AttemptTimesOut(k) PROVE TypeOK'
  BY <1>6, AttemptFieldType DEF AttemptTimesOut
<1> QED
  BY <1>1, <1>2, <1>3, <1>4, <1>5, <1>6 DEF Runner, Fault

\* Every variable keeps its type in every behavior (ExecutionRow, RunnerJobRow
\* and the sessions, workflow and activity states of the delivery service).
THEOREM TypeCorrect == Spec => []TypeOK
<1>1. TypeOK /\ [Next]_vars => TypeOK'
  <2> SUFFICES ASSUME TypeOK, [Next]_vars PROVE TypeOK'
    OBVIOUS
  <2>1. CASE UNCHANGED vars
    BY <2>1 DEF vars, TypeOK
  <2>2. CASE Next
    BY <2>2, ApiTypeOK, TemporalTypeOK, CleanupTypeOK, AttemptTypeOK, RunnerAndFaultTypeOK
       DEF Next
  <2> QED
    BY <2>1, <2>2
<1> QED
  BY InitTypeOK, <1>1, PTL DEF Spec

-----------------------------------------------------------------------------
(* What an attempt of the delivery activity may touch *)

\* An attempt takes steps only after it was started, changes no other attempt
\* and leaves the requests, the outbox, the workflow and the cleanup alone.
LEMMA AttemptFrame ==
    ASSUME TypeOK, NEW k \in Attempts, Attempt(k)
    PROVE  /\ attempt[k].at # "new"
           /\ attempt'[k].at # "new"
           /\ \A l \in Attempts \ {k} : attempt'[l] = attempt[l]
           /\ UNCHANGED <<outbox, workflow, request, cleanup>>
<1> USE DEF TypeOK
<1>1. attempt[k] \in ActivityAttempt
  OBVIOUS
<1>2. CASE EnqueueReads(k)
  BY <1>1, <1>2 DEF EnqueueReads, ActivityAttempt
<1>3. CASE EnqueueRereads(k)
  BY <1>1, <1>3 DEF EnqueueRereads, ActivityAttempt
<1>4. CASE EnqueueCommits(k)
  BY <1>1, <1>4 DEF EnqueueCommits, Leave, ActivityAttempt
<1>5. CASE PollReads(k)
  BY <1>1, <1>5 DEF PollReads, ActivityAttempt
<1>6. CASE VerifyCommits(k)
  <2>1. PICK step \in {"poll", "returned", "open"} :
           attempt' = [attempt EXCEPT ![k] = Leave(attempt[k], step)]
    BY <1>6 DEF VerifyCommits
  <2>2. Leave(attempt[k], step).at = step
    BY <1>1 DEF Leave, ActivityAttempt
  <2>3. attempt'[k].at # "new" /\ \A l \in Attempts \ {k} : attempt'[l] = attempt[l]
    BY <2>1, <2>2
  <2> QED
    BY <1>6, <2>3 DEF VerifyCommits
<1>7. CASE CreatePullRequest(k)
  BY <1>1, <1>7 DEF CreatePullRequest, ActivityAttempt
<1>8. CASE DeliverReads(k)
  BY <1>1, <1>8 DEF DeliverReads, ActivityAttempt
<1>9. CASE DeliverRereads(k)
  BY <1>1, <1>9 DEF DeliverRereads, ActivityAttempt
<1>10. CASE DeliverCommits(k)
  BY <1>1, <1>10 DEF DeliverCommits, Leave, ActivityAttempt
<1> QED
  BY <1>2, <1>3, <1>4, <1>5, <1>6, <1>7, <1>8, <1>9, <1>10 DEF Attempt

-----------------------------------------------------------------------------
(* Where control can be *)

\* Until a run of the workflow has chosen to execute, and for good once it has
\* chosen to cancel, it has made no attempt; if it is the first run, there is no
\* job and no pull request either.
Undecided == workflow.state \in {"none", "waiting", "cancelling"} \/ cleanup.at # "new"
Branch ==
    /\ cleanup.at # "new" => workflow.state \in {"cancelling", "closed"}
    /\ \A k \in Attempts :
          k[1] > workflow.run \/ (k[1] = workflow.run /\ Undecided) => attempt[k].at = "new"
    /\ Undecided /\ ~Restarted => job.status = "none" /\ ~pullRequest

\* An approval passes from the committed request to the command, the signal,
\* the activity, the job and the pull request.
ApprovalIsPassedOn ==
    /\ \A h \in outbox \ {"START"} : request[h].at = "committed"
    /\ workflow.approved \/ workflow.state = "executing" => Approved
    /\ \A k \in Attempts : attempt[k].at # "new" => Approved
    /\ job.status # "none" \/ pullRequest => Approved

Control == Branch /\ ApprovalIsPassedOn

\* Control holds at first.
LEMMA InitControl == Init => Control
BY DEF Init, Control, Branch, ApprovalIsPassedOn

\* In a first run that has not chosen to execute no attempt was ever made.
LEMMA UntouchedAtFirst ==
    ASSUME TypeOK, Branch, Undecided, ~Restarted
    PROVE  \A k \in Attempts : attempt[k].at = "new"
<1>1. workflow.run = 1
  BY DEF TypeOK, Workflow, Restarted
<1>2. \A k \in Attempts : k[1] \in 1..MaxStarts
  BY DEF Attempts
<1> QED
  BY <1>1, <1>2, DeliveryAssumption DEF Branch

\* The API's steps preserve Control: a committed request stays committed.
LEMMA ApiControl ==
    ASSUME TypeOK, Control, Api \/ ApiSession \/ \E h \in Requests : RequestCrashes(h)
    PROVE  Control'
<1> USE DEF TypeOK, Control
<1>1. ASSUME NEW h \in Requests, request[h].at # "committed",
             \A i \in Requests \ {h} : request'[i] = request[i],
             outbox' = outbox \/ (outbox' = outbox \cup {h} /\ request'[h].at = "committed"),
             UNCHANGED <<job, workflow, cleanup, attempt, pullRequest>>
      PROVE  Control'
  <2>1. Approved => Approved'
    BY <1>1 DEF Approved, Requests
  <2>2. Branch'
    BY <1>1 DEF Branch, Undecided, Restarted
  <2>3. ApprovalIsPassedOn'
    BY <1>1, <2>1 DEF ApprovalIsPassedOn
  <2> QED
    BY <2>2, <2>3
<1>2. ASSUME NEW h \in ApproveRequests, ApproveExecution(h) PROVE Control'
  <2>1. h \in Requests
    BY DEF Requests
  <2> QED
    BY <1>1, <1>2, <2>1 DEF ApproveExecution, RequestReads
<1>3. ASSUME NEW h \in CancelRequests, CancelExecution(h) PROVE Control'
  <2>1. h \in Requests
    BY DEF Requests
  <2> QED
    BY <1>1, <1>3, <2>1 DEF CancelExecution, RequestReads
<1>4. ASSUME NEW h \in Requests, RequestRereads(h) PROVE Control'
  BY <1>1, <1>4 DEF RequestRereads
<1>5. ASSUME NEW h \in Requests, RequestCommits(h) PROVE Control'
  <2>1. request'[h].at = "committed"
    BY <1>5 DEF RequestCommits, Leave, Session
  <2> QED
    BY <1>1, <1>5, <2>1 DEF RequestCommits
<1>6. ASSUME NEW h \in Requests, RequestCrashes(h) PROVE Control'
  BY <1>1, <1>6 DEF RequestCrashes
<1> QED
  BY <1>2, <1>3, <1>4, <1>5, <1>6 DEF Api, ApiSession

\* The dispatcher and the workflow preserve Control.
LEMMA TemporalControl ==
    ASSUME TypeOK, Control, Temporal
    PROVE  Control'
<1> USE DEF TypeOK, Control, Branch, Undecided, Restarted, ApprovalIsPassedOn
<1>1. /\ workflow.run \in 1..MaxStarts /\ workflow \in Workflow
      /\ \A k \in Attempts : k[1] \in 1..MaxStarts
  BY DEF Workflow, Attempts
<1>2. ASSUME DispatchStart PROVE Control'
  <2>1. /\ Approved' = Approved /\ outbox' \subseteq outbox
        /\ UNCHANGED <<row, job, request, attempt, pullRequest>>
    BY <1>2 DEF DispatchStart, Handed, Approved
  <2>2. CASE UNCHANGED <<workflow, cleanup>>
    BY <2>1, <2>2
  <2>3. CASE workflow.state = "none" /\ workflow' = [workflow EXCEPT !.state = "waiting"]
             /\ UNCHANGED cleanup
    BY <1>1, <2>1, <2>3 DEF Workflow
  <2>4. CASE /\ workflow' = [state |-> "waiting", approved |-> FALSE, cancelled |-> FALSE,
                             run |-> workflow.run + 1]
             /\ cleanup' = [cleanup EXCEPT !.at = "new"]
    <3>1. /\ workflow'.state = "waiting" /\ ~workflow'.approved
          /\ workflow'.run = workflow.run + 1
          /\ cleanup'.at = "new"
      BY <2>4 DEF Session
    <3>2. \A k \in Attempts : k[1] >= workflow'.run => k[1] > workflow.run
      BY <1>1, <3>1
    <3>3. \A k \in Attempts : k[1] >= workflow'.run => attempt'[k].at = "new"
      BY <2>1, <3>2
    <3>4. workflow'.run > 1
      BY <1>1, <3>1
    <3> QED
      BY <1>1, <2>1, <3>1, <3>3, <3>4
  <2> QED
    BY <1>2, <2>2, <2>3, <2>4 DEF DispatchStart
<1>3. ASSUME NEW h \in Requests, DispatchSignal(h) PROVE Control'
  <2>1. h # "START"
    BY DeliveryAssumption DEF Requests
  <2>2. h \in ApproveRequests => Approved
    BY <1>3, <2>1 DEF DispatchSignal, Approved
  <2> QED
    BY <1>3, <2>2 DEF DispatchSignal, Handed, Workflow, Approved
<1>4. ASSUME WorkflowWakes PROVE Control'
  <2>1. /\ workflow'.run = workflow.run /\ workflow'.approved = workflow.approved
        /\ UNCHANGED <<job, outbox, request, cleanup, pullRequest>> /\ Approved' = Approved
        /\ workflow.state = "waiting" /\ cleanup.at = "new"
    BY <1>1, <1>4 DEF WorkflowWakes, Workflow, Approved
  <2>2. CASE workflow.cancelled
    BY <1>1, <1>4, <2>1, <2>2 DEF WorkflowWakes, Workflow
  <2>3. CASE ~workflow.cancelled
    <3>1. /\ workflow'.state = "executing" /\ Approved
          /\ attempt' = [attempt EXCEPT ![<<workflow.run, 1>>].at = "enqueue"]
      BY <1>1, <1>4, <2>3 DEF WorkflowWakes, Workflow
    <3>2. \A k \in Attempts : k[1] > workflow.run => attempt'[k] = attempt[k]
      BY <1>1, <3>1
    <3> QED
      BY <1>1, <2>1, <3>1, <3>2
  <2> QED
    BY <2>2, <2>3
<1>5. ASSUME NEW n \in Tries, RetryDelivery(n) PROVE Control'
  <2>1. /\ workflow.state = "executing" /\ Approved' = Approved /\ Approved
        /\ attempt' = [attempt EXCEPT ![<<workflow.run, n + 1>>].at = "enqueue"]
        /\ UNCHANGED <<job, outbox, workflow, request, cleanup, pullRequest>>
    BY <1>5 DEF RetryDelivery, Approved
  <2>2. \A k \in Attempts : k[1] > workflow.run => attempt'[k] = attempt[k]
    BY <1>1, <2>1
  <2> QED
    BY <1>1, <2>1, <2>2
<1>6. ASSUME WorkflowCloses PROVE Control'
  BY <1>1, <1>6 DEF WorkflowCloses, Workflow, Approved
<1> QED
  BY <1>2, <1>3, <1>4, <1>5, <1>6 DEF Temporal

\* The cancel activity preserves Control.
LEMMA CleanupControl ==
    ASSUME TypeOK, Control, Cleanup \/ CleanupCrashes
    PROVE  Control'
<1>1. /\ cleanup'.at # "new" => workflow.state \in {"cancelling", "closed"}
      /\ cleanup'.at # "new" => cleanup.at # "new" \/ workflow.state = "cancelling"
      /\ UNCHANGED <<outbox, workflow, request, job, attempt, pullRequest>>
  BY DEF Cleanup, CleanupReads, CleanupRereads, CleanupCommits, CleanupCrashes, Leave,
         Control, Branch, TypeOK, Session
<1>2. /\ Undecided' => Undecided
      /\ Restarted' = Restarted /\ Approved' = Approved
  BY <1>1 DEF Undecided, Restarted, Approved
<1> QED
  BY <1>1, <1>2 DEF Control, Branch, ApprovalIsPassedOn

\* The attempts preserve Control.
LEMMA AttemptControl ==
    ASSUME TypeOK, Control, NEW k \in Attempts,
           Attempt(k) \/ AttemptCrashes(k) \/ AttemptTimesOut(k)
    PROVE  Control'
<1>1. /\ attempt[k].at # "new"
      /\ \A l \in Attempts \ {k} : attempt'[l] = attempt[l]
      /\ UNCHANGED <<outbox, workflow, request, cleanup>>
  <2>1. CASE Attempt(k)
    BY <2>1, AttemptFrame
  <2>2. CASE AttemptCrashes(k)
    BY <2>2 DEF AttemptCrashes, AttemptRunning, AttemptSession, TypeOK
  <2>3. CASE AttemptTimesOut(k)
    BY <2>3 DEF AttemptTimesOut, AttemptRunning, AttemptSession, TypeOK
  <2> QED
    BY <2>1, <2>2, <2>3
<1>2. Approved'
  BY <1>1 DEF Control, ApprovalIsPassedOn, Approved
<1>3. ~(Undecided /\ ~Restarted)
  BY <1>1, UntouchedAtFirst DEF Control
<1>4. Undecided' = Undecided /\ Restarted' = Restarted
  BY <1>1 DEF Undecided, Restarted
<1> QED
  BY <1>1, <1>2, <1>3, <1>4 DEF Control, Branch, ApprovalIsPassedOn

\* The runner preserves Control: it works on a job that exists.
LEMMA RunnerControl ==
    ASSUME TypeOK, Control, Runner
    PROVE  Control'
<1>1. /\ job.status # "none"
      /\ UNCHANGED <<outbox, workflow, request, cleanup, attempt, pullRequest>>
  BY DEF Runner, RunnerLeases, RunnerCompletes
<1>2. Undecided' = Undecided /\ Restarted' = Restarted /\ Approved' = Approved
  BY <1>1 DEF Undecided, Restarted, Approved
<1> QED
  BY <1>1, <1>2 DEF Control, Branch, ApprovalIsPassedOn

\* Control holds in every reachable state.
THEOREM ControlHolds == Spec => []Control
<1>1. TypeOK /\ Control /\ [Next]_vars => Control'
  <2> SUFFICES ASSUME TypeOK, Control, [Next]_vars PROVE Control'
    OBVIOUS
  <2>1. CASE UNCHANGED vars
    BY <2>1 DEF vars, Control, Branch, Undecided, Restarted, ApprovalIsPassedOn, Approved
  <2>2. CASE Next
    BY <2>2, ApiControl, TemporalControl, CleanupControl, AttemptControl, RunnerControl
       DEF Next, Fault
  <2> QED
    BY <2>1, <2>2
<1> QED
  BY InitControl, <1>1, TypeCorrect, PTL DEF Spec

\* For every budget, every number of requests and attempts and every
\* interleaving: no runner job and no pull request before a committed approval.
THEOREM NoWorkBeforeApprovalHolds == Spec => []NoWorkBeforeApproval
<1>1. Control => NoWorkBeforeApproval
  BY DEF Control, ApprovalIsPassedOn, NoWorkBeforeApproval
<1> QED
  BY <1>1, ControlHolds, PTL

\* Likewise: after the cancel activity has run to its end there is a job or a pull
\* request only if START was repeated after a run of the workflow had closed.
THEOREM CancelledIsWorkedOnOnlyIfRestartedHolds ==
    Spec => []CancelledIsWorkedOnOnlyIfRestarted
<1>1. Control => CancelledIsWorkedOnOnlyIfRestarted
  BY DEF Control, Branch, Undecided, CancelledIsWorkedOnOnlyIfRestarted
<1> QED
  BY <1>1, ControlHolds, PTL

-----------------------------------------------------------------------------
(* What every execution in play has behind it, in the row or in a session *)

SomeVerified == \E k \in Attempts : attempt[k].verdict.success /\ attempt[k].verdict.passed

InBudget(e) == e.attempt_count =< MaxAttempts /\ e.cost =< MaxCost

\* Whatever a stale session writes over, what it writes was sound when it was
\* read, and soundness is never lost again.
Sound(e, opened, verified) ==
    /\ InBudget(e)
    /\ e.status = "DELIVERED" => opened
    /\ e.status \in {"DELIVERING", "DELIVERED"} => verified

Unjudged == {"new", "enqueue", "enqueue.read", "enqueue.reread", "poll"}

\* What the place of an attempt says of its last verdict and the pull request.
AttemptSound(k) ==
    /\ attempt[k].at \in Unjudged => ~Verified(attempt[k].verdict)
    /\ attempt[k].at = "verify.read" /\ attempt[k].new.status = "BUILDING" =>
          ~Verified(attempt[k].verdict)
    /\ attempt[k].at = "open" => SomeVerified
    /\ attempt[k].at \in {"deliver", "deliver.read", "deliver.reread"} => pullRequest

Evidence ==
    /\ Sound(row, pullRequest, SomeVerified)
    /\ \A h \in Requests : Sound(request[h].new, pullRequest, SomeVerified)
    /\ Sound(cleanup.new, pullRequest, SomeVerified)
    /\ \A k \in Attempts : Sound(attempt[k].new, pullRequest, SomeVerified)
    /\ \A k \in Attempts : AttemptSound(k)
    /\ pullRequest => SomeVerified

\* A new execution is sound whatever has happened.
LEMMA NewExecutionSound == \A opened, verified : Sound(NewExecution, opened, verified)
BY BudgetAssumption DEF Sound, InBudget, NewExecution

\* The commands of the API and the cancel activity keep an execution sound.
LEMMA CommandSound ==
    ASSUME NEW e \in Execution, NEW opened, NEW verified, Sound(e, opened, verified)
    PROVE  /\ Sound(Approve(e), opened, verified)
           /\ Sound(StartBuilding(StartPlanning(StartProvisioning(e))), opened, verified)
           /\ Sound(RequestCancellation(e), opened, verified)
           /\ Sound(Cancel(e), opened, verified)
BY DEF Sound, InBudget, Execution, Approve, StartBuilding, StartPlanning,
       StartProvisioning, RequestCancellation, Cancel

\* A flush mixes columns of two sound executions into a sound one.
LEMMA FlushedSound ==
    ASSUME NEW opened, NEW verified, Sound(row, opened, verified),
           NEW s, Sound(s.new, opened, verified)
    PROVE  Sound(Flushed(s), opened, verified)
BY DEF Sound, InBudget, Flushed, Column

\* What the judgement of a result adds to the totals is within the budget, and
\* only a verified result leads on to delivery.
LEMMA AfterVerificationSound ==
    ASSUME NEW e \in Execution, NEW v \in Verdict, WithinBudget(e, v.cost)
    PROVE  /\ InBudget(AfterVerification(e, v))
           /\ AfterVerification(e, v).status # "DELIVERED"
           /\ AfterVerification(e, v).status = "DELIVERING" => Verified(v)
           /\ AfterVerification(e, v).status = "BUILDING" => ~Verified(v)
<1> DEFINE used == StartVerification(RecordUsage(e, v.cost))
<1>1. used \in Execution
  <2>1. v.cost \in Costs \cup {0} /\ e.cost \in Nat /\ e.attempt_count \in Nat
    BY DEF Verdict, Execution
  <2>2. v.cost \in Nat
    <3>1. \A c \in Costs \cup {0} : c \in Nat
      BY DeliveryAssumption
    <3> QED
      BY <2>1, <3>1
  <2>3. e.attempt_count + 1 \in Nat /\ e.cost + v.cost \in Nat
    BY <2>1, <2>2
  <2> QED
    BY <2>3 DEF Execution, ExecutionStatus, StartVerification, RecordUsage
<1>2. used.attempt_count = e.attempt_count + 1 /\ used.cost = e.cost + v.cost
  BY DEF Execution, StartVerification, RecordUsage
<1>3. InBudget(used)
  BY <1>2 DEF InBudget, WithinBudget
<1>4. ASSUME NEW u \in Execution, InBudget(u)
      PROVE  /\ InBudget(StartDelivery(u)) /\ StartDelivery(u).status = "DELIVERING"
             /\ InBudget(RequestRepair(u))
             /\ RequestRepair(u).status \in {"AWAITING_HUMAN", "REPAIRING"}
             /\ InBudget(StartBuilding(RequestRepair(u)))
             /\ StartBuilding(RequestRepair(u)).status = "BUILDING"
  BY <1>4 DEF InBudget, Execution, StartDelivery, RequestRepair, StartBuilding
<1> HIDE DEF used
<1> QED
  BY <1>1, <1>3, <1>4 DEF AfterVerification, used

\* Evidence holds at first.
LEMMA InitEvidence == Init => Evidence
<1> SUFFICES ASSUME Init PROVE Evidence
  OBVIOUS
<1>1. \A k \in Attempts : AttemptSound(k)
  BY DEF Init, AttemptSound, Unjudged, Verified, NoVerdict
<1> QED
  BY <1>1, NewExecutionSound DEF Init, Evidence

\* A step that neither changes the attempts nor closes the pull request keeps
\* Evidence if what it leaves in the row and in the sessions is sound.
LEMMA SessionEvidence ==
    ASSUME Evidence, UNCHANGED <<attempt, pullRequest>>,
           Sound(row', pullRequest, SomeVerified),
           \A h \in Requests : Sound(request'[h].new, pullRequest, SomeVerified),
           Sound(cleanup'.new, pullRequest, SomeVerified)
    PROVE  Evidence'
<1>1. SomeVerified' = SomeVerified
  BY DEF SomeVerified
<1>2. \A k \in Attempts : AttemptSound(k)'
  BY <1>1 DEF Evidence, AttemptSound
<1> QED
  BY <1>1, <1>2 DEF Evidence

\* The API's steps preserve Evidence.
LEMMA ApiEvidence ==
    ASSUME TypeOK, Evidence, Api \/ ApiSession \/ \E h \in Requests : RequestCrashes(h)
    PROVE  Evidence'
<1> USE DEF TypeOK
<1>1. ASSUME NEW h \in Requests, Sound(row', pullRequest, SomeVerified),
             Sound(request'[h].new, pullRequest, SomeVerified),
             \A i \in Requests \ {h} : request'[i] = request[i],
             UNCHANGED <<cleanup, attempt, pullRequest>>
      PROVE  Evidence'
  BY <1>1, SessionEvidence DEF Evidence
<1>2. Sound(row, pullRequest, SomeVerified)
      /\ \A h \in Requests : Sound(request[h].new, pullRequest, SomeVerified)
  BY DEF Evidence
<1>3. ASSUME NEW h \in ApproveRequests, ApproveExecution(h) PROVE Evidence'
  <2>1. h \in Requests
    BY DEF Requests
  <2>2. Sound(request'[h].new, pullRequest, SomeVerified)
    BY <1>2, <1>3, <2>1, CommandSound DEF ApproveExecution, RequestReads, Session
  <2> QED
    BY <1>1, <1>2, <1>3, <2>1, <2>2 DEF ApproveExecution, RequestReads
<1>4. ASSUME NEW h \in CancelRequests, CancelExecution(h) PROVE Evidence'
  <2>1. h \in Requests
    BY DEF Requests
  <2>2. Sound(request'[h].new, pullRequest, SomeVerified)
    BY <1>2, <1>4, <2>1, CommandSound DEF CancelExecution, RequestReads, Session
  <2> QED
    BY <1>1, <1>2, <1>4, <2>1, <2>2 DEF CancelExecution, RequestReads
<1>5. ASSUME NEW h \in Requests, RequestRereads(h) PROVE Evidence'
  <2>1. request'[h].new = request[h].new
    BY <1>5 DEF RequestRereads, Session
  <2> QED
    BY <1>1, <1>2, <1>5, <2>1 DEF RequestRereads
<1>6. ASSUME NEW h \in Requests, RequestCommits(h) PROVE Evidence'
  <2>1. request'[h].new = NewExecution
    BY <1>6 DEF RequestCommits, Leave, Session
  <2>2. Sound(row', pullRequest, SomeVerified)
    BY <1>2, <1>6, FlushedSound DEF RequestCommits
  <2> QED
    BY <1>1, <1>6, <2>1, <2>2, NewExecutionSound DEF RequestCommits
<1>7. ASSUME NEW h \in Requests, RequestCrashes(h) PROVE Evidence'
  <2>1. request'[h].new = NewExecution
    BY <1>7 DEF RequestCrashes, Leave, Session
  <2> QED
    BY <1>1, <1>2, <1>7, <2>1, NewExecutionSound DEF RequestCrashes
<1> QED
  BY <1>3, <1>4, <1>5, <1>6, <1>7 DEF Api, ApiSession

\* The cancel activity preserves Evidence.
LEMMA CleanupEvidence ==
    ASSUME TypeOK, Evidence, Cleanup \/ CleanupCrashes
    PROVE  Evidence'
<1> USE DEF TypeOK
<1>1. /\ Sound(row, pullRequest, SomeVerified)
      /\ Sound(cleanup.new, pullRequest, SomeVerified)
      /\ \A h \in Requests : Sound(request[h].new, pullRequest, SomeVerified)
  BY DEF Evidence
<1>2. CASE CleanupReads
  <2>1. Sound(cleanup'.new, pullRequest, SomeVerified)
    BY <1>1, <1>2, CommandSound DEF CleanupReads, Session
  <2> QED
    BY <1>1, <1>2, <2>1, SessionEvidence DEF CleanupReads
<1>3. CASE CleanupRereads
  <2>1. cleanup'.new = cleanup.new
    BY <1>3 DEF CleanupRereads, Session
  <2> QED
    BY <1>1, <1>3, <2>1, SessionEvidence DEF CleanupRereads
<1>4. CASE CleanupCommits
  <2>1. cleanup'.new = NewExecution
    BY <1>4 DEF CleanupCommits, Leave, Session
  <2>2. Sound(row', pullRequest, SomeVerified)
    BY <1>1, <1>4, FlushedSound DEF CleanupCommits
  <2> QED
    BY <1>1, <1>4, <2>1, <2>2, NewExecutionSound, SessionEvidence DEF CleanupCommits
<1>5. CASE CleanupCrashes
  <2>1. cleanup'.new = NewExecution
    BY <1>5 DEF CleanupCrashes, Leave, Session
  <2> QED
    BY <1>1, <1>5, <2>1, NewExecutionSound, SessionEvidence DEF CleanupCrashes
<1> QED
  BY <1>2, <1>3, <1>4, <1>5 DEF Cleanup

\* A verified result is forgotten only by an attempt that polls a new one.
LEMMA VerifiedStays ==
    ASSUME NEW k \in Attempts, \A l \in Attempts \ {k} : attempt'[l] = attempt[l],
           attempt'[k].verdict = attempt[k].verdict \/ ~Verified(attempt[k].verdict)
    PROVE  SomeVerified => SomeVerified'
BY DEF SomeVerified, Verified

\* A step of one attempt keeps Evidence if what it leaves in the row and in the
\* attempt is sound and no evidence is lost.
LEMMA OneAttemptEvidence ==
    ASSUME Evidence, NEW k \in Attempts,
           \A l \in Attempts \ {k} : attempt'[l] = attempt[l],
           UNCHANGED <<request, cleanup>>,
           pullRequest => pullRequest',
           SomeVerified => SomeVerified',
           pullRequest' => SomeVerified',
           Sound(row', pullRequest', SomeVerified'),
           Sound(attempt'[k].new, pullRequest', SomeVerified'),
           AttemptSound(k)'
    PROVE  Evidence'
<1>1. ASSUME NEW e, Sound(e, pullRequest, SomeVerified)
      PROVE  Sound(e, pullRequest', SomeVerified')
  BY <1>1 DEF Sound
<1>2. \A l \in Attempts : AttemptSound(l)'
  <2>1. ASSUME NEW l \in Attempts \ {k} PROVE AttemptSound(l)'
    <3>1. AttemptSound(l)
      BY DEF Evidence
    <3> QED
      BY <2>1, <3>1 DEF AttemptSound
  <2> QED
    BY <2>1
<1>3. \A l \in Attempts : Sound(attempt'[l].new, pullRequest', SomeVerified')
  BY <1>1 DEF Evidence
<1>4. /\ \A h \in Requests : Sound(request'[h].new, pullRequest', SomeVerified')
      /\ Sound(cleanup'.new, pullRequest', SomeVerified')
  BY <1>1 DEF Evidence
<1> QED
  BY <1>2, <1>3, <1>4 DEF Evidence

\* An attempt that _enqueue's keeps Evidence.
LEMMA EnqueueEvidence ==
    ASSUME TypeOK, Evidence, NEW k \in Attempts,
           EnqueueReads(k) \/ EnqueueRereads(k) \/ EnqueueCommits(k)
    PROVE  Evidence'
<1> USE DEF TypeOK
<1>1. /\ attempt[k] \in ActivityAttempt /\ AttemptSound(k)
      /\ Sound(row, pullRequest, SomeVerified)
      /\ Sound(attempt[k].new, pullRequest, SomeVerified)
      /\ pullRequest => SomeVerified
  BY DEF Evidence
<1>2. /\ attempt[k].at \in Unjudged /\ attempt'[k].at \in Unjudged
      /\ attempt'[k].verdict = attempt[k].verdict
      /\ \A l \in Attempts \ {k} : attempt'[l] = attempt[l]
      /\ UNCHANGED <<request, cleanup, pullRequest>>
  <2>1. CASE EnqueueReads(k)
    BY <1>1, <2>1 DEF EnqueueReads, ActivityAttempt, Unjudged
  <2>2. CASE EnqueueRereads(k)
    BY <1>1, <2>2 DEF EnqueueRereads, ActivityAttempt, Unjudged
  <2>3. CASE EnqueueCommits(k)
    BY <1>1, <2>3 DEF EnqueueCommits, Leave, ActivityAttempt, Unjudged
  <2> QED
    BY <2>1, <2>2, <2>3
<1>3. AttemptSound(k)'
  BY <1>1, <1>2 DEF AttemptSound, Unjudged
<1>4. SomeVerified => SomeVerified'
  BY <1>2, VerifiedStays
<1>5. /\ Sound(row', pullRequest, SomeVerified)
      /\ Sound(attempt'[k].new, pullRequest, SomeVerified)
  <2>1. CASE EnqueueReads(k)
    <3>1. /\ Sound(StartBuilding(StartPlanning(StartProvisioning(row))),
                   pullRequest, SomeVerified)
          /\ row' = row
      BY <1>1, <2>1, CommandSound DEF EnqueueReads
    <3> QED
      BY <1>1, <2>1, <3>1 DEF EnqueueReads, ActivityAttempt
  <2>2. CASE EnqueueRereads(k)
    BY <1>1, <2>2 DEF EnqueueRereads, ActivityAttempt
  <2>3. CASE EnqueueCommits(k)
    BY <1>1, <2>3, FlushedSound, NewExecutionSound DEF EnqueueCommits, Leave, ActivityAttempt
  <2> QED
    BY <2>1, <2>2, <2>3
<1>6. /\ Sound(row', pullRequest', SomeVerified')
      /\ Sound(attempt'[k].new, pullRequest', SomeVerified')
  BY <1>2, <1>4, <1>5 DEF Sound
<1> QED
  BY <1>1, <1>2, <1>3, <1>4, <1>6, OneAttemptEvidence

\* An attempt that judges a result keeps Evidence: the totals are checked before
\* they are written, and only a verified result leads on to delivery.
LEMMA JudgeEvidence ==
    ASSUME TypeOK, Evidence, NEW k \in Attempts, PollReads(k) \/ VerifyCommits(k)
    PROVE  Evidence'
<1> USE DEF TypeOK
<1>1. /\ attempt[k] \in ActivityAttempt /\ AttemptSound(k)
      /\ Sound(row, pullRequest, SomeVerified)
      /\ Sound(attempt[k].new, pullRequest, SomeVerified)
      /\ pullRequest => SomeVerified
  BY DEF Evidence
<1>2. CASE PollReads(k)
  <2>1. /\ \A l \in Attempts \ {k} : attempt'[l] = attempt[l]
        /\ UNCHANGED <<row, request, cleanup, pullRequest>>
    BY <1>2 DEF PollReads
  <2>2. ~Verified(attempt[k].verdict)
    BY <1>1, <1>2 DEF PollReads, AttemptSound, Unjudged
  <2>3. SomeVerified => SomeVerified'
    BY <2>1, <2>2, VerifiedStays
  <2>4. CASE WithinBudget(row, job.result.cost) /\ CanStartVerification(row)
    <3>1. /\ attempt'[k].at = "verify.read"
          /\ attempt'[k].verdict = job.result
          /\ attempt'[k].new = AfterVerification(row, job.result)
      BY <1>1, <1>2, <2>4 DEF PollReads, ActivityAttempt
    <3>2. job.result \in Verdict
      BY DEF Job
    <3>3. Verified(job.result) => SomeVerified'
      BY <3>1 DEF Verified, SomeVerified
    <3>4. Sound(attempt'[k].new, pullRequest', SomeVerified')
      BY <2>4, <3>1, <3>2, <3>3, AfterVerificationSound DEF Sound
    <3>5. AttemptSound(k)'
      BY <2>4, <3>1, <3>2, AfterVerificationSound DEF AttemptSound, Unjudged
    <3>6. Sound(row', pullRequest', SomeVerified')
      BY <1>1, <2>1, <2>3 DEF Sound
    <3> QED
      BY <1>1, <2>1, <2>3, <3>4, <3>5, <3>6, OneAttemptEvidence
  <2>5. CASE ~(WithinBudget(row, job.result.cost) /\ CanStartVerification(row))
    <3>1. attempt'[k].at = "failed" /\ attempt'[k].new = attempt[k].new
      BY <1>1, <1>2, <2>5 DEF PollReads, ActivityAttempt
    <3>2. AttemptSound(k)'
      BY <3>1 DEF AttemptSound, Unjudged
    <3>3. /\ Sound(row', pullRequest', SomeVerified')
          /\ Sound(attempt'[k].new, pullRequest', SomeVerified')
      BY <1>1, <2>1, <2>3, <3>1 DEF Sound
    <3> QED
      BY <1>1, <2>1, <2>3, <3>2, <3>3, OneAttemptEvidence
  <2> QED
    BY <2>4, <2>5
<1>3. CASE VerifyCommits(k)
  <2>1. /\ \A l \in Attempts \ {k} : attempt'[l] = attempt[l]
        /\ attempt'[k].verdict = attempt[k].verdict
        /\ attempt'[k].new = NewExecution
        /\ row' = attempt[k].new
        /\ UNCHANGED <<request, cleanup, pullRequest>>
    <3>1. PICK step \in {"poll", "returned", "open"} :
             attempt' = [attempt EXCEPT ![k] = Leave(attempt[k], step)]
      BY <1>3 DEF VerifyCommits
    <3>2. attempt'[k] = Leave(attempt[k], step)
      BY <3>1
    <3>3. /\ Leave(attempt[k], step).verdict = attempt[k].verdict
          /\ Leave(attempt[k], step).new = NewExecution
      BY <1>1 DEF Leave, ActivityAttempt
    <3> QED
      BY <1>3, <3>1, <3>2, <3>3 DEF VerifyCommits
  <2>2. SomeVerified => SomeVerified'
    BY <2>1, VerifiedStays
  <2>3. \/ attempt'[k].at = "poll" /\ attempt[k].new.status = "BUILDING"
        \/ attempt'[k].at = "returned"
        \/ attempt'[k].at = "open" /\ attempt[k].new.status = "DELIVERING"
    <3>1. ASSUME NEW step \in {"poll", "returned", "open"},
                 attempt' = [attempt EXCEPT ![k] = Leave(attempt[k], step)]
          PROVE  attempt'[k].at = step
      BY <1>1, <3>1 DEF Leave, ActivityAttempt
    <3> QED
      BY <1>3, <3>1 DEF VerifyCommits
  <2>4. AttemptSound(k)'
    <3>1. attempt[k].at = "verify.read"
      BY <1>3 DEF VerifyCommits
    <3>2. attempt[k].new.status = "BUILDING" => ~Verified(attempt[k].verdict)
      BY <1>1, <3>1 DEF AttemptSound
    <3>3. attempt[k].new.status = "DELIVERING" => SomeVerified
      BY <1>1 DEF Sound
    <3> QED
      BY <2>1, <2>2, <2>3, <3>2, <3>3 DEF AttemptSound, Unjudged
  <2>5. /\ Sound(row', pullRequest', SomeVerified')
        /\ Sound(attempt'[k].new, pullRequest', SomeVerified')
    BY <1>1, <2>1, <2>2, NewExecutionSound DEF Sound
  <2> QED
    BY <1>1, <2>1, <2>2, <2>4, <2>5, OneAttemptEvidence
<1> QED
  BY <1>2, <1>3

\* A step that only moves attempt k to another place in the activity leaves
\* what the attempt has read and judged, and every other attempt, as they were.
OnlyMoved(k) ==
    /\ \A l \in Attempts \ {k} : attempt'[l] = attempt[l]
    /\ attempt'[k].verdict = attempt[k].verdict
    /\ attempt'[k].new = attempt[k].new

\* Setting the place of attempt k only moves it.
LEMMA OneMoves ==
    ASSUME attempt \in [Attempts -> ActivityAttempt], NEW k \in Attempts, NEW place,
           attempt' = [attempt EXCEPT ![k].at = place]
    PROVE  attempt'[k].at = place /\ OnlyMoved(k)
<1>1. attempt'[k] = [attempt[k] EXCEPT !.at = place]
  OBVIOUS
<1>2. \A l \in Attempts \ {k} : attempt'[l] = attempt[l]
  OBVIOUS
<1>3. attempt[k] \in ActivityAttempt
  OBVIOUS
<1> QED
  BY <1>1, <1>2, <1>3 DEF ActivityAttempt, OnlyMoved

\* An attempt that delivers keeps Evidence: it opens the pull request of a
\* verified execution and writes DELIVERED once the pull request is open.
LEMMA DeliverEvidence ==
    ASSUME TypeOK, Evidence, NEW k \in Attempts,
           CreatePullRequest(k) \/ DeliverReads(k) \/ DeliverRereads(k) \/ DeliverCommits(k)
    PROVE  Evidence'
<1> USE DEF TypeOK
<1>1. /\ attempt[k] \in ActivityAttempt /\ AttemptSound(k)
      /\ Sound(row, pullRequest, SomeVerified)
      /\ Sound(attempt[k].new, pullRequest, SomeVerified)
      /\ pullRequest => SomeVerified
  BY DEF Evidence
<1>2. CASE CreatePullRequest(k)
  <2>1. /\ \A l \in Attempts \ {k} : attempt'[l] = attempt[l]
        /\ attempt'[k].verdict = attempt[k].verdict
        /\ attempt'[k].new = attempt[k].new
        /\ attempt'[k].at = "failed" \/ (attempt'[k].at = "deliver" /\ pullRequest')
        /\ pullRequest => pullRequest'
        /\ UNCHANGED <<row, request, cleanup>>
    <3>1. UNCHANGED <<row, request, cleanup>>
      BY <1>2 DEF CreatePullRequest
    <3>2. CASE pullRequest' = TRUE /\ attempt' = [attempt EXCEPT ![k].at = "deliver"]
      <4>1. attempt'[k].at = "deliver" /\ OnlyMoved(k)
        BY <3>2, OneMoves
      <4> QED
        BY <3>1, <3>2, <4>1 DEF OnlyMoved
    <3>3. CASE /\ pullRequest' \in {pullRequest, TRUE}
               /\ attempt' = [attempt EXCEPT ![k].at = "failed"]
      <4>1. attempt'[k].at = "failed" /\ OnlyMoved(k)
        BY <3>3, OneMoves
      <4> QED
        BY <3>1, <3>3, <4>1 DEF OnlyMoved
    <3> QED
      BY <1>2, <3>2, <3>3 DEF CreatePullRequest
  <2>2. SomeVerified
    BY <1>1, <1>2 DEF CreatePullRequest, AttemptSound
  <2>3. SomeVerified'
    BY <2>1, <2>2, VerifiedStays
  <2>4. AttemptSound(k)'
    BY <2>1 DEF AttemptSound, Unjudged
  <2>5. /\ Sound(row', pullRequest', SomeVerified')
        /\ Sound(attempt'[k].new, pullRequest', SomeVerified')
    BY <1>1, <2>1, <2>3 DEF Sound
  <2> QED
    BY <2>1, <2>3, <2>4, <2>5, OneAttemptEvidence
<1>3. ASSUME \A l \in Attempts \ {k} : attempt'[l] = attempt[l],
             attempt'[k].verdict = attempt[k].verdict,
             attempt'[k].at \in {"deliver.read", "deliver.reread", "returned", "failed"},
             attempt'[k].at \in {"deliver.read", "deliver.reread"} => pullRequest,
             Sound(row', pullRequest, SomeVerified),
             Sound(attempt'[k].new, pullRequest, SomeVerified),
             UNCHANGED <<request, cleanup, pullRequest>>
      PROVE  Evidence'
  <2>1. SomeVerified => SomeVerified'
    BY <1>3, VerifiedStays
  <2>2. AttemptSound(k)'
    BY <1>3 DEF AttemptSound, Unjudged
  <2>3. /\ Sound(row', pullRequest', SomeVerified')
        /\ Sound(attempt'[k].new, pullRequest', SomeVerified')
    BY <1>3, <2>1 DEF Sound
  <2> QED
    BY <1>1, <1>3, <2>1, <2>2, <2>3, OneAttemptEvidence
<1>4. CASE DeliverReads(k)
  <2>1. pullRequest
    BY <1>1, <1>4 DEF DeliverReads, AttemptSound
  <2>2. CanDeliver(row) => Sound(Deliver(row), pullRequest, SomeVerified)
    BY <1>1, <2>1 DEF CanDeliver, Deliver, Sound, InBudget, Execution
  <2>3. /\ attempt'[k].verdict = attempt[k].verdict
        /\ attempt'[k].at \in {"deliver.read", "failed"}
        /\ Sound(attempt'[k].new, pullRequest, SomeVerified)
    BY <1>1, <1>4, <2>2 DEF DeliverReads, ActivityAttempt
  <2> QED
    BY <1>1, <1>3, <1>4, <2>1, <2>3 DEF DeliverReads
<1>5. CASE DeliverRereads(k)
  <2>1. pullRequest
    BY <1>1, <1>5 DEF DeliverRereads, AttemptSound
  <2>2. /\ attempt'[k].verdict = attempt[k].verdict
        /\ attempt'[k].at = "deliver.reread"
        /\ attempt'[k].new = attempt[k].new
    BY <1>1, <1>5 DEF DeliverRereads, ActivityAttempt
  <2> QED
    BY <1>1, <1>3, <1>5, <2>1, <2>2 DEF DeliverRereads
<1>6. CASE DeliverCommits(k)
  <2>1. /\ attempt'[k].verdict = attempt[k].verdict
        /\ attempt'[k].at = "returned"
        /\ attempt'[k].new = NewExecution
    BY <1>1, <1>6 DEF DeliverCommits, Leave, ActivityAttempt
  <2>2. Sound(row', pullRequest, SomeVerified)
    BY <1>1, <1>6, FlushedSound DEF DeliverCommits
  <2> QED
    BY <1>3, <1>6, <2>1, <2>2, NewExecutionSound DEF DeliverCommits
<1> QED
  BY <1>2, <1>4, <1>5, <1>6

\* A crash or a timeout of an attempt keeps Evidence.
LEMMA AttemptFaultEvidence ==
    ASSUME TypeOK, Evidence, NEW k \in Attempts, AttemptCrashes(k) \/ AttemptTimesOut(k)
    PROVE  Evidence'
<1> USE DEF TypeOK
<1>1. /\ attempt[k] \in ActivityAttempt /\ AttemptSound(k)
      /\ Sound(row, pullRequest, SomeVerified)
      /\ Sound(attempt[k].new, pullRequest, SomeVerified)
      /\ pullRequest => SomeVerified
  BY DEF Evidence
<1>2. /\ \A l \in Attempts \ {k} : attempt'[l] = attempt[l]
      /\ attempt'[k].verdict = attempt[k].verdict
      /\ \/ attempt'[k].at = "failed" /\ attempt'[k].new = NewExecution
         \/ attempt'[k].at = attempt[k].at /\ attempt'[k].new = attempt[k].new
      /\ UNCHANGED <<row, request, cleanup, pullRequest>>
  <2>1. CASE AttemptCrashes(k)
    BY <1>1, <2>1 DEF AttemptCrashes, Leave, ActivityAttempt
  <2>2. CASE AttemptTimesOut(k)
    BY <1>1, <2>2 DEF AttemptTimesOut, ActivityAttempt
  <2> QED
    BY <2>1, <2>2
<1>3. SomeVerified => SomeVerified'
  BY <1>2, VerifiedStays
<1>4. AttemptSound(k)'
  BY <1>1, <1>2, <1>3 DEF AttemptSound, Unjudged
<1>5. /\ Sound(row', pullRequest', SomeVerified')
      /\ Sound(attempt'[k].new, pullRequest', SomeVerified')
  BY <1>1, <1>2, <1>3, NewExecutionSound DEF Sound
<1> QED
  BY <1>1, <1>2, <1>3, <1>4, <1>5, OneAttemptEvidence

\* The first try of a run that wakes has not been made.
LEMMA FirstTryIsNew ==
    ASSUME TypeOK, Control, WorkflowWakes
    PROVE  /\ <<workflow.run, 1>> \in Attempts
           /\ attempt[<<workflow.run, 1>>].at = "new"
<1>1. <<workflow.run, 1>> \in Attempts
  BY DeliveryAssumption DEF TypeOK, Workflow, Attempts, Tries
<1> QED
  BY <1>1 DEF WorkflowWakes, Control, Branch, Undecided

\* Nor has the try that a retry schedules.
LEMMA NextTryIsNew ==
    ASSUME TypeOK, NEW n \in Tries, RetryDelivery(n)
    PROVE  /\ <<workflow.run, n + 1>> \in Attempts
           /\ attempt[<<workflow.run, n + 1>>].at = "new"
<1>1. n + 1 \in Tries /\ n + 1 > n
  BY DeliveryAssumption DEF RetryDelivery, Tries
<1>2. <<workflow.run, n + 1>> \in Attempts
  BY <1>1 DEF TypeOK, Workflow, Attempts
<1> QED
  BY <1>1, <1>2 DEF RetryDelivery, IsLatest

\* The dispatcher, the workflow and the runner keep Evidence; an attempt is
\* started only where none was made before.
LEMMA TemporalEvidence ==
    ASSUME TypeOK, Control, Evidence, Temporal \/ Runner
    PROVE  Evidence'
<1> USE DEF TypeOK
<1>1. ASSUME NEW k \in Attempts, attempt[k].at = "new",
             attempt' = [attempt EXCEPT ![k].at = "enqueue"],
             UNCHANGED <<row, request, cleanup, pullRequest>>
      PROVE  Evidence'
  <2>1. /\ attempt[k] \in ActivityAttempt /\ AttemptSound(k)
        /\ Sound(row, pullRequest, SomeVerified)
        /\ Sound(attempt[k].new, pullRequest, SomeVerified)
        /\ pullRequest => SomeVerified
    BY DEF Evidence
  <2>2. /\ \A l \in Attempts \ {k} : attempt'[l] = attempt[l]
        /\ attempt'[k].verdict = attempt[k].verdict
        /\ attempt'[k].new = attempt[k].new
        /\ attempt'[k].at = "enqueue"
    BY <1>1, <2>1 DEF ActivityAttempt
  <2>3. SomeVerified => SomeVerified'
    BY <2>2, VerifiedStays
  <2>4. AttemptSound(k)'
    BY <1>1, <2>1, <2>2 DEF AttemptSound, Unjudged
  <2>5. /\ Sound(row', pullRequest', SomeVerified')
        /\ Sound(attempt'[k].new, pullRequest', SomeVerified')
    BY <1>1, <2>1, <2>2, <2>3 DEF Sound
  <2> QED
    BY <1>1, <2>1, <2>2, <2>3, <2>4, <2>5, OneAttemptEvidence
<1>2. ASSUME UNCHANGED <<row, request, cleanup, attempt, pullRequest>> PROVE Evidence'
  BY <1>2, SessionEvidence DEF Evidence
<1>3. CASE WorkflowCloses \/ Runner \/ \E h \in Requests : DispatchSignal(h)
  BY <1>2, <1>3 DEF WorkflowCloses, DispatchSignal, Runner, RunnerLeases, RunnerCompletes
<1>4. CASE WorkflowWakes
  <2>1. UNCHANGED attempt \/ attempt' = [attempt EXCEPT ![<<workflow.run, 1>>].at = "enqueue"]
    BY <1>4 DEF WorkflowWakes
  <2> QED
    BY <1>1, <1>2, <1>4, <2>1, FirstTryIsNew DEF WorkflowWakes
<1>5. ASSUME NEW n \in Tries, RetryDelivery(n) PROVE Evidence'
  <2>1. attempt' = [attempt EXCEPT ![<<workflow.run, n + 1>>].at = "enqueue"]
    BY <1>5 DEF RetryDelivery
  <2> QED
    BY <1>1, <1>5, <2>1, NextTryIsNew DEF RetryDelivery
<1>6. CASE DispatchStart
  <2>1. cleanup'.new = cleanup.new /\ UNCHANGED <<row, request, attempt, pullRequest>>
    BY <1>6 DEF DispatchStart, Session
  <2> QED
    BY <2>1, SessionEvidence DEF Evidence
<1> QED
  BY <1>3, <1>4, <1>5, <1>6 DEF Temporal

\* Evidence holds in every reachable state.
THEOREM EvidenceHolds == Spec => []Evidence
<1>1. TypeOK /\ Control /\ Evidence /\ [Next]_vars => Evidence'
  <2> SUFFICES ASSUME TypeOK, Control, Evidence, [Next]_vars PROVE Evidence'
    OBVIOUS
  <2>1. CASE UNCHANGED vars
    BY <2>1, SessionEvidence DEF vars, Evidence
  <2>2. ASSUME NEW k \in Attempts, Attempt(k) PROVE Evidence'
    BY <2>2, EnqueueEvidence, JudgeEvidence, DeliverEvidence DEF Attempt
  <2>3. CASE Next
    BY <2>2, <2>3, ApiEvidence, TemporalEvidence, CleanupEvidence, AttemptFaultEvidence
       DEF Next, Fault
  <2> QED
    BY <2>1, <2>3
<1> QED
  BY InitEvidence, <1>1, TypeCorrect, ControlHolds, PTL DEF Spec

\* For every budget and every interleaving, crash and stale write: the totals
\* recorded on the row stay within the budget.
THEOREM RecordedUsageWithinBudgetHolds == Spec => []RecordedUsageWithinBudget
<1>1. Evidence => RecordedUsageWithinBudget
  BY DEF Evidence, Sound, InBudget, RecordedUsageWithinBudget
<1> QED
  BY <1>1, EvidenceHolds, PTL

\* Likewise: nothing is delivered, and no pull request is opened, without a
\* runner result in which the agent succeeded and the validation passed.
THEOREM DeliveredOnlyIfVerifiedHolds == Spec => []DeliveredOnlyIfVerified
<1>1. Evidence => DeliveredOnlyIfVerified
  BY DEF Evidence, Sound, SomeVerified, DeliveredOnlyIfVerified
<1> QED
  BY <1>1, EvidenceHolds, PTL

\* Likewise: a DELIVERED execution has its pull request.
THEOREM DeliveredHasPullRequestHolds == Spec => []DeliveredHasPullRequest
<1>1. Evidence => DeliveredHasPullRequest
  BY DEF Evidence, Sound, DeliveredHasPullRequest
<1> QED
  BY <1>1, EvidenceHolds, PTL

-----------------------------------------------------------------------------
(* Serial sessions: if no two sessions on the row overlap, each writes what  *)
(* its command makes of the row as it is committed.                          *)

RequestOpen(h) == request[h].at \in {"read", "reread"}
CleanupOpen == cleanup.at \in {"read", "reread"}
AttemptOpen(k) == attempt[k].at \in AttemptSession

\* At most one session is open.
Alone ==
    /\ \A h, i \in Requests : RequestOpen(h) /\ RequestOpen(i) => h = i
    /\ \A h \in Requests : RequestOpen(h) => ~CleanupOpen
    /\ \A h \in Requests, k \in Attempts : ~(RequestOpen(h) /\ AttemptOpen(k))
    /\ \A k \in Attempts : AttemptOpen(k) => ~CleanupOpen
    /\ \A k, l \in Attempts : AttemptOpen(k) /\ AttemptOpen(l) => k = l

Started(e) == StartBuilding(StartPlanning(StartProvisioning(e)))

\* What an open session is about to write.
RequestFresh(h) ==
    /\ request[h].base = row
    /\ h \in ApproveRequests => CanApprove(row) /\ request[h].new = Approve(row)
    /\ h \in CancelRequests =>
          CanRequestCancellation(row) /\ request[h].new = RequestCancellation(row)

CleanupFresh == cleanup.base = row /\ CanCancel(row) /\ cleanup.new = Cancel(row)

AttemptFresh(k) ==
    LET a == attempt[k]
    IN  /\ a.at = "enqueue.read" =>
               a.base = row /\ CanStartProvisioning(row) /\ a.new = Started(row)
        /\ a.at = "enqueue.reread" =>
               /\ a.base = row
               /\ a.new = row \/ (CanStartProvisioning(row) /\ a.new = Started(row))
        /\ a.at = "verify.read" =>
               /\ WithinBudget(row, a.verdict.cost)
               /\ CanStartVerification(row)
               /\ a.new = AfterVerification(row, a.verdict)
        /\ a.at \in {"deliver.read", "deliver.reread"} =>
               a.base = row /\ CanDeliver(row) /\ a.new = Deliver(row)

\* Where the row can be: before the first attempt it has not been worked on, and
\* one attempt at most delivers, an execution that is DELIVERING or that a repeated
\* START has cancelled meanwhile.
Early == {"AWAITING_APPROVAL", "QUEUED", "CANCELLED"}
Worked == {"BUILDING", "AWAITING_HUMAN", "DELIVERING", "DELIVERED"}
Delivers(k) == attempt[k].at \in {"open", "deliver", "deliver.read", "deliver.reread"}
Withdrawn == row.status = "CANCELLED" /\ Restarted /\ row.attempt_count > 0
Placed ==
    /\ row.status \in Early \cup Worked
    /\ (\A k \in Attempts : attempt[k].at = "new") => row.status \in Early
    /\ row.status = "DELIVERING" => row.attempt_count > 0
    /\ \A k \in Attempts : Delivers(k) => row.status = "DELIVERING" \/ Withdrawn
    /\ \A k, l \in Attempts : Delivers(k) /\ Delivers(l) => k = l

Serial ==
    /\ Alone
    /\ \A h \in Requests : RequestOpen(h) => RequestFresh(h)
    /\ CleanupOpen => CleanupFresh
    /\ \A k \in Attempts : AttemptOpen(k) => AttemptFresh(k)
    /\ Placed

\* How a serial step can change the row, the history and the pull request.
Kept == row' = row /\ judged' = judged
Still == Approved' = Approved /\ Restarted' = Restarted
RowStep ==
    \/ /\ Kept /\ pullRequest' = pullRequest
       /\ Approved' = Approved /\ (Restarted => Restarted')
    \/ Kept /\ (CanDeliver(row) \/ Withdrawn) /\ pullRequest' /\ Still
    \/ /\ CanApprove(row)
       /\ row' = Approve(row)
       /\ Approved' /\ Restarted' = Restarted
       /\ judged' = judged /\ pullRequest' = pullRequest
    \/ /\ \/ CanRequestCancellation(row) /\ row' = RequestCancellation(row)
          \/ (row.status \in Early \/ Restarted) /\ CanCancel(row) /\ row' = Cancel(row)
          \/ CanStartProvisioning(row) /\ row' = Started(row)
          \/ CanDeliver(row) /\ pullRequest /\ row' = Deliver(row)
       /\ judged' = judged /\ pullRequest' = pullRequest /\ Still
    \/ /\ \E v \in Verdict :
             /\ WithinBudget(row, v.cost)
             /\ CanStartVerification(row)
             /\ row' = AfterVerification(row, v)
       /\ judged' = judged + 1
       /\ pullRequest' = pullRequest /\ Still

\* A session that has read the row as it is committed flushes all it computed.
LEMMA FlushedNew ==
    ASSUME row \in Execution, NEW s, s.new \in Execution, s.base = row
    PROVE  Flushed(s) = s.new
BY DEF Flushed, Column, Execution

\* What the commands do to the status, the columns and the totals.
LEMMA CommandEffect ==
    ASSUME NEW e \in Execution
    PROVE  /\ Approve(e).status = "QUEUED"
           /\ Approve(e).approval_status = "APPROVED"
           /\ Approve(e).result_reference = e.result_reference
           /\ Approve(e).attempt_count = e.attempt_count
           /\ RequestCancellation(e).status = e.status
           /\ RequestCancellation(e).approval_status = e.approval_status
           /\ RequestCancellation(e).result_reference = e.result_reference
           /\ RequestCancellation(e).attempt_count = e.attempt_count
           /\ Cancel(e).status = "CANCELLED"
           /\ Cancel(e).approval_status = e.approval_status
           /\ Cancel(e).result_reference = e.result_reference
           /\ Cancel(e).attempt_count = e.attempt_count
           /\ Started(e).status = "BUILDING"
           /\ Started(e).approval_status = e.approval_status
           /\ Started(e).result_reference = e.result_reference
           /\ Started(e).attempt_count = e.attempt_count
           /\ Deliver(e).status = "DELIVERED"
           /\ Deliver(e).approval_status = e.approval_status
           /\ Deliver(e).result_reference = "pull_request"
           /\ Deliver(e).attempt_count = e.attempt_count
           /\ Approve(e).cancellation_requested = e.cancellation_requested
           /\ RequestCancellation(e).cancellation_requested
           /\ Cancel(e).cancellation_requested = e.cancellation_requested
           /\ Started(e).cancellation_requested = e.cancellation_requested
           /\ Deliver(e).cancellation_requested = e.cancellation_requested
BY DEF Execution, Approve, RequestCancellation, Cancel, Started, StartBuilding,
       StartPlanning, StartProvisioning, Deliver

\* The judgement of a result counts one attempt, leads on to the delivery, to a
\* repair while attempts are left, or to a human, and changes no other column.
LEMMA AfterVerificationEffect ==
    ASSUME NEW e \in Execution, NEW v \in Verdict
    PROVE  LET n == AfterVerification(e, v)
           IN  /\ n.attempt_count = e.attempt_count + 1
               /\ n.status \in {"DELIVERING", IF n.attempt_count < MaxAttempts
                                              THEN "BUILDING" ELSE "AWAITING_HUMAN"}
               /\ n.approval_status = e.approval_status
               /\ n.result_reference = e.result_reference
               /\ n.cancellation_requested = e.cancellation_requested
<1> DEFINE used == StartVerification(RecordUsage(e, v.cost))
           repair == RequestRepair(used)
<1>1. /\ used.attempt_count = e.attempt_count + 1
      /\ used.approval_status = e.approval_status
      /\ used.result_reference = e.result_reference
      /\ used.cancellation_requested = e.cancellation_requested
      /\ used = [used EXCEPT !.status = "VERIFYING"]
  BY DEF Execution, StartVerification, RecordUsage
<1>2. e.attempt_count + 1 \in Nat /\ MaxAttempts \in Nat
  BY BudgetAssumption DEF Execution
<1>3. DOMAIN used = {"approval_status", "status", "attempt_count", "cost",
                     "cancellation_requested", "result_reference"}
  BY DEF Execution, StartVerification, RecordUsage
<1> HIDE DEF used
<1>4. /\ repair.status = IF used.attempt_count >= MaxAttempts
                         THEN "AWAITING_HUMAN" ELSE "REPAIRING"
      /\ repair.attempt_count = used.attempt_count
      /\ repair.approval_status = used.approval_status
      /\ repair.result_reference = used.result_reference
      /\ repair.cancellation_requested = used.cancellation_requested
      /\ DOMAIN repair = DOMAIN used
  BY <1>3 DEF RequestRepair
<1> HIDE DEF repair
<1>5. /\ StartBuilding(repair).status = "BUILDING"
      /\ StartBuilding(repair).attempt_count = used.attempt_count
      /\ StartBuilding(repair).approval_status = used.approval_status
      /\ StartBuilding(repair).result_reference = used.result_reference
      /\ StartBuilding(repair).cancellation_requested = used.cancellation_requested
  BY <1>3, <1>4 DEF StartBuilding
<1>6. /\ StartDelivery(used).status = "DELIVERING"
      /\ StartDelivery(used).attempt_count = used.attempt_count
      /\ StartDelivery(used).approval_status = used.approval_status
      /\ StartDelivery(used).result_reference = used.result_reference
      /\ StartDelivery(used).cancellation_requested = used.cancellation_requested
  BY <1>3 DEF StartDelivery
<1>7. AfterVerification(e, v) =
          IF Verified(v) THEN StartDelivery(used)
          ELSE IF repair.status = "REPAIRING" THEN StartBuilding(repair) ELSE repair
  BY DEF AfterVerification, used, repair
<1> QED
  BY <1>1, <1>2, <1>4, <1>5, <1>6, <1>7

\* The initial state is serial.
LEMMA InitSerial == Init => Serial
<1> SUFFICES ASSUME Init PROVE Serial
  OBVIOUS
<1>1. /\ \A h \in Requests : ~RequestOpen(h)
      /\ ~CleanupOpen
      /\ \A k \in Attempts : ~AttemptOpen(k) /\ ~Delivers(k)
      /\ row.status = "AWAITING_APPROVAL"
  BY DEF Init, RequestOpen, CleanupOpen, AttemptOpen, AttemptSession, Delivers, NewExecution
<1> QED
  BY <1>1 DEF Serial, Alone, Placed, Early

\* After a step that leaves no session open, only the places of the attempts matter.
LEMMA NobodyOpen ==
    ASSUME ~SessionOpen', Placed'
    PROVE  Serial'
BY DEF SessionOpen, Serial, Alone, RequestOpen, CleanupOpen, AttemptOpen

\* If one session closes and no other changes, no session is open.
LEMMA SessionCloses ==
    ASSUME Alone
    PROVE  /\ \A h \in Requests :
                 /\ RequestOpen(h)
                 /\ request'[h].at \notin {"read", "reread"}
                 /\ \A i \in Requests \ {h} : request'[i] = request[i]
                 /\ UNCHANGED <<cleanup, attempt>>
                 => ~SessionOpen'
           /\ CleanupOpen /\ cleanup'.at \notin {"read", "reread"}
              /\ UNCHANGED <<request, attempt>> => ~SessionOpen'
           /\ \A k \in Attempts :
                 /\ AttemptOpen(k)
                 /\ attempt'[k].at \notin AttemptSession
                 /\ \A l \in Attempts \ {k} : attempt'[l] = attempt[l]
                 /\ UNCHANGED <<request, cleanup>>
                 => ~SessionOpen'
BY DEF Alone, SessionOpen, RequestOpen, CleanupOpen, AttemptOpen

\* A step of one request that leaves the row alone keeps the sessions serial if
\* it opens a session only where none is open.
LEMMA RequestKeepsSerial ==
    ASSUME Serial, NEW h \in Requests,
           \A i \in Requests \ {h} : request'[i] = request[i],
           UNCHANGED <<row, cleanup, attempt>>, Restarted => Restarted',
           RequestOpen(h)' => RequestOpen(h) \/ ~SessionOpen,
           RequestOpen(h)' => RequestFresh(h)'
    PROVE  Serial'
<1>1. Placed'
  BY DEF Serial, Placed, Delivers, Withdrawn
<1>2. Alone'
  BY DEF Serial, Alone, SessionOpen, RequestOpen, CleanupOpen, AttemptOpen
<1>3. \A i \in Requests : RequestOpen(i)' => RequestFresh(i)'
  <2> SUFFICES ASSUME NEW i \in Requests \ {h}, RequestOpen(i)' PROVE RequestFresh(i)'
    OBVIOUS
  <2> QED
    BY DEF Serial, RequestOpen, RequestFresh
<1>4. CleanupOpen' => CleanupFresh'
  BY DEF Serial, CleanupOpen, CleanupFresh
<1>5. \A k \in Attempts : AttemptOpen(k)' => AttemptFresh(k)'
  <2> SUFFICES ASSUME NEW k \in Attempts, AttemptOpen(k) PROVE AttemptFresh(k)'
    BY DEF AttemptOpen
  <2>1. AttemptFresh(k)
    BY DEF Serial
  <2> QED
    BY <2>1 DEF AttemptFresh
<1> QED
  BY <1>1, <1>2, <1>3, <1>4, <1>5 DEF Serial

\* The same for the cancel activity.
LEMMA CleanupKeepsSerial ==
    ASSUME Serial, UNCHANGED <<row, request, attempt>>, Restarted => Restarted',
           CleanupOpen' => CleanupOpen \/ ~SessionOpen,
           CleanupOpen' => CleanupFresh'
    PROVE  Serial'
<1>1. Placed'
  BY DEF Serial, Placed, Delivers, Withdrawn
<1>2. Alone'
  BY DEF Serial, Alone, SessionOpen, RequestOpen, CleanupOpen, AttemptOpen
<1>3. \A i \in Requests : RequestOpen(i)' => RequestFresh(i)'
  BY DEF Serial, RequestOpen, RequestFresh
<1>4. \A k \in Attempts : AttemptOpen(k)' => AttemptFresh(k)'
  <2> SUFFICES ASSUME NEW k \in Attempts, AttemptOpen(k) PROVE AttemptFresh(k)'
    BY DEF AttemptOpen
  <2>1. AttemptFresh(k)
    BY DEF Serial
  <2> QED
    BY <2>1 DEF AttemptFresh
<1> QED
  BY <1>1, <1>2, <1>3, <1>4 DEF Serial

\* The same for an attempt, which moreover may not begin to deliver.
LEMMA AttemptKeepsSerial ==
    ASSUME Serial, NEW k \in Attempts,
           \A l \in Attempts \ {k} : attempt'[l] = attempt[l],
           UNCHANGED <<row, request, cleanup>>, Restarted => Restarted',
           attempt'[k].at = "new" => attempt[k].at = "new",
           (\A l \in Attempts : attempt[l].at = "new") => row.status \in Early,
           Delivers(k)' => Delivers(k),
           AttemptOpen(k)' => AttemptOpen(k) \/ ~SessionOpen,
           AttemptOpen(k)' => AttemptFresh(k)'
    PROVE  Serial'
<1>1. Placed'
  <2>1. \A l \in Attempts : Delivers(l)' => Delivers(l)
    BY DEF Delivers
  <2>2. (\A l \in Attempts : attempt'[l].at = "new") => \A l \in Attempts : attempt[l].at = "new"
    OBVIOUS
  <2> QED
    BY <2>1, <2>2 DEF Serial, Placed, Withdrawn
<1>2. Alone'
  BY DEF Serial, Alone, SessionOpen, RequestOpen, CleanupOpen, AttemptOpen
<1>3. \A i \in Requests : RequestOpen(i)' => RequestFresh(i)'
  BY DEF Serial, RequestOpen, RequestFresh
<1>4. CleanupOpen' => CleanupFresh'
  BY DEF Serial, CleanupOpen, CleanupFresh
<1>5. \A l \in Attempts : AttemptOpen(l)' => AttemptFresh(l)'
  <2> SUFFICES ASSUME NEW l \in Attempts \ {k}, AttemptOpen(l)' PROVE AttemptFresh(l)'
    OBVIOUS
  <2>1. AttemptFresh(l) /\ attempt'[l] = attempt[l]
    BY DEF Serial, AttemptOpen
  <2> QED
    BY <2>1 DEF AttemptFresh
<1> QED
  BY <1>1, <1>2, <1>3, <1>4, <1>5 DEF Serial

\* The sessions of the requests stay serial, and what they commit is the effect
\* of their command on the committed row.
LEMMA ApiSerial ==
    ASSUME ~Overlap, TypeOK, Serial,
           Api \/ ApiSession \/ \E h \in Requests : RequestCrashes(h)
    PROVE  Serial' /\ RowStep
<1> USE DEF TypeOK
<1>0. Restarted' = Restarted
  BY DEF Api, ApiSession, ApproveExecution, CancelExecution, RequestReads, RequestRereads,
         RequestCommits, RequestCrashes, Restarted
<1>1. ASSUME NEW h \in Requests, request[h].at # "committed",
             request'[h].at # "committed",
             \A i \in Requests \ {h} : request'[i] = request[i],
             UNCHANGED <<row, judged, pullRequest>>
      PROVE  RowStep
  <2>1. Approved' = Approved
    BY <1>1 DEF Approved, Requests
  <2> QED
    BY <1>0, <1>1, <2>1 DEF RowStep, Kept
<1>2. ASSUME NEW h \in Requests,
             \/ h \in ApproveRequests /\ ApproveExecution(h)
             \/ h \in CancelRequests /\ CancelExecution(h)
      PROVE  Serial' /\ RowStep
  <2>1. /\ request[h].at = "new" /\ ~SessionOpen
        /\ \A i \in Requests \ {h} : request'[i] = request[i]
        /\ UNCHANGED <<row, cleanup, attempt, judged, pullRequest>>
    BY <1>2 DEF ApproveExecution, CancelExecution, RequestReads, MayRead
  <2>2. h \in ApproveRequests => h \notin CancelRequests
    BY DeliveryAssumption
  <2>3. \/ /\ request'[h].at = "read" /\ request'[h].base = row
           /\ h \in ApproveRequests => CanApprove(row) /\ request'[h].new = Approve(row)
           /\ h \in CancelRequests =>
                 CanRequestCancellation(row) /\ request'[h].new = RequestCancellation(row)
        \/ request'[h].at = "rejected"
    <3>1. CASE h \in ApproveRequests /\ ApproveExecution(h)
      BY <2>2, <3>1 DEF ApproveExecution, RequestReads, Session
    <3>2. CASE h \in CancelRequests /\ CancelExecution(h)
      BY <2>2, <3>2 DEF CancelExecution, RequestReads, Session
    <3> QED
      BY <1>2, <3>1, <3>2
  <2>4. RequestOpen(h)' => RequestFresh(h)'
    BY <2>1, <2>3 DEF RequestOpen, RequestFresh, CanApprove, CanRequestCancellation
  <2>5. Serial'
    BY <1>0, <2>1, <2>4, RequestKeepsSerial
  <2> QED
    BY <1>1, <2>1, <2>3, <2>5
<1>3. ASSUME NEW h \in Requests, RequestRereads(h) PROVE Serial' /\ RowStep
  <2>1. /\ RequestOpen(h) /\ request'[h].at = "reread"
        /\ request'[h].new = request[h].new /\ request'[h].base = row
        /\ \A i \in Requests \ {h} : request'[i] = request[i]
        /\ UNCHANGED <<row, cleanup, attempt, judged, pullRequest>>
    BY <1>3 DEF RequestRereads, RequestOpen, Session
  <2>2. RequestFresh(h)
    BY <2>1 DEF Serial
  <2>3. RequestFresh(h)'
    BY <2>1, <2>2 DEF RequestFresh, CanApprove, CanRequestCancellation
  <2>4. Serial'
    BY <1>0, <2>1, <2>3, RequestKeepsSerial
  <2> QED
    BY <1>1, <2>1, <2>4 DEF RequestOpen
<1>4. ASSUME NEW h \in Requests, RequestCrashes(h) PROVE Serial' /\ RowStep
  <2>1. /\ RequestOpen(h) /\ request'[h].at = "rejected"
        /\ \A i \in Requests \ {h} : request'[i] = request[i]
        /\ UNCHANGED <<row, cleanup, attempt, judged, pullRequest>>
    BY <1>4 DEF RequestCrashes, Leave, RequestOpen, Session
  <2>2. Serial'
    BY <1>0, <2>1, RequestKeepsSerial DEF RequestOpen
  <2> QED
    BY <1>1, <2>1, <2>2 DEF RequestOpen
<1>5. ASSUME NEW h \in Requests, RequestCommits(h) PROVE Serial' /\ RowStep
  <2>1. /\ RequestOpen(h) /\ request[h] \in Session(RequestStep)
        /\ request'[h].at = "committed"
        /\ \A i \in Requests \ {h} : request'[i] = request[i]
        /\ UNCHANGED <<cleanup, attempt, judged, pullRequest>>
        /\ row' = Flushed(request[h])
    BY <1>5 DEF RequestCommits, Leave, RequestOpen, Session
  <2>2. ~SessionOpen'
    BY <2>1, SessionCloses DEF Serial
  <2>3. RequestFresh(h)
    BY <2>1 DEF Serial
  <2>4. row' = request[h].new
    BY <2>1, <2>3, FlushedNew, RequestFieldType DEF RequestFresh
  <2>5. CASE h \in ApproveRequests
    <3>1. CanApprove(row) /\ row' = Approve(row)
      BY <2>3, <2>4, <2>5 DEF RequestFresh
    <3>2. Approved'
      BY <2>1, <2>5 DEF Approved
    <3>3. Placed'
      BY <2>1, <3>1, CommandEffect DEF Serial, Placed, Delivers, Withdrawn, CanApprove, Early
    <3> QED
      BY <1>0, <2>1, <2>2, <3>1, <3>2, <3>3, NobodyOpen DEF RowStep
  <2>6. CASE h \in CancelRequests
    <3>1. CanRequestCancellation(row) /\ row' = RequestCancellation(row)
      BY <2>3, <2>4, <2>6 DEF RequestFresh
    <3>2. h \notin ApproveRequests
      BY <2>6, DeliveryAssumption
    <3>3. Approved' = Approved
      BY <2>1, <3>2 DEF Approved, Requests
    <3>4. Placed'
      BY <1>0, <2>1, <3>1, CommandEffect DEF Serial, Placed, Delivers, Withdrawn
    <3> QED
      BY <1>0, <2>1, <2>2, <3>1, <3>3, <3>4, NobodyOpen DEF RowStep, Still
  <2> QED
    BY <2>5, <2>6 DEF Requests
<1> QED
  BY <1>2, <1>3, <1>4, <1>5 DEF Api, ApiSession, Requests

\* In a first run the cancel activity runs only if no attempt was made, so that it
\* cancels an execution that was not worked on; in a later run it may be any.
LEMMA CleanupSerial ==
    ASSUME ~Overlap, TypeOK, Control, Serial, Cleanup \/ CleanupCrashes
    PROVE  Serial' /\ RowStep
<1> USE DEF TypeOK
<1>1. /\ Still
      /\ UNCHANGED <<judged, pullRequest, request, attempt>>
  BY DEF Cleanup, CleanupReads, CleanupRereads, CleanupCommits, CleanupCrashes, Approved,
         Restarted, Still
<1>2. CASE CleanupReads
  <2>1. /\ ~SessionOpen
        /\ \/ cleanup'.at = "done"
           \/ cleanup'.base = row /\ CanCancel(row) /\ cleanup'.new = Cancel(row)
        /\ UNCHANGED <<row, request, attempt>>
    BY <1>2 DEF CleanupReads, MayRead, Session
  <2>2. CleanupOpen' => CleanupFresh'
    BY <2>1 DEF CleanupOpen, CleanupFresh, CanCancel
  <2> QED
    BY <1>1, <2>1, <2>2, CleanupKeepsSerial DEF RowStep, Kept, Still
<1>3. CASE CleanupRereads
  <2>1. /\ CleanupOpen
        /\ cleanup'.base = row /\ cleanup'.new = cleanup.new
        /\ UNCHANGED <<row, request, attempt>>
    BY <1>3 DEF CleanupRereads, CleanupOpen, Session
  <2>2. CleanupFresh'
    BY <2>1 DEF Serial, CleanupFresh, CanCancel
  <2> QED
    BY <1>1, <2>1, <2>2, CleanupKeepsSerial DEF RowStep, Kept, Still
<1>4. CASE CleanupCrashes
  <2>1. ~CleanupOpen' /\ UNCHANGED <<row, request, attempt>>
    BY <1>4 DEF CleanupCrashes, Leave, CleanupOpen, Session
  <2> QED
    BY <1>1, <2>1, CleanupKeepsSerial DEF RowStep, Kept, Still
<1>5. CASE CleanupCommits
  <2>1. /\ CleanupOpen /\ cleanup.at # "new" /\ cleanup \in Session(CleanupStep)
        /\ cleanup'.at = "done"
        /\ row' = Flushed(cleanup)
    BY <1>5 DEF CleanupCommits, Leave, CleanupOpen, Session
  <2>2. ~SessionOpen'
    BY <1>1, <2>1, SessionCloses DEF Serial
  <2>3. /\ cleanup.base = row /\ CanCancel(row)
        /\ cleanup.new = Cancel(row) /\ cleanup.new \in Execution
    BY <2>1 DEF Serial, CleanupFresh, Session
  <2>4. row' = Cancel(row)
    BY <2>1, <2>3, FlushedNew
  <2>5. Restarted \/ \A k \in Attempts : attempt[k].at = "new"
    BY <2>1, UntouchedAtFirst DEF Control, Undecided
  <2>6. row.status \in Early \/ Restarted
    BY <2>5 DEF Serial, Placed
  <2>7. row'.status = "CANCELLED" /\ row'.attempt_count = row.attempt_count
    BY <2>4, CommandEffect
  <2>8. \A k \in Attempts : Delivers(k)' => Withdrawn'
    <3> SUFFICES ASSUME NEW k \in Attempts, Delivers(k) PROVE Withdrawn'
      BY <1>1 DEF Delivers
    <3>1. Restarted /\ row.attempt_count > 0
      BY <2>5 DEF Serial, Placed, Delivers, Withdrawn
    <3> QED
      BY <1>1, <2>7, <3>1 DEF Withdrawn, Still
  <2>9. Placed'
    BY <1>1, <2>7, <2>8 DEF Serial, Placed, Delivers, Early
  <2> QED
    BY <1>1, <2>2, <2>3, <2>4, <2>6, <2>9, NobodyOpen DEF RowStep
<1> QED
  BY <1>2, <1>3, <1>4, <1>5 DEF Cleanup

\* The attempts of the delivery activity stay serial: what they judge and
\* deliver is the row as it is committed.
LEMMA AttemptSerial ==
    ASSUME ~Overlap, TypeOK, Control, Evidence, Serial, NEW k \in Attempts,
           Attempt(k) \/ AttemptCrashes(k) \/ AttemptTimesOut(k)
    PROVE  Serial' /\ RowStep
<1> USE DEF TypeOK
<1>1. /\ attempt[k] \in ActivityAttempt /\ attempt[k].at # "new"
      /\ \A l \in Attempts \ {k} : attempt'[l] = attempt[l]
      /\ UNCHANGED <<request, cleanup>>
      /\ Still
  <2>1. CASE Attempt(k)
    BY <2>1, AttemptFrame DEF Approved, Restarted, Still
  <2>2. CASE AttemptCrashes(k)
    BY <2>2 DEF AttemptCrashes, AttemptRunning, AttemptSession, Approved, Restarted, Still
  <2>3. CASE AttemptTimesOut(k)
    BY <2>3 DEF AttemptTimesOut, AttemptRunning, AttemptSession, Approved, Restarted, Still
  <2> QED
    BY <2>1, <2>2, <2>3
<1>2. AttemptOpen(k) => AttemptFresh(k)
  BY DEF Serial
<1>3. ASSUME attempt'[k].at # "new", row' = row,
             Delivers(k)' => Delivers(k),
             AttemptOpen(k)' => AttemptOpen(k) \/ ~SessionOpen,
             AttemptOpen(k)' => AttemptFresh(k)'
      PROVE  Serial'
  BY <1>1, <1>3, AttemptKeepsSerial DEF Serial, Placed, Still
<1>4. ASSUME AttemptOpen(k), attempt'[k].at \notin AttemptSession, Placed'
      PROVE  Serial'
  BY <1>1, <1>4, SessionCloses, NobodyOpen DEF Serial
<1>5. ASSUME attempt'[k].at # "new", ~Delivers(k)',
             row'.status \in {"BUILDING", "AWAITING_HUMAN", "DELIVERED"},
             \A l \in Attempts \ {k} : ~Delivers(l)
      PROVE  Placed'
  <2>1. \A l \in Attempts : ~Delivers(l)'
    BY <1>1, <1>5 DEF Delivers
  <2> QED
    BY <1>5, <2>1 DEF Placed, Worked
<1>6. CASE EnqueueReads(k)
  <2>1. /\ ~SessionOpen
        /\ UNCHANGED <<row, judged, pullRequest>>
        /\ attempt'[k].at \in {"enqueue.read", "enqueue.reread"}
        /\ attempt'[k].base = row
        /\ attempt'[k].at = "enqueue.read" =>
              CanStartProvisioning(row) /\ attempt'[k].new = Started(row)
        /\ attempt'[k].at = "enqueue.reread" => attempt'[k].new = row
    BY <1>1, <1>6 DEF EnqueueReads, MayRead, ActivityAttempt, Started
  <2>2. AttemptFresh(k)'
    BY <2>1 DEF AttemptFresh, CanStartProvisioning
  <2> QED
    BY <1>1, <1>3, <2>1, <2>2 DEF Delivers, RowStep, Kept, Still
<1>7. CASE EnqueueRereads(k)
  <2>1. /\ attempt[k].at = "enqueue.read"
        /\ UNCHANGED <<row, judged, pullRequest>>
        /\ attempt'[k].at = "enqueue.reread"
        /\ attempt'[k].base = row
        /\ attempt'[k].new = attempt[k].new
    BY <1>1, <1>7 DEF EnqueueRereads, ActivityAttempt
  <2>2. AttemptOpen(k)
    BY <2>1 DEF AttemptOpen, AttemptSession
  <2>3. AttemptFresh(k)'
    BY <1>2, <2>1, <2>2 DEF AttemptFresh, CanStartProvisioning
  <2> QED
    BY <1>1, <1>3, <2>1, <2>2, <2>3 DEF Delivers, RowStep, Kept, Still
<1>8. CASE EnqueueCommits(k)
  <2>1. /\ attempt[k].at = "enqueue.reread"
        /\ UNCHANGED <<judged, pullRequest>>
        /\ attempt'[k].at = "poll"
        /\ row' = Flushed(attempt[k])
        /\ attempt[k].new \in Execution
    BY <1>1, <1>8 DEF EnqueueCommits, Leave, ActivityAttempt
  <2>2. AttemptOpen(k)
    BY <2>1 DEF AttemptOpen, AttemptSession
  <2>3. /\ attempt[k].base = row
        /\ \/ attempt[k].new = row
           \/ CanStartProvisioning(row) /\ attempt[k].new = Started(row)
    BY <1>2, <2>1, <2>2 DEF AttemptFresh
  <2>4. row' = attempt[k].new
    BY <2>1, <2>3, FlushedNew
  <2>5. CASE attempt[k].new = row
    <3>1. row' = row
      BY <2>4, <2>5
    <3> QED
      BY <1>1, <1>3, <2>1, <3>1 DEF Delivers, AttemptOpen, AttemptSession, RowStep, Kept, Still
  <2>6. CASE CanStartProvisioning(row) /\ attempt[k].new = Started(row)
    <3>1. row'.status = "BUILDING" /\ row' = Started(row)
      BY <2>4, <2>6, CommandEffect
    <3>2. \A l \in Attempts : ~Delivers(l)
      BY <2>6 DEF Serial, Placed, Withdrawn, CanStartProvisioning
    <3>3. Placed'
      BY <1>5, <2>1, <3>1, <3>2 DEF Delivers
    <3>4. Serial'
      BY <1>4, <2>1, <2>2, <3>3 DEF AttemptSession
    <3> QED
      BY <1>1, <2>1, <2>6, <3>1, <3>4 DEF RowStep
  <2> QED
    BY <2>3, <2>5, <2>6
<1>9. CASE PollReads(k)
  <2>1. /\ ~SessionOpen /\ attempt[k].at = "poll"
        /\ UNCHANGED <<row, judged, pullRequest>>
        /\ \/ attempt'[k].at = "failed"
           \/ /\ attempt'[k].at = "verify.read"
              /\ WithinBudget(row, attempt'[k].verdict.cost)
              /\ CanStartVerification(row)
              /\ attempt'[k].new = AfterVerification(row, attempt'[k].verdict)
    BY <1>1, <1>9 DEF PollReads, MayRead, ActivityAttempt
  <2>2. AttemptOpen(k)' => AttemptFresh(k)'
    BY <2>1 DEF AttemptOpen, AttemptSession, AttemptFresh, WithinBudget,
                CanStartVerification, AfterVerification, RecordUsage, StartVerification,
                StartDelivery, RequestRepair, StartBuilding
  <2> QED
    BY <1>1, <1>3, <2>1, <2>2 DEF Delivers, RowStep, Kept, Still
<1>10. CASE CreatePullRequest(k)
  <2>1. /\ Delivers(k) /\ UNCHANGED <<row, judged>>
        /\ pullRequest' = pullRequest \/ pullRequest'
    <3>1. attempt'[k].at \in {"deliver", "failed"}
      BY <1>1, <1>10 DEF CreatePullRequest, ActivityAttempt
    <3>2. pullRequest' \in BOOLEAN
      BY <1>10 DEF CreatePullRequest
    <3> QED
      BY <1>10, <3>1, <3>2 DEF CreatePullRequest, Delivers
  <2>4. attempt'[k].at \in {"deliver", "failed"}
    BY <1>1, <1>10 DEF CreatePullRequest, ActivityAttempt
  <2>2. CanDeliver(row) \/ Withdrawn
    BY <2>1 DEF Serial, Placed, CanDeliver
  <2>3. Serial'
    BY <1>3, <2>1, <2>4 DEF AttemptOpen, AttemptSession
  <2> QED
    BY <1>1, <2>1, <2>2, <2>3 DEF RowStep, Kept, Still
<1>11. CASE DeliverReads(k)
  <2>1. /\ ~SessionOpen /\ Delivers(k)
        /\ UNCHANGED <<row, judged, pullRequest>>
        /\ \/ attempt'[k].at = "failed"
           \/ /\ attempt'[k].at = "deliver.read" /\ attempt'[k].base = row
              /\ CanDeliver(row) /\ attempt'[k].new = Deliver(row)
    BY <1>1, <1>11 DEF DeliverReads, MayRead, Delivers, ActivityAttempt
  <2>2. AttemptOpen(k)' => AttemptFresh(k)'
    BY <2>1 DEF AttemptOpen, AttemptSession, AttemptFresh, CanDeliver, Deliver
  <2> QED
    BY <1>1, <1>3, <2>1, <2>2 DEF RowStep, Kept, Still
<1>12. CASE DeliverRereads(k)
  <2>1. /\ attempt[k].at = "deliver.read"
        /\ UNCHANGED <<row, judged, pullRequest>>
        /\ attempt'[k].at = "deliver.reread"
        /\ attempt'[k].base = row
        /\ attempt'[k].new = attempt[k].new
    BY <1>1, <1>12 DEF DeliverRereads, ActivityAttempt
  <2>2. AttemptOpen(k) /\ Delivers(k)
    BY <2>1 DEF AttemptOpen, AttemptSession, Delivers
  <2>3. AttemptFresh(k)'
    BY <1>2, <2>1, <2>2 DEF AttemptFresh, CanDeliver, Deliver
  <2> QED
    BY <1>1, <1>3, <2>1, <2>2, <2>3 DEF RowStep, Kept, Still
<1>13. CASE DeliverCommits(k)
  <2>1. /\ attempt[k].at = "deliver.reread"
        /\ UNCHANGED <<judged, pullRequest>>
        /\ attempt'[k].at = "returned"
        /\ row' = Flushed(attempt[k])
        /\ attempt[k].new \in Execution
    BY <1>1, <1>13 DEF DeliverCommits, Leave, ActivityAttempt
  <2>2. AttemptOpen(k) /\ Delivers(k)
    BY <2>1 DEF AttemptOpen, AttemptSession, Delivers
  <2>3. attempt[k].base = row /\ CanDeliver(row) /\ attempt[k].new = Deliver(row)
    BY <1>2, <2>1, <2>2 DEF AttemptFresh
  <2>4. row' = Deliver(row) /\ row'.status = "DELIVERED"
    BY <2>1, <2>3, FlushedNew, CommandEffect
  <2>5. pullRequest
    BY <2>1 DEF Evidence, AttemptSound
  <2>6. \A l \in Attempts \ {k} : ~Delivers(l)
    BY <2>2 DEF Serial, Placed
  <2>7. Placed'
    BY <1>5, <2>1, <2>4, <2>6 DEF Delivers
  <2>8. Serial'
    BY <1>4, <2>1, <2>2, <2>7 DEF AttemptSession
  <2> QED
    BY <1>1, <2>1, <2>3, <2>4, <2>5, <2>8 DEF RowStep
<1>14. CASE VerifyCommits(k)
  <2>1. /\ attempt[k].at = "verify.read" /\ AttemptOpen(k)
        /\ row' = attempt[k].new
        /\ judged' = judged + 1 /\ pullRequest' = pullRequest
        /\ attempt[k].new \in Execution /\ attempt[k].verdict \in Verdict
    BY <1>1, <1>14 DEF VerifyCommits, ActivityAttempt, AttemptOpen, AttemptSession
  <2>2. \/ attempt[k].new.status = "BUILDING" /\ attempt'[k].at = "poll"
        \/ attempt[k].new.status = "AWAITING_HUMAN" /\ attempt'[k].at = "returned"
        \/ attempt[k].new.status = "DELIVERING" /\ attempt'[k].at = "open"
    BY <1>1, <1>14 DEF VerifyCommits, Leave, ActivityAttempt
  <2>3. /\ WithinBudget(row, attempt[k].verdict.cost)
        /\ CanStartVerification(row)
        /\ attempt[k].new = AfterVerification(row, attempt[k].verdict)
    BY <1>2, <2>1 DEF AttemptFresh
  <2>4. \A l \in Attempts : ~Delivers(l)
    BY <2>3 DEF Serial, Placed, Withdrawn, CanStartVerification
  <2>5. \A l \in Attempts \ {k} : ~Delivers(l)'
    BY <1>1, <2>4 DEF Delivers
  <2>6. row'.status \in Worked /\ (Delivers(k)' => row'.status = "DELIVERING")
    BY <2>1, <2>2 DEF Delivers, Worked
  <2>9. row'.attempt_count > 0
    <3>1. row \in Execution
      OBVIOUS
    <3>2. row'.attempt_count = row.attempt_count + 1 /\ row.attempt_count \in Nat
      BY <2>1, <2>3, <3>1, AfterVerificationEffect DEF Execution
    <3> QED
      BY <3>2
  <2>7. Placed'
    BY <2>2, <2>5, <2>6, <2>9 DEF Placed
  <2>8. Serial'
    BY <1>4, <2>1, <2>2, <2>7 DEF AttemptSession
  <2> QED
    BY <1>1, <2>1, <2>3, <2>8 DEF RowStep
<1>15. CASE AttemptCrashes(k)
  <2>1. attempt'[k].at = "failed" /\ UNCHANGED <<row, judged, pullRequest>>
    BY <1>1, <1>15 DEF AttemptCrashes, Leave, ActivityAttempt
  <2> QED
    BY <1>1, <1>3, <2>1 DEF Delivers, AttemptOpen, AttemptSession, RowStep, Kept, Still
<1>16. CASE AttemptTimesOut(k)
  <2>1. /\ attempt'[k].at = attempt[k].at /\ attempt'[k].new = attempt[k].new
        /\ attempt'[k].base = attempt[k].base /\ attempt'[k].verdict = attempt[k].verdict
        /\ UNCHANGED <<row, judged, pullRequest>>
    BY <1>1, <1>16 DEF AttemptTimesOut, ActivityAttempt
  <2>2. AttemptFresh(k) => AttemptFresh(k)'
    BY <2>1 DEF AttemptFresh
  <2>3. (Delivers(k)' => Delivers(k)) /\ (AttemptOpen(k)' => AttemptOpen(k))
    BY <2>1 DEF Delivers, AttemptOpen
  <2> QED
    BY <1>1, <1>2, <1>3, <2>1, <2>2, <2>3 DEF RowStep, Kept, Still
<1> QED
  BY <1>6, <1>7, <1>8, <1>9, <1>10, <1>11, <1>12, <1>13, <1>14, <1>15, <1>16 DEF Attempt

\* The dispatcher, the workflow and the runner open no session; a first attempt
\* is made where none was made before.
LEMMA TemporalSerial ==
    ASSUME TypeOK, Control, Serial, Temporal \/ Runner
    PROVE  Serial' /\ RowStep
<1> USE DEF TypeOK
<1>1. /\ UNCHANGED <<row, request, pullRequest, judged>>
      /\ Approved' = Approved
  BY DEF Temporal, DispatchStart, DispatchSignal, WorkflowWakes, RetryDelivery, WorkflowCloses,
         Runner, RunnerLeases, RunnerCompletes, Approved
<1>2. Restarted => Restarted'
  <2>1. workflow \in Workflow /\ workflow.run \in Nat
    BY DEF Workflow
  <2>2. ASSUME NEW state \in STRING PROVE [workflow EXCEPT !.state = state].run = workflow.run
    BY <2>1 DEF Workflow
  <2>3. SUFFICES workflow'.run = workflow.run \/ workflow'.run = workflow.run + 1
    BY <2>1 DEF Restarted
  <2>4. CASE DispatchStart
    <3>1. CASE workflow' = workflow
      BY <3>1
    <3>2. CASE workflow' = [workflow EXCEPT !.state = "waiting"]
      BY <2>2, <3>2
    <3>3. CASE workflow'.run = workflow.run + 1
      BY <3>3
    <3> QED
      BY <2>4, <3>1, <3>2, <3>3 DEF DispatchStart
  <2>5. CASE WorkflowWakes \/ WorkflowCloses
    <3>1. \E state \in {"cancelling", "executing", "closed"} :
             workflow' = [workflow EXCEPT !.state = state]
      BY <2>5 DEF WorkflowWakes, WorkflowCloses
    <3> QED
      BY <2>2, <3>1
  <2>6. CASE \E h \in Requests : DispatchSignal(h)
    <3>1. /\ [workflow EXCEPT !.approved = TRUE].run = workflow.run
          /\ [workflow EXCEPT !.cancelled = TRUE].run = workflow.run
      BY <2>1 DEF Workflow
    <3> QED
      BY <2>6, <3>1 DEF DispatchSignal
  <2>7. CASE Runner \/ \E n \in Tries : RetryDelivery(n)
    BY <2>7 DEF RetryDelivery, Runner, RunnerLeases, RunnerCompletes
  <2> QED
    BY <2>4, <2>5, <2>6, <2>7 DEF Temporal
<1>3. RowStep
  BY <1>1, <1>2 DEF RowStep, Kept
<1>4. ASSUME UNCHANGED <<cleanup, attempt>> PROVE Serial'
  <2>1. cleanup' = cleanup /\ row' = row
    BY <1>1, <1>4
  <2> QED
    BY <1>1, <1>2, <1>4, <2>1, CleanupKeepsSerial DEF CleanupOpen, CleanupFresh, CanCancel, Serial
<1>5. ASSUME NEW k \in Attempts, attempt[k].at = "new", UNCHANGED cleanup,
             attempt' = [attempt EXCEPT ![k].at = "enqueue"]
      PROVE  Serial'
  <2>1. attempt[k] \in ActivityAttempt
    OBVIOUS
  <2>2. /\ attempt'[k].at = "enqueue"
        /\ \A l \in Attempts \ {k} : attempt'[l] = attempt[l]
    BY <1>5, <2>1 DEF ActivityAttempt
  <2>3. (\A l \in Attempts : attempt[l].at = "new") => row.status \in Early
    BY DEF Serial, Placed
  <2> QED
    BY <1>1, <1>2, <1>5, <2>2, <2>3, AttemptKeepsSerial DEF Delivers, AttemptOpen, AttemptSession
<1>6. CASE WorkflowWakes
  <2>1. /\ UNCHANGED cleanup
        /\ UNCHANGED attempt \/ attempt' = [attempt EXCEPT ![<<workflow.run, 1>>].at = "enqueue"]
    BY <1>6 DEF WorkflowWakes
  <2>2. Serial'
    BY <1>4, <1>5, <1>6, <2>1, FirstTryIsNew
  <2> QED
    BY <1>3, <2>2
<1>7. ASSUME NEW n \in Tries, RetryDelivery(n) PROVE Serial' /\ RowStep
  <2>1. /\ UNCHANGED cleanup
        /\ attempt' = [attempt EXCEPT ![<<workflow.run, n + 1>>].at = "enqueue"]
    BY <1>7 DEF RetryDelivery
  <2>2. Serial'
    BY <1>5, <1>7, <2>1, NextTryIsNew
  <2> QED
    BY <1>3, <2>2
<1>8. CASE WorkflowCloses \/ Runner \/ \E h \in Requests : DispatchSignal(h)
  <2>1. UNCHANGED <<cleanup, attempt>>
    BY <1>8 DEF WorkflowCloses, DispatchSignal, Runner, RunnerLeases, RunnerCompletes
  <2> QED
    BY <1>3, <1>4, <2>1
<1>9. CASE DispatchStart
  <2>1. /\ UNCHANGED attempt
        /\ UNCHANGED cleanup \/ cleanup'.at = "new"
    BY <1>9 DEF DispatchStart, Session
  <2>2. ASSUME cleanup'.at = "new" PROVE Serial'
    <3>1. ~CleanupOpen'
      BY <2>2 DEF CleanupOpen
    <3> QED
      BY <1>1, <1>2, <2>1, <3>1, CleanupKeepsSerial
  <2> QED
    BY <1>3, <1>4, <2>1, <2>2
<1> QED
  BY <1>6, <1>7, <1>8, <1>9 DEF Temporal

\* Every step keeps the sessions serial and changes the row as RowStep says.
LEMMA StepSerial ==
    ASSUME ~Overlap, TypeOK, Control, Evidence, Serial, [Next]_vars
    PROVE  Serial' /\ RowStep
<1>1. CASE UNCHANGED vars
  <2>1. Still /\ UNCHANGED <<row, judged, pullRequest, request, cleanup, attempt>>
    BY <1>1 DEF vars, Approved, Restarted, Still
  <2> QED
    BY <2>1, CleanupKeepsSerial
       DEF CleanupOpen, CleanupFresh, CanCancel, Serial, RowStep, Kept, Still
<1>2. CASE Next
  BY <1>2, ApiSerial, TemporalSerial, CleanupSerial, AttemptSerial DEF Next, Fault
<1> QED
  BY <1>1, <1>2

\* If sessions on the row do not overlap, Serial holds in every reachable state.
THEOREM SerialHolds ==
    ASSUME ~Overlap
    PROVE  Spec => []Serial
<1>1. TypeOK /\ Control /\ Evidence /\ Serial /\ [Next]_vars => Serial'
  BY StepSerial
<1> QED
  BY InitSerial, <1>1, TypeCorrect, ControlHolds, EvidenceHolds, PTL DEF Spec

\* If sessions on the row do not overlap, every judged runner result is counted
\* as an attempt, so that max_attempts bounds the repairs.
THEOREM EveryJudgementIsCountedHolds ==
    ASSUME ~Overlap
    PROVE  Spec => []EveryJudgementIsCounted
<1>1. Init => EveryJudgementIsCounted
  BY DEF Init, NewExecution, EveryJudgementIsCounted
<1>2. TypeOK /\ EveryJudgementIsCounted /\ RowStep => EveryJudgementIsCounted'
  BY CommandEffect, AfterVerificationEffect DEF TypeOK, EveryJudgementIsCounted, RowStep, Kept
<1>3. /\ TypeOK /\ Control /\ Evidence /\ Serial
      /\ EveryJudgementIsCounted /\ [Next]_vars
      => EveryJudgementIsCounted'
  BY <1>2, StepSerial
<1> QED
  BY <1>1, <1>3, TypeCorrect, ControlHolds, EvidenceHolds, SerialHolds, PTL DEF Spec

\* If sessions on the row do not overlap, approval_status agrees with the
\* committed approvals and result_reference with the status; only a repeated
\* START leaves the reference on the row of a cancelled execution.
THEOREM ColumnsAgreeHolds ==
    ASSUME ~Overlap
    PROVE  Spec => []ColumnsAgree
<1>1. Init => ColumnsAgree
  BY DEF Init, NewExecution, ColumnsAgree, Approved, Requests
<1>2. TypeOK /\ ColumnsAgree /\ RowStep => ColumnsAgree'
  <2> SUFFICES ASSUME TypeOK, ColumnsAgree, RowStep PROVE ColumnsAgree'
    OBVIOUS
  <2>1. row \in Execution
    BY DEF TypeOK
  <2>2. CASE Kept /\ Approved' = Approved /\ (Restarted => Restarted')
    BY <2>2 DEF Kept, ColumnsAgree
  <2>3. CASE CanApprove(row) /\ row' = Approve(row) /\ Approved'
    BY <2>1, <2>3, CommandEffect DEF ColumnsAgree, CanApprove
  <2>4. CASE CanRequestCancellation(row) /\ row' = RequestCancellation(row) /\ Still
    BY <2>1, <2>4, CommandEffect DEF ColumnsAgree, CanRequestCancellation, Terminal, Still
  <2>5. CASE /\ row.status \in Early \/ Restarted
             /\ CanCancel(row) /\ row' = Cancel(row) /\ Still
    BY <2>1, <2>5, CommandEffect DEF ColumnsAgree, CanCancel, Early, Still
  <2>6. CASE /\ \/ CanStartProvisioning(row) /\ row' = Started(row)
                \/ CanDeliver(row) /\ row' = Deliver(row)
             /\ Still
    BY <2>1, <2>6, CommandEffect DEF ColumnsAgree, CanStartProvisioning, CanDeliver, Still
  <2>7. ASSUME NEW v \in Verdict, CanStartVerification(row),
               row' = AfterVerification(row, v), Still
        PROVE  ColumnsAgree'
    <3>1. /\ row'.approval_status = row.approval_status
          /\ row'.result_reference = row.result_reference
          /\ row'.status # "DELIVERED"
      BY <2>1, <2>7, AfterVerificationEffect
    <3> QED
      BY <2>7, <3>1 DEF ColumnsAgree, CanStartVerification, Still
  <2> QED
    BY <2>2, <2>3, <2>4, <2>5, <2>6, <2>7 DEF RowStep, Still
<1>3. TypeOK /\ Control /\ Evidence /\ Serial /\ ColumnsAgree /\ [Next]_vars => ColumnsAgree'
  BY <1>2, StepSerial
<1> QED
  BY <1>1, <1>3, TypeCorrect, ControlHolds, EvidenceHolds, SerialHolds, PTL DEF Spec

\* What RowStep says of the terminal statuses.
Final ==
    /\ row.status = "CANCELLED" => row' = row /\ judged' = judged
    /\ row.status = "DELIVERED" =>
          \/ row'.status = "DELIVERED"
          \/ row'.status = "CANCELLED" /\ row.cancellation_requested /\ Restarted
    /\ row.cancellation_requested => row'.cancellation_requested

\* Cancelling what is cancelled changes nothing.
LEMMA CancelledAgain ==
    ASSUME NEW e \in Execution, e.status = "CANCELLED"
    PROVE  Cancel(e) = e
BY DEF Cancel, Execution

\* If sessions on the row do not overlap, a cancelled execution stays as it is and
\* nothing more is judged for it, a delivered one can only be cancelled, by a
\* repeated START, and an accepted cancellation stays on record.
THEOREM TerminalIsFinalHolds ==
    ASSUME ~Overlap
    PROVE  Spec => TerminalIsFinal
<1>1. TypeOK /\ RowStep => Final
  <2> SUFFICES ASSUME TypeOK, RowStep PROVE Final
    OBVIOUS
  <2>1. row \in Execution
    BY DEF TypeOK
  <2>2. CASE Kept
    BY <2>2 DEF Kept, Final
  <2>3. CASE CanApprove(row) /\ row' = Approve(row)
    BY <2>1, <2>3, CommandEffect DEF CanApprove, Final
  <2>4. CASE CanRequestCancellation(row) /\ row' = RequestCancellation(row)
    BY <2>1, <2>4, CommandEffect DEF CanRequestCancellation, Terminal, Final
  <2>5. CASE /\ row.status \in Early \/ Restarted
             /\ CanCancel(row) /\ row' = Cancel(row) /\ judged' = judged
    BY <2>1, <2>5, CommandEffect, CancelledAgain DEF CanCancel, Early, Final
  <2>6. CASE \/ CanStartProvisioning(row) /\ row' = Started(row)
             \/ CanDeliver(row) /\ row' = Deliver(row)
    BY <2>1, <2>6, CommandEffect DEF CanStartProvisioning, CanDeliver, Final
  <2>7. ASSUME NEW v \in Verdict, CanStartVerification(row), row' = AfterVerification(row, v)
        PROVE  Final
    BY <2>1, <2>7, AfterVerificationEffect DEF CanStartVerification, Final
  <2> QED
    BY <2>2, <2>3, <2>4, <2>5, <2>6, <2>7 DEF RowStep
<1>2. TypeOK /\ Control /\ Evidence /\ Serial /\ [Next]_vars => [Final]_<<row, judged>>
  BY <1>1, StepSerial
<1>3. Final => /\ row.status = "CANCELLED" => row' = row /\ judged' = judged
               /\ row.status = "DELIVERED" =>
                     \/ row'.status = "DELIVERED"
                     \/ row'.status = "CANCELLED" /\ row.cancellation_requested /\ Restarted
               /\ row.cancellation_requested => row'.cancellation_requested
  BY DEF Final
<1> QED
  BY <1>2, <1>3, TypeCorrect, ControlHolds, EvidenceHolds, SerialHolds, PTL
     DEF Spec, TerminalIsFinal

\* If sessions on the row do not overlap, the service implements its contract:
\* approval, work, judgement, pull request and delivery come in this order, a
\* bounded number of times; only work not begun is withdrawn, unless START is
\* repeated.
THEOREM ImplementsContractHolds ==
    ASSUME ~Overlap
    PROVE  Spec => ImplementsContract
<1>1. Init => Promised!Init
  BY DEF Init, NewExecution, Promised!Init, Stage, ExecutionStatus, Restarted
<1>2. TypeOK /\ Serial /\ RowStep => [Promised!Next]_(Promised!contract)
  <2> SUFFICES ASSUME TypeOK, Serial, RowStep PROVE [Promised!Next]_(Promised!contract)
    OBVIOUS
  <2>1. row \in Execution /\ row.status \in Early \cup Worked
    BY DEF TypeOK, Serial, Placed
  <2>2. ASSUME row'.status = row.status, row'.attempt_count = row.attempt_count,
               pullRequest' = pullRequest, Restarted' = Restarted
        PROVE  UNCHANGED Promised!contract
    BY <2>2 DEF Promised!contract
  <2>3. /\ Stage["AWAITING_APPROVAL"] = "pending" /\ Stage["QUEUED"] = "approved"
        /\ Stage["BUILDING"] = "working" /\ Stage["AWAITING_HUMAN"] = "human"
        /\ Stage["DELIVERING"] = "delivering" /\ Stage["DELIVERED"] = "delivered"
        /\ Stage["CANCELLED"] = "cancelled"
    BY DEF Stage, ExecutionStatus
  <2>4. CASE Kept /\ pullRequest' = pullRequest /\ (Restarted => Restarted')
    <3>1. CASE Restarted' = Restarted
      BY <2>2, <2>4, <3>1 DEF Kept
    <3>2. CASE Restarted' = TRUE
      <4>1. Promised!Restart
        BY <2>4, <3>2 DEF Promised!Restart, Kept
      <4> QED
        BY <4>1 DEF Promised!Next
    <3>3. Restarted \in BOOLEAN /\ Restarted' \in BOOLEAN
      BY DEF Restarted
    <3> QED
      BY <2>4, <3>1, <3>2, <3>3
  <2>5. CASE Kept /\ (CanDeliver(row) \/ Withdrawn) /\ pullRequest' /\ Still
    <3>1. pullRequest' = TRUE /\ row' = row
      BY <2>5 DEF Kept
    <3>2. Promised!Open
      BY <2>3, <2>5, <3>1 DEF Promised!Open, CanDeliver, Withdrawn, Still
    <3> QED
      BY <3>2 DEF Promised!Next
  <2>6. CASE /\ CanApprove(row) /\ row' = Approve(row)
             /\ pullRequest' = pullRequest /\ Restarted' = Restarted
    <3>1. Promised!Approve
      BY <2>1, <2>3, <2>6, CommandEffect DEF Promised!Approve, CanApprove
    <3> QED
      BY <3>1 DEF Promised!Next
  <2>7. CASE row' = RequestCancellation(row) /\ pullRequest' = pullRequest /\ Still
    BY <2>1, <2>2, <2>7, CommandEffect DEF Still
  <2>8. CASE /\ row.status \in Early \/ Restarted
             /\ row' = Cancel(row) /\ pullRequest' = pullRequest /\ Still
    <3>1. row'.status = "CANCELLED" /\ row'.attempt_count = row.attempt_count
      BY <2>1, <2>8, CommandEffect
    <3>2. row.status # "CANCELLED" => Promised!Withdraw
      BY <2>3, <2>8, <3>1 DEF Promised!Withdraw, Early, Still
    <3> QED
      BY <2>2, <2>8, <3>1, <3>2 DEF Promised!Next, Still
  <2>9. CASE /\ CanStartProvisioning(row) /\ row' = Started(row)
             /\ pullRequest' = pullRequest /\ Still
    <3>1. Promised!Begin
      BY <2>1, <2>3, <2>9, CommandEffect DEF Promised!Begin, CanStartProvisioning, Still
    <3> QED
      BY <3>1 DEF Promised!Next
  <2>10. CASE /\ CanDeliver(row) /\ pullRequest
              /\ row' = Deliver(row) /\ pullRequest' = pullRequest /\ Still
    <3>1. Promised!Finish
      BY <2>1, <2>3, <2>10, CommandEffect DEF Promised!Finish, CanDeliver, Still
    <3> QED
      BY <3>1 DEF Promised!Next
  <2>11. ASSUME NEW v \in Verdict, WithinBudget(row, v.cost), CanStartVerification(row),
                row' = AfterVerification(row, v), pullRequest' = pullRequest, Still
         PROVE  [Promised!Next]_(Promised!contract)
    <3>1. /\ row'.attempt_count = row.attempt_count + 1
          /\ row'.status \in {"DELIVERING", IF row'.attempt_count < MaxAttempts
                                            THEN "BUILDING" ELSE "AWAITING_HUMAN"}
      BY <2>1, <2>11, AfterVerificationEffect
    <3>2. row.attempt_count < MaxAttempts
      BY <2>1, <2>11, BudgetAssumption DEF WithinBudget, Execution
    <3>3. Promised!Judge
      BY <2>3, <2>11, <3>1, <3>2 DEF Promised!Judge, CanStartVerification, Still
    <3> QED
      BY <3>3 DEF Promised!Next
  <2> QED
    BY <2>4, <2>5, <2>6, <2>7, <2>8, <2>9, <2>10, <2>11 DEF RowStep
<1>3. TypeOK /\ Control /\ Evidence /\ Serial /\ [Next]_vars =>
        [Promised!Next]_(Promised!contract)
  BY <1>2, StepSerial
<1> QED
  BY <1>1, <1>3, TypeCorrect, ControlHolds, EvidenceHolds, SerialHolds, PTL
     DEF Spec, ImplementsContract, Promised!Spec
=============================================================================
