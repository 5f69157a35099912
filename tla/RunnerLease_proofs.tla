------------------------- MODULE RunnerLease_proofs -------------------------
(***************************************************************************)
(* Theorems about RunnerLease, for any number of runners and any bounds on *)
(* rounds and faults: type correctness, that the lease protocol implements *)
(* RunnerJob, and that nothing is overtaken before the first fault.        *)
(***************************************************************************)
EXTENDS RunnerLease, TLAPS

Daemon == [at : {"idle", "running", "heartbeating", "failed", "completing"},
           round : Rounds \cup {0}]

JobRow == [status : {"QUEUED", "LEASED", "COMPLETED"},
           leased_by : Runners \cup {NoRunner},
           fresh : BOOLEAN,
           result : Rounds \cup {0}]

-----------------------------------------------------------------------------
(* Type correctness *)

\* The daemon's step when a call is over keeps its type.
LEMMA ResumesType ==
    ASSUME TypeOK, NEW r \in Runners, NEW accepted, Resumes(r, accepted)
    PROVE  runner' \in [Runners -> Daemon]
BY DEF TypeOK, Resumes, Idle, Daemon

\* A call given up stays a call.
LEMMA GivenUpType ==
    ASSUME TypeOK, faults' \in 0..MaxFaults, NEW C \in SUBSET calls
    PROVE  GivenUp(C) \in SUBSET Call
<1>1. calls \subseteq Call /\ C \subseteq Call
  BY DEF TypeOK
<1>2. \A c \in C : [c EXCEPT !.given_up = faults'] \in Call
  BY <1>1 DEF Call
<1> QED
  BY <1>1, <1>2 DEF GivenUp

\* One more fault is counted within the bound.
LEMMA FaultsType ==
    ASSUME TypeOK, faults < MaxFaults, faults' = faults + 1
    PROVE  faults' \in 0..MaxFaults
BY LeaseAssumption DEF TypeOK

\* Every step of a daemon preserves the types.
LEMMA RunnerTypeOK ==
    ASSUME TypeOK, NEW r \in Runners, Runner(r)
    PROVE  TypeOK'
<1>1. job \in JobRow /\ runner \in [Runners -> Daemon] /\ runner[r] \in Daemon
  BY DEF TypeOK, JobRow, Daemon
<1>2. CASE LeaseJob(r)
  <2>1. job' \in JobRow
    BY <1>1, <1>2 DEF LeaseJob, LeaseCommits, JobRow
  <2>2. runner' \in [Runners -> Daemon]
    BY <1>1, <1>2 DEF LeaseJob, Daemon, TypeOK
  <2> QED
    BY <1>2, <2>1, <2>2 DEF LeaseJob, LeaseCommits, TypeOK, JobRow, Daemon
<1>3. CASE SendHeartbeat(r)
  <2>1. [kind |-> "heartbeat", from |-> r, round |-> runner[r].round, at |-> "sent",
         given_up |-> 0] \in Call
    BY <1>1, LeaseAssumption DEF Call, Daemon
  <2>2. runner' \in [Runners -> Daemon]
    BY <1>1, <1>3 DEF SendHeartbeat, Daemon
  <2> QED
    BY <1>3, <2>1, <2>2 DEF SendHeartbeat, TypeOK, Daemon
<1>4. CASE SendComplete(r)
  <2>1. [kind |-> "complete", from |-> r, round |-> runner[r].round, at |-> "sent",
         given_up |-> 0] \in Call
    BY <1>1, LeaseAssumption DEF Call, Daemon
  <2>2. runner' \in [Runners -> Daemon]
    BY <1>1, <1>4 DEF SendComplete, Daemon
  <2> QED
    BY <1>4, <2>1, <2>2 DEF SendComplete, TypeOK, Daemon
<1> QED
  BY <1>2, <1>3, <1>4 DEF Runner

\* Every step of the endpoints preserves the types.
LEMMA ServerTypeOK ==
    ASSUME TypeOK, NEW c \in calls, CheckCall(c) \/ CommitCall(c)
    PROVE  TypeOK'
<1>1. c \in Call /\ c.from \in Runners /\ [c EXCEPT !.at = "checked"] \in Call
  BY DEF TypeOK, Call
<1>6. (late \cup {round}) \in SUBSET Rounds
  BY DEF TypeOK
<1>2. ASSUME NEW accepted, Answered(c, accepted) PROVE runner' \in [Runners -> Daemon]
  BY <1>1, <1>2, ResumesType DEF Answered, TypeOK, Daemon
<1>3. runner' \in [Runners -> Daemon]
  <2>1. UNCHANGED runner \/ Answered(c, TRUE) \/ Answered(c, FALSE)
    BY DEF CheckCall, CommitCall
  <2> QED
    BY <1>2, <2>1 DEF TypeOK, Daemon
<1>4. CASE CheckCall(c)
  BY <1>1, <1>3, <1>4 DEF CheckCall, TypeOK, Daemon
<1>5. CASE CommitCall(c)
  <2>1. job' \in JobRow
    BY <1>1, <1>5 DEF CommitCall, TypeOK, JobRow, Call
  <2> QED
    BY <1>3, <1>5, <1>6, <2>1 DEF CommitCall, TypeOK, JobRow, Daemon
<1> QED
  BY <1>4, <1>5

\* Every fault preserves the types.
LEMMA FaultTypeOK ==
    ASSUME TypeOK, Fault
    PROVE  TypeOK'
<1>1. ASSUME NEW c \in calls, CallTimesOut(c) PROVE TypeOK'
  <2>1. c.from \in Runners
    BY DEF TypeOK, Call
  <2>2. runner' \in [Runners -> Daemon]
    BY <1>1, <2>1, ResumesType DEF CallTimesOut
  <2>3. calls' \in SUBSET Call
    BY <1>1, FaultsType, GivenUpType DEF CallTimesOut
  <2> QED
    BY <1>1, <2>2, <2>3, FaultsType DEF CallTimesOut, TypeOK, Daemon
<1>2. ASSUME NEW r \in Runners, LeaseAnswerIsLost(r) PROVE TypeOK'
  <2>1. job' \in JobRow
    BY <1>2 DEF LeaseAnswerIsLost, LeaseCommits, TypeOK, JobRow
  <2> QED
    BY <1>2, <2>1, FaultsType DEF LeaseAnswerIsLost, LeaseCommits, TypeOK, JobRow
<1>3. ASSUME NEW r \in Runners, RunnerCrashes(r) PROVE TypeOK'
  <2>1. runner' \in [Runners -> Daemon]
    BY <1>3 DEF RunnerCrashes, TypeOK, Idle, Daemon
  <2>2. calls' \in SUBSET Call
    BY <1>3, FaultsType, GivenUpType DEF RunnerCrashes
  <2> QED
    BY <1>3, <2>1, <2>2, FaultsType DEF RunnerCrashes, TypeOK, Daemon
<1> QED
  BY <1>1, <1>2, <1>3 DEF Fault

\* Every variable of the lease protocol keeps its type.
THEOREM TypeCorrect == Spec => []TypeOK
<1>1. Init => TypeOK
  BY LeaseAssumption DEF Init, TypeOK, Idle, Rounds
<1>2. TypeOK /\ [Next]_vars => TypeOK'
  <2> SUFFICES ASSUME TypeOK, [Next]_vars PROVE TypeOK'
    OBVIOUS
  <2>1. CASE UNCHANGED vars
    BY <2>1 DEF vars, TypeOK
  <2>2. CASE LeaseGoesStale
    <3>1. job' \in JobRow
      BY <2>2 DEF LeaseGoesStale, TypeOK, JobRow
    <3>2. faults' \in 0..MaxFaults
      BY <2>2, FaultsType DEF LeaseGoesStale, TypeOK
    <3> QED
      BY <2>2, <3>1, <3>2 DEF LeaseGoesStale, TypeOK, JobRow
  <2>3. CASE Activity
    <3>1. round < MaxRounds => round + 1 \in Rounds
      BY LeaseAssumption DEF TypeOK, Rounds
    <3>2. CASE Poll
      BY <3>2 DEF Poll, TypeOK
    <3>3. CASE Judge
      <4>1. [status |-> "QUEUED", leased_by |-> NoRunner, fresh |-> FALSE, result |-> 0]
               \in JobRow
        BY DEF JobRow
      <4>2. job' \in JobRow /\ round' \in Rounds
        BY <3>1, <3>3, <4>1 DEF Judge, TypeOK, JobRow
      <4> QED
        BY <3>3, <4>2 DEF Judge, TypeOK, JobRow
    <3> QED
      BY <2>3, <3>2, <3>3 DEF Activity
  <2> QED
    BY <2>1, <2>2, <2>3, RunnerTypeOK, ServerTypeOK, FaultTypeOK DEF Next, Server
<1> QED
  BY <1>1, <1>2, PTL DEF Spec

-----------------------------------------------------------------------------
(* The inductive invariant *)

\* Where a daemon is while it waits for call c.
Waiting(c) == IF c.kind = "complete" THEN "completing" ELSE "heartbeating"

\* Work and calls belong to rounds that have begun.  A call that is awaited is
\* awaited by its runner, at work for the same round, and by no other call's.
CallsInRound ==
    /\ \A r \in Runners : runner[r].at # "idle" => runner[r].round \in 1..round
    /\ \A c \in calls : c.round \in 1..round
    /\ \A c \in calls : Awaited(c) => /\ runner[c.from].at = Waiting(c)
                                      /\ runner[c.from].round = c.round
    /\ \A c, d \in calls : Awaited(c) /\ Awaited(d) /\ c.from = d.from => c = d

\* Whoever holds the lease of the job works for its current round, if it works
\* at all; so does whoever completed it, unless a report was overtaken.
LeaseInRound ==
    /\ job.status = "LEASED" =>
          /\ job.leased_by \in Runners
          /\ runner[job.leased_by].at = "idle" \/ runner[job.leased_by].round = round
    /\ job.status = "COMPLETED" /\ round \notin late => job.result = round
    /\ judge # "polling" => job.status = "COMPLETED"

\* Before the first fault every call is awaited, one that has passed its check
\* still holds the lease, and the holder of the lease is at work.
FaultFree ==
    /\ late = {}
    /\ \A c \in calls : Awaited(c) /\ (c.at = "checked" => HoldsLease(c.from))
    /\ job.status = "LEASED" => job.fresh /\ runner[job.leased_by].at # "idle"

IInv == CallsInRound /\ LeaseInRound /\ (faults = 0 => FaultFree)

\* The invariant holds at first.
LEMMA InitIInv == Init => IInv
BY DEF Init, IInv, CallsInRound, LeaseInRound, FaultFree, Idle

\* When the call c is over, its runner is idle or goes on with the same round.
LEMMA AnsweredStep ==
    ASSUME TypeOK, CallsInRound, NEW c \in calls, NEW accepted,
           Answered(c, accepted), calls' = calls \ {c}, UNCHANGED round
    PROVE  /\ CallsInRound'
           /\ \A q \in Runners \ {c.from} : runner'[q] = runner[q]
           /\ \/ runner'[c.from].at = "idle"
              \/ runner'[c.from].round = runner[c.from].round
           /\ accepted /\ c.kind = "heartbeat" /\ Awaited(c) => runner'[c.from].at # "idle"
           /\ runner[c.from].at = "idle" => runner' = runner
<1>1. c.from \in Runners /\ runner \in [Runners -> Daemon] /\ calls \subseteq Call
  BY DEF TypeOK, Call, Daemon
<1>2. /\ \A q \in Runners \ {c.from} : runner'[q] = runner[q]
      /\ runner'[c.from].at = "idle" \/ runner'[c.from].round = runner[c.from].round
      /\ ~Awaited(c) => runner' = runner
      /\ accepted /\ c.kind = "heartbeat" /\ Awaited(c) => runner'[c.from].at # "idle"
      /\ Awaited(c) => runner[c.from].at # "idle"
  BY <1>1 DEF Answered, Resumes, Idle, Daemon, CallsInRound, Waiting
<1>3. \A q \in Runners : runner'[q].at # "idle" => runner'[q].round \in 1..round'
  BY <1>1, <1>2 DEF CallsInRound
<1>4. \A d \in calls' : Awaited(d) => runner'[d.from] = runner[d.from]
  BY <1>1, <1>2 DEF CallsInRound, Call
<1>5. CallsInRound'
  BY <1>3, <1>4 DEF CallsInRound, Waiting, Awaited
<1> QED
  BY <1>2, <1>5

\* A daemon sends a call only while it waits for none.
LEMMA SentStep ==
    ASSUME TypeOK, CallsInRound, NEW r \in Runners,
           NEW call, call.from = r, call.round = runner[r].round, Awaited(call),
           calls' = calls \cup {call},
           runner[r].at \in {"running", "failed"},
           runner' = [runner EXCEPT ![r].at = Waiting(call)],
           UNCHANGED round
    PROVE  /\ CallsInRound'
           /\ \A q \in Runners : runner'[q].round = runner[q].round
           /\ \A q \in Runners \ {r} : runner'[q] = runner[q]
           /\ runner'[r].at # "idle"
<1>1. runner \in [Runners -> Daemon] /\ runner[r] \in Daemon /\ calls \subseteq Call
  BY DEF TypeOK, Daemon
<1>2. /\ runner'[r].at = Waiting(call) /\ runner'[r].round = runner[r].round
      /\ \A q \in Runners \ {r} : runner'[q] = runner[q]
  BY <1>1 DEF Daemon
<1>3. \A c \in calls : c.from \in Runners /\ (Awaited(c) => c.from # r)
  BY <1>1 DEF CallsInRound, Waiting, Call
<1>4. \A q \in Runners : runner'[q].at # "idle" => runner'[q].round \in 1..round'
  BY <1>2 DEF CallsInRound
<1>5. \A c \in calls' : c.round \in 1..round'
  BY DEF CallsInRound
<1>6. \A c \in calls' : Awaited(c) => /\ runner'[c.from].at = Waiting(c)
                                      /\ runner'[c.from].round = c.round
  BY <1>2, <1>3 DEF CallsInRound
<1>7. \A c, d \in calls' : Awaited(c) /\ Awaited(d) /\ c.from = d.from => c = d
  BY <1>3 DEF CallsInRound
<1>8. CallsInRound'
  BY <1>4, <1>5, <1>6, <1>7 DEF CallsInRound, Waiting, Awaited
<1> QED
  BY <1>2, <1>8 DEF Waiting

\* The calls that runner q waits for are given up and q goes on, or is idle.
LEMMA GivenUpStep ==
    ASSUME TypeOK, CallsInRound, NEW q \in Runners, NEW C \in SUBSET calls,
           \A c \in calls : c \in C <=> c.from = q /\ Awaited(c),
           calls' = GivenUp(C), faults < MaxFaults, faults' = faults + 1,
           \A p \in Runners \ {q} : runner'[p] = runner[p],
           runner'[q].at = "idle" \/ runner'[q].round = runner[q].round,
           runner[q].at # "idle",
           UNCHANGED round
    PROVE  CallsInRound'
<1>1. calls \subseteq Call /\ faults' # 0
  BY LeaseAssumption DEF TypeOK
<1>2. \A c \in calls' : /\ Awaited(c) => c \in calls /\ c.from \in Runners \ {q}
                        /\ \E d \in calls : c.round = d.round
  BY <1>1 DEF GivenUp, Call, Awaited
<1>3. \A p \in Runners : runner'[p].at # "idle" => runner'[p].round \in 1..round'
  BY DEF CallsInRound
<1>4. \A c \in calls' : c.round \in 1..round'
  BY <1>2 DEF CallsInRound
<1>5. \A c \in calls' : Awaited(c) => /\ runner'[c.from].at = Waiting(c)
                                      /\ runner'[c.from].round = c.round
  BY <1>2 DEF CallsInRound
<1>6. \A c, d \in calls' : Awaited(c) /\ Awaited(d) /\ c.from = d.from => c = d
  BY <1>2 DEF CallsInRound
<1> QED
  BY <1>3, <1>4, <1>5, <1>6 DEF CallsInRound, Waiting, Awaited

\* Granting a lease preserves the invariant, whether or not its answer arrives.
LEMMA LeaseIInv ==
    ASSUME TypeOK, IInv, NEW r \in Runners, LeaseJob(r) \/ LeaseAnswerIsLost(r)
    PROVE  IInv'
<1>1. /\ runner \in [Runners -> Daemon] /\ runner[r].at = "idle" /\ calls \subseteq Call
      /\ round \in Rounds /\ faults \in Nat
  BY LeaseAssumption DEF TypeOK, Daemon, LeaseJob, LeaseAnswerIsLost, LeaseCommits
<1>2. /\ job'.status = "LEASED" /\ job'.leased_by = r /\ job'.fresh
      /\ judge = "polling"
      /\ job.status = "QUEUED" \/ (job.status = "LEASED" /\ ~job.fresh)
      /\ UNCHANGED <<round, calls, judge, late>>
  BY DEF LeaseJob, LeaseAnswerIsLost, LeaseCommits, Leasable, IInv, LeaseInRound, TypeOK
<1>3. \A c \in calls : Awaited(c) => c.from \in Runners \ {r}
  BY <1>1 DEF IInv, CallsInRound, Waiting, Call
<1>4. /\ \A q \in Runners \ {r} : runner'[q] = runner[q]
      /\ runner'[r].at = "idle" \/ runner'[r].round = round
      /\ faults' = 0 => faults = 0 /\ runner'[r].at = "running"
  BY <1>1 DEF LeaseJob, LeaseAnswerIsLost
<1>5. round \in 1..round
  BY <1>1, LeaseAssumption DEF Rounds
<1>6. CallsInRound'
  BY <1>2, <1>3, <1>4, <1>5 DEF IInv, CallsInRound, Waiting, Awaited
<1>7. LeaseInRound'
  BY <1>2, <1>4 DEF LeaseInRound
<1>8. faults' = 0 => FaultFree'
  <2>1. SUFFICES ASSUME faults' = 0 PROVE FaultFree'
    OBVIOUS
  <2>2. \A c \in calls : c.at # "checked"
    BY <1>2, <1>4, <2>1 DEF IInv, FaultFree, HoldsLease
  <2> QED
    BY <1>2, <1>4, <2>1, <2>2 DEF IInv, FaultFree, Awaited
<1> QED
  BY <1>6, <1>7, <1>8 DEF IInv

\* Sending a call preserves the invariant.
LEMMA SendIInv ==
    ASSUME TypeOK, IInv, NEW r \in Runners, SendHeartbeat(r) \/ SendComplete(r)
    PROVE  IInv'
<1>1. \E call : /\ call.from = r /\ call.round = runner[r].round /\ Awaited(call)
                /\ call.at = "sent"
                /\ calls' = calls \cup {call}
                /\ runner[r].at \in {"running", "failed"}
                /\ runner' = [runner EXCEPT ![r].at = Waiting(call)]
                /\ UNCHANGED <<job, round, judge, faults, late>>
  <2>1. CASE SendHeartbeat(r)
    <3> DEFINE call == [kind |-> "heartbeat", from |-> r, round |-> runner[r].round,
                        at |-> "sent", given_up |-> 0]
    <3>1. call.from = r /\ call.round = runner[r].round /\ Awaited(call)
          /\ call.at = "sent" /\ Waiting(call) = "heartbeating"
      BY DEF Waiting, Awaited
    <3> QED
      BY <2>1, <3>1 DEF SendHeartbeat
  <2>2. CASE SendComplete(r)
    <3> DEFINE call == [kind |-> "complete", from |-> r, round |-> runner[r].round,
                        at |-> "sent", given_up |-> 0]
    <3>1. call.from = r /\ call.round = runner[r].round /\ Awaited(call)
          /\ call.at = "sent" /\ Waiting(call) = "completing"
      BY DEF Waiting, Awaited
    <3> QED
      BY <2>2, <3>1 DEF SendComplete
  <2> QED
    BY <2>1, <2>2
<1>2. PICK call : /\ call.from = r /\ call.round = runner[r].round /\ Awaited(call)
                  /\ call.at = "sent"
                  /\ calls' = calls \cup {call}
                  /\ runner[r].at \in {"running", "failed"}
                  /\ runner' = [runner EXCEPT ![r].at = Waiting(call)]
                  /\ UNCHANGED <<job, round, judge, faults, late>>
  BY <1>1
<1>3. /\ CallsInRound'
      /\ \A q \in Runners : runner'[q].round = runner[q].round
      /\ \A q \in Runners \ {r} : runner'[q] = runner[q]
      /\ runner'[r].at # "idle"
  BY <1>2, SentStep DEF IInv
<1>4. job.status = "LEASED" => job.leased_by \in Runners
  BY DEF IInv, LeaseInRound
<1>5. LeaseInRound'
  BY <1>2, <1>3, <1>4 DEF IInv, LeaseInRound
<1>6. faults' = 0 => FaultFree'
  BY <1>2, <1>3, <1>4 DEF IInv, FaultFree, HoldsLease, Awaited
<1> QED
  BY <1>3, <1>5, <1>6 DEF IInv

\* The check of a call preserves the invariant, whether it passes or not.
LEMMA CheckIInv ==
    ASSUME TypeOK, IInv, NEW c \in calls, CheckCall(c)
    PROVE  IInv'
<1>1. /\ c \in Call /\ c.from \in Runners /\ calls \subseteq Call
      /\ UNCHANGED <<job, round, judge, faults, late>>
  BY DEF TypeOK, Call, CheckCall
<1>2. CASE HoldsLease(c.from)
  <2> DEFINE checked == [c EXCEPT !.at = "checked"]
  <2>1. /\ checked.from = c.from /\ checked.kind = c.kind /\ checked.round = c.round
        /\ checked.given_up = c.given_up /\ checked.at = "checked"
        /\ calls' = (calls \ {c}) \cup {checked}
        /\ UNCHANGED runner
    BY <1>1, <1>2 DEF CheckCall, Call
  <2>2. Waiting(checked) = Waiting(c) /\ (Awaited(checked) <=> Awaited(c))
    BY <2>1 DEF Waiting, Awaited
  <2> HIDE DEF checked
  <2>3. CallsInRound'
    <3>1. \A d \in calls' : d.round \in 1..round'
      BY <1>1, <2>1 DEF IInv, CallsInRound
    <3>2. \A d \in calls' : Awaited(d) => /\ runner'[d.from].at = Waiting(d)
                                          /\ runner'[d.from].round = d.round
      BY <2>1, <2>2 DEF IInv, CallsInRound
    <3>3. \A d, e \in calls' : Awaited(d) /\ Awaited(e) /\ d.from = e.from => d = e
      BY <2>1, <2>2 DEF IInv, CallsInRound
    <3> QED
      BY <1>1, <2>1, <3>1, <3>2, <3>3 DEF IInv, CallsInRound, Waiting, Awaited
  <2>4. LeaseInRound'
    BY <1>1, <2>1 DEF IInv, LeaseInRound
  <2>5. faults' = 0 => FaultFree'
    BY <1>1, <1>2, <2>1, <2>2 DEF IInv, FaultFree, HoldsLease, Awaited
  <2> QED
    BY <2>3, <2>4, <2>5 DEF IInv
<1>3. CASE ~HoldsLease(c.from)
  <2>1. Answered(c, FALSE) /\ calls' = calls \ {c}
    BY <1>3 DEF CheckCall
  <2>2. /\ CallsInRound'
        /\ \A q \in Runners \ {c.from} : runner'[q] = runner[q]
        /\ runner'[c.from].at = "idle" \/ runner'[c.from].round = runner[c.from].round
    BY <1>1, <2>1, AnsweredStep DEF IInv
  <2>3. job.status = "LEASED" => job.leased_by \in Runners \ {c.from}
    BY <1>3 DEF HoldsLease, IInv, LeaseInRound
  <2>4. LeaseInRound'
    BY <1>1, <2>2, <2>3 DEF IInv, LeaseInRound
  <2>5. faults' = 0 => FaultFree'
    BY <1>1, <2>1, <2>2, <2>3 DEF IInv, FaultFree, HoldsLease, Awaited
  <2> QED
    BY <2>2, <2>4, <2>5 DEF IInv
<1> QED
  BY <1>2, <1>3

\* What a complete that is not overtaken commits is the work of this round.
LEMMA NotOvertaken ==
    ASSUME TypeOK, IInv, NEW c \in calls, ~Overtaken(c)
    PROVE  c.round = round /\ job.status = "LEASED" /\ job.leased_by = c.from
BY DEF Overtaken, HoldsLease, IInv, CallsInRound, LeaseInRound, Waiting

\* The commit of a call preserves the invariant.
LEMMA CommitIInv ==
    ASSUME TypeOK, IInv, NEW c \in calls, CommitCall(c)
    PROVE  IInv'
<1>1. /\ c \in Call /\ c.from \in Runners /\ calls \subseteq Call /\ round \in Rounds
      /\ c.at = "checked"
      /\ Answered(c, TRUE) /\ calls' = calls \ {c}
      /\ UNCHANGED <<round, judge, faults>>
  BY DEF TypeOK, Call, CommitCall
<1>2. /\ CallsInRound'
      /\ \A q \in Runners \ {c.from} : runner'[q] = runner[q]
      /\ runner'[c.from].at = "idle" \/ runner'[c.from].round = runner[c.from].round
      /\ c.kind = "heartbeat" /\ Awaited(c) => runner'[c.from].at # "idle"
      /\ runner[c.from].at = "idle" => runner' = runner
  BY <1>1, AnsweredStep DEF IInv
<1>3. CASE c.kind = "heartbeat"
  <2>1. /\ job'.status = job.status /\ job'.leased_by = job.leased_by
        /\ job'.result = job.result /\ job'.fresh
        /\ UNCHANGED late
    BY <1>1, <1>3 DEF CommitCall, TypeOK
  <2>2. LeaseInRound'
    BY <1>1, <1>2, <2>1 DEF IInv, LeaseInRound
  <2>3. faults' = 0 => FaultFree'
    <3>1. SUFFICES ASSUME faults' = 0 PROVE FaultFree'
      OBVIOUS
    <3>2. FaultFree /\ Awaited(c)
      BY <1>1, <3>1 DEF IInv, FaultFree
    <3> QED
      BY <1>1, <1>2, <1>3, <2>1, <3>2
         DEF FaultFree, HoldsLease, Awaited, IInv, LeaseInRound
  <2> QED
    BY <1>2, <2>2, <2>3 DEF IInv
<1>4. CASE c.kind = "complete"
  <2>1. job'.status = "COMPLETED" /\ job'.result = c.round
    BY <1>3, <1>4 DEF CommitCall, TypeOK
  <2>2. late' = IF Overtaken(c) THEN late \cup {round} ELSE late
    BY <1>4 DEF CommitCall
  <2>3. LeaseInRound'
    BY <1>1, <2>1, <2>2, NotOvertaken DEF LeaseInRound
  <2>4. faults' = 0 => FaultFree'
    <3>1. SUFFICES ASSUME faults' = 0 PROVE FaultFree'
      OBVIOUS
    <3>2. FaultFree /\ ~Overtaken(c)
      BY <1>1, <3>1 DEF IInv, FaultFree, Overtaken
    <3>3. \A d \in calls' : Awaited(d) /\ d.at # "checked"
      BY <1>1, <3>2 DEF FaultFree, HoldsLease, IInv, CallsInRound
    <3> QED
      BY <2>1, <2>2, <3>2, <3>3 DEF FaultFree, Awaited
  <2> QED
    BY <1>2, <2>3, <2>4 DEF IInv
<1> QED
  BY <1>1, <1>3, <1>4 DEF Call

\* A lease that goes stale, and every fault but a lost answer, preserve the
\* invariant.
LEMMA FaultIInv ==
    ASSUME TypeOK, IInv, Fault \/ LeaseGoesStale
    PROVE  IInv'
<1>1. runner \in [Runners -> Daemon] /\ calls \subseteq Call /\ faults \in Nat
  BY LeaseAssumption DEF TypeOK, Daemon
<1>2. ASSUME NEW q \in Runners, NEW C \in SUBSET calls,
             \A c \in calls : c \in C <=> c.from = q /\ Awaited(c),
             calls' = GivenUp(C), faults < MaxFaults, faults' = faults + 1,
             \A p \in Runners \ {q} : runner'[p] = runner[p],
             runner'[q].at = "idle" \/ runner'[q].round = runner[q].round,
             runner[q].at # "idle",
             UNCHANGED <<job, round, judge, late>>
      PROVE  IInv'
  <2>1. CallsInRound'
    BY <1>2, GivenUpStep DEF IInv
  <2>2. LeaseInRound'
    BY <1>2 DEF IInv, LeaseInRound
  <2>3. faults' # 0
    BY <1>1, <1>2
  <2> QED
    BY <2>1, <2>2, <2>3 DEF IInv
<1>3. ASSUME NEW c \in calls, CallTimesOut(c) PROVE IInv'
  <2>1. c.from \in Runners /\ runner[c.from].at # "idle"
    BY <1>1, <1>3 DEF CallTimesOut, Call, IInv, CallsInRound, Waiting
  <2>2. \A d \in calls : d \in {c} <=> d.from = c.from /\ Awaited(d)
    BY <1>3 DEF CallTimesOut, IInv, CallsInRound
  <2>3. /\ \A p \in Runners \ {c.from} : runner'[p] = runner[p]
        /\ runner'[c.from].at = "idle" \/ runner'[c.from].round = runner[c.from].round
    BY <1>1, <1>3, <2>1 DEF CallTimesOut, Resumes, Idle, Daemon
  <2> QED
    BY <1>2, <1>3, <2>1, <2>2, <2>3 DEF CallTimesOut
<1>4. ASSUME NEW r \in Runners, RunnerCrashes(r) PROVE IInv'
  <2>1. /\ \A p \in Runners \ {r} : runner'[p] = runner[p]
        /\ runner'[r].at = "idle"
    BY <1>1, <1>4 DEF RunnerCrashes, Idle
  <2>2. {c \in calls : c.from = r /\ Awaited(c)} \in SUBSET calls
    OBVIOUS
  <2> QED
    BY <1>2, <1>4, <2>1, <2>2 DEF RunnerCrashes
<1>5. CASE LeaseGoesStale
  <2>1. /\ job'.status = job.status /\ job'.leased_by = job.leased_by
        /\ job'.result = job.result
        /\ UNCHANGED <<round, runner, calls, judge, late>>
        /\ job.status = "LEASED"
        /\ runner[job.leased_by].at = "idle" \/ faults' = faults + 1
    BY <1>5 DEF LeaseGoesStale, TypeOK
  <2>2. CallsInRound' /\ LeaseInRound'
    BY <2>1 DEF IInv, CallsInRound, LeaseInRound, Waiting, Awaited
  <2>3. faults' # 0
    <3>1. faults' = faults \/ faults' = faults + 1
      BY <1>5 DEF LeaseGoesStale
    <3> QED
      BY <1>1, <2>1, <3>1 DEF IInv, FaultFree
  <2> QED
    BY <2>2, <2>3 DEF IInv
<1> QED
  BY <1>3, <1>4, <1>5, LeaseIInv DEF Fault

\* The activity preserves the invariant: it requeues a job nobody holds.
LEMMA ActivityIInv ==
    ASSUME TypeOK, IInv, Activity
    PROVE  IInv'
<1>1. UNCHANGED <<runner, calls, faults, late>> /\ job.status = "COMPLETED"
  BY DEF Activity, Poll, Judge, IInv, LeaseInRound
<1>2. CASE UNCHANGED <<job, round>>
  <2>1. CallsInRound' /\ LeaseInRound'
    BY <1>1, <1>2 DEF IInv, CallsInRound, LeaseInRound, Waiting, Awaited
  <2> QED
    BY <1>1, <1>2, <2>1 DEF IInv, FaultFree, HoldsLease, Awaited
<1>3. CASE job'.status = "QUEUED" /\ judge' = "polling" /\ round' = round + 1
  <2>1. 1..round \subseteq 1..round'
    BY <1>3, LeaseAssumption DEF TypeOK, Rounds
  <2>2. CallsInRound' /\ LeaseInRound'
    BY <1>1, <1>3, <2>1 DEF IInv, CallsInRound, LeaseInRound, Waiting, Awaited
  <2>3. faults' = 0 => FaultFree'
    BY <1>1, <1>3 DEF IInv, FaultFree, HoldsLease, Awaited
  <2> QED
    BY <2>2, <2>3 DEF IInv
<1> QED
  BY <1>2, <1>3 DEF Activity, Poll, Judge

\* The invariant holds in every reachable state.
THEOREM IInvHolds == Spec => []IInv
<1>1. TypeOK /\ IInv /\ [Next]_vars => IInv'
  <2> SUFFICES ASSUME TypeOK, IInv, [Next]_vars PROVE IInv'
    OBVIOUS
  <2>1. CASE UNCHANGED vars
    <3>1. CallsInRound' /\ LeaseInRound'
      BY <2>1 DEF vars, IInv, CallsInRound, LeaseInRound, Waiting, Awaited
    <3> QED
      BY <2>1, <3>1 DEF vars, IInv, FaultFree, HoldsLease, Awaited
  <2>2. CASE Next
    BY <2>2, LeaseIInv, SendIInv, CheckIInv, CommitIInv, FaultIInv, ActivityIInv
       DEF Next, Runner, Server
  <2> QED
    BY <2>1, <2>2
<1> QED
  BY InitIInv, <1>1, TypeCorrect, PTL DEF Spec

\* The activity never reads a result of an earlier round, whatever leases were
\* lost, taken over or never learnt of in between, unless a complete that its
\* caller had given up or whose lease had gone was committed in this round.
THEOREM ResultOfThisRoundHolds == Spec => []ResultOfThisRound
<1>1. IInv => ResultOfThisRound
  BY DEF IInv, LeaseInRound, ResultOfThisRound
<1> QED
  BY <1>1, IInvHolds, PTL

\* No complete is overtaken before the first crash, timeout or held up heartbeat.
THEOREM OvertakenAfterFaultHolds == Spec => []OvertakenAfterFault
<1>1. IInv => OvertakenAfterFault
  BY DEF IInv, FaultFree, OvertakenAfterFault
<1> QED
  BY <1>1, IInvHolds, PTL

-----------------------------------------------------------------------------
(* Refinement *)

Shown == <<job.status, round, job.result, late>>

\* A step of the lease protocol is a step of the promised job, or invisible.
LEMMA StepRefinement ==
    ASSUME TypeOK, IInv, [Next]_vars
    PROVE  [Promised!Next]_Shown
<1>1. ASSUME UNCHANGED Shown PROVE [Promised!Next]_Shown
  BY <1>1
<1>2. CASE UNCHANGED vars
  BY <1>1, <1>2 DEF vars, Shown
<1>3. ASSUME NEW r \in Runners, LeaseCommits(r) PROVE [Promised!Next]_Shown
  <2>1. /\ job'.status = "LEASED" /\ job'.result = job.result
        /\ job.status \in {"QUEUED", "LEASED"}
        /\ UNCHANGED <<round, late>>
    BY <1>3 DEF LeaseCommits, Leasable, TypeOK
  <2> QED
    BY <2>1 DEF Shown, Promised!Next, Promised!Lease
<1>4. ASSUME NEW r \in Runners, Runner(r) \/ LeaseAnswerIsLost(r)
      PROVE  [Promised!Next]_Shown
  BY <1>1, <1>3, <1>4
     DEF Runner, LeaseJob, LeaseAnswerIsLost, SendHeartbeat, SendComplete, Shown
<1>5. ASSUME NEW c \in calls, CheckCall(c) PROVE [Promised!Next]_Shown
  BY <1>1, <1>5 DEF CheckCall, Shown
<1>6. ASSUME NEW c \in calls, CommitCall(c) PROVE [Promised!Next]_Shown
  <2>1. c \in Call /\ c.round \in 1..round /\ UNCHANGED round
    BY <1>6 DEF TypeOK, CommitCall, IInv, CallsInRound
  <2>2. CASE c.kind = "heartbeat"
    <3>1. job'.status = job.status /\ job'.result = job.result /\ UNCHANGED late
      BY <1>6, <2>2 DEF CommitCall, TypeOK
    <3> QED
      BY <2>1, <3>1 DEF Shown
  <2>3. CASE c.kind = "complete"
    <3>1. job'.status = "COMPLETED" /\ job'.result = c.round
      BY <1>6, <2>3 DEF CommitCall, TypeOK
    <3>2. CASE Overtaken(c)
      <4>1. late' = late \cup {round}
        BY <1>6, <2>3, <3>2 DEF CommitCall
      <4> QED
        BY <2>1, <3>1, <4>1 DEF Promised!Next, Promised!CompleteLate
    <3>3. CASE ~Overtaken(c)
      <4>1. UNCHANGED late
        BY <1>6, <2>3, <3>3 DEF CommitCall
      <4>2. c.round = round /\ job.status = "LEASED"
        BY <3>3, NotOvertaken
      <4> QED
        BY <2>1, <3>1, <4>1, <4>2 DEF Promised!Next, Promised!Complete
    <3> QED
      BY <3>2, <3>3
  <2> QED
    BY <2>1, <2>2, <2>3 DEF Call
<1>7. CASE LeaseGoesStale
  <2>1. UNCHANGED Shown
    BY <1>7 DEF LeaseGoesStale, TypeOK, Shown
  <2> QED
    BY <1>1, <2>1
<1>8. CASE Activity
  <2>1. CASE Poll
    BY <1>1, <2>1 DEF Poll, Shown
  <2>2. CASE Judge
    BY <1>1, <2>2 DEF Judge, IInv, LeaseInRound, Promised!Next, Promised!Requeue, Shown
  <2> QED
    BY <1>8, <2>1, <2>2 DEF Activity
<1>9. CASE Fault
  BY <1>1, <1>4, <1>9 DEF Fault, CallTimesOut, RunnerCrashes, Shown
<1> QED
  BY <1>2, <1>4, <1>5, <1>6, <1>7, <1>8, <1>9 DEF Next, Server

\* The lease protocol implements the job the delivery workflow relies on (and
\* which DeliveryExecution models), the overtaken completes included.
THEOREM LeaseImplementsJob == Spec => ImplementsRunnerJob
<1>1. Init => Promised!Init
  BY DEF Init, Promised!Init
<1>2. TypeOK /\ IInv /\ [Next]_vars => [Promised!Next]_(Promised!vars)
  BY StepRefinement DEF Shown, Promised!vars
<1> QED
  BY <1>1, <1>2, TypeCorrect, IInvHolds, PTL DEF Spec, ImplementsRunnerJob, Promised!Spec
=============================================================================
