------------------------ MODULE ProviderVerification ------------------------
(***************************************************************************)
(* The verification of one agent configuration: runners enrol in a pool,   *)
(* an administrator creates the configuration and asks for verifications,  *)
(* a runner of the pool leases one when it has no job, probes the          *)
(* configuration (run_provider_verification of daemon.py) and reports the  *)
(* verdict that the onboarding page waits for.                             *)
(*                                                                         *)
(* A handler that takes a row is one step; the calls that end a probe      *)
(* arrive later, or never.  As in RunnerLease, a call is served before     *)
(* what it has checked is leased again.  The probe is a task beside the    *)
(* heartbeats; when one of them fails it is left to itself.                *)
(* A definition named Bug... is a variant of the one it precedes with a    *)
(* mistake in it; no specification uses it.                                *)
(***************************************************************************)
EXTENDS AgentRuntimes, Naturals

CONSTANTS Pool,           \* the runners of one pool
          NoMember,
          Advertised,     \* the runtimes that each runner names when it enrols
          EgressEnabled,  \* the runners with agent_egress_enabled
          Tokens,         \* enrolment tokens
          Keys,           \* idempotency keys of requests for a verification
          NoKey,
          Submitted,      \* the configurations that are submitted
          NoConfiguration,
          MaxProbeFaults  \* how many crashes, failing calls and delays happen

ASSUME VerificationAssumption ==
    /\ NoMember \notin Pool
    /\ NoKey \notin Keys
    /\ NoConfiguration \notin Configuration
    /\ Advertised \in [Pool -> SUBSET SUPPORTED_RUNTIMES]
    /\ Submitted \subseteq Configuration
    /\ EgressEnabled \subseteq Pool
    /\ MaxProbeFaults \in Nat

VARIABLES
    tokens,         \* the enrolment tokens that are neither used nor expired
    configuration,  \* the provider_configurations row
    verification,   \* the provider_verifications rows, by idempotency key
    runner,         \* what each daemon does
    orphan,         \* the verifications whose probe each daemon no longer waits for
    directory,      \* the verifications with an exchange directory on each runner's disk
    reports,        \* calls of complete that are under way
    probeFaults

verificationVars == <<tokens, configuration, verification, runner, orphan, directory, reports,
                      probeFaults>>

Probe == [key : Keys \cup {NoKey}, secret : BOOLEAN]
NoProbe == [key |-> NoKey, secret |-> FALSE]

VerificationTypeOK ==
    /\ tokens \subseteq Tokens
    /\ configuration \in Submitted \cup {NoConfiguration}
    /\ verification \in [Keys -> [status : {"none", "QUEUED", "RUNNING", "PASSED", "FAILED"},
                                  leased_by : Pool \cup {NoMember}, fresh : BOOLEAN]]
    /\ runner \in [Pool -> [at : {"unknown", "down", "idle", "leased", "probing", "failed",
                                  "passed"},
                           probe : Probe]]
    /\ orphan \in [Pool -> SUBSET Keys]
    /\ directory \in [Pool -> SUBSET Keys]
    /\ reports \subseteq [from : Pool, key : Keys, success : BOOLEAN]
    /\ probeFaults \in 0..MaxProbeFaults

VerificationInit ==
    /\ tokens = Tokens
    /\ configuration = NoConfiguration
    /\ verification = [k \in Keys |-> [status |-> "none", leased_by |-> NoMember,
                                       fresh |-> FALSE]]
    /\ runner = [r \in Pool |-> [at |-> "unknown", probe |-> NoProbe]]
    /\ orphan = [r \in Pool |-> {}]
    /\ directory = [r \in Pool |-> {}]
    /\ reports = {}
    /\ probeFaults = 0

ProbeFault == probeFaults < MaxProbeFaults /\ probeFaults' = probeFaults + 1

Becomes(r, at, probe) == runner' = [runner EXCEPT ![r] = [at |-> at, probe |-> probe]]

-----------------------------------------------------------------------------
(* Enrolment *)

\* consume_enrollment_token locks the token's row until the runner's row is
\* committed with it.
EnrollRunner(r) ==
    /\ runner[r].at = "unknown"
    /\ \E t \in tokens : tokens' = tokens \ {t}
    /\ Becomes(r, "idle", NoProbe)
    /\ UNCHANGED <<configuration, verification, orphan, directory, reports, probeFaults>>

\* After ten minutes.
TokenExpires ==
    /\ \E t \in tokens : tokens' = tokens \ {t}
    /\ UNCHANGED <<configuration, verification, runner, orphan, directory, reports, probeFaults>>

\* Seen in the last 60 s; a daemon that runs calls every 10 s at least.
Online == {r \in Pool : runner[r].at \notin {"unknown", "down"}}

-----------------------------------------------------------------------------
(* The administrator *)

\* 422 unless it is accepted.  No handler changes or removes a configuration.
CreateConfiguration ==
    /\ configuration = NoConfiguration
    /\ configuration' \in {c \in Submitted : Accepted(c)}
    /\ UNCHANGED <<tokens, verification, runner, orphan, directory, reports, probeFaults>>

\* The pool must advertise the runtime.  A key that is known is answered with
\* its row, and of two requests that insert one the key lets one through.
CreateVerification(k) ==
    /\ configuration # NoConfiguration
    /\ \E r \in Online : configuration.runtime \in Advertised[r]
    /\ verification[k].status = "none"
    /\ verification' = [verification EXCEPT ![k].status = "QUEUED"]
    /\ UNCHANGED <<tokens, configuration, runner, orphan, directory, reports, probeFaults>>

-----------------------------------------------------------------------------
(* The lease *)

\* Queued, or running with a lease older than 45 s.
VerificationLeasable(k) ==
    \/ verification[k].status = "QUEUED"
    \/ verification[k].status = "RUNNING" /\ ~verification[k].fresh

\* Any runner of the pool, whatever it advertises.
LeaseVerification(r, k) ==
    /\ runner[r].at = "idle"
    /\ VerificationLeasable(k)
    /\ verification' = [verification EXCEPT ![k] =
         [status |-> "RUNNING", leased_by |-> r, fresh |-> TRUE]]
    /\ Becomes(r, "leased", [NoProbe EXCEPT !.key = k])
    /\ UNCHANGED <<tokens, configuration, orphan, directory, reports, probeFaults>>

BugHoldsVerification(r, k) == verification[k].leased_by = r
\* heartbeat_provider_verification, which complete and model-capability begin with.
HoldsVerification(r, k) == verification[k].leased_by = r /\ verification[k].status = "RUNNING"

\* Nobody sends heartbeats, or (a fault) they are held up for 45 s.
VerificationGoesStale(k) ==
    LET r == verification[k].leased_by
    IN  /\ verification[k].status = "RUNNING"
        /\ verification[k].fresh
        /\ IF runner[r].at \in {"leased", "probing"} /\ runner[r].probe.key = k
           THEN ProbeFault ELSE UNCHANGED probeFaults
        /\ verification' = [verification EXCEPT ![k].fresh = FALSE]
        /\ UNCHANGED <<tokens, configuration, runner, orphan, directory, reports>>

ProbeHeartbeat(r) ==
    LET k == runner[r].probe.key
    IN  /\ runner[r].at = "probing"
        /\ HoldsVerification(r, k)
        /\ ~verification[k].fresh
        /\ verification' = [verification EXCEPT ![k].fresh = TRUE]
        /\ UNCHANGED <<tokens, configuration, runner, orphan, directory, reports, probeFaults>>

\* 409, or the call fails: the daemon leaves the probe and reports a failure.
ProbeHeartbeatFails(r) ==
    LET probe == runner[r].probe
    IN  /\ runner[r].at = "probing"
        /\ IF HoldsVerification(r, probe.key) THEN ProbeFault ELSE UNCHANGED probeFaults
        /\ Becomes(r, "failed", [probe EXCEPT !.secret = FALSE])
        /\ orphan' = [orphan EXCEPT ![r] = @ \cup {probe.key}]
        /\ UNCHANGED <<tokens, configuration, verification, directory, reports>>

-----------------------------------------------------------------------------
(* run_provider_verification *)

\* mkdir raises if the directory is there, from an orphan or a crash.
MakeProbeExchange(r) ==
    LET probe == runner[r].probe
    IN  /\ runner[r].at = "leased"
        /\ IF probe.key \in directory[r]
           THEN /\ Becomes(r, "failed", probe)
                /\ UNCHANGED directory
           ELSE /\ Becomes(r, "probing", probe)
                /\ directory' = [directory EXCEPT ![r] = @ \cup {probe.key}]
        /\ UNCHANGED <<tokens, configuration, verification, orphan, reports, probeFaults>>

NeedsSecret == configuration.authentication_mode = "API_KEY_REFERENCE"

\* For the lease holder only; what the integrations service refuses is a failure
\* of the probe.
RedeemCapability(r) ==
    LET probe == runner[r].probe
    IN  /\ runner[r].at = "probing"
        /\ NeedsSecret
        /\ ~probe.secret
        /\ HoldsVerification(r, probe.key)
        /\ Becomes(r, "probing", [probe EXCEPT !.secret = TRUE])
        /\ verification' = [verification EXCEPT ![probe.key].fresh = TRUE]
        /\ UNCHANGED <<tokens, configuration, orphan, directory, reports, probeFaults>>

\* A runtime other than deterministic needs the egress network.
MaySucceed(r, secret) ==
    /\ Starts(configuration, secret)
    /\ CanAuthenticate(configuration, secret)
    /\ configuration.runtime \in EGRESS_REQUIRED_RUNTIMES => r \in EgressEnabled

\* Anything may raise or fail; the finally removes the directories.
ProbeEnds(r) ==
    LET probe == runner[r].probe
    IN  /\ runner[r].at = "probing"
        /\ \/ Becomes(r, "failed", [probe EXCEPT !.secret = FALSE])
           \/ /\ MaySucceed(r, probe.secret)
              /\ Becomes(r, "passed", [probe EXCEPT !.secret = FALSE])
        /\ directory' = [directory EXCEPT ![r] = @ \ {probe.key}]
        /\ UNCHANGED <<tokens, configuration, verification, orphan, reports, probeFaults>>

OrphanEnds(r, k) ==
    /\ k \in orphan[r]
    /\ orphan' = [orphan EXCEPT ![r] = @ \ {k}]
    /\ directory' = [directory EXCEPT ![r] = @ \ {k}]
    /\ UNCHANGED <<tokens, configuration, verification, runner, reports, probeFaults>>

\* Its runner may have leased the verification again.
OrphanRedeems(r, k) ==
    /\ k \in orphan[r]
    /\ NeedsSecret
    /\ HoldsVerification(r, k)
    /\ verification' = [verification EXCEPT ![k].fresh = TRUE]
    /\ UNCHANGED <<tokens, configuration, runner, orphan, directory, reports, probeFaults>>

\* One call, which the daemon may give up on after 35 s.
SendVerdict(r) ==
    /\ runner[r].at \in {"failed", "passed"}
    /\ reports' = reports \cup {[from |-> r, key |-> runner[r].probe.key,
                                 success |-> runner[r].at = "passed"]}
    /\ Becomes(r, "idle", NoProbe)
    /\ UNCHANGED <<tokens, configuration, verification, orphan, directory, probeFaults>>

\* 409 without the lease.
CompleteVerification(c) ==
    /\ c \in reports
    /\ reports' = reports \ {c}
    /\ verification' = IF HoldsVerification(c.from, c.key)
         THEN [verification EXCEPT ![c.key].status = IF c.success THEN "PASSED" ELSE "FAILED",
                                   ![c.key].fresh = TRUE]
         ELSE verification
    /\ UNCHANGED <<tokens, configuration, runner, orphan, directory, probeFaults>>

VerdictIsLost(c) ==
    /\ c \in reports
    /\ ProbeFault
    /\ reports' = reports \ {c}
    /\ UNCHANGED <<tokens, configuration, verification, runner, orphan, directory>>

-----------------------------------------------------------------------------
\* The tasks die with the process; the directories remain.
RunnerCrashes(r) ==
    /\ r \in Online
    /\ ProbeFault
    /\ Becomes(r, "down", NoProbe)
    /\ orphan' = [orphan EXCEPT ![r] = {}]
    /\ UNCHANGED <<tokens, configuration, verification, directory, reports>>

RunnerStarts(r) ==
    /\ runner[r].at = "down"
    /\ Becomes(r, "idle", NoProbe)
    /\ UNCHANGED <<tokens, configuration, verification, orphan, directory, reports, probeFaults>>

VerifyingRunner(r) ==
    \/ EnrollRunner(r) \/ ProbeHeartbeat(r) \/ ProbeHeartbeatFails(r)
    \/ MakeProbeExchange(r) \/ RedeemCapability(r) \/ ProbeEnds(r) \/ SendVerdict(r)
    \/ RunnerCrashes(r) \/ RunnerStarts(r)
    \/ \E k \in Keys : LeaseVerification(r, k) \/ OrphanEnds(r, k) \/ OrphanRedeems(r, k)

VerificationNext ==
    \/ TokenExpires \/ CreateConfiguration
    \/ \E k \in Keys : CreateVerification(k) \/ VerificationGoesStale(k)
    \/ \E r \in Pool : VerifyingRunner(r)
    \/ \E c \in reports : CompleteVerification(c) \/ VerdictIsLost(c)

VerificationSpec == VerificationInit /\ [][VerificationNext]_verificationVars

-----------------------------------------------------------------------------
(* Properties *)

\* A verdict is given once and stands: leases that change hands, orphaned probes,
\* restarted runners and reports that arrive late or twice do not change what the
\* onboarding page has shown.
VerdictStands ==
    [][\A k \in Keys : verification[k].status \in {"PASSED", "FAILED"}
                           => verification'[k].status = verification[k].status]_verificationVars

\* Delivery accepts only what the runner can start: a configuration that was
\* stored is not refused in the job's container.  Its agent gets the kind of key
\* that it reads and reaches the host that the key is for if the configuration
\* names a key or is the development substitute, and only then.
AcceptedCanRun ==
    configuration # NoConfiguration =>
        /\ Starts(configuration, NeedsSecret)
        /\ CanAuthenticate(configuration, NeedsSecret)
             <=> configuration.authentication_mode # "LOCAL_SESSION"
=============================================================================
