------------------------------- MODULE MCParts -------------------------------
(***************************************************************************)
(* Six components that share no state, explored by one run, one at a       *)
(* time: a behaviour of PartsSpec is a behaviour of the component that     *)
(* part names, with the variables of the other five at rest.               *)
(***************************************************************************)
EXTENDS Installation, IntegrationSecrets, RunnerDaemon, EventLog, ProviderVerification,
        PullRequest

CONSTANTS o1, o2,               \* organizations
          h1, h2,               \* webhook requests
          x1,                   \* a repository
          key, m1, m2,          \* an idempotency key, manifests
          sourceCap, modelCap,  \* capabilities
          r1, r2,               \* runners
          w1, w2, w3, c1,       \* sessions that append events, and a client
          t1, t2, k1,           \* enrolment tokens, a verification
          sha1, sha2, main, trunk2  \* commits, default branches

VARIABLE part

MCOrganizations == {o1, o2}
MCConnects == {<<o1, 1>>, <<o2, 1>>}
MCRequests == {h1, h2}
MCRepositories == {x1}

MCCreates == {<<key, 1>>, <<key, 2>>}
MCManifests == {m1, m2}
MCExchanges == {<<sourceCap, 1>>, <<sourceCap, 2>>, <<modelCap, 1>>}
MCSourceCapabilities == {sourceCap}
MCCredential == <<key, 1>>

MCRunners == {r1, r2}

MCWriters == {w1, w2, w3}
MCPlain == {w1}
MCClosing == {w3}
MCReaders == {c1}

\* One runner can do everything, the other one is for development.
MCAdvertised == [r \in MCRunners |-> IF r = r1 THEN SUPPORTED_RUNTIMES ELSE {"deterministic"}]
MCEgressEnabled == {r1}
MCTokens == {t1, t2}
MCKeys == {k1}

MCOpeners == {<<sha1, 1>>, <<sha2, 1>>, <<NoSha, 1>>}
MCBases == {main, trunk2}

PartsInit ==
    /\ part \in {"installation", "secrets", "daemon", "events", "verification",
                "pull request"}
    /\ InstallationInit
    /\ SecretsInit
    /\ DaemonInit
    /\ LogInit
    /\ VerificationInit
    /\ PullRequestInit
    /\ part # "pull request" => remote.base = main
    /\ part # "installation" => github.repositories = {}

PartsNext ==
    /\ UNCHANGED part
    /\ \/ /\ part = "installation"
          /\ InstallationNext
          /\ UNCHANGED <<secretVars, daemonVars, logVars, verificationVars, pullVars>>
       \/ /\ part = "secrets"
          /\ SecretsNext
          /\ UNCHANGED <<installationVars, daemonVars, logVars, verificationVars, pullVars>>
       \/ /\ part = "daemon"
          /\ DaemonNext
          /\ UNCHANGED <<installationVars, secretVars, logVars, verificationVars, pullVars>>
       \/ /\ part = "events"
          /\ LogNext
          /\ UNCHANGED <<installationVars, secretVars, daemonVars, verificationVars, pullVars>>
       \/ /\ part = "verification"
          /\ VerificationNext
          /\ UNCHANGED <<installationVars, secretVars, daemonVars, logVars, pullVars>>
       \/ /\ part = "pull request"
          /\ PullRequestNext
          /\ UNCHANGED <<installationVars, secretVars, daemonVars, logVars, verificationVars>>

partsVars == <<part, installationVars, secretVars, daemonVars, logVars, verificationVars,
               pullVars>>

PartsSpec == PartsInit /\ [][PartsNext]_partsVars /\ InstallationFairness
=============================================================================
