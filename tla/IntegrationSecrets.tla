------------------------- MODULE IntegrationSecrets -------------------------
(***************************************************************************)
(* What the integrations service keeps in files next to its tables: model  *)
(* credentials and the secrets of a source-control configuration           *)
(* (encrypted_file_secrets.py), the handlers of api.py that write them,    *)
(* and the single-use capabilities with which a runner asks for a model    *)
(* credential or for a token of a repository.                              *)
(*                                                                         *)
(* A file is written or removed at once, a row when the request commits,   *)
(* and the commit comes after the answer.  A session inserts its rows when *)
(* it next queries a table, or when it commits; the insert waits for one   *)
(* with the same key that is not committed, and fails if that one is.      *)
(* A definition named Bug... is a variant of the one it precedes with a    *)
(* mistake in it; no specification uses it.                                *)
(***************************************************************************)
EXTENDS Naturals, FiniteSets

CONSTANTS Creates,     \* requests to store a credential: <<idempotency key, number>>
          Manifests,   \* requests to complete the one setup attempt
          Exchanges,   \* requests to redeem a capability: <<capability, number>>
          SourceCapabilities,  \* the capabilities that are for a repository
          Credential,          \* the credential that the other ones are for
          MaxFailedRequests    \* how many requests fail

ASSUME SecretsAssumption ==
    /\ Creates \cap Manifests = {} /\ (Creates \cup Manifests) \cap Exchanges = {}
    /\ Credential \in Creates
    /\ MaxFailedRequests \in Nat

VARIABLES
    credential,  \* the model_credentials rows; a request's own id is the request
    file,        \* whose files exist: a credential's, the three of a configuration
    create,      \* the sessions of create_model_credential
    revoke,      \* one session of revoke_model_credential for each credential
    application, \* the source_control_configurations rows
    manifest,    \* the sessions of complete_github_manifest
    used,        \* has the setup attempt been used up?
    redeemed,    \* the rows of redeemed capabilities
    redemption,  \* the sessions that redeem capabilities
    handedOut,   \* history: the requests that were answered with a secret
    failed       \* the requests that failed

secretVars == <<credential, file, create, revoke, application, manifest, used, redeemed,
                redemption, handedOut, failed>>

Capability(x) == x[1]

SecretsTypeOK ==
    /\ credential \in [Creates -> {"none", "ACTIVE", "REVOKED"}]
    /\ file \in SUBSET (Creates \cup Manifests)
    /\ create \in [Creates -> {"new", "listed", "put", "selected", "inserted", "answered",
                               "failed"}]
    /\ revoke \in [Creates -> {"new", "read", "deleted", "committed", "failed"}]
    /\ application \in [Manifests -> {"none", "HEALTHY", "DISABLED"}]
    /\ manifest \in [Manifests -> {"new", "granted", "put", "checked", "committed", "failed"}]
    /\ used \in BOOLEAN
    /\ redeemed \in SUBSET {Capability(x) : x \in Exchanges}
    /\ redemption \in [Exchanges -> {"new", "checked", "inserted", "answered", "committed",
                                     "failed"}]
    /\ handedOut \in SUBSET Exchanges
    /\ failed \in SUBSET (Creates \cup Manifests \cup Exchanges)

SecretsInit ==
    /\ credential = [c \in Creates |-> "none"]
    /\ file = {}
    /\ create = [c \in Creates |-> "new"]
    /\ revoke = [c \in Creates |-> "new"]
    /\ application = [m \in Manifests |-> "none"]
    /\ manifest = [m \in Manifests |-> "new"]
    /\ used = FALSE
    /\ redeemed = {}
    /\ redemption = [x \in Exchanges |-> "new"]
    /\ handedOut = {}
    /\ failed = {}

RequestFails(request) ==
    /\ Cardinality(failed) < MaxFailedRequests
    /\ failed' = failed \cup {request}

-----------------------------------------------------------------------------
(* create_model_credential *)

\* The rows with the idempotency key of c.
SameKey(c) == {d \in Creates : d[1] = c[1] /\ credential[d] # "none"}

CreateStep(c, from, to) == create[c] = from /\ create' = [create EXCEPT ![c] = to]

\* If the key is known the answer is that of the first request.
ListCredentials(c) ==
    /\ CreateStep(c, "new", IF SameKey(c) = {} THEN "listed" ELSE "answered")
    /\ UNCHANGED <<credential, file, revoke, application, manifest, used, redeemed, redemption,
                   handedOut, failed>>

PutCredential(c) ==
    /\ CreateStep(c, "listed", "put")
    /\ file' = file \cup {c}
    /\ UNCHANGED <<credential, revoke, application, manifest, used, redeemed, redemption,
                   handedOut, failed>>

\* add_model_credential looks for the key once more.  If it finds it the handler
\* answers with an id and a file that have no row.
SelectCredential(c) ==
    /\ CreateStep(c, "put", IF SameKey(c) = {} THEN "selected" ELSE "answered")
    /\ UNCHANGED <<credential, file, revoke, application, manifest, used, redeemed, redemption,
                   handedOut, failed>>

\* UNIQUE (organization_id, idempotency_key); the file is removed on an error.
InsertCredential(c) ==
    /\ \A d \in Creates : d[1] = c[1] => create[d] # "inserted"
    /\ CreateStep(c, "selected", IF SameKey(c) = {} THEN "inserted" ELSE "failed")
    /\ file' = IF SameKey(c) = {} THEN file ELSE file \ {c}
    /\ UNCHANGED <<credential, revoke, application, manifest, used, redeemed, redemption,
                   handedOut, failed>>

CommitCredential(c) ==
    /\ CreateStep(c, "inserted", "answered")
    /\ credential' = [credential EXCEPT ![c] = "ACTIVE"]
    /\ UNCHANGED <<file, revoke, application, manifest, used, redeemed, redemption, handedOut,
                   failed>>

\* An exception in the try removes the file; a failing commit, or a crash, does not.
CreateFails(c) ==
    /\ \/ /\ CreateStep(c, "listed", "failed") \/ CreateStep(c, "inserted", "failed")
          /\ UNCHANGED file
       \/ /\ CreateStep(c, "put", "failed") \/ CreateStep(c, "selected", "failed")
          /\ file' \in {file, file \ {c}}
    /\ RequestFails(c)
    /\ UNCHANGED <<credential, revoke, application, manifest, used, redeemed, redemption,
                   handedOut>>

-----------------------------------------------------------------------------
(* revoke_model_credential *)

ReadForRevocation(c) ==
    /\ revoke[c] = "new"
    /\ credential[c] # "none"
    /\ revoke' = [revoke EXCEPT ![c] = "read"]
    /\ UNCHANGED <<credential, file, create, application, manifest, used, redeemed, redemption,
                   handedOut, failed>>

DeleteCredential(c) ==
    /\ revoke[c] = "read"
    /\ revoke' = [revoke EXCEPT ![c] = "deleted"]
    /\ file' = file \ {c}
    /\ UNCHANGED <<credential, create, application, manifest, used, redeemed, redemption,
                   handedOut, failed>>

BugCommitRevocationFirst(c) ==
    /\ revoke[c] \in {"read", "deleted"}
    /\ revoke' = [revoke EXCEPT ![c] = "committed"]
    /\ credential' = [credential EXCEPT ![c] = "REVOKED"]
    /\ UNCHANGED <<file, create, application, manifest, used, redeemed, redemption, handedOut,
                   failed>>
CommitRevocation(c) ==
    /\ revoke[c] = "deleted"
    /\ revoke' = [revoke EXCEPT ![c] = "committed"]
    /\ credential' = [credential EXCEPT ![c] = "REVOKED"]
    /\ UNCHANGED <<file, create, application, manifest, used, redeemed, redemption, handedOut,
                   failed>>

\* The administrator may try again.
RevokeFails(c) ==
    /\ revoke[c] \in {"read", "deleted"}
    /\ RequestFails(c)
    /\ revoke' = [revoke EXCEPT ![c] = "failed"]
    /\ UNCHANGED <<credential, file, create, application, manifest, used, redeemed, redemption,
                   handedOut>>

RevokeAgain(c) ==
    /\ revoke[c] = "failed"
    /\ revoke' = [revoke EXCEPT ![c] = "read"]
    /\ UNCHANGED <<credential, file, create, application, manifest, used, redeemed, redemption,
                   handedOut, failed>>

-----------------------------------------------------------------------------
(* complete_github_manifest *)

ManifestStep(m, from, to) ==
    manifest[m] = from /\ manifest' = [manifest EXCEPT ![m] = to]

\* consume_platform_setup_attempt locks the attempt until the session ends.
ConsumeSetup(m) ==
    /\ \A n \in Manifests : manifest[n] \in {"new", "committed", "failed"}
    /\ ManifestStep(m, "new", IF used THEN "failed" ELSE "granted")
    /\ UNCHANGED <<credential, file, create, revoke, application, used, redeemed, redemption,
                   handedOut, failed>>

PutSecrets(m) ==
    /\ ManifestStep(m, "granted", "put")
    /\ file' = file \cup {m}
    /\ UNCHANGED <<credential, create, revoke, application, used, redeemed, redemption,
                   handedOut, failed>>

\* The row is inserted, GitHub is asked with the key, the health recorded.
CheckHealth(m) ==
    /\ ManifestStep(m, "put", "checked")
    /\ UNCHANGED <<credential, file, create, revoke, application, used, redeemed, redemption,
                   handedOut, failed>>

CommitConfiguration(m) ==
    /\ ManifestStep(m, "checked", "committed")
    /\ application' = [application EXCEPT ![m] = "HEALTHY"]
    /\ used' = TRUE
    /\ UNCHANGED <<credential, file, create, revoke, redeemed, redemption, handedOut, failed>>

\* An exception removes the files; a failing commit, or a crash, leaves them.
ManifestFails(m) ==
    /\ \/ ManifestStep(m, "granted", "failed") /\ UNCHANGED file
       \/ ManifestStep(m, "put", "failed") /\ file' \in {file, file \ {m}}
       \/ ManifestStep(m, "checked", "failed") /\ UNCHANGED file
    /\ RequestFails(m)
    /\ UNCHANGED <<credential, create, revoke, application, used, redeemed, redemption,
                   handedOut>>

DisableConfiguration(m) ==
    /\ application[m] = "HEALTHY"
    /\ application' = [application EXCEPT ![m] = "DISABLED"]
    /\ UNCHANGED <<credential, file, create, revoke, manifest, used, redeemed, redemption,
                   handedOut, failed>>

-----------------------------------------------------------------------------
(* The exchange of a capability *)

IsSource(x) == Capability(x) \in SourceCapabilities

ExchangeStep(x, from, to) ==
    redemption[x] = from /\ redemption' = [redemption EXCEPT ![x] = to]

\* redeem_source_capability: 409 if there is a row.
CheckCapability(x) ==
    /\ ExchangeStep(x, "new", IF Capability(x) \in redeemed THEN "failed" ELSE "checked")
    /\ UNCHANGED <<credential, file, create, revoke, application, manifest, used, redeemed,
                   handedOut, failed>>

BugInsertRedemption(x) ==
    /\ IsSource(x)
    /\ ExchangeStep(x, "checked", "inserted")
    /\ UNCHANGED <<credential, file, create, revoke, application, manifest, used, redeemed,
                   handedOut, failed>>
\* exchange_source_credential reads the repository next, which inserts the row.
InsertRedemption(x) ==
    /\ IsSource(x)
    /\ \A y \in Exchanges :
         Capability(y) = Capability(x) => redemption[y] \notin {"inserted", "answered"}
    /\ ExchangeStep(x, "checked", IF Capability(x) \in redeemed THEN "failed" ELSE "inserted")
    /\ UNCHANGED <<credential, file, create, revoke, application, manifest, used, redeemed,
                   handedOut, failed>>

\* A token from GitHub, or the value in the credential's file, whose row is not
\* looked at; exchange_model_credential has not inserted anything yet.
Answer(x) ==
    /\ IF IsSource(x) THEN ExchangeStep(x, "inserted", "answered")
       ELSE /\ Credential \in file
            /\ ExchangeStep(x, "checked", "answered")
    /\ handedOut' = handedOut \cup {x}
    /\ UNCHANGED <<credential, file, create, revoke, application, manifest, used, redeemed,
                   failed>>

\* The primary key refuses the second redemption of a model capability here.
CommitRedemption(x) ==
    /\ ExchangeStep(x, "answered",
                    IF Capability(x) \in redeemed THEN "failed" ELSE "committed")
    /\ redeemed' = redeemed \cup {Capability(x)}
    /\ UNCHANGED <<credential, file, create, revoke, application, manifest, used, handedOut,
                   failed>>

\* GitHub or the store refuses, or the commit fails: the redemption is undone.
ExchangeFails(x) ==
    /\ \E from \in {"checked", "inserted", "answered"} : ExchangeStep(x, from, "failed")
    /\ RequestFails(x)
    /\ UNCHANGED <<credential, file, create, revoke, application, manifest, used, redeemed,
                   handedOut>>

-----------------------------------------------------------------------------
Create(c) ==
    \/ ListCredentials(c) \/ PutCredential(c) \/ SelectCredential(c) \/ InsertCredential(c)
    \/ CommitCredential(c) \/ CreateFails(c)

Revoke(c) ==
    \/ ReadForRevocation(c) \/ DeleteCredential(c) \/ CommitRevocation(c)
    \/ RevokeFails(c) \/ RevokeAgain(c)

Manifest(m) ==
    \/ ConsumeSetup(m) \/ PutSecrets(m) \/ CheckHealth(m) \/ CommitConfiguration(m)
    \/ ManifestFails(m) \/ DisableConfiguration(m)

Exchange(x) ==
    \/ CheckCapability(x) \/ InsertRedemption(x) \/ Answer(x) \/ CommitRedemption(x)
    \/ ExchangeFails(x)

SecretsNext ==
    \/ \E c \in Creates : Create(c) \/ Revoke(c)
    \/ \E m \in Manifests : Manifest(m)
    \/ \E x \in Exchanges : Exchange(x)

SecretsSpec == SecretsInit /\ [][SecretsNext]_secretVars

-----------------------------------------------------------------------------
(* Properties *)

\* Whatever fails or crashes between a file and its row: a revoked credential
\* has no file left that an exchange could read, an active one that nobody has
\* tried to revoke has its file, and every configuration has its secrets.
SecretsFollowRows ==
    /\ \A c \in Creates :
         /\ credential[c] = "REVOKED" => c \notin file
         /\ credential[c] = "ACTIVE" => c \in file \/ revoke[c] # "new"
    /\ \A m \in Manifests : application[m] # "none" => m \in file

\* A capability for a repository gives one token: a second one is given only if
\* the request that gave the first failed to commit after its answer.
SourceCapabilityIsSingleUse ==
    \A x, y \in handedOut :
        IsSource(x) /\ Capability(x) = Capability(y) /\ x # y => {x, y} \cap failed # {}
=============================================================================
