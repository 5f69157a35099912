---------------------- MODULE IntegrationSecrets_proofs ----------------------
(***************************************************************************)
(* Theorems about IntegrationSecrets, for any requests, capabilities and   *)
(* number of failures: the files agree with the rows, and a capability for *)
(* a repository gives one token.                                           *)
(***************************************************************************)
EXTENDS IntegrationSecrets, TLAPS

\* Every request that the sessions of credentials, setups and exchanges serve.
credentialVars == <<credential, create, revoke>>
setupVars == <<application, manifest, used>>
exchangeVars == <<redeemed, redemption, handedOut>>

\* A file is there from before the row is inserted until a revocation deletes it.
CredentialFile(c) ==
    /\ create[c] \in {"put", "selected", "inserted"} => c \in file
    /\ credential[c] # "none" => create[c] = "answered"
    /\ revoke[c] # "new" => credential[c] # "none"
    /\ revoke[c] \in {"deleted", "committed"} => c \notin file
    /\ credential[c] = "REVOKED" => revoke[c] = "committed"
    /\ credential[c] = "ACTIVE" /\ revoke[c] = "new" => c \in file

\* The files of a configuration are there from before its row is inserted.
SetupFiles(m) ==
    /\ manifest[m] \in {"put", "checked", "committed"} => m \in file
    /\ application[m] # "none" => manifest[m] = "committed"

Taken == {"inserted", "answered", "committed"}

\* One request at a time has taken a capability for a repository, and none has
\* taken a redeemed one that it has not redeemed itself.
OneTakes(x) ==
    IsSource(x) =>
        /\ redemption[x] = "committed" => Capability(x) \in redeemed
        /\ redemption[x] \in {"inserted", "answered"} => Capability(x) \notin redeemed
        /\ x \in handedOut => redemption[x] \in {"answered", "committed"} \/ x \in failed
        /\ \A y \in Exchanges :
             Capability(x) = Capability(y) /\ x # y
                => redemption[x] \notin Taken \/ redemption[y] \notin Taken

SecretsInv ==
    /\ SecretsTypeOK
    /\ \A c \in Creates : CredentialFile(c)
    /\ \A m \in Manifests : SetupFiles(m)
    /\ \A x \in Exchanges : OneTakes(x)

-----------------------------------------------------------------------------
\* There are no files, rows or sessions.
LEMMA InitEstablishesSecretsInv ==
    ASSUME SecretsInit
    PROVE  SecretsInv
BY DEF SecretsInit, SecretsInv, SecretsTypeOK, CredentialFile, SetupFiles, OneTakes, Taken

\* A failing request is one of those that there are.
LEMMA FailuresAreRequests ==
    ASSUME SecretsTypeOK, NEW request \in Creates \cup Manifests \cup Exchanges,
           RequestFails(request)
    PROVE  /\ failed' \in SUBSET (Creates \cup Manifests \cup Exchanges)
           /\ failed \subseteq failed'
           /\ request \in failed'
BY DEF SecretsTypeOK, RequestFails

\* The exchanges depend on the files of credentials and on their own rows only.
LEMMA OtherRequestsKeepOneTakes ==
    ASSUME SecretsInv, UNCHANGED exchangeVars, failed \subseteq failed'
    PROVE  \A x \in Exchanges : OneTakes(x)'
BY DEF SecretsInv, OneTakes, exchangeVars, IsSource, Capability

\* The sessions of create_model_credential keep the invariant.
LEMMA CreateKeepsSecretsInv ==
    ASSUME SecretsInv, NEW c \in Creates, Create(c)
    PROVE  SecretsInv'
<1>1. /\ UNCHANGED <<setupVars, exchangeVars, revoke>>
      /\ file' \in {file, file \cup {c}, file \ {c}}
  BY DEF Create, ListCredentials, PutCredential, SelectCredential, InsertCredential,
     CommitCredential, CreateFails, setupVars, exchangeVars
<1>2. failed' \in SUBSET (Creates \cup Manifests \cup Exchanges) /\ failed \subseteq failed'
  BY FailuresAreRequests DEF SecretsInv, SecretsTypeOK, Create, ListCredentials,
     PutCredential, SelectCredential, InsertCredential, CommitCredential, CreateFails
<1>3. /\ create' \in [Creates -> {"new", "listed", "put", "selected", "inserted", "answered",
                                  "failed"}]
      /\ credential' \in [Creates -> {"none", "ACTIVE", "REVOKED"}]
      /\ \A d \in Creates \ {c} : create'[d] = create[d] /\ credential'[d] = credential[d]
  BY DEF SecretsInv, SecretsTypeOK, Create, CreateStep, ListCredentials, PutCredential,
     SelectCredential, InsertCredential, CommitCredential, CreateFails
<1>4. SecretsTypeOK'
  BY <1>1, <1>2, <1>3 DEF SecretsInv, SecretsTypeOK, setupVars, exchangeVars
<1>5. CredentialFile(c)'
  <2>1. CredentialFile(c)
    BY DEF SecretsInv
  <2>2. CASE ListCredentials(c)
    BY <2>1, <2>2 DEF SecretsInv, SecretsTypeOK, CredentialFile, ListCredentials, CreateStep
  <2>3. CASE PutCredential(c)
    BY <2>1, <2>3 DEF SecretsInv, SecretsTypeOK, CredentialFile, PutCredential, CreateStep
  <2>4. CASE SelectCredential(c)
    BY <2>1, <2>4 DEF SecretsInv, SecretsTypeOK, CredentialFile, SelectCredential, CreateStep
  <2>5. CASE InsertCredential(c)
    BY <2>1, <2>5 DEF SecretsInv, SecretsTypeOK, CredentialFile, InsertCredential, CreateStep
  <2>6. CASE CommitCredential(c)
    BY <2>1, <2>6 DEF SecretsInv, SecretsTypeOK, CredentialFile, CommitCredential, CreateStep
  <2>7. CASE CreateFails(c)
    BY <2>1, <2>7 DEF SecretsInv, SecretsTypeOK, CredentialFile, CreateFails, CreateStep
  <2> QED
    BY <2>2, <2>3, <2>4, <2>5, <2>6, <2>7 DEF Create
<1>6. \A d \in Creates \ {c} : CredentialFile(d)'
  BY <1>1, <1>3 DEF SecretsInv, CredentialFile
<1>7. \A m \in Manifests : SetupFiles(m)'
  BY <1>1, SecretsAssumption DEF SecretsInv, SetupFiles, setupVars
<1> QED
  BY <1>1, <1>2, <1>4, <1>5, <1>6, <1>7, OtherRequestsKeepOneTakes DEF SecretsInv

\* The sessions of revoke_model_credential keep the invariant.
LEMMA RevokeKeepsSecretsInv ==
    ASSUME SecretsInv, NEW c \in Creates, Revoke(c)
    PROVE  SecretsInv'
<1>1. /\ UNCHANGED <<setupVars, exchangeVars, create>>
      /\ file' \in {file, file \ {c}}
  BY DEF Revoke, ReadForRevocation, DeleteCredential, CommitRevocation, RevokeFails,
     RevokeAgain, setupVars, exchangeVars
<1>2. failed' \in SUBSET (Creates \cup Manifests \cup Exchanges) /\ failed \subseteq failed'
  BY FailuresAreRequests DEF SecretsInv, SecretsTypeOK, Revoke, ReadForRevocation,
     DeleteCredential, CommitRevocation, RevokeFails, RevokeAgain
<1>3. /\ revoke' \in [Creates -> {"new", "read", "deleted", "committed", "failed"}]
      /\ credential' \in [Creates -> {"none", "ACTIVE", "REVOKED"}]
      /\ \A d \in Creates \ {c} : revoke'[d] = revoke[d] /\ credential'[d] = credential[d]
  BY DEF SecretsInv, SecretsTypeOK, Revoke, ReadForRevocation, DeleteCredential,
     CommitRevocation, RevokeFails, RevokeAgain
<1>4. SecretsTypeOK'
  BY <1>1, <1>2, <1>3 DEF SecretsInv, SecretsTypeOK, setupVars, exchangeVars
<1>5. CredentialFile(c)'
  <2>1. CredentialFile(c)
    BY DEF SecretsInv
  <2>2. CASE ReadForRevocation(c)
    BY <2>1, <2>2 DEF SecretsInv, SecretsTypeOK, CredentialFile, ReadForRevocation
  <2>3. CASE DeleteCredential(c)
    BY <2>1, <2>3 DEF SecretsInv, SecretsTypeOK, CredentialFile, DeleteCredential
  <2>4. CASE CommitRevocation(c)
    BY <2>1, <2>4 DEF SecretsInv, SecretsTypeOK, CredentialFile, CommitRevocation
  <2>5. CASE RevokeFails(c)
    BY <2>1, <2>5 DEF SecretsInv, SecretsTypeOK, CredentialFile, RevokeFails
  <2>6. CASE RevokeAgain(c)
    BY <2>1, <2>6 DEF SecretsInv, SecretsTypeOK, CredentialFile, RevokeAgain
  <2> QED
    BY <2>2, <2>3, <2>4, <2>5, <2>6 DEF Revoke
<1>6. \A d \in Creates \ {c} : CredentialFile(d)'
  BY <1>1, <1>3 DEF SecretsInv, CredentialFile
<1>7. \A m \in Manifests : SetupFiles(m)'
  BY <1>1, SecretsAssumption DEF SecretsInv, SetupFiles, setupVars
<1> QED
  BY <1>1, <1>2, <1>4, <1>5, <1>6, <1>7, OtherRequestsKeepOneTakes DEF SecretsInv

\* The sessions of complete_github_manifest keep the invariant.
LEMMA ManifestKeepsSecretsInv ==
    ASSUME SecretsInv, NEW m \in Manifests, Manifest(m)
    PROVE  SecretsInv'
<1>1. /\ UNCHANGED <<credentialVars, exchangeVars>>
      /\ file' \in {file, file \cup {m}, file \ {m}}
  BY DEF Manifest, ManifestStep, ConsumeSetup, PutSecrets, CheckHealth, CommitConfiguration,
     ManifestFails, DisableConfiguration, credentialVars, exchangeVars
<1>2. failed' \in SUBSET (Creates \cup Manifests \cup Exchanges) /\ failed \subseteq failed'
  BY FailuresAreRequests DEF SecretsInv, SecretsTypeOK, Manifest, ConsumeSetup, PutSecrets,
     CheckHealth, CommitConfiguration, ManifestFails, DisableConfiguration
<1>3. /\ manifest' \in [Manifests -> {"new", "granted", "put", "checked", "committed",
                                      "failed"}]
      /\ application' \in [Manifests -> {"none", "HEALTHY", "DISABLED"}]
      /\ used' \in BOOLEAN
      /\ \A n \in Manifests \ {m} :
            manifest'[n] = manifest[n] /\ application'[n] = application[n]
  BY DEF SecretsInv, SecretsTypeOK, Manifest, ManifestStep, ConsumeSetup, PutSecrets,
     CheckHealth, CommitConfiguration, ManifestFails, DisableConfiguration
<1>4. SecretsTypeOK'
  BY <1>1, <1>2, <1>3 DEF SecretsInv, SecretsTypeOK, credentialVars, exchangeVars
<1>5. SetupFiles(m)'
  <2>1. SetupFiles(m)
    BY DEF SecretsInv
  <2>2. CASE ConsumeSetup(m)
    BY <2>1, <2>2 DEF SecretsInv, SecretsTypeOK, SetupFiles, ConsumeSetup, ManifestStep
  <2>3. CASE PutSecrets(m)
    BY <2>1, <2>3 DEF SecretsInv, SecretsTypeOK, SetupFiles, PutSecrets, ManifestStep
  <2>4. CASE CheckHealth(m)
    BY <2>1, <2>4 DEF SecretsInv, SecretsTypeOK, SetupFiles, CheckHealth, ManifestStep
  <2>5. CASE CommitConfiguration(m)
    BY <2>1, <2>5 DEF SecretsInv, SecretsTypeOK, SetupFiles, CommitConfiguration, ManifestStep
  <2>6. CASE ManifestFails(m)
    BY <2>1, <2>6 DEF SecretsInv, SecretsTypeOK, SetupFiles, ManifestFails, ManifestStep
  <2>7. CASE DisableConfiguration(m)
    BY <2>1, <2>7 DEF SecretsInv, SecretsTypeOK, SetupFiles, DisableConfiguration
  <2> QED
    BY <2>2, <2>3, <2>4, <2>5, <2>6, <2>7 DEF Manifest
<1>6. \A n \in Manifests \ {m} : SetupFiles(n)'
  BY <1>1, <1>3 DEF SecretsInv, SetupFiles
<1>7. \A c \in Creates : CredentialFile(c)'
  BY <1>1, SecretsAssumption DEF SecretsInv, CredentialFile, credentialVars
<1> QED
  BY <1>1, <1>2, <1>4, <1>5, <1>6, <1>7, OtherRequestsKeepOneTakes DEF SecretsInv

\* A request that takes nothing more than it had keeps OneTakes, if it keeps it
\* for itself.
LEMMA OneStepKeepsOneTakes ==
    ASSUME SecretsInv, NEW x \in Exchanges, NEW to, redemption' = [redemption EXCEPT ![x] = to],
           redeemed' = redeemed, handedOut \subseteq handedOut', failed \subseteq failed',
           handedOut' \subseteq handedOut \cup {x},
           to \in Taken => redemption[x] \in Taken,
           IsSource(x) => /\ to = "committed" => Capability(x) \in redeemed
                          /\ to \in {"inserted", "answered"} => Capability(x) \notin redeemed
                          /\ x \in handedOut' => to \in {"answered", "committed"}
                                                 \/ x \in failed'
    PROVE  \A y \in Exchanges : OneTakes(y)'
<1>1. redemption'[x] = to /\ \A y \in Exchanges \ {x} : redemption'[y] = redemption[y]
  BY DEF SecretsInv, SecretsTypeOK
<1>2. ASSUME NEW y \in Exchanges, IsSource(y) PROVE OneTakes(y)'
  <2>1. OneTakes(y)
    BY DEF SecretsInv
  <2>2. \A z \in Exchanges : redemption'[z] \in Taken => redemption[z] \in Taken
    BY <1>1
  <2>3. \A z \in Exchanges : Capability(y) = Capability(z) /\ y # z
                => redemption'[y] \notin Taken \/ redemption'[z] \notin Taken
    BY <1>2, <2>1, <2>2 DEF OneTakes
  <2>4. CASE y = x
    BY <1>1, <1>2, <2>3, <2>4 DEF OneTakes
  <2>5. CASE y # x
    BY <1>1, <1>2, <2>1, <2>3, <2>5 DEF OneTakes
  <2> QED
    BY <2>4, <2>5
<1> QED
  BY <1>2 DEF OneTakes, IsSource, Capability

\* The sessions that redeem a capability keep the invariant.
LEMMA ExchangeKeepsSecretsInv ==
    ASSUME SecretsInv, NEW x \in Exchanges, Exchange(x)
    PROVE  SecretsInv'
<1>1. UNCHANGED <<credentialVars, setupVars, file>>
  BY DEF Exchange, CheckCapability, InsertRedemption, Answer, CommitRedemption, ExchangeFails,
     credentialVars, setupVars
<1>2. failed' \in SUBSET (Creates \cup Manifests \cup Exchanges) /\ failed \subseteq failed'
  BY FailuresAreRequests DEF SecretsInv, SecretsTypeOK, Exchange, CheckCapability,
     InsertRedemption, Answer, CommitRedemption, ExchangeFails
<1>3. redemption' \in [Exchanges -> {"new", "checked", "inserted", "answered", "committed",
                                     "failed"}]
  BY DEF SecretsInv, SecretsTypeOK, Exchange, ExchangeStep, CheckCapability,
     InsertRedemption, Answer, CommitRedemption, ExchangeFails
<1>4. /\ redeemed' \in SUBSET {Capability(y) : y \in Exchanges}
      /\ handedOut' \in SUBSET Exchanges
  BY DEF SecretsInv, SecretsTypeOK, Exchange, CheckCapability, InsertRedemption, Answer,
     CommitRedemption, ExchangeFails
<1>5. SecretsTypeOK'
  BY <1>1, <1>2, <1>3, <1>4 DEF SecretsInv, SecretsTypeOK, credentialVars, setupVars
<1>6. \A c \in Creates : CredentialFile(c)'
  BY <1>1 DEF SecretsInv, CredentialFile, credentialVars
<1>7. \A m \in Manifests : SetupFiles(m)'
  BY <1>1 DEF SecretsInv, SetupFiles, setupVars
<1>8. OneTakes(x) /\ redemption \in [Exchanges -> {"new", "checked", "inserted", "answered",
                                                   "committed", "failed"}]
  BY DEF SecretsInv, SecretsTypeOK
<1>9. \A y \in Exchanges : OneTakes(y)'
  <2>1. CASE CheckCapability(x)
    <3> DEFINE to == IF Capability(x) \in redeemed THEN "failed" ELSE "checked"
    <3>1. /\ redemption' = [redemption EXCEPT ![x] = to] /\ redemption[x] = "new"
          /\ UNCHANGED <<redeemed, handedOut, failed>>
      BY <2>1 DEF CheckCapability, ExchangeStep
    <3>2. to \notin Taken
      BY DEF Taken
    <3> HIDE DEF to
    <3> QED
      BY <1>8, <3>1, <3>2, OneStepKeepsOneTakes DEF OneTakes, Taken
  <2>2. CASE Answer(x)
    <3>1. /\ redemption' = [redemption EXCEPT ![x] = "answered"]
          /\ UNCHANGED <<redeemed, failed>>
          /\ handedOut' = handedOut \cup {x}
      BY <2>2 DEF Answer, ExchangeStep
    <3>2. CASE IsSource(x)
      <4>1. redemption[x] = "inserted"
        BY <2>2, <3>2 DEF Answer, ExchangeStep
      <4> QED
        BY <1>8, <3>1, <3>2, <4>1, OneStepKeepsOneTakes DEF OneTakes, Taken
    <3>3. CASE ~IsSource(x)
      <4>1. \A y \in Exchanges \ {x} : redemption'[y] = redemption[y]
        BY <1>8, <3>1
      <4>2. \A y \in Exchanges : IsSource(y) =>
                y # x /\ Capability(y) # Capability(x)
        BY <3>3 DEF IsSource
      <4>3. ASSUME NEW y \in Exchanges, IsSource(y) PROVE OneTakes(y)'
        <5>1. OneTakes(y)
          BY DEF SecretsInv
        <5> QED
          BY <3>1, <4>1, <4>2, <4>3, <5>1 DEF OneTakes
      <4> QED
        BY <4>3 DEF OneTakes, IsSource, Capability
    <3> QED
      BY <3>2, <3>3
  <2>3. CASE ExchangeFails(x)
    <3>1. /\ redemption' = [redemption EXCEPT ![x] = "failed"]
          /\ UNCHANGED <<redeemed, handedOut>>
          /\ x \in failed'
      BY <2>3, FailuresAreRequests DEF ExchangeFails, ExchangeStep, SecretsInv
    <3> QED
      BY <1>2, <3>1, OneStepKeepsOneTakes DEF Taken
  <2>4. CASE InsertRedemption(x)
    <3>1. /\ IsSource(x) /\ redemption[x] = "checked"
          /\ UNCHANGED <<redeemed, handedOut, failed>>
          /\ \A y \in Exchanges :
                Capability(y) = Capability(x) => redemption[y] \notin {"inserted", "answered"}
      BY <2>4 DEF InsertRedemption, ExchangeStep
    <3>2. x \in handedOut => x \in failed
      BY <1>8, <3>1 DEF OneTakes
    <3>3. CASE Capability(x) \in redeemed
      <4>1. redemption' = [redemption EXCEPT ![x] = "failed"]
        BY <2>4, <3>3 DEF InsertRedemption, ExchangeStep
      <4> QED
        BY <3>1, <3>2, <4>1, OneStepKeepsOneTakes DEF Taken
    <3>4. CASE Capability(x) \notin redeemed
      <4>1. redemption' = [redemption EXCEPT ![x] = "inserted"]
        BY <2>4, <3>4 DEF InsertRedemption, ExchangeStep
      <4>2. redemption'[x] = "inserted" /\ \A y \in Exchanges \ {x} : redemption'[y] = redemption[y]
        BY <1>8, <4>1
      <4>3. ASSUME NEW y \in Exchanges, IsSource(y) PROVE OneTakes(y)'
        <5>1. OneTakes(y)
          BY DEF SecretsInv
        <5>2. CASE y = x
          <6>1. \A z \in Exchanges : Capability(z) = Capability(x) /\ z # x
                                        => redemption[z] \notin Taken
            <7> SUFFICES ASSUME NEW z \in Exchanges, Capability(z) = Capability(x), z # x,
                                redemption[z] = "committed"
                         PROVE  FALSE
              BY <3>1 DEF Taken
            <7>1. OneTakes(z) /\ IsSource(z)
              BY <3>1 DEF SecretsInv, IsSource
            <7> QED
              BY <3>4, <7>1 DEF OneTakes
          <6> QED
            BY <3>1, <3>2, <3>4, <4>2, <5>2, <6>1 DEF OneTakes
        <5>3. CASE y # x /\ Capability(y) # Capability(x)
          BY <3>1, <4>2, <4>3, <5>1, <5>3 DEF OneTakes
        <5>4. CASE y # x /\ Capability(y) = Capability(x)
          <6>1. redemption[y] \notin Taken
            BY <3>1, <3>4, <4>3, <5>1, <5>4 DEF OneTakes, Taken
          <6> QED
            BY <3>1, <4>2, <4>3, <5>1, <5>4, <6>1 DEF OneTakes
        <5> QED
          BY <5>2, <5>3, <5>4
      <4> QED
        BY <4>3 DEF OneTakes, IsSource, Capability
    <3> QED
      BY <3>3, <3>4
  <2>5. CASE CommitRedemption(x)
    <3>1. /\ redemption[x] = "answered" /\ redeemed' = redeemed \cup {Capability(x)}
          /\ UNCHANGED <<handedOut, failed>>
      BY <2>5 DEF CommitRedemption, ExchangeStep
    <3>2. \A y \in Exchanges \ {x} : redemption'[y] = redemption[y]
      BY <1>8, <2>5 DEF CommitRedemption, ExchangeStep
    <3>3. IsSource(x) => redemption'[x] = "committed"
      BY <1>8, <2>5, <3>1 DEF CommitRedemption, ExchangeStep, OneTakes
    <3>4. ASSUME NEW y \in Exchanges, IsSource(y) PROVE OneTakes(y)'
      <4>1. OneTakes(y)
        BY DEF SecretsInv
      <4>2. CASE Capability(y) # Capability(x)
        BY <3>1, <3>2, <3>4, <4>1, <4>2 DEF OneTakes
      <4>3. CASE y = x
        BY <3>1, <3>2, <3>3, <3>4, <4>1, <4>3 DEF OneTakes, Taken
      <4>4. CASE Capability(y) = Capability(x) /\ y # x
        <5>1. IsSource(x)
          BY <3>4, <4>4 DEF IsSource
        <5>2. redemption[y] \notin Taken
          BY <3>1, <3>4, <4>1, <4>4 DEF OneTakes, Taken
        <5> QED
          BY <3>1, <3>2, <3>3, <3>4, <4>1, <4>4, <5>1, <5>2 DEF OneTakes, Taken
      <4> QED
        BY <4>2, <4>3, <4>4
    <3> QED
      BY <3>4 DEF OneTakes, IsSource, Capability
  <2> QED
    BY <2>1, <2>2, <2>3, <2>4, <2>5 DEF Exchange
<1> QED
  BY <1>5, <1>6, <1>7, <1>9 DEF SecretsInv

-----------------------------------------------------------------------------
(* The theorems *)

\* The invariant holds in every reachable state.
THEOREM SecretsInvariant == SecretsSpec => []SecretsInv
<1>1. SecretsInit => SecretsInv
  BY InitEstablishesSecretsInv
<1>2. ASSUME SecretsInv, [SecretsNext]_secretVars PROVE SecretsInv'
  <2>1. CASE UNCHANGED secretVars
    BY <1>2, <2>1 DEF secretVars, SecretsInv, SecretsTypeOK, CredentialFile, SetupFiles,
       OneTakes
  <2>2. CASE SecretsNext
    BY <1>2, <2>2, CreateKeepsSecretsInv, RevokeKeepsSecretsInv, ManifestKeepsSecretsInv,
       ExchangeKeepsSecretsInv DEF SecretsNext
  <2> QED
    BY <1>2, <2>1, <2>2
<1> QED
  BY <1>1, <1>2, PTL DEF SecretsSpec

\* The variables keep their types.
THEOREM SecretsTypeCorrect == SecretsSpec => []SecretsTypeOK
<1>1. SecretsInv => SecretsTypeOK
  BY DEF SecretsInv
<1> QED
  BY <1>1, SecretsInvariant, PTL

\* A revoked credential has no file, an active one that nobody has tried to revoke
\* has its file, and every configuration has its secrets.
THEOREM FilesFollowRows == SecretsSpec => []SecretsFollowRows
<1>1. SecretsInv => SecretsFollowRows
  BY DEF SecretsInv, CredentialFile, SetupFiles, SecretsFollowRows
<1> QED
  BY <1>1, SecretsInvariant, PTL

\* A second token for one capability follows only a request that failed.
THEOREM OneTokenForACapability == SecretsSpec => []SourceCapabilityIsSingleUse
<1>1. SecretsInv => SourceCapabilityIsSingleUse
  <2> SUFFICES ASSUME SecretsInv, NEW x \in handedOut, NEW y \in handedOut, IsSource(x),
                      Capability(x) = Capability(y), x # y, {x, y} \cap failed = {}
               PROVE  FALSE
    BY DEF SourceCapabilityIsSingleUse
  <2>1. x \in Exchanges /\ y \in Exchanges /\ IsSource(y)
    BY DEF SecretsInv, SecretsTypeOK, IsSource
  <2>2. OneTakes(x) /\ OneTakes(y)
    BY <2>1 DEF SecretsInv
  <2> QED
    BY <2>1, <2>2 DEF OneTakes, Taken
<1> QED
  BY <1>1, SecretsInvariant, PTL
=============================================================================
