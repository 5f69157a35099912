---------------------------- MODULE AgentRuntimes ----------------------------
(***************************************************************************)
(* Which agent configurations delivery accepts, and which of them the      *)
(* runner can start: the table of domain/agent_runtimes.py and the checks  *)
(* of AgentProviderConfiguration on one side; on the other the runner's    *)
(* provider_catalog.py and agent_registry.py, _execute of job.py, and the  *)
(* environments that the adapters build.  The two sides share no code and  *)
(* keep each other's identifiers as strings.  A definition named Bug... is *)
(* a variant of the one it precedes with a mistake in it.                  *)
(***************************************************************************)

AuthenticationMode == {"NONE", "LOCAL_SESSION", "API_KEY_REFERENCE",
                       "ENTERPRISE_CONFIGURATION"}

\* The names that occur in either table and one that occurs in none.
Runtime == {"deterministic", "codex-cli", "claude-code-cli", "claude-agent-sdk", "unknown"}
Provider == {"local", "openai", "anthropic", "zhipu-glm", "moonshot-kimi", "unknown"}
Model == {"gpt-5.1-codex", "gpt-5.1-codex-max", "claude-opus-5", "glm-5.2", "kimi-k2.5",
          "unknown"}

Configuration ==
    [runtime : Runtime, provider : Provider, model : Model,
     authentication_mode : AuthenticationMode,
     secret_reference : BOOLEAN,            \* is there one?
     is_development_substitute : BOOLEAN]

-----------------------------------------------------------------------------
(* Delivery *)

Compatibility(providers, modes, substitute, session) ==
    [providers |-> providers, authentication_modes |-> modes,
     is_development_substitute |-> substitute, local_session_provider |-> session]

RUNTIME_COMPATIBILITY == [runtime \in Runtime \ {"unknown"} |->
    CASE runtime = "deterministic" -> Compatibility({"local"}, {"NONE"}, TRUE, "none")
      [] runtime = "codex-cli" ->
            Compatibility({"openai"}, {"LOCAL_SESSION", "API_KEY_REFERENCE"}, FALSE, "openai")
      [] runtime = "claude-code-cli" ->
            Compatibility({"anthropic", "zhipu-glm", "moonshot-kimi"},
                          {"LOCAL_SESSION", "API_KEY_REFERENCE"}, FALSE, "anthropic")
      [] runtime = "claude-agent-sdk" ->
            Compatibility({"anthropic"}, {"API_KEY_REFERENCE"}, FALSE, "none")]

Entry(provider, runtime, models) ==
    [provider |-> provider, runtime |-> runtime, models |-> models]

AGENT_CATALOG ==
    {Entry("openai", "codex-cli", {"gpt-5.1-codex", "gpt-5.1-codex-max"}),
     Entry("anthropic", "claude-code-cli", {"claude-opus-5"}),
     Entry("anthropic", "claude-agent-sdk", {"claude-opus-5"}),
     Entry("zhipu-glm", "claude-code-cli", {"glm-5.2"}),
     Entry("moonshot-kimi", "claude-code-cli", {"kimi-k2.5"})}

InCatalog(c) ==
    \E entry \in AGENT_CATALOG :
        entry.runtime = c.runtime /\ entry.provider = c.provider /\ c.model \in entry.models

BugEnsureSupported(c) ==
    /\ c.runtime \in DOMAIN RUNTIME_COMPATIBILITY
    /\ LET compatibility == RUNTIME_COMPATIBILITY[c.runtime]
       IN  /\ c.provider \in compatibility.providers
           /\ c.authentication_mode \in compatibility.authentication_modes
           /\ c.is_development_substitute = compatibility.is_development_substitute
    /\ ~c.is_development_substitute => InCatalog(c)
\* ensure_supported.  A session is only good for the provider it was opened with.
EnsureSupported(c) ==
    /\ c.runtime \in DOMAIN RUNTIME_COMPATIBILITY
    /\ LET compatibility == RUNTIME_COMPATIBILITY[c.runtime]
       IN  /\ c.provider \in compatibility.providers
           /\ c.authentication_mode \in compatibility.authentication_modes
           /\ c.authentication_mode = "LOCAL_SESSION"
                => c.provider = compatibility.local_session_provider
           /\ c.is_development_substitute = compatibility.is_development_substitute
    /\ ~c.is_development_substitute => InCatalog(c)

\* __post_init__.
Accepted(c) ==
    /\ c.secret_reference <=> c.authentication_mode = "API_KEY_REFERENCE"
    /\ EnsureSupported(c)

\* What agent_catalog offers to the web client, for a key that it has stored.
Offered(entry, model) ==
    [runtime |-> entry.runtime, provider |-> entry.provider, model |-> model,
     authentication_mode |-> "API_KEY_REFERENCE", secret_reference |-> TRUE,
     is_development_substitute |-> FALSE]

-----------------------------------------------------------------------------
(* The runner *)

Endpoint(style, base_url, hosts, runtimes) ==
    [auth_style |-> style, base_url |-> base_url, egress_hosts |-> hosts,
     compatible_runtimes |-> runtimes]

PROVIDER_CATALOG == [provider \in Provider \ {"unknown"} |->
    CASE provider = "local" -> Endpoint("NONE", "none", {}, {"deterministic"})
      [] provider = "anthropic" ->
            Endpoint("ANTHROPIC_API_KEY", "none", {"api.anthropic.com"},
                     {"claude-agent-sdk", "claude-code-cli"})
      [] provider = "openai" ->
            Endpoint("OPENAI_API_KEY", "none", {"api.openai.com", "chatgpt.com"}, {"codex-cli"})
      [] provider = "zhipu-glm" ->
            Endpoint("ANTHROPIC_AUTH_TOKEN", "open.bigmodel.cn", {"open.bigmodel.cn"},
                     {"claude-code-cli"})
      [] provider = "moonshot-kimi" ->
            Endpoint("ANTHROPIC_AUTH_TOKEN", "api.moonshot.ai", {"api.moonshot.ai"},
                     {"claude-code-cli"})]

allowlisted_hosts ==
    UNION {PROVIDER_CATALOG[provider].egress_hosts : provider \in DOMAIN PROVIDER_CATALOG}

SUPPORTED_RUNTIMES == {"deterministic", "codex-cli", "claude-code-cli", "claude-agent-sdk"}
EGRESS_REQUIRED_RUNTIMES == SUPPORTED_RUNTIMES \ {"deterministic"}

\* supported_authentication_modes of each adapter's capabilities.
Capabilities(runtime) ==
    CASE runtime = "deterministic" -> {"NONE"}
      [] runtime = "claude-agent-sdk" -> {"API_KEY_REFERENCE"}
      [] OTHER -> {"LOCAL_SESSION", "API_KEY_REFERENCE"}

\* What the adapter itself refuses: _build_environment, or the start of execute.
\* The secret is there if the daemon has redeemed a capability for it.
AdapterAccepts(c, secret) ==
    CASE c.runtime = "deterministic" -> TRUE
      [] c.runtime = "codex-cli" -> c.authentication_mode = "LOCAL_SESSION" \/ secret
      [] c.runtime = "claude-code-cli" ->
            IF c.authentication_mode = "LOCAL_SESSION" THEN c.provider = "anthropic" ELSE secret
      [] c.runtime = "claude-agent-sdk" -> c.provider = "anthropic" /\ secret

\* Does the job's container get as far as starting the agent?
Starts(c, secret) ==
    /\ c.provider \in DOMAIN PROVIDER_CATALOG
    /\ c.runtime \in SUPPORTED_RUNTIMES
    /\ c.authentication_mode \in Capabilities(c.runtime)
    /\ AdapterAccepts(c, secret)

\* The variable that the agent reads its key from.  The SDK adapter does not ask
\* the endpoint.
KeyVariable(c) ==
    IF c.runtime = "claude-agent-sdk" THEN "ANTHROPIC_API_KEY"
    ELSE PROVIDER_CATALOG[c.provider].auth_style

\* What _execute_sync mounts in the job's container, and where an agent with
\* LOCAL_SESSION looks for the session.
Volumes == {"/workspace", "/job"}
SessionMount(c) ==
    IF c.runtime = "codex-cli" THEN "/home/app/.codex" ELSE "/run/secrets/claude"

\* Can the agent use what it is given: the secret or a session, a key of a kind
\* that its program reads, the base URL that goes with it, and a host that the
\* proxy lets through?
CanAuthenticate(c, secret) ==
    LET endpoint == PROVIDER_CATALOG[c.provider]
    IN  /\ c.runtime \in endpoint.compatible_runtimes
        /\ c.runtime # "deterministic" => secret \/ SessionMount(c) \in Volumes
        /\ KeyVariable(c) \in CASE c.runtime = "deterministic" -> {"NONE"}
                                [] c.runtime = "codex-cli" -> {"OPENAI_API_KEY"}
                                [] OTHER -> {"ANTHROPIC_API_KEY", "ANTHROPIC_AUTH_TOKEN"}
        /\ KeyVariable(c) = "ANTHROPIC_AUTH_TOKEN" <=> endpoint.base_url # "none"
        /\ endpoint.base_url \in allowlisted_hosts \cup {"none"}
        /\ c.runtime \in EGRESS_REQUIRED_RUNTIMES => endpoint.egress_hosts # {}
=============================================================================
