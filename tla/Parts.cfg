SPECIFICATION PartsSpec
CONSTANTS
    o1 = o1
    o2 = o2
    h1 = h1
    h2 = h2
    x1 = x1
    key = key
    m1 = m1
    m2 = m2
    sourceCap = sourceCap
    modelCap = modelCap
    r1 = r1
    r2 = r2
    w1 = w1
    w2 = w2
    w3 = w3
    c1 = c1
    t1 = t1
    t2 = t2
    k1 = k1
    Organizations <- MCOrganizations
    NoOrganization = NoOrganization
    Connects <- MCConnects
    NoConnect = NoConnect
    Requests <- MCRequests
    Repositories <- MCRepositories
    MaxEvents = 2
    MaxChanges = 1
    MaxFailures = 1
    Creates <- MCCreates
    Manifests <- MCManifests
    Exchanges <- MCExchanges
    SourceCapabilities <- MCSourceCapabilities
    Credential <- MCCredential
    MaxFailedRequests = 1
    Runners <- MCRunners
    NoRunner = NoRunner
    MaxRounds = 2
    MaxTasks = 2
    MaxTrunk = 1
    MaxFaults = 1
    Writers <- MCWriters
    Plain <- MCPlain
    Closing <- MCClosing
    Readers <- MCReaders
    NoWriter = NoWriter
    MaxOwn = 2
    MaxIdle = 2
    MaxStreams = 2
    Pool <- MCRunners
    NoMember = NoMember
    Advertised <- MCAdvertised
    EgressEnabled <- MCEgressEnabled
    Tokens <- MCTokens
    Keys <- MCKeys
    NoKey = NoKey
    Submitted <- Configuration
    NoConfiguration = NoConfiguration
    MaxProbeFaults = 2
    sha1 = sha1
    sha2 = sha2
    main = main
    trunk2 = trunk2
    Openers <- MCOpeners
    Bases <- MCBases
    NoBase = NoBase
    NoSha = NoSha
    MaxTurns = 2
    MaxLost = 1
INVARIANTS
    ConnectedOnce
    DeletionStands
    SecretsFollowRows
    SourceCapabilityIsSingleUse
    
    NothingIsSkipped
    AcceptedCanRun
    PullRequestIsShared
PROPERTIES
    DisconnectedIsFinal
    WithdrawnIsRevoked
    VerdictStands
CHECK_DEADLOCK FALSE
