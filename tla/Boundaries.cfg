SPECIFICATION MCSpec
CONSTANTS
    Threads = {"t1", "t2"}
    Requests = {"q1", "q2"}
    Request <- TwoSessions
    MaxGrants = 1
    MaxChanges = 1
    Callers = {"t1", "t2"}
    ToolManifests <- OneManifest
    ToolCapabilities = {"read", "write"}
    ToolEvidences <- LessAndMore
    CapabilityRequests = {{"read"}, {"write"}}
    ToolManifestAge = 4
    ToolEvidenceAge = 2
    BindingTtl = 2
    ToolTtl = 2
    ToolSkew = 1
    MaxBindings = 3
    MaxExecutions = 1
    ManifestEnd = 3
    ServerVersions = {"v1", "v2", "v3", "v4"}
    ManifestOf <- FourVersions
    Approved = {"read", "write"}
    ServerEvidences <- LocalTwice
    ConsentTtl = 1
    GrantTtl = 1
    PermitTtl = 2
    MaxPrompts = 2
    MaxConsents = 2
    MaxInstallations = 2
    MaxConnections = 1
    OnboardingEnd = 2
    Servers = {"crm", "mail"}
    Labels = {"public", "pii", "internal", "credential"}
    Results <- ThreeResults
    Transfers <- TwoMails
    Edges <- CrmToMail
    FlowApprovals <- NarrowAndWide
    Credential = "credential"
    MaxTransfers = 3
    ToolDefinitions <- LookAlikes
    MaxTools = 3
    MaxToolSnapshots = 2
    MaxToolUses = 2
    PrimitiveDefinitions <- Subscriptions
    Contents <- Updates
    MaxPrimitives = 3
    MaxPrimitiveSnapshots = 2
    MaxPrimitiveUses = 1
    Programs <- OneProgram
    Sandboxes <- TwoSandboxes
    Endings <- ExitedOrNot
    SandboxTtl = 2
    ReportSkew = 0
    MaxReports = 2
    SandboxEnd = 1
    Models = {"m1", "m2"}
    Admitted = {"m1"}
    LoadApprovals <- OneApproval
    Executable = {"m1"}
    Runtimes <- TwoRuntimes
    RuntimeTtl = 1
    Cleanups <- GoodAndBad
    MaxOutcomes = 2
    RuntimeEnd = 1
    Contexts <- TwoTenants
    Owners <- AllOwned
    StorageKey <- Colliding
    Dedicated = {"index"}
    Deployments <- OneDeployment
    StateTtls = {1, 3}
    MaxStateTtl = 2
    MaxStatePermits = 3
    TenantsEnd = 2
    Sources = {"s1", "s2"}
    Parsers = {"p1", "p2"}
    Controls = {"k"}
    Configurations <- OneOrTwoSources
    Documents = {"d1"}
    Syncs = {"y"}
    ManifestKeyEnd = 3
    EvidenceKeyEnd = 2
    MaxManifestAge = 2
    MaxEvidenceAge = 1
    AdmissionTtl = 2
    SyncTtl = 1
    ScheduleSkew = 0
    ConnectorSkew = 1
    RequiredControls = {"k"}
    MaxDocuments = 1
    ManifestLifetimes = {2}
    EvidenceLifetimes = {1}
    MaxManifests = 1
    MaxEvidence = 2
    MaxAdmissions = 1
    MaxAuthorizations = 1
    ConnectorEnd = 2
    Addresses = {"public1", "public2", "private"}
    Public = {"public1", "public2"}
    Proxies = {"proxy"}
    ProtocolVersions = {1, 2, 3}
    AllowedVersions = {1, 2, 3}
    MinVersion = 2
    MaxAllowed = 1
    Primary = "primary"
    Delegates = {"d1"}
    Goal <- OneDelegate
    Mutations <- ComesAndGoes
    MaxSteps = 2
    MaxMutations = 2
    MaxActions = 2
    MaxProbes = 1
    Grace = 1
    RecoveryGrants <- TwoChains
    MaxSequence = 5
INVARIANTS TypesOK UsedOnce AsReviewed KeptApart AgentHeld
PROPERTY GrantsUsedOnce
CHECK_DEADLOCK FALSE
