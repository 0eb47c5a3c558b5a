SPECIFICATION MCSpec
CONSTANTS
    Threads = {h1, h2, h3}
    References = {"r1"}
    Active = {"r1"}
    MaximumTtl = 1
    Executions <- Records
    MaxCapabilities = 1
    MaxNow = 1
    MaxVersion = 2
    MaxCalls = 2
    Callers = {"t1", "t2"}
    ToolChains = {"c1", "c2"}
    Intents = {"i1", "i2"}
    Operations = {"o1", "o2", "o3"}
    CallApprovals = {"a1", "a2"}
    ToolRequests <- SomeRequests
    Reports <- SomeReports
    Gated = {"send"}
    Effects <- SomeEffects
    Transitions <- SomeTransitions
    FlowRules <- SomeFlowRules
    MaxToolCalls = 5
    MaxChainActions = 4
    MaxRetries = 1
    MaxParallel = 2
    MaxAutonomous = 3
    MaxIntentCalls = 4
    Reviewed = {"k1", "k2"}
    Previews = {"p1", "p2"}
    Approval <- SomeApproval
    Window = 2
    MaxPrompts = 2
    MaxRepeated = 1
    ReviewSkew = 1
    ReviewTtl = 4
    MaxKeys = 1
    MaxNonces = 2
    ReviewLag = 1
    ReviewEnd = 4
    Scopes = {"s1", "s2"}
    Elevated = {"s1"}
    Grants = {"g1"}
    CapabilityChains <- SomeChains
    AccessRequests <- SomeAccess
    Depth = 3
    Lifetimes <- SomeLifetimes
    DelegationEnd = 1
    Origins = {"o1", "o2"}
    Sessions <- SomeSessions
    ActionRequests <- SomeActions
    ActionApprovals <- SomeActionApprovals
    MaxRequestAge = 1
    MaxObservationAge = 1
    MaxApprovalAge = 2
    MaxAuthorization = 3
    ActionLag = 1
    BrowserEnd = 4
    AgentEnvelopes <- SomeEnvelopes
    StreamKeyEnd <- SomeKeyEnd
    MessageTtl = 3
    MessageAge = 3
    MessageSkew = 1
    MaxReplay = 2
    MaxStreams = 1
    MessagesEnd = 5
    Workflows = {"w1", "w2"}
    Checkpoints <- SomeCheckpoints
    ResumeAge = 2
    ResumeTtl = 4
    ResumeSkew = 1
    MaxWorkflows = 1
    MaxClaims = 2
    Revocable = {"k0"}
    ResumeEnd = 4
    McpEnvelopes <- SomeMcpEnvelopes
    McpKeyEnd = 4
    McpTtl = 3
    McpAge = 2
    McpSkew = 1
    MaxMcpEntries = 2
    McpEnd = 4
    TokenScopes = {"list", "call"}
    Resources = {"r1", "r2"}
    Tokens <- SomeTokens
    ToolPolicy <- SomeToolPolicy
    ListScope = "list"
    TokenTtl = 2
    TokenAge = 3
    TokenSkew = 1
    MaxTokens = 1
    TokensEnd = 3
    ChainedWorkflows = {"w"}
    Goals = {"g1", "g2"}
    Limits = {1}
    ChainSkew = 1
    CheckpointAge = 1
    CheckpointTtl = 2
    MaxChain = 3
    MaxPending = 1
    ChainKeyFrom = 0
    ChainKeyEnd = 2
    CheckpointLifetimes = {2}
    Explored <- SomeHistories
    HistoryEnd = 1
    Agents = {"a", "b", "x"}
    Payloads = {1, 2}
    Tenant <- SomeTenant
    AgentKeyEnd <- SomeAgentKeyEnd
    Delegations <- SomeDelegations
    Routes <- SomeRoutes
    TrustedTransformers = {}
    MaxFanout = 1
    MaxTransformations = 2
    MaxAttested = 2
    MaxSigned = 1
    TrailsEnd = 1
SYMMETRY SameThreads
INVARIANTS
    TypesOK UsedOnce WithinAuthority ReleasedOnce NoReleaseAcrossSweep NoResolveAfterMark
    AcceptedOnce AcceptedAsMade SignedIsAccepted
CHECK_DEADLOCK FALSE
