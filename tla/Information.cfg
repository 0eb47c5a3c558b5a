SPECIFICATION InformationSpec
CONSTANTS
    Memories = {"m1", "m2", "m3", "m4"}
    Write <- SomeProposals
    Composed = {{"m1", "m2"}}
    Approvals <- Somebody
    MaxVersion = 2
    Executors = {"t1", "t2"}
    DataArtifacts = {"a", "b", "c", "e"}
    Sources <- SomeSources
    Restrictions <- SomeRestrictions
    DataUses = {"train", "export", "show"}
    Locations <- SomeLocations
    Limited = {"l3"}
    Held = {"b"}
    MaxRecordVersion = 3
    Syncs = {"s1", "s2"}
    Authorizations = {"g1", "g2", "g3"}
    SyncOf <- SomeSyncs
    Documents = {"d1", "d2", "d3"}
    Derived = {"x", "y"}
    Upstream <- SomeUpstream
    MaxDocuments = 2
    MaxLineage = 4
    ResultLimit = 2
    Datasets <- SomeDatasets
    DatasetSources <- SomeDatasetSources
    CreatedAt <- AtTheStart
    Residency <- InEurope
    DatasetLabels <- SomeDatasetLabels
    Purposes = {"p", "q"}
    Residencies = {"eu"}
    TrainingClasses = {0, 1}
    MaxRetention <- SomeRetention
    MaxDatasets = 4
    MaxSources = 2
    MaxDepth = 2
    LegalHolds = {"h"}
    Subjects = {"s"}
    Times = {0, 1, 2}
    LabelDimensions = {"purpose", "destination"}
    LabelValues <- SomeLabelValues
    Handling = {"encrypt"}
    LabelOrigins <- SomeLabels
    LabelProposals <- SomeRelabellings
    Destinations <- SomeDestinations
    Tenants = {"A", "B"}
    Contents = {"x"}
    MaxClass = 1
    MaxLabels = 3
    LabelEnd = 1
    FlowDimensions = {"purpose", "sink"}
    FlowValues <- SomeFlowValues
    Owners = {"u1", "u2"}
    FlowContents = {"x", "y"}
    FlowOrigins <- SomePolicies
    Widenings <- SomeWidenings
    MaxSensitivity = 1
    MaxLineageDepth = 2
    MaxFlows = 3
    MaxGrants = 1
    FlowEnd = 1
    Submissions <- SomeSubmissions
    GuardRules <- SomeRules
    Transformers <- SomeTransformers
    Detectors <- SomeDetectors
    MaxConcurrency = 2
    RedactMode = TRUE
    GuardFailClosed = TRUE
    HasApproval = TRUE
    GuardBlockAt = 80
    GuardWarnAt = 40
    Symbols = {"a", "b", "c", "z"}
    Invisible = {"z"}
    Mask = "*"
    StreamRules <- SomePatterns
    ChunkOverlap = 2
    BufferSize = 3
    StreamFailClosed = TRUE
    StreamBlockAt = 80
    StreamWarnAt = 40
    MaxChunk = 3
    MaxTotal = 5
    Shared <- TwoTasks
    Single <- OneTask
    Responses <- SomeResponses
    ResponseValues = {"v1", "v2"}
    AllUses = {"tool", "memory"}
    AllowedUses = {"tool"}
    Contexts = {"c1", "c2"}
    Validators = {"t1", "t2"}
    MaxAttempts = 2
    MaxSubmissions = 3
    MaxObjects = 2
    Clients = {"t1", "t2"}
    Scopes = {"c1", "c2"}
    Events <- SomeTurns
    Campaign = {"a", "b"}
    Ttl = 2
    MaxSessions = 1
    MaxTurns = 2
    MaxRetries = 1
    CampaignEnd = 2
    MaxResets = 1
INVARIANTS
    TypesOK
    ReachesDerived
    RestrictionsKept
    ReleasedAsChecked
    LimitsKept
    LabelsKept
    StreamKept
PROPERTY EventuallyAnswered
CHECK_DEADLOCK FALSE
