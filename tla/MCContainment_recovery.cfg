SPECIFICATION MCSpec
CHECK_DEADLOCK FALSE
CONSTANTS
    t1 = t1  t2 = t2  v1 = v1  v2 = v2  w1 = w1  w2 = w2  w3 = w3
    o1 = o1  o2 = o2  o3 = o3  x1 = x1  x2 = x2
    no_key = no_key  no_fallback = no_fallback
    Tenants = {t1, t2}
    Dependencies <- Services
    Fallbacks <- Declared
    ReportIds = {v1, v2, w1, w2, w3}
    Domain <- DomainOf
    MaxOpen <- OneOpen
    Health <- AllHealthy
    TenantsOf <- Everyone
    FallbackOf <- BackupDeclared
    AllowedFallbacks <- PrimaryFallback
    Breaker <- SensitiveBreaker
    Limits <- SmallLimits
    Requests <- BothRequests
    Outcomes <- BothOutcomes
    NoKey = no_key
    NoFallback = no_fallback
    MaxNow = 2
    MaxPermits = 3
    Components = {"circuits"}
    EffectCalls <- RetriedRequests
    CircuitCalls <- LateRequests
SYMMETRY SameNames
INVARIANT RecoveredByProbe
