SPECIFICATION Spec
CONSTANTS
    LimiterKeys = {k1}
    AppKeys = {a1, a2}
    MaxKeys = 2
    MaxRequests = 2
    Window = 2
    TTLs = {1}
    MaxNow = 2
    MaxValue = 2
INVARIANT BoundedCapacity
