SPECIFICATION Spec
CHECK_DEADLOCK FALSE
CONSTANTS
    Processes = {a, b}
    Keys = {"bucket"}
    MaxRequests = 1
    Window = 1
    MaxNow = 2
    MaxCalls = 3
    MaxResends = 1
SYMMETRY SameProcesses
INVARIANTS SharedLimit CounterExpires
