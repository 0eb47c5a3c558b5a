SPECIFICATION MCSpec
CONSTANTS
    t1 = t1  p1 = p1  p2 = p2  p3 = p3  p4 = p4  s1 = s1  s2 = s2
    o1 = o1  o2 = o2  r1 = r1  r2 = r2  r3 = r3  r4 = r4  r5 = r5  r6 = r6
    k1 = k1  k2 = k2  a1 = a1
    Tenants = {t1}
    Principals = {p1, p2}
    Sessions = {s1, s2}
    Operations = {o1, o2}
    Reservations = {r1, r2, r3}
    Requests <- ConcurrencyRequests
    Outputs <- SmallOutputs
    Policy <- ConcurrencyPolicy
    MaxNow = 3
    MaxLeases = 3
SYMMETRY Interchangeable
VIEW WithoutApprovals
INVARIANTS
    TypeOK CountersMatchLeases ConcurrencyBound DenialJustified OutputApprovedOnce
    ReplayWindow SlidingWindowRate NoFreshStart
PROPERTY ImplementsFixedWindow
