------------------------------ MODULE MCBudgets -----------------------------
(* Leases on model and tool work, and the rate limiter in a process: the     *)
(* ResourceBudget this module extends is the instance on concurrency, expiry *)
(* and completion, Windows one on replay, rates and sessions, and Memory the *)
(* limiter; component says which takes the steps.                            *)
EXTENDS ResourceBudget, TLC

CONSTANTS t1, p1, p2, p3, p4, s1, s2, o1, o2, r1, r2, r3, r4, r5, r6, k1, k2, a1

\* A policy that binds nowhere; each run tightens the limits it is about.
LoosePolicy ==
    [f \in PolicyFields |-> 9]

\* The run on concurrency, expiry and completion.
ConcurrencyPolicy ==
    [LoosePolicy EXCEPT !["max_session_duration_seconds"] = 2,
                        !["max_concurrent_operations_per_principal"] = 1,
                        !["max_concurrent_operations_per_tenant"] = 2,
                        !["lease_timeout_seconds"] = 2,
                        !["request_window_seconds"] = 2,
                        !["max_requests_per_principal_window"] = 2,
                        !["max_requests_per_tenant_window"] = 2,
                        !["max_output_tokens"] = 2,
                        !["max_nesting_depth"] = 1]

\* The run on replay, rates and session budgets.
WindowsPolicy ==
    [LoosePolicy EXCEPT !["max_session_duration_seconds"] = 3,
                        !["lease_timeout_seconds"] = 2,
                        !["max_session_tokens"] = 3,
                        !["max_retries_per_operation"] = 1,
                        !["max_tool_actions_per_session"] = 1,
                        !["max_tracked_sessions"] = 1,
                        !["request_window_seconds"] = 2,
                        !["max_requests_per_principal_window"] = 2,
                        !["max_requests_per_tenant_window"] = 2,
                        !["max_tracked_reservations"] = 3]

Plain == [chars |-> 1, bytes |-> 1, nesting |-> 0]
Deep == [chars |-> 1, bytes |-> 2, nesting |-> 2]

Req(r, t, p, s, o, k, x, n) ==
    [reservation_id |-> r, tenant |-> t, principal |-> p, session |-> s, operation |-> o,
     kind |-> k, text |-> x, input_tokens |-> 1, requested_output_tokens |-> n]

ConcurrencyRequests ==
    {Req(r, t1, p, s1, o1, "model", x, 1) : r \in {r1, r2, r3}, p \in {p1, p2}, x \in {Plain, Deep}}

WindowsRequests ==
    {Req(r4, t1, p3, s, o1, "model", Plain, n) : s \in {s1, s2}, n \in {0, 1}}
      \cup {Req(r5, t1, p3, s1, o, k, Plain, 0) : o \in {o1, o2}, k \in {"model", "tool"}}
      \cup {Req(r6, t1, p4, s1, o2, "tool", Plain, 0)}

\* Reservation ids and principals are interchangeable in the concurrency requests.
Interchangeable == Permutations({r1, r2, r3}) \cup Permutations({p1, p2})

SmallOutputs == {[chars |-> 1, bytes |-> 1, tokens |-> n] : n \in {1, 2}}

VARIABLES component,
    windows_now, windows_sessions, windows_of_principals, windows_of_tenants, windows_active,
    windows_tenant_active, windows_leases, windows_seen, windows_next, windows_result,
    windows_granted, windows_approvals,
    clock, store, reply, ends, counted

windows == <<windows_now, windows_sessions, windows_of_principals, windows_of_tenants,
             windows_active, windows_tenant_active, windows_leases, windows_seen, windows_next,
             windows_result, windows_granted, windows_approvals>>
limiter == <<clock, store, reply, ends, counted>>

Windows == INSTANCE ResourceBudget WITH
    now <- windows_now, sessions <- windows_sessions, principalWindows <- windows_of_principals,
    tenantWindows <- windows_of_tenants, principalActive <- windows_active,
    tenantActive <- windows_tenant_active, leases <- windows_leases, seen <- windows_seen,
    nextLease <- windows_next, result <- windows_result, granted <- windows_granted,
    approvals <- windows_approvals,
    Tenants <- {t1}, Principals <- {p3, p4}, Sessions <- {s1, s2}, Operations <- {o1, o2},
    Reservations <- {r4, r5, r6}, Requests <- WindowsRequests, Outputs <- SmallOutputs,
    Policy <- WindowsPolicy, MaxNow <- 5, MaxLeases <- 5

Memory == INSTANCE MemoryStateBackend WITH
    now <- clock, LimiterKeys <- {k1, k2}, AppKeys <- {a1}, MaxKeys <- 3, MaxRequests <- 2,
    Window <- 2, TTLs <- {1}, MaxNow <- 4, MaxValue <- 4

MCInit ==
    /\ component \in {"concurrency", "windows", "limiter"}
    /\ Init /\ Windows!Init /\ Memory!Init

MCNext ==
    /\ UNCHANGED component
    /\ \/ component = "concurrency" /\ Next /\ UNCHANGED <<windows, limiter>>
       \/ component = "windows" /\ Windows!Next /\ UNCHANGED <<vars, limiter>>
       \/ component = "limiter" /\ Memory!Next /\ UNCHANGED <<vars, windows>>

MCSpec == MCInit /\ [][MCNext]_<<component, vars, windows, limiter>>

\* No action and none of the properties of Windows reads its result and approvals.
WithoutApprovals ==
    <<component, vars, windows_now, Windows!state, windows_next, windows_granted, limiter>>

-----------------------------------------------------------------------------
(* The properties of the other two instances. *)

\* The in-memory limiter implements a fixed window (FixedWindow).
ImplementsFixedWindow == Memory!ImplementsFixedWindow

\* Nothing that limits a user starts afresh too early: not the budget of a session by the purge
\* of old ones, nor the window of requests of a principal, nor the counter of the limiter.
NoFreshStart ==
    /\ component = "windows" => Windows!SessionWithinBudget /\ Windows!SlidingWindowRate
    /\ component = "limiter" => Memory!TypeOK /\ Memory!CountsEveryRequest
=============================================================================
