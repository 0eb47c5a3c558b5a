--------------------------- MODULE ResourceBudget ---------------------------
(***************************************************************************)
(* ResourceBudgetManager of src/trustrail/resource.py: leases on model and *)
(* tool work, reserved before the work starts, bounded per session, per    *)
(* principal, per tenant and per sliding request window.                   *)
(*                                                                         *)
(* One action is one call of a public coroutine.  The bodies contain no    *)
(* await other than the acquisition of an asyncio.Lock that no coroutine   *)
(* ever holds across an await, so on the event loop that owns the manager  *)
(* a call is atomic; calls of different clients interleave freely, and a   *)
(* client may stop between reserve and complete and never call again.      *)
(*                                                                         *)
(* The text of a request is abstracted to the three numbers the code       *)
(* measures on it; dictionaries whose entries are dropped when they become *)
(* zero or empty are total functions.                                      *)
(***************************************************************************)
EXTENDS Integers, Sequences, FiniteSets, FiniteSetsExt, FiniteSetTheorems, SequenceTheorems,
        WellFoundedInduction, TLAPS

CONSTANTS
    Tenants, Principals, Sessions, Operations, Reservations,
    Requests,     \* the reservation requests clients may send
    Outputs,      \* the measured outputs providers may return
    Policy,       \* ConsumptionBudgetPolicy
    MaxNow,       \* bound: last clock value explored
    MaxLeases     \* bound: number of leases ever granted

RequestType ==
    [reservation_id : Reservations, tenant : Tenants, principal : Principals,
     session : Sessions, operation : Operations, kind : {"model", "tool"},
     text : [chars : Nat, bytes : Nat, nesting : Nat],
     input_tokens : Nat, requested_output_tokens : Nat]

OutputType == [chars : Nat, bytes : Nat, tokens : Nat]

PolicyFields ==
    {"max_input_chars", "max_input_bytes", "max_input_tokens",
     "max_output_chars", "max_output_bytes", "max_output_tokens",
     "max_nesting_depth", "max_concurrent_operations_per_principal",
     "max_concurrent_operations_per_tenant", "max_retries_per_operation",
     "max_tool_actions_per_session", "max_session_duration_seconds",
     "max_session_tokens", "request_window_seconds",
     "max_requests_per_principal_window", "max_requests_per_tenant_window",
     "lease_timeout_seconds", "max_tracked_sessions", "max_tracked_reservations"}

\* ConsumptionBudgetPolicy: every limit is at least 1 except the retries.
ASSUME PolicyAssumption ==
    /\ Policy \in [PolicyFields -> Nat]
    /\ \A f \in PolicyFields \ {"max_retries_per_operation"} : Policy[f] >= 1

ASSUME InputAssumption ==
    /\ Requests \subseteq RequestType
    /\ Outputs \subseteq OutputType
    /\ MaxNow \in Nat
    /\ MaxLeases \in Nat

\* The two keys under which use is accounted.
PrincipalKeys == Tenants \X Principals
SessionKeys == Tenants \X Sessions

VARIABLES
    now,              \* the monotonic clock
    sessions,         \* _sessions: tracked sessions only
    principalWindows, \* _principal_windows: times of granted requests
    tenantWindows,    \* _tenant_windows
    principalActive,  \* _principal_active
    tenantActive,     \* _tenant_active
    leases,           \* _leases: the set of active _LeaseState
    seen,             \* _seen_reservations, in insertion order
    nextLease,        \* number of leases granted so far: the fresh lease id
    result,           \* the ResourceBudgetResult of the call that just returned
    granted,          \* history: every grant ever made
    approvals         \* history: how often each lease had an output approved

vars == <<now, sessions, principalWindows, tenantWindows, principalActive,
          tenantActive, leases, seen, nextLease, result, granted, approvals>>
state == <<sessions, principalWindows, tenantWindows, principalActive,
           tenantActive, leases, seen>>
history == <<nextLease, granted, approvals>>

-----------------------------------------------------------------------------
(* Keys and small helpers *)

PrincipalKey(x) == <<x.tenant, x.principal>>
SessionKey(x) == <<x.tenant, x.session>>

AtLeastZero(n) == IF n < 0 THEN 0 ELSE n
Least(a, b) == IF a <= b THEN a ELSE b

\* The suffix of s that starts at the first index of live: what is left of a
\* deque after popping from the left while the head is not live.
SuffixFrom(s, live) ==
    IF live = {} THEN <<>>
    ELSE SubSeq(s, Min(live), Len(s))

\* who is the tenant and the principal the call is accounted to
Blocked(call, who, codes) ==
    [call |-> call, tenant |-> who.tenant, principal |-> who.principal,
     action |-> "block", codes |-> codes]
Allowed(call, who) ==
    [call |-> call, tenant |-> who.tenant, principal |-> who.principal,
     action |-> "allow", codes |-> {}]
NoResult == [call |-> "none"]
UnknownLease == [call |-> "complete", action |-> "block", codes |-> {"lease_unknown"}]

-----------------------------------------------------------------------------
(* The static limits on a request and on an output *)

RequestFindings(req) ==
    LET observed == [input_chars_exceeded |-> req.text.chars,
                     input_bytes_exceeded |-> req.text.bytes,
                     input_tokens_exceeded |-> req.input_tokens,
                     output_tokens_exceeded |-> req.requested_output_tokens,
                     nesting_depth_exceeded |-> req.text.nesting]
        limit == [input_chars_exceeded |-> Policy["max_input_chars"],
                  input_bytes_exceeded |-> Policy["max_input_bytes"],
                  input_tokens_exceeded |-> Policy["max_input_tokens"],
                  output_tokens_exceeded |-> Policy["max_output_tokens"],
                  nesting_depth_exceeded |-> Policy["max_nesting_depth"]]
    IN  {c \in DOMAIN observed : observed[c] > limit[c]}

OutputFindings(out, lease) ==
    LET observed == [output_chars_exceeded |-> out.chars,
                     output_bytes_exceeded |-> out.bytes,
                     output_tokens_exceeded |-> out.tokens]
        limit == [output_chars_exceeded |-> Policy["max_output_chars"],
                  output_bytes_exceeded |-> Policy["max_output_bytes"],
                  output_tokens_exceeded |->
                    Least(Policy["max_output_tokens"], lease.requested_output_tokens)]
    IN  {c \in DOMAIN observed : observed[c] > limit[c]}

-----------------------------------------------------------------------------
(* _release_lease and _purge_expired *)

\* Mutant: the principal's counter is lowered for every lease of the tenant, and
\* the clamp at zero is missing.
ReleasedPrincipalsOfTenant(gone) ==
    [k \in PrincipalKeys |->
        principalActive[k] - Cardinality({l \in gone : l.tenant = k[1]})]

\* Releasing the leases in gone lowers each counter once per lease, never
\* below zero.
ReleasedPrincipals(gone) ==
    [k \in PrincipalKeys |->
        AtLeastZero(principalActive[k] - Cardinality({l \in gone : PrincipalKey(l) = k}))]
ReleasedTenants(gone) ==
    [t \in Tenants |->
        AtLeastZero(tenantActive[t] - Cardinality({l \in gone : l.tenant = t}))]

ReleaseLeases(gone) ==
    /\ leases' = leases \ gone
    /\ principalActive' = ReleasedPrincipals(gone)
    /\ tenantActive' = ReleasedTenants(gone)

\* Mutant: lost leases are never purged.
NeverExpired == {}

Expired == {l \in leases : now >= l.expires_at}

\* Mutant: a reservation id is forgotten one tick early.
PurgedSeenEarly == SuffixFrom(seen, {i \in DOMAIN seen : now + 1 < seen[i].expires_at})

PurgedSeen == SuffixFrom(seen, {i \in DOMAIN seen : now < seen[i].expires_at})

PurgedWindow(w) ==
    SuffixFrom(w, {i \in DOMAIN w : w[i] > now - Policy["request_window_seconds"]})

\* Mutant: a session is dropped at the end of its duration, leases or not.
PurgedSessionsByDuration ==
    LET kept == {k \in DOMAIN sessions :
                   now - sessions[k].first_seen < Policy["max_session_duration_seconds"]}
    IN  [k \in kept |-> sessions[k]]

\* A session is forgotten once no active lease belongs to it and it is older
\* than its longest duration plus one lease.
PurgedSessions ==
    LET inUse == {SessionKey(l) : l \in leases \ Expired}
        retention == Policy["max_session_duration_seconds"] + Policy["lease_timeout_seconds"]
        kept == {k \in DOMAIN sessions : k \in inUse \/ now - sessions[k].first_seen < retention}
    IN  [k \in kept |-> sessions[k]]

-----------------------------------------------------------------------------
(* reserve: the decision, taken on the purged state *)

FreshSession == [first_seen |-> now, tokens_reserved |-> 0, tool_actions |-> 0,
                 attempts |-> [o \in Operations |-> 0]]

SessionOf(req) ==
    IF SessionKey(req) \in DOMAIN PurgedSessions
    THEN PurgedSessions[SessionKey(req)]
    ELSE FreshSession

ReservedTokens(req) == req.input_tokens + req.requested_output_tokens
NextToolActions(req) ==
    SessionOf(req).tool_actions + (IF req.kind = "tool" THEN 1 ELSE 0)

\* _finding: the code of an exceeded limit, if it is exceeded
Finding(code, exceeded) == IF exceeded THEN {code} ELSE {}

Replayed(req) == \E i \in DOMAIN PurgedSeen : PurgedSeen[i].id = req.reservation_id

SessionsFull(req) ==
    /\ SessionKey(req) \notin DOMAIN PurgedSessions
    /\ Cardinality(DOMAIN PurgedSessions) >= Policy["max_tracked_sessions"]

SessionFindings(req) ==
    LET s == SessionOf(req)
    IN  Finding("session_duration_exceeded",
                now - s.first_seen >= Policy["max_session_duration_seconds"])
        \cup Finding("session_token_budget_exceeded",
                     s.tokens_reserved + ReservedTokens(req) > Policy["max_session_tokens"])
        \cup Finding("retry_limit_exceeded",
                     s.attempts[req.operation] > Policy["max_retries_per_operation"])
        \cup Finding("tool_loop_limit_exceeded",
                     NextToolActions(req) > Policy["max_tool_actions_per_session"])

\* Mutant: off by one in both rate limits.
RateFindingsOffByOne(req) ==
    Finding("principal_rate_exceeded",
            Len(PurgedWindow(principalWindows[PrincipalKey(req)]))
              > Policy["max_requests_per_principal_window"])
    \cup Finding("tenant_rate_exceeded",
                 Len(PurgedWindow(tenantWindows[req.tenant]))
                   > Policy["max_requests_per_tenant_window"])

RateFindings(req) ==
    Finding("principal_rate_exceeded",
            Len(PurgedWindow(principalWindows[PrincipalKey(req)]))
              >= Policy["max_requests_per_principal_window"])
    \cup Finding("tenant_rate_exceeded",
                 Len(PurgedWindow(tenantWindows[req.tenant]))
                   >= Policy["max_requests_per_tenant_window"])

\* Mutant: off by one in both concurrency limits.
ConcurrencyFindingsOffByOne(req) ==
    Finding("principal_concurrency_exceeded",
            ReleasedPrincipals(Expired)[PrincipalKey(req)]
              > Policy["max_concurrent_operations_per_principal"])
    \cup Finding("tenant_concurrency_exceeded",
                 ReleasedTenants(Expired)[req.tenant]
                   > Policy["max_concurrent_operations_per_tenant"])

ConcurrencyFindings(req) ==
    Finding("principal_concurrency_exceeded",
            ReleasedPrincipals(Expired)[PrincipalKey(req)]
              >= Policy["max_concurrent_operations_per_principal"])
    \cup Finding("tenant_concurrency_exceeded",
                 ReleasedTenants(Expired)[req.tenant]
                   >= Policy["max_concurrent_operations_per_tenant"])

TrackingFindings ==
    Finding("tracking_capacity_exceeded",
            Len(PurgedSeen) >= Policy["max_tracked_reservations"])

LimitFindings(req) ==
    SessionFindings(req) \cup RateFindings(req) \cup ConcurrencyFindings(req)
      \cup TrackingFindings

StateFindings(req) ==
    IF Replayed(req) THEN {"reservation_replayed"}
    ELSE IF SessionsFull(req) THEN {"tracking_capacity_exceeded"}
    ELSE LimitFindings(req)

-----------------------------------------------------------------------------
(* reserve, complete, cancel *)

\* A request over a static limit is refused before the state is touched.
ReserveRefused(req) ==
    /\ RequestFindings(req) # {}
    /\ result' = Blocked("reserve", req, RequestFindings(req))
    /\ UNCHANGED <<now, state, history>>

\* A request over a stateful limit is refused after the purge.
ReserveBlocked(req) ==
    /\ RequestFindings(req) = {}
    /\ StateFindings(req) # {}
    /\ ReleaseLeases(Expired)
    /\ seen' = PurgedSeen
    /\ sessions' = PurgedSessions
    /\ principalWindows' = [k \in PrincipalKeys |-> PurgedWindow(principalWindows[k])]
    /\ tenantWindows' = [t \in Tenants |-> PurgedWindow(tenantWindows[t])]
    /\ result' = Blocked("reserve", req, StateFindings(req))
    /\ UNCHANGED <<now, history>>

NewLease(req) ==
    [lease_id |-> nextLease, tenant |-> req.tenant, principal |-> req.principal,
     session |-> req.session, requested_output_tokens |-> req.requested_output_tokens,
     expires_at |-> now + Policy["lease_timeout_seconds"]]

ChargedSession(req) ==
    LET s == SessionOf(req)
    IN  [first_seen |-> s.first_seen,
         tokens_reserved |-> s.tokens_reserved + ReservedTokens(req),
         tool_actions |-> NextToolActions(req),
         attempts |-> [s.attempts EXCEPT ![req.operation] = @ + 1]]

Grant(req) ==
    [lease_id |-> nextLease, id |-> req.reservation_id, tenant |-> req.tenant,
     principal |-> req.principal, session |-> req.session, operation |-> req.operation,
     kind |-> req.kind, tokens |-> ReservedTokens(req), at |-> now,
     born |-> SessionOf(req).first_seen]

ReserveGranted(req) ==
    /\ nextLease < MaxLeases
    /\ RequestFindings(req) = {}
    /\ StateFindings(req) = {}
    /\ leases' = (leases \ Expired) \cup {NewLease(req)}
    /\ principalActive' = [ReleasedPrincipals(Expired) EXCEPT ![PrincipalKey(req)] = @ + 1]
    /\ tenantActive' = [ReleasedTenants(Expired) EXCEPT ![req.tenant] = @ + 1]
    /\ sessions' = [k \in DOMAIN PurgedSessions \cup {SessionKey(req)} |->
                      IF k = SessionKey(req) THEN ChargedSession(req) ELSE PurgedSessions[k]]
    /\ principalWindows' =
         [k \in PrincipalKeys |->
            IF k = PrincipalKey(req)
            THEN Append(PurgedWindow(principalWindows[k]), now)
            ELSE PurgedWindow(principalWindows[k])]
    /\ tenantWindows' =
         [t \in Tenants |->
            IF t = req.tenant
            THEN Append(PurgedWindow(tenantWindows[t]), now)
            ELSE PurgedWindow(tenantWindows[t])]
    /\ seen' = Append(PurgedSeen,
                      [id |-> req.reservation_id,
                       expires_at |-> now + Policy["max_session_duration_seconds"]])
    /\ nextLease' = nextLease + 1
    /\ granted' = granted \cup {Grant(req)}
    /\ result' = Allowed("reserve", req)
    /\ UNCHANGED <<now, approvals>>

Reserve(req) == ReserveRefused(req) \/ ReserveBlocked(req) \/ ReserveGranted(req)

\* complete on a lease that was released, or that never existed
CompleteUnknown(id) ==
    /\ \A l \in leases : l.lease_id # id
    /\ result' = UnknownLease
    /\ UNCHANGED <<now, state, history>>

\* Mutant: complete checks the lease and leaves it active.
CompleteKeepsLease(l, out) ==
    /\ now < l.expires_at
    /\ result' = Allowed("complete", l)
    /\ approvals' = [approvals EXCEPT ![l.lease_id] = @ + 1]
    /\ UNCHANGED <<now, state, nextLease, granted>>

\* complete on an active lease: it is released in every case, and the output is
\* passed on only if the lease has not expired and the output is within limits
CompleteLease(l, out) ==
    /\ ReleaseLeases({l})
    /\ result' = IF now >= l.expires_at THEN Blocked("complete", l, {"lease_expired"})
                 ELSE IF OutputFindings(out, l) # {}
                      THEN Blocked("complete", l, OutputFindings(out, l))
                      ELSE Allowed("complete", l)
    /\ approvals' = IF now < l.expires_at /\ OutputFindings(out, l) = {}
                    THEN [approvals EXCEPT ![l.lease_id] = @ + 1]
                    ELSE approvals
    /\ UNCHANGED <<now, sessions, principalWindows, tenantWindows, seen, nextLease, granted>>

\* Mutant: cancel drops the lease and leaves the counters as they are.
CancelForgetsCounters(l) ==
    /\ leases' = leases \ {l}
    /\ result' = [call |-> "cancel", released |-> TRUE]
    /\ UNCHANGED <<now, sessions, principalWindows, tenantWindows, principalActive,
                   tenantActive, seen, history>>

Cancel(l) ==
    /\ ReleaseLeases({l})
    /\ result' = [call |-> "cancel", released |-> TRUE]
    /\ UNCHANGED <<now, sessions, principalWindows, tenantWindows, seen, history>>

\* cancel on a lease that was released returns False
CancelUnknown(id) ==
    /\ \A l \in leases : l.lease_id # id
    /\ result' = [call |-> "cancel", released |-> FALSE]
    /\ UNCHANGED <<now, state, history>>

Tick ==
    /\ now < MaxNow
    /\ now' = now + 1
    /\ result' = NoResult
    /\ UNCHANGED <<state, history>>

Init ==
    /\ now = 0
    /\ sessions = [k \in {} |-> FreshSession]
    /\ principalWindows = [k \in PrincipalKeys |-> <<>>]
    /\ tenantWindows = [t \in Tenants |-> <<>>]
    /\ principalActive = [k \in PrincipalKeys |-> 0]
    /\ tenantActive = [t \in Tenants |-> 0]
    /\ leases = {}
    /\ seen = <<>>
    /\ nextLease = 0
    /\ result = NoResult
    /\ granted = {}
    /\ approvals = [i \in 0 .. MaxLeases - 1 |-> 0]

Next ==
    \/ \E req \in Requests : Reserve(req)
    \/ \E id \in 0 .. MaxLeases - 1 : CompleteUnknown(id)
    \/ \E l \in leases, out \in Outputs : CompleteLease(l, out)
    \/ \E l \in leases : Cancel(l)
    \/ \E id \in 0 .. MaxLeases - 1 : CancelUnknown(id)
    \/ Tick

Spec == Init /\ [][Next]_vars

-----------------------------------------------------------------------------
(* Properties *)

LeaseType ==
    [lease_id : Nat, tenant : Tenants, principal : Principals, session : Sessions,
     requested_output_tokens : Nat, expires_at : Nat]

SessionType ==
    [first_seen : Nat, tokens_reserved : Nat, tool_actions : Nat,
     attempts : [Operations -> Nat]]

GrantType ==
    [lease_id : Nat, id : Reservations, tenant : Tenants, principal : Principals,
     session : Sessions, operation : Operations, kind : {"model", "tool"},
     tokens : Nat, at : Nat, born : Nat]

\* Type invariant of the manager's state and of the history variables.
TypeOK ==
    /\ now \in Nat
    /\ DOMAIN sessions \subseteq SessionKeys
    /\ \A k \in DOMAIN sessions : sessions[k] \in SessionType
    /\ principalWindows \in [PrincipalKeys -> Seq(Nat)]
    /\ tenantWindows \in [Tenants -> Seq(Nat)]
    /\ principalActive \in [PrincipalKeys -> Nat]
    /\ tenantActive \in [Tenants -> Nat]
    /\ leases \subseteq LeaseType
    /\ seen \in Seq([id : Reservations, expires_at : Nat])
    /\ nextLease \in Nat
    /\ granted \subseteq GrantType
    /\ approvals \in [0 .. MaxLeases - 1 -> Nat]

LeasesOfPrincipal(k) == {l \in leases : PrincipalKey(l) = k}
LeasesOfTenant(t) == {l \in leases : l.tenant = t}

\* reserve, complete, cancel and the expiry purge keep the two concurrency
\* counters (resource.py:109-110) equal to the number of leases they stand for:
\* no path releases a lease twice or forgets to.
CountersMatchLeases ==
    /\ \A k \in PrincipalKeys : principalActive[k] = Cardinality(LeasesOfPrincipal(k))
    /\ \A t \in Tenants : tenantActive[t] = Cardinality(LeasesOfTenant(t))

\* Concurrent work of a principal and of a tenant never exceeds the policy, through
\* any interleaving of grants, completions, cancellations and lost leases.
ConcurrencyBound ==
    /\ \A k \in PrincipalKeys :
         Cardinality(LeasesOfPrincipal(k)) <= Policy["max_concurrent_operations_per_principal"]
    /\ \A t \in Tenants :
         Cardinality(LeasesOfTenant(t)) <= Policy["max_concurrent_operations_per_tenant"]

\* A reservation id is accepted again only when a whole session duration has
\* passed since it was last accepted (replay check, resource.py:131).
ReplayWindow ==
    \A g, h \in granted :
        g.id = h.id /\ g # h =>
            \/ g.at >= h.at + Policy["max_session_duration_seconds"]
            \/ h.at >= g.at + Policy["max_session_duration_seconds"]

\* However grants are spread over sessions, every window of request_window_seconds
\* contains at most the allowed number of grants per principal and per tenant.
SlidingWindowRate ==
    \A g \in granted :
        LET inWindow == {h \in granted : /\ h.at <= g.at
                                         /\ h.at > g.at - Policy["request_window_seconds"]}
        IN  /\ Cardinality({h \in inWindow : PrincipalKey(h) = PrincipalKey(g)})
                 <= Policy["max_requests_per_principal_window"]
            /\ Cardinality({h \in inWindow : h.tenant = g.tenant})
                 <= Policy["max_requests_per_tenant_window"]

\* The tokens reserved by grants, each of them once, and how many they are.
Units(grants) == UNION {{g} \X (1..g.tokens) : g \in grants}
TokensOf(grants) == Cardinality(Units(grants))

\* The grants made to the life of a session (from its first_seen until the session is
\* forgotten) that g belongs to.
Life(g) == {h \in granted : SessionKey(h) = SessionKey(g) /\ h.born = g.born}

\* The grants made to one life of a session respect its tool and retry budgets.
SessionCallsBounded ==
    \A g \in granted :
        /\ Cardinality({h \in Life(g) : h.kind = "tool"})
             <= Policy["max_tool_actions_per_session"]
        /\ Cardinality({h \in Life(g) : h.operation = g.operation})
             <= Policy["max_retries_per_operation"] + 1

\* The grants made to one life of a session fall within its longest duration, and a
\* session that was forgotten starts a new life only after its old one and the leases
\* taken in it are over.
LivesSeparate ==
    \A g \in granted :
        /\ g.at < g.born + Policy["max_session_duration_seconds"]
        /\ \A h \in granted :
             SessionKey(h) = SessionKey(g) /\ h.born > g.born =>
                /\ h.born >= g.born + Policy["max_session_duration_seconds"]
                /\ h.born >= g.at + Policy["lease_timeout_seconds"]

\* The budget of a session is not forgotten while work reserved in it may still
\* complete (purge, resource.py:438-445).
LiveLeaseKeepsSession ==
    \A l \in leases : SessionKey(l) \in DOMAIN sessions

\* No purge and no interleaving lets the grants of one life of a session pass its token,
\* tool and retry budgets, nor its next life begin too early, nor a session be forgotten
\* that has an active lease.
SessionWithinBudget ==
    /\ \A g \in granted : TokensOf(Life(g)) <= Policy["max_session_tokens"]
    /\ SessionCallsBounded
    /\ LivesSeparate
    /\ LiveLeaseKeepsSession

\* reserve refuses for lack of concurrency only when that many leases are really
\* live: the leases that clients lost never hold capacity past their expiry.
\* ("A missing call is eventually released by lease expiry".)
DenialJustified ==
    result.call = "reserve" =>
        /\ "principal_concurrency_exceeded" \in result.codes =>
             Cardinality({l \in LeasesOfPrincipal(PrincipalKey(result)) : now < l.expires_at})
               >= Policy["max_concurrent_operations_per_principal"]
        /\ "tenant_concurrency_exceeded" \in result.codes =>
             Cardinality({l \in LeasesOfTenant(result.tenant) : now < l.expires_at})
               >= Policy["max_concurrent_operations_per_tenant"]

\* A lease pays for one output: whatever the clients retry, complete passes on at
\* most one output per lease.
OutputApprovedOnce == \A i \in DOMAIN approvals : approvals[i] <= 1

-----------------------------------------------------------------------------
(***************************************************************************)
(* Proofs, for every policy, every set of clients and every bound.         *)
(*                                                                         *)
(* The counters, the concurrency bound and the single approval of a lease  *)
(* rest on three facts that are not in the properties themselves: leases   *)
(* are finitely many, their ids are distinct and were all handed out, and  *)
(* no approval has been given yet for a lease that is still active.  The   *)
(* replay window rests on the fact that the deque of seen ids, trimmed     *)
(* only from its left end, still holds every id whose window is open.      *)
(***************************************************************************)

D == Policy["max_session_duration_seconds"]

SeenType == [id : Reservations, expires_at : Nat]

-----------------------------------------------------------------------------
(* The operators the model is built from *)

\* A non-empty set of naturals has a least element, and Min chooses it.
LEMMA MinOfNats ==
    ASSUME NEW S \in SUBSET Nat, S # {}
    PROVE  Min(S) \in S /\ \A y \in S : Min(S) <= y
<1>1. PICK x \in S : \A y \in S : ~ (<<y, x>> \in OpToRel(<, Nat))
  BY NatLessThanWellFounded, WFMin, Zenon
<1>2. \A y \in S : x <= y
  <2>1. TAKE y \in S
  <2>2. x \in Nat /\ y \in Nat
    OBVIOUS
  <2>3. ~(y < x)
    BY <1>1, <2>2 DEF OpToRel
  <2> QED
    BY <2>2, <2>3
<1> QED
  BY <1>2 DEF Min

\* Trimming a deque from the left (_window, _purge_windows, _purge_expired)
\* yields a deque over the same elements that still holds every live one.
LEMMA SuffixFromProperties ==
    ASSUME NEW S, NEW s \in Seq(S), NEW live \in SUBSET (DOMAIN s)
    PROVE  /\ SuffixFrom(s, live) \in Seq(S)
           /\ \A i \in live : \E j \in DOMAIN SuffixFrom(s, live) :
                SuffixFrom(s, live)[j] = s[i]
<1>0. Len(s) \in Nat /\ DOMAIN s = 1 .. Len(s) /\ \A i \in 1 .. Len(s) : s[i] \in S
  BY LenProperties
<1>1. CASE live = {}
  BY <1>1 DEF SuffixFrom
<1>2. CASE live # {}
  <2> DEFINE m == Min(live)
             t == SubSeq(s, m, Len(s))
  <2>1. live \in SUBSET Nat
    BY <1>0
  <2>2. m \in live /\ \A i \in live : m <= i
    BY <1>2, <2>1, MinOfNats
  <2>3. m \in 1 .. Len(s)
    BY <1>0, <2>2
  <2>4. \A i \in m .. Len(s) : s[i] \in S
    BY <1>0, <2>3
  <2> HIDE DEF m
  <2>5. /\ t \in Seq(S)
        /\ Len(t) = Len(s) - m + 1
        /\ \A i \in 1 .. Len(s) - m + 1 : t[i] = s[m + i - 1]
    BY <1>0, <2>3, <2>4, SubSeqProperties, Len(s) \in Int, m \in Int
  <2>6. DOMAIN t = 1 .. Len(s) - m + 1
    BY <2>5, LenProperties
  <2> HIDE DEF t
  <2>7. \A i \in live : \E j \in DOMAIN t : t[j] = s[i]
    <3>1. TAKE i \in live
    <3>2. i \in 1 .. Len(s) /\ m <= i
      BY <1>0, <2>2
    <3>3. (i - m) + 1 \in 1 .. Len(s) - m + 1 /\ m + ((i - m) + 1) - 1 = i
      BY <3>2, <2>3, <1>0
    <3>4. (i - m) + 1 \in DOMAIN t /\ t[(i - m) + 1] = s[i]
      BY <3>3, <2>5, <2>6
    <3> QED
      BY <3>4
  <2>8. SuffixFrom(s, live) = t
    BY <1>2 DEF SuffixFrom, t, m
  <2> QED
    BY <2>5, <2>7, <2>8
<1> QED
  BY <1>1, <1>2

-----------------------------------------------------------------------------
(* The inductive invariant *)

\* Leases are finitely many, their ids distinct and all already handed out.
LeasesWellFormed ==
    /\ IsFiniteSet(leases)
    /\ nextLease <= MaxLeases
    /\ \A l \in leases : l.lease_id < nextLease
    /\ \A l, m \in leases : l.lease_id = m.lease_id => l = m

\* Nothing was approved yet for a lease that is active or not handed out.
ApprovalsPending ==
    /\ \A l \in leases : approvals[l.lease_id] = 0
    /\ \A i \in nextLease .. MaxLeases - 1 : approvals[i] = 0

\* Every grant whose replay window is open is remembered in seen.
SeenComplete ==
    \A g \in granted :
        /\ g.at <= now
        /\ now < g.at + D =>
             \E i \in DOMAIN seen : seen[i].id = g.id /\ seen[i].expires_at = g.at + D

IInv ==
    /\ TypeOK
    /\ LeasesWellFormed
    /\ CountersMatchLeases
    /\ ConcurrencyBound
    /\ ApprovalsPending
    /\ OutputApprovedOnce
    /\ SeenComplete
    /\ ReplayWindow

\* The policy's limits that the proofs use are naturals, the duration at least 1.
LEMMA PolicyNat ==
    /\ \A f \in PolicyFields : Policy[f] \in Nat
    /\ D \in Nat /\ D >= 1
BY PolicyAssumption DEF PolicyFields, D

-----------------------------------------------------------------------------
(* The purge preserves types *)

\* _purge_expired and _window leave deques, sessions and counters of their types.
LEMMA PurgeTypes ==
    ASSUME TypeOK
    PROVE  /\ PurgedSeen \in Seq(SeenType)
           /\ \A k \in PrincipalKeys : PurgedWindow(principalWindows[k]) \in Seq(Nat)
           /\ \A t \in Tenants : PurgedWindow(tenantWindows[t]) \in Seq(Nat)
           /\ DOMAIN PurgedSessions \subseteq SessionKeys
           /\ \A k \in DOMAIN PurgedSessions : PurgedSessions[k] \in SessionType
<1>1. PurgedSeen \in Seq(SeenType)
  <2>1. seen \in Seq(SeenType)
    BY DEF TypeOK, SeenType
  <2>2. {i \in DOMAIN seen : now < seen[i].expires_at} \in SUBSET (DOMAIN seen)
    OBVIOUS
  <2> QED
    BY <2>1, <2>2, SuffixFromProperties, Zenon DEF PurgedSeen
<1>2. ASSUME NEW w \in Seq(Nat)
      PROVE  PurgedWindow(w) \in Seq(Nat)
  <2>1. {i \in DOMAIN w : w[i] > now - Policy["request_window_seconds"]} \in SUBSET (DOMAIN w)
    OBVIOUS
  <2> QED
    BY <2>1, SuffixFromProperties, Zenon DEF PurgedWindow
<1>3. DOMAIN PurgedSessions \subseteq DOMAIN sessions
  BY DEF PurgedSessions
<1>4. \A k \in DOMAIN PurgedSessions : PurgedSessions[k] = sessions[k]
  BY DEF PurgedSessions
<1> QED
  BY <1>1, <1>2, <1>3, <1>4 DEF TypeOK

\* Releasing leases lowers each counter to the number of leases left: no counter
\* is clamped, because it stands for at least the leases that are released.
LEMMA ReleaseCounts ==
    ASSUME TypeOK, LeasesWellFormed, CountersMatchLeases, NEW gone \in SUBSET leases
    PROVE  /\ IsFiniteSet(leases \ gone)
           /\ \A k \in PrincipalKeys :
                /\ IsFiniteSet(LeasesOfPrincipal(k))
                /\ IsFiniteSet({l \in leases \ gone : PrincipalKey(l) = k})
                /\ Cardinality({l \in leases \ gone : PrincipalKey(l) = k}) \in Nat
                /\ Cardinality({l \in leases \ gone : PrincipalKey(l) = k})
                     <= Cardinality(LeasesOfPrincipal(k))
                /\ ReleasedPrincipals(gone)[k]
                     = Cardinality({l \in leases \ gone : PrincipalKey(l) = k})
           /\ \A t \in Tenants :
                /\ IsFiniteSet({l \in leases \ gone : l.tenant = t})
                /\ Cardinality({l \in leases \ gone : l.tenant = t}) \in Nat
                /\ Cardinality({l \in leases \ gone : l.tenant = t})
                     <= Cardinality(LeasesOfTenant(t))
                /\ ReleasedTenants(gone)[t]
                     = Cardinality({l \in leases \ gone : l.tenant = t})
<1>0. IsFiniteSet(leases)
  BY DEF LeasesWellFormed
<1>1. IsFiniteSet(leases \ gone)
  BY <1>0, FS_Difference
<1>2. ASSUME NEW S \in SUBSET leases, NEW T \in SUBSET S
      PROVE  /\ IsFiniteSet(S)
             /\ IsFiniteSet(S \ T)
             /\ Cardinality(S \ T) \in Nat
             /\ Cardinality(S \ T) <= Cardinality(S)
             /\ AtLeastZero(Cardinality(S) - Cardinality(T)) = Cardinality(S \ T)
  <2>1. IsFiniteSet(S)
    BY <1>0, FS_Subset
  <2>2. S \cap T = T /\ IsFiniteSet(T)
    BY <2>1, FS_Subset
  <2>3. IsFiniteSet(S \ T) /\ Cardinality(S \ T) = Cardinality(S) - Cardinality(T)
    BY <2>1, <2>2, FS_Difference
  <2>4. Cardinality(S) \in Nat /\ Cardinality(T) \in Nat /\ Cardinality(S \ T) \in Nat
    BY <2>1, <2>2, <2>3, FS_CardinalityType
  <2> QED
    BY <2>1, <2>3, <2>4 DEF AtLeastZero
<1>3. ASSUME NEW k \in PrincipalKeys
      PROVE  /\ IsFiniteSet(LeasesOfPrincipal(k))
             /\ IsFiniteSet({l \in leases \ gone : PrincipalKey(l) = k})
             /\ Cardinality({l \in leases \ gone : PrincipalKey(l) = k}) \in Nat
             /\ Cardinality({l \in leases \ gone : PrincipalKey(l) = k})
                  <= Cardinality(LeasesOfPrincipal(k))
             /\ ReleasedPrincipals(gone)[k]
                  = Cardinality({l \in leases \ gone : PrincipalKey(l) = k})
  <2> DEFINE S == LeasesOfPrincipal(k)
             T == {l \in gone : PrincipalKey(l) = k}
             R == {l \in leases \ gone : PrincipalKey(l) = k}
  <2>1. S \in SUBSET leases /\ T \in SUBSET S /\ R = S \ T
    BY DEF LeasesOfPrincipal
  <2>2. ReleasedPrincipals(gone)[k] = AtLeastZero(Cardinality(S) - Cardinality(T))
    BY DEF ReleasedPrincipals, CountersMatchLeases
  <2> HIDE DEF S, T, R
  <2>3. /\ IsFiniteSet(S) /\ IsFiniteSet(R) /\ Cardinality(R) \in Nat
        /\ Cardinality(R) <= Cardinality(S)
        /\ ReleasedPrincipals(gone)[k] = Cardinality(R)
    BY <2>1, <2>2, <1>2
  <2> QED
    BY <2>3 DEF S, R
<1>4. ASSUME NEW t \in Tenants
      PROVE  /\ IsFiniteSet({l \in leases \ gone : l.tenant = t})
             /\ Cardinality({l \in leases \ gone : l.tenant = t}) \in Nat
             /\ Cardinality({l \in leases \ gone : l.tenant = t})
                  <= Cardinality(LeasesOfTenant(t))
             /\ ReleasedTenants(gone)[t]
                  = Cardinality({l \in leases \ gone : l.tenant = t})
  <2> DEFINE S == LeasesOfTenant(t)
             T == {l \in gone : l.tenant = t}
             R == {l \in leases \ gone : l.tenant = t}
  <2>1. S \in SUBSET leases /\ T \in SUBSET S /\ R = S \ T
    BY DEF LeasesOfTenant
  <2>2. ReleasedTenants(gone)[t] = AtLeastZero(Cardinality(S) - Cardinality(T))
    BY DEF ReleasedTenants, CountersMatchLeases
  <2> HIDE DEF S, T, R
  <2>3. /\ IsFiniteSet(R) /\ Cardinality(R) \in Nat
        /\ Cardinality(R) <= Cardinality(S)
        /\ ReleasedTenants(gone)[t] = Cardinality(R)
    BY <2>1, <2>2, <1>2
  <2> QED
    BY <2>3 DEF S, R
<1> QED
  BY <1>1, <1>3, <1>4

\* A call that only releases leases keeps counters and leases in step.
LEMMA ReleasePreserves ==
    ASSUME IInv, NEW gone \in SUBSET leases, ReleaseLeases(gone), nextLease' = nextLease
    PROVE  /\ leases' \subseteq LeaseType
           /\ principalActive' \in [PrincipalKeys -> Nat]
           /\ tenantActive' \in [Tenants -> Nat]
           /\ LeasesWellFormed'
           /\ CountersMatchLeases'
           /\ ConcurrencyBound'
<1> USE DEF IInv
<1>0. leases' = leases \ gone
  BY DEF ReleaseLeases
<1>1. \A k \in PrincipalKeys :
         /\ principalActive'[k] = Cardinality(LeasesOfPrincipal(k)')
         /\ Cardinality(LeasesOfPrincipal(k)') \in Nat
         /\ Cardinality(LeasesOfPrincipal(k)') <= Cardinality(LeasesOfPrincipal(k))
         /\ IsFiniteSet(LeasesOfPrincipal(k))
  BY <1>0, ReleaseCounts DEF ReleaseLeases, LeasesOfPrincipal
<1>2. \A t \in Tenants :
         /\ tenantActive'[t] = Cardinality(LeasesOfTenant(t)')
         /\ Cardinality(LeasesOfTenant(t)') \in Nat
         /\ Cardinality(LeasesOfTenant(t)') <= Cardinality(LeasesOfTenant(t))
  BY <1>0, ReleaseCounts DEF ReleaseLeases, LeasesOfTenant
<1>3. leases' \subseteq LeaseType
  BY <1>0 DEF TypeOK
<1>4. principalActive' \in [PrincipalKeys -> Nat]
  BY <1>1 DEF ReleaseLeases, ReleasedPrincipals
<1>5. tenantActive' \in [Tenants -> Nat]
  BY <1>2 DEF ReleaseLeases, ReleasedTenants
<1>6. LeasesWellFormed'
  <2>1. IsFiniteSet(leases')
    BY <1>0, ReleaseCounts
  <2> QED
    BY <2>1, <1>0 DEF LeasesWellFormed
<1>7. CountersMatchLeases'
  BY <1>1, <1>2 DEF CountersMatchLeases
<1>8. ConcurrencyBound'
  <2>1. ASSUME NEW k \in PrincipalKeys
        PROVE  Cardinality(LeasesOfPrincipal(k)') <= Policy["max_concurrent_operations_per_principal"]
    <3>1. Cardinality(LeasesOfPrincipal(k)) = principalActive[k] /\ principalActive[k] \in Nat
      BY DEF CountersMatchLeases, TypeOK
    <3>2. Policy["max_concurrent_operations_per_principal"] \in Nat
      BY PolicyNat DEF PolicyFields
    <3> QED
      BY <1>1, <3>1, <3>2 DEF ConcurrencyBound
  <2>2. ASSUME NEW t \in Tenants
        PROVE  Cardinality(LeasesOfTenant(t)') <= Policy["max_concurrent_operations_per_tenant"]
    <3>1. Cardinality(LeasesOfTenant(t)) = tenantActive[t] /\ tenantActive[t] \in Nat
      BY DEF CountersMatchLeases, TypeOK
    <3>2. Policy["max_concurrent_operations_per_tenant"] \in Nat
      BY PolicyNat DEF PolicyFields
    <3> QED
      BY <1>2, <3>1, <3>2 DEF ConcurrencyBound
  <2> QED
    BY <2>1, <2>2 DEF ConcurrencyBound
<1> QED
  BY <1>3, <1>4, <1>5, <1>6, <1>7, <1>8

\* The purge of seen ids drops no id whose replay window is still open.
LEMMA PurgedSeenComplete ==
    ASSUME IInv, NEW g \in granted, now < g.at + D
    PROVE  \E j \in DOMAIN PurgedSeen :
             PurgedSeen[j].id = g.id /\ PurgedSeen[j].expires_at = g.at + D
<1> DEFINE live == {i \in DOMAIN seen : now < seen[i].expires_at}
<1>1. PICK i \in DOMAIN seen : seen[i].id = g.id /\ seen[i].expires_at = g.at + D
  BY DEF IInv, SeenComplete
<1>2. i \in live
  BY <1>1
<1>3. seen \in Seq(SeenType) /\ live \in SUBSET (DOMAIN seen)
  BY DEF IInv, TypeOK, SeenType
<1> HIDE DEF live
<1>4. \E j \in DOMAIN SuffixFrom(seen, live) : SuffixFrom(seen, live)[j] = seen[i]
  BY <1>2, <1>3, SuffixFromProperties
<1>5. PurgedSeen = SuffixFrom(seen, live)
  BY DEF PurgedSeen, live
<1> QED
  BY <1>1, <1>4, <1>5

-----------------------------------------------------------------------------
(* Each action preserves the invariant *)

\* A manager that was just constructed satisfies the invariant.
LEMMA InitIInv == Init => IInv
<1> SUFFICES ASSUME Init PROVE IInv
  OBVIOUS
<1>1. TypeOK
  BY InputAssumption DEF Init, TypeOK
<1>2. IsFiniteSet({}) /\ Cardinality({}) = 0
  BY FS_EmptySet
<1>3. LeasesWellFormed
  BY <1>2, InputAssumption DEF Init, LeasesWellFormed
<1>4. /\ \A k \in PrincipalKeys : LeasesOfPrincipal(k) = {}
      /\ \A t \in Tenants : LeasesOfTenant(t) = {}
  BY DEF Init, LeasesOfPrincipal, LeasesOfTenant
<1>5. CountersMatchLeases
  BY <1>2, <1>4 DEF Init, CountersMatchLeases
<1>6. ConcurrencyBound
  BY <1>2, <1>4, PolicyNat DEF ConcurrencyBound, PolicyFields
<1>7. ApprovalsPending /\ OutputApprovedOnce /\ SeenComplete /\ ReplayWindow
  BY InputAssumption DEF Init, ApprovalsPending, OutputApprovedOnce, SeenComplete, ReplayWindow
<1> QED
  BY <1>1, <1>3, <1>5, <1>6, <1>7 DEF IInv

\* A step that leaves the leases, the counters and the history alone.
LEMMA QuietStep ==
    ASSUME IInv, UNCHANGED <<state, history>>, now' \in Nat, now <= now'
    PROVE  IInv'
<1> USE DEF IInv, state, history
<1>1. TypeOK'
  BY DEF TypeOK
<1>2. LeasesWellFormed'
  BY DEF LeasesWellFormed
<1>3. CountersMatchLeases' /\ ConcurrencyBound'
  BY DEF CountersMatchLeases, ConcurrencyBound, LeasesOfPrincipal, LeasesOfTenant
<1>4. ApprovalsPending' /\ OutputApprovedOnce' /\ ReplayWindow'
  BY DEF ApprovalsPending, OutputApprovedOnce, ReplayWindow
<1>5. SeenComplete'
  <2>1. ASSUME NEW g \in granted
        PROVE  g.at <= now' /\ (now' < g.at + D => now < g.at + D)
    <3>1. g.at \in Nat /\ now \in Nat /\ g.at <= now
      BY DEF TypeOK, GrantType, SeenComplete
    <3> QED
      BY <3>1, PolicyNat
  <2> QED
    BY <2>1 DEF SeenComplete
<1> QED
  BY <1>1, <1>2, <1>3, <1>4, <1>5

\* A blocked reserve purges, and nothing else.
LEMMA BlockedStep ==
    ASSUME IInv, NEW req \in Requests, ReserveBlocked(req)
    PROVE  IInv'
<1> USE DEF IInv
<1>0. /\ Expired \in SUBSET leases
      /\ ReleaseLeases(Expired)
      /\ UNCHANGED <<now, nextLease, granted, approvals>>
  BY DEF ReserveBlocked, Expired, history
<1>1. /\ leases' \subseteq LeaseType
      /\ principalActive' \in [PrincipalKeys -> Nat]
      /\ tenantActive' \in [Tenants -> Nat]
      /\ LeasesWellFormed' /\ CountersMatchLeases' /\ ConcurrencyBound'
  BY <1>0, ReleasePreserves
<1>2. TypeOK'
  <2>1. seen' \in Seq([id : Reservations, expires_at : Nat])
    BY PurgeTypes DEF ReserveBlocked, SeenType
  <2>2. principalWindows' \in [PrincipalKeys -> Seq(Nat)] /\ tenantWindows' \in [Tenants -> Seq(Nat)]
    BY PurgeTypes DEF ReserveBlocked
  <2>3. DOMAIN sessions' \subseteq SessionKeys /\ \A k \in DOMAIN sessions' : sessions'[k] \in SessionType
    BY PurgeTypes DEF ReserveBlocked
  <2> QED
    BY <1>0, <1>1, <2>1, <2>2, <2>3 DEF TypeOK
<1>3. ApprovalsPending' /\ OutputApprovedOnce' /\ ReplayWindow'
  BY <1>0 DEF ApprovalsPending, OutputApprovedOnce, ReplayWindow, ReleaseLeases
<1>4. SeenComplete'
  <2>1. seen' = PurgedSeen
    BY DEF ReserveBlocked
  <2> QED
    BY <1>0, <2>1, PurgedSeenComplete DEF SeenComplete
<1> QED
  BY <1>1, <1>2, <1>3, <1>4

\* complete and cancel release their lease; complete approves at most one output.
LEMMA ReleaseStep ==
    ASSUME IInv, NEW l \in leases, ReleaseLeases({l}),
           \/ approvals' = approvals
           \/ approvals' = [approvals EXCEPT ![l.lease_id] = @ + 1],
           UNCHANGED <<now, sessions, principalWindows, tenantWindows, seen, nextLease, granted>>
    PROVE  IInv'
<1> USE DEF IInv
<1>1. /\ leases' \subseteq LeaseType
      /\ principalActive' \in [PrincipalKeys -> Nat]
      /\ tenantActive' \in [Tenants -> Nat]
      /\ LeasesWellFormed' /\ CountersMatchLeases' /\ ConcurrencyBound'
  <2>1. {l} \in SUBSET leases
    OBVIOUS
  <2> QED
    BY <2>1, ReleasePreserves
<1>0. approvals \in [0 .. MaxLeases - 1 -> Nat]
  BY DEF TypeOK
<1>4. l.lease_id \in 0 .. MaxLeases - 1 /\ l.lease_id < nextLease
  BY InputAssumption DEF LeasesWellFormed, TypeOK, LeaseType
<1>2. /\ approvals' \in [0 .. MaxLeases - 1 -> Nat]
      /\ \A i \in 0 .. MaxLeases - 1 :
           approvals'[i] # approvals[i] => i = l.lease_id /\ approvals'[i] = approvals[i] + 1
  <2> HIDE DEF IInv
  <2>1. CASE approvals' = approvals
    BY <1>0, <2>1
  <2>2. CASE approvals' = [approvals EXCEPT ![l.lease_id] = @ + 1]
    <3> DEFINE J == 0 .. MaxLeases - 1
    <3>1. approvals \in [J -> Nat] /\ l.lease_id \in J
      BY <1>0, <1>4
    <3> HIDE DEF J
    <3>2. /\ approvals' \in [J -> Nat]
          /\ approvals'[l.lease_id] = approvals[l.lease_id] + 1
          /\ \A i \in J : i # l.lease_id => approvals'[i] = approvals[i]
      BY <3>1, <2>2
    <3> QED
      BY <3>1, <3>2 DEF J
  <2> QED
    BY <2>1, <2>2
<1>3. TypeOK'
  BY <1>1, <1>2 DEF TypeOK
<1>5. ApprovalsPending'
  <2>1. \A m \in leases' : m \in leases /\ m.lease_id # l.lease_id
    BY DEF ReleaseLeases, LeasesWellFormed
  <2>2. \A m \in leases' : m.lease_id \in 0 .. MaxLeases - 1
    BY <2>1, InputAssumption DEF LeasesWellFormed, TypeOK, LeaseType
  <2>3. \A m \in leases' : approvals'[m.lease_id] = 0
    BY <1>2, <2>1, <2>2 DEF ApprovalsPending
  <2>4. \A i \in nextLease .. MaxLeases - 1 : approvals'[i] = 0
    <3>1. TAKE i \in nextLease .. MaxLeases - 1
    <3>2. i \in 0 .. MaxLeases - 1 /\ i # l.lease_id
      BY <1>4, InputAssumption DEF TypeOK
    <3> QED
      BY <1>2, <3>2 DEF ApprovalsPending
  <2> QED
    BY <2>3, <2>4 DEF ApprovalsPending
<1>6. OutputApprovedOnce'
  <2>1. approvals[l.lease_id] = 0
    BY DEF ApprovalsPending
  <2>2. DOMAIN approvals = 0 .. MaxLeases - 1 /\ DOMAIN approvals' = 0 .. MaxLeases - 1
    BY <1>0, <1>2
  <2>3. ASSUME NEW i \in 0 .. MaxLeases - 1 PROVE approvals'[i] <= 1
    BY <1>2, <2>1, <2>2 DEF OutputApprovedOnce
  <2> QED
    BY <2>2, <2>3 DEF OutputApprovedOnce
<1>7. SeenComplete' /\ ReplayWindow'
  BY DEF SeenComplete, ReplayWindow
<1> QED
  BY <1>1, <1>3, <1>5, <1>6, <1>7

\* What reserve has established when it grants: the id is not remembered, and one
\* more lease fits under both concurrency limits.
LEMMA GrantGuards ==
    ASSUME IInv, NEW req \in Requests, StateFindings(req) = {}
    PROVE  /\ ~Replayed(req)
           /\ ReleasedPrincipals(Expired)[PrincipalKey(req)]
                < Policy["max_concurrent_operations_per_principal"]
           /\ ReleasedTenants(Expired)[req.tenant]
                < Policy["max_concurrent_operations_per_tenant"]
<1>1. ~Replayed(req)
  BY Zenon DEF StateFindings
<1>2. ~SessionsFull(req)
  BY Zenon DEF StateFindings
<1>3. ConcurrencyFindings(req) = {}
  BY <1>1, <1>2 DEF StateFindings, LimitFindings
<1>4. ~(ReleasedPrincipals(Expired)[PrincipalKey(req)]
          >= Policy["max_concurrent_operations_per_principal"])
  BY <1>3 DEF ConcurrencyFindings, Finding
<1>5. ~(ReleasedTenants(Expired)[req.tenant]
          >= Policy["max_concurrent_operations_per_tenant"])
  BY <1>3 DEF ConcurrencyFindings, Finding
<1>6. PrincipalKey(req) \in PrincipalKeys /\ req.tenant \in Tenants
  BY InputAssumption DEF PrincipalKey, PrincipalKeys, RequestType
<1>7. Expired \in SUBSET leases
  BY DEF Expired
<1>8. /\ ReleasedPrincipals(Expired)[PrincipalKey(req)] \in Nat
      /\ ReleasedTenants(Expired)[req.tenant] \in Nat
  BY <1>6, <1>7, ReleaseCounts DEF IInv
<1>9. /\ Policy["max_concurrent_operations_per_principal"] \in Nat
      /\ Policy["max_concurrent_operations_per_tenant"] \in Nat
  BY PolicyNat DEF PolicyFields
<1> QED
  BY <1>1, <1>4, <1>5, <1>8, <1>9

\* The session a request is charged to has the type of a session.
LEMMA ChargedSessionType ==
    ASSUME TypeOK, NEW req \in Requests
    PROVE  ChargedSession(req) \in SessionType /\ SessionOf(req).first_seen \in Nat
<1>1. req.operation \in Operations /\ ReservedTokens(req) \in Nat
  BY InputAssumption DEF RequestType, ReservedTokens
<1>2. SessionOf(req) \in SessionType
  <2>1. FreshSession \in SessionType
    BY DEF FreshSession, SessionType, TypeOK
  <2> QED
    BY <2>1, PurgeTypes DEF SessionOf
<1>3. NextToolActions(req) \in Nat
  BY <1>2 DEF NextToolActions, SessionType
<1> QED
  BY <1>1, <1>2, <1>3 DEF ChargedSession, SessionType

\* A grant adds one fresh lease to those that have not expired.
LEMMA GrantedLeases ==
    ASSUME IInv, NEW req \in Requests, ReserveGranted(req)
    PROVE  /\ leases' \subseteq LeaseType
           /\ principalActive' \in [PrincipalKeys -> Nat]
           /\ tenantActive' \in [Tenants -> Nat]
           /\ LeasesWellFormed'
           /\ CountersMatchLeases'
           /\ ConcurrencyBound'
<1> USE DEF IInv
<1> DEFINE kept == leases \ Expired
           n == NewLease(req)
           P(k) == {l \in kept : PrincipalKey(l) = k}
           T(t) == {l \in kept : l.tenant = t}
<1>0. Expired \in SUBSET leases
  BY DEF Expired
<1>1. /\ req.tenant \in Tenants /\ req.principal \in Principals
      /\ PrincipalKey(req) \in PrincipalKeys
  BY InputAssumption DEF RequestType, PrincipalKey, PrincipalKeys
<1>2. n \in LeaseType /\ n.tenant = req.tenant /\ PrincipalKey(n) = PrincipalKey(req)
      /\ n.lease_id = nextLease
  <2>1. /\ req.session \in Sessions /\ req.requested_output_tokens \in Nat
        /\ req.tenant \in Tenants /\ req.principal \in Principals
    BY InputAssumption DEF RequestType
  <2>2. Policy["lease_timeout_seconds"] \in Nat
    BY PolicyNat DEF PolicyFields
  <2>3. now + Policy["lease_timeout_seconds"] \in Nat /\ nextLease \in Nat
    BY <2>2 DEF TypeOK
  <2>4. n \in LeaseType /\ n.lease_id = nextLease
    BY <2>1, <2>3 DEF NewLease, LeaseType
  <2>5. n.tenant = req.tenant /\ n.principal = req.principal
    BY DEF NewLease
  <2> QED
    BY <2>4, <2>5 DEF PrincipalKey
<1>3. leases' = kept \cup {n} /\ nextLease' = nextLease + 1 /\ nextLease < MaxLeases
  BY DEF ReserveGranted
<1>4. n \notin leases
  BY <1>2 DEF LeasesWellFormed, TypeOK
<1>5. IsFiniteSet(kept)
  BY <1>0, ReleaseCounts
<1>6. \A k \in PrincipalKeys :
        /\ IsFiniteSet(P(k)) /\ Cardinality(P(k)) \in Nat
        /\ Cardinality(P(k)) <= Cardinality(LeasesOfPrincipal(k))
        /\ ReleasedPrincipals(Expired)[k] = Cardinality(P(k))
  BY <1>0, ReleaseCounts
<1>7. \A t \in Tenants :
        /\ IsFiniteSet(T(t)) /\ Cardinality(T(t)) \in Nat
        /\ Cardinality(T(t)) <= Cardinality(LeasesOfTenant(t))
        /\ ReleasedTenants(Expired)[t] = Cardinality(T(t))
  BY <1>0, ReleaseCounts
<1> HIDE DEF n
<1>8. \A k \in PrincipalKeys :
        LeasesOfPrincipal(k)' = IF k = PrincipalKey(req) THEN P(k) \cup {n} ELSE P(k)
  BY <1>2, <1>3 DEF LeasesOfPrincipal
<1>9. \A t \in Tenants :
        LeasesOfTenant(t)' = IF t = req.tenant THEN T(t) \cup {n} ELSE T(t)
  BY <1>2, <1>3 DEF LeasesOfTenant
<1>10. /\ \A k \in PrincipalKeys : n \notin P(k)
       /\ \A t \in Tenants : n \notin T(t)
  BY <1>4
<1>11. StateFindings(req) = {}
  BY DEF ReserveGranted
<1> HIDE DEF P, T
<1>12. \A k \in PrincipalKeys :
         Cardinality(LeasesOfPrincipal(k)')
           = IF k = PrincipalKey(req) THEN Cardinality(P(k)) + 1 ELSE Cardinality(P(k))
  BY <1>6, <1>8, <1>10, FS_AddElement
<1>13. \A t \in Tenants :
         Cardinality(LeasesOfTenant(t)')
           = IF t = req.tenant THEN Cardinality(T(t)) + 1 ELSE Cardinality(T(t))
  BY <1>7, <1>9, <1>10, FS_AddElement
<1>14. principalActive' \in [PrincipalKeys -> Nat]
       /\ \A k \in PrincipalKeys :
            principalActive'[k]
              = IF k = PrincipalKey(req) THEN Cardinality(P(k)) + 1 ELSE Cardinality(P(k))
  <2>1. ReleasedPrincipals(Expired) = [k \in PrincipalKeys |-> Cardinality(P(k))]
    BY <1>6 DEF ReleasedPrincipals
  <2>2. principalActive' = [ReleasedPrincipals(Expired) EXCEPT ![PrincipalKey(req)] = @ + 1]
    BY DEF ReserveGranted
  <2> QED
    BY <1>1, <1>6, <2>1, <2>2
<1>15. tenantActive' \in [Tenants -> Nat]
       /\ \A t \in Tenants :
            tenantActive'[t]
              = IF t = req.tenant THEN Cardinality(T(t)) + 1 ELSE Cardinality(T(t))
  <2>1. ReleasedTenants(Expired) = [t \in Tenants |-> Cardinality(T(t))]
    BY <1>7 DEF ReleasedTenants
  <2>2. tenantActive' = [ReleasedTenants(Expired) EXCEPT ![req.tenant] = @ + 1]
    BY DEF ReserveGranted
  <2> QED
    BY <1>1, <1>7, <2>1, <2>2
<1>16. leases' \subseteq LeaseType
  BY <1>2, <1>3 DEF TypeOK
<1>17. LeasesWellFormed'
  <2>1. IsFiniteSet(leases')
    BY <1>3, <1>5, FS_AddElement
  <2>2. \A l \in leases' : l.lease_id \in Nat /\ l.lease_id < nextLease + 1
    BY <1>2, <1>3 DEF LeasesWellFormed, TypeOK, LeaseType
  <2>3. \A l, m \in leases' : l.lease_id = m.lease_id => l = m
    <3>1. \A l \in kept : l.lease_id # n.lease_id
      BY <1>2 DEF LeasesWellFormed, TypeOK, LeaseType
    <3> QED
      BY <3>1, <1>3 DEF LeasesWellFormed
  <2> QED
    BY <2>1, <2>2, <2>3, <1>3, InputAssumption DEF LeasesWellFormed, TypeOK
<1>7a. CountersMatchLeases'
  BY <1>12, <1>13, <1>14, <1>15 DEF CountersMatchLeases
<1>19. ConcurrencyBound'
  <2>1. ASSUME NEW k \in PrincipalKeys
        PROVE  Cardinality(LeasesOfPrincipal(k)') <= Policy["max_concurrent_operations_per_principal"]
    <3>1. /\ Cardinality(LeasesOfPrincipal(k)) \in Nat
          /\ Cardinality(LeasesOfPrincipal(k)) <= Policy["max_concurrent_operations_per_principal"]
          /\ Policy["max_concurrent_operations_per_principal"] \in Nat
      BY PolicyNat DEF PolicyFields, ConcurrencyBound, CountersMatchLeases, TypeOK
    <3>2. k = PrincipalKey(req) =>
            Cardinality(P(k)) < Policy["max_concurrent_operations_per_principal"]
      BY <1>6, <1>11, GrantGuards
    <3> QED
      BY <1>6, <1>12, <3>1, <3>2
  <2>2. ASSUME NEW t \in Tenants
        PROVE  Cardinality(LeasesOfTenant(t)') <= Policy["max_concurrent_operations_per_tenant"]
    <3>1. /\ Cardinality(LeasesOfTenant(t)) \in Nat
          /\ Cardinality(LeasesOfTenant(t)) <= Policy["max_concurrent_operations_per_tenant"]
          /\ Policy["max_concurrent_operations_per_tenant"] \in Nat
      BY PolicyNat DEF PolicyFields, ConcurrencyBound, CountersMatchLeases, TypeOK
    <3>2. t = req.tenant =>
            Cardinality(T(t)) < Policy["max_concurrent_operations_per_tenant"]
      BY <1>7, <1>11, GrantGuards
    <3> QED
      BY <1>7, <1>13, <3>1, <3>2
  <2> QED
    BY <2>1, <2>2 DEF ConcurrencyBound
<1> QED
  BY <1>14, <1>15, <1>16, <1>17, <1>7a, <1>19

\* A granted reserve remembers its id, and was not refused as a replay.
LEMMA GrantedReplay ==
    ASSUME IInv, NEW req \in Requests, ReserveGranted(req)
    PROVE  SeenComplete' /\ ReplayWindow'
<1> USE DEF IInv
<1> DEFINE e == [id |-> req.reservation_id, expires_at |-> now + D]
           new == Grant(req)
<1>1. /\ PurgedSeen \in Seq(SeenType)
      /\ now \in Nat /\ D \in Nat /\ D >= 1
      /\ req.reservation_id \in Reservations
  BY PurgeTypes, PolicyNat, InputAssumption DEF TypeOK, RequestType
<1>2. e \in SeenType
  BY <1>1 DEF SeenType
<1>3. /\ seen' = Append(PurgedSeen, e)
      /\ granted' = granted \cup {new}
      /\ now' = now
  BY DEF ReserveGranted, D
<1>4. new.at = now /\ new.id = req.reservation_id
  BY DEF Grant
<1>5. e.id = req.reservation_id /\ e.expires_at = now + D
  OBVIOUS
<1> HIDE DEF e, new
<1>6. /\ Len(PurgedSeen) \in Nat
      /\ DOMAIN PurgedSeen = 1 .. Len(PurgedSeen)
      /\ DOMAIN seen' = 1 .. Len(PurgedSeen) + 1
      /\ \A i \in 1 .. Len(PurgedSeen) : seen'[i] = PurgedSeen[i]
      /\ seen'[Len(PurgedSeen) + 1] = e
  BY <1>1, <1>2, <1>3, AppendProperties, LenProperties
<1>7. ~Replayed(req)
  BY GrantGuards DEF ReserveGranted
<1>8. SeenComplete'
  <2> SUFFICES ASSUME NEW g \in granted'
               PROVE  /\ g.at <= now
                      /\ now < g.at + D =>
                           \E i \in DOMAIN seen' : seen'[i].id = g.id /\ seen'[i].expires_at = g.at + D
    BY <1>3 DEF SeenComplete
  <2>1. CASE g \in granted
    <3>1. g.at <= now
      BY <2>1 DEF SeenComplete
    <3>2. ASSUME now < g.at + D
          PROVE  \E i \in DOMAIN seen' : seen'[i].id = g.id /\ seen'[i].expires_at = g.at + D
      <4>1. PICK i \in DOMAIN PurgedSeen :
              PurgedSeen[i].id = g.id /\ PurgedSeen[i].expires_at = g.at + D
        BY <2>1, <3>2, PurgedSeenComplete
      <4>2. i \in DOMAIN seen' /\ seen'[i] = PurgedSeen[i]
        BY <1>6
      <4> QED
        BY <4>1, <4>2
    <3> QED
      BY <3>1, <3>2
  <2>2. CASE g = new
    <3>1. Len(PurgedSeen) + 1 \in DOMAIN seen'
      BY <1>6
    <3> QED
      BY <2>2, <3>1, <1>1, <1>4, <1>5, <1>6
  <2> QED
    BY <1>3, <2>1, <2>2
<1>9. ReplayWindow'
  <2>1. ASSUME NEW g \in granted, g.id = new.id
        PROVE  new.at >= g.at + D
    <3>1. g.at \in Nat
      BY DEF TypeOK, GrantType
    <3>2. ~(now < g.at + D)
      BY <1>4, <1>7, <2>1, PurgedSeenComplete DEF Replayed
    <3> QED
      BY <1>1, <1>4, <3>1, <3>2
  <2> QED
    BY <1>3, <2>1 DEF ReplayWindow, D
<1> QED
  BY <1>8, <1>9

\* A granted reserve preserves the invariant.
LEMMA GrantedStep ==
    ASSUME IInv, NEW req \in Requests, ReserveGranted(req)
    PROVE  IInv'
<1>1. /\ leases' \subseteq LeaseType
      /\ principalActive' \in [PrincipalKeys -> Nat]
      /\ tenantActive' \in [Tenants -> Nat]
      /\ LeasesWellFormed' /\ CountersMatchLeases' /\ ConcurrencyBound'
  BY GrantedLeases
<1>2. SeenComplete' /\ ReplayWindow'
  BY GrantedReplay
<1> USE DEF IInv
<1>3. TypeOK'
  <2>1. now \in Nat /\ nextLease \in Nat /\ req \in RequestType /\ D \in Nat
    BY InputAssumption, PolicyNat DEF TypeOK
  <2>2. seen' \in Seq([id : Reservations, expires_at : Nat])
    <3>1. [id |-> req.reservation_id, expires_at |-> now + D] \in SeenType
      BY <2>1 DEF SeenType, RequestType
    <3>2. PurgedSeen \in Seq(SeenType)
      BY PurgeTypes
    <3>3. Append(PurgedSeen, [id |-> req.reservation_id, expires_at |-> now + D]) \in Seq(SeenType)
      BY <3>1, <3>2, AppendProperties
    <3> QED
      BY <3>3 DEF ReserveGranted, D, SeenType
  <2>3. ASSUME NEW w \in Seq(Nat) PROVE Append(w, now) \in Seq(Nat)
    BY <2>1, AppendProperties
  <2>4. principalWindows' \in [PrincipalKeys -> Seq(Nat)]
    BY <2>3, PurgeTypes DEF ReserveGranted
  <2>5. tenantWindows' \in [Tenants -> Seq(Nat)]
    BY <2>3, PurgeTypes DEF ReserveGranted
  <2>6. DOMAIN sessions' \subseteq SessionKeys /\ \A k \in DOMAIN sessions' : sessions'[k] \in SessionType
    <3>1. SessionKey(req) \in SessionKeys
      BY <2>1 DEF SessionKey, SessionKeys, RequestType
    <3> QED
      BY <3>1, PurgeTypes, ChargedSessionType DEF ReserveGranted
  <2>7. Grant(req) \in GrantType
    <3>1. ReservedTokens(req) \in Nat /\ SessionOf(req).first_seen \in Nat
      BY <2>1, ChargedSessionType DEF ReservedTokens, RequestType
    <3> QED
      BY <2>1, <3>1 DEF Grant, GrantType, RequestType
  <2>8. granted' \subseteq GrantType
    BY <2>7 DEF ReserveGranted, TypeOK
  <2>9. nextLease' \in Nat /\ now' = now /\ approvals' = approvals
    BY <2>1 DEF ReserveGranted
  <2> QED
    BY <1>1, <2>1, <2>2, <2>4, <2>5, <2>6, <2>8, <2>9 DEF TypeOK
<1>4. ApprovalsPending'
  <2>1. /\ approvals' = approvals /\ nextLease' = nextLease + 1 /\ nextLease < MaxLeases
        /\ leases' = (leases \ Expired) \cup {NewLease(req)}
    BY DEF ReserveGranted
  <2>2. NewLease(req).lease_id = nextLease
    BY DEF NewLease
  <2>3. nextLease \in nextLease .. MaxLeases - 1 /\ nextLease \in Nat /\ MaxLeases \in Nat
    BY <2>1, InputAssumption DEF TypeOK
  <2> QED
    BY <2>1, <2>2, <2>3 DEF ApprovalsPending
<1>5. OutputApprovedOnce'
  BY DEF ReserveGranted, OutputApprovedOnce
<1> QED
  BY <1>1, <1>2, <1>3, <1>4, <1>5

\* Every step preserves the invariant.
LEMMA NextIInv == IInv /\ [Next]_vars => IInv'
<1> SUFFICES ASSUME IInv, [Next]_vars PROVE IInv'
  OBVIOUS
<1>0. now \in Nat
  BY DEF IInv, TypeOK
<1>1. ASSUME NEW req \in Requests, Reserve(req) PROVE IInv'
  <2>1. CASE ReserveRefused(req)
    BY <2>1, <1>0, QuietStep DEF ReserveRefused
  <2>2. CASE ReserveBlocked(req)
    BY <2>2, BlockedStep
  <2>3. CASE ReserveGranted(req)
    BY <2>3, GrantedStep
  <2> QED
    BY <1>1, <2>1, <2>2, <2>3 DEF Reserve
<1>2. ASSUME NEW id \in 0 .. MaxLeases - 1, CompleteUnknown(id) PROVE IInv'
  BY <1>2, <1>0, QuietStep DEF CompleteUnknown
<1>3. ASSUME NEW l \in leases, NEW out \in Outputs, CompleteLease(l, out) PROVE IInv'
  <2>1. \/ approvals' = approvals
        \/ approvals' = [approvals EXCEPT ![l.lease_id] = @ + 1]
    BY <1>3 DEF CompleteLease
  <2>2. /\ ReleaseLeases({l})
        /\ UNCHANGED <<now, sessions, principalWindows, tenantWindows, seen, nextLease, granted>>
    BY <1>3 DEF CompleteLease
  <2> QED
    BY <2>1, <2>2, ReleaseStep
<1>4. ASSUME NEW l \in leases, Cancel(l) PROVE IInv'
  <2>1. /\ ReleaseLeases({l})
        /\ approvals' = approvals
        /\ UNCHANGED <<now, sessions, principalWindows, tenantWindows, seen, nextLease, granted>>
    BY <1>4 DEF Cancel, history
  <2> QED
    BY <2>1, ReleaseStep
<1>5. ASSUME NEW id \in 0 .. MaxLeases - 1, CancelUnknown(id) PROVE IInv'
  BY <1>5, <1>0, QuietStep DEF CancelUnknown
<1>6. CASE Tick
  BY <1>6, <1>0, QuietStep DEF Tick
<1>7. CASE UNCHANGED vars
  BY <1>7, <1>0, QuietStep DEF vars, state, history
<1> QED
  BY <1>1, <1>2, <1>3, <1>4, <1>5, <1>6, <1>7 DEF Next

-----------------------------------------------------------------------------
(* Theorems *)

\* The strengthened invariant holds in every reachable state.
THEOREM Inductive == Spec => []IInv
BY InitIInv, NextIInv, PTL DEF Spec

\* Every field of the manager keeps its type, the counters never below zero.
THEOREM TypeCorrect == Spec => []TypeOK
<1>1. IInv => TypeOK
  BY DEF IInv
<1> QED
  BY <1>1, Inductive, PTL

\* The concurrency counters always equal the number of active leases.
THEOREM CountersExact == Spec => []CountersMatchLeases
<1>1. IInv => CountersMatchLeases
  BY DEF IInv
<1> QED
  BY <1>1, Inductive, PTL

\* No principal and no tenant ever holds more leases than its policy allows.
THEOREM ConcurrencyBounded == Spec => []ConcurrencyBound
<1>1. IInv => ConcurrencyBound
  BY DEF IInv
<1> QED
  BY <1>1, Inductive, PTL

\* complete passes on at most one output for a lease.
THEOREM ApprovedOnce == Spec => []OutputApprovedOnce
<1>1. IInv => OutputApprovedOnce
  BY DEF IInv
<1> QED
  BY <1>1, Inductive, PTL

\* A reservation id is granted at most once per session duration.
THEOREM NoReplay == Spec => []ReplayWindow
<1>1. IInv => ReplayWindow
  BY DEF IInv
<1> QED
  BY <1>1, Inductive, PTL

-----------------------------------------------------------------------------
(* Sessions, refusals and expiry *)

\* The purge keeps the session of every lease that stays active.
LEMMA PurgeKeepsSessions ==
    ASSUME LiveLeaseKeepsSession, NEW l \in leases \ Expired
    PROVE  SessionKey(l) \in DOMAIN PurgedSessions
BY DEF LiveLeaseKeepsSession, PurgedSessions, Expired

\* A step keeps the session of every active lease: releases only shrink the leases,
\* and the purge and a grant never drop the session of one that stays.
LEMMA SessionKept == LiveLeaseKeepsSession /\ [Next]_vars => LiveLeaseKeepsSession'
<1> SUFFICES ASSUME LiveLeaseKeepsSession, [Next]_vars PROVE LiveLeaseKeepsSession'
  OBVIOUS
<1>1. ASSUME sessions' = sessions, leases' \subseteq leases PROVE LiveLeaseKeepsSession'
  BY <1>1 DEF LiveLeaseKeepsSession, SessionKey
<1>2. ASSUME NEW req \in Requests, Reserve(req) PROVE LiveLeaseKeepsSession'
  <2>1. CASE ReserveRefused(req)
    BY <2>1, <1>1 DEF ReserveRefused, state
  <2>2. CASE ReserveBlocked(req)
    <3>1. leases' = leases \ Expired /\ sessions' = PurgedSessions
      BY <2>2 DEF ReserveBlocked, ReleaseLeases
    <3> QED
      BY <3>1, PurgeKeepsSessions DEF LiveLeaseKeepsSession, SessionKey
  <2>3. CASE ReserveGranted(req)
    <3>1. /\ leases' = (leases \ Expired) \cup {NewLease(req)}
          /\ DOMAIN sessions' = DOMAIN PurgedSessions \cup {SessionKey(req)}
      BY <2>3 DEF ReserveGranted
    <3>2. SessionKey(NewLease(req)) = SessionKey(req)
      BY DEF SessionKey, NewLease
    <3> QED
      BY <3>1, <3>2, PurgeKeepsSessions DEF LiveLeaseKeepsSession, SessionKey
  <2> QED
    BY <1>2, <2>1, <2>2, <2>3 DEF Reserve
<1>3. ASSUME NEW id \in 0 .. MaxLeases - 1, CompleteUnknown(id) PROVE LiveLeaseKeepsSession'
  BY <1>1, <1>3 DEF CompleteUnknown, state
<1>4. ASSUME NEW l \in leases, NEW out \in Outputs, CompleteLease(l, out)
      PROVE  LiveLeaseKeepsSession'
  BY <1>1, <1>4 DEF CompleteLease, ReleaseLeases
<1>5. ASSUME NEW l \in leases, Cancel(l) PROVE LiveLeaseKeepsSession'
  BY <1>1, <1>5 DEF Cancel, ReleaseLeases
<1>6. ASSUME NEW id \in 0 .. MaxLeases - 1, CancelUnknown(id) PROVE LiveLeaseKeepsSession'
  BY <1>1, <1>6 DEF CancelUnknown, state
<1>7. CASE Tick
  BY <1>1, <1>7 DEF Tick, state
<1>8. CASE UNCHANGED vars
  BY <1>1, <1>8 DEF vars
<1> QED
  BY <1>2, <1>3, <1>4, <1>5, <1>6, <1>7, <1>8 DEF Next

\* The code of a concurrency limit is found only when the counter left by the
\* purge has reached it, and never by the static limits.
LEMMA ConcurrencyCodes ==
    ASSUME NEW req \in Requests
    PROVE  /\ "principal_concurrency_exceeded" \in StateFindings(req) =>
                ReleasedPrincipals(Expired)[PrincipalKey(req)]
                  >= Policy["max_concurrent_operations_per_principal"]
           /\ "tenant_concurrency_exceeded" \in StateFindings(req) =>
                ReleasedTenants(Expired)[req.tenant]
                  >= Policy["max_concurrent_operations_per_tenant"]
           /\ "principal_concurrency_exceeded" \notin RequestFindings(req)
           /\ "tenant_concurrency_exceeded" \notin RequestFindings(req)
<1>2. /\ "principal_concurrency_exceeded" \notin SessionFindings(req)
      /\ "tenant_concurrency_exceeded" \notin SessionFindings(req)
  BY DEF SessionFindings, Finding
<1>3. /\ "principal_concurrency_exceeded" \notin RateFindings(req)
      /\ "tenant_concurrency_exceeded" \notin RateFindings(req)
  BY DEF RateFindings, Finding
<1>4. /\ "principal_concurrency_exceeded" \notin TrackingFindings
      /\ "tenant_concurrency_exceeded" \notin TrackingFindings
  BY DEF TrackingFindings, Finding
<1>5. /\ "principal_concurrency_exceeded" \in ConcurrencyFindings(req) =>
           ReleasedPrincipals(Expired)[PrincipalKey(req)]
             >= Policy["max_concurrent_operations_per_principal"]
      /\ "tenant_concurrency_exceeded" \in ConcurrencyFindings(req) =>
           ReleasedTenants(Expired)[req.tenant]
             >= Policy["max_concurrent_operations_per_tenant"]
  BY DEF ConcurrencyFindings, Finding
<1>6. /\ "principal_concurrency_exceeded" \notin RequestFindings(req)
      /\ "tenant_concurrency_exceeded" \notin RequestFindings(req)
  BY DEF RequestFindings
<1> QED
  BY <1>2, <1>3, <1>4, <1>5, <1>6 DEF StateFindings, LimitFindings

\* A step answers a request with a concurrency code only while that many leases
\* that have not expired are active.
LEMMA DenialStep == IInv /\ DenialJustified /\ [Next]_vars => DenialJustified'
<1> SUFFICES ASSUME IInv, DenialJustified, [Next]_vars PROVE DenialJustified'
  OBVIOUS
<1>1. ASSUME result'.call # "reserve" PROVE DenialJustified'
  BY <1>1 DEF DenialJustified
<1>2. ASSUME NEW req \in Requests, Reserve(req) PROVE DenialJustified'
  <2>1. CASE ReserveRefused(req)
    <3>1. result' = Blocked("reserve", req, RequestFindings(req))
      BY <2>1 DEF ReserveRefused
    <3>2. result'.codes = RequestFindings(req)
      BY <3>1 DEF Blocked
    <3> QED
      BY <3>2, ConcurrencyCodes DEF DenialJustified
  <2>2. CASE ReserveBlocked(req)
    <3> DEFINE P == {l \in leases \ Expired : PrincipalKey(l) = PrincipalKey(req)}
               T == {l \in leases \ Expired : l.tenant = req.tenant}
    <3>1. /\ result' = Blocked("reserve", req, StateFindings(req))
          /\ leases' = leases \ Expired
          /\ now' = now
      BY <2>2 DEF ReserveBlocked, ReleaseLeases
    <3>2. /\ result'.codes = StateFindings(req)
          /\ PrincipalKey(result)' = PrincipalKey(req)
          /\ result'.tenant = req.tenant
      BY <3>1 DEF Blocked, PrincipalKey
    <3>3. Expired \in SUBSET leases /\ \A l \in leases \ Expired : now < l.expires_at
      BY DEF Expired, IInv, TypeOK, LeaseType
    <3>4. /\ {l \in LeasesOfPrincipal(PrincipalKey(result)) : now < l.expires_at}' = P
          /\ {l \in LeasesOfTenant(result.tenant) : now < l.expires_at}' = T
      BY <3>1, <3>2, <3>3 DEF LeasesOfPrincipal, LeasesOfTenant, PrincipalKey
    <3>5. PrincipalKey(req) \in PrincipalKeys /\ req.tenant \in Tenants
      BY InputAssumption DEF RequestType, PrincipalKey, PrincipalKeys
    <3>6. /\ ReleasedPrincipals(Expired)[PrincipalKey(req)] = Cardinality(P)
          /\ ReleasedTenants(Expired)[req.tenant] = Cardinality(T)
      BY <3>3, <3>5, ReleaseCounts DEF IInv
    <3> HIDE DEF P, T
    <3> QED
      BY <3>2, <3>4, <3>6, ConcurrencyCodes DEF DenialJustified
  <2>3. CASE ReserveGranted(req)
    <3>1. result'.codes = {}
      BY <2>3 DEF ReserveGranted, Allowed
    <3> QED
      BY <3>1 DEF DenialJustified
  <2> QED
    BY <1>2, <2>1, <2>2, <2>3 DEF Reserve
<1>3. ASSUME NEW id \in 0 .. MaxLeases - 1, CompleteUnknown(id) PROVE DenialJustified'
  BY <1>1, <1>3 DEF CompleteUnknown, UnknownLease
<1>4. ASSUME NEW l \in leases, NEW out \in Outputs, CompleteLease(l, out)
      PROVE  DenialJustified'
  BY <1>1, <1>4 DEF CompleteLease, Blocked, Allowed
<1>5. ASSUME NEW l \in leases, Cancel(l) PROVE DenialJustified'
  BY <1>1, <1>5 DEF Cancel
<1>6. ASSUME NEW id \in 0 .. MaxLeases - 1, CancelUnknown(id) PROVE DenialJustified'
  BY <1>1, <1>6 DEF CancelUnknown
<1>7. CASE Tick
  BY <1>1, <1>7 DEF Tick, NoResult
<1>8. CASE UNCHANGED vars
  <2>1. now' = now /\ leases' = leases /\ result' = result
    BY <1>8 DEF vars
  <2> QED
    BY <2>1 DEF DenialJustified, LeasesOfPrincipal, LeasesOfTenant, PrincipalKey
<1> QED
  BY <1>2, <1>3, <1>4, <1>5, <1>6, <1>7, <1>8 DEF Next

\* The budget of a session is never forgotten while a lease taken in it is active.
THEOREM SessionsKept == Spec => []LiveLeaseKeepsSession
<1>1. Init => LiveLeaseKeepsSession
  BY DEF Init, LiveLeaseKeepsSession
<1> QED
  BY <1>1, SessionKept, PTL DEF Spec

\* reserve never refuses for lack of concurrency on account of a lost lease.
THEOREM DenialsJustified == Spec => []DenialJustified
<1>1. Init => DenialJustified
  BY DEF Init, DenialJustified, NoResult
<1> QED
  BY <1>1, DenialStep, Inductive, PTL DEF Spec

-----------------------------------------------------------------------------
(* The sliding windows *)

W == Policy["request_window_seconds"]

LEMMA WindowNat == W \in Nat /\ W >= 1
BY PolicyAssumption DEF PolicyFields, W

\* The entries of a deque that lie in V.
CountIn(s, V) == Cardinality({i \in DOMAIN s : s[i] \in V})

\* A deque has finitely many entries, and no more of them in V than its length.
LEMMA CountInBounds ==
    ASSUME NEW S, NEW s \in Seq(S), NEW V
    PROVE  CountIn(s, V) \in Nat /\ CountIn(s, V) <= Len(s)
<1>1. Len(s) \in Nat /\ DOMAIN s = 1 .. Len(s)
  BY LenProperties
<1>2. IsFiniteSet(1 .. Len(s)) /\ Cardinality(1 .. Len(s)) = Len(s)
  BY <1>1, FS_Interval
<1>3. {i \in DOMAIN s : s[i] \in V} \in SUBSET (1 .. Len(s))
  BY <1>1
<1> QED
  BY <1>2, <1>3, FS_Subset, FS_CardinalityType DEF CountIn

\* Trimming a deque from the left loses none of its entries in V, if those are live.
LEMMA SuffixKeepsCount ==
    ASSUME NEW S, NEW s \in Seq(S), NEW live \in SUBSET (DOMAIN s), NEW V,
           \A i \in DOMAIN s : s[i] \in V => i \in live
    PROVE  CountIn(s, V) <= CountIn(SuffixFrom(s, live), V)
<1> DEFINE A == {i \in DOMAIN s : s[i] \in V}
           t == SuffixFrom(s, live)
           B == {j \in DOMAIN t : t[j] \in V}
           h(i) == CHOOSE j \in DOMAIN t : t[j] = s[i]
<1>0. Len(s) \in Nat /\ DOMAIN s = 1 .. Len(s) /\ \A i \in 1 .. Len(s) : s[i] \in S
  BY LenProperties
<1>1. t \in Seq(S)
  BY SuffixFromProperties
<1>2. IsFiniteSet(B) /\ Cardinality(B) \in Nat
  <2>1. Len(t) \in Nat /\ DOMAIN t = 1 .. Len(t)
    BY <1>1, LenProperties
  <2>2. IsFiniteSet(1 .. Len(t))
    BY <2>1, FS_Interval
  <2> HIDE DEF t
  <2>3. B \in SUBSET (1 .. Len(t))
    BY <2>1
  <2> QED
    BY <2>2, <2>3, FS_Subset, FS_CardinalityType
<1>2a. CountIn(s, V) = Cardinality(A) /\ CountIn(SuffixFrom(s, live), V) = Cardinality(B)
  BY DEF CountIn
<1>3. CASE live = {}
  <2>1. A = {}
    BY <1>3
  <2> HIDE DEF A, B
  <2> QED
    BY <2>1, <1>2, <1>2a, FS_EmptySet
<1>4. CASE live # {}
  <2> DEFINE m == Min(live)
             f == [i \in A |-> i - m + 1]
  <2>1. live \in SUBSET Nat
    BY <1>0
  <2>2. m \in live /\ \A i \in live : m <= i
    BY <1>4, <2>1, MinOfNats
  <2>3. m \in 1 .. Len(s) /\ \A i \in m .. Len(s) : s[i] \in S
    BY <1>0, <2>2
  <2>4. t = SubSeq(s, m, Len(s))
    BY <1>4 DEF SuffixFrom
  <2> HIDE DEF m, t
  <2>5. /\ Len(t) = Len(s) - m + 1
        /\ \A i \in 1 .. Len(s) - m + 1 : t[i] = s[m + i - 1]
    BY <1>0, <2>3, <2>4, SubSeqProperties, Len(s) \in Int, m \in Int
  <2>6. DOMAIN t = 1 .. Len(s) - m + 1
    BY <1>1, <2>5, LenProperties
  <2>7. \A i \in A : i \in Int /\ i - m + 1 \in 1 .. Len(s) - m + 1 /\ t[i - m + 1] = s[i]
    <3>1. TAKE i \in A
    <3>2. i \in 1 .. Len(s) /\ m <= i
      BY <1>0, <2>2
    <3>3. (i - m) + 1 \in 1 .. Len(s) - m + 1 /\ m + ((i - m) + 1) - 1 = i
      BY <3>2, <2>3, <1>0
    <3> QED
      BY <3>2, <3>3, <2>5
  <2>8. f \in [A -> B]
    BY <2>6, <2>7
  <2>9. \A i, j \in A : f[i] = f[j] => i = j
    BY <2>3, <2>7
  <2>10. f \in Injection(A, B)
    BY <2>8, <2>9 DEF Injection, IsInjective
  <2>11. Cardinality(A) <= Cardinality(B)
    BY <2>10, <1>2, FS_Injection
  <2> QED
    BY <2>11, <1>2a DEF t
<1> QED
  BY <1>3, <1>4

\* Appending an entry adds it to the entries in V, if it lies in V.
LEMMA AppendCounts ==
    ASSUME NEW S, NEW s \in Seq(S), NEW x \in S, NEW V
    PROVE  CountIn(Append(s, x), V) = IF x \in V THEN CountIn(s, V) + 1 ELSE CountIn(s, V)
<1> DEFINE A == {i \in DOMAIN s : s[i] \in V}
           t == Append(s, x)
           n == Len(s) + 1
<1>1. Len(s) \in Nat /\ DOMAIN s = 1 .. Len(s)
  BY LenProperties
<1>2. /\ DOMAIN t = 1 .. n /\ t[n] = x
      /\ \A i \in 1 .. Len(s) : t[i] = s[i]
  BY <1>1, AppendProperties, LenProperties
<1>3. IsFiniteSet(A)
  <2>1. IsFiniteSet(1 .. Len(s))
    BY <1>1, FS_Interval
  <2>2. A \in SUBSET (1 .. Len(s))
    BY <1>1
  <2> QED
    BY <2>1, <2>2, FS_Subset
<1>4. n \notin A
  BY <1>1
<1> HIDE DEF t
<1>5. {i \in DOMAIN t : t[i] \in V} = IF x \in V THEN A \cup {n} ELSE A
  BY <1>1, <1>2
<1> QED
  BY <1>3, <1>4, <1>5, FS_AddElement DEF CountIn, t

\* At time t the window w still holds an entry for every grant of G that may count
\* in it: as many entries as grants, whatever recent moment one counts from.
Recorded(G, w, t) ==
    \A c \in Int : c >= t - W =>
        Cardinality({g \in G : g.at > c}) <= CountIn(w, {x \in Nat : x > c})

GrantsOfPrincipal(k) == {g \in granted : PrincipalKey(g) = k}
GrantsOfTenant(t) == {g \in granted : g.tenant = t}

RatesRecorded ==
    /\ IsFiniteSet(granted)
    /\ \A k \in PrincipalKeys : Recorded(GrantsOfPrincipal(k), principalWindows[k], now)
    /\ \A t \in Tenants : Recorded(GrantsOfTenant(t), tenantWindows[t], now)

\* _window drops no entry that may still count, and leaves only entries that do.
LEMMA PurgeRecorded ==
    ASSUME now \in Nat, NEW G, IsFiniteSet(G), NEW w \in Seq(Nat), Recorded(G, w, now)
    PROVE  Recorded(G, PurgedWindow(w), now)
<1> DEFINE live == {i \in DOMAIN w : w[i] > now - W}
<1>1. W \in Nat /\ PurgedWindow(w) = SuffixFrom(w, live) /\ live \in SUBSET (DOMAIN w)
  BY WindowNat DEF PurgedWindow, W
<1>2. SuffixFrom(w, live) \in Seq(Nat)
  BY <1>1, SuffixFromProperties, Zenon
<1>3. ASSUME NEW c \in Int, c >= now - W
      PROVE  Cardinality({g \in G : g.at > c}) <= CountIn(PurgedWindow(w), {x \in Nat : x > c})
  <2> DEFINE V == {x \in Nat : x > c}
             A == {g \in G : g.at > c}
  <2>0. A \in SUBSET G
    OBVIOUS
  <2>1. \A i \in DOMAIN w : w[i] \in V => i \in live
    BY <1>1, <1>3
  <2>4. Cardinality(A) <= CountIn(w, V)
    BY <1>3 DEF Recorded
  <2> HIDE DEF live, V, A
  <2>2. CountIn(w, V) <= CountIn(SuffixFrom(w, live), V)
    BY <1>1, <2>1, SuffixKeepsCount
  <2>3. CountIn(w, V) \in Nat /\ CountIn(SuffixFrom(w, live), V) \in Nat
    BY <1>2, CountInBounds
  <2>5. Cardinality(A) \in Nat
    BY <2>0, FS_Subset, FS_CardinalityType
  <2>6. Cardinality(A) <= CountIn(PurgedWindow(w), V)
    BY <1>1, <2>2, <2>3, <2>4, <2>5
  <2> QED
    BY <2>6 DEF A, V
<1> QED
  BY <1>3 DEF Recorded

\* A grant made now and the entry appended for it keep the window recorded.
LEMMA AppendRecorded ==
    ASSUME now \in Nat, NEW G, IsFiniteSet(G), NEW w \in Seq(Nat), Recorded(G, w, now),
           NEW n, n.at = now
    PROVE  Recorded(G \cup {n}, Append(w, now), now)
<1> SUFFICES ASSUME NEW c \in Int, c >= now - W
             PROVE  Cardinality({g \in G \cup {n} : g.at > c})
                      <= CountIn(Append(w, now), {x \in Nat : x > c})
  BY DEF Recorded
<1> DEFINE V == {x \in Nat : x > c}
           A == {g \in G : g.at > c}
<1>0. A \in SUBSET G
  OBVIOUS
<1>1. Cardinality(A) <= CountIn(w, V)
  BY DEF Recorded
<1>3. now \in V <=> now > c
  OBVIOUS
<1> DEFINE B == {g \in G \cup {n} : g.at > c}
<1>4. B = IF now > c THEN A \cup {n} ELSE A
  OBVIOUS
<1> HIDE DEF V, A, B
<1>2. /\ IsFiniteSet(A) /\ Cardinality(A) \in Nat
      /\ CountIn(w, V) \in Nat
  BY <1>0, FS_Subset, FS_CardinalityType, CountInBounds
<1>5. CountIn(Append(w, now), V) = IF now > c THEN CountIn(w, V) + 1 ELSE CountIn(w, V)
  BY <1>3, AppendCounts
<1>6. Cardinality(A \cup {n}) \in Nat /\ Cardinality(A \cup {n}) <= Cardinality(A) + 1
  <2>1. Cardinality(A \cup {n}) = IF n \in A THEN Cardinality(A) ELSE Cardinality(A) + 1
    BY <1>2, FS_AddElement
  <2> QED
    BY <1>2, <2>1
<1>7. Cardinality(B) <= CountIn(Append(w, now), V)
  <2>1. CASE now > c
    BY <2>1, <1>1, <1>2, <1>4, <1>5, <1>6
  <2>2. CASE ~(now > c)
    BY <2>2, <1>1, <1>2, <1>4, <1>5, <1>6
  <2> QED
    BY <2>1, <2>2
<1> QED
  BY <1>7 DEF B, V

\* With a window below the limit, at most the limit's worth of grants lies in it
\* once one more is made.
LEMMA WindowBound ==
    ASSUME now \in Nat, NEW G, IsFiniteSet(G), \A g \in G : g.at \in Nat /\ g.at <= now,
           NEW w \in Seq(Nat), Recorded(G, w, now), NEW limit \in Nat, Len(w) < limit, NEW n
    PROVE  Cardinality({g \in G : g.at > now - W} \cup {n}) <= limit
<1> DEFINE V == {x \in Nat : x > now - W}
           A == {g \in G : g.at > now - W}
<1>0. A \in SUBSET G
  OBVIOUS
<1>1. now - W \in Int /\ now - W >= now - W
  BY WindowNat
<1>2. Cardinality(A) <= CountIn(w, V)
  BY <1>1 DEF Recorded
<1> HIDE DEF A, V
<1>3. /\ IsFiniteSet(A) /\ Cardinality(A) \in Nat
      /\ CountIn(w, V) \in Nat /\ CountIn(w, V) <= Len(w) /\ Len(w) \in Nat
  BY <1>0, FS_Subset, FS_CardinalityType, CountInBounds, LenProperties
<1>4. Cardinality(A \cup {n}) = IF n \in A THEN Cardinality(A) ELSE Cardinality(A) + 1
  BY <1>3, FS_AddElement
<1>5. Cardinality(A \cup {n}) <= limit
  BY <1>2, <1>3, <1>4
<1> QED
  BY <1>5 DEF A

\* A deque that recorded its grants still does so later.
LEMMA LaterRecorded ==
    ASSUME now \in Nat, NEW t \in Nat, t >= now, NEW G, NEW w, Recorded(G, w, now)
    PROVE  Recorded(G, w, t)
<1> SUFFICES ASSUME NEW c \in Int, c >= t - W
             PROVE  Cardinality({g \in G : g.at > c}) <= CountIn(w, {x \in Nat : x > c})
  BY DEF Recorded
<1>1. c >= now - W
  BY WindowNat
<1> QED
  BY <1>1 DEF Recorded

\* Every window keeps its grants recorded through the purge that reserve starts with.
LEMMA PurgeKeepsRates ==
    ASSUME IInv, RatesRecorded
    PROVE  /\ \A k \in PrincipalKeys :
                /\ IsFiniteSet(GrantsOfPrincipal(k))
                /\ Recorded(GrantsOfPrincipal(k), PurgedWindow(principalWindows[k]), now)
           /\ \A t \in Tenants :
                /\ IsFiniteSet(GrantsOfTenant(t))
                /\ Recorded(GrantsOfTenant(t), PurgedWindow(tenantWindows[t]), now)
<1>0. IsFiniteSet(granted) /\ now \in Nat
  BY DEF IInv, TypeOK, RatesRecorded
<1>1. ASSUME NEW k \in PrincipalKeys
      PROVE  /\ IsFiniteSet(GrantsOfPrincipal(k))
             /\ Recorded(GrantsOfPrincipal(k), PurgedWindow(principalWindows[k]), now)
  <2>1. GrantsOfPrincipal(k) \in SUBSET granted
    BY DEF GrantsOfPrincipal
  <2>2. IsFiniteSet(GrantsOfPrincipal(k))
    BY <1>0, <2>1, FS_Subset
  <2>3. principalWindows[k] \in Seq(Nat)
    BY DEF IInv, TypeOK
  <2>4. Recorded(GrantsOfPrincipal(k), principalWindows[k], now)
    BY DEF RatesRecorded
  <2> QED
    BY <1>0, <2>2, <2>3, <2>4, PurgeRecorded
<1>2. ASSUME NEW t \in Tenants
      PROVE  /\ IsFiniteSet(GrantsOfTenant(t))
             /\ Recorded(GrantsOfTenant(t), PurgedWindow(tenantWindows[t]), now)
  <2>1. GrantsOfTenant(t) \in SUBSET granted
    BY DEF GrantsOfTenant
  <2>2. IsFiniteSet(GrantsOfTenant(t))
    BY <1>0, <2>1, FS_Subset
  <2>3. tenantWindows[t] \in Seq(Nat)
    BY DEF IInv, TypeOK
  <2>4. Recorded(GrantsOfTenant(t), tenantWindows[t], now)
    BY DEF RatesRecorded
  <2> QED
    BY <1>0, <2>2, <2>3, <2>4, PurgeRecorded
<1> QED
  BY <1>1, <1>2

\* A granted reserve records its grant in the window of its principal and its tenant.
LEMMA GrantedRates ==
    ASSUME IInv, RatesRecorded, NEW req \in Requests, ReserveGranted(req)
    PROVE  RatesRecorded'
<1> DEFINE n == Grant(req)
<1>1. /\ granted' = granted \cup {n} /\ now' = now /\ now \in Nat
      /\ principalWindows' =
           [k \in PrincipalKeys |->
              IF k = PrincipalKey(req)
              THEN Append(PurgedWindow(principalWindows[k]), now)
              ELSE PurgedWindow(principalWindows[k])]
      /\ tenantWindows' =
           [t \in Tenants |->
              IF t = req.tenant
              THEN Append(PurgedWindow(tenantWindows[t]), now)
              ELSE PurgedWindow(tenantWindows[t])]
  BY DEF ReserveGranted, IInv, TypeOK
<1>2. n.at = now /\ n.tenant = req.tenant /\ PrincipalKey(n) = PrincipalKey(req)
  BY DEF Grant, PrincipalKey
<1> HIDE DEF n
<1>3. IsFiniteSet(granted')
  BY <1>1, FS_AddElement DEF RatesRecorded
<1>4. ASSUME NEW k \in PrincipalKeys
      PROVE  Recorded(GrantsOfPrincipal(k)', principalWindows'[k], now)
  <2> DEFINE G == GrantsOfPrincipal(k)
             w == PurgedWindow(principalWindows[k])
  <2>1. GrantsOfPrincipal(k)' = IF k = PrincipalKey(req) THEN G \cup {n} ELSE G
    BY <1>1, <1>2 DEF GrantsOfPrincipal
  <2>2. principalWindows'[k] = IF k = PrincipalKey(req) THEN Append(w, now) ELSE w
    BY <1>1
  <2>3. w \in Seq(Nat) /\ IsFiniteSet(G) /\ Recorded(G, w, now)
    BY PurgeTypes, PurgeKeepsRates DEF IInv
  <2> HIDE DEF G, w
  <2>4. Recorded(G \cup {n}, Append(w, now), now)
    BY <1>1, <1>2, <2>3, AppendRecorded
  <2> QED
    BY <2>1, <2>2, <2>3, <2>4
<1>5. ASSUME NEW t \in Tenants
      PROVE  Recorded(GrantsOfTenant(t)', tenantWindows'[t], now)
  <2> DEFINE G == GrantsOfTenant(t)
             w == PurgedWindow(tenantWindows[t])
  <2>1. GrantsOfTenant(t)' = IF t = req.tenant THEN G \cup {n} ELSE G
    BY <1>1, <1>2 DEF GrantsOfTenant
  <2>2. tenantWindows'[t] = IF t = req.tenant THEN Append(w, now) ELSE w
    BY <1>1
  <2>3. w \in Seq(Nat) /\ IsFiniteSet(G) /\ Recorded(G, w, now)
    BY PurgeTypes, PurgeKeepsRates DEF IInv
  <2> HIDE DEF G, w
  <2>4. Recorded(G \cup {n}, Append(w, now), now)
    BY <1>1, <1>2, <2>3, AppendRecorded
  <2> QED
    BY <2>1, <2>2, <2>3, <2>4
<1> QED
  BY <1>1, <1>3, <1>4, <1>5 DEF RatesRecorded

\* Every step keeps every grant that may still count recorded.
LEMMA RatesStep == IInv /\ RatesRecorded /\ [Next]_vars => RatesRecorded'
<1> SUFFICES ASSUME IInv, RatesRecorded, [Next]_vars PROVE RatesRecorded'
  OBVIOUS
<1>0. now \in Nat
  BY DEF IInv, TypeOK
<1>1. ASSUME granted' = granted, principalWindows' = principalWindows,
             tenantWindows' = tenantWindows, now' \in Nat, now' >= now
      PROVE  RatesRecorded'
  <2>1. \A k \in PrincipalKeys : Recorded(GrantsOfPrincipal(k), principalWindows[k], now')
    BY <1>0, <1>1, LaterRecorded DEF RatesRecorded
  <2>2. \A t \in Tenants : Recorded(GrantsOfTenant(t), tenantWindows[t], now')
    BY <1>0, <1>1, LaterRecorded DEF RatesRecorded
  <2> QED
    BY <1>1, <2>1, <2>2 DEF RatesRecorded, GrantsOfPrincipal, GrantsOfTenant
<1>2. ASSUME NEW req \in Requests, Reserve(req) PROVE RatesRecorded'
  <2>1. CASE ReserveRefused(req)
    BY <2>1, <1>0, <1>1 DEF ReserveRefused, state, history
  <2>2. CASE ReserveBlocked(req)
    <3>1. /\ granted' = granted /\ now' = now
          /\ principalWindows' = [k \in PrincipalKeys |-> PurgedWindow(principalWindows[k])]
          /\ tenantWindows' = [t \in Tenants |-> PurgedWindow(tenantWindows[t])]
      BY <2>2 DEF ReserveBlocked, history
    <3> QED
      BY <3>1, PurgeKeepsRates DEF RatesRecorded, GrantsOfPrincipal, GrantsOfTenant
  <2>3. CASE ReserveGranted(req)
    BY <2>3, GrantedRates
  <2> QED
    BY <1>2, <2>1, <2>2, <2>3 DEF Reserve
<1>3. ASSUME NEW id \in 0 .. MaxLeases - 1, CompleteUnknown(id) PROVE RatesRecorded'
  BY <1>0, <1>1, <1>3 DEF CompleteUnknown, state, history
<1>4. ASSUME NEW l \in leases, NEW out \in Outputs, CompleteLease(l, out) PROVE RatesRecorded'
  BY <1>0, <1>1, <1>4 DEF CompleteLease
<1>5. ASSUME NEW l \in leases, Cancel(l) PROVE RatesRecorded'
  BY <1>0, <1>1, <1>5 DEF Cancel, history
<1>6. ASSUME NEW id \in 0 .. MaxLeases - 1, CancelUnknown(id) PROVE RatesRecorded'
  BY <1>0, <1>1, <1>6 DEF CancelUnknown, state, history
<1>7. CASE Tick
  BY <1>0, <1>1, <1>7 DEF Tick, state, history
<1>8. CASE UNCHANGED vars
  BY <1>0, <1>1, <1>8 DEF vars
<1> QED
  BY <1>2, <1>3, <1>4, <1>5, <1>6, <1>7, <1>8 DEF Next

\* A reserve is granted only while both of its windows are below their limits.
LEMMA RateGuards ==
    ASSUME TypeOK, NEW req \in Requests, StateFindings(req) = {}
    PROVE  /\ Len(PurgedWindow(principalWindows[PrincipalKey(req)]))
                < Policy["max_requests_per_principal_window"]
           /\ Len(PurgedWindow(tenantWindows[req.tenant]))
                < Policy["max_requests_per_tenant_window"]
<1>1. ~Replayed(req) /\ ~SessionsFull(req)
  BY Zenon DEF StateFindings
<1>2. RateFindings(req) = {}
  BY <1>1 DEF StateFindings, LimitFindings
<1>3. /\ ~(Len(PurgedWindow(principalWindows[PrincipalKey(req)]))
             >= Policy["max_requests_per_principal_window"])
      /\ ~(Len(PurgedWindow(tenantWindows[req.tenant]))
             >= Policy["max_requests_per_tenant_window"])
  BY <1>2 DEF RateFindings, Finding
<1>4. PrincipalKey(req) \in PrincipalKeys /\ req.tenant \in Tenants
  BY InputAssumption DEF PrincipalKey, PrincipalKeys, RequestType
<1>5. /\ Len(PurgedWindow(principalWindows[PrincipalKey(req)])) \in Nat
      /\ Len(PurgedWindow(tenantWindows[req.tenant])) \in Nat
  BY <1>4, PurgeTypes, LenProperties
<1>6. /\ Policy["max_requests_per_principal_window"] \in Nat
      /\ Policy["max_requests_per_tenant_window"] \in Nat
  BY PolicyNat DEF PolicyFields
<1> QED
  BY <1>3, <1>5, <1>6

\* The grants of a principal or a tenant in the window that ends with a grant.
PrincipalRate(g) ==
    {h \in granted : PrincipalKey(h) = PrincipalKey(g) /\ h.at <= g.at /\ h.at > g.at - W}
TenantRate(g) ==
    {h \in granted : h.tenant = g.tenant /\ h.at <= g.at /\ h.at > g.at - W}

LEMMA RateByGrant ==
    SlidingWindowRate <=>
      \A g \in granted :
         /\ Cardinality(PrincipalRate(g)) <= Policy["max_requests_per_principal_window"]
         /\ Cardinality(TenantRate(g)) <= Policy["max_requests_per_tenant_window"]
<1>1. ASSUME NEW g \in granted
      PROVE  /\ {h \in {h \in granted : h.at <= g.at /\ h.at > g.at - W} :
                   PrincipalKey(h) = PrincipalKey(g)} = PrincipalRate(g)
             /\ {h \in {h \in granted : h.at <= g.at /\ h.at > g.at - W} :
                   h.tenant = g.tenant} = TenantRate(g)
  BY DEF PrincipalRate, TenantRate
<1> QED
  BY <1>1, Zenon DEF SlidingWindowRate, W

\* A granted reserve leaves at most the allowed grants in every window: a window that
\* ends with an earlier grant gains the new one only if that grant was made now too.
LEMMA GrantedSlidingRate ==
    ASSUME IInv, RatesRecorded, SlidingWindowRate, NEW req \in Requests, ReserveGranted(req)
    PROVE  SlidingWindowRate'
<1> DEFINE n == Grant(req)
           pk == PrincipalKey(req)
           P == {g \in GrantsOfPrincipal(pk) : g.at > now - W}
           T == {g \in GrantsOfTenant(req.tenant) : g.at > now - W}
<1>1. /\ granted' = granted \cup {n} /\ now \in Nat
      /\ StateFindings(req) = {}
  BY DEF ReserveGranted, IInv, TypeOK
<1>2. n.at = now /\ n.tenant = req.tenant /\ PrincipalKey(n) = pk
  BY DEF Grant, PrincipalKey
<1>3. pk \in PrincipalKeys /\ req.tenant \in Tenants
  BY InputAssumption DEF PrincipalKey, PrincipalKeys, RequestType
<1>4. \A g \in granted : g.at \in Nat /\ g.at <= now
  BY DEF IInv, TypeOK, GrantType, SeenComplete
<1>5. /\ Policy["max_requests_per_principal_window"] \in Nat
      /\ Policy["max_requests_per_tenant_window"] \in Nat
  BY PolicyNat DEF PolicyFields
<1>6. Cardinality(P \cup {n}) <= Policy["max_requests_per_principal_window"]
  <2> DEFINE w == PurgedWindow(principalWindows[pk])
             G == GrantsOfPrincipal(pk)
  <2>1. /\ w \in Seq(Nat) /\ Len(w) < Policy["max_requests_per_principal_window"]
        /\ IsFiniteSet(G) /\ Recorded(G, w, now)
    BY <1>1, <1>3, PurgeTypes, RateGuards, PurgeKeepsRates DEF IInv
  <2>2. \A g \in G : g.at \in Nat /\ g.at <= now
    BY <1>4 DEF GrantsOfPrincipal
  <2> HIDE DEF G, w, n
  <2> QED
    BY <1>1, <1>5, <2>1, <2>2, WindowBound DEF G
<1>7. Cardinality(T \cup {n}) <= Policy["max_requests_per_tenant_window"]
  <2> DEFINE w == PurgedWindow(tenantWindows[req.tenant])
             G == GrantsOfTenant(req.tenant)
  <2>1. /\ w \in Seq(Nat) /\ Len(w) < Policy["max_requests_per_tenant_window"]
        /\ IsFiniteSet(G) /\ Recorded(G, w, now)
    BY <1>1, <1>3, PurgeTypes, RateGuards, PurgeKeepsRates DEF IInv
  <2>2. \A g \in G : g.at \in Nat /\ g.at <= now
    BY <1>4 DEF GrantsOfTenant
  <2> HIDE DEF G, w, n
  <2> QED
    BY <1>1, <1>5, <2>1, <2>2, WindowBound DEF G
<1> HIDE DEF n
<1>8. ASSUME NEW g \in granted'
      PROVE  /\ PrincipalRate(g)' = IF g.at = now /\ PrincipalKey(g) = pk
                                    THEN P \cup {n} ELSE PrincipalRate(g)
             /\ TenantRate(g)' = IF g.at = now /\ g.tenant = req.tenant
                                 THEN T \cup {n} ELSE TenantRate(g)
  <2>1. g.at \in Nat /\ g.at <= now /\ (g.at < now => g \in granted)
    BY <1>1, <1>2, <1>4, <1>8
  <2>2. \A h \in granted : h.at \in Nat /\ h.at <= now
    BY <1>4
  <2>3. n.at = now /\ now > now - W
    BY <1>1, <1>2, WindowNat
  <2>4. PrincipalRate(g)' = {h \in granted \cup {n} : PrincipalKey(h) = PrincipalKey(g)
                               /\ h.at <= g.at /\ h.at > g.at - W}
    BY <1>1 DEF PrincipalRate, PrincipalKey, W
  <2>5. TenantRate(g)' = {h \in granted \cup {n} : h.tenant = g.tenant
                               /\ h.at <= g.at /\ h.at > g.at - W}
    BY <1>1 DEF TenantRate, W
  <2>6. PrincipalRate(g)' = IF g.at = now /\ PrincipalKey(g) = pk
                            THEN P \cup {n} ELSE PrincipalRate(g)
    <3>1. CASE g.at = now /\ PrincipalKey(g) = pk
      <4>1. P = {h \in granted : PrincipalKey(h) = PrincipalKey(g)
                                  /\ h.at <= g.at /\ h.at > g.at - W}
        BY <2>2, <3>1 DEF GrantsOfPrincipal
      <4>2. PrincipalKey(n) = PrincipalKey(g) /\ n.at <= g.at /\ n.at > g.at - W
        BY <1>1, <1>2, <2>3, <3>1
      <4> QED
        BY <2>4, <3>1, <4>1, <4>2
    <3>2. CASE ~(g.at = now /\ PrincipalKey(g) = pk)
      BY <1>1, <1>2, <2>1, <2>2, <2>4, <3>2 DEF PrincipalRate
    <3> QED
      BY <3>1, <3>2
  <2>7. TenantRate(g)' = IF g.at = now /\ g.tenant = req.tenant
                         THEN T \cup {n} ELSE TenantRate(g)
    <3>1. CASE g.at = now /\ g.tenant = req.tenant
      <4>1. T = {h \in granted : h.tenant = g.tenant /\ h.at <= g.at /\ h.at > g.at - W}
        BY <2>2, <3>1 DEF GrantsOfTenant
      <4>2. n.tenant = g.tenant /\ n.at <= g.at /\ n.at > g.at - W
        BY <1>1, <1>2, <2>3, <3>1
      <4> QED
        BY <2>5, <3>1, <4>1, <4>2
    <3>2. CASE ~(g.at = now /\ g.tenant = req.tenant)
      BY <1>1, <1>2, <2>1, <2>2, <2>5, <3>2 DEF TenantRate
    <3> QED
      BY <3>1, <3>2
  <2> QED
    BY <2>6, <2>7
<1>9. \A g \in granted :
         /\ Cardinality(PrincipalRate(g)) <= Policy["max_requests_per_principal_window"]
         /\ Cardinality(TenantRate(g)) <= Policy["max_requests_per_tenant_window"]
  BY RateByGrant
<1> HIDE DEF P, T
<1>10. ASSUME NEW g \in granted'
       PROVE  /\ Cardinality(PrincipalRate(g)') <= Policy["max_requests_per_principal_window"]
              /\ Cardinality(TenantRate(g)') <= Policy["max_requests_per_tenant_window"]
  <2>1. CASE g \in granted
    BY <2>1, <1>6, <1>7, <1>8, <1>9
  <2>2. CASE g = n
    BY <2>2, <1>2, <1>6, <1>7, <1>8, <1>10
  <2> QED
    BY <1>1, <2>1, <2>2
<1>11. (\A g \in granted :
           /\ Cardinality(PrincipalRate(g)) <= Policy["max_requests_per_principal_window"]
           /\ Cardinality(TenantRate(g)) <= Policy["max_requests_per_tenant_window"])'
  BY <1>10
<1> QED
  BY <1>11, RateByGrant, PTL

\* Every step keeps the sliding windows within their limits.
LEMMA SlidingRateStep == IInv /\ RatesRecorded /\ SlidingWindowRate /\ [Next]_vars => SlidingWindowRate'
<1> SUFFICES ASSUME IInv, RatesRecorded, SlidingWindowRate, [Next]_vars PROVE SlidingWindowRate'
  OBVIOUS
<1>1. ASSUME granted' = granted PROVE SlidingWindowRate'
  BY <1>1 DEF SlidingWindowRate, PrincipalKey
<1>2. ASSUME NEW req \in Requests, Reserve(req) PROVE SlidingWindowRate'
  BY <1>1, <1>2, GrantedSlidingRate DEF Reserve, ReserveRefused, ReserveBlocked, history
<1> QED
  BY <1>1, <1>2 DEF Next, CompleteUnknown, CompleteLease, Cancel, CancelUnknown, Tick, vars, history

\* However grants are spread over sessions and windows are trimmed, every sliding window
\* of a principal and of a tenant contains at most the allowed number of grants.
THEOREM RatesBounded == Spec => []SlidingWindowRate
<1>1. Init => RatesRecorded /\ SlidingWindowRate
  <2> SUFFICES ASSUME Init PROVE RatesRecorded /\ SlidingWindowRate
    OBVIOUS
  <2>1. granted = {} /\ IsFiniteSet({}) /\ Cardinality({}) = 0
    BY FS_EmptySet DEF Init
  <2>2. ASSUME NEW G, G = {}, NEW c \in Int
        PROVE  Cardinality({g \in G : g.at > c}) <= CountIn(<<>>, {x \in Nat : x > c})
    <3>1. {g \in G : g.at > c} = {}
      BY <2>2
    <3>2. CountIn(<<>>, {x \in Nat : x > c}) \in Nat
      BY CountInBounds, <<>> \in Seq(Nat)
    <3> HIDE DEF CountIn
    <3> QED
      BY <2>1, <3>1, <3>2, Cardinality({}) <= CountIn(<<>>, {x \in Nat : x > c})
  <2>3. \A G : G = {} => Recorded(G, <<>>, now)
    BY <2>2 DEF Recorded
  <2>4. RatesRecorded
    <3>1. /\ \A k \in PrincipalKeys : GrantsOfPrincipal(k) = {} /\ principalWindows[k] = <<>>
          /\ \A t \in Tenants : GrantsOfTenant(t) = {} /\ tenantWindows[t] = <<>>
      BY DEF Init, GrantsOfPrincipal, GrantsOfTenant
    <3> QED
      BY <2>1, <2>3, <3>1 DEF RatesRecorded
  <2> QED
    BY <2>1, <2>4 DEF SlidingWindowRate
<1> QED
  BY <1>1, Inductive, RatesStep, SlidingRateStep, PTL DEF Spec
-----------------------------------------------------------------------------
(* The lives of a session *)

Timeout == Policy["lease_timeout_seconds"]

\* Of the grants G, those to session k in its life from b on, those of them that are tool
\* actions, and those that are tries of operation o.
OfLife(G, k, b) == {h \in G : SessionKey(h) = k /\ h.born = b}
ToolsOfLife(G, k, b) ==
    {h \in G : SessionKey(h) = k /\ h.born = b /\ h.kind = "tool"}
TriesOfLife(G, k, b, o) ==
    {h \in G : SessionKey(h) = k /\ h.born = b /\ h.operation = o}

\* A life that began at b and a grant g of an earlier life: the life of g and the lease
\* taken by it were over at b.
Over(g, b) == b >= g.born + D /\ b >= g.at + Timeout

\* What the tracked sessions know about the grants: a tracked session counts the grants
\* of its present life, every earlier life is over, and so is every life of a session
\* that is not tracked any more. Grants carry the ids of their leases.
LivesRecorded ==
    /\ \A k \in DOMAIN sessions :
         /\ sessions[k].first_seen <= now
         /\ sessions[k].tokens_reserved = TokensOf(OfLife(granted, k, sessions[k].first_seen))
         /\ sessions[k].tool_actions = Cardinality(ToolsOfLife(granted, k, sessions[k].first_seen))
         /\ \A o \in Operations :
              sessions[k].attempts[o] = Cardinality(TriesOfLife(granted, k, sessions[k].first_seen, o))
    /\ \A g \in granted :
         /\ g.lease_id < nextLease
         /\ g.born <= g.at
         /\ IF SessionKey(g) \in DOMAIN sessions
            THEN \/ g.born = sessions[SessionKey(g)].first_seen
                 \/ g.born < sessions[SessionKey(g)].first_seen
                      /\ Over(g, sessions[SessionKey(g)].first_seen)
            ELSE Over(g, now)

\* The budgets of every life, counted by session key and beginning.
CallsWithin ==
    \A g \in granted :
        /\ TokensOf(OfLife(granted, SessionKey(g), g.born)) <= Policy["max_session_tokens"]
        /\ Cardinality(ToolsOfLife(granted, SessionKey(g), g.born)) <= Policy["max_tool_actions_per_session"]
        /\ Cardinality(TriesOfLife(granted, SessionKey(g), g.born, g.operation))
             <= Policy["max_retries_per_operation"] + 1

SessionIInv ==
    /\ IsFiniteSet(granted) /\ IsFiniteSet(Units(granted))
    /\ LivesRecorded
    /\ CallsWithin
    /\ LivesSeparate

\* The purge forgets a session only when its present life and the leases taken in it are over.
LEMMA PurgeEndsLives ==
    ASSUME IInv, LivesRecorded, LivesSeparate
    PROVE  \A g \in granted :
             IF SessionKey(g) \in DOMAIN PurgedSessions
             THEN \/ g.born = PurgedSessions[SessionKey(g)].first_seen
                  \/ g.born < PurgedSessions[SessionKey(g)].first_seen
                       /\ Over(g, PurgedSessions[SessionKey(g)].first_seen)
             ELSE Over(g, now)
<1> SUFFICES ASSUME NEW g \in granted
             PROVE  IF SessionKey(g) \in DOMAIN PurgedSessions
                    THEN \/ g.born = PurgedSessions[SessionKey(g)].first_seen
                         \/ g.born < PurgedSessions[SessionKey(g)].first_seen
                              /\ Over(g, PurgedSessions[SessionKey(g)].first_seen)
                    ELSE Over(g, now)
  OBVIOUS
<1> DEFINE k == SessionKey(g)
<1>1. /\ g.born \in Nat /\ g.at \in Nat /\ now \in Nat
      /\ D \in Nat /\ Timeout \in Nat
  BY PolicyNat DEF IInv, TypeOK, GrantType, Timeout, PolicyFields
<1>2. CASE k \in DOMAIN PurgedSessions
  <2>1. k \in DOMAIN sessions /\ PurgedSessions[k] = sessions[k]
    BY <1>2 DEF PurgedSessions
  <2> QED
    BY <1>2, <2>1 DEF LivesRecorded
<1>3. CASE k \notin DOMAIN sessions
  <2>1. k \notin DOMAIN PurgedSessions
    BY <1>3 DEF PurgedSessions
  <2> QED
    BY <1>3, <2>1 DEF LivesRecorded
<1>4. CASE k \in DOMAIN sessions /\ k \notin DOMAIN PurgedSessions
  <2> DEFINE b == sessions[k].first_seen
  <2>1. ~(now - b < D + Timeout)
    BY <1>4 DEF PurgedSessions, D, Timeout
  <2>2. b \in Nat /\ b <= now
    BY <1>4 DEF IInv, TypeOK, SessionType, LivesRecorded
  <2>3. g.born = b \/ Over(g, b)
    BY <1>4 DEF LivesRecorded
  <2>4. g.at < g.born + D
    BY DEF LivesSeparate, D
  <2> HIDE DEF b
  <2>5. Over(g, now)
    BY <1>1, <2>1, <2>2, <2>3, <2>4 DEF Over
  <2> QED
    BY <1>4, <2>5
<1> QED
  BY <1>2, <1>3, <1>4

\* Nothing is reserved by no grants.
LEMMA NoUnits == Units({}) = {} /\ IsFiniteSet(Units({})) /\ TokensOf({}) = 0
<1>1. Units({}) = {}
  BY Zenon DEF Units
<1> QED
  BY <1>1, FS_EmptySet DEF TokensOf

\* Each of the first n numbers belongs to one unit of a grant of n tokens.
LEMMA UnitsOfOne ==
    ASSUME NEW g, NEW n \in Nat
    PROVE  IsFiniteSet({g} \X (1..n)) /\ Cardinality({g} \X (1..n)) = n
<1> DEFINE f == [i \in 1..n |-> <<g, i>>]
<1>1. f \in Bijection(1..n, {g} \X (1..n))
  <2>1. f \in [1..n -> {g} \X (1..n)] /\ \A i \in 1..n : f[i] = <<g, i>>
    OBVIOUS
  <2>2. \A i, j \in 1..n : <<g, i>> = <<g, j>> => i = j
    OBVIOUS
  <2>3. \A u \in {g} \X (1..n) : \E i \in 1..n : u = <<g, i>>
    OBVIOUS
  <2> HIDE DEF f
  <2>4. f \in Injection(1..n, {g} \X (1..n))
    BY <2>1, <2>2 DEF Injection, IsInjective
  <2>5. f \in Surjection(1..n, {g} \X (1..n))
    BY <2>1, <2>3 DEF Surjection
  <2> QED
    BY <2>4, <2>5 DEF Bijection
<1>2. ExistsBijection(1..n, {g} \X (1..n))
  BY <1>1 DEF ExistsBijection
<1>3. IsFiniteSet(1..n) /\ Cardinality(1..n) = n
  BY FS_Interval
<1> QED
  BY <1>2, <1>3, FS_Bijection

\* One more grant reserves its tokens and no others.
LEMMA UnitsAdded ==
    ASSUME NEW G, NEW g, g \notin G, g.tokens \in Nat, IsFiniteSet(Units(G))
    PROVE  /\ IsFiniteSet(Units(G \cup {g}))
           /\ TokensOf(G \cup {g}) = TokensOf(G) + g.tokens
           /\ TokensOf(G) \in Nat
<1> DEFINE U == {g} \X (1..g.tokens)
<1>1. Units(G \cup {g}) = Units(G) \cup U
  <2> DEFINE UnitsOf(h) == {h} \X (1..h.tokens)
  <2>1. Units(G) = UNION {UnitsOf(h) : h \in G} /\ U = UnitsOf(g)
    BY DEF Units
  <2>2. Units(G \cup {g}) = UNION {UnitsOf(h) : h \in G \cup {g}}
    BY DEF Units
  <2> HIDE DEF UnitsOf, U
  <2> QED
    BY <2>1, <2>2, Zenon
<1>2. Units(G) \cap U = {}
  <2>1. SUFFICES ASSUME NEW u \in Units(G), u \in U PROVE FALSE
    BY Zenon
  <2>2. PICK h \in G : u \in {h} \X (1..h.tokens)
    BY <2>1 DEF Units
  <2>3. u[1] = h /\ u[1] = g
    BY <2>1, <2>2
  <2> QED
    BY <2>2, <2>3
<1>3. IsFiniteSet(U) /\ Cardinality(U) = g.tokens
  BY UnitsOfOne
<1> HIDE DEF U
<1>4. Cardinality(Units(G)) \in Nat /\ Cardinality({}) = 0
  BY FS_CardinalityType, FS_EmptySet
<1> DEFINE V == Units(G)
<1>5. IsFiniteSet(V) /\ V \cap U = {} /\ Cardinality(V) \in Nat
  BY <1>2, <1>4
<1> HIDE DEF V
<1>6. /\ IsFiniteSet(V \cup U)
      /\ Cardinality(V \cup U) = Cardinality(V) + Cardinality(U) - Cardinality(V \cap U)
  BY <1>3, <1>5, FS_Union, Zenon
<1>7. Cardinality(V \cap U) = 0
  BY <1>4, <1>5
<1>8. Cardinality(V \cup U) = Cardinality(V) + g.tokens
  BY <1>3, <1>5, <1>6, <1>7
<1>9. TokensOf(G) = Cardinality(V) /\ TokensOf(G \cup {g}) = Cardinality(V \cup U)
  BY <1>1 DEF TokensOf, V
<1> QED
  BY <1>1, <1>5, <1>6, <1>8, <1>9 DEF V

\* Fewer grants reserve fewer tokens.
LEMMA UnitsOfSome ==
    ASSUME NEW G, NEW H \in SUBSET G, IsFiniteSet(Units(G))
    PROVE  IsFiniteSet(Units(H))
<1>1. Units(H) \in SUBSET Units(G)
  BY DEF Units
<1> QED
  BY <1>1, FS_Subset

\* A grant of req is charged to the present life of its session, which counts it.
LEMMA ChargedLife ==
    ASSUME IInv, IsFiniteSet(granted), LivesRecorded, LivesSeparate, NEW req \in Requests
    PROVE  LET k == SessionKey(req)
               s == SessionOf(req)
           IN  /\ s.first_seen \in Nat /\ s.first_seen <= now
               /\ s.tokens_reserved = TokensOf(OfLife(granted, k, s.first_seen))
               /\ s.tool_actions = Cardinality(ToolsOfLife(granted, k, s.first_seen))
               /\ \A o \in Operations :
                    s.attempts[o] = Cardinality(TriesOfLife(granted, k, s.first_seen, o))
               /\ \A g \in granted : SessionKey(g) = k =>
                    g.born = s.first_seen \/ (g.born < s.first_seen /\ Over(g, s.first_seen))
<1> DEFINE k == SessionKey(req)
           s == SessionOf(req)
<1>1. now \in Nat /\ s.first_seen \in Nat
  BY ChargedSessionType DEF IInv, TypeOK
<1>2. CASE k \in DOMAIN PurgedSessions
  <2>1. k \in DOMAIN sessions /\ s = sessions[k] /\ PurgedSessions[k] = sessions[k]
    BY <1>2 DEF PurgedSessions, SessionOf
  <2>2. \A g \in granted : SessionKey(g) = k =>
          g.born = s.first_seen \/ (g.born < s.first_seen /\ Over(g, s.first_seen))
    BY <1>2, <2>1, PurgeEndsLives
  <2> QED
    BY <1>1, <2>1, <2>2 DEF LivesRecorded
<1>3. CASE k \notin DOMAIN PurgedSessions
  <2>1. /\ s.first_seen = now /\ s.tool_actions = 0 /\ s.tokens_reserved = 0
        /\ \A o \in Operations : s.attempts[o] = 0
    BY <1>3 DEF SessionOf, FreshSession
  <2>2. \A g \in granted : SessionKey(g) = k => Over(g, now)
    BY <1>3, PurgeEndsLives
  <2>3. \A g \in granted : SessionKey(g) = k => g.born < now
    BY <1>1, <2>2, PolicyNat DEF Over, IInv, TypeOK, GrantType
  <2>4. /\ ToolsOfLife(granted, k, now) = {} /\ \A o : TriesOfLife(granted, k, now, o) = {}
        /\ OfLife(granted, k, now) = {}
    BY <2>3, <1>1 DEF ToolsOfLife, TriesOfLife, OfLife, IInv, TypeOK, GrantType
  <2>5. Cardinality({}) = 0 /\ TokensOf({}) = 0
    BY NoUnits, FS_EmptySet
  <2> HIDE DEF k, s
  <2> QED
    BY <1>1, <2>1, <2>2, <2>3, <2>4, <2>5 DEF k, s
<1> QED
  BY <1>2, <1>3

\* A reserve is granted only within the duration and the budgets of its session.
LEMMA SessionGuards ==
    ASSUME TypeOK, NEW req \in Requests, StateFindings(req) = {}
    PROVE  /\ ~(now - SessionOf(req).first_seen >= D)
           /\ ~(SessionOf(req).attempts[req.operation] > Policy["max_retries_per_operation"])
           /\ ~(NextToolActions(req) > Policy["max_tool_actions_per_session"])
           /\ ~(SessionOf(req).tokens_reserved + ReservedTokens(req) > Policy["max_session_tokens"])
<1>1. ~Replayed(req) /\ ~SessionsFull(req)
  BY Zenon DEF StateFindings
<1>2. SessionFindings(req) = {}
  BY <1>1 DEF StateFindings, LimitFindings
<1> QED
  BY <1>2 DEF SessionFindings, Finding, D

\* A granted reserve is counted in the present life of its session and in no other.
LEMMA GrantedCounts ==
    ASSUME IInv, IsFiniteSet(granted), LivesRecorded, NEW req \in Requests, ReserveGranted(req)
    PROVE  LET n == Grant(req) IN
           /\ IsFiniteSet(granted')
           /\ \A k, b :
                Cardinality(ToolsOfLife(granted', k, b))
                  = Cardinality(ToolsOfLife(granted, k, b))
                      + (IF k = SessionKey(req) /\ b = n.born /\ req.kind = "tool" THEN 1 ELSE 0)
           /\ \A k, b, o :
                Cardinality(TriesOfLife(granted', k, b, o))
                  = Cardinality(TriesOfLife(granted, k, b, o))
                      + (IF k = SessionKey(req) /\ b = n.born /\ o = req.operation THEN 1 ELSE 0)
           /\ \A k, b : Cardinality(ToolsOfLife(granted, k, b)) \in Nat
           /\ \A k, b, o : Cardinality(TriesOfLife(granted, k, b, o)) \in Nat
<1> DEFINE n == Grant(req)
<1>1. granted' = granted \cup {n}
  BY DEF ReserveGranted
<1>2. /\ SessionKey(n) = SessionKey(req) /\ n.kind = req.kind /\ n.operation = req.operation
      /\ n.lease_id = nextLease
  BY DEF Grant, SessionKey
<1>3. n \notin granted
  BY <1>2 DEF LivesRecorded, IInv, TypeOK
<1> HIDE DEF n
<1>4. ASSUME NEW k, NEW b
      PROVE  /\ Cardinality(ToolsOfLife(granted', k, b))
                  = Cardinality(ToolsOfLife(granted, k, b))
                      + (IF k = SessionKey(req) /\ b = n.born /\ req.kind = "tool" THEN 1 ELSE 0)
             /\ Cardinality(ToolsOfLife(granted, k, b)) \in Nat
  <2> DEFINE A == ToolsOfLife(granted, k, b)
  <2>1. A \in SUBSET granted
    BY DEF ToolsOfLife
  <2>2. ToolsOfLife(granted', k, b) = IF k = SessionKey(req) /\ b = n.born /\ req.kind = "tool"
                             THEN A \cup {n} ELSE A
    BY <1>1, <1>2 DEF ToolsOfLife, SessionKey
  <2> HIDE DEF A
  <2>3. IsFiniteSet(A) /\ Cardinality(A) \in Nat
    BY <2>1, FS_Subset, FS_CardinalityType
  <2>4. Cardinality(A \cup {n}) = Cardinality(A) + 1
    BY <1>3, <2>1, <2>3, FS_AddElement
  <2> QED
    BY <2>2, <2>3, <2>4 DEF A
<1>5. ASSUME NEW k, NEW b, NEW o
      PROVE  /\ Cardinality(TriesOfLife(granted', k, b, o))
                  = Cardinality(TriesOfLife(granted, k, b, o))
                      + (IF k = SessionKey(req) /\ b = n.born /\ o = req.operation THEN 1 ELSE 0)
             /\ Cardinality(TriesOfLife(granted, k, b, o)) \in Nat
  <2> DEFINE A == TriesOfLife(granted, k, b, o)
  <2>1. A \in SUBSET granted
    BY DEF TriesOfLife
  <2>2. TriesOfLife(granted', k, b, o) = IF k = SessionKey(req) /\ b = n.born /\ o = req.operation
                                THEN A \cup {n} ELSE A
    BY <1>1, <1>2 DEF TriesOfLife, SessionKey
  <2> HIDE DEF A
  <2>3. IsFiniteSet(A) /\ Cardinality(A) \in Nat
    BY <2>1, FS_Subset, FS_CardinalityType
  <2>4. Cardinality(A \cup {n}) = Cardinality(A) + 1
    BY <1>3, <2>1, <2>3, FS_AddElement
  <2> QED
    BY <2>2, <2>3, <2>4 DEF A
<1>6. IsFiniteSet(granted')
  BY <1>1, FS_AddElement
<1> QED
  BY <1>4, <1>5, <1>6 DEF n

\* Its tokens are reserved in the present life of its session and in no other.
LEMMA GrantedTokens ==
    ASSUME IInv, SessionIInv, NEW req \in Requests, ReserveGranted(req)
    PROVE  /\ IsFiniteSet(Units(granted'))
           /\ \A k, b :
                /\ TokensOf(OfLife(granted', k, b))
                     = TokensOf(OfLife(granted, k, b))
                         + (IF k = SessionKey(req) /\ b = Grant(req).born THEN ReservedTokens(req) ELSE 0)
                /\ TokensOf(OfLife(granted, k, b)) \in Nat
<1> DEFINE n == Grant(req)
<1>1. granted' = granted \cup {n}
  BY DEF ReserveGranted
<1>2. SessionKey(n) = SessionKey(req) /\ n.tokens = ReservedTokens(req) /\ n.lease_id = nextLease
  BY DEF Grant, SessionKey
<1>3. n \notin granted
  BY <1>2 DEF SessionIInv, LivesRecorded, IInv, TypeOK
<1>4. n.tokens \in Nat
  BY <1>2, InputAssumption DEF RequestType, ReservedTokens
<1> HIDE DEF n
<1>5. IsFiniteSet(Units(granted')) /\ IsFiniteSet(Units(granted))
  BY <1>1, <1>3, <1>4, UnitsAdded DEF SessionIInv
<1>6. ASSUME NEW k, NEW b
      PROVE  /\ TokensOf(OfLife(granted', k, b))
                  = TokensOf(OfLife(granted, k, b))
                      + (IF k = SessionKey(req) /\ b = n.born THEN ReservedTokens(req) ELSE 0)
             /\ TokensOf(OfLife(granted, k, b)) \in Nat
  <2> DEFINE A == OfLife(granted, k, b)
  <2>1. A \in SUBSET granted
    BY DEF OfLife
  <2>2. OfLife(granted', k, b) = IF k = SessionKey(req) /\ b = n.born THEN A \cup {n} ELSE A
    BY <1>1, <1>2 DEF OfLife, SessionKey
  <2> HIDE DEF A
  <2>3. IsFiniteSet(Units(A)) /\ n \notin A
    BY <1>3, <1>5, <2>1, UnitsOfSome
  <2>4. TokensOf(A \cup {n}) = TokensOf(A) + n.tokens /\ TokensOf(A) \in Nat
    BY <1>4, <2>3, UnitsAdded
  <2> QED
    BY <1>2, <2>2, <2>4 DEF A
<1> QED
  BY <1>5, <1>6 DEF n

\* A granted reserve keeps the count of every life and lets none of them overlap.
LEMMA GrantedLives ==
    ASSUME IInv, SessionIInv, NEW req \in Requests, ReserveGranted(req)
    PROVE  SessionIInv'
<1> DEFINE n == Grant(req)
           s == SessionOf(req)
           key == SessionKey(req)
<1> USE DEF SessionIInv
<1>1. /\ granted' = granted \cup {n} /\ now' = now /\ nextLease' = nextLease + 1
      /\ DOMAIN sessions' = DOMAIN PurgedSessions \cup {key}
      /\ sessions'[key] = ChargedSession(req)
      /\ \A k \in DOMAIN PurgedSessions : k # key => sessions'[k] = sessions[k] /\ k \in DOMAIN sessions
      /\ StateFindings(req) = {}
  BY DEF ReserveGranted, PurgedSessions
<1>2. /\ now \in Nat /\ nextLease \in Nat /\ D \in Nat /\ D >= 1
      /\ \A g \in granted : g.at \in Nat /\ g.born \in Nat /\ g.lease_id \in Nat /\ g.at <= now
      /\ \A g \in granted : g.operation \in Operations
      /\ req.operation \in Operations
  BY PolicyNat, InputAssumption DEF IInv, TypeOK, GrantType, SeenComplete, RequestType
<1>3. /\ SessionKey(n) = key /\ n.born = s.first_seen /\ n.at = now /\ n.kind = req.kind
      /\ n.operation = req.operation /\ n.lease_id = nextLease
  BY DEF Grant, SessionKey
<1>4. /\ s.first_seen \in Nat /\ s.first_seen <= now
      /\ s.tokens_reserved = TokensOf(OfLife(granted, key, s.first_seen))
      /\ s.tool_actions = Cardinality(ToolsOfLife(granted, key, s.first_seen))
      /\ \A o \in Operations : s.attempts[o] = Cardinality(TriesOfLife(granted, key, s.first_seen, o))
      /\ \A g \in granted : SessionKey(g) = key =>
           g.born = s.first_seen \/ (g.born < s.first_seen /\ Over(g, s.first_seen))
  BY ChargedLife
<1>5. /\ ChargedSession(req).first_seen = s.first_seen
      /\ ChargedSession(req).tokens_reserved = s.tokens_reserved + ReservedTokens(req)
      /\ ChargedSession(req).tool_actions
           = s.tool_actions + (IF req.kind = "tool" THEN 1 ELSE 0)
      /\ \A o \in Operations : ChargedSession(req).attempts[o]
           = s.attempts[o] + (IF o = req.operation THEN 1 ELSE 0)
  <2>1. s \in SessionType
    <3>1. FreshSession \in SessionType
      BY DEF FreshSession, SessionType, IInv, TypeOK
    <3> QED
      BY <3>1, PurgeTypes DEF SessionOf, IInv
  <2>2. s.attempts \in [Operations -> Nat] /\ s.tool_actions \in Nat
    BY <2>1 DEF SessionType
  <2> HIDE DEF s
  <2>3. ChargedSession(req) =
          [first_seen |-> s.first_seen,
           tokens_reserved |-> s.tokens_reserved + ReservedTokens(req),
           tool_actions |-> s.tool_actions + (IF req.kind = "tool" THEN 1 ELSE 0),
           attempts |-> [s.attempts EXCEPT ![req.operation] = @ + 1]]
    BY DEF ChargedSession, NextToolActions, s
  <2>4. \A o \in Operations :
          [s.attempts EXCEPT ![req.operation] = @ + 1][o]
            = s.attempts[o] + (IF o = req.operation THEN 1 ELSE 0)
    BY <1>2, <2>2
  <2> QED
    BY <2>3, <2>4
<1>6. /\ ~(now - s.first_seen >= D)
      /\ ~(s.attempts[req.operation] > Policy["max_retries_per_operation"])
      /\ ~(s.tool_actions + (IF req.kind = "tool" THEN 1 ELSE 0)
             > Policy["max_tool_actions_per_session"])
      /\ ~(s.tokens_reserved + ReservedTokens(req) > Policy["max_session_tokens"])
  BY <1>1, SessionGuards DEF IInv, NextToolActions
<1>7. /\ IsFiniteSet(granted')
      /\ \A k, b :
           Cardinality(ToolsOfLife(granted', k, b))
             = Cardinality(ToolsOfLife(granted, k, b))
                 + (IF k = key /\ b = s.first_seen /\ req.kind = "tool" THEN 1 ELSE 0)
      /\ \A k, b, o :
           Cardinality(TriesOfLife(granted', k, b, o))
             = Cardinality(TriesOfLife(granted, k, b, o))
                 + (IF k = key /\ b = s.first_seen /\ o = req.operation THEN 1 ELSE 0)
      /\ \A k, b : Cardinality(ToolsOfLife(granted, k, b)) \in Nat
      /\ \A k, b, o : Cardinality(TriesOfLife(granted, k, b, o)) \in Nat
  BY <1>3, GrantedCounts
<1>7a. /\ IsFiniteSet(Units(granted'))
       /\ \A k, b :
            /\ TokensOf(OfLife(granted', k, b))
                 = TokensOf(OfLife(granted, k, b))
                     + (IF k = key /\ b = s.first_seen THEN ReservedTokens(req) ELSE 0)
            /\ TokensOf(OfLife(granted, k, b)) \in Nat
       /\ ReservedTokens(req) \in Nat /\ Policy["max_session_tokens"] \in Nat
  <2>1. ReservedTokens(req) \in Nat /\ Policy["max_session_tokens"] \in Nat
    BY InputAssumption, PolicyNat DEF RequestType, ReservedTokens, PolicyFields
  <2> QED
    BY <1>3, <2>1, GrantedTokens
<1>8. /\ Policy["max_tool_actions_per_session"] \in Nat
      /\ Policy["max_retries_per_operation"] \in Nat
  BY PolicyNat DEF PolicyFields
<1>9. \A g \in granted :
        IF SessionKey(g) \in DOMAIN PurgedSessions
        THEN \/ g.born = PurgedSessions[SessionKey(g)].first_seen
             \/ g.born < PurgedSessions[SessionKey(g)].first_seen
                  /\ Over(g, PurgedSessions[SessionKey(g)].first_seen)
        ELSE Over(g, now)
  BY PurgeEndsLives
<1>10. \A k \in DOMAIN PurgedSessions : k \in DOMAIN sessions /\ PurgedSessions[k] = sessions[k]
  BY DEF PurgedSessions
<1> HIDE DEF n, s, key
<1>11. \A k \in DOMAIN sessions' :
         /\ sessions'[k].first_seen <= now
         /\ sessions'[k].tokens_reserved = TokensOf(OfLife(granted', k, sessions'[k].first_seen))
         /\ sessions'[k].tool_actions = Cardinality(ToolsOfLife(granted', k, sessions'[k].first_seen))
         /\ \A o \in Operations :
              sessions'[k].attempts[o] = Cardinality(TriesOfLife(granted', k, sessions'[k].first_seen, o))
  <2> SUFFICES ASSUME NEW k \in DOMAIN sessions'
               PROVE  /\ sessions'[k].first_seen <= now
                      /\ sessions'[k].tokens_reserved = TokensOf(OfLife(granted', k, sessions'[k].first_seen))
                      /\ sessions'[k].tool_actions = Cardinality(ToolsOfLife(granted', k, sessions'[k].first_seen))
                      /\ \A o \in Operations :
                           sessions'[k].attempts[o]
                             = Cardinality(TriesOfLife(granted', k, sessions'[k].first_seen, o))
    OBVIOUS
  <2>1. CASE k = key
    <3>1. sessions'[k] = ChargedSession(req) /\ sessions'[k].first_seen = s.first_seen
      BY <2>1, <1>1, <1>5
    <3>2. Cardinality(ToolsOfLife(granted', k, s.first_seen))
            = Cardinality(ToolsOfLife(granted, k, s.first_seen))
                + (IF req.kind = "tool" THEN 1 ELSE 0)
      BY <2>1, <1>7
    <3>3. \A o \in Operations :
            Cardinality(TriesOfLife(granted', k, s.first_seen, o))
              = Cardinality(TriesOfLife(granted, k, s.first_seen, o))
                  + (IF o = req.operation THEN 1 ELSE 0)
      BY <2>1, <1>7
    <3>4. sessions'[k].tool_actions = Cardinality(ToolsOfLife(granted', k, s.first_seen))
      BY <2>1, <3>1, <3>2, <1>4, <1>5
    <3>5. \A o \in Operations :
            sessions'[k].attempts[o] = Cardinality(TriesOfLife(granted', k, s.first_seen, o))
      BY <2>1, <3>1, <3>3, <1>4, <1>5
    <3>6. sessions'[k].tokens_reserved = TokensOf(OfLife(granted', k, s.first_seen))
      BY <2>1, <3>1, <1>4, <1>5, <1>7a
    <3> QED
      BY <3>1, <3>4, <3>5, <3>6, <1>4
  <2>2. CASE k # key
    <3>1. k \in DOMAIN sessions /\ sessions'[k] = sessions[k]
      BY <2>2, <1>1
    <3> QED
      BY <2>2, <3>1, <1>7, <1>7a DEF LivesRecorded
  <2> QED
    BY <2>1, <2>2
<1>12. \A g \in granted' :
         /\ g.lease_id < nextLease'
         /\ g.born <= g.at
         /\ IF SessionKey(g) \in DOMAIN sessions'
            THEN \/ g.born = sessions'[SessionKey(g)].first_seen
                 \/ g.born < sessions'[SessionKey(g)].first_seen
                      /\ Over(g, sessions'[SessionKey(g)].first_seen)
            ELSE Over(g, now)
  <2> SUFFICES ASSUME NEW g \in granted'
               PROVE  /\ g.lease_id < nextLease'
                      /\ g.born <= g.at
                      /\ IF SessionKey(g) \in DOMAIN sessions'
                         THEN \/ g.born = sessions'[SessionKey(g)].first_seen
                              \/ g.born < sessions'[SessionKey(g)].first_seen
                                   /\ Over(g, sessions'[SessionKey(g)].first_seen)
                         ELSE Over(g, now)
    OBVIOUS
  <2>1. CASE g = n
    BY <2>1, <1>1, <1>2, <1>3, <1>4, <1>5
  <2>2. CASE g \in granted /\ SessionKey(g) = key
    <3>1. g.lease_id < nextLease /\ g.born <= g.at
      BY <2>2 DEF LivesRecorded
    <3> QED
      BY <2>2, <3>1, <1>1, <1>2, <1>4, <1>5
  <2>3. CASE g \in granted /\ SessionKey(g) # key
    <3>1. g.lease_id < nextLease /\ g.born <= g.at
      BY <2>3 DEF LivesRecorded
    <3>2. SessionKey(g) \in DOMAIN sessions' <=> SessionKey(g) \in DOMAIN PurgedSessions
      BY <2>3, <1>1
    <3> QED
      BY <2>3, <3>1, <3>2, <1>1, <1>2, <1>9, <1>10
  <2> QED
    BY <1>1, <2>1, <2>2, <2>3
<1>13. \A g \in granted' :
         /\ TokensOf(OfLife(granted', SessionKey(g), g.born)) <= Policy["max_session_tokens"]
         /\ Cardinality(ToolsOfLife(granted', SessionKey(g), g.born)) <= Policy["max_tool_actions_per_session"]
         /\ Cardinality(TriesOfLife(granted', SessionKey(g), g.born, g.operation))
              <= Policy["max_retries_per_operation"] + 1
  <2> SUFFICES ASSUME NEW g \in granted'
               PROVE  /\ TokensOf(OfLife(granted', SessionKey(g), g.born)) <= Policy["max_session_tokens"]
                      /\ Cardinality(ToolsOfLife(granted', SessionKey(g), g.born))
                           <= Policy["max_tool_actions_per_session"]
                      /\ Cardinality(TriesOfLife(granted', SessionKey(g), g.born, g.operation))
                           <= Policy["max_retries_per_operation"] + 1
    OBVIOUS
  <2>1. /\ Cardinality(ToolsOfLife(granted', key, s.first_seen)) <= Policy["max_tool_actions_per_session"]
        /\ Cardinality(TriesOfLife(granted', key, s.first_seen, req.operation))
             <= Policy["max_retries_per_operation"] + 1
        /\ TokensOf(OfLife(granted', key, s.first_seen)) <= Policy["max_session_tokens"]
    BY <1>2, <1>4, <1>6, <1>7, <1>8, <1>7a
  <2>2. CASE g = n
    BY <2>1, <2>2, <1>3
  <2>3. CASE g \in granted
    <3>1. /\ TokensOf(OfLife(granted, SessionKey(g), g.born)) <= Policy["max_session_tokens"]
          /\ Cardinality(ToolsOfLife(granted, SessionKey(g), g.born)) <= Policy["max_tool_actions_per_session"]
          /\ Cardinality(TriesOfLife(granted, SessionKey(g), g.born, g.operation))
               <= Policy["max_retries_per_operation"] + 1
      BY <2>3 DEF CallsWithin
    <3>2. CASE SessionKey(g) = key /\ g.born = s.first_seen
      BY <2>1, <3>1, <3>2, <1>7
    <3>3. CASE ~(SessionKey(g) = key /\ g.born = s.first_seen)
      BY <3>1, <3>3, <1>7, <1>7a
    <3> QED
      BY <3>2, <3>3
  <2> QED
    BY <1>1, <2>2, <2>3
<1>14. ASSUME NEW g \in granted'
       PROVE  /\ g.at < g.born + D
              /\ \A h \in granted' :
                   SessionKey(h) = SessionKey(g) /\ h.born > g.born => Over(g, h.born)
  <2>1. n.at < n.born + D
    BY <1>2, <1>3, <1>4, <1>6
  <2>2. g.at < g.born + D
    BY <1>1, <2>1 DEF LivesSeparate, D
  <2>3. ASSUME NEW h \in granted', SessionKey(h) = SessionKey(g), h.born > g.born
        PROVE  Over(g, h.born)
    <3>1. CASE g \in granted /\ h \in granted
      BY <2>3, <3>1 DEF LivesSeparate, Over, D, Timeout
    <3>2. CASE g \in granted /\ h = n
      <4>1. SessionKey(g) = key /\ s.first_seen > g.born /\ h.born = s.first_seen
        BY <2>3, <3>2, <1>3
      <4> QED
        BY <3>2, <4>1, <1>2, <1>4
    <3>3. CASE g = n /\ h \in granted
      <4>1. SessionKey(h) = key /\ h.born > s.first_seen
        BY <2>3, <3>3, <1>3
      <4>2. h.born = s.first_seen \/ h.born < s.first_seen
        BY <3>3, <4>1, <1>4
      <4> QED
        BY <3>3, <4>1, <4>2, <1>2, <1>4
    <3>4. CASE g = n /\ h = n
      <4>1. s.first_seen > s.first_seen
        BY <2>3, <3>4, <1>3
      <4> QED
        BY <4>1, <1>4
    <3> QED
      BY <1>1, <3>1, <3>2, <3>3, <3>4
  <2> QED
    BY <2>2, <2>3
<1>15. LivesRecorded'
  BY <1>1, <1>11, <1>12 DEF LivesRecorded, SessionKey, Over
<1>16. CallsWithin'
  BY <1>13 DEF CallsWithin, SessionKey
<1>17. LivesSeparate'
  BY <1>14 DEF LivesSeparate, Over, D, Timeout, SessionKey
<1> QED
  BY <1>7, <1>15, <1>16, <1>17, <1>7a

\* Every step keeps the lives of sessions recorded, bounded and separate.
LEMMA SessionStep == IInv /\ SessionIInv /\ [Next]_vars => SessionIInv'
<1> SUFFICES ASSUME IInv, SessionIInv, [Next]_vars PROVE SessionIInv'
  OBVIOUS
<1> USE DEF SessionIInv
<1>0. /\ now \in Nat /\ nextLease \in Nat
      /\ \A k \in DOMAIN sessions : sessions[k].first_seen \in Nat
      /\ \A g \in granted : g.at \in Nat /\ g.born \in Nat
      /\ D \in Nat /\ Timeout \in Nat
  BY PolicyNat DEF IInv, TypeOK, SessionType, GrantType, Timeout, PolicyFields
<1>1. ASSUME granted' = granted, sessions' = sessions, nextLease' = nextLease,
             now' \in Nat, now' >= now
      PROVE  SessionIInv'
  <2>1. \A g \in granted : Over(g, now) => Over(g, now')
    BY <1>0, <1>1 DEF Over
  <2>2. LivesRecorded'
    <3>1. \A k \in DOMAIN sessions : sessions[k].first_seen <= now'
      BY <1>0, <1>1 DEF LivesRecorded
    <3>2. \A g \in granted :
            IF SessionKey(g) \in DOMAIN sessions
            THEN \/ g.born = sessions[SessionKey(g)].first_seen
                 \/ g.born < sessions[SessionKey(g)].first_seen
                      /\ Over(g, sessions[SessionKey(g)].first_seen)
            ELSE Over(g, now')
      BY <2>1 DEF LivesRecorded
    <3> QED
      BY <1>1, <3>1, <3>2 DEF LivesRecorded, SessionKey, Over
  <2> QED
    BY <1>1, <2>2 DEF CallsWithin, LivesSeparate, SessionKey
<1>2. ASSUME NEW req \in Requests, Reserve(req) PROVE SessionIInv'
  <2>1. CASE ReserveRefused(req)
    BY <2>1, <1>0, <1>1 DEF ReserveRefused, state, history
  <2>2. CASE ReserveBlocked(req)
    <3>1. granted' = granted /\ sessions' = PurgedSessions /\ nextLease' = nextLease /\ now' = now
      BY <2>2 DEF ReserveBlocked, history
    <3>2. \A k \in DOMAIN PurgedSessions : k \in DOMAIN sessions /\ PurgedSessions[k] = sessions[k]
      BY DEF PurgedSessions
    <3>3. \A g \in granted :
            IF SessionKey(g) \in DOMAIN PurgedSessions
            THEN \/ g.born = PurgedSessions[SessionKey(g)].first_seen
                 \/ g.born < PurgedSessions[SessionKey(g)].first_seen
                      /\ Over(g, PurgedSessions[SessionKey(g)].first_seen)
            ELSE Over(g, now)
      BY PurgeEndsLives
    <3>4. LivesRecorded'
      BY <3>1, <3>2, <3>3 DEF LivesRecorded, SessionKey, Over
    <3> QED
      BY <3>1, <3>4 DEF CallsWithin, LivesSeparate, SessionKey
  <2>3. CASE ReserveGranted(req)
    BY <2>3, GrantedLives
  <2> QED
    BY <1>2, <2>1, <2>2, <2>3 DEF Reserve
<1>3. ASSUME NEW id \in 0 .. MaxLeases - 1, CompleteUnknown(id) PROVE SessionIInv'
  BY <1>0, <1>1, <1>3 DEF CompleteUnknown, state, history
<1>4. ASSUME NEW l \in leases, NEW out \in Outputs, CompleteLease(l, out) PROVE SessionIInv'
  BY <1>0, <1>1, <1>4 DEF CompleteLease
<1>5. ASSUME NEW l \in leases, Cancel(l) PROVE SessionIInv'
  BY <1>0, <1>1, <1>5 DEF Cancel, history
<1>6. ASSUME NEW id \in 0 .. MaxLeases - 1, CancelUnknown(id) PROVE SessionIInv'
  BY <1>0, <1>1, <1>6 DEF CancelUnknown, state, history
<1>7. CASE Tick
  BY <1>0, <1>1, <1>7 DEF Tick, state, history
<1>8. CASE UNCHANGED vars
  BY <1>0, <1>1, <1>8 DEF vars
<1> QED
  BY <1>2, <1>3, <1>4, <1>5, <1>6, <1>7, <1>8 DEF Next

\* The grants of one life of a session respect its token, tool and retry budgets, a session
\* starts a new life only after the old one and its leases are over, and is not forgotten
\* before, whatever is purged, replayed or lost.
THEOREM SessionsBounded == Spec => []SessionWithinBudget
<1>1. Init => SessionIInv
  <2>1. IsFiniteSet({}) /\ IsFiniteSet(Units({}))
    BY NoUnits, FS_EmptySet
  <2> QED
    BY <2>1 DEF Init, SessionIInv, LivesRecorded, CallsWithin, LivesSeparate
<1>2. ASSUME CallsWithin, NEW g \in granted
      PROVE  /\ TokensOf(Life(g)) <= Policy["max_session_tokens"]
             /\ Cardinality({h \in Life(g) : h.kind = "tool"})
                  <= Policy["max_tool_actions_per_session"]
             /\ Cardinality({h \in Life(g) : h.operation = g.operation})
                  <= Policy["max_retries_per_operation"] + 1
  <2>1. {h \in Life(g) : h.kind = "tool"} = ToolsOfLife(granted, SessionKey(g), g.born)
    BY DEF Life, ToolsOfLife
  <2>2. {h \in Life(g) : h.operation = g.operation}
          = TriesOfLife(granted, SessionKey(g), g.born, g.operation)
    BY DEF Life, TriesOfLife
  <2>3. Life(g) = OfLife(granted, SessionKey(g), g.born)
    BY DEF Life, OfLife
  <2> QED
    BY <1>2, <2>1, <2>2, <2>3 DEF CallsWithin
<1>3. SessionIInv /\ LiveLeaseKeepsSession => SessionWithinBudget
  BY <1>2 DEF SessionIInv, SessionCallsBounded, SessionWithinBudget
<1> QED
  BY <1>1, <1>3, Inductive, SessionStep, SessionsKept, PTL DEF Spec
=============================================================================
