------------------------- MODULE FailureContainment -------------------------
(***************************************************************************)
(* FailureContainmentManager of src/trustrail/failure_containment.py:      *)
(* single-use permits for calls of dependencies, circuit breakers per      *)
(* tenant and dependency, fallbacks, retry budgets and reservations of     *)
(* idempotency keys.                                                       *)
(*                                                                         *)
(* authorize and record_outcome decide and write under one lock, so each   *)
(* is one action; between the two a permit is out with a caller, who may   *)
(* report late, never, twice, or after the circuit changed.  Digests,      *)
(* signatures and completion times are abstracted to whether a report is   *)
(* genuine.  Audit events and hooks are left out.                          *)
(***************************************************************************)
EXTENDS Integers, Sequences, FiniteSets, FiniteSetsExt, FiniteSetTheorems, SequenceTheorems, TLAPS

CONSTANTS
    Tenants, Dependencies, Fallbacks, ReportIds,
    Domain,        \* failure_domain_id of each dependency
    MaxOpen,       \* max_open_dependencies of each domain
    Health,        \* declared health of each dependency
    TenantsOf,     \* allowed_tenant_ids of dependencies and fallbacks; {} is all
    FallbackOf,    \* primary, target and digest of each declared fallback
    AllowedFallbacks, \* allowed_fallback_ids of each dependency
    Breaker,       \* CircuitBreakerPolicy of each dependency
    Limits,        \* the per-attempt and per-operation limits of the policy
    Requests,      \* the requests callers make
    Outcomes,      \* the outcomes dependency gateways report
    NoKey, NoFallback,
    MaxNow,        \* bound: last clock value explored
    MaxPermits     \* bound: permits issued

\* What FailureContainmentPolicy.validate_inventory and CircuitBreakerPolicy accept.
ValidPolicy ==
    /\ Limits.retries \in Nat /\ Limits.permit_ttl \in Nat
    /\ \A d \in Dependencies :
         /\ MaxOpen[Domain[d]] >= 1
         /\ Breaker[d].window_size \in Nat /\ Breaker[d].minimum_samples \in Nat
         /\ Breaker[d].minimum_samples >= 1 /\ Breaker[d].minimum_samples <= Breaker[d].window_size
         /\ Breaker[d].open_seconds \in Nat /\ Breaker[d].open_seconds >= 1
         /\ AllowedFallbacks[d] \subseteq Fallbacks
    /\ \A f \in Fallbacks :
         LET b == FallbackOf[f]
         IN  /\ b.primary \in Dependencies /\ b.target \in Dependencies
             /\ f \in AllowedFallbacks[b.primary]
             /\ Domain[b.primary] # Domain[b.target]

ASSUME PolicyAssumption == ValidPolicy

ASSUME InputAssumption ==
    /\ \A r \in Requests : r.tenant \in Tenants /\ r.side_effecting \in BOOLEAN
    /\ \A out \in Outcomes : out.success \in BOOLEAN
    /\ MaxNow \in Nat
    /\ MaxPermits \in Nat

VARIABLES
    now,
    circuits,      \* _circuits, by tenant and dependency
    permits,       \* every permit issued, in order; its index is its id
    active,        \* _active_permits: ids of permits not consumed yet
    usedReports,   \* _used_report_ids
    seenAttempts,  \* _seen_attempt_ids
    attempts,      \* _operation_attempts: permits issued per tenant and operation
    activeKeys,    \* _active_side_effects
    committedKeys, \* _committed_side_effects
    result,        \* the result of the call that just returned
    committed,     \* history: permits whose effect was reported committed
    released,      \* history: permits reported without a committed effect
    blamed         \* history: circuits some report gave cause to open

vars == <<now, circuits, permits, active, usedReports, seenAttempts, attempts,
          activeKeys, committedKeys, result, committed, released, blamed>>
ledger == <<permits, active, seenAttempts, attempts, activeKeys>>
reported == <<usedReports, committedKeys, committed, released, blamed>>

CircuitKeys == Tenants \X Dependencies
Operations == {r.operation : r \in Requests}
Closed == [state |-> "closed", samples |-> <<>>, opened_at |-> 0, probe |-> FALSE]

Finding(code, found) == IF found THEN {code} ELSE {}
Blocked(codes) == [action |-> "block", codes |-> codes]

-----------------------------------------------------------------------------
(* Circuits *)

Due(c, d) == c.state = "open" /\ now >= c.opened_at + Breaker[d].open_seconds

\* _advance_half_open on the circuits of tenant t for the dependencies in ds
Advanced(cs, t, ds) ==
    [k \in CircuitKeys |->
        IF k[1] = t /\ k[2] \in ds /\ Due(cs[k], k[2])
        THEN [cs[k] EXCEPT !.state = "half_open", !.probe = FALSE]
        ELSE cs[k]]

Neighbours(d) == {e \in Dependencies : Domain[e] = Domain[d]}

\* The circuits as _dependency_unavailable leaves them: a closed circuit makes it
\* look at the whole failure domain.
Consulted(cs, t, d) ==
    IF Health[d] # "healthy" THEN cs
    ELSE IF Advanced(cs, t, {d})[<<t, d>>].state # "closed" THEN Advanced(cs, t, {d})
    ELSE Advanced(cs, t, Neighbours(d))

\* What _dependency_unavailable answers.
Unavailable(cs, t, d) ==
    LET after == Consulted(cs, t, d)
        c == after[<<t, d>>]
        opened == {e \in Neighbours(d) : after[<<t, e>>].state # "closed"}
    IN  \/ Health[d] # "healthy"
        \/ c.state = "open"
        \/ c.state = "half_open" /\ c.probe
        \/ c.state = "closed" /\ Cardinality(opened) >= MaxOpen[Domain[d]]

-----------------------------------------------------------------------------
(* authorize *)

TenantAllowed(x, t) == TenantsOf[x] = {} \/ t \in TenantsOf[x]

StaticFindings(req) ==
    Finding("dependency_unknown", req.dependency \notin Dependencies)
    \cup Finding("retry_limit_exceeded", req.retry > Limits.retries)
    \cup Finding("recursion_limit_exceeded", req.recursion > Limits.recursion)
    \cup Finding("cost_limit_exceeded", req.cost > Limits.cost)
    \cup Finding("abnormal_tool_call_limit_exceeded", req.abnormal > Limits.abnormal)
    \cup Finding("tenant_not_allowed",
                 req.dependency \in Dependencies /\ ~TenantAllowed(req.dependency, req.tenant))

AttemptsOf(req) == attempts[<<req.tenant, req.operation>>]
KeyOf(x) == <<x.tenant, x.key>>

\* Mutant: only the caller's own retry counter is checked.
MutableFindingsTrustCaller(req) ==
    Finding("duplicate_attempt", <<req.tenant, req.attempt>> \in seenAttempts)
    \cup Finding("duplicate_side_effect",
                 req.side_effecting /\ KeyOf(req) \in activeKeys \cup committedKeys)

\* Mutant: a key whose attempt is under way may be used again.
MutableFindingsIgnoreActive(req) ==
    Finding("duplicate_attempt", <<req.tenant, req.attempt>> \in seenAttempts)
    \cup Finding("retry_limit_exceeded", AttemptsOf(req) > Limits.retries)
    \cup Finding("retry_sequence_invalid", req.retry # AttemptsOf(req))
    \cup Finding("duplicate_side_effect", req.side_effecting /\ KeyOf(req) \in committedKeys)

MutableFindings(req) ==
    Finding("duplicate_attempt", <<req.tenant, req.attempt>> \in seenAttempts)
    \cup Finding("retry_limit_exceeded", AttemptsOf(req) > Limits.retries)
    \cup Finding("retry_sequence_invalid", req.retry # AttemptsOf(req))
    \cup Finding("idempotency_key_required", req.side_effecting /\ req.key = NoKey)
    \cup Finding("duplicate_side_effect",
                 req.side_effecting /\ KeyOf(req) \in activeKeys \cup committedKeys)

\* _select_fallback, on the circuits cs that consulting the primary left
FallbackFindings(cs, req) ==
    IF req.fallback = NoFallback THEN {"fallback_required"}
    ELSE IF req.fallback.id \notin Fallbacks THEN {"fallback_unknown"}
    ELSE LET f == req.fallback.id
             b == FallbackOf[f]
         IN  Finding("fallback_not_allowed",
                     b.primary # req.dependency \/ f \notin AllowedFallbacks[req.dependency])
             \cup Finding("fallback_integrity_invalid", b.digest # req.fallback.digest)
             \cup Finding("tenant_not_allowed",
                          ~TenantAllowed(f, req.tenant) \/ ~TenantAllowed(b.target, req.tenant))
             \cup Finding("fallback_unavailable", Unavailable(cs, req.tenant, b.target))

\* The decision on a request that passed the static checks: the findings, the
\* dependency selected and the circuits as the checks leave them.
Decision(req) ==
    LET primary == Consulted(circuits, req.tenant, req.dependency)
        down == Unavailable(circuits, req.tenant, req.dependency)
        declared == req.fallback # NoFallback /\ req.fallback.id \in Fallbacks
        target == FallbackOf[req.fallback.id].target
    IN  IF down
        THEN [findings |-> FallbackFindings(primary, req) \cup MutableFindings(req),
              selected |-> IF declared THEN target ELSE req.dependency,
              circuits |-> IF declared THEN Consulted(primary, req.tenant, target) ELSE primary]
        ELSE [findings |-> Finding("fallback_not_required", req.fallback # NoFallback)
                             \cup MutableFindings(req),
              selected |-> req.dependency,
              circuits |-> primary]

AuthorizeRefused(req) ==
    /\ StaticFindings(req) # {}
    /\ result' = Blocked(StaticFindings(req))
    /\ UNCHANGED <<now, circuits, ledger, reported>>

\* A refusal still moves due circuits to half-open.
AuthorizeBlocked(req) ==
    /\ StaticFindings(req) = {}
    /\ Decision(req).findings # {}
    /\ circuits' = Decision(req).circuits
    /\ result' = Blocked(Decision(req).findings)
    /\ UNCHANGED <<now, ledger, reported>>

\* probe and since (when the circuit last opened) are history
Permit(req, selected, c) ==
    [tenant |-> req.tenant, operation |-> req.operation, attempt |-> req.attempt,
     primary |-> req.dependency, selected |-> selected, key |-> req.key,
     side_effecting |-> req.side_effecting, issued_at |-> now,
     expires_at |-> now + Limits.permit_ttl,
     probe |-> c.state = "half_open", since |-> c.opened_at]

\* _issue_permit; on a half-open circuit the permit is the probe
AuthorizeGranted(req) ==
    LET d == Decision(req)
        k == <<req.tenant, d.selected>>
        probe == d.circuits[k].state = "half_open"
    IN  /\ Len(permits) < MaxPermits
        /\ StaticFindings(req) = {}
        /\ d.findings = {}
        /\ circuits' = IF probe THEN [d.circuits EXCEPT ![k].probe = TRUE] ELSE d.circuits
        /\ permits' = Append(permits, Permit(req, d.selected, d.circuits[k]))
        /\ active' = active \cup {Len(permits) + 1}
        /\ seenAttempts' = seenAttempts \cup {<<req.tenant, req.attempt>>}
        /\ attempts' = [attempts EXCEPT ![<<req.tenant, req.operation>>] = @ + 1]
        /\ activeKeys' = IF req.side_effecting /\ req.key # NoKey
                         THEN activeKeys \cup {KeyOf(req)} ELSE activeKeys
        /\ result' = [action |-> "allow", permit |-> Len(permits) + 1]
        /\ UNCHANGED <<now, reported>>

Authorize(req) == AuthorizeRefused(req) \/ AuthorizeBlocked(req) \/ AuthorizeGranted(req)

-----------------------------------------------------------------------------
(* record_outcome *)

ReportFindings(id, out, rid) ==
    Finding("report_not_genuine", ~out.genuine)
    \cup Finding("permit_expired", permits[id].expires_at < now)
    \cup Finding("permit_replayed", id \notin active)
    \cup Finding("report_replayed", rid \in usedReports)

\* Mutant: the deque keeps every sample.
SampledUnbounded(c, d, out) ==
    Append(c.samples, [success |-> out.success, latency |-> out.latency,
                       cost |-> out.cost, abnormal |-> out.abnormal])

\* a deque of at most window_size samples
Sampled(c, d, out) ==
    LET all == Append(c.samples, [success |-> out.success, latency |-> out.latency,
                                  cost |-> out.cost, abnormal |-> out.abnormal])
        size == Breaker[d].window_size
    IN  IF Len(all) <= size THEN all ELSE SubSeq(all, Len(all) - size + 1, Len(all))

Total(samples, field) == MapThenSumSet(LAMBDA i : samples[i][field], DOMAIN samples)

\* the findings of _outcome_findings that open a circuit
ThresholdCrossed(samples, d) ==
    LET b == Breaker[d]
        n == Len(samples)
        errors == Cardinality({i \in 1 .. n : ~samples[i].success})
    IN  \/ n >= b.minimum_samples /\ errors * 100 >= b.error_percent * n
        \/ n >= b.minimum_samples /\ Total(samples, "latency") >= b.latency * n
        \/ Total(samples, "cost") >= b.cost
        \/ Total(samples, "abnormal") >= b.abnormal

\* Mutant: every report clears the mark of the probe and leaves the circuit half-open.
AfterOutcomeForgetsProbe(c, d, out) ==
    LET samples == Sampled(c, d, out)
    IN  IF ThresholdCrossed(samples, d) /\ c.state # "half_open"
        THEN [state |-> "open", samples |-> samples, opened_at |-> now, probe |-> FALSE]
        ELSE [c EXCEPT !.samples = samples, !.probe = FALSE]

\* the circuit after an accepted report
AfterOutcome(c, d, out) ==
    LET samples == Sampled(c, d, out)
        crossed == ThresholdCrossed(samples, d)
    IN  IF c.state = "half_open" /\ out.success /\ ~crossed THEN Closed
        ELSE IF crossed \/ (c.state = "half_open" /\ ~out.success)
        THEN [state |-> "open", samples |-> samples, opened_at |-> now, probe |-> FALSE]
        ELSE [c EXCEPT !.samples = samples, !.probe = FALSE]

\* Evidence that is not accepted changes nothing.
OutcomeRejected(id, out, rid) ==
    /\ ReportFindings(id, out, rid) # {}
    /\ result' = Blocked(ReportFindings(id, out, rid))
    /\ UNCHANGED <<now, circuits, ledger, reported>>

\* Mutant: the outcome of a fallback is charged to the primary.
ChargedToPrimary(p) == <<p.tenant, p.primary>>

\* the circuit an outcome is charged to
Charged(p) == <<p.tenant, p.selected>>

\* An accepted report consumes the permit, settles the key and moves the circuit.
OutcomeRecorded(id, out, rid) ==
    LET p == permits[id]
        k == Charged(p)
        d == k[2]
        after == AfterOutcome(circuits[k], d, out)
    IN  /\ ReportFindings(id, out, rid) = {}
        /\ active' = active \ {id}
        /\ usedReports' = usedReports \cup {rid}
        /\ activeKeys' = activeKeys \ {KeyOf(p)}
        /\ committedKeys' = IF out.committed /\ p.key # NoKey
                            THEN committedKeys \cup {KeyOf(p)} ELSE committedKeys
        /\ circuits' = [circuits EXCEPT ![k] = after]
        /\ result' = [action |-> IF out.success /\ out.cost <= Limits.cost
                                    /\ ~ThresholdCrossed(Sampled(circuits[k], d, out), d)
                                 THEN "allow" ELSE "block",
                      reported |-> id, success |-> out.success,
                      from |-> circuits[k].state, to |-> after.state]
        /\ committed' = IF out.committed THEN committed \cup {id} ELSE committed
        /\ released' = IF out.committed THEN released ELSE released \cup {id}
        /\ blamed' = IF after.state = "open" THEN blamed \cup {<<p.tenant, p.selected>>} ELSE blamed
        /\ UNCHANGED <<now, permits, seenAttempts, attempts>>

RecordOutcome(id, out, rid) == OutcomeRejected(id, out, rid) \/ OutcomeRecorded(id, out, rid)

Tick ==
    /\ now < MaxNow
    /\ now' = now + 1
    /\ result' = [action |-> "none"]
    /\ UNCHANGED <<circuits, ledger, reported>>

Init ==
    /\ now = 0
    /\ circuits = [k \in CircuitKeys |-> Closed]
    /\ permits = <<>> /\ active = {} /\ usedReports = {}
    /\ seenAttempts = {}
    /\ attempts = [k \in Tenants \X Operations |-> 0]
    /\ activeKeys = {} /\ committedKeys = {}
    /\ result = [action |-> "none"]
    /\ committed = {} /\ released = {} /\ blamed = {}

Next ==
    \/ \E req \in Requests : Authorize(req)
    \/ \E id \in DOMAIN permits, out \in Outcomes, rid \in ReportIds : RecordOutcome(id, out, rid)
    \/ Tick

Spec == Init /\ [][Next]_vars

-----------------------------------------------------------------------------
(* Properties *)

\* What outcomes leave in the window of a circuit.
Samples ==
    {[success |-> out.success, latency |-> out.latency, cost |-> out.cost,
      abnormal |-> out.abnormal] : out \in Outcomes}

CircuitType ==
    [state : {"closed", "open", "half_open"}, samples : Seq(Samples), opened_at : Nat,
     probe : BOOLEAN]

PermitType ==
    [tenant : Tenants, operation : Operations, attempt : {r.attempt : r \in Requests},
     primary : Dependencies, selected : Dependencies, key : {r.key : r \in Requests},
     side_effecting : BOOLEAN, issued_at : Nat, expires_at : Nat, probe : BOOLEAN, since : Nat]

\* Type invariant: a window never outgrows its size, and every permit is out, or was
\* reported with its effect committed or without.
TypeOK ==
    /\ now \in Nat
    /\ circuits \in [CircuitKeys -> CircuitType]
    /\ \A k \in CircuitKeys : Len(circuits[k].samples) <= Breaker[k[2]].window_size
    /\ permits \in Seq(PermitType)
    /\ committed \cap released = {}
    /\ DOMAIN permits = active \cup committed \cup released
    /\ attempts \in [Tenants \X Operations -> Nat]

Outstanding == {i \in DOMAIN permits : i \notin released /\ permits[i].side_effecting}

\* An effect is dispatched at most once: over all the attempts that name one
\* idempotency key, at most one may still commit or has committed ("A committed
\* idempotency key cannot be dispatched again", docs/security/
\* cascading-failure-containment.md:119), whatever is reported late or not at all.
OneEffectPerKey ==
    \A i, j \in Outstanding : KeyOf(permits[i]) = KeyOf(permits[j]) => i = j

\* No operation has more permits than one first attempt and its retries.
WithinRetries ==
    \A i \in DOMAIN permits :
        Cardinality({j \in DOMAIN permits : /\ permits[j].tenant = permits[i].tenant
                                            /\ permits[j].operation = permits[i].operation})
          <= Limits.retries + 1

\* Retries are bounded by the manager's own count: no order of attempts, outcomes
\* and fallbacks yields more permits than the retry policy allows, and no attempt
\* id is dispatched twice.
RetryBudget ==
    /\ WithinRetries
    /\ \A i, j \in DOMAIN permits :
         permits[i].tenant = permits[j].tenant /\ permits[i].attempt = permits[j].attempt => i = j

\* Failures stay in their tenant and their dependency: a circuit leaves closed only
\* after a report on a permit of that tenant that was dispatched to that dependency,
\* not of another tenant, nor of the primary it stood in for.
FailureContained ==
    \A k \in CircuitKeys : circuits[k].state # "closed" => k \in blamed

\* While a circuit is open, and until open_seconds have passed, nothing is
\* dispatched to its dependency for that tenant, as primary or as fallback.
NoDispatchWhileOpen ==
    \A i \in DOMAIN permits' \ DOMAIN permits :
        LET k == <<permits'[i].tenant, permits'[i].selected>>
        IN  circuits[k].state = "open" =>
              now >= circuits[k].opened_at + Breaker[k[2]].open_seconds

\* An open circuit never closes without having been half-open, late successes of
\* calls that were under way when it opened notwithstanding.
NoShortcutToClosed ==
    \A k \in CircuitKeys : circuits[k].state = "open" => circuits'[k].state # "closed"

\* "exactly one probe is admitted" (docs/security/cascading-failure-containment.md:163):
\* between two openings of a circuit a single probe is dispatched, whoever reports
\* what in the meantime.
OneProbe ==
    \A i, j \in DOMAIN permits :
        /\ permits[i].probe /\ permits[j].probe
        /\ permits[i].tenant = permits[j].tenant /\ permits[i].selected = permits[j].selected
        /\ permits[i].since = permits[j].since
        => i = j

\* A circuit that opened lets nothing through before its time and then one probe at a time,
\* and closes by way of half-open only, whichever reports arrive late
\* (failure_containment.py:384, :861).
CircuitRespected == [][OneProbe' /\ NoDispatchWhileOpen /\ NoShortcutToClosed]_vars

\* "Restore normal mode after a successful half-open probe" (failure_containment.py:72):
\* the report that closes a half-open circuit is the report on a probe.
RecoveredByProbe ==
    "reported" \in DOMAIN result =>
        (result.from = "half_open" /\ result.to = "closed" => permits[result.reported].probe)

\* "A successful probe closes and clears the circuit" (docs/security/
\* cascading-failure-containment.md:163).
SuccessfulProbeCloses ==
    "reported" \in DOMAIN result =>
        (result.from = "half_open" /\ result.success /\ permits[result.reported].probe
            => result.to = "closed")
-----------------------------------------------------------------------------
(* The inductive invariant.  The retry budget rests on the manager's tables *)
(* knowing every permit; the single probe on the times at which circuits    *)
(* opened: a circuit stays open for at least one second, so no two openings *)
(* between which a probe was dispatched carry the same time.                *)

PermitsOf(t, op) ==
    {j \in DOMAIN permits : permits[j].tenant = t /\ permits[j].operation = op}

LedgersExact ==
    /\ \A t \in Tenants, op \in Operations :
         attempts[<<t, op>>] = Cardinality(PermitsOf(t, op)) /\ attempts[<<t, op>>] <= Limits.retries + 1
    /\ \A i \in DOMAIN permits : <<permits[i].tenant, permits[i].attempt>> \in seenAttempts
    /\ active \cap (committed \cup released) = {}

\* Circuits cs at time t: a circuit is half-open only once its time has passed.
Timed(cs, t) ==
    \A k \in CircuitKeys :
        /\ cs[k].opened_at <= t
        /\ cs[k].state = "half_open" => cs[k].opened_at + Breaker[k[2]].open_seconds <= t

\* A probe that was dispatched while its circuit was half-open was dispatched since an
\* earlier opening, or is the one the circuit is waiting for.
Accounted(p, cs, t) ==
    LET c == cs[Charged(p)]
    IN  /\ p.since + Breaker[p.selected].open_seconds <= t
        /\ c.state # "closed" =>
             \/ p.since < c.opened_at
             \/ p.since = c.opened_at /\ c.state = "half_open" /\ c.probe

CircuitsTimed ==
    /\ Timed(circuits, now)
    /\ \A i \in DOMAIN permits : permits[i].probe => Accounted(permits[i], circuits, now)

IInv ==
    /\ TypeOK
    /\ LedgersExact
    /\ CircuitsTimed
    /\ RetryBudget
    /\ FailureContained
    /\ OneProbe

-----------------------------------------------------------------------------
(* What authorize does to the circuits *)

\* _advance_half_open at most takes an open circuit whose time has passed to half-open.
Moved(c, to, k) ==
    \/ to = c
    \/ /\ c.state = "open"
       /\ c.opened_at + Breaker[k[2]].open_seconds <= now
       /\ to = [c EXCEPT !.state = "half_open", !.probe = FALSE]

LEMMA BreakerTimes ==
    ASSUME NEW d \in Dependencies
    PROVE  /\ Breaker[d].open_seconds \in Nat /\ Breaker[d].open_seconds >= 1
           /\ Breaker[d].window_size \in Nat /\ Breaker[d].window_size >= 1
BY PolicyAssumption DEF ValidPolicy

LEMMA AdvancedMoves ==
    ASSUME now \in Nat, NEW cs \in [CircuitKeys -> CircuitType], NEW t, NEW ds
    PROVE  /\ Advanced(cs, t, ds) \in [CircuitKeys -> CircuitType]
           /\ \A k \in CircuitKeys : Moved(cs[k], Advanced(cs, t, ds)[k], k)
<1>1. ASSUME NEW k \in CircuitKeys
      PROVE  /\ Advanced(cs, t, ds)[k] \in CircuitType
             /\ Moved(cs[k], Advanced(cs, t, ds)[k], k)
  <2>1. cs[k] \in CircuitType /\ k[2] \in Dependencies
    BY DEF CircuitKeys
  <2>2. Breaker[k[2]].open_seconds \in Nat /\ cs[k].opened_at \in Nat
    BY <2>1, BreakerTimes DEF CircuitType
  <2>3. [cs[k] EXCEPT !.state = "half_open", !.probe = FALSE] \in CircuitType
    BY <2>1 DEF CircuitType
  <2>4. Due(cs[k], k[2]) =>
          cs[k].state = "open" /\ cs[k].opened_at + Breaker[k[2]].open_seconds <= now
    BY <2>2 DEF Due
  <2> QED
    BY <2>1, <2>3, <2>4 DEF Advanced, Moved
<1> QED
  BY <1>1 DEF Advanced

LEMMA ConsultedMoves ==
    ASSUME now \in Nat, NEW cs \in [CircuitKeys -> CircuitType], NEW t, NEW d
    PROVE  /\ Consulted(cs, t, d) \in [CircuitKeys -> CircuitType]
           /\ \A k \in CircuitKeys : Moved(cs[k], Consulted(cs, t, d)[k], k)
<1>1. \/ Consulted(cs, t, d) = cs
      \/ Consulted(cs, t, d) = Advanced(cs, t, {d})
      \/ Consulted(cs, t, d) = Advanced(cs, t, Neighbours(d))
  BY DEF Consulted
<1>2. \A k \in CircuitKeys : Moved(cs[k], cs[k], k)
  BY DEF Moved
<1> QED
  BY <1>1, <1>2, AdvancedMoves

\* Whatever authorize decides, it leaves every circuit where it was or half-open.
LEMMA DecisionMoves ==
    ASSUME TypeOK, NEW req \in Requests
    PROVE  /\ Decision(req).circuits \in [CircuitKeys -> CircuitType]
           /\ \A k \in CircuitKeys : Moved(circuits[k], Decision(req).circuits[k], k)
<1> DEFINE primary == Consulted(circuits, req.tenant, req.dependency)
           target == FallbackOf[req.fallback.id].target
           second == Consulted(primary, req.tenant, target)
<1>1. now \in Nat /\ circuits \in [CircuitKeys -> CircuitType]
  BY DEF TypeOK
<1>2. /\ primary \in [CircuitKeys -> CircuitType]
      /\ \A k \in CircuitKeys : Moved(circuits[k], primary[k], k)
  BY <1>1, ConsultedMoves
<1> HIDE DEF primary, target
<1>3. /\ second \in [CircuitKeys -> CircuitType]
      /\ \A k \in CircuitKeys : Moved(primary[k], second[k], k)
  BY <1>1, <1>2, ConsultedMoves
<1>4. Decision(req).circuits = primary \/ Decision(req).circuits = second
  BY DEF Decision, primary, target
<1> HIDE DEF second
<1>5. ASSUME NEW k \in CircuitKeys PROVE Moved(circuits[k], second[k], k)
  <2>1. circuits[k] \in CircuitType
    BY <1>1
  <2>2. CASE primary[k] = circuits[k]
    BY <2>2, <1>3
  <2>3. CASE primary[k] # circuits[k]
    <3>1. primary[k].state = "half_open" /\ Moved(circuits[k], primary[k], k)
      BY <2>1, <2>3, <1>2 DEF Moved, CircuitType
    <3>2. second[k] = primary[k]
      BY <3>1, <1>3 DEF Moved
    <3> QED
      BY <3>1, <3>2
  <2> QED
    BY <2>2, <2>3
<1> QED
  BY <1>2, <1>3, <1>4, <1>5

\* An attempt is granted only to a declared dependency whose circuit is closed, or is
\* half-open and has no probe under way.
LEMMA GrantedCircuit ==
    ASSUME NEW req \in Requests, StaticFindings(req) = {}, Decision(req).findings = {}
    PROVE  LET c == Decision(req).circuits[<<req.tenant, Decision(req).selected>>]
           IN  /\ req.dependency \in Dependencies
               /\ Decision(req).selected \in Dependencies
               /\ c.state # "open"
               /\ c.state = "half_open" => ~c.probe
               /\ MutableFindings(req) = {}
<1> DEFINE down == Unavailable(circuits, req.tenant, req.dependency)
           primary == Consulted(circuits, req.tenant, req.dependency)
           target == FallbackOf[req.fallback.id].target
<1>1. req.dependency \in Dependencies
  BY DEF StaticFindings, Finding
<1>2. ASSUME NEW cs, NEW t, NEW d, ~Unavailable(cs, t, d)
      PROVE  /\ Consulted(cs, t, d)[<<t, d>>].state # "open"
             /\ Consulted(cs, t, d)[<<t, d>>].state = "half_open" => ~Consulted(cs, t, d)[<<t, d>>].probe
  BY <1>2 DEF Unavailable
<1>3. CASE ~down
  <2>1. Decision(req).selected = req.dependency /\ Decision(req).circuits = primary
    BY <1>3 DEF Decision
  <2>2. MutableFindings(req) = {}
    BY <1>3 DEF Decision
  <2> QED
    BY <1>1, <1>2, <1>3, <2>1, <2>2
<1>4. CASE down
  <2>1. FallbackFindings(primary, req) = {} /\ MutableFindings(req) = {}
    BY <1>4 DEF Decision
  <2>2. req.fallback # NoFallback /\ req.fallback.id \in Fallbacks
    BY <2>1 DEF FallbackFindings
  <2>3. ~Unavailable(primary, req.tenant, target)
    BY <2>1, <2>2 DEF FallbackFindings, Finding
  <2>4. /\ Decision(req).selected = target
        /\ Decision(req).circuits = Consulted(primary, req.tenant, target)
    BY <1>4, <2>2 DEF Decision
  <2>5. target \in Dependencies
    BY <2>2, PolicyAssumption DEF ValidPolicy
  <2> QED
    BY <1>1, <1>2, <2>1, <2>3, <2>4, <2>5
<1> QED
  BY <1>3, <1>4

LEMMA ChargedKey ==
    ASSUME NEW ps \in Seq(PermitType), NEW i \in DOMAIN ps
    PROVE  ps[i] \in PermitType /\ Charged(ps[i]) \in CircuitKeys
<1>1. ps[i] \in PermitType
  OBVIOUS
<1> QED
  BY <1>1 DEF PermitType, Charged, CircuitKeys

\* The circuits authorize leaves are still timed, and account for the earlier probes.
LEMMA MovedTimed ==
    ASSUME TypeOK, CircuitsTimed, NEW cs \in [CircuitKeys -> CircuitType],
           \A k \in CircuitKeys : Moved(circuits[k], cs[k], k)
    PROVE  /\ Timed(cs, now)
           /\ \A i \in DOMAIN permits : permits[i].probe => Accounted(permits[i], cs, now)
<1>1. ASSUME NEW k \in CircuitKeys
      PROVE  /\ cs[k].opened_at <= now
             /\ cs[k].state = "half_open" => cs[k].opened_at + Breaker[k[2]].open_seconds <= now
             /\ cs[k].opened_at = circuits[k].opened_at
             /\ cs[k] = circuits[k] \/ circuits[k].state = "open"
  <2>1. /\ circuits[k].opened_at <= now
        /\ circuits[k].state = "half_open" =>
             circuits[k].opened_at + Breaker[k[2]].open_seconds <= now
    BY DEF CircuitsTimed, Timed
  <2>2. circuits[k] \in CircuitType
    BY DEF TypeOK
  <2>3. CASE cs[k] = circuits[k]
    BY <2>1, <2>3
  <2>4. CASE cs[k] # circuits[k]
    BY <2>1, <2>2, <2>4 DEF Moved, CircuitType
  <2> QED
    BY <2>3, <2>4
<1>2. ASSUME NEW i \in DOMAIN permits, permits[i].probe
      PROVE  Accounted(permits[i], cs, now)
  <2>1. Charged(permits[i]) \in CircuitKeys
    BY ChargedKey DEF TypeOK
  <2>2. Accounted(permits[i], circuits, now)
    BY <1>2 DEF CircuitsTimed
  <2>3. CASE cs[Charged(permits[i])] = circuits[Charged(permits[i])]
    BY <2>2, <2>3 DEF Accounted
  <2>4. CASE circuits[Charged(permits[i])].state = "open"
    <3>1. permits[i].since < circuits[Charged(permits[i])].opened_at
      BY <2>2, <2>4 DEF Accounted
    <3>2. permits[i].since < cs[Charged(permits[i])].opened_at
      BY <3>1, <1>1, <2>1
    <3> QED
      BY <3>2, <2>2 DEF Accounted
  <2> QED
    BY <1>1, <2>1, <2>3, <2>4
<1> QED
  BY <1>1, <1>2 DEF Timed

-----------------------------------------------------------------------------
(* What record_outcome does to a circuit *)

\* The window keeps at most window_size samples.
LEMMA WindowBounded ==
    ASSUME NEW c \in CircuitType, NEW d \in Dependencies, NEW out \in Outcomes,
           Len(c.samples) <= Breaker[d].window_size
    PROVE  /\ Sampled(c, d, out) \in Seq(Samples)
           /\ Len(Sampled(c, d, out)) <= Breaker[d].window_size
<1> DEFINE sample == [success |-> out.success, latency |-> out.latency,
                      cost |-> out.cost, abnormal |-> out.abnormal]
           all == Append(c.samples, sample)
           size == Breaker[d].window_size
<1>1. sample \in Samples
  BY DEF Samples
<1>2. c.samples \in Seq(Samples) /\ size \in Nat /\ size >= 1
  BY BreakerTimes DEF CircuitType
<1> HIDE DEF sample, size
<1>3. all \in Seq(Samples) /\ Len(all) = Len(c.samples) + 1
  BY <1>1, <1>2
<1>4. Sampled(c, d, out) = IF Len(all) <= size THEN all ELSE SubSeq(all, Len(all) - size + 1, Len(all))
  BY DEF Sampled, sample, size
<1>5. Len(c.samples) <= size
  BY DEF size
<1> HIDE DEF all
<1>6. CASE Len(all) <= size
  BY <1>3, <1>4, <1>6 DEF size
<1>7. CASE ~(Len(all) <= size)
  <2>1. Len(all) \in Nat /\ Len(all) - size + 1 \in 1 .. Len(all) + 1
    BY <1>2, <1>3, <1>7
  <2>2. SubSeq(all, Len(all) - size + 1, Len(all)) \in Seq(Samples)
    BY <2>1, <1>2, <1>3, SubSeqProperties
  <2>3. Len(SubSeq(all, Len(all) - size + 1, Len(all))) = size
    BY <2>1, <1>2, <1>3, <1>7, SubSeqProperties
  <2> QED
    BY <1>2, <1>4, <1>7, <2>2, <2>3 DEF size
<1> QED
  BY <1>6, <1>7

\* A report never leaves a circuit half-open, never closes an open one, and opens one
\* only at the time of the report.
LEMMA ReportMoves ==
    ASSUME now \in Nat, NEW c \in CircuitType, NEW d \in Dependencies, NEW out \in Outcomes,
           Len(c.samples) <= Breaker[d].window_size
    PROVE  LET to == AfterOutcome(c, d, out)
           IN  /\ to \in CircuitType
               /\ Len(to.samples) <= Breaker[d].window_size
               /\ to.state # "half_open"
               /\ c.state = "open" => to.state = "open"
               /\ to.state = "open" =>
                    to.opened_at = now \/ (c.state = "open" /\ to.opened_at = c.opened_at)
               /\ to.opened_at \in {now, c.opened_at, 0}
<1> DEFINE samples == Sampled(c, d, out)
           crossed == ThresholdCrossed(samples, d)
<1>1. samples \in Seq(Samples) /\ Len(samples) <= Breaker[d].window_size
  BY WindowBounded
<1>2. Closed \in CircuitType /\ Len(Closed.samples) <= Breaker[d].window_size
  <2>1. <<>> \in Seq(Samples) /\ Len(<<>>) = 0
    BY EmptySeq
  <2> QED
    BY <2>1, BreakerTimes DEF Closed, CircuitType
<1>3. out.success \in BOOLEAN
  BY InputAssumption
<1> HIDE DEF samples, crossed
<1>4. AfterOutcome(c, d, out) =
        IF c.state = "half_open" /\ out.success /\ ~crossed THEN Closed
        ELSE IF crossed \/ (c.state = "half_open" /\ ~out.success)
        THEN [state |-> "open", samples |-> samples, opened_at |-> now, probe |-> FALSE]
        ELSE [c EXCEPT !.samples = samples, !.probe = FALSE]
  BY DEF AfterOutcome, samples, crossed
<1>5. CASE c.state = "half_open" /\ out.success /\ ~crossed
  <2>1. AfterOutcome(c, d, out) = Closed
    BY <1>4, <1>5
  <2> QED
    BY <2>1, <1>2, <1>5 DEF Closed
<1>6. CASE crossed \/ (c.state = "half_open" /\ ~out.success)
  <2>1. AfterOutcome(c, d, out)
          = [state |-> "open", samples |-> samples, opened_at |-> now, probe |-> FALSE]
    BY <1>4, <1>6
  <2> QED
    BY <2>1, <1>1 DEF CircuitType
<1>7. CASE ~crossed /\ c.state # "half_open"
  <2>1. AfterOutcome(c, d, out) = [c EXCEPT !.samples = samples, !.probe = FALSE]
    BY <1>4, <1>7
  <2> QED
    BY <2>1, <1>1, <1>7 DEF CircuitType
<1> QED
  BY <1>3, <1>5, <1>6, <1>7

-----------------------------------------------------------------------------
(* IInv is inductive: one lemma per kind of step *)

LEMMA InitIInv == Init => IInv
<1> SUFFICES ASSUME Init PROVE IInv
  OBVIOUS
<1>1. Closed \in CircuitType /\ Len(Closed.samples) = 0
  BY EmptySeq DEF Closed, CircuitType
<1>2. permits = <<>> /\ permits \in Seq(PermitType) /\ DOMAIN permits = {}
  BY EmptySeq DEF Init
<1>3. \A k \in CircuitKeys : circuits[k] = Closed
  BY DEF Init
<1>4. \A k \in CircuitKeys : Breaker[k[2]].window_size \in Nat /\ Breaker[k[2]].window_size >= 1
  BY BreakerTimes DEF CircuitKeys
<1>5. TypeOK
  BY <1>1, <1>2, <1>3, <1>4 DEF Init, TypeOK
<1>6. LedgersExact
  <2>1. ASSUME NEW t \in Tenants, NEW op \in Operations
        PROVE  attempts[<<t, op>>] = Cardinality(PermitsOf(t, op)) /\ attempts[<<t, op>>] <= Limits.retries + 1
    <3>1. PermitsOf(t, op) = {}
      BY <1>2 DEF PermitsOf
    <3>2. attempts[<<t, op>>] = 0
      BY DEF Init
    <3> QED
      BY <3>1, <3>2, FS_EmptySet, PolicyAssumption DEF ValidPolicy
  <2> QED
    BY <1>2, <2>1 DEF LedgersExact, Init
<1>7. CircuitsTimed
  BY <1>2, <1>3 DEF CircuitsTimed, Timed, Closed, Init
<1>8. RetryBudget /\ OneProbe
  BY <1>2 DEF RetryBudget, WithinRetries, OneProbe
<1>9. FailureContained
  BY <1>3 DEF FailureContained, Closed
<1> QED
  BY <1>5, <1>6, <1>7, <1>8, <1>9 DEF IInv

\* A refusal, evidence that is not accepted and the clock move no circuit and no ledger.
LEMMA QuietStep ==
    ASSUME IInv, UNCHANGED <<circuits, ledger, reported>>, now' \in Nat, now <= now'
    PROVE  IInv'
<1> USE DEF ledger, reported
<1>1. TypeOK /\ LedgersExact /\ CircuitsTimed /\ RetryBudget /\ FailureContained /\ OneProbe
  BY DEF IInv
<1>2. TypeOK'
  BY <1>1 DEF TypeOK
<1>3. LedgersExact'
  BY <1>1 DEF LedgersExact, PermitsOf
<1>4. CircuitsTimed'
  <2>1. ASSUME NEW k \in CircuitKeys
        PROVE  /\ circuits[k].opened_at <= now'
               /\ circuits[k].state = "half_open" =>
                    circuits[k].opened_at + Breaker[k[2]].open_seconds <= now'
    <3>1. circuits[k].opened_at \in Nat /\ Breaker[k[2]].open_seconds \in Nat /\ now \in Nat
      BY <1>1, BreakerTimes DEF TypeOK, CircuitType, CircuitKeys
    <3>2. /\ circuits[k].opened_at <= now
          /\ circuits[k].state = "half_open" =>
               circuits[k].opened_at + Breaker[k[2]].open_seconds <= now
      BY <1>1 DEF CircuitsTimed, Timed
    <3> QED
      BY <3>1, <3>2
  <2>2. ASSUME NEW i \in DOMAIN permits, permits[i].probe
        PROVE  Accounted(permits[i], circuits, now')
    <3>1. Accounted(permits[i], circuits, now)
      BY <1>1, <2>2 DEF CircuitsTimed
    <3>2. permits[i] \in PermitType /\ now \in Nat
      BY <1>1, ChargedKey DEF TypeOK
    <3>3. permits[i].since \in Nat /\ Breaker[permits[i].selected].open_seconds \in Nat
      BY <3>2, BreakerTimes DEF PermitType
    <3> QED
      BY <3>1, <3>2, <3>3 DEF Accounted
  <2> QED
    BY <2>1, <2>2 DEF CircuitsTimed, Timed
<1>5. RetryBudget' /\ FailureContained' /\ OneProbe'
  BY <1>1 DEF RetryBudget, WithinRetries, FailureContained, OneProbe
<1> QED
  BY <1>2, <1>3, <1>4, <1>5 DEF IInv

\* A refusal for dynamic reasons may take due circuits to half-open.
LEMMA BlockedStep ==
    ASSUME IInv, NEW req \in Requests, AuthorizeBlocked(req)
    PROVE  IInv'
<1> USE DEF ledger, reported
<1>1. TypeOK /\ LedgersExact /\ CircuitsTimed /\ RetryBudget /\ FailureContained /\ OneProbe
  BY DEF IInv
<1>2. /\ circuits' \in [CircuitKeys -> CircuitType]
      /\ \A k \in CircuitKeys : Moved(circuits[k], circuits'[k], k)
  BY <1>1, DecisionMoves DEF AuthorizeBlocked
<1>3. UNCHANGED <<now, permits, active, seenAttempts, attempts, activeKeys, committed, released, blamed>>
  BY DEF AuthorizeBlocked
<1>4. TypeOK'
  <2>1. ASSUME NEW k \in CircuitKeys
        PROVE  circuits'[k].samples = circuits[k].samples
    BY <1>1, <1>2 DEF Moved, TypeOK, CircuitType
  <2> QED
    BY <1>1, <1>2, <1>3, <2>1 DEF TypeOK
<1>5. LedgersExact'
  BY <1>1, <1>3 DEF LedgersExact, PermitsOf
<1>6. CircuitsTimed'
  BY <1>1, <1>2, <1>3, MovedTimed DEF CircuitsTimed
<1>7. RetryBudget' /\ OneProbe'
  BY <1>1, <1>3 DEF RetryBudget, WithinRetries, OneProbe
<1>8. FailureContained'
  BY <1>1, <1>2, <1>3 DEF FailureContained, Moved
<1> QED
  BY <1>4, <1>5, <1>6, <1>7, <1>8 DEF IInv

\* An accepted report consumes its permit and moves the circuit it is charged to.
LEMMA RecordedStep ==
    ASSUME IInv, NEW id \in DOMAIN permits, NEW out \in Outcomes, NEW rid \in ReportIds,
           OutcomeRecorded(id, out, rid)
    PROVE  IInv'
<1> DEFINE k0 == Charged(permits[id])
           after == AfterOutcome(circuits[k0], k0[2], out)
<1>1. TypeOK /\ LedgersExact /\ CircuitsTimed /\ RetryBudget /\ FailureContained /\ OneProbe
  BY DEF IInv
<1>2. k0 \in CircuitKeys /\ k0[2] \in Dependencies /\ k0 = <<permits[id].tenant, permits[id].selected>>
  BY <1>1, ChargedKey DEF TypeOK, CircuitKeys, Charged
<1>3. /\ UNCHANGED <<now, permits, seenAttempts, attempts>>
      /\ active' = active \ {id}
      /\ circuits' = [circuits EXCEPT ![k0] = after]
      /\ committed' = IF out.committed THEN committed \cup {id} ELSE committed
      /\ released' = IF out.committed THEN released ELSE released \cup {id}
      /\ blamed' = IF after.state = "open" THEN blamed \cup {k0} ELSE blamed
  BY <1>2 DEF OutcomeRecorded
<1>4. id \in active
  BY DEF OutcomeRecorded, ReportFindings, Finding
<1> HIDE DEF k0
<1>5. circuits[k0] \in CircuitType /\ now \in Nat
      /\ Len(circuits[k0].samples) <= Breaker[k0[2]].window_size
  BY <1>1, <1>2 DEF TypeOK
<1>6. /\ after \in CircuitType
      /\ Len(after.samples) <= Breaker[k0[2]].window_size
      /\ after.state # "half_open"
      /\ circuits[k0].state = "open" => after.state = "open"
      /\ after.state = "open" =>
           after.opened_at = now \/ (circuits[k0].state = "open" /\ after.opened_at = circuits[k0].opened_at)
      /\ after.opened_at \in {now, circuits[k0].opened_at, 0}
  BY <1>2, <1>5, ReportMoves
<1> HIDE DEF after
<1>7. /\ circuits' \in [CircuitKeys -> CircuitType]
      /\ circuits'[k0] = after
      /\ \A k \in CircuitKeys : k # k0 => circuits'[k] = circuits[k]
  BY <1>1, <1>2, <1>3, <1>6 DEF TypeOK
<1>8. TypeOK'
  <2>1. \A k \in CircuitKeys : Len(circuits'[k].samples) <= Breaker[k[2]].window_size
    BY <1>1, <1>6, <1>7 DEF TypeOK
  <2>2. (committed \cap released = {})' /\ (DOMAIN permits = active \cup committed \cup released)'
    BY <1>1, <1>3, <1>4 DEF TypeOK, LedgersExact
  <2> QED
    BY <1>1, <1>3, <1>7, <2>1, <2>2 DEF TypeOK
<1>9. LedgersExact'
  <2>1. (active \cap (committed \cup released) = {})'
    BY <1>1, <1>3 DEF LedgersExact
  <2> QED
    BY <1>1, <1>3, <2>1 DEF LedgersExact, PermitsOf
<1>10. CircuitsTimed'
  <2>1. ASSUME NEW k \in CircuitKeys
        PROVE  /\ circuits'[k].opened_at <= now
               /\ circuits'[k].state = "half_open" =>
                    circuits'[k].opened_at + Breaker[k[2]].open_seconds <= now
    <3>1. /\ circuits[k].opened_at <= now
          /\ circuits[k].state = "half_open" =>
               circuits[k].opened_at + Breaker[k[2]].open_seconds <= now
      BY <1>1 DEF CircuitsTimed, Timed
    <3> QED
      BY <3>1, <1>5, <1>6, <1>7
  <2>2. ASSUME NEW i \in DOMAIN permits, permits[i].probe
        PROVE  Accounted(permits[i], circuits', now)
    <3>1. Accounted(permits[i], circuits, now)
      BY <1>1, <2>2 DEF CircuitsTimed
    <3>2. permits[i] \in PermitType /\ Charged(permits[i]) \in CircuitKeys
      BY <1>1, ChargedKey DEF TypeOK
    <3>3. permits[i].since \in Nat /\ Breaker[permits[i].selected].open_seconds >= 1
          /\ Breaker[permits[i].selected].open_seconds \in Nat
      BY <3>2, BreakerTimes DEF PermitType
    <3>4. CASE Charged(permits[i]) # k0
      BY <3>1, <3>2, <3>4, <1>7 DEF Accounted
    <3>5. CASE Charged(permits[i]) = k0
      <4>1. permits[i].since < now
        BY <3>1, <3>3, <1>5 DEF Accounted
      <4>2. after.state = "closed" \/ after.state = "open"
        BY <1>6 DEF CircuitType
      <4>3. CASE after.state = "closed"
        BY <3>1, <3>5, <4>3, <1>7 DEF Accounted
      <4>4. CASE after.state = "open"
        BY <3>1, <3>5, <4>1, <4>4, <1>6, <1>7 DEF Accounted
      <4> QED
        BY <4>2, <4>3, <4>4
    <3> QED
      BY <3>4, <3>5
  <2> QED
    BY <1>3, <2>1, <2>2 DEF CircuitsTimed, Timed
<1>11. RetryBudget' /\ OneProbe'
  BY <1>1, <1>3 DEF RetryBudget, WithinRetries, OneProbe
<1>12. FailureContained'
  <2>1. ASSUME NEW k \in CircuitKeys, circuits'[k].state # "closed"
        PROVE  k \in blamed'
    <3>1. CASE k # k0
      BY <2>1, <3>1, <1>1, <1>3, <1>7 DEF FailureContained
    <3>2. CASE k = k0
      <4>1. after.state = "open"
        BY <2>1, <3>2, <1>6, <1>7 DEF CircuitType
      <4> QED
        BY <4>1, <3>2, <1>3
    <3> QED
      BY <3>1, <3>2
  <2> QED
    BY <2>1 DEF FailureContained
<1> QED
  BY <1>8, <1>9, <1>10, <1>11, <1>12 DEF IInv

\* The manager's count of attempts bounds the permits of an operation.
LEMMA CountedAttempts == TypeOK /\ LedgersExact => WithinRetries
<1> SUFFICES ASSUME TypeOK, LedgersExact, NEW i \in DOMAIN permits
             PROVE  Cardinality({j \in DOMAIN permits : /\ permits[j].tenant = permits[i].tenant
                                                        /\ permits[j].operation = permits[i].operation})
                      <= Limits.retries + 1
  BY DEF WithinRetries
<1>1. permits[i].tenant \in Tenants /\ permits[i].operation \in Operations
  <2>1. permits[i] \in PermitType
    BY ChargedKey DEF TypeOK
  <2> QED
    BY <2>1 DEF PermitType
<1>2. /\ attempts[<<permits[i].tenant, permits[i].operation>>]
           = Cardinality(PermitsOf(permits[i].tenant, permits[i].operation))
      /\ attempts[<<permits[i].tenant, permits[i].operation>>] <= Limits.retries + 1
  BY <1>1 DEF LedgersExact
<1>3. PermitsOf(permits[i].tenant, permits[i].operation)
        = {j \in DOMAIN permits : permits[j].tenant = permits[i].tenant /\ permits[j].operation = permits[i].operation}
  BY DEF PermitsOf
<1> QED
  BY <1>2, <1>3

LEMMA Appended ==
    ASSUME NEW S, NEW s \in Seq(S), NEW e \in S
    PROVE  /\ Append(s, e) \in Seq(S)
           /\ DOMAIN Append(s, e) = DOMAIN s \cup {Len(s) + 1}
           /\ Len(s) + 1 \notin DOMAIN s
           /\ Append(s, e)[Len(s) + 1] = e
           /\ \A i \in DOMAIN s : Append(s, e)[i] = s[i]
           /\ IsFiniteSet(DOMAIN s)
<1>1. Len(s) \in Nat /\ DOMAIN s = 1 .. Len(s)
  OBVIOUS
<1>2. Append(s, e) \in Seq(S) /\ DOMAIN Append(s, e) = 1 .. Len(s) + 1
  BY <1>1
<1>3. IsFiniteSet(DOMAIN s)
  BY <1>1, FS_Interval
<1> QED
  BY <1>1, <1>2, <1>3

\* A granted attempt appends its permit; on a half-open circuit the permit is the probe.
LEMMA GrantedStep ==
    ASSUME IInv, NEW req \in Requests, AuthorizeGranted(req)
    PROVE  IInv'
<1> DEFINE d == Decision(req)
           k0 == <<req.tenant, d.selected>>
           c0 == d.circuits[k0]
           p == Permit(req, d.selected, c0)
           n == Len(permits) + 1
<1>1. TypeOK /\ LedgersExact /\ CircuitsTimed /\ RetryBudget /\ FailureContained /\ OneProbe
  BY DEF IInv
<1>2. /\ d.circuits \in [CircuitKeys -> CircuitType]
      /\ \A k \in CircuitKeys : Moved(circuits[k], d.circuits[k], k)
  BY <1>1, DecisionMoves
<1>3. StaticFindings(req) = {} /\ d.findings = {}
  BY DEF AuthorizeGranted
<1>4. /\ req.dependency \in Dependencies /\ d.selected \in Dependencies
      /\ c0.state # "open"
      /\ c0.state = "half_open" => ~c0.probe
      /\ MutableFindings(req) = {}
  BY <1>3, GrantedCircuit
<1>5. /\ UNCHANGED <<now, committed, released, blamed>>
      /\ circuits' = IF c0.state = "half_open" THEN [d.circuits EXCEPT ![k0].probe = TRUE] ELSE d.circuits
      /\ permits' = Append(permits, p)
      /\ active' = active \cup {n}
      /\ seenAttempts' = seenAttempts \cup {<<req.tenant, req.attempt>>}
      /\ attempts' = [attempts EXCEPT ![<<req.tenant, req.operation>>] = @ + 1]
  BY DEF AuthorizeGranted, reported
<1>6. /\ req.tenant \in Tenants /\ req.side_effecting \in BOOLEAN /\ req.operation \in Operations
      /\ k0 \in CircuitKeys
  BY <1>4, InputAssumption DEF Operations, CircuitKeys
<1>7. /\ p.tenant = req.tenant /\ p.operation = req.operation /\ p.attempt = req.attempt
      /\ p.selected = d.selected /\ p.probe = (c0.state = "half_open") /\ p.since = c0.opened_at
      /\ Charged(p) = k0
  BY DEF Permit, Charged
<1>8. c0 \in CircuitType
  BY <1>2, <1>6
<1>9. p \in PermitType
  <2>1. now \in Nat /\ now + Limits.permit_ttl \in Nat
    BY <1>1, PolicyAssumption DEF TypeOK, ValidPolicy
  <2>2. c0.opened_at \in Nat
    BY <1>8 DEF CircuitType
  <2> HIDE DEF d, c0
  <2> QED
    BY <1>4, <1>6, <2>1, <2>2 DEF Permit, PermitType
<1> HIDE DEF d, k0, c0, p
<1>11. /\ permits' \in Seq(PermitType)
       /\ DOMAIN permits' = DOMAIN permits \cup {n}
       /\ n \notin DOMAIN permits
       /\ permits'[n] = p
       /\ \A i \in DOMAIN permits : permits'[i] = permits[i]
       /\ IsFiniteSet(DOMAIN permits)
  <2>1. permits \in Seq(PermitType)
    BY <1>1 DEF TypeOK
  <2> QED
    BY <2>1, <1>5, <1>9, Appended
<1> HIDE DEF n
<1>12. /\ circuits' \in [CircuitKeys -> CircuitType]
       /\ \A k \in CircuitKeys : k # k0 => circuits'[k] = d.circuits[k]
       /\ circuits'[k0].state = c0.state /\ circuits'[k0].opened_at = c0.opened_at
       /\ circuits'[k0].samples = c0.samples
       /\ c0.state = "half_open" => circuits'[k0].probe
       /\ c0 = d.circuits[k0]
  <2>1. c0 = d.circuits[k0]
    BY DEF c0
  <2>2. CASE c0.state = "half_open"
    <3>1. circuits' = [d.circuits EXCEPT ![k0] = [c0 EXCEPT !.probe = TRUE]]
      BY <1>5, <2>1, <2>2
    <3>2. [c0 EXCEPT !.probe = TRUE] \in CircuitType
      BY <1>8 DEF CircuitType
    <3> QED
      BY <3>1, <3>2, <2>1, <1>2, <1>6, <1>8 DEF CircuitType
  <2>3. CASE c0.state # "half_open"
    BY <2>1, <2>3, <1>2, <1>5
  <2> QED
    BY <2>2, <2>3
<1>13. TypeOK'
  <2>1. ASSUME NEW k \in CircuitKeys
        PROVE  Len(circuits'[k].samples) <= Breaker[k[2]].window_size
    <3>1. d.circuits[k].samples = circuits[k].samples
      BY <1>1, <1>2 DEF Moved, TypeOK, CircuitType
    <3>2. circuits'[k].samples = circuits[k].samples
      BY <3>1, <1>12
    <3> QED
      BY <3>2, <1>1 DEF TypeOK
  <2>2. attempts' \in [Tenants \X Operations -> Nat]
    BY <1>1, <1>5, <1>6 DEF TypeOK
  <2>3. DOMAIN permits' = active' \cup committed' \cup released'
    BY <1>1, <1>5, <1>11 DEF TypeOK
  <2> QED
    BY <1>1, <1>5, <1>11, <1>12, <2>1, <2>2, <2>3 DEF TypeOK
<1>14. LedgersExact'
  <2>1. ASSUME NEW t \in Tenants, NEW op \in Operations
        PROVE  /\ attempts'[<<t, op>>] = Cardinality(PermitsOf(t, op)')
               /\ attempts'[<<t, op>>] <= Limits.retries + 1
    <3>1. /\ attempts[<<t, op>>] = Cardinality(PermitsOf(t, op))
          /\ attempts[<<t, op>>] <= Limits.retries + 1
          /\ attempts[<<t, op>>] \in Nat
      BY <1>1 DEF LedgersExact, TypeOK
    <3>2. CASE t = req.tenant /\ op = req.operation
      <4>1. attempts'[<<t, op>>] = attempts[<<t, op>>] + 1
        BY <3>2, <1>1, <1>5, <1>6 DEF TypeOK
      <4>2. attempts[<<t, op>>] <= Limits.retries
        BY <3>1, <3>2, <1>4, PolicyAssumption DEF MutableFindings, Finding, AttemptsOf, ValidPolicy
      <4>3. {j \in DOMAIN permits' : permits'[j].tenant = t /\ permits'[j].operation = op}
              = {j \in DOMAIN permits : permits[j].tenant = t /\ permits[j].operation = op} \cup {n}
        BY <3>2, <1>7, <1>11
      <4>4. PermitsOf(t, op)' = PermitsOf(t, op) \cup {n}
        BY <4>3 DEF PermitsOf
      <4>5. IsFiniteSet(PermitsOf(t, op)) /\ n \notin PermitsOf(t, op)
        BY <1>11, FS_Subset DEF PermitsOf
      <4>6. Cardinality(PermitsOf(t, op) \cup {n}) = Cardinality(PermitsOf(t, op)) + 1
        BY <4>5, FS_AddElement
      <4>7. Limits.retries \in Nat
        BY PolicyAssumption DEF ValidPolicy
      <4> HIDE DEF n
      <4> QED
        BY <3>1, <4>1, <4>2, <4>4, <4>6, <4>7
    <3>3. CASE ~(t = req.tenant /\ op = req.operation)
      <4>1. attempts'[<<t, op>>] = attempts[<<t, op>>]
        <5>1. <<t, op>> # <<req.tenant, req.operation>>
          BY <3>3
        <5> QED
          BY <5>1, <1>1, <1>5 DEF TypeOK
      <4>2. {j \in DOMAIN permits' : permits'[j].tenant = t /\ permits'[j].operation = op}
              = {j \in DOMAIN permits : permits[j].tenant = t /\ permits[j].operation = op}
        BY <3>3, <1>7, <1>11
      <4>3. PermitsOf(t, op)' = PermitsOf(t, op)
        BY <4>2 DEF PermitsOf
      <4> QED
        BY <3>1, <4>1, <4>3
    <3> QED
      BY <3>2, <3>3
  <2>2. \A i \in DOMAIN permits' : <<permits'[i].tenant, permits'[i].attempt>> \in seenAttempts'
    BY <1>1, <1>5, <1>7, <1>11 DEF LedgersExact
  <2>3. active' \cap (committed' \cup released') = {}
    BY <1>1, <1>5, <1>11 DEF LedgersExact, TypeOK
  <2> QED
    BY <2>1, <2>2, <2>3 DEF LedgersExact
<1>15. /\ Timed(d.circuits, now)
       /\ \A i \in DOMAIN permits : permits[i].probe => Accounted(permits[i], d.circuits, now)
  BY <1>1, <1>2, MovedTimed
\* an earlier probe of a half-open circuit without a probe under way is of an earlier opening
<1>16. ASSUME NEW i \in DOMAIN permits, permits[i].probe, Charged(permits[i]) = k0, c0.state = "half_open"
       PROVE  permits[i].since < c0.opened_at
  BY <1>4, <1>12, <1>15, <1>16 DEF Accounted
<1>17. CircuitsTimed'
  <2>1. Timed(circuits', now)
    BY <1>12, <1>15 DEF Timed
  <2>2. ASSUME NEW i \in DOMAIN permits, permits[i].probe
        PROVE  Accounted(permits[i], circuits', now)
    <3>1. Accounted(permits[i], d.circuits, now) /\ Charged(permits[i]) \in CircuitKeys
      BY <1>1, <1>15, <2>2, ChargedKey DEF TypeOK
    <3>2. CASE Charged(permits[i]) # k0
      BY <3>1, <3>2, <1>12 DEF Accounted
    <3>3. CASE Charged(permits[i]) = k0
      BY <3>1, <3>3, <1>4, <1>12, <1>16, <2>2 DEF Accounted
    <3> QED
      BY <3>2, <3>3
  <2>3. p.probe => Accounted(p, circuits', now)
    <3>1. c0.state = "half_open" => c0.opened_at + Breaker[k0[2]].open_seconds <= now
      BY <1>6, <1>12, <1>15 DEF Timed
    <3>2. k0[2] = p.selected
      BY <1>7 DEF k0
    <3> QED
      BY <3>1, <3>2, <1>7, <1>12 DEF Accounted
  <2>4. \A i \in DOMAIN permits' : permits'[i].probe => Accounted(permits'[i], circuits', now)
    BY <1>11, <2>2, <2>3
  <2> QED
    BY <1>5, <2>1, <2>4 DEF CircuitsTimed
<1>18. RetryBudget'
  <2>1. ASSUME NEW i \in DOMAIN permits', NEW j \in DOMAIN permits',
               permits'[i].tenant = permits'[j].tenant, permits'[i].attempt = permits'[j].attempt
        PROVE  i = j
    <3>1. <<req.tenant, req.attempt>> \notin seenAttempts
      BY <1>4 DEF MutableFindings, Finding
    <3>2. \A m \in DOMAIN permits : <<permits[m].tenant, permits[m].attempt>> # <<p.tenant, p.attempt>>
      BY <3>1, <1>1, <1>7 DEF LedgersExact
    <3>3. i \in DOMAIN permits /\ j \in DOMAIN permits => i = j
      BY <2>1, <1>1, <1>11 DEF RetryBudget
    <3> QED
      BY <2>1, <3>2, <3>3, <1>11
  <2>2. WithinRetries'
    BY <1>13, <1>14, CountedAttempts, PTL
  <2> QED
    BY <2>1, <2>2 DEF RetryBudget
<1>19. OneProbe'
  <2>1. ASSUME NEW i \in DOMAIN permits, permits[i].probe, p.probe,
               permits[i].tenant = p.tenant, permits[i].selected = p.selected
        PROVE  permits[i].since # p.since
    <3>1. Charged(permits[i]) = k0 /\ c0.state = "half_open"
      BY <2>1, <1>7 DEF Charged
    <3>2. permits[i].since < c0.opened_at
      BY <2>1, <3>1, <1>16
    <3>3. permits[i].since \in Nat /\ c0.opened_at \in Nat
      BY <1>1, <1>8, ChargedKey DEF TypeOK, PermitType, CircuitType
    <3> QED
      BY <3>2, <3>3, <1>7
  <2>2. ASSUME NEW i \in DOMAIN permits, NEW j \in DOMAIN permits,
               permits[i].probe /\ permits[j].probe, permits[i].tenant = permits[j].tenant,
               permits[i].selected = permits[j].selected, permits[i].since = permits[j].since
        PROVE  i = j
    BY <2>2, <1>1 DEF OneProbe
  <2> QED
    BY <2>1, <2>2, <1>11 DEF OneProbe
<1>20. FailureContained'
  <2>1. ASSUME NEW k \in CircuitKeys, circuits'[k].state # "closed"
        PROVE  circuits[k].state # "closed"
    <3>1. d.circuits[k].state # "closed"
      BY <2>1, <1>12
    <3> QED
      BY <3>1, <1>2 DEF Moved
  <2> QED
    BY <2>1, <1>1, <1>5 DEF FailureContained
<1> QED
  BY <1>13, <1>14, <1>17, <1>18, <1>19, <1>20 DEF IInv

LEMMA NextIInv == IInv /\ [Next]_vars => IInv'
<1> SUFFICES ASSUME IInv, [Next]_vars PROVE IInv'
  OBVIOUS
<1>1. now \in Nat
  BY DEF IInv, TypeOK
<1>2. ASSUME NEW req \in Requests, AuthorizeRefused(req) PROVE IInv'
  BY <1>1, <1>2, QuietStep DEF AuthorizeRefused
<1>3. ASSUME NEW req \in Requests, AuthorizeBlocked(req) PROVE IInv'
  BY <1>3, BlockedStep
<1>4. ASSUME NEW req \in Requests, AuthorizeGranted(req) PROVE IInv'
  BY <1>4, GrantedStep
<1>5. ASSUME NEW id \in DOMAIN permits, NEW out \in Outcomes, NEW rid \in ReportIds,
             OutcomeRejected(id, out, rid)
      PROVE  IInv'
  BY <1>1, <1>5, QuietStep DEF OutcomeRejected
<1>6. ASSUME NEW id \in DOMAIN permits, NEW out \in Outcomes, NEW rid \in ReportIds,
             OutcomeRecorded(id, out, rid)
      PROVE  IInv'
  BY <1>6, RecordedStep
<1>7. CASE Tick
  BY <1>1, <1>7, QuietStep DEF Tick
<1>8. CASE UNCHANGED vars
  BY <1>1, <1>8, QuietStep DEF vars, ledger, reported
<1> QED
  BY <1>2, <1>3, <1>4, <1>5, <1>6, <1>7, <1>8 DEF Next, Authorize, RecordOutcome

-----------------------------------------------------------------------------
(* Theorems *)

THEOREM Inductive == Spec => []IInv
BY InitIInv, NextIInv, PTL DEF Spec

\* Every permit is out or was settled one way, and no circuit keeps more samples than
\* its window.
THEOREM TypeCorrect == Spec => []TypeOK
<1>1. IInv => TypeOK
  BY DEF IInv
<1> QED
  BY <1>1, Inductive, PTL

\* No order of attempts, outcomes and fallbacks yields more permits of an operation than
\* the retry policy allows, and no attempt id gets two.
THEOREM RetriesBounded == Spec => []RetryBudget
<1>1. IInv => RetryBudget
  BY DEF IInv
<1> QED
  BY <1>1, Inductive, PTL

\* A circuit leaves closed only on account of its own tenant's calls of its dependency.
THEOREM FailuresContained == Spec => []FailureContained
<1>1. IInv => FailureContained
  BY DEF IInv
<1> QED
  BY <1>1, Inductive, PTL

\* Only a granted attempt issues a permit, and only to a circuit that is not open or
\* whose time has passed.
LEMMA DispatchStep ==
    ASSUME IInv, [Next]_vars,
           NEW i \in DOMAIN permits' \ DOMAIN permits,
           circuits[<<permits'[i].tenant, permits'[i].selected>>].state = "open"
    PROVE  now >= circuits[<<permits'[i].tenant, permits'[i].selected>>].opened_at
                    + Breaker[permits'[i].selected].open_seconds
<1>1. PICK req \in Requests : AuthorizeGranted(req)
  BY DEF Next, Authorize, AuthorizeRefused, AuthorizeBlocked, RecordOutcome, OutcomeRejected,
         OutcomeRecorded, Tick, vars, ledger
<1> DEFINE d == Decision(req)
           p == Permit(req, d.selected, d.circuits[<<req.tenant, d.selected>>])
           k0 == <<req.tenant, d.selected>>
<1>2. /\ TypeOK /\ permits \in Seq(PermitType)
      /\ now \in Nat /\ circuits \in [CircuitKeys -> CircuitType]
  BY DEF IInv, TypeOK
<1>3. permits' = Append(permits, p)
  BY <1>1 DEF AuthorizeGranted
<1>4. p.tenant = req.tenant /\ p.selected = d.selected
  BY DEF Permit
<1> HIDE DEF p
<1>5. permits'[i] = p
  BY <1>2, <1>3
<1>6. d.selected \in Dependencies /\ d.circuits[k0].state # "open"
  BY <1>1, GrantedCircuit DEF AuthorizeGranted
<1>7. k0 \in CircuitKeys /\ Moved(circuits[k0], d.circuits[k0], k0)
  BY <1>2, <1>6, DecisionMoves, InputAssumption DEF CircuitKeys
<1>8. circuits[k0].state = "open"
  BY <1>4, <1>5
<1>9. circuits[k0].opened_at + Breaker[d.selected].open_seconds <= now
  BY <1>6, <1>7, <1>8 DEF Moved
<1>10. circuits[k0].opened_at \in Nat /\ Breaker[d.selected].open_seconds \in Nat
  BY <1>2, <1>6, <1>7, BreakerTimes DEF CircuitType
<1> HIDE DEF d
<1> QED
  BY <1>2, <1>4, <1>5, <1>9, <1>10

\* authorize only takes an open circuit to half-open, and a report leaves it open.
LEMMA OpenStep ==
    ASSUME IInv, [Next]_vars, NEW k \in CircuitKeys, circuits[k].state = "open"
    PROVE  circuits'[k].state # "closed"
<1>1. TypeOK /\ now \in Nat /\ circuits \in [CircuitKeys -> CircuitType]
  BY DEF IInv, TypeOK
<1>2. CASE UNCHANGED circuits
  BY <1>2
<1>3. ASSUME NEW req \in Requests, AuthorizeBlocked(req) PROVE circuits'[k].state # "closed"
  <2>1. circuits' = Decision(req).circuits
    BY <1>3 DEF AuthorizeBlocked
  <2>2. Moved(circuits[k], circuits'[k], k) /\ circuits[k] \in CircuitType
    BY <1>1, <2>1, DecisionMoves
  <2> QED
    BY <2>2 DEF Moved, CircuitType
<1>4. ASSUME NEW req \in Requests, AuthorizeGranted(req) PROVE circuits'[k].state # "closed"
  <2> DEFINE cs == Decision(req).circuits
             k0 == <<req.tenant, Decision(req).selected>>
  <2>1. cs \in [CircuitKeys -> CircuitType] /\ Moved(circuits[k], cs[k], k)
    BY <1>1, DecisionMoves
  <2>2. circuits' = cs \/ circuits' = [cs EXCEPT ![k0].probe = TRUE]
    BY <1>4 DEF AuthorizeGranted
  <2>3. cs[k].state # "closed"
    BY <1>1, <2>1 DEF Moved, CircuitType
  <2> HIDE DEF cs, k0
  <2>4. cs[k] \in CircuitType
    BY <2>1
  <2> QED
    BY <2>1, <2>2, <2>3, <2>4 DEF CircuitType
<1>5. ASSUME NEW id \in DOMAIN permits, NEW out \in Outcomes, NEW rid \in ReportIds,
             OutcomeRecorded(id, out, rid)
      PROVE  circuits'[k].state # "closed"
  <2> DEFINE k0 == Charged(permits[id])
             after == AfterOutcome(circuits[k0], k0[2], out)
  <2>1. k0 \in CircuitKeys /\ k0[2] \in Dependencies
    BY <1>1, ChargedKey DEF TypeOK, CircuitKeys
  <2>2. circuits' = [circuits EXCEPT ![k0] = after]
    BY <1>5 DEF OutcomeRecorded
  <2>3. /\ circuits[k0] \in CircuitType
        /\ Len(circuits[k0].samples) <= Breaker[k0[2]].window_size
    BY <1>1, <2>1 DEF TypeOK
  <2>4. circuits[k0].state = "open" => after.state = "open"
    BY <1>1, <2>1, <2>3, ReportMoves
  <2> HIDE DEF k0, after
  <2> QED
    BY <1>1, <2>1, <2>2, <2>4
<1> QED
  BY <1>2, <1>3, <1>4, <1>5
     DEF Next, Authorize, AuthorizeRefused, RecordOutcome, OutcomeRejected, Tick, vars

\* An open circuit lets nothing through before its time and a single probe after it, and
\* closes by way of half-open only.
THEOREM CircuitsRespected == Spec => CircuitRespected
<1>1. IInv => OneProbe
  BY DEF IInv
<1>2. IInv /\ [Next]_vars => NoDispatchWhileOpen
  BY DispatchStep DEF NoDispatchWhileOpen
<1>3. IInv /\ [Next]_vars => NoShortcutToClosed
  BY OpenStep DEF NoShortcutToClosed
<1> QED
  BY <1>1, <1>2, <1>3, NextIInv, Inductive, PTL DEF Spec, CircuitRespected

-----------------------------------------------------------------------------
(* Idempotency keys.  _finish_side_effect releases the key of any permit,   *)
(* so a reservation is safe only among callers that put keys on effects     *)
(* alone; the run containment_mixed shows what happens otherwise.           *)

KeysOnlyOnEffects == \A r \in Requests : r.key # NoKey => r.side_effecting

KeysHeld ==
    /\ \A i \in DOMAIN permits : permits[i].side_effecting <=> permits[i].key # NoKey
    /\ \A i \in active : permits[i].side_effecting => KeyOf(permits[i]) \in activeKeys
    /\ \A i \in committed : permits[i].side_effecting => KeyOf(permits[i]) \in committedKeys

LEMMA KeysReserved ==
    ASSUME KeysOnlyOnEffects, IInv, KeysHeld, OneEffectPerKey,
           NEW req \in Requests, AuthorizeGranted(req)
    PROVE  KeysHeld' /\ OneEffectPerKey'
<1> DEFINE p == Permit(req, Decision(req).selected,
                       Decision(req).circuits[<<req.tenant, Decision(req).selected>>])
           n == Len(permits) + 1
<1>1. TypeOK /\ LedgersExact /\ permits \in Seq(PermitType)
  BY DEF IInv, TypeOK
<1>2. /\ permits' = Append(permits, p)
      /\ active' = active \cup {n}
      /\ activeKeys' = IF req.side_effecting /\ req.key # NoKey
                       THEN activeKeys \cup {KeyOf(req)} ELSE activeKeys
      /\ UNCHANGED <<committed, released, committedKeys>>
      /\ MutableFindings(req) = {}
  BY GrantedCircuit DEF AuthorizeGranted, reported
<1>3. /\ p.tenant = req.tenant /\ p.key = req.key /\ p.side_effecting = req.side_effecting
      /\ KeyOf(p) = KeyOf(req)
  BY DEF Permit, KeyOf
<1> HIDE DEF p
<1>4. /\ req.side_effecting <=> req.key # NoKey
      /\ req.side_effecting => KeyOf(req) \notin activeKeys \cup committedKeys
  BY <1>2, InputAssumption DEF MutableFindings, Finding, KeysOnlyOnEffects
<1>5. /\ DOMAIN permits' = DOMAIN permits \cup {n}
      /\ n \notin DOMAIN permits
      /\ permits'[n] = p
      /\ \A i \in DOMAIN permits : permits'[i] = permits[i]
  BY <1>1, <1>2
<1>6. active \subseteq DOMAIN permits /\ committed \subseteq DOMAIN permits /\ n \notin released
      /\ DOMAIN permits = active \cup committed \cup released
  BY <1>1, <1>5 DEF TypeOK
<1> HIDE DEF n
<1>7. KeysHeld'
  <2>1. \A i \in DOMAIN permits' : permits'[i].side_effecting <=> permits'[i].key # NoKey
    BY <1>3, <1>4, <1>5 DEF KeysHeld
  <2>2. \A i \in active' : permits'[i].side_effecting => KeyOf(permits'[i]) \in activeKeys'
    BY <1>2, <1>3, <1>4, <1>5, <1>6 DEF KeysHeld
  <2>3. \A i \in committed' : permits'[i].side_effecting => KeyOf(permits'[i]) \in committedKeys'
    BY <1>2, <1>5, <1>6 DEF KeysHeld
  <2> QED
    BY <2>1, <2>2, <2>3 DEF KeysHeld, KeyOf
<1>8. OneEffectPerKey'
  <2>1. ASSUME NEW i \in DOMAIN permits, i \notin released, permits[i].side_effecting,
               p.side_effecting
        PROVE  KeyOf(permits[i]) # KeyOf(p)
    BY <2>1, <1>3, <1>4, <1>6 DEF KeysHeld
  <2>2. ASSUME NEW i \in Outstanding', NEW j \in Outstanding', KeyOf(permits'[i]) = KeyOf(permits'[j])
        PROVE  i = j
    <3>1. i \in DOMAIN permits /\ j \in DOMAIN permits => i \in Outstanding /\ j \in Outstanding
      BY <2>2, <1>2, <1>5 DEF Outstanding
    <3>2. i \in DOMAIN permits /\ j \in DOMAIN permits => i = j
      BY <2>2, <3>1, <1>5 DEF OneEffectPerKey
    <3> QED
      BY <2>1, <2>2, <3>2, <1>2, <1>5 DEF Outstanding
  <2> QED
    BY <2>2 DEF OneEffectPerKey, KeyOf
<1> QED
  BY <1>7, <1>8

LEMMA KeysSettled ==
    ASSUME IInv, KeysHeld, OneEffectPerKey,
           NEW id \in DOMAIN permits, NEW out \in Outcomes, NEW rid \in ReportIds,
           OutcomeRecorded(id, out, rid)
    PROVE  KeysHeld' /\ OneEffectPerKey'
<1>1. TypeOK /\ LedgersExact
  BY DEF IInv
<1>2. /\ UNCHANGED permits
      /\ id \in active /\ active' = active \ {id}
      /\ activeKeys' = activeKeys \ {KeyOf(permits[id])}
      /\ committedKeys' = IF out.committed /\ permits[id].key # NoKey
                          THEN committedKeys \cup {KeyOf(permits[id])} ELSE committedKeys
      /\ committed' = IF out.committed THEN committed \cup {id} ELSE committed
      /\ released' = IF out.committed THEN released ELSE released \cup {id}
  BY DEF OutcomeRecorded, ReportFindings, Finding
<1>3. active \cap (committed \cup released) = {} /\ active \subseteq DOMAIN permits
  BY <1>1 DEF TypeOK, LedgersExact
\* no other attempt under way holds the key this report releases
<1>4. ASSUME NEW i \in active, i # id, permits[i].side_effecting
      PROVE  KeyOf(permits[i]) # KeyOf(permits[id])
  <2>1. CASE permits[id].side_effecting
    BY <2>1, <1>2, <1>3, <1>4 DEF OneEffectPerKey, Outstanding
  <2>2. CASE ~permits[id].side_effecting
    <3>1. permits[id].key = NoKey /\ permits[i].key # NoKey
      BY <2>2, <1>3, <1>4 DEF KeysHeld
    <3> QED
      BY <3>1 DEF KeyOf
  <2> QED
    BY <2>1, <2>2
<1>5. KeysHeld'
  <2>1. \A i \in active' : permits[i].side_effecting => KeyOf(permits[i]) \in activeKeys'
    BY <1>2, <1>4 DEF KeysHeld
  <2>2. \A i \in committed' : permits[i].side_effecting => KeyOf(permits[i]) \in committedKeys'
    BY <1>2 DEF KeysHeld
  <2> QED
    BY <1>2, <2>1, <2>2 DEF KeysHeld, KeyOf
<1>6. Outstanding' \subseteq Outstanding
  BY <1>2 DEF Outstanding
<1>7. OneEffectPerKey'
  BY <1>2, <1>6 DEF OneEffectPerKey, KeyOf
<1> QED
  BY <1>5, <1>7

LEMMA KeysStep ==
    ASSUME KeysOnlyOnEffects
    PROVE  IInv /\ KeysHeld /\ OneEffectPerKey /\ [Next]_vars => KeysHeld' /\ OneEffectPerKey'
<1> SUFFICES ASSUME IInv, KeysHeld, OneEffectPerKey, [Next]_vars
             PROVE  KeysHeld' /\ OneEffectPerKey'
  OBVIOUS
<1>1. CASE UNCHANGED <<permits, active, activeKeys, committedKeys, committed, released>>
  BY <1>1 DEF KeysHeld, OneEffectPerKey, Outstanding, KeyOf
<1>2. ASSUME NEW req \in Requests, AuthorizeGranted(req) PROVE KeysHeld' /\ OneEffectPerKey'
  BY <1>2, KeysReserved
<1>3. ASSUME NEW id \in DOMAIN permits, NEW out \in Outcomes, NEW rid \in ReportIds,
             OutcomeRecorded(id, out, rid)
      PROVE  KeysHeld' /\ OneEffectPerKey'
  BY <1>3, KeysSettled
<1> QED
  BY <1>1, <1>2, <1>3
     DEF Next, Authorize, AuthorizeRefused, AuthorizeBlocked, RecordOutcome, OutcomeRejected, Tick,
         vars, ledger, reported

\* Where callers put idempotency keys on effects alone, at most one of the attempts that
\* name a key may still commit or has committed.
THEOREM OneEffect == ASSUME KeysOnlyOnEffects PROVE Spec => []OneEffectPerKey
<1>1. Init => KeysHeld /\ OneEffectPerKey
  BY DEF Init, KeysHeld, OneEffectPerKey, Outstanding
<1> QED
  BY <1>1, KeysStep, Inductive, PTL DEF Spec
=============================================================================
