---------------------------- MODULE MCContainment ---------------------------
(* One FailureContainment and two kinds of use of it: effects and their      *)
(* retries, and circuits of two tenants; component says whose calls a        *)
(* behaviour makes.  A configuration chooses components, thresholds, calls.  *)
EXTENDS FailureContainment, TLC

CONSTANTS
    Components,     \* the kinds of use that make calls
    EffectCalls,    \* the calls of the one
    CircuitCalls    \* and of the other

CONSTANTS t1, t2, o1, o2, o3, no_key, no_fallback, v1, v2, w1, w2, w3, x1, x2

-----------------------------------------------------------------------------
(* Dependencies, policies, calls and outcomes *)

Services == {"primary", "sibling", "backup"}
Declared == {"f"}

\* A primary and a sibling in one failure domain, a backup in another.
DomainOf == [d \in Services |-> IF d = "backup" THEN "b" ELSE "a"]
OneOpen == [x \in {"a", "b"} |-> 1]
AllHealthy == [d \in Services |-> "healthy"]
Everyone == [x \in Services \cup {"f"} |-> {}]
BackupDeclared == [f \in {"f"} |-> [primary |-> "primary", target |-> "backup", digest |-> "pinned"]]
PrimaryFallback == [d \in Services |-> IF d = "primary" THEN {"f"} ELSE {}]

\* A failure without a success beside it opens a circuit for one tick.
Sensitive == [window_size |-> 2, minimum_samples |-> 1, error_percent |-> 60, latency |-> 9,
              cost |-> 9, abnormal |-> 9, open_seconds |-> 1]
SensitiveBreaker == [d \in Services |-> Sensitive]
\* One failure in two samples is enough.
StrictBreaker == [d \in Services |-> [Sensitive EXCEPT !.error_percent = 50]]
\* Two samples are needed before an error rate counts; cost alone opens at 2.
PatientBreaker == [d \in Services |-> [Sensitive EXCEPT !.minimum_samples = 2, !.cost = 2]]

SmallLimits == [retries |-> 1, recursion |-> 1, cost |-> 1, abnormal |-> 0, permit_ttl |-> 1]

Call(t, d, op, n, side, fb) ==
    [tenant |-> t, dependency |-> d, operation |-> op, attempt |-> <<op, n>>, retry |-> n,
     recursion |-> 0, cost |-> 1, abnormal |-> 0, side_effecting |-> side,
     key |-> IF side THEN "k" ELSE no_key, fallback |-> fb]
Backup == [id |-> "f", digest |-> "pinned"]
Rebound == [id |-> "f", digest |-> "other"]
Undeclared == [id |-> "g", digest |-> "pinned"]

\* Retried effects, with and without the fallback; a third attempt claims to be
\* the first retry.
EffectRequests(ops) ==
    LET honest == {Call(t1, "primary", op, n, TRUE, fb) :
                     op \in ops, n \in 0 .. 1, fb \in {no_fallback, Backup}}
    IN  honest \cup {[r EXCEPT !.attempt = <<r.operation, 2>>] : r \in {h \in honest : h.retry = 1}}

\* Every way a request can be refused.
RefusedRequests ==
    UNION {{[Call(t1, "primary", op, 0, FALSE, Backup)
               EXCEPT !.retry = 2, !.recursion = 2, !.cost = 2, !.abnormal = 1],
            Call(t1, "nowhere", op, 0, FALSE, no_fallback),
            Call(t1, "primary", op, 0, FALSE, Undeclared),
            Call(t1, "primary", op, 0, FALSE, Rebound)} : op \in {o1, o2, o3}}

RetriedRequests == EffectRequests({x1, x2})

CircuitRequests ==
    {Call(t1, d, op, 0, FALSE, no_fallback) : d \in {"primary", "sibling"}, op \in {o1, o2, o3}}
      \cup {Call(t1, "primary", op, 0, FALSE, Backup) : op \in {o1, o2, o3}}
      \cup {Call(t2, "primary", op, 0, FALSE, no_fallback) : op \in {o1, o2, o3}}
      \cup RefusedRequests

LateRequests ==
    {Call(t1, "primary", op, 0, FALSE, no_fallback) : op \in {o1, o2, o3}}

\* A read that carries the idempotency key of an effect.
MixedRequests ==
    {Call(t1, "primary", op, 0, TRUE, no_fallback) : op \in {o1, o2}}
      \cup {[Call(t1, "primary", o3, 0, FALSE, no_fallback) EXCEPT !.key = "k"]}

Outcome(ok, c, done) ==
    [genuine |-> TRUE, success |-> ok, latency |-> 1, cost |-> c, abnormal |-> 0, committed |-> done]
Forged == [Outcome(TRUE, 0, TRUE) EXCEPT !.genuine = FALSE]
EffectOutcomes == {Outcome(ok, 0, done) : ok \in BOOLEAN, done \in BOOLEAN} \cup {Forged}
CircuitOutcomes == {Outcome(TRUE, 0, FALSE), Outcome(FALSE, 0, FALSE)}

-----------------------------------------------------------------------------
VARIABLE component   \* whose calls are made: "effects" or "circuits"

\* The calls of both kinds, for the one manager.
BothRequests == EffectCalls \cup CircuitCalls
BothOutcomes == EffectOutcomes \cup CircuitOutcomes

Effects == INSTANCE FailureContainment WITH
    Requests <- EffectCalls, Outcomes <- EffectOutcomes, ReportIds <- {w1, w2, w3}

Circuits == INSTANCE FailureContainment WITH
    Requests <- CircuitCalls, Outcomes <- CircuitOutcomes, ReportIds <- {v1, v2}

MCInit == component \in Components /\ Init

MCNext ==
    /\ UNCHANGED component
    /\ \/ component = "effects" /\ Effects!Next
       \/ component = "circuits" /\ Circuits!Next

MCSpec == MCInit /\ [][MCNext]_<<component, vars>>

\* No action and no property of the passing run reads the last result.
WithoutResult ==
    <<component, now, circuits, permits, active, usedReports, seenAttempts, attempts, activeKeys,
      committedKeys, committed, released, blamed>>

\* Reports and operations of the circuits instance differ in name only.
SameNames == Permutations({v1, v2}) \cup Permutations({o1, o2, o3})

\* So do the reports of the effects instance.
SameReports == Permutations({w1, w2, w3})

=============================================================================
