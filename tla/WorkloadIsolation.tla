-------------------------- MODULE WorkloadIsolation -------------------------
(***************************************************************************)
(* WorkloadAdmissionGuard of src/trustrail/workload_isolation.py: a lease  *)
(* to load a model in an attested runtime, and the teardown that lets the  *)
(* runtime be used again.                                                  *)
(*                                                                         *)
(* authorize looks the attestation up under the lock in which it issues    *)
(* the lease.  verify_teardown reads lease and evidence under one lock,    *)
(* asks the verifier without it, and uses both up under another.           *)
(* Manifests are those the policy admits or not; evidence of a teardown is *)
(* complete and authentic or not.                                          *)
(***************************************************************************)
EXTENDS Integers, FiniteSets, Sequences

CONSTANTS
    Threads,
    Manifests,        \* manifests submitted
    Admitted,         \* those whose format, loader, sandbox and resources the policy admits
    Approvals,        \* executable-load approvals: manifest, expires_at
    Executable,       \* manifests whose format or loader can execute code
    Attestations,     \* WorkloadAttestation, of AttestationType
    AuthorizationTtl, \* authorization_ttl_seconds
    Evidences,        \* WorkloadTeardownEvidence, of EvidenceType
    MaxOutcomes,      \* bound: teardowns
    MaxNow            \* bound: clock

AttestationType == [id : STRING, manifest : STRING, issued_at : Nat, expires_at : Nat]
EvidenceType == [id : STRING, lease : Nat, complete : BOOLEAN]

VARIABLES
    now,
    used_attestations,   \* _used_attestations
    used_evidence,       \* _used_teardown_evidence
    active,              \* _active
    leases,              \* external: authorizations given out, in order
    calls,               \* the call each thread is in
    outcomes             \* history: verdicts on teardowns, in order

vars == <<now, used_attestations, used_evidence, active, leases, calls, outcomes>>
Idle == [op |-> "idle"]
Earlier(a, b) == IF a < b THEN a ELSE b

-----------------------------------------------------------------------------
(* authorize *)

\* _executable_load_findings
ExecutableApproved(m) == \E approval \in Approvals : approval.manifest = m /\ approval.expires_at > now

\* _manifest_findings
ManifestAdmitted(m) == m \in Admitted /\ (m \in Executable => ExecutableApproved(m))

\* _attestation_findings
Attested(a, m) == a.manifest = m /\ a.issued_at <= now /\ now < a.expires_at

\* authorize up to the lock, hooks included
AuthorizeBegin(t, m, a) ==
    /\ calls[t] = Idle
    /\ ManifestAdmitted(m)
    /\ Attested(a, m)
    /\ calls' = [calls EXCEPT ![t] = [op |-> "authorize", attestation |-> a, clock |-> now]]
    /\ UNCHANGED <<now, used_attestations, used_evidence, active, leases, outcomes>>

Fresh(a) == a.id \notin used_attestations

AuthorizeEnd(t) ==
    /\ calls[t].op = "authorize"
    /\ LET a == calls[t].attestation
       IN  IF Fresh(a)
           THEN /\ used_attestations' = used_attestations \cup {a.id}
                /\ leases' = Append(leases,
                    [attestation |-> a, issued_at |-> calls[t].clock,
                     expires_at |-> Earlier(a.expires_at, calls[t].clock + AuthorizationTtl)])
                /\ active' = active \cup {Len(leases) + 1}
           ELSE UNCHANGED <<used_attestations, leases, active>>
    /\ calls' = [calls EXCEPT ![t] = Idle]
    /\ UNCHANGED <<now, used_evidence, outcomes>>

-----------------------------------------------------------------------------
(* verify_teardown *)

\* _cleanup_findings and the verifier
CleanedUp(e) == e.complete

\* the first lock
TeardownRead(t, lease, e) ==
    /\ calls[t] = Idle
    /\ Len(outcomes) < MaxOutcomes
    /\ calls' = [calls EXCEPT ![t] =
        [op |-> "teardown", lease |-> lease, evidence |-> e, since |-> Len(outcomes),
         passed |-> e.id \notin used_evidence /\ lease \in active /\ e.lease = lease]]
    /\ UNCHANGED <<now, used_attestations, used_evidence, active, leases, outcomes>>

\* whatever was found, the lease is used up
Remaining(call) == active \ {call.lease}

\* the verifier, and the second lock
TeardownEnd(t) ==
    /\ calls[t].op = "teardown"
    /\ LET call == calls[t]
       IN  /\ used_evidence' = used_evidence \cup {call.evidence.id}
           /\ active' = Remaining(call)
           /\ outcomes' = Append(outcomes,
                [lease |-> call.lease, since |-> call.since,
                 clean |-> call.passed /\ CleanedUp(call.evidence)])
    /\ calls' = [calls EXCEPT ![t] = Idle]
    /\ UNCHANGED <<now, used_attestations, leases>>

Tick ==
    /\ now < MaxNow
    /\ now' = now + 1
    /\ UNCHANGED <<used_attestations, used_evidence, active, leases, calls, outcomes>>

Init ==
    /\ now = 0
    /\ used_attestations = {} /\ used_evidence = {} /\ active = {}
    /\ leases = <<>> /\ outcomes = <<>>
    /\ calls = [t \in Threads |-> Idle]

Next ==
    \/ \E t \in Threads, m \in Manifests, a \in Attestations : AuthorizeBegin(t, m, a)
    \/ \E t \in Threads : AuthorizeEnd(t)
    \/ \E t \in Threads, lease \in DOMAIN leases, e \in Evidences : TeardownRead(t, lease, e)
    \/ \E t \in Threads : TeardownEnd(t)
    \/ Tick

Spec == Init /\ [][Next]_vars

-----------------------------------------------------------------------------
(* Properties *)

\* Type invariant of the guard and of what it has given out.
TypeOK ==
    /\ now \in 0..MaxNow
    /\ used_attestations \subseteq {a.id : a \in Attestations}
    /\ used_evidence \subseteq {e.id : e \in Evidences}
    /\ active \subseteq DOMAIN leases
    /\ \A o \in DOMAIN outcomes : outcomes[o].lease \in DOMAIN leases

\* One runtime was attested for one workload: overlapping calls with the same evidence do not
\* get a lease each.
UsedOnce ==
    \A i, j \in DOMAIN leases : i # j => leases[i].attestation.id # leases[j].attestation.id

\* A teardown that begins after another of the same lease has ended, well or not, is refused:
\* a runtime in quarantine does not come back with better evidence.
QuarantineStays ==
    \A i, j \in DOMAIN outcomes :
        i <= outcomes[j].since /\ outcomes[i].lease = outcomes[j].lease => ~outcomes[j].clean
=============================================================================
