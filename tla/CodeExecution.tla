---------------------------- MODULE CodeExecution ---------------------------
(***************************************************************************)
(* CodeExecutionAuthorizer of src/trustrail/code_execution.py: a lease to  *)
(* run generated code once, on the evidence of a sandbox, and the release  *)
(* of what it printed.                                                     *)
(*                                                                         *)
(* authorize and verify_completion check everything before they take the   *)
(* lock, with hooks in between, and look at their identifiers under it;    *)
(* output is released after the lock.  The sandbox is external: it runs a  *)
(* lease it was given when it likes, even late, even twice, and reports    *)
(* truthfully.  Runtime, limits and source of a request are as the policy  *)
(* wants or not; exit, usage and cleanup of a run are good or not, and so  *)
(* is what it printed.                                                     *)
(***************************************************************************)
EXTENDS Integers, FiniteSets, Sequences

CONSTANTS
    Threads,
    Requests,         \* CodeExecutionRequest, of RequestType
    Attestations,     \* SandboxAttestation, of AttestationType
    Endings,          \* how runs end: exited and declared, whether all was as it should
    AuthorizationTtl, \* authorization_ttl_seconds
    ReportSkew,       \* the 5 seconds of _report_binding_findings
    MaxReports,       \* bound: runs of the sandbox
    MaxNow            \* bound: clock

\* what a request asks for, and whether its runtime, limits and source are as the policy wants
RequestType == [id : STRING, runtime : BOOLEAN, boundary : BOOLEAN, source : BOOLEAN]
AttestationType == [id : STRING, request : STRING, issued_at : Nat, expires_at : Nat]

VARIABLES
    now,
    used_attestations,   \* _used_attestation_ids
    active,              \* _active_authorizations
    used_reports,        \* _used_report_ids
    leases,              \* external: authorizations given out, in order
    reports,             \* external: reports of the sandbox, in order
    calls,               \* the call each thread is in
    outcomes             \* history: verdicts on outputs, in order

vars == <<now, used_attestations, active, used_reports, leases, reports, calls, outcomes>>
Idle == [op |-> "idle"]
Earlier(a, b) == IF a < b THEN a ELSE b

-----------------------------------------------------------------------------
(* authorize *)

\* _runtime_findings: a trusted runtime of the same digest
RuntimeTrusted(r) == r.runtime

\* _policy_boundary_findings: files, network, environment and resources
WithinPolicy(r) == r.boundary

\* _source_findings: size, and the inspection of the source
SourceInspected(r) == r.source

\* _attestation_findings
Attested(a, r) == a.request = r.id /\ a.issued_at <= now /\ now < a.expires_at

\* authorize up to the lock, hooks included
AuthorizeBegin(t, r, a) ==
    /\ calls[t] = Idle
    /\ RuntimeTrusted(r) /\ WithinPolicy(r) /\ SourceInspected(r)
    /\ Attested(a, r)
    /\ calls' = [calls EXCEPT ![t] = [op |-> "authorize", attestation |-> a, clock |-> now]]
    /\ UNCHANGED <<now, used_attestations, active, used_reports, leases, reports, outcomes>>

\* Mutant: a lease lives for its own time.
LeaseOwn(a, clock) ==
    [attestation |-> a, issued_at |-> clock, expires_at |-> clock + AuthorizationTtl]

\* AuthorizedCodeExecution.create
Lease(a, clock) ==
    [attestation |-> a, issued_at |-> clock,
     expires_at |-> Earlier(a.expires_at, clock + AuthorizationTtl)]

\* Mutant: evidence is not looked up again under the lock.
FreshAlways(a) == TRUE

Fresh(a) == a.id \notin used_attestations

AuthorizeEnd(t) ==
    /\ calls[t].op = "authorize"
    /\ LET a == calls[t].attestation
       IN  IF Fresh(a)
           THEN /\ used_attestations' = used_attestations \cup {a.id}
                /\ leases' = Append(leases, Lease(a, calls[t].clock))
                /\ active' = active \cup {Len(leases) + 1}
           ELSE UNCHANGED <<used_attestations, leases, active>>
    /\ calls' = [calls EXCEPT ![t] = Idle]
    /\ UNCHANGED <<now, used_reports, reports, outcomes>>

-----------------------------------------------------------------------------
(* The sandbox *)

\* a run that started some time ago ends now
SandboxReport(lease, started_at, ending) ==
    /\ Len(reports) < MaxReports
    /\ started_at \in leases[lease].issued_at..now
    /\ reports' = Append(reports,
        [lease |-> lease, started_at |-> started_at, completed_at |-> now,
         exited |-> ending.exited, declared |-> ending.declared])
    /\ UNCHANGED <<now, used_attestations, active, used_reports, leases, calls, outcomes>>

-----------------------------------------------------------------------------
(* verify_completion *)

\* _report_binding_findings
Bound(lease, report) ==
    /\ report.lease = lease
    /\ report.started_at >= leases[lease].issued_at
    /\ report.completed_at <= now + ReportSkew
    /\ report.started_at < leases[lease].expires_at

\* _terminal_findings: exit, usage and cleanup
Terminated(report) == report.exited

\* _output_findings: size, format and digest of the output
OutputDeclared(report) == report.declared

\* verify_completion up to the lock
CompleteBegin(t, lease, r) ==
    /\ calls[t] = Idle
    /\ Len(outcomes) < MaxReports
    /\ calls' = [calls EXCEPT ![t] =
        [op |-> "complete", lease |-> lease, report |-> r,
         passed |-> /\ Bound(lease, reports[r])
                   /\ Terminated(reports[r]) /\ OutputDeclared(reports[r])]]
    /\ UNCHANGED <<now, used_attestations, active, used_reports, leases, reports, outcomes>>

\* an active lease and the report are used up, whatever was found before
Consumed(call) == call.lease \in active

\* verify_completion from the lock on; accepted is the verdict of the output validator
CompleteEnd(t, accepted) ==
    /\ calls[t].op = "complete"
    /\ LET call == calls[t]
       IN  /\ active' = IF Consumed(call) THEN active \ {call.lease} ELSE active
           /\ used_reports' = IF Consumed(call) THEN used_reports \cup {call.report}
                              ELSE used_reports
           /\ outcomes' = Append(outcomes,
                [lease |-> call.lease, report |-> call.report,
                 released |-> /\ call.passed /\ accepted
                              /\ call.lease \in active
                              /\ call.report \notin used_reports])
    /\ calls' = [calls EXCEPT ![t] = Idle]
    /\ UNCHANGED <<now, used_attestations, leases, reports>>

Tick ==
    /\ now < MaxNow
    /\ now' = now + 1
    /\ UNCHANGED <<used_attestations, active, used_reports, leases, reports, calls, outcomes>>

Init ==
    /\ now = 0
    /\ used_attestations = {} /\ active = {} /\ used_reports = {}
    /\ leases = <<>> /\ reports = <<>> /\ outcomes = <<>>
    /\ calls = [t \in Threads |-> Idle]

Next ==
    \/ \E t \in Threads, r \in Requests, a \in Attestations : AuthorizeBegin(t, r, a)
    \/ \E t \in Threads : AuthorizeEnd(t)
    \/ \E lease \in DOMAIN leases, started_at \in 0..now, ending \in Endings :
            SandboxReport(lease, started_at, ending)
    \/ \E t \in Threads, lease \in DOMAIN leases, r \in DOMAIN reports :
            CompleteBegin(t, lease, r)
    \/ \E t \in Threads, accepted \in BOOLEAN : CompleteEnd(t, accepted)
    \/ Tick

Spec == Init /\ [][Next]_vars

-----------------------------------------------------------------------------
(* Properties *)

\* Type invariant of the authorizer and of what it has given out.
TypeOK ==
    /\ now \in 0..MaxNow
    /\ used_attestations \subseteq {a.id : a \in Attestations}
    /\ active \subseteq DOMAIN leases
    /\ \A l \in DOMAIN leases :
            /\ leases[l].attestation \in Attestations
            /\ leases[l].expires_at <= leases[l].attestation.expires_at
    /\ used_reports \subseteq DOMAIN reports
    /\ \A o \in DOMAIN outcomes : outcomes[o].lease \in DOMAIN leases

\* One sandbox was attested for one run: overlapping calls with the same evidence do not get a
\* lease each.
UsedOnce ==
    \A i, j \in DOMAIN leases : i # j => leases[i].attestation.id # leases[j].attestation.id

\* The first completion of a lease decides: what was quarantined is not released later with
\* another report, and no lease releases two outputs.
FirstCompletionDecides ==
    \A i, j \in DOMAIN outcomes :
        i < j /\ outcomes[i].lease = outcomes[j].lease => ~outcomes[j].released

\* Output that is released comes from a run that began while its sandbox was attested, however
\* long the calls took and whenever the report arrived.
RanInAttestedSandbox ==
    \A o \in DOMAIN outcomes :
        LET report == reports[outcomes[o].report]
            a == leases[report.lease].attestation
        IN  outcomes[o].released =>
                /\ report.lease = outcomes[o].lease
                /\ a.issued_at <= report.started_at /\ report.started_at < a.expires_at
=============================================================================
