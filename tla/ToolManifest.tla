---------------------------- MODULE ToolManifest ----------------------------
(***************************************************************************)
(* ToolCapabilityEnforcer of src/trustrail/tool_manifest.py: discovery,    *)
(* approval, dispatch and output of a tool are each bound to the one       *)
(* before, by signed records that the application carries along.           *)
(*                                                                         *)
(* The enforcer remembers the authorizations that are out and nothing      *)
(* else.  Signatures and digests always match what they were made of;      *)
(* effects, roots, egress, credentials and limits of a tool are one set of *)
(* capabilities.  verify_output reads its clock before it takes the lock.  *)
(***************************************************************************)
EXTENDS Integers, FiniteSets, Sequences

CONSTANTS
    Threads,
    Manifests,          \* ToolCapabilityManifest, of ManifestType
    Evidences,          \* ToolRuntimeEvidence, of EvidenceType
    Capabilities,
    Requests,           \* sets of capabilities asked for
    MaxManifestAge, MaxEvidenceAge, BindingTtl, AuthorizationTtl, Skew,   \* policy
    MaxBindings,        \* bound: discoveries and approvals
    MaxExecutions,      \* bound: authorizations
    MaxNow              \* bound: clock

ManifestType ==
    [name : STRING, capabilities : SUBSET Capabilities, issued_at : Int, expires_at : Int]
EvidenceType ==
    [manifest : STRING, capabilities : SUBSET Capabilities, issued_at : Int, expires_at : Int]

VARIABLES
    now,
    bindings,           \* external: discoveries and approvals the application holds
    authorizations,     \* external: authorizations it was given
    active,             \* _active
    calls,              \* verify_output of each thread, before the lock
    released            \* history: outputs released

vars == <<now, bindings, authorizations, active, calls, released>>
Idle == [authorization |-> 0]
Earliest(times) == CHOOSE t \in times : \A u \in times : t <= u

-----------------------------------------------------------------------------
(* Discovery and approval *)

\* _manifest_findings
ManifestValid(m) ==
    /\ m.issued_at <= now + Skew
    /\ m.expires_at >= now - Skew
    /\ now - m.issued_at <= MaxManifestAge

\* discover, by the executor of the manifest
Discover(m) ==
    /\ Cardinality(bindings) < MaxBindings
    /\ ManifestValid(m)
    /\ bindings' = bindings \cup
        {[phase |-> "discovery", manifest |-> m, since |-> now, expires_at |-> now + BindingTtl]}
    /\ UNCHANGED <<now, authorizations, active, calls, released>>

\* _binding_findings
BindingValid(binding, phase) == binding.phase = phase /\ binding.expires_at >= now

ApprovalEnd(discovery) == Earliest({discovery.expires_at, now + BindingTtl})

\* approve; since is history: when the manifest was discovered.  An approval that would end
\* at once is no binding
Approve(discovery) ==
    /\ Cardinality(bindings) < MaxBindings
    /\ ManifestValid(discovery.manifest)
    /\ BindingValid(discovery, "discovery")
    /\ ApprovalEnd(discovery) > now
    /\ bindings' = bindings \cup
        {[phase |-> "approval", manifest |-> discovery.manifest, since |-> discovery.since,
          expires_at |-> ApprovalEnd(discovery)]}
    /\ UNCHANGED <<now, authorizations, active, calls, released>>

-----------------------------------------------------------------------------
(* Dispatch *)

\* _request_findings and the comparisons of _evidence_findings
Within(request, evidence, m) ==
    request \subseteq evidence.capabilities /\ evidence.capabilities \subseteq m.capabilities

\* _evidence_findings
EvidenceValid(evidence, m) ==
    /\ evidence.manifest = m.name
    /\ evidence.issued_at <= now + Skew
    /\ evidence.expires_at >= now
    /\ now - evidence.issued_at <= MaxEvidenceAge

\* authorize
Authorize(approval, request, evidence) ==
    LET m == approval.manifest
    IN  /\ Len(authorizations) < MaxExecutions
        /\ ManifestValid(m)
        /\ BindingValid(approval, "approval")
        /\ EvidenceValid(evidence, m)
        /\ Within(request, evidence, m)
        /\ authorizations' = Append(authorizations,
            [manifest |-> m, since |-> approval.since, request |-> request, evidence |-> evidence,
             expires_at |-> Earliest({m.expires_at, approval.expires_at, evidence.expires_at,
                                      now + AuthorizationTtl})])
        /\ active' = active \cup {Len(authorizations) + 1}
        /\ UNCHANGED <<now, bindings, calls, released>>

-----------------------------------------------------------------------------
(* Output *)

\* verify_output up to the lock
OutputBegin(t, id) ==
    /\ calls[t] = Idle
    /\ id \in DOMAIN authorizations
    /\ calls' = [calls EXCEPT ![t] = [authorization |-> id, clock |-> now]]
    /\ UNCHANGED <<now, bindings, authorizations, active, released>>

\* the authorization is taken out whatever is found
Consumed(id, passed) == active \ {id}

\* verify_output from the lock on: passed says whether the output keeps its contract
OutputVerified(t, passed) ==
    LET call == calls[t]
    IN  /\ call # Idle
        /\ active' = Consumed(call.authorization, passed)
        /\ released' = IF /\ passed
                          /\ call.authorization \in active
                          /\ call.clock <= authorizations[call.authorization].expires_at
                       THEN Append(released, [id |-> call.authorization, clock |-> call.clock,
                                              passed |-> TRUE])
                       ELSE Append(released, [id |-> call.authorization, clock |-> call.clock,
                                              passed |-> FALSE])
        /\ Len(released) <= MaxExecutions
        /\ calls' = [calls EXCEPT ![t] = Idle]
        /\ UNCHANGED <<now, bindings, authorizations>>

Tick ==
    /\ now < MaxNow
    /\ now' = now + 1
    /\ UNCHANGED <<bindings, authorizations, active, calls, released>>

Init ==
    /\ now = 0
    /\ bindings = {}
    /\ authorizations = <<>>
    /\ active = {}
    /\ calls = [t \in Threads |-> Idle]
    /\ released = <<>>

Next ==
    \/ \E m \in Manifests : Discover(m)
    \/ \E binding \in bindings : Approve(binding)
    \/ \E binding \in bindings, request \in Requests, evidence \in Evidences :
            Authorize(binding, request, evidence)
    \/ \E t \in Threads, id \in DOMAIN authorizations : OutputBegin(t, id)
    \/ \E t \in Threads, passed \in BOOLEAN : OutputVerified(t, passed)
    \/ Tick

Spec == Init /\ [][Next]_vars

-----------------------------------------------------------------------------
(* Properties *)

\* Type invariant of the enforcer and of what it has given out.
TypeOK ==
    /\ now \in 0..MaxNow
    /\ \A binding \in bindings : binding.manifest \in Manifests
    /\ \A i \in DOMAIN authorizations : authorizations[i].evidence \in Evidences
    /\ active \subseteq DOMAIN authorizations

\* Of all results an execution brings, one is judged: a result that was refused cannot be
\* submitted again in another form, and of two submitted at the same time one is refused.
UsedOnce ==
    \A i, j \in DOMAIN released : i < j /\ released[i].id = released[j].id => ~released[j].passed

\* Output is released only while everything it rests on is in force: the time since the
\* discovery, the manifest and the evidence, through records that expire one by one.
ReleasedInForce ==
    \A i \in DOMAIN released :
        LET basis == authorizations[released[i].id]
        IN  released[i].passed =>
                /\ released[i].clock <= basis.since + BindingTtl
                /\ released[i].clock <= basis.manifest.expires_at
                /\ released[i].clock <= basis.evidence.expires_at
=============================================================================
