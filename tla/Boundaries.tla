----------------------------- MODULE Boundaries -----------------------------
(***************************************************************************)
(* Guards of trustrail that bind what agents, tools, servers, runtimes and *)
(* stores do to what was approved of them, for any values of their         *)
(* constants.  They do not call one another: component says which one      *)
(* takes the steps of a behaviour, the others rest.  The PrivilegedAccess  *)
(* this module extends is one of them.                                     *)
(*                                                                         *)
(* What was given for one use serves once, what acts is what was reviewed, *)
(* and what belongs to one server, tenant or workload stays apart.         *)
(*                                                                         *)
(* The proofs follow the properties: for each component what its           *)
(* constants have to satisfy, its invariant, a lemma for each step that    *)
(* needs one, and the properties that follow from it.                      *)
(***************************************************************************)
EXTENDS Integers, FiniteSets, Sequences, PrivilegedAccess, FiniteSetTheorems, TLAPS

CONSTANTS
    Callers,     \* threads that call the other components
    \* ToolManifest
    ToolManifests, ToolCapabilities, ToolEvidences, CapabilityRequests, ToolManifestAge,
    ToolEvidenceAge, BindingTtl, ToolTtl, ToolSkew, MaxBindings, MaxExecutions, ManifestEnd,
    \* MCPOnboarding
    ServerVersions, ManifestOf, Approved, ServerEvidences, ConsentTtl, GrantTtl, PermitTtl,
    MaxPrompts, MaxConsents, MaxInstallations, MaxConnections, OnboardingEnd,
    \* MCPIsolation
    Servers, Labels, Results, Transfers, Edges, FlowApprovals, Credential, MaxTransfers,
    \* ToolPins
    ToolDefinitions, MaxTools, MaxToolSnapshots, MaxToolUses,
    \* PrimitivePins
    PrimitiveDefinitions, Contents, MaxPrimitives, MaxPrimitiveSnapshots, MaxPrimitiveUses,
    \* CodeExecution
    Programs, Sandboxes, Endings, SandboxTtl, ReportSkew, MaxReports, SandboxEnd,
    \* WorkloadIsolation
    Models, Admitted, LoadApprovals, Executable, Runtimes, RuntimeTtl, Cleanups, MaxOutcomes,
    RuntimeEnd,
    \* TenantIsolation
    Contexts, Owners, StorageKey, Dedicated, Deployments, StateTtls, MaxStateTtl, MaxStatePermits,
    TenantsEnd,
    \* ConnectorAdmission
    Sources, Parsers, Controls, Configurations, Documents, Syncs, ManifestKeyEnd, EvidenceKeyEnd,
    MaxManifestAge, MaxEvidenceAge, AdmissionTtl, SyncTtl, ScheduleSkew, ConnectorSkew,
    RequiredControls, MaxDocuments, ManifestLifetimes, EvidenceLifetimes, MaxManifests,
    MaxEvidence, MaxAdmissions, MaxAuthorizations, ConnectorEnd,
    \* MCPTransport
    Addresses, Public, Proxies, ProtocolVersions, AllowedVersions, MinVersion, MaxAllowed,
    \* GoalIntegrity
    Primary, Delegates, Goal, Mutations, MaxSteps, MaxMutations,
    \* RogueAgent
    MaxActions, MaxProbes, Grace, RecoveryGrants, MaxSequence

VARIABLES component,
    now, bindings, authorizations, active, dispatches, released,
    clock, prompts, consents, used, onboardings, permits, connections,
    used_approvals, transfers, delivered,
    discoveries, approvals, executed,
    captured, pinned, accepted,
    sandbox_now, used_sandboxes, running, used_reports, leases, reports, sandbox_calls, outcomes,
    runtime_now, used_runtimes, used_evidence, loaded, workloads, admissions, teardowns,
    time, claims, state_bindings, state_permits,
    connector_now, configuration, observed, manifests, evidence, connectors, schedules, counts,
    documents, withdrawn,
    answer, attempt, allowed,
    goal, delegates, steps, mutations, goal_calls,
    status, revision, next_sequence, actions, probes, stop_deadline, grants_used,
    agent_allowed, allowed_stopping, resumed

manifest == <<now, bindings, authorizations, active, dispatches, released>>
onboarding == <<clock, prompts, consents, used, onboardings, permits, connections>>
isolation == <<used_approvals, transfers, delivered>>
tools == <<discoveries, approvals, executed>>
primitives == <<captured, pinned, accepted>>
execution == <<sandbox_now, used_sandboxes, running, used_reports, leases, reports, sandbox_calls, outcomes>>
workload == <<runtime_now, used_runtimes, used_evidence, loaded, workloads, admissions, teardowns>>
tenants == <<time, claims, state_bindings, state_permits>>
admission == <<connector_now, configuration, observed, manifests, evidence, connectors, schedules,
               counts, documents, withdrawn>>
transport == <<answer, attempt, allowed>>
goals == <<goal, delegates, steps, mutations, goal_calls>>
rogue == <<status, revision, next_sequence, actions, probes, stop_deadline, grants_used,
           agent_allowed, allowed_stopping, resumed>>

of_servers == <<manifest, onboarding, isolation, tools, primitives>>
of_runtimes == <<execution, workload, tenants, admission, transport>>
of_agents == <<goals, rogue, vars>>

-----------------------------------------------------------------------------
(* Tools and servers *)

Manifest == INSTANCE ToolManifest WITH
    calls <- dispatches, Threads <- Callers, Manifests <- ToolManifests,
    Capabilities <- ToolCapabilities, Evidences <- ToolEvidences, Requests <- CapabilityRequests,
    MaxManifestAge <- ToolManifestAge, MaxEvidenceAge <- ToolEvidenceAge,
    AuthorizationTtl <- ToolTtl, Skew <- ToolSkew, MaxNow <- ManifestEnd

Onboarding == INSTANCE MCPOnboarding WITH
    now <- clock, grants <- consents, calls <- onboardings, Threads <- Callers,
    Manifests <- ServerVersions, Evidences <- ServerEvidences, MaxGrants <- MaxConsents,
    MaxPermits <- MaxInstallations, MaxNow <- OnboardingEnd

Isolation == INSTANCE MCPIsolation WITH
    used <- used_approvals, calls <- transfers, Threads <- Callers,
    Requests <- Transfers, Approvals <- FlowApprovals, MaxCalls <- MaxTransfers

ToolGuard == INSTANCE ToolPins WITH
    used <- executed, Definitions <- ToolDefinitions, MaxSnapshots <- MaxToolSnapshots,
    MaxUses <- MaxToolUses

PrimitiveGuard == INSTANCE PrimitivePins WITH
    discoveries <- captured, approvals <- pinned, Definitions <- PrimitiveDefinitions,
    MaxSnapshots <- MaxPrimitiveSnapshots, MaxUses <- MaxPrimitiveUses

(* Runtimes and stores *)

Execution == INSTANCE CodeExecution WITH
    now <- sandbox_now, active <- running, calls <- sandbox_calls,
    used_attestations <- used_sandboxes, Threads <- Callers, Requests <- Programs,
    Attestations <- Sandboxes, AuthorizationTtl <- SandboxTtl, MaxNow <- SandboxEnd

Workload == INSTANCE WorkloadIsolation WITH
    now <- runtime_now, used_attestations <- used_runtimes, active <- loaded, leases <- workloads,
    calls <- admissions, outcomes <- teardowns, Threads <- Callers, Manifests <- Models,
    Approvals <- LoadApprovals, AuthorizationTtl <- RuntimeTtl, Attestations <- Runtimes,
    Evidences <- Cleanups, MaxNow <- RuntimeEnd

Tenants == INSTANCE TenantIsolation WITH
    now <- time, permits <- state_permits, bindings <- state_bindings,
    Attestations <- Deployments, Ttls <- StateTtls, MaxTtl <- MaxStateTtl,
    MaxPermits <- MaxStatePermits, MaxNow <- TenantsEnd

Admission == INSTANCE ConnectorAdmission WITH
    now <- connector_now, running <- configuration, admissions <- connectors,
    authorizations <- schedules, active <- counts, quarantined <- withdrawn,
    AuthorizationTtl <- SyncTtl, Skew <- ConnectorSkew, MaxNow <- ConnectorEnd

Transport == INSTANCE MCPTransport WITH Versions <- ProtocolVersions

(* Agents *)

Goals == INSTANCE GoalIntegrity WITH calls <- goal_calls, Threads <- Callers

Rogue == INSTANCE RogueAgent WITH
    allowed <- agent_allowed, used <- grants_used, Grants <- RecoveryGrants

-----------------------------------------------------------------------------
(* One component takes the steps. *)

BoundariesInit ==
    /\ component \in {"manifest", "onboarding", "isolation", "tools", "primitives",
                      "execution", "workload", "tenants", "admission", "transport",
                      "goals", "rogue", "access"}
    /\ Manifest!Init /\ Onboarding!Init /\ Isolation!Init /\ ToolGuard!Init /\ PrimitiveGuard!Init
    /\ Execution!Init /\ Workload!Init /\ Tenants!Init /\ Admission!Init /\ Transport!Init
    /\ Goals!Init /\ Rogue!Init /\ Init

ServersNext ==
    \/ /\ component = "manifest" /\ Manifest!Next
       /\ UNCHANGED <<onboarding, isolation, tools, primitives>>
    \/ /\ component = "onboarding" /\ Onboarding!Next
       /\ UNCHANGED <<manifest, isolation, tools, primitives>>
    \/ /\ component = "isolation" /\ Isolation!Next
       /\ UNCHANGED <<manifest, onboarding, tools, primitives>>
    \/ /\ component = "tools" /\ ToolGuard!Next
       /\ UNCHANGED <<manifest, onboarding, isolation, primitives>>
    \/ /\ component = "primitives" /\ PrimitiveGuard!Next
       /\ UNCHANGED <<manifest, onboarding, isolation, tools>>

RuntimesNext ==
    \/ /\ component = "execution" /\ Execution!Next
       /\ UNCHANGED <<workload, tenants, admission, transport>>
    \/ /\ component = "workload" /\ Workload!Next
       /\ UNCHANGED <<execution, tenants, admission, transport>>
    \/ /\ component = "tenants" /\ Tenants!Next
       /\ UNCHANGED <<execution, workload, admission, transport>>
    \/ /\ component = "admission" /\ Admission!Next
       /\ UNCHANGED <<execution, workload, tenants, transport>>
    \/ /\ component = "transport" /\ Transport!Next
       /\ UNCHANGED <<execution, workload, tenants, admission>>

AgentsNext ==
    \/ /\ component = "goals" /\ Goals!Next
       /\ UNCHANGED <<rogue, vars>>
    \/ /\ component = "rogue" /\ Rogue!Next
       /\ UNCHANGED <<goals, vars>>
    \/ /\ component = "access" /\ Next
       /\ UNCHANGED <<goals, rogue>>

BoundariesNext ==
    /\ UNCHANGED component
    /\ \/ ServersNext /\ UNCHANGED <<of_runtimes, of_agents>>
       \/ RuntimesNext /\ UNCHANGED <<of_servers, of_agents>>
       \/ AgentsNext /\ UNCHANGED <<of_servers, of_runtimes>>

BoundariesSpec == BoundariesInit /\ [][BoundariesNext]_<<component, of_servers, of_runtimes, of_agents>>

-----------------------------------------------------------------------------
(* The properties of the components, each while it takes the steps. *)

\* Every component keeps its state well formed and within its bounds.
TypesOK ==
    /\ component = "access" => TypeOK
    /\ component = "manifest" => Manifest!TypeOK
    /\ component = "onboarding" => Onboarding!TypeOK
    /\ component = "isolation" => Isolation!TypeOK
    /\ component = "tools" => ToolGuard!TypeOK
    /\ component = "primitives" => PrimitiveGuard!TypeOK
    /\ component = "execution" => Execution!TypeOK
    /\ component = "workload" => Workload!TypeOK
    /\ component = "tenants" => Tenants!TypeOK
    /\ component = "admission" => Admission!TypeOK
    /\ component = "transport" => Transport!TypeOK
    /\ component = "goals" => Goals!TypeOK
    /\ component = "rogue" => Rogue!TypeOK

\* Every record that stands for one use serves once, however calls overlap: the execution of a
\* tool, consent, the approval of a flow, the attestation of a sandbox or a runtime, the lease
\* of a run.
UsedOnce ==
    /\ component = "manifest" => Manifest!UsedOnce
    /\ component = "onboarding" => Onboarding!UsedOnce
    /\ component = "isolation" => Isolation!UsedOnce
    /\ component = "execution" => Execution!UsedOnce /\ Execution!FirstCompletionDecides
    /\ component = "workload" => Workload!UsedOnce

\* What acts is what was reviewed, and still is when it acts, whatever changed in between: the
\* tool and its manifest, the server that was consented to and attested, the definition that
\* was pinned, the sandbox, the connector a document comes from, the address and the version of
\* a connection.
AsReviewed ==
    /\ component = "manifest" => Manifest!ReleasedInForce
    /\ component = "onboarding" => Onboarding!ConnectedAsConsented /\ Onboarding!ConnectedAttested
    /\ component = "tools" => ToolGuard!RunsAsDiscovered /\ ToolGuard!NoShadowing
    /\ component = "primitives" => /\ PrimitiveGuard!UpdatesSubscribed
                                   /\ PrimitiveGuard!CompletesApprovedPrompt
    /\ component = "execution" => Execution!RanInAttestedSandbox
    /\ component = "admission" => Admission!DocumentAttested /\ Admission!FreshlyObserved
    /\ component = "transport" => Transport!RebindingCaught /\ Transport!NotDowngraded

\* Data and state stay where they belong: nothing of a server goes to another but by a rule of
\* its edge, nothing of a tenant to another, nothing of a quarantined workload to anybody.
KeptApart ==
    /\ component = "isolation" => Isolation!NoLabelSlips
    /\ component = "tenants" => /\ Tenants!UsesOwnState /\ Tenants!KeysNotShared
                                /\ Tenants!BatchesDedicated
    /\ component = "workload" => Workload!QuarantineStays

\* Over time an agent stays within its goal and within what is left to it after a stop.
AgentHeld ==
    /\ component = "goals" => Goals!StepsInOrder /\ Goals!MutationsKept
    /\ component = "rogue" => Rogue!StopBounded /\ Rogue!CeilingHolds /\ Rogue!ResumedInChain

-----------------------------------------------------------------------------
(* Proofs.  Histories and lists of records that grow at their end. *)

\* A sequence of whatever it holds.
Log(s) == s \in Seq({s[i] : i \in DOMAIN s})

\* A history begins empty.
LEMMA EmptyLog == Log(<<>>) /\ DOMAIN <<>> = {}
<1>1. DOMAIN <<>> = {}
  OBVIOUS
<1>2. <<>> \in Seq({<<>>[i] : i \in DOMAIN <<>>})
  OBVIOUS
<1> QED
  BY <1>1, <1>2 DEF Log

\* What is appended comes last, and everything before it stays.
LEMMA Appended ==
    ASSUME NEW s, Log(s), NEW e
    PROVE  /\ Log(Append(s, e))
           /\ Len(s) \in Nat /\ DOMAIN s = 1 .. Len(s)
           /\ Len(Append(s, e)) = Len(s) + 1
           /\ DOMAIN Append(s, e) = DOMAIN s \cup {Len(s) + 1}
           /\ \A i \in DOMAIN s : i \in Nat /\ i < Len(s) + 1 /\ Append(s, e)[i] = s[i]
           /\ Append(s, e)[Len(s) + 1] = e
<1> DEFINE S == {s[i] : i \in DOMAIN s}
           T == S \cup {e}
           r == Append(s, e)
<1>1. s \in Seq(S)
  BY DEF Log
<1>2. DOMAIN s = 1 .. Len(s) /\ Len(s) \in Nat /\ \A i \in DOMAIN s : s[i] \in S
  BY <1>1
<1> HIDE DEF S
<1>3. s \in Seq(T)
  BY <1>1, <1>2
<1>4. e \in T
  OBVIOUS
<1> HIDE DEF T
<1>5. /\ r \in Seq(T) /\ Len(r) = Len(s) + 1 /\ r[Len(s) + 1] = e
      /\ \A i \in 1 .. Len(s) : r[i] = s[i]
  BY <1>2, <1>3, <1>4
<1> HIDE DEF r
<1>6. DOMAIN r = 1 .. (Len(s) + 1)
  BY <1>5
<1>7. r \in Seq({r[i] : i \in DOMAIN r})
  BY <1>5, <1>6
<1> QED
  BY <1>2, <1>5, <1>6, <1>7 DEF Log, r

-----------------------------------------------------------------------------
(***************************************************************************)
(* Proofs, for every set of threads and requests: the grants in the store  *)
(* implement SingleUse.  The invariant says that calls name requests and   *)
(* that only a grant that was consumed, and may have been revoked since,   *)
(* was ever executed.                                                      *)
(***************************************************************************)

\* A call under way knows its request.
CallsName ==
    /\ calls = [t \in Threads |-> calls[t]]
    /\ \A t \in Threads :
          calls[t] = Idle \/ (calls[t].op # "idle" /\ calls[t].request \in Requests)

\* Executions are counted in the state of the grant.
ExecutionsMatch ==
    /\ executions \in [Requests -> Nat]
    /\ \A q \in Requests : executions[q] <= (IF grants[q] \in {"consumed", "revoked"} THEN 1 ELSE 0)

\* The invariant of the grants.
IInv ==
    /\ grants \in [Requests -> Statuses]
    /\ CallsName
    /\ ExecutionsMatch

-----------------------------------------------------------------------------
(* The invariant *)

\* The store starts empty and no call is under way.
LEMMA InitIInv == Init => IInv
  BY DEF Init, IInv, CallsName, ExecutionsMatch, Statuses, Idle

\* A call that ends, or goes on with a request, keeps naming requests.
LEMMA GotoNames ==
    ASSUME CallsName, NEW t \in Threads, NEW call, Goto(t, call),
           call = Idle \/ (call.op # "idle" /\ call.request \in Requests)
    PROVE  CallsName'
  <1>1. calls' = [u \in Threads |-> IF u = t THEN call ELSE calls[u]]
    BY DEF CallsName, Goto
  <1> QED
    BY <1>1 DEF CallsName

\* The store keeps count of what it gave out, whatever the step does to one grant.
LEMMA StoreMatches ==
    ASSUME IInv, NEW q \in Requests,
           \/ UNCHANGED store
           \/ Consume(q)
           \/ Registrable(q) /\ grants' = [grants EXCEPT ![q] = "stored"] /\ UNCHANGED executions
           \/ grants' = [grants EXCEPT ![q] = Revoked(q)] /\ UNCHANGED executions
    PROVE  grants' \in [Requests -> Statuses] /\ ExecutionsMatch'
  <1>1. CASE UNCHANGED store
    BY <1>1 DEF IInv, ExecutionsMatch, store
  <1>2. CASE Consume(q)
    BY <1>2 DEF IInv, ExecutionsMatch, Consume, Consumable, Statuses, store
  <1>3. CASE Registrable(q) /\ grants' = [grants EXCEPT ![q] = "stored"] /\ UNCHANGED executions
    BY <1>3 DEF IInv, ExecutionsMatch, Registrable, Statuses
  <1>4. CASE grants' = [grants EXCEPT ![q] = Revoked(q)] /\ UNCHANGED executions
    BY <1>4 DEF IInv, ExecutionsMatch, Revoked, Statuses
  <1> QED
    BY <1>1, <1>2, <1>3, <1>4

\* Every step keeps the invariant.
LEMMA NextIInv == IInv /\ [Next]_vars => IInv'
  <1> SUFFICES ASSUME IInv, [Next]_vars PROVE IInv'
    OBVIOUS
  <1>1. CASE UNCHANGED vars
    BY <1>1 DEF vars, IInv, CallsName, ExecutionsMatch
  <1>2. ASSUME NEW t \in Threads, NEW q \in Requests, IssueBegin(t, q) \/ ExecuteBegin(t, q)
        PROVE  IInv'
    <2>1. UNCHANGED store
      BY <1>2 DEF IssueBegin, ExecuteBegin
    <2>2. grants' \in [Requests -> Statuses] /\ ExecutionsMatch'
      BY <2>1, StoreMatches
    <2>3. \E op \in {"issue identity", "execute identity"} : IdentityStep(t, op, q)
      BY <1>2 DEF IssueBegin, ExecuteBegin
    <2>4. CallsName'
      BY <2>3, GotoNames DEF IInv, IdentityStep
    <2> QED
      BY <2>2, <2>4 DEF IInv
  <1>3. ASSUME NEW t \in Threads, RiskStep(t)
        PROVE  IInv'
    <2>0. calls[t].op # "idle"
      BY <1>3 DEF RiskStep
    <2>1. calls[t].request \in Requests
      BY <2>0 DEF IInv, CallsName, Idle
    <2>2. grants' \in [Requests -> Statuses] /\ ExecutionsMatch'
      BY <1>3 DEF RiskStep, store, IInv, ExecutionsMatch
    <2>3. CallsName'
      BY <1>3, <2>1, GotoNames DEF IInv, RiskStep
    <2> QED
      BY <2>2, <2>3 DEF IInv
  <1>4. ASSUME NEW t \in Threads, IssueRegister(t) \/ ExecuteRevoke(t) \/ ExecuteConsume(t)
        PROVE  IInv'
    <2>0. calls[t].op # "idle"
      BY <1>4 DEF IssueRegister, ExecuteRevoke, ExecuteConsume
    <2>1. calls[t].request \in Requests
      BY <2>0 DEF IInv, CallsName, Idle
    <2>2. grants' \in [Requests -> Statuses] /\ ExecutionsMatch'
      BY <1>4, <2>1, StoreMatches DEF IssueRegister, ExecuteRevoke, ExecuteConsume, store
    <2>3. CallsName'
      BY <1>4, GotoNames DEF IInv, IssueRegister, ExecuteRevoke, ExecuteConsume, Finish
    <2> QED
      BY <2>2, <2>3 DEF IInv
  <1>5. ASSUME NEW q \in Requests, RevokeSession(Request[q].session)
        PROVE  IInv'
    BY <1>5 DEF RevokeSession, Revoked, IInv, CallsName, ExecutionsMatch, Statuses
  <1>6. CASE IdentityChanges \/ Suspended \/ RiskChanges
    BY <1>6 DEF IdentityChanges, Suspended, RiskChanges, store, IInv, CallsName, ExecutionsMatch
  <1> QED
    BY <1>1, <1>2, <1>3, <1>4, <1>5, <1>6 DEF Next

\* The invariant holds throughout.
LEMMA Inductive == Spec => []IInv
  BY InitIInv, NextIInv, PTL DEF Spec

-----------------------------------------------------------------------------
(* The refinement *)

\* The grants as the tokens of SingleUse.
Mapped == [q \in Requests |-> Token[grants[q]]]

\* What the statuses of grants stand for.
LEMMA TokenValues ==
    /\ Token["absent"] = "absent" /\ Token["stored"] = "live"
    /\ Token["consumed"] = "spent" /\ Token["revoked"] = "revoked"
  BY DEF Token

\* What a step does to the grant of one request is an issue, a use, a revocation or nothing.
LEMMA GrantStep ==
    ASSUME IInv, NEW q \in Requests,
           \/ UNCHANGED store
           \/ Consume(q)
           \/ Registrable(q) /\ grants' = [grants EXCEPT ![q] = "stored"] /\ UNCHANGED executions
           \/ grants' = [grants EXCEPT ![q] = Revoked(q)] /\ UNCHANGED executions
    PROVE  SingleGrants!Next \/ UNCHANGED <<Mapped, executions>>
  <1>1. CASE UNCHANGED store
    BY <1>1 DEF store, Mapped
  <1>2. CASE Consume(q) /\ Consumable(q)
    <2>1. SingleGrants!Use(q)
      BY <1>2, TokenValues DEF SingleGrants!Use, Consume, Consumable, IInv, ExecutionsMatch, Statuses
    <2> QED
      BY <2>1 DEF SingleGrants!Next
  <1>3. CASE Consume(q) /\ ~Consumable(q)
    BY <1>3 DEF Consume, store, Mapped
  <1>4. CASE Registrable(q) /\ grants' = [grants EXCEPT ![q] = "stored"] /\ UNCHANGED executions
    <2>1. SingleGrants!Issue(q)
      BY <1>4, TokenValues DEF SingleGrants!Issue, SingleGrants!Absent, Registrable, IInv, Statuses
    <2> QED
      BY <2>1 DEF SingleGrants!Next
  <1>5. CASE grants' = [grants EXCEPT ![q] = Revoked(q)] /\ UNCHANGED executions
    <2>1. SingleGrants!Revoke({q})
      BY <1>5, TokenValues DEF SingleGrants!Revoke, SingleGrants!Absent, Revoked, IInv, Statuses
    <2> QED
      BY <2>1 DEF SingleGrants!Next
  <1> QED
    BY <1>1, <1>2, <1>3, <1>4, <1>5

\* A revocation of any requests is a step of SingleUse.
LEMMA RevokeIsNext ==
    ASSUME NEW S \in SUBSET Requests, SingleGrants!Revoke(S)
    PROVE  SingleGrants!Next
  <1>1. SingleGrants!UseAll(S) \/ SingleGrants!Revoke(S)
    OBVIOUS
  <1>2. \E R \in SUBSET Requests : SingleGrants!UseAll(R) \/ SingleGrants!Revoke(R)
    BY <1>1
  <1> QED
    BY <1>2 DEF SingleGrants!Next

\* Every step of the manager is a step of SingleUse or leaves grants and executions alone.
LEMMA StepSimulates == IInv /\ [Next]_vars => SingleGrants!Next \/ UNCHANGED <<Mapped, executions>>
  <1> SUFFICES ASSUME IInv, [Next]_vars PROVE SingleGrants!Next \/ UNCHANGED <<Mapped, executions>>
    OBVIOUS
  <1>1. CASE UNCHANGED vars
    BY <1>1 DEF vars, Mapped
  <1>2. ASSUME NEW t \in Threads, NEW q \in Requests, IssueBegin(t, q) \/ ExecuteBegin(t, q)
        PROVE  UNCHANGED <<Mapped, executions>>
    BY <1>2 DEF IssueBegin, ExecuteBegin, store, Mapped
  <1>3. ASSUME NEW t \in Threads, RiskStep(t)
        PROVE  UNCHANGED <<Mapped, executions>>
    BY <1>3 DEF RiskStep, store, Mapped
  <1>4. ASSUME NEW t \in Threads, IssueRegister(t) \/ ExecuteRevoke(t) \/ ExecuteConsume(t)
        PROVE  SingleGrants!Next \/ UNCHANGED <<Mapped, executions>>
    <2>0. calls[t].op # "idle"
      BY <1>4 DEF IssueRegister, ExecuteRevoke, ExecuteConsume
    <2>1. calls[t].request \in Requests
      BY <2>0 DEF IInv, CallsName, Idle
    <2> QED
      BY <1>4, <2>1, GrantStep DEF IssueRegister, ExecuteRevoke, ExecuteConsume, store
  <1>5. ASSUME NEW q \in Requests, RevokeSession(Request[q].session)
        PROVE  SingleGrants!Next
    <2>1. PICK cut \in SUBSET Requests :
            cut = {x \in Requests : Request[x].session = Request[q].session /\ grants[x] = "stored"}
      OBVIOUS
    <2>2. SingleGrants!Revoke(cut)
      BY <1>5, <2>1, TokenValues
         DEF SingleGrants!Revoke, SingleGrants!Absent, RevokeSession, Revoked, IInv, Statuses
    <2> QED
      BY <2>2, RevokeIsNext
  <1>6. CASE IdentityChanges \/ Suspended \/ RiskChanges
    BY <1>6 DEF IdentityChanges, Suspended, RiskChanges, store, Mapped
  <1> QED
    BY <1>1, <1>2, <1>3, <1>4, <1>5, <1>6 DEF Next

\* The grants of the manager (issue_grant, authorize_execution, revoke_session and the store
\* below them) implement tokens that are used at most once and never after their revocation.
THEOREM ImplementsSingleUse == Spec => GrantsUsedOnce
  <1>1. Init => SingleGrants!Init
    BY TokenValues DEF Init, SingleGrants!Init
  <1>2. IInv /\ [Next]_vars => [SingleGrants!Next]_<<Mapped, executions>>
    BY StepSimulates
  <1> QED
    BY <1>1, <1>2, Inductive, PTL DEF Spec, GrantsUsedOnce, SingleGrants!Spec, Mapped

\* No grant is executed twice, whatever threads present it while identity and risk change.
THEOREM ExecutedOnce == Spec => []SingleGrants!AtMostOnce
  <1>1. IInv => SingleGrants!AtMostOnce
    BY TokenValues DEF IInv, ExecutionsMatch, Statuses, SingleGrants!AtMostOnce
  <1> QED
    BY <1>1, Inductive, PTL

\* The requests a grant was given for.
Granted == {q \in Requests : grants[q] # "absent"}

\* The store holds as many grants as it may.
AccessInv == IInv /\ IsFiniteSet(Granted) /\ Cardinality(Granted) <= MaxGrants

\* A step adds a grant only where the store has room.
LEMMA GrantedKept ==
    ASSUME IInv, NEW q \in Requests,
           \/ UNCHANGED store
           \/ Consume(q)
           \/ Registrable(q) /\ grants' = [grants EXCEPT ![q] = "stored"] /\ UNCHANGED executions
           \/ grants' = [grants EXCEPT ![q] = Revoked(q)] /\ UNCHANGED executions
    PROVE  Granted' = Granted \/ (Registrable(q) /\ Granted' = Granted \cup {q})
  <1>1. CASE UNCHANGED store
    BY <1>1 DEF store, Granted
  <1>2. CASE Consume(q)
    BY <1>2 DEF IInv, Consume, Consumable, store, Granted
  <1>3. CASE Registrable(q) /\ grants' = [grants EXCEPT ![q] = "stored"] /\ UNCHANGED executions
    BY <1>3 DEF IInv, Granted
  <1>4. CASE grants' = [grants EXCEPT ![q] = Revoked(q)] /\ UNCHANGED executions
    BY <1>4 DEF IInv, Revoked, Granted
  <1> QED
    BY <1>1, <1>2, <1>3, <1>4

\* The store starts with room.
LEMMA AccessInit == Init => AccessInv
  <1> SUFFICES ASSUME Init PROVE AccessInv
    OBVIOUS
  <1>1. Granted = {}
    BY DEF Init, Granted
  <1> QED
    BY <1>1, InitIInv, FS_EmptySet, AccessAssumption DEF AccessInv

\* Every step keeps the grants within max_grants (register).
LEMMA AccessStep == AccessInv /\ [Next]_vars => AccessInv'
  <1> SUFFICES ASSUME AccessInv, [Next]_vars PROVE AccessInv'
    OBVIOUS
  <1>0. IInv /\ IInv'
    BY NextIInv DEF AccessInv
  <1>1. Granted' = Granted \/ \E q \in Requests : Registrable(q) /\ Granted' = Granted \cup {q}
    <2>1. CASE UNCHANGED vars
      BY <2>1 DEF vars, Granted
    <2>2. ASSUME NEW t \in Threads, NEW q \in Requests, IssueBegin(t, q) \/ ExecuteBegin(t, q)
          PROVE  Granted' = Granted
      BY <2>2 DEF IssueBegin, ExecuteBegin, store, Granted
    <2>3. ASSUME NEW t \in Threads, RiskStep(t)
          PROVE  Granted' = Granted
      BY <2>3 DEF RiskStep, store, Granted
    <2>4. ASSUME NEW t \in Threads, IssueRegister(t) \/ ExecuteRevoke(t) \/ ExecuteConsume(t)
          PROVE  Granted' = Granted \/ \E q \in Requests : Registrable(q) /\ Granted' = Granted \cup {q}
      <3>0. calls[t].op # "idle"
        BY <2>4 DEF IssueRegister, ExecuteRevoke, ExecuteConsume
      <3>1. calls[t].request \in Requests
        BY <1>0, <3>0 DEF IInv, CallsName, Idle
      <3> QED
        BY <1>0, <2>4, <3>1, GrantedKept DEF IssueRegister, ExecuteRevoke, ExecuteConsume, store
    <2>5. ASSUME NEW q \in Requests, RevokeSession(Request[q].session)
          PROVE  Granted' = Granted
      BY <2>5 DEF RevokeSession, Revoked, Granted
    <2>6. CASE IdentityChanges \/ Suspended \/ RiskChanges
      BY <2>6 DEF IdentityChanges, Suspended, RiskChanges, store, Granted
    <2> QED
      BY <2>1, <2>2, <2>3, <2>4, <2>5, <2>6 DEF Next
  <1>2. CASE Granted' = Granted
    BY <1>0, <1>2 DEF AccessInv
  <1>3. ASSUME NEW q \in Requests, Registrable(q), Granted' = Granted \cup {q}
        PROVE  AccessInv'
    <2>1. q \notin Granted /\ Cardinality(Granted) < MaxGrants
      BY <1>3 DEF Registrable, Granted
    <2>2. IsFiniteSet(Granted) /\ Cardinality(Granted) \in Nat
      BY FS_CardinalityType DEF AccessInv
    <2>3. IsFiniteSet(Granted') /\ Cardinality(Granted') = Cardinality(Granted) + 1
      BY <1>3, <2>1, <2>2, FS_AddElement
    <2>4. Cardinality(Granted') <= MaxGrants
      BY <2>1, <2>2, <2>3, AccessAssumption
    <2> QED
      BY <1>0, <2>3, <2>4 DEF AccessInv
  <1> QED
    BY <1>1, <1>2, <1>3

\* The store is well formed and within its capacity.
LEMMA AccessSafe == AccessInv => TypeOK
  BY DEF AccessInv, IInv, TypeOK, Granted

-----------------------------------------------------------------------------
(* The binding of a tool to its manifest *)

\* Manifests and evidence are records of their types; times are numbers.
ASSUME ManifestAssumption ==
    /\ ToolManifests \subseteq Manifest!ManifestType
    /\ ToolEvidences \subseteq Manifest!EvidenceType
    /\ BindingTtl \in Nat /\ ToolTtl \in Nat /\ ManifestEnd \in Nat

\* An approval ends no later than the discovery it rests on.
LEMMA EarliestOfTwo ==
    ASSUME NEW a \in Int, NEW b \in Int, NEW e, e = Manifest!Earliest({a, b})
    PROVE  e \in Int /\ e <= a /\ e <= b
<1>1. \E t \in {a, b} : \A u \in {a, b} : t <= u
  <2>1. CASE a <= b
    BY <2>1
  <2>2. CASE b <= a
    BY <2>2
  <2> QED
    BY <2>1, <2>2
<1>2. e \in {a, b} /\ \A u \in {a, b} : e <= u
  BY <1>1 DEF Manifest!Earliest
<1> QED
  BY <1>2

\* An authorization ends no later than anything it rests on.
LEMMA EarliestOfFour ==
    ASSUME NEW a \in Int, NEW b \in Int, NEW c \in Int, NEW d \in Int,
           NEW e, e = Manifest!Earliest({a, b, c, d})
    PROVE  e \in Int /\ e <= a /\ e <= b /\ e <= c /\ e <= d
<1>1. PICK x \in {a, b} : x <= a /\ x <= b
  <2>1. CASE a <= b
    BY <2>1
  <2>2. CASE b <= a
    BY <2>2
  <2> QED
    BY <2>1, <2>2
<1>2. PICK y \in {c, d} : y <= c /\ y <= d
  <2>1. CASE c <= d
    BY <2>1
  <2>2. CASE d <= c
    BY <2>2
  <2> QED
    BY <2>1, <2>2
<1>3. PICK z \in {x, y} : z <= x /\ z <= y
  <2>1. CASE x <= y
    BY <2>1
  <2>2. CASE y <= x
    BY <2>2
  <2> QED
    BY <2>1, <2>2
<1>4. z \in {a, b, c, d} /\ z \in Int /\ z <= a /\ z <= b /\ z <= c /\ z <= d
  BY <1>1, <1>2, <1>3
<1>5. \E t \in {a, b, c, d} : \A u \in {a, b, c, d} : t <= u
  BY <1>4
<1>6. e \in {a, b, c, d} /\ \A u \in {a, b, c, d} : e <= u
  BY <1>5 DEF Manifest!Earliest
<1> QED
  BY <1>6

\* Every record expires with the one it rests on.
ManifestInv ==
    /\ now \in 0 .. ManifestEnd
    /\ \A b \in bindings :
        /\ b.manifest \in ToolManifests /\ b.since \in Nat /\ b.expires_at \in Int
        /\ b.expires_at <= b.since + BindingTtl
    /\ Log(authorizations)
    /\ \A i \in DOMAIN authorizations : LET basis == authorizations[i] IN
        /\ basis.manifest \in ToolManifests /\ basis.evidence \in ToolEvidences
        /\ basis.since \in Nat /\ basis.expires_at \in Int
        /\ basis.expires_at <= basis.since + BindingTtl
        /\ basis.expires_at <= basis.manifest.expires_at
        /\ basis.expires_at <= basis.evidence.expires_at
    /\ active \subseteq DOMAIN authorizations
    /\ DOMAIN dispatches = Callers
    /\ \A t \in Callers :
        \/ dispatches[t] = Manifest!Idle
        \/ dispatches[t].authorization \in DOMAIN authorizations /\ dispatches[t].clock \in Nat
    /\ Log(released)
    /\ \A i \in DOMAIN released :
        /\ released[i].id \in DOMAIN authorizations \ active
        /\ released[i].clock \in Nat
        /\ released[i].passed => released[i].clock <= authorizations[released[i].id].expires_at
    /\ Manifest!UsedOnce

\* Nothing is bound, authorized or released at first.
LEMMA ManifestInit == Manifest!Init => ManifestInv
<1> SUFFICES ASSUME Manifest!Init PROVE ManifestInv
  OBVIOUS
<1>1. now \in 0 .. ManifestEnd
  BY ManifestAssumption DEF Manifest!Init
<1> QED
  BY <1>1, EmptyLog DEF Manifest!Init, ManifestInv, Manifest!UsedOnce

\* discover: a discovery lives as long as a binding may.
LEMMA ManifestDiscover ==
    ASSUME ManifestInv, NEW m \in ToolManifests, Manifest!Discover(m)
    PROVE  ManifestInv'
<1> DEFINE b == [phase |-> "discovery", manifest |-> m, since |-> now, expires_at |-> now + BindingTtl]
<1>1. /\ bindings' = bindings \cup {b}
      /\ UNCHANGED <<now, authorizations, active, dispatches, released>>
  BY DEF Manifest!Discover
<1>2. now \in Nat /\ BindingTtl \in Nat
  BY ManifestAssumption DEF ManifestInv
<1>3. /\ b.manifest \in ToolManifests /\ b.since \in Nat /\ b.expires_at \in Int
      /\ b.expires_at <= b.since + BindingTtl
  BY <1>2
<1> HIDE DEF b
<1>4. \A c \in bindings' :
        /\ c.manifest \in ToolManifests /\ c.since \in Nat /\ c.expires_at \in Int
        /\ c.expires_at <= c.since + BindingTtl
  BY <1>1, <1>3 DEF ManifestInv
<1> QED
  BY <1>1, <1>4 DEF ManifestInv, Manifest!UsedOnce

\* approve: an approval ends with its discovery.
LEMMA ManifestApprove ==
    ASSUME ManifestInv, NEW discovery \in bindings, Manifest!Approve(discovery)
    PROVE  ManifestInv'
<1> DEFINE e == Manifest!ApprovalEnd(discovery)
           b == [phase |-> "approval", manifest |-> discovery.manifest, since |-> discovery.since,
                 expires_at |-> e]
<1>1. /\ bindings' = bindings \cup {b}
      /\ UNCHANGED <<now, authorizations, active, dispatches, released>>
  BY DEF Manifest!Approve
<1>2. now + BindingTtl \in Int
  BY ManifestAssumption DEF ManifestInv
<1>3. /\ discovery.manifest \in ToolManifests /\ discovery.since \in Nat
      /\ discovery.expires_at \in Int /\ discovery.expires_at <= discovery.since + BindingTtl
  BY DEF ManifestInv
<1>4. e = Manifest!Earliest({discovery.expires_at, now + BindingTtl})
  BY DEF Manifest!ApprovalEnd
<1> HIDE DEF e
<1>5. e \in Int /\ e <= discovery.expires_at
  BY <1>2, <1>3, <1>4, EarliestOfTwo
<1>6. /\ b.manifest \in ToolManifests /\ b.since \in Nat /\ b.expires_at \in Int
      /\ b.expires_at <= b.since + BindingTtl
  BY <1>3, <1>5, ManifestAssumption
<1> HIDE DEF b
<1>7. \A c \in bindings' :
        /\ c.manifest \in ToolManifests /\ c.since \in Nat /\ c.expires_at \in Int
        /\ c.expires_at <= c.since + BindingTtl
  BY <1>1, <1>6 DEF ManifestInv
<1> QED
  BY <1>1, <1>7 DEF ManifestInv, Manifest!UsedOnce

\* authorize: an authorization ends with the manifest, the approval and the evidence.
LEMMA ManifestAuthorize ==
    ASSUME ManifestInv, NEW approval \in bindings, NEW request, NEW proof \in ToolEvidences,
           Manifest!Authorize(approval, request, proof)
    PROVE  ManifestInv'
<1> DEFINE m == approval.manifest
           e == Manifest!Earliest({m.expires_at, approval.expires_at, proof.expires_at, now + ToolTtl})
           n == Len(authorizations) + 1
           a == [manifest |-> m, since |-> approval.since, request |-> request, evidence |-> proof,
                 expires_at |-> e]
<1>1. /\ authorizations' = Append(authorizations, a) /\ active' = active \cup {n}
      /\ UNCHANGED <<now, bindings, dispatches, released>>
  BY DEF Manifest!Authorize
<1>2. /\ m \in ToolManifests /\ approval.since \in Nat /\ approval.expires_at \in Int
      /\ approval.expires_at <= approval.since + BindingTtl
  BY DEF ManifestInv
<1>3. m.expires_at \in Int /\ proof.expires_at \in Int /\ now + ToolTtl \in Int
  <2>1. m \in Manifest!ManifestType /\ proof \in Manifest!EvidenceType
    BY <1>2, ManifestAssumption
  <2>2. now + ToolTtl \in Int
    BY ManifestAssumption DEF ManifestInv
  <2> QED
    BY <2>1, <2>2 DEF Manifest!ManifestType, Manifest!EvidenceType
<1>4. e \in Int /\ e <= m.expires_at /\ e <= approval.expires_at /\ e <= proof.expires_at
  <2> HIDE DEF m
  <2> QED
    BY <1>2, <1>3, EarliestOfFour
<1> HIDE DEF e
<1>5. /\ a.manifest \in ToolManifests /\ a.evidence \in ToolEvidences
      /\ a.since \in Nat /\ a.expires_at \in Int
      /\ a.expires_at <= a.since + BindingTtl
      /\ a.expires_at <= a.manifest.expires_at
      /\ a.expires_at <= a.evidence.expires_at
  BY <1>2, <1>3, <1>4, ManifestAssumption
<1> HIDE DEF a, m
<1>6. /\ Log(authorizations') /\ DOMAIN authorizations' = DOMAIN authorizations \cup {n}
      /\ \A i \in DOMAIN authorizations : i # n /\ authorizations'[i] = authorizations[i]
      /\ authorizations'[n] = a
  BY <1>1, Appended DEF ManifestInv
<1> HIDE DEF n
<1>7. \A i \in DOMAIN authorizations' : LET basis == authorizations'[i] IN
        /\ basis.manifest \in ToolManifests /\ basis.evidence \in ToolEvidences
        /\ basis.since \in Nat /\ basis.expires_at \in Int
        /\ basis.expires_at <= basis.since + BindingTtl
        /\ basis.expires_at <= basis.manifest.expires_at
        /\ basis.expires_at <= basis.evidence.expires_at
  BY <1>5, <1>6 DEF ManifestInv
<1>8. \A i \in DOMAIN released :
        /\ released[i].id \in DOMAIN authorizations' \ active'
        /\ released[i].clock \in Nat
        /\ released[i].passed => released[i].clock <= authorizations'[released[i].id].expires_at
  BY <1>1, <1>6 DEF ManifestInv
<1>9. active' \subseteq DOMAIN authorizations'
  BY <1>1, <1>6 DEF ManifestInv
<1>10. Manifest!UsedOnce'
  BY <1>1 DEF ManifestInv, Manifest!UsedOnce
<1> QED
  BY <1>1, <1>6, <1>7, <1>8, <1>9, <1>10 DEF ManifestInv

\* verify_output: the authorization is taken out under the lock, and decides on the output.
LEMMA ManifestOutput ==
    ASSUME ManifestInv, NEW t \in Callers, NEW passed \in BOOLEAN, Manifest!OutputVerified(t, passed)
    PROVE  ManifestInv'
<1> DEFINE id == dispatches[t].authorization
           clk == dispatches[t].clock
           v == passed /\ id \in active /\ clk <= authorizations[id].expires_at
           r == [id |-> id, clock |-> clk, passed |-> v]
           n == Len(released) + 1
<1>1. /\ dispatches[t] # Manifest!Idle /\ active' = active \ {id}
      /\ dispatches' = [dispatches EXCEPT ![t] = Manifest!Idle]
      /\ UNCHANGED <<now, bindings, authorizations>>
  BY DEF Manifest!OutputVerified, Manifest!Consumed
<1>2. released' = Append(released, r)
  <2>1. CASE v
    BY <2>1 DEF Manifest!OutputVerified
  <2>2. CASE ~v
    BY <2>2 DEF Manifest!OutputVerified
  <2> QED
    BY <2>1, <2>2
<1>3. id \in DOMAIN authorizations /\ clk \in Nat
  BY <1>1 DEF ManifestInv
<1>4. /\ r.id = id /\ r.clock = clk
      /\ r.passed <=> v
  OBVIOUS
<1> HIDE DEF r, id, clk
<1>5. /\ Log(released') /\ DOMAIN released' = DOMAIN released \cup {n}
      /\ \A i \in DOMAIN released : i \in Nat /\ i < n /\ released'[i] = released[i]
      /\ released'[n] = r
  BY <1>2, Appended DEF ManifestInv
<1>6. n \in Nat
  BY Appended DEF ManifestInv
<1> HIDE DEF n
<1>7. \A i \in DOMAIN released' :
          \/ i = n /\ released'[i] = r
          \/ i \in DOMAIN released /\ released'[i] = released[i] /\ i < n /\ i \in Nat
  BY <1>5
<1>8. \A i \in DOMAIN released' :
        /\ released'[i].id \in DOMAIN authorizations \ active'
        /\ released'[i].clock \in Nat
        /\ released'[i].passed => released'[i].clock <= authorizations[released'[i].id].expires_at
  BY <1>1, <1>3, <1>4, <1>7 DEF ManifestInv
<1>9. Manifest!UsedOnce'
  <2> SUFFICES ASSUME NEW i \in DOMAIN released', NEW j \in DOMAIN released',
                      i < j, released'[i].id = released'[j].id, released'[j].passed
               PROVE  FALSE
    BY DEF Manifest!UsedOnce
  <2>1. i \in DOMAIN released /\ released'[i] = released[i]
    BY <1>6, <1>7
  <2>2. CASE j \in DOMAIN released /\ released'[j] = released[j]
    BY <2>1, <2>2 DEF ManifestInv, Manifest!UsedOnce
  <2>3. CASE j = n /\ released'[j] = r
    BY <1>4, <2>1, <2>3 DEF ManifestInv
  <2> QED
    BY <1>7, <2>2, <2>3
<1>10. \A u \in Callers :
        \/ dispatches'[u] = Manifest!Idle
        \/ dispatches'[u].authorization \in DOMAIN authorizations /\ dispatches'[u].clock \in Nat
  BY <1>1 DEF ManifestInv
<1>11. active' \subseteq DOMAIN authorizations /\ DOMAIN dispatches' = Callers
  BY <1>1 DEF ManifestInv
<1> QED
  BY <1>1, <1>5, <1>8, <1>9, <1>10, <1>11 DEF ManifestInv

\* Every step of the enforcer keeps the chain of expiries.
LEMMA ManifestStep == ManifestInv /\ [Manifest!Next]_manifest => ManifestInv'
<1> SUFFICES ASSUME ManifestInv, [Manifest!Next]_manifest PROVE ManifestInv'
  OBVIOUS
<1>1. ASSUME NEW m \in ToolManifests, Manifest!Discover(m) PROVE ManifestInv'
  BY <1>1, ManifestDiscover
<1>2. ASSUME NEW b \in bindings, Manifest!Approve(b) PROVE ManifestInv'
  BY <1>2, ManifestApprove
<1>3. ASSUME NEW b \in bindings, NEW request \in CapabilityRequests, NEW proof \in ToolEvidences,
             Manifest!Authorize(b, request, proof)
      PROVE  ManifestInv'
  BY <1>3, ManifestAuthorize
<1>4. ASSUME NEW t \in Callers, NEW id \in DOMAIN authorizations, Manifest!OutputBegin(t, id)
      PROVE  ManifestInv'
  <2>1. /\ dispatches' = [dispatches EXCEPT ![t] = [authorization |-> id, clock |-> now]]
        /\ UNCHANGED <<now, bindings, authorizations, active, released>>
    BY <1>4 DEF Manifest!OutputBegin
  <2>2. now \in Nat
    BY ManifestAssumption DEF ManifestInv
  <2>3. \A u \in Callers :
        \/ dispatches'[u] = Manifest!Idle
        \/ dispatches'[u].authorization \in DOMAIN authorizations /\ dispatches'[u].clock \in Nat
    BY <2>1, <2>2 DEF ManifestInv
  <2> QED
    BY <2>1, <2>3 DEF ManifestInv, Manifest!UsedOnce
<1>5. ASSUME NEW t \in Callers, NEW passed \in BOOLEAN, Manifest!OutputVerified(t, passed)
      PROVE  ManifestInv'
  BY <1>5, ManifestOutput
<1>6. CASE Manifest!Tick
  <2>1. /\ now' \in 0 .. ManifestEnd
        /\ UNCHANGED <<bindings, authorizations, active, dispatches, released>>
    BY <1>6, ManifestAssumption DEF ManifestInv, Manifest!Tick
  <2> QED
    BY <2>1 DEF ManifestInv, Manifest!UsedOnce
<1>7. CASE UNCHANGED manifest
  BY <1>7 DEF ManifestInv, manifest, Manifest!UsedOnce
<1> QED
  BY <1>1, <1>2, <1>3, <1>4, <1>5, <1>6, <1>7 DEF Manifest!Next

\* The chain gives what the enforcer promises.
LEMMA ManifestSafe ==
    ManifestInv => Manifest!TypeOK /\ Manifest!UsedOnce /\ Manifest!ReleasedInForce
<1> SUFFICES ASSUME ManifestInv PROVE Manifest!TypeOK /\ Manifest!UsedOnce /\ Manifest!ReleasedInForce
  OBVIOUS
<1>1. Manifest!TypeOK /\ Manifest!UsedOnce
  BY DEF ManifestInv, Manifest!TypeOK
<1>2. ASSUME NEW i \in DOMAIN released, released[i].passed
      PROVE  LET basis == authorizations[released[i].id] IN
                /\ released[i].clock <= basis.since + BindingTtl
                /\ released[i].clock <= basis.manifest.expires_at
                /\ released[i].clock <= basis.evidence.expires_at
  <2> DEFINE basis == authorizations[released[i].id]
             c == released[i].clock
  <2>1. /\ c \in Nat /\ c <= basis.expires_at /\ basis.expires_at \in Int /\ basis.since \in Nat
        /\ basis.expires_at <= basis.since + BindingTtl
        /\ basis.expires_at <= basis.manifest.expires_at
        /\ basis.expires_at <= basis.evidence.expires_at
        /\ basis.manifest \in ToolManifests /\ basis.evidence \in ToolEvidences
    BY <1>2 DEF ManifestInv
  <2> HIDE DEF c, basis
  <2>2. basis.manifest.expires_at \in Int /\ basis.evidence.expires_at \in Int
    <3>1. basis.manifest \in Manifest!ManifestType /\ basis.evidence \in Manifest!EvidenceType
      BY <2>1, ManifestAssumption
    <3> QED
      BY <3>1 DEF Manifest!ManifestType, Manifest!EvidenceType
  <2>3. /\ c <= basis.since + BindingTtl
        /\ c <= basis.manifest.expires_at
        /\ c <= basis.evidence.expires_at
    BY <2>1, <2>2, ManifestAssumption
  <2> QED
    BY <2>3 DEF c, basis
<1> QED
  BY <1>1, <1>2 DEF Manifest!ReleasedInForce

-----------------------------------------------------------------------------
(* Onboarding of servers *)

\* Every version of a server has a manifest; prompts and permits live for a while.
ASSUME OnboardingAssumption ==
    /\ ManifestOf \in [ServerVersions -> Onboarding!ManifestType]
    /\ ConsentTtl \in Nat \ {0} /\ PermitTtl \in Nat \ {0}
    /\ MaxConsents \in Nat /\ OnboardingEnd \in Nat

\* The user consented to the manifest m, in time.
Consented(g, m) ==
    /\ g \in DOMAIN consents /\ consents[g].prompt.manifest = m
    /\ consents[g].approved_at <= consents[g].prompt.expires_at

\* A call of authorize that passed the checks before the lock.
OnboardingOf(call) ==
    /\ Consented(call.grant, call.manifest) /\ call.manifest \in ServerVersions
    /\ call.evidence \in ServerEvidences \cup {Onboarding!NoEvidence}
    /\ call.clock \in 0 .. OnboardingEnd

\* Permits are of manifests the user consented to, and connections of permits and their evidence.
OnboardingInv ==
    /\ clock \in 0 .. OnboardingEnd
    /\ prompts \subseteq Onboarding!PromptType
    /\ Log(consents) /\ Len(consents) <= MaxConsents
    /\ \A g \in DOMAIN consents : consents[g].prompt \in prompts
    /\ used \subseteq DOMAIN consents
    /\ DOMAIN onboardings = Callers
    /\ \A t \in Callers : onboardings[t] = Onboarding!Idle \/ OnboardingOf(onboardings[t])
    /\ Log(permits)
    /\ \A p \in DOMAIN permits :
        /\ permits[p] \in Onboarding!PermitType /\ permits[p].grant \in used
        /\ Consented(permits[p].grant, permits[p].manifest)
    /\ Onboarding!UsedOnce
    /\ Log(connections)
    /\ \A c \in DOMAIN connections : LET permit == permits[connections[c].permit] IN
        /\ connections[c].permit \in DOMAIN permits
        /\ connections[c].manifest = permit.manifest
        /\ connections[c].evidence = permit.evidence
        /\ ManifestOf[permit.manifest].local => connections[c].at <= permit.evidence.expires_at

\* Nothing is shown, granted or connected at first.
LEMMA OnboardingInit == Onboarding!Init => OnboardingInv
<1> SUFFICES ASSUME Onboarding!Init PROVE OnboardingInv
  OBVIOUS
<1>1. clock \in 0 .. OnboardingEnd
  BY OnboardingAssumption DEF Onboarding!Init
<1>2. Len(consents) <= MaxConsents
  BY OnboardingAssumption DEF Onboarding!Init
<1>3. /\ prompts = {} /\ used = {} /\ Log(consents) /\ Log(permits) /\ Log(connections)
      /\ DOMAIN consents = {} /\ DOMAIN permits = {} /\ DOMAIN connections = {}
  BY EmptyLog DEF Onboarding!Init
<1>4. prompts \subseteq Onboarding!PromptType /\ used \subseteq DOMAIN consents
  BY <1>3, Zenon
<1>5. DOMAIN onboardings = Callers /\ \A t \in Callers : onboardings[t] = Onboarding!Idle
  BY DEF Onboarding!Init
<1> QED
  BY <1>1, <1>2, <1>3, <1>4, <1>5 DEF OnboardingInv, Onboarding!UsedOnce

\* prepare_consent: a prompt shows one manifest.
LEMMA OnboardingPrompt ==
    ASSUME OnboardingInv, NEW m \in ServerVersions, Onboarding!PrepareConsent(m)
    PROVE  OnboardingInv'
<1> DEFINE prompt == [manifest |-> m, issued_at |-> clock, expires_at |-> clock + ConsentTtl]
<1>1. /\ prompts' = prompts \cup {prompt}
      /\ UNCHANGED <<clock, consents, used, onboardings, permits, connections>>
  BY DEF Onboarding!PrepareConsent
<1>2. /\ clock \in 0 .. OnboardingEnd /\ clock + ConsentTtl \in 0 .. (OnboardingEnd + ConsentTtl)
      /\ clock + ConsentTtl > clock
  BY OnboardingAssumption DEF OnboardingInv
<1>3. prompt \in Onboarding!PromptType
  BY <1>2 DEF Onboarding!PromptType
<1> HIDE DEF prompt
<1>4. prompts' \subseteq Onboarding!PromptType
  BY <1>1, <1>3 DEF OnboardingInv
<1>5. \A g \in DOMAIN consents : consents[g].prompt \in prompts'
  BY <1>1 DEF OnboardingInv
<1>6. Onboarding!PromptType' = Onboarding!PromptType /\ Onboarding!PermitType' = Onboarding!PermitType
  BY DEF Onboarding!PromptType, Onboarding!PermitType, Onboarding!NoEvidence
<1> QED
  BY <1>1, <1>4, <1>5, <1>6 DEF OnboardingInv, OnboardingOf, Consented, Onboarding!UsedOnce

\* The user answers a prompt; what was answered before stays.
LEMMA OnboardingGrant ==
    ASSUME OnboardingInv, NEW prompt \in prompts, Onboarding!Grant(prompt)
    PROVE  OnboardingInv'
<1> DEFINE g == [prompt |-> prompt, approved_at |-> clock, expires_at |-> clock + GrantTtl]
           n == Len(consents) + 1
<1>1. /\ Len(consents) < MaxConsents /\ consents' = Append(consents, g)
      /\ UNCHANGED <<clock, prompts, used, onboardings, permits, connections>>
  BY DEF Onboarding!Grant
<1>2. g.prompt = prompt
  OBVIOUS
<1> HIDE DEF g
<1>3. /\ Log(consents') /\ DOMAIN consents' = DOMAIN consents \cup {n}
      /\ \A i \in DOMAIN consents : consents'[i] = consents[i]
      /\ consents'[n] = g /\ Len(consents') = Len(consents) + 1 /\ Len(consents) \in Nat
  BY <1>1, Appended DEF OnboardingInv
<1> HIDE DEF n
<1>4. Len(consents') <= MaxConsents
  BY <1>1, <1>3, OnboardingAssumption
<1>5. \A i \in DOMAIN consents' : consents'[i].prompt \in prompts
  BY <1>2, <1>3 DEF OnboardingInv
<1>6. \A i, m : Consented(i, m) => Consented(i, m)'
  BY <1>3 DEF Consented
<1>7. \A t \in Callers : onboardings[t] = Onboarding!Idle \/ OnboardingOf(onboardings[t])'
  <2> SUFFICES ASSUME NEW t \in Callers, OnboardingOf(onboardings[t]) PROVE OnboardingOf(onboardings[t])'
    BY DEF OnboardingInv
  <2> QED
    BY <1>1, <1>3 DEF OnboardingOf, Consented
<1>8. \A p \in DOMAIN permits : Consented(permits[p].grant, permits[p].manifest)'
  BY <1>1, <1>3 DEF OnboardingInv, Consented
<1>9. used \subseteq DOMAIN consents'
  BY <1>3 DEF OnboardingInv
<1>10. Onboarding!PromptType' = Onboarding!PromptType /\ Onboarding!PermitType' = Onboarding!PermitType
  BY DEF Onboarding!PromptType, Onboarding!PermitType, Onboarding!NoEvidence
<1> QED
  BY <1>1, <1>3, <1>4, <1>5, <1>7, <1>8, <1>9, <1>10 DEF OnboardingInv, Onboarding!UsedOnce

\* authorize up to the lock: consent is to this manifest, in time.
LEMMA OnboardingBegin ==
    ASSUME OnboardingInv, NEW t \in Callers, NEW g \in DOMAIN consents, NEW m \in ServerVersions,
           NEW e \in ServerEvidences \cup {Onboarding!NoEvidence}, Onboarding!AuthorizeBegin(t, g, m, e)
    PROVE  OnboardingInv'
<1> DEFINE call == [grant |-> g, manifest |-> m, evidence |-> e, clock |-> clock]
<1>1. /\ onboardings' = [onboardings EXCEPT ![t] = call] /\ Onboarding!ConsentValid(consents[g], m)
      /\ UNCHANGED <<clock, prompts, consents, used, permits, connections>>
  BY DEF Onboarding!AuthorizeBegin
<1>2. Consented(g, m)
  BY <1>1 DEF Consented, Onboarding!ConsentValid
<1>3. call.grant = g /\ call.manifest = m /\ call.evidence = e /\ call.clock = clock
  OBVIOUS
<1> HIDE DEF call
<1>4. OnboardingOf(call)
  BY <1>2, <1>3 DEF OnboardingInv, OnboardingOf
<1>5. \A u \in Callers : onboardings'[u] = Onboarding!Idle \/ OnboardingOf(onboardings'[u])
  BY <1>1, <1>4 DEF OnboardingInv
<1>6. \A u \in Callers : onboardings'[u] = Onboarding!Idle \/ OnboardingOf(onboardings[u])'
  BY <1>1, <1>5 DEF OnboardingOf, Consented
<1>7. Onboarding!PromptType' = Onboarding!PromptType /\ Onboarding!PermitType' = Onboarding!PermitType
  BY DEF Onboarding!PromptType, Onboarding!PermitType, Onboarding!NoEvidence
<1>8. DOMAIN onboardings' = Callers
  BY <1>1 DEF OnboardingInv
<1> QED
  BY <1>1, <1>6, <1>7, <1>8 DEF OnboardingInv, Consented, Onboarding!UsedOnce

\* authorize from the lock on: one permit of an answer.
LEMMA OnboardingIssue ==
    ASSUME OnboardingInv, NEW t \in Callers, Onboarding!AuthorizeEnd(t)
    PROVE  OnboardingInv'
<1> DEFINE call == onboardings[t]
           permit == [manifest |-> call.manifest, grant |-> call.grant, evidence |-> call.evidence,
                      issued_at |-> call.clock, expires_at |-> call.clock + PermitTtl]
           n == Len(permits) + 1
<1>1. /\ call # Onboarding!Idle /\ onboardings' = [onboardings EXCEPT ![t] = Onboarding!Idle]
      /\ UNCHANGED <<clock, prompts, consents, connections>>
      /\ \/ /\ call.grant \notin used /\ used' = used \cup {call.grant}
            /\ permits' = Append(permits, permit)
         \/ UNCHANGED <<used, permits>>
  BY DEF Onboarding!AuthorizeEnd, Onboarding!Fresh
<1>2. OnboardingOf(call)
  BY <1>1 DEF OnboardingInv
<1>3. /\ permit.manifest = call.manifest /\ permit.grant = call.grant
      /\ permit \in Onboarding!PermitType
  <2> HIDE DEF call
  <2>1. /\ call.clock \in 0 .. OnboardingEnd /\ call.clock + PermitTtl \in 0 .. (OnboardingEnd + PermitTtl)
        /\ call.clock + PermitTtl > call.clock
    BY <1>2, OnboardingAssumption DEF OnboardingOf
  <2>2. call.grant \in 1 .. MaxConsents
    BY <1>2, Appended, OnboardingAssumption DEF OnboardingOf, Consented, OnboardingInv
  <2> QED
    BY <1>2, <2>1, <2>2 DEF OnboardingOf, Onboarding!PermitType
<1> HIDE DEF permit, call
<1>4. \A u \in Callers : onboardings'[u] = Onboarding!Idle \/ onboardings'[u] = onboardings[u]
  BY <1>1 DEF OnboardingInv
<1>5. \A u \in Callers : onboardings'[u] = Onboarding!Idle \/ OnboardingOf(onboardings'[u])
  BY <1>4 DEF OnboardingInv
<1>6. \A u \in Callers : onboardings'[u] = Onboarding!Idle \/ OnboardingOf(onboardings[u])'
  BY <1>1, <1>5 DEF OnboardingOf, Consented
<1>7. Onboarding!PromptType' = Onboarding!PromptType /\ Onboarding!PermitType' = Onboarding!PermitType
  BY DEF Onboarding!PromptType, Onboarding!PermitType, Onboarding!NoEvidence
<1>8. DOMAIN onboardings' = Callers
  BY <1>1 DEF OnboardingInv
<1>9. CASE UNCHANGED <<used, permits>>
  BY <1>1, <1>6, <1>7, <1>8, <1>9 DEF OnboardingInv, Consented, Onboarding!UsedOnce
<1>10. CASE /\ call.grant \notin used /\ used' = used \cup {call.grant}
            /\ permits' = Append(permits, permit)
  <2>1. /\ Log(permits') /\ DOMAIN permits' = DOMAIN permits \cup {n}
        /\ \A i \in DOMAIN permits : i # n /\ permits'[i] = permits[i]
        /\ permits'[n] = permit
    BY <1>10, Appended DEF OnboardingInv
  <2> HIDE DEF n
  <2>2. \A i \in DOMAIN permits' :
          \/ i = n /\ permits'[i] = permit
          \/ i \in DOMAIN permits /\ permits'[i] = permits[i]
    BY <2>1
  <2>3. Onboarding!UsedOnce'
    <3> SUFFICES ASSUME NEW i \in DOMAIN permits', NEW j \in DOMAIN permits', i # j,
                        permits'[i].grant = permits'[j].grant
                 PROVE  FALSE
      BY DEF Onboarding!UsedOnce
    <3>1. i \in DOMAIN permits /\ j \in DOMAIN permits /\ permits'[i] = permits[i] /\ permits'[j] = permits[j]
      BY <1>3, <1>10, <2>2 DEF OnboardingInv
    <3> QED
      BY <3>1 DEF OnboardingInv, Onboarding!UsedOnce
  <2>4. \A i \in DOMAIN permits' :
          /\ permits'[i] \in Onboarding!PermitType /\ permits'[i].grant \in used'
          /\ Consented(permits'[i].grant, permits'[i].manifest)
    BY <1>2, <1>3, <1>10, <2>2 DEF OnboardingInv, OnboardingOf
  <2>5. \A i \in DOMAIN permits' : Consented(permits[i].grant, permits[i].manifest)'
    BY <1>1, <2>4 DEF Consented
  <2>6. \A c \in DOMAIN connections : LET p == permits'[connections[c].permit] IN
        /\ connections[c].permit \in DOMAIN permits'
        /\ connections[c].manifest = p.manifest
        /\ connections[c].evidence = p.evidence
        /\ ManifestOf[p.manifest].local => connections[c].at <= p.evidence.expires_at
    BY <2>1 DEF OnboardingInv
  <2>7. used' \subseteq DOMAIN consents
    BY <1>2, <1>10 DEF OnboardingInv, OnboardingOf, Consented
  <2> QED
    BY <1>1, <1>6, <1>7, <1>8, <2>1, <2>3, <2>4, <2>5, <2>6, <2>7 DEF OnboardingInv
<1> QED
  BY <1>1, <1>9, <1>10

\* verify_connection: the manifest and the evidence are those of the permit.
LEMMA OnboardingConnect ==
    ASSUME OnboardingInv, NEW p \in DOMAIN permits, NEW m \in ServerVersions,
           NEW e \in ServerEvidences \cup {Onboarding!NoEvidence}, Onboarding!Connect(p, m, e)
    PROVE  OnboardingInv'
<1> DEFINE c == [permit |-> p, manifest |-> m, evidence |-> e, at |-> clock]
           n == Len(connections) + 1
<1>1. /\ connections' = Append(connections, c)
      /\ Onboarding!PermitValid(permits[p], m, e) /\ Onboarding!EvidenceValid(e, m)
      /\ UNCHANGED <<clock, prompts, consents, used, onboardings, permits>>
  BY DEF Onboarding!Connect
<1>2. c.permit = p /\ c.manifest = m /\ c.evidence = e /\ c.at = clock
  OBVIOUS
<1> HIDE DEF c
<1>3. permits[p].manifest = m /\ permits[p].evidence = e /\ (ManifestOf[m].local => clock <= e.expires_at)
  BY <1>1 DEF Onboarding!PermitValid, Onboarding!EvidenceValid
<1>4. /\ Log(connections') /\ DOMAIN connections' = DOMAIN connections \cup {n}
      /\ \A i \in DOMAIN connections : connections'[i] = connections[i]
      /\ connections'[n] = c
  BY <1>1, Appended DEF OnboardingInv
<1> HIDE DEF n
<1>5. \A i \in DOMAIN connections' : LET permit == permits[connections'[i].permit] IN
        /\ connections'[i].permit \in DOMAIN permits
        /\ connections'[i].manifest = permit.manifest
        /\ connections'[i].evidence = permit.evidence
        /\ ManifestOf[permit.manifest].local => connections'[i].at <= permit.evidence.expires_at
  <2> SUFFICES ASSUME NEW i \in DOMAIN connections'
               PROVE  LET permit == permits[connections'[i].permit] IN
                        /\ connections'[i].permit \in DOMAIN permits
                        /\ connections'[i].manifest = permit.manifest
                        /\ connections'[i].evidence = permit.evidence
                        /\ ManifestOf[permit.manifest].local => connections'[i].at <= permit.evidence.expires_at
    OBVIOUS
  <2>1. CASE i \in DOMAIN connections
    BY <1>4, <2>1 DEF OnboardingInv
  <2>2. CASE i = n
    BY <1>2, <1>3, <1>4, <2>2
  <2> QED
    BY <1>4, <2>1, <2>2
<1>6. Onboarding!PromptType' = Onboarding!PromptType /\ Onboarding!PermitType' = Onboarding!PermitType
  BY DEF Onboarding!PromptType, Onboarding!PermitType, Onboarding!NoEvidence
<1> QED
  BY <1>1, <1>4, <1>5, <1>6 DEF OnboardingInv, OnboardingOf, Consented, Onboarding!UsedOnce

\* Every step of the guard keeps permits tied to consent.
LEMMA OnboardingStep == OnboardingInv /\ [Onboarding!Next]_onboarding => OnboardingInv'
<1> SUFFICES ASSUME OnboardingInv, [Onboarding!Next]_onboarding PROVE OnboardingInv'
  OBVIOUS
<1>1. ASSUME NEW m \in ServerVersions, Onboarding!PrepareConsent(m) PROVE OnboardingInv'
  BY <1>1, OnboardingPrompt
<1>2. ASSUME NEW prompt \in prompts, Onboarding!Grant(prompt) PROVE OnboardingInv'
  BY <1>2, OnboardingGrant
<1>3. ASSUME NEW t \in Callers, NEW g \in DOMAIN consents, NEW m \in ServerVersions,
             NEW e \in ServerEvidences \cup {Onboarding!NoEvidence}, Onboarding!AuthorizeBegin(t, g, m, e)
      PROVE  OnboardingInv'
  BY <1>3, OnboardingBegin
<1>4. ASSUME NEW t \in Callers, Onboarding!AuthorizeEnd(t) PROVE OnboardingInv'
  BY <1>4, OnboardingIssue
<1>5. ASSUME NEW p \in DOMAIN permits, NEW m \in ServerVersions,
             NEW e \in ServerEvidences \cup {Onboarding!NoEvidence}, Onboarding!Connect(p, m, e)
      PROVE  OnboardingInv'
  BY <1>5, OnboardingConnect
<1>6. Onboarding!PromptType' = Onboarding!PromptType /\ Onboarding!PermitType' = Onboarding!PermitType
  BY DEF Onboarding!PromptType, Onboarding!PermitType, Onboarding!NoEvidence
<1>7. CASE Onboarding!Tick
  <2>1. /\ clock' \in 0 .. OnboardingEnd
        /\ UNCHANGED <<prompts, consents, used, onboardings, permits, connections>>
    BY <1>7, OnboardingAssumption DEF OnboardingInv, Onboarding!Tick
  <2> QED
    BY <1>6, <2>1 DEF OnboardingInv, OnboardingOf, Consented, Onboarding!UsedOnce
<1>8. CASE UNCHANGED onboarding
  BY <1>6, <1>8 DEF OnboardingInv, onboarding, OnboardingOf, Consented, Onboarding!UsedOnce
<1> QED
  BY <1>1, <1>2, <1>3, <1>4, <1>5, <1>7, <1>8 DEF Onboarding!Next

\* A server connects as it was consented to, and while it is attested.
LEMMA OnboardingSafe ==
    OnboardingInv => /\ Onboarding!TypeOK /\ Onboarding!UsedOnce
                     /\ Onboarding!ConnectedAsConsented /\ Onboarding!ConnectedAttested
<1> SUFFICES ASSUME OnboardingInv
             PROVE  /\ Onboarding!TypeOK /\ Onboarding!UsedOnce
                    /\ Onboarding!ConnectedAsConsented /\ Onboarding!ConnectedAttested
  OBVIOUS
<1>1. Onboarding!TypeOK
  BY OnboardingAssumption DEF OnboardingInv, Consented, Onboarding!TypeOK
<1>2. Onboarding!ConnectedAsConsented
  BY DEF OnboardingInv, Consented, Onboarding!ConnectedAsConsented
<1>3. Onboarding!ConnectedAttested
  BY DEF OnboardingInv, Onboarding!ConnectedAttested
<1> QED
  BY <1>1, <1>2, <1>3 DEF OnboardingInv

-----------------------------------------------------------------------------
(* Flows between servers *)

\* One edge leads from the tools a server stands for to those of another, as routes may not overlap
\* (models/mcp_isolation.py:238); no approval has the reference of none.
ASSUME FlowAssumption ==
    /\ \A d, e \in Edges : d.source = e.source /\ d.destination = e.destination => d = e
    /\ \A a \in FlowApprovals : a.id # Isolation!NoApproval.id

\* What a call delivers is as the edges or its approval say.
Mediates(d) ==
    /\ d.request \in Transfers
    /\ \A r \in d.request.inputs : Isolation!Foreign(r, d.request) =>
        \E e \in Isolation!EdgesFor(r, d.request) :
            /\ d.inputs[r].labels \subseteq e.allowed \cup (e.approval \cap d.approval.labels)
            /\ Credential \notin d.inputs[r].labels

\* What was delivered, or is about to be, is as the edges and the approvals say.
IsolationInv ==
    /\ used_approvals \subseteq {approval.id : approval \in FlowApprovals}
    /\ DOMAIN transfers = Callers
    /\ \A t \in Callers : LET call == transfers[t] IN
        call.op = "idle" \/ (call.op = "approved" /\ call.approval \in FlowApprovals /\ Mediates(call))
    /\ Log(delivered)
    /\ \A i \in DOMAIN delivered :
        /\ Mediates(delivered[i])
        /\ delivered[i].approval = Isolation!NoApproval \/ delivered[i].approval.id \in used_approvals
    /\ Isolation!UsedOnce

\* Nothing is delivered or approved at first.
LEMMA IsolationInit == Isolation!Init => IsolationInv
BY EmptyLog DEF Isolation!Init, IsolationInv, Isolation!Idle, Isolation!UsedOnce

\* An input that flows is delivered with labels its edge allows, or that have to be approved.
LEMMA MediatedFlows ==
    ASSUME NEW request, NEW r \in request.inputs, Isolation!Foreign(r, request),
           Isolation!Flows(r, request), NEW input \in Isolation!Mediated(r, request)
    PROVE  \E e \in Isolation!EdgesFor(r, request) :
              /\ input.labels \subseteq e.allowed \cup (e.approval \cap Isolation!Required(request))
              /\ Credential \notin input.labels
<1>1. PICK e \in Isolation!EdgesFor(r, request) :
        input \in (LET removed == r.labels \cap e.redact
                   IN  IF removed = {} THEN {r}
                       ELSE {[r EXCEPT !.labels = made] : made \in
                               {kept \in SUBSET Labels :
                                   Isolation!ValidRedaction([r EXCEPT !.labels = kept], e, removed)}})
  BY DEF Isolation!Mediated
<1>2. /\ Credential \notin r.labels
      /\ r.labels \subseteq e.allowed \cup e.redact \cup e.approval
  <2>1. PICK f \in Isolation!EdgesFor(r, request) : r.labels \subseteq f.allowed \cup f.redact \cup f.approval
    BY DEF Isolation!Flows
  <2>2. f = e
    BY FlowAssumption DEF Isolation!EdgesFor
  <2> QED
    BY <2>1, <2>2 DEF Isolation!Flows
<1>3. CASE r.labels \cap e.redact = {}
  <2>1. input = r
    BY <1>1, <1>3
  <2>2. r.labels \cap e.approval \subseteq Isolation!Required(request)
    BY DEF Isolation!Required, Isolation!ApprovalLabels
  <2> QED
    BY <1>2, <1>3, <2>1, <2>2
<1>4. CASE r.labels \cap e.redact # {}
  <2>1. PICK kept \in SUBSET Labels :
            /\ input = [r EXCEPT !.labels = kept]
            /\ Isolation!ValidRedaction(input, e, r.labels \cap e.redact)
    BY <1>1, <1>4
  <2> QED
    BY <2>1 DEF Isolation!ValidRedaction
<1> QED
  BY <1>3, <1>4

\* A call that passed the checks delivers its inputs as the edges or the approval say.
LEMMA ChecksMediate ==
    ASSUME NEW request \in Transfers, NEW approval, NEW inputs, NEW d,
           d.request = request, d.inputs = inputs, d.approval = approval,
           \A r \in request.inputs : Isolation!Foreign(r, request) => Isolation!Flows(r, request),
           \A r \in request.inputs : inputs[r] \in Isolation!Mediated(r, request),
           approval.labels = Isolation!Required(request)
    PROVE  Mediates(d)
<1> SUFFICES ASSUME NEW r \in request.inputs, Isolation!Foreign(r, request)
             PROVE  \E e \in Isolation!EdgesFor(r, request) :
                      /\ inputs[r].labels \subseteq e.allowed \cup (e.approval \cap approval.labels)
                      /\ Credential \notin inputs[r].labels
  BY DEF Mediates
<1> QED
  BY MediatedFlows

\* authorize up to the lock: inputs pass the edges; without approval they are delivered.
LEMMA IsolationBegin ==
    ASSUME IsolationInv, NEW t \in Callers, NEW request \in Transfers, NEW approval \in FlowApprovals,
           NEW inputs, Isolation!AuthorizeBegin(t, request, approval, inputs)
    PROVE  IsolationInv'
<1> DEFINE d == [request |-> request, inputs |-> inputs, approval |-> Isolation!NoApproval]
           call == [op |-> "approved", request |-> request, inputs |-> inputs, approval |-> approval]
<1>1. /\ used_approvals' = used_approvals
      /\ \A r \in request.inputs : Isolation!Foreign(r, request) => Isolation!Flows(r, request)
      /\ \A r \in request.inputs : inputs[r] \in Isolation!Mediated(r, request)
  BY DEF Isolation!AuthorizeBegin
<1>2. CASE Isolation!Required(request) = {}
  <2>1. delivered' = Append(delivered, d) /\ transfers' = transfers
    BY <1>2 DEF Isolation!AuthorizeBegin
  <2>2. /\ d.request = request /\ d.inputs = inputs /\ d.approval = Isolation!NoApproval
        /\ Isolation!NoApproval.labels = {}
    BY DEF Isolation!NoApproval
  <2> HIDE DEF d
  <2>3. Mediates(d)
    BY <1>1, <1>2, <2>2, ChecksMediate
  <2>4. /\ Log(delivered') /\ DOMAIN delivered' = DOMAIN delivered \cup {Len(delivered) + 1}
        /\ \A i \in DOMAIN delivered : delivered'[i] = delivered[i]
        /\ delivered'[Len(delivered) + 1] = d
    BY <2>1, Appended DEF IsolationInv
  <2>5. \A i \in DOMAIN delivered' :
            delivered'[i] = d \/ (i \in DOMAIN delivered /\ delivered'[i] = delivered[i])
    BY <2>4
  <2>6. \A i \in DOMAIN delivered' :
          /\ Mediates(delivered'[i])
          /\ delivered'[i].approval = Isolation!NoApproval \/ delivered'[i].approval.id \in used_approvals
    BY <2>2, <2>3, <2>5 DEF IsolationInv
  <2>7. Isolation!NoApproval.id \notin used_approvals
    BY FlowAssumption DEF IsolationInv
  <2>8. Isolation!UsedOnce'
    <3> SUFFICES ASSUME NEW i \in DOMAIN delivered', NEW j \in DOMAIN delivered', i # j,
                        delivered'[i].approval.id = delivered'[j].approval.id
                 PROVE  delivered'[i].approval = Isolation!NoApproval
      BY DEF Isolation!UsedOnce
    <3>1. CASE delivered'[i].approval.id \notin used_approvals
      BY <2>6, <3>1
    <3>2. CASE delivered'[i].approval.id \in used_approvals
      <4>1. /\ i \in DOMAIN delivered /\ j \in DOMAIN delivered
            /\ delivered'[i] = delivered[i] /\ delivered'[j] = delivered[j]
        BY <2>2, <2>5, <2>7, <3>2
      <4> QED
        BY <4>1 DEF IsolationInv, Isolation!UsedOnce
    <3> QED
      BY <3>1, <3>2
  <2> QED
    BY <1>1, <2>1, <2>4, <2>6, <2>8 DEF IsolationInv, Mediates
<1>3. CASE Isolation!Required(request) # {}
  <2>1. /\ transfers' = [transfers EXCEPT ![t] = call] /\ delivered' = delivered
        /\ approval.labels = Isolation!Required(request)
    BY <1>3 DEF Isolation!AuthorizeBegin, Isolation!Approves
  <2>2. /\ call.op = "approved" /\ call.request = request /\ call.inputs = inputs
        /\ call.approval = approval
    OBVIOUS
  <2> HIDE DEF call
  <2>3. Mediates(call)
    BY <1>1, <2>1, <2>2, ChecksMediate
  <2> QED
    BY <1>1, <2>1, <2>2, <2>3 DEF IsolationInv, Isolation!UsedOnce
<1> QED
  BY <1>2, <1>3

\* authorize from the lock on: an approval that was used delivers nothing.
LEMMA IsolationEnd ==
    ASSUME IsolationInv, NEW t \in Callers, Isolation!AuthorizeEnd(t)
    PROVE  IsolationInv'
<1> DEFINE call == transfers[t]
           d == [request |-> call.request, inputs |-> call.inputs, approval |-> call.approval]
<1>1. /\ transfers' = [transfers EXCEPT ![t] = Isolation!Idle]
      /\ call.approval \in FlowApprovals /\ Mediates(call)
      /\ \/ /\ call.approval.id \notin used_approvals
            /\ used_approvals' = used_approvals \cup {call.approval.id}
            /\ delivered' = Append(delivered, d)
         \/ used_approvals' = used_approvals /\ delivered' = delivered
  BY DEF Isolation!AuthorizeEnd, Isolation!Unused, IsolationInv
<1>2. d.request = call.request /\ d.inputs = call.inputs /\ d.approval = call.approval
  OBVIOUS
<1> HIDE DEF d, call
<1>3. Mediates(d)
  BY <1>1, <1>2 DEF Mediates
<1>4. \A u \in Callers : LET c == transfers'[u] IN
        c.op = "idle" \/ (c.op = "approved" /\ c.approval \in FlowApprovals /\ Mediates(c))
  BY <1>1 DEF IsolationInv, Isolation!Idle
<1>5. CASE used_approvals' = used_approvals /\ delivered' = delivered
  BY <1>1, <1>4, <1>5 DEF IsolationInv, Isolation!UsedOnce
<1>6. CASE /\ call.approval.id \notin used_approvals
           /\ used_approvals' = used_approvals \cup {call.approval.id}
           /\ delivered' = Append(delivered, d)
  <2>4. /\ Log(delivered') /\ DOMAIN delivered' = DOMAIN delivered \cup {Len(delivered) + 1}
        /\ \A i \in DOMAIN delivered : i # Len(delivered) + 1 /\ delivered'[i] = delivered[i]
        /\ delivered'[Len(delivered) + 1] = d
    BY <1>6, Appended DEF IsolationInv
  <2>5. \A i \in DOMAIN delivered' :
            \/ i = Len(delivered) + 1 /\ delivered'[i] = d
            \/ i \in DOMAIN delivered /\ delivered'[i] = delivered[i]
    BY <2>4
  <2>6. \A i \in DOMAIN delivered' :
          /\ Mediates(delivered'[i])
          /\ delivered'[i].approval = Isolation!NoApproval \/ delivered'[i].approval.id \in used_approvals'
    BY <1>2, <1>3, <1>6, <2>5 DEF IsolationInv
  <2>7. /\ Isolation!NoApproval.id # d.approval.id
        /\ \A i \in DOMAIN delivered : delivered[i].approval.id # d.approval.id
    BY <1>1, <1>2, <1>6, FlowAssumption DEF IsolationInv
  <2>8. Isolation!UsedOnce'
    <3> SUFFICES ASSUME NEW i \in DOMAIN delivered', NEW j \in DOMAIN delivered', i # j,
                        delivered'[i].approval.id = delivered'[j].approval.id
                 PROVE  delivered'[i].approval = Isolation!NoApproval
      BY DEF Isolation!UsedOnce
    <3>1. /\ i \in DOMAIN delivered /\ j \in DOMAIN delivered
          /\ delivered'[i] = delivered[i] /\ delivered'[j] = delivered[j]
      BY <2>5, <2>7
    <3> QED
      BY <3>1 DEF IsolationInv, Isolation!UsedOnce
  <2>9. used_approvals' \subseteq {approval.id : approval \in FlowApprovals}
    BY <1>1, <1>6 DEF IsolationInv
  <2> QED
    BY <1>1, <1>4, <2>4, <2>6, <2>8, <2>9 DEF IsolationInv, Mediates
<1> QED
  BY <1>1, <1>5, <1>6

\* Every step of the guard keeps deliveries within their edges.
LEMMA IsolationStep == IsolationInv /\ [Isolation!Next]_isolation => IsolationInv'
<1> SUFFICES ASSUME IsolationInv, [Isolation!Next]_isolation PROVE IsolationInv'
  OBVIOUS
<1>1. ASSUME NEW t \in Callers, NEW request \in Transfers, NEW approval \in FlowApprovals,
             NEW inputs, Isolation!AuthorizeBegin(t, request, approval, inputs)
      PROVE  IsolationInv'
  BY <1>1, IsolationBegin
<1>2. ASSUME NEW t \in Callers, Isolation!AuthorizeEnd(t) PROVE IsolationInv'
  BY <1>2, IsolationEnd
<1>3. CASE UNCHANGED isolation
  BY <1>3 DEF IsolationInv, isolation, Mediates, Isolation!UsedOnce
<1> QED
  BY <1>1, <1>2, <1>3 DEF Isolation!Next

\* No label slips through, and an approval serves once.
LEMMA IsolationSafe ==
    IsolationInv => Isolation!TypeOK /\ Isolation!UsedOnce /\ Isolation!NoLabelSlips
BY DEF IsolationInv, Isolation!TypeOK, Isolation!NoLabelSlips, Mediates

-----------------------------------------------------------------------------
(* Pins of tools and primitives *)

\* Approvals are discoveries that were inspected together, and what ran is in one of them.
ToolsInv ==
    /\ discoveries \subseteq SUBSET ToolDefinitions
    /\ Log(approvals)
    /\ \A a \in DOMAIN approvals :
        approvals[a] \in discoveries /\ ToolGuard!Inspected(approvals[a])
    /\ Log(executed)
    /\ \A u \in DOMAIN executed :
        executed[u].approval \in DOMAIN approvals /\ executed[u].definition \in approvals[executed[u].approval]

\* Nothing is discovered, approved or run at first.
LEMMA ToolsInit == ToolGuard!Init => ToolsInv
BY EmptyLog DEF ToolGuard!Init, ToolsInv

\* Every step of the guard keeps what runs pinned.
LEMMA ToolsStep == ToolsInv /\ [ToolGuard!Next]_tools => ToolsInv'
<1> SUFFICES ASSUME ToolsInv, [ToolGuard!Next]_tools PROVE ToolsInv'
  OBVIOUS
<1>1. ASSUME NEW bundle \in SUBSET ToolDefinitions, ToolGuard!Discover(bundle) PROVE ToolsInv'
  BY <1>1 DEF ToolsInv, ToolGuard!Discover
<1>2. ASSUME NEW bundle \in SUBSET ToolDefinitions, NEW discovery \in discoveries,
             ToolGuard!Approve(bundle, discovery)
      PROVE  ToolsInv'
  <2>1. /\ approvals' = Append(approvals, bundle) /\ UNCHANGED <<discoveries, executed>>
        /\ ToolGuard!Inspected(bundle) /\ bundle \in discoveries
    BY <1>2 DEF ToolGuard!Approve, ToolGuard!Unchanged
  <2>2. /\ Log(approvals') /\ DOMAIN approvals' = DOMAIN approvals \cup {Len(approvals) + 1}
        /\ \A a \in DOMAIN approvals : approvals'[a] = approvals[a]
        /\ approvals'[Len(approvals) + 1] = bundle
    BY <2>1, Appended DEF ToolsInv
  <2>3. \A a \in DOMAIN approvals' :
            approvals'[a] = bundle \/ (a \in DOMAIN approvals /\ approvals'[a] = approvals[a])
    BY <2>2
  <2>4. \A a \in DOMAIN approvals' :
            approvals'[a] \in discoveries /\ ToolGuard!Inspected(approvals'[a])
    BY <2>1, <2>3 DEF ToolsInv
  <2> QED
    BY <2>1, <2>2, <2>4 DEF ToolsInv
<1>3. ASSUME NEW d \in ToolDefinitions, NEW a \in DOMAIN approvals, ToolGuard!VerifyExecution(d, a)
      PROVE  ToolsInv'
  <2> DEFINE run == [definition |-> d, approval |-> a]
  <2>1. /\ executed' = Append(executed, run) /\ UNCHANGED <<discoveries, approvals>>
        /\ d \in approvals[a]
    BY <1>3 DEF ToolGuard!VerifyExecution, ToolGuard!Pinned
  <2>2. run.approval \in DOMAIN approvals /\ run.definition \in approvals[run.approval]
    BY <2>1
  <2> HIDE DEF run
  <2>3. /\ Log(executed') /\ DOMAIN executed' = DOMAIN executed \cup {Len(executed) + 1}
        /\ \A u \in DOMAIN executed : executed'[u] = executed[u]
        /\ executed'[Len(executed) + 1] = run
    BY <2>1, Appended DEF ToolsInv
  <2>4. \A u \in DOMAIN executed' :
            executed'[u] = run \/ (u \in DOMAIN executed /\ executed'[u] = executed[u])
    BY <2>3
  <2>5. \A u \in DOMAIN executed' :
            /\ executed'[u].approval \in DOMAIN approvals
            /\ executed'[u].definition \in approvals[executed'[u].approval]
    BY <2>2, <2>4 DEF ToolsInv
  <2> QED
    BY <2>1, <2>3, <2>5 DEF ToolsInv
<1>4. CASE UNCHANGED tools
  BY <1>4 DEF ToolsInv, tools
<1> QED
  BY <1>1, <1>2, <1>3, <1>4 DEF ToolGuard!Next

\* A tool runs as it was discovered, and none takes the name of another.
LEMMA ToolsSafe ==
    ToolsInv => ToolGuard!TypeOK /\ ToolGuard!RunsAsDiscovered /\ ToolGuard!NoShadowing
<1> SUFFICES ASSUME ToolsInv
             PROVE  ToolGuard!TypeOK /\ ToolGuard!RunsAsDiscovered /\ ToolGuard!NoShadowing
  OBVIOUS
<1>1. ToolGuard!TypeOK
  BY DEF ToolsInv, ToolGuard!TypeOK
<1>2. ToolGuard!RunsAsDiscovered
  BY DEF ToolsInv, ToolGuard!RunsAsDiscovered
<1>3. ToolGuard!NoShadowing
  <2> SUFFICES ASSUME NEW u \in DOMAIN executed, NEW v \in DOMAIN executed,
                      executed[u].approval = executed[v].approval,
                      executed[u].definition # executed[v].definition
               PROVE  /\ executed[u].definition.name # executed[v].definition.name
                      /\ executed[u].definition.skeleton # executed[v].definition.skeleton
                      /\ executed[v].definition.name \notin executed[u].definition.mentions
    BY DEF ToolGuard!NoShadowing
  <2> DEFINE d == executed[u].definition
             e == executed[v].definition
             bundle == approvals[executed[u].approval]
  <2>1. d \in bundle /\ e \in bundle /\ ToolGuard!Inspected(bundle)
    BY DEF ToolsInv
  <2> HIDE DEF d, e, bundle
  <2>2. d # e => d.name # e.name /\ d.skeleton # e.skeleton
    BY <2>1 DEF ToolGuard!Inspected, ToolGuard!Clash
  <2>3. d.name # e.name => e.name \notin d.mentions
    BY <2>1 DEF ToolGuard!Inspected, ToolGuard!Mentions
  <2> QED
    BY <2>2, <2>3 DEF d, e
<1> QED
  BY <1>1, <1>2, <1>3

-----------------------------------------------------------------------------
\* An approval is a discovery whose relationships hold, and what is let through is covered by one.
Covered(x) ==
    /\ x.approval \in DOMAIN pinned
    /\ x.definition \in pinned[x.approval]
    /\ x.content.server = x.definition.server
    /\ x.content.subscription # "none" =>
        /\ x.content.name = x.definition.name
        /\ x.subscription \in pinned[x.approval]
        /\ x.subscription.target = x.content.name /\ x.subscription.server = x.content.server
    /\ x.definition.kind = "completion" => x.content.name = x.definition.target

\* Content that was accepted belongs to a primitive that was captured and approved.
PrimitivesInv ==
    /\ captured \subseteq SUBSET PrimitiveDefinitions
    /\ Log(pinned)
    /\ \A a \in DOMAIN pinned :
        pinned[a] \in captured /\ \A d \in pinned[a] : PrimitiveGuard!Related(d, pinned[a])
    /\ Log(accepted)
    /\ \A u \in DOMAIN accepted : Covered(accepted[u])

\* Nothing is captured, approved or accepted at first.
LEMMA PrimitivesInit == PrimitiveGuard!Init => PrimitivesInv
BY EmptyLog DEF PrimitiveGuard!Init, PrimitivesInv

\* What validate_resource_content, validate_prompt_render and validate_completion let through.
LEMMA PrimitivesCovered ==
    ASSUME NEW d, NEW content, NEW s, NEW a \in DOMAIN pinned,
           PrimitiveGuard!Validate(d, content, s, a)
    PROVE  Covered([definition |-> d, content |-> content, subscription |-> s, approval |-> a])
<1>1. d \in pinned[a]
  BY DEF PrimitiveGuard!Validate, PrimitiveGuard!Usable
<1>2. CASE PrimitiveGuard!ResourceContent(d, content, s, a)
  <2>1. d.kind = "resource" /\ content.server = d.server /\ content.name = d.name
    BY <1>2 DEF PrimitiveGuard!ResourceContent
  <2>2. content.subscription # "none" =>
            s \in pinned[a] /\ s.target = content.name /\ s.server = content.server
    BY <1>2 DEF PrimitiveGuard!ResourceContent, PrimitiveGuard!Subscribed, PrimitiveGuard!Usable
  <2> QED
    BY <1>1, <2>1, <2>2 DEF Covered
<1>3. CASE PrimitiveGuard!PromptRender(d, content)
  BY <1>1, <1>3 DEF PrimitiveGuard!PromptRender, Covered
<1>4. CASE PrimitiveGuard!Completion(d, content)
  BY <1>1, <1>4 DEF PrimitiveGuard!Completion, Covered
<1> QED
  BY <1>2, <1>3, <1>4 DEF PrimitiveGuard!Validate

\* Every step of the guard keeps what is accepted tied to what was approved.
LEMMA PrimitivesStep == PrimitivesInv /\ [PrimitiveGuard!Next]_primitives => PrimitivesInv'
<1> SUFFICES ASSUME PrimitivesInv, [PrimitiveGuard!Next]_primitives PROVE PrimitivesInv'
  OBVIOUS
<1>1. ASSUME NEW bundle \in SUBSET PrimitiveDefinitions, PrimitiveGuard!Discover(bundle)
      PROVE  PrimitivesInv'
  <2>1. captured' = captured \cup {bundle} /\ UNCHANGED <<pinned, accepted>>
    BY <1>1 DEF PrimitiveGuard!Discover
  <2> QED
    BY <2>1 DEF PrimitivesInv, Covered
<1>2. ASSUME NEW bundle \in SUBSET PrimitiveDefinitions, NEW discovery \in captured,
             PrimitiveGuard!Approve(bundle, discovery)
      PROVE  PrimitivesInv'
  <2>1. /\ pinned' = Append(pinned, bundle) /\ UNCHANGED <<captured, accepted>>
        /\ \A d \in bundle : PrimitiveGuard!Related(d, bundle)
        /\ bundle \in captured
    BY <1>2 DEF PrimitiveGuard!Approve, PrimitiveGuard!Unchanged
  <2>2. /\ Log(pinned') /\ DOMAIN pinned' = DOMAIN pinned \cup {Len(pinned) + 1}
        /\ \A a \in DOMAIN pinned : pinned'[a] = pinned[a]
        /\ pinned'[Len(pinned) + 1] = bundle
    BY <2>1, Appended DEF PrimitivesInv
  <2>3. \A a \in DOMAIN pinned' :
            pinned'[a] = bundle \/ (a \in DOMAIN pinned /\ pinned'[a] = pinned[a])
    BY <2>2
  <2>4. \A a \in DOMAIN pinned' :
            pinned'[a] \in captured /\ \A d \in pinned'[a] : PrimitiveGuard!Related(d, pinned'[a])
    BY <2>1, <2>3 DEF PrimitivesInv
  <2>5. \A u \in DOMAIN accepted : Covered(accepted[u])'
    BY <2>1, <2>2 DEF PrimitivesInv, Covered
  <2> QED
    BY <2>1, <2>2, <2>4, <2>5 DEF PrimitivesInv
<1>3. ASSUME NEW d \in PrimitiveDefinitions, NEW content \in Contents, NEW a \in DOMAIN pinned, NEW s,
             PrimitiveGuard!Validate(d, content, s, a)
      PROVE  PrimitivesInv'
  <2> DEFINE x == [definition |-> d, content |-> content, subscription |-> s, approval |-> a]
  <2>1. accepted' = Append(accepted, x) /\ UNCHANGED <<captured, pinned>>
    BY <1>3 DEF PrimitiveGuard!Validate
  <2>2. Covered(x)
    BY <1>3, PrimitivesCovered
  <2> HIDE DEF x
  <2>3. /\ Log(accepted') /\ DOMAIN accepted' = DOMAIN accepted \cup {Len(accepted) + 1}
        /\ \A u \in DOMAIN accepted : accepted'[u] = accepted[u]
        /\ accepted'[Len(accepted) + 1] = x
    BY <2>1, Appended DEF PrimitivesInv
  <2>4. \A u \in DOMAIN accepted' :
            accepted'[u] = x \/ (u \in DOMAIN accepted /\ accepted'[u] = accepted[u])
    BY <2>3
  <2>5. \A u \in DOMAIN accepted' : Covered(accepted'[u])
    BY <2>2, <2>4 DEF PrimitivesInv
  <2> QED
    BY <2>1, <2>3, <2>5 DEF PrimitivesInv, Covered
<1>4. CASE UNCHANGED primitives
  BY <1>4 DEF PrimitivesInv, primitives, Covered
<1> QED
  BY <1>1, <1>2, <1>3, <1>4 DEF PrimitiveGuard!Next

\* Updates are of subscriptions, and completions of approved prompts.
LEMMA PrimitivesSafe ==
    PrimitivesInv => /\ PrimitiveGuard!TypeOK /\ PrimitiveGuard!UpdatesSubscribed
                     /\ PrimitiveGuard!CompletesApprovedPrompt
<1> SUFFICES ASSUME PrimitivesInv
             PROVE  /\ PrimitiveGuard!TypeOK /\ PrimitiveGuard!UpdatesSubscribed
                    /\ PrimitiveGuard!CompletesApprovedPrompt
  OBVIOUS
<1>1. PrimitiveGuard!TypeOK
  BY DEF PrimitivesInv, PrimitiveGuard!TypeOK, Covered
<1>2. PrimitiveGuard!UpdatesSubscribed
  BY DEF PrimitivesInv, PrimitiveGuard!UpdatesSubscribed, Covered
<1>3. PrimitiveGuard!CompletesApprovedPrompt
  <2> SUFFICES ASSUME NEW u \in DOMAIN accepted, accepted[u].definition.kind = "completion"
               PROVE  \E e \in pinned[accepted[u].approval] :
                        /\ e.kind = "prompt" /\ e.server = accepted[u].content.server
                        /\ e.name = accepted[u].content.name
                        /\ accepted[u].definition.argument \in e.arguments
    BY DEF PrimitiveGuard!CompletesApprovedPrompt
  <2>1. Covered(accepted[u])
    BY DEF PrimitivesInv
  <2>2. PrimitiveGuard!Related(accepted[u].definition, pinned[accepted[u].approval])
    BY <2>1 DEF PrimitivesInv, Covered
  <2> QED
    BY <2>1, <2>2 DEF Covered, PrimitiveGuard!Related
<1> QED
  BY <1>1, <1>2, <1>3

-----------------------------------------------------------------------------
(* Runs in a sandbox *)

\* Attestations are records of their type; times are numbers.
ASSUME ExecutionAssumption ==
    /\ Sandboxes \subseteq Execution!AttestationType
    /\ SandboxTtl \in Nat /\ SandboxEnd \in Nat

\* The report r is of a run of the lease l that began while its sandbox was attested.
RanOn(l, r) ==
    LET a == leases[l].attestation
    IN  reports[r].lease = l /\ a.issued_at <= reports[r].started_at /\ reports[r].started_at < a.expires_at

\* What a call holds is of a sandbox attested when it began, or of a run that was on one.
CallOf(call) ==
    \/ call.op = "idle"
    \/ /\ call.op = "authorize" /\ call.attestation \in Sandboxes /\ call.clock \in Nat
       /\ call.attestation.issued_at <= call.clock
    \/ /\ call.op = "complete" /\ call.lease \in DOMAIN leases /\ call.report \in DOMAIN reports
       /\ call.passed => RanOn(call.lease, call.report)

\* Every lease keeps within its attestation, and every verdict ended its lease.
ExecutionInv ==
    /\ sandbox_now \in 0 .. SandboxEnd
    /\ used_sandboxes \subseteq {a.id : a \in Sandboxes}
    /\ Log(leases) /\ running \subseteq DOMAIN leases
    /\ \A l \in DOMAIN leases : LET lease == leases[l] IN
        /\ lease.attestation \in Sandboxes /\ lease.attestation.id \in used_sandboxes
        /\ lease.issued_at \in Nat /\ lease.expires_at \in Int
        /\ lease.attestation.issued_at <= lease.issued_at
        /\ lease.expires_at <= lease.attestation.expires_at
    /\ Log(reports) /\ used_reports \subseteq DOMAIN reports
    /\ \A r \in DOMAIN reports : reports[r].started_at \in Int
    /\ Log(outcomes)
    /\ \A o \in DOMAIN outcomes :
        /\ outcomes[o].lease \in DOMAIN leases \ running /\ outcomes[o].report \in DOMAIN reports
        /\ outcomes[o].released => RanOn(outcomes[o].lease, outcomes[o].report)
    /\ DOMAIN sandbox_calls = Callers
    /\ \A t \in Callers : CallOf(sandbox_calls[t])
    /\ Execution!UsedOnce
    /\ Execution!FirstCompletionDecides

\* No lease is out and nothing has run at first.
LEMMA ExecutionInit == Execution!Init => ExecutionInv
<1> SUFFICES ASSUME Execution!Init PROVE ExecutionInv
  OBVIOUS
<1>1. sandbox_now \in 0 .. SandboxEnd
  BY ExecutionAssumption DEF Execution!Init
<1>2. \A t \in Callers : sandbox_calls[t].op = "idle"
  BY DEF Execution!Init, Execution!Idle
<1> QED
  BY <1>1, <1>2, EmptyLog
  DEF Execution!Init, ExecutionInv, CallOf, Execution!UsedOnce, Execution!FirstCompletionDecides

\* authorize up to the lock: the sandbox is attested by now.
LEMMA ExecutionBegin ==
    ASSUME ExecutionInv, NEW t \in Callers, NEW r, NEW a \in Sandboxes, Execution!AuthorizeBegin(t, r, a)
    PROVE  ExecutionInv'
<1> DEFINE call == [op |-> "authorize", attestation |-> a, clock |-> sandbox_now]
<1>1. /\ sandbox_calls' = [sandbox_calls EXCEPT ![t] = call] /\ a.issued_at <= sandbox_now
      /\ UNCHANGED <<sandbox_now, used_sandboxes, running, used_reports, leases, reports, outcomes>>
  BY DEF Execution!AuthorizeBegin, Execution!Attested
<1>2. sandbox_now \in Nat
  BY ExecutionAssumption DEF ExecutionInv
<1>3. /\ call.op = "authorize" /\ call.attestation \in Sandboxes /\ call.clock \in Nat
      /\ call.attestation.issued_at <= call.clock
  BY <1>1, <1>2
<1> HIDE DEF call
<1>4. \A u \in Callers : CallOf(sandbox_calls[u])
  BY DEF ExecutionInv, CallOf
<1>5. \A u \in Callers : CallOf(sandbox_calls'[u])
  BY <1>1, <1>3, <1>4 DEF ExecutionInv, CallOf
<1>6. \A u \in Callers : CallOf(sandbox_calls[u])'
  BY <1>1, <1>5 DEF CallOf, RanOn
<1>7. DOMAIN sandbox_calls' = Callers
  BY <1>1 DEF ExecutionInv
<1> QED
  BY <1>1, <1>6, <1>7
  DEF ExecutionInv, CallOf, RanOn, Execution!UsedOnce, Execution!FirstCompletionDecides

\* A lease ends no later than the attestation it rests on.
LEMMA EarlierOf ==
    ASSUME NEW a \in Int, NEW b \in Int
    PROVE  Execution!Earlier(a, b) \in Int /\ Execution!Earlier(a, b) <= a
BY DEF Execution!Earlier

\* authorize from the lock on: one lease of an attestation.
LEMMA ExecutionIssue ==
    ASSUME ExecutionInv, NEW t \in Callers, Execution!AuthorizeEnd(t)
    PROVE  ExecutionInv'
<1> DEFINE a == sandbox_calls[t].attestation
           clk == sandbox_calls[t].clock
           lease == Execution!Lease(a, clk)
           n == Len(leases) + 1
<1>1. /\ sandbox_calls[t].op = "authorize"
      /\ sandbox_calls' = [sandbox_calls EXCEPT ![t] = Execution!Idle]
      /\ UNCHANGED <<sandbox_now, used_reports, reports, outcomes>>
      /\ \/ /\ a.id \notin used_sandboxes
            /\ used_sandboxes' = used_sandboxes \cup {a.id}
            /\ leases' = Append(leases, lease)
            /\ running' = running \cup {n}
         \/ UNCHANGED <<used_sandboxes, leases, running>>
  BY DEF Execution!AuthorizeEnd, Execution!Fresh
<1>2. a \in Sandboxes /\ clk \in Nat /\ a.issued_at <= clk
  BY <1>1 DEF ExecutionInv, CallOf
<1>3. a.expires_at \in Int /\ clk + SandboxTtl \in Int
  BY <1>2, ExecutionAssumption DEF Execution!AttestationType
<1>4. /\ lease.attestation = a /\ lease.issued_at = clk
      /\ lease.expires_at \in Int /\ lease.expires_at <= a.expires_at
  <2> HIDE DEF a, clk
  <2> QED
    BY <1>3, EarlierOf DEF Execution!Lease
<1> HIDE DEF a, clk, lease
<1>5. \A u \in Callers : sandbox_calls'[u].op = "idle" \/ sandbox_calls'[u] = sandbox_calls[u]
  BY <1>1 DEF ExecutionInv, Execution!Idle
<1>6. \A u \in Callers : CallOf(sandbox_calls[u])
  BY DEF ExecutionInv, CallOf
<1>7. \A u \in Callers : CallOf(sandbox_calls'[u])
  BY <1>5, <1>6 DEF CallOf
<1>8. DOMAIN sandbox_calls' = Callers
  BY <1>1 DEF ExecutionInv
<1>9. CASE UNCHANGED <<used_sandboxes, leases, running>>
  <2>1. \A u \in Callers : CallOf(sandbox_calls[u])'
    BY <1>1, <1>7, <1>9 DEF CallOf, RanOn
  <2> QED
    BY <1>1, <1>8, <1>9, <2>1
    DEF ExecutionInv, CallOf, RanOn, Execution!UsedOnce, Execution!FirstCompletionDecides
<1>10. CASE /\ a.id \notin used_sandboxes
            /\ used_sandboxes' = used_sandboxes \cup {a.id}
            /\ leases' = Append(leases, lease)
            /\ running' = running \cup {n}
  <2>1. /\ Log(leases') /\ DOMAIN leases' = DOMAIN leases \cup {n}
        /\ \A i \in DOMAIN leases : i # n /\ leases'[i] = leases[i]
        /\ leases'[n] = lease
    BY <1>10, Appended DEF ExecutionInv
  <2> HIDE DEF n
  <2>2. \A i \in DOMAIN leases' :
          \/ i = n /\ leases'[i] = lease
          \/ i \in DOMAIN leases /\ leases'[i] = leases[i]
    BY <2>1
  <2>3. Execution!UsedOnce'
    <3> SUFFICES ASSUME NEW i \in DOMAIN leases', NEW j \in DOMAIN leases', i # j,
                        leases'[i].attestation.id = leases'[j].attestation.id
                 PROVE  FALSE
      BY DEF Execution!UsedOnce
    <3>1. i \in DOMAIN leases /\ j \in DOMAIN leases /\ leases'[i] = leases[i] /\ leases'[j] = leases[j]
      BY <1>4, <1>10, <2>2 DEF ExecutionInv
    <3> QED
      BY <3>1 DEF ExecutionInv, Execution!UsedOnce
  <2>4. \A l \in DOMAIN leases, r \in DOMAIN reports : RanOn(l, r) => RanOn(l, r)'
    BY <1>1, <2>1 DEF RanOn
  <2>5. \A u \in Callers : CallOf(sandbox_calls[u])'
    <3> SUFFICES ASSUME NEW u \in Callers PROVE CallOf(sandbox_calls[u])'
      OBVIOUS
    <3>1. CASE sandbox_calls'[u].op = "complete"
      <4>1. sandbox_calls'[u] = sandbox_calls[u] /\ sandbox_calls[u].op = "complete"
        BY <1>5, <3>1
      <4>2. /\ sandbox_calls[u].lease \in DOMAIN leases /\ sandbox_calls[u].report \in DOMAIN reports
            /\ sandbox_calls[u].passed => RanOn(sandbox_calls[u].lease, sandbox_calls[u].report)
        BY <1>6, <4>1 DEF CallOf
      <4>3. sandbox_calls[u].passed => RanOn(sandbox_calls[u].lease, sandbox_calls[u].report)'
        <5> DEFINE l == sandbox_calls[u].lease
                   r == sandbox_calls[u].report
        <5> QED
          BY <1>1, <2>1, <4>1, <4>2 DEF RanOn
      <4> QED
        BY <1>1, <2>1, <4>1, <4>2, <4>3 DEF CallOf, RanOn
    <3>2. CASE sandbox_calls'[u].op # "complete"
      BY <1>7, <3>2 DEF CallOf
    <3> QED
      BY <3>1, <3>2
  <2>6. \A l \in DOMAIN leases' :
        /\ leases'[l].attestation \in Sandboxes /\ leases'[l].attestation.id \in used_sandboxes'
        /\ leases'[l].issued_at \in Nat /\ leases'[l].expires_at \in Int
        /\ leases'[l].attestation.issued_at <= leases'[l].issued_at
        /\ leases'[l].expires_at <= leases'[l].attestation.expires_at
    BY <1>2, <1>4, <1>10, <2>2 DEF ExecutionInv
  <2>7. \A o \in DOMAIN outcomes :
        /\ outcomes[o].lease \in DOMAIN leases' \ running' /\ outcomes[o].report \in DOMAIN reports
        /\ outcomes[o].released =>
              /\ reports[outcomes[o].report].lease = outcomes[o].lease
              /\ leases'[outcomes[o].lease].attestation.issued_at <= reports[outcomes[o].report].started_at
              /\ reports[outcomes[o].report].started_at < leases'[outcomes[o].lease].attestation.expires_at
    BY <1>10, <2>1 DEF ExecutionInv, RanOn
  <2>8. running' \subseteq DOMAIN leases' /\ used_sandboxes' \subseteq {x.id : x \in Sandboxes}
    BY <1>2, <1>10, <2>1 DEF ExecutionInv
  <2>9. Execution!FirstCompletionDecides'
    BY <1>1 DEF ExecutionInv, Execution!FirstCompletionDecides
  <2> QED
    BY <1>1, <1>8, <2>1, <2>3, <2>5, <2>6, <2>7, <2>8, <2>9 DEF ExecutionInv, CallOf, RanOn
<1> QED
  BY <1>1, <1>9, <1>10

\* The sandbox reports; earlier reports stay.
LEMMA ExecutionReport ==
    ASSUME ExecutionInv, NEW l \in DOMAIN leases, NEW started_at \in 0 .. sandbox_now, NEW ending \in Endings,
           Execution!SandboxReport(l, started_at, ending)
    PROVE  ExecutionInv'
<1> DEFINE r == [lease |-> l, started_at |-> started_at, completed_at |-> sandbox_now,
                 exited |-> ending.exited, declared |-> ending.declared]
           n == Len(reports) + 1
<1>1. /\ reports' = Append(reports, r)
      /\ UNCHANGED <<sandbox_now, used_sandboxes, running, used_reports, leases, sandbox_calls, outcomes>>
  BY DEF Execution!SandboxReport
<1>2. r.started_at \in Int
  OBVIOUS
<1> HIDE DEF r
<1>3. /\ Log(reports') /\ DOMAIN reports' = DOMAIN reports \cup {n}
      /\ \A i \in DOMAIN reports : reports'[i] = reports[i]
      /\ reports'[n] = r
  BY <1>1, Appended DEF ExecutionInv
<1> HIDE DEF n
<1>4. \A i \in DOMAIN reports' : reports'[i].started_at \in Int
  BY <1>2, <1>3 DEF ExecutionInv
<1>5. \A u \in Callers : CallOf(sandbox_calls[u])'
  <2> SUFFICES ASSUME NEW u \in Callers PROVE CallOf(sandbox_calls[u])'
    OBVIOUS
  <2>1. CallOf(sandbox_calls[u])
    BY DEF ExecutionInv, CallOf
  <2> QED
    BY <1>1, <1>3, <2>1 DEF CallOf, RanOn
<1>6. \A o \in DOMAIN outcomes :
        /\ outcomes[o].report \in DOMAIN reports'
        /\ outcomes[o].released =>
              /\ reports'[outcomes[o].report].lease = outcomes[o].lease
              /\ leases[outcomes[o].lease].attestation.issued_at <= reports'[outcomes[o].report].started_at
              /\ reports'[outcomes[o].report].started_at < leases[outcomes[o].lease].attestation.expires_at
  BY <1>3 DEF ExecutionInv, RanOn
<1>7. used_reports \subseteq DOMAIN reports'
  BY <1>3 DEF ExecutionInv
<1> QED
  BY <1>1, <1>3, <1>4, <1>5, <1>6, <1>7
  DEF ExecutionInv, CallOf, RanOn, Execution!UsedOnce, Execution!FirstCompletionDecides

\* verify_completion up to the lock: the report is of this lease and began in its time.
LEMMA ExecutionSubmit ==
    ASSUME ExecutionInv, NEW t \in Callers, NEW l \in DOMAIN leases, NEW r \in DOMAIN reports,
           Execution!CompleteBegin(t, l, r)
    PROVE  ExecutionInv'
<1> DEFINE call == [op |-> "complete", lease |-> l, report |-> r,
                    passed |-> /\ Execution!Bound(l, reports[r])
                              /\ Execution!Terminated(reports[r]) /\ Execution!OutputDeclared(reports[r])]
<1>1. /\ sandbox_calls' = [sandbox_calls EXCEPT ![t] = call]
      /\ UNCHANGED <<sandbox_now, used_sandboxes, running, used_reports, leases, reports, outcomes>>
  BY DEF Execution!CompleteBegin
<1>2. /\ call.op = "complete" /\ call.lease = l /\ call.report = r
      /\ call.passed => Execution!Bound(l, reports[r])
  OBVIOUS
<1> HIDE DEF call
<1>3. ASSUME Execution!Bound(l, reports[r]) PROVE RanOn(l, r)
  <2> DEFINE lease == leases[l]
             report == reports[r]
  <2>1. /\ lease.attestation \in Sandboxes
        /\ lease.issued_at \in Int /\ lease.expires_at \in Int
        /\ lease.attestation.issued_at <= lease.issued_at
        /\ lease.expires_at <= lease.attestation.expires_at
        /\ report.started_at \in Int
    BY DEF ExecutionInv
  <2>2. lease.attestation.issued_at \in Int /\ lease.attestation.expires_at \in Int
    <3>1. lease.attestation \in Execution!AttestationType
      BY <2>1, ExecutionAssumption
    <3> QED
      BY <3>1 DEF Execution!AttestationType
  <2>3. /\ report.lease = l /\ report.started_at >= lease.issued_at
        /\ report.started_at < lease.expires_at
    BY <1>3 DEF Execution!Bound
  <2> HIDE DEF lease, report
  <2>4. /\ report.lease = l /\ lease.attestation.issued_at <= report.started_at
        /\ report.started_at < lease.attestation.expires_at
    BY <2>1, <2>2, <2>3
  <2> QED
    BY <2>4 DEF RanOn, lease, report
<1>4. CallOf(call)
  BY <1>2, <1>3 DEF CallOf
<1>5. \A u \in Callers : CallOf(sandbox_calls[u])
  BY DEF ExecutionInv, CallOf
<1>6. \A u \in Callers : CallOf(sandbox_calls'[u])
  BY <1>1, <1>4, <1>5 DEF ExecutionInv
<1>7. \A u \in Callers : CallOf(sandbox_calls[u])'
  BY <1>1, <1>6 DEF CallOf, RanOn
<1>8. DOMAIN sandbox_calls' = Callers
  BY <1>1 DEF ExecutionInv
<1> QED
  BY <1>1, <1>7, <1>8
  DEF ExecutionInv, CallOf, RanOn, Execution!UsedOnce, Execution!FirstCompletionDecides

\* verify_completion from the lock on: an active lease is used up and decides.
LEMMA ExecutionComplete ==
    ASSUME ExecutionInv, NEW t \in Callers, NEW validated \in BOOLEAN, Execution!CompleteEnd(t, validated)
    PROVE  ExecutionInv'
<1> DEFINE call == sandbox_calls[t]
           o == [lease |-> call.lease, report |-> call.report,
                 released |-> /\ call.passed /\ validated
                              /\ call.lease \in running
                              /\ call.report \notin used_reports]
           n == Len(outcomes) + 1
<1>1. /\ call.op = "complete"
      /\ outcomes' = Append(outcomes, o)
      /\ sandbox_calls' = [sandbox_calls EXCEPT ![t] = Execution!Idle]
      /\ UNCHANGED <<sandbox_now, used_sandboxes, leases, reports>>
      /\ running' = running \ {call.lease}
      /\ used_reports' \subseteq used_reports \cup {call.report}
  BY DEF Execution!CompleteEnd, Execution!Consumed
<1>2. /\ call.lease \in DOMAIN leases /\ call.report \in DOMAIN reports
      /\ call.passed => RanOn(call.lease, call.report)
  BY <1>1 DEF ExecutionInv, CallOf
<1>3. /\ o.lease = call.lease /\ o.report = call.report
      /\ (o.released => call.passed /\ call.lease \in running)
  OBVIOUS
<1> HIDE DEF o
<1>4. /\ Log(outcomes') /\ DOMAIN outcomes' = DOMAIN outcomes \cup {n}
      /\ \A i \in DOMAIN outcomes : i \in Nat /\ i < n /\ outcomes'[i] = outcomes[i]
      /\ outcomes'[n] = o
  BY <1>1, Appended DEF ExecutionInv
<1>5. n \in Nat
  BY Appended DEF ExecutionInv
<1> HIDE DEF n
<1>6. \A i \in DOMAIN outcomes' :
          \/ i = n /\ outcomes'[i] = o
          \/ i \in DOMAIN outcomes /\ outcomes'[i] = outcomes[i] /\ i \in Nat /\ i < n
  BY <1>4
<1>7. \A i \in DOMAIN outcomes' :
        /\ outcomes'[i].lease \in DOMAIN leases \ running' /\ outcomes'[i].report \in DOMAIN reports
        /\ outcomes'[i].released => RanOn(outcomes'[i].lease, outcomes'[i].report)
  BY <1>1, <1>2, <1>3, <1>6 DEF ExecutionInv
<1>8. Execution!FirstCompletionDecides'
  <2> SUFFICES ASSUME NEW i \in DOMAIN outcomes', NEW j \in DOMAIN outcomes',
                      i < j, outcomes'[i].lease = outcomes'[j].lease, outcomes'[j].released
               PROVE  FALSE
    BY DEF Execution!FirstCompletionDecides
  <2>1. i \in DOMAIN outcomes /\ outcomes'[i] = outcomes[i]
    BY <1>5, <1>6
  <2>2. CASE j \in DOMAIN outcomes /\ outcomes'[j] = outcomes[j]
    BY <2>1, <2>2 DEF ExecutionInv, Execution!FirstCompletionDecides
  <2>3. CASE j = n /\ outcomes'[j] = o
    BY <1>3, <2>1, <2>3 DEF ExecutionInv
  <2> QED
    BY <1>6, <2>2, <2>3
<1>9. \A u \in Callers : CallOf(sandbox_calls[u])'
  <2> SUFFICES ASSUME NEW u \in Callers PROVE CallOf(sandbox_calls[u])'
    OBVIOUS
  <2>1. CallOf(sandbox_calls[u])
    BY DEF ExecutionInv, CallOf
  <2>2. sandbox_calls'[u].op = "idle" \/ sandbox_calls'[u] = sandbox_calls[u]
    BY <1>1 DEF ExecutionInv, Execution!Idle
  <2> QED
    BY <1>1, <2>1, <2>2 DEF CallOf, RanOn
<1>10. /\ DOMAIN sandbox_calls' = Callers /\ used_reports' \subseteq DOMAIN reports
       /\ running' \subseteq DOMAIN leases
  BY <1>1, <1>2 DEF ExecutionInv
<1>11. Execution!UsedOnce'
  BY <1>1 DEF ExecutionInv, Execution!UsedOnce
<1> QED
  BY <1>1, <1>4, <1>7, <1>8, <1>9, <1>10, <1>11 DEF ExecutionInv, CallOf, RanOn

\* Every step keeps leases within their attestations and verdicts final.
LEMMA ExecutionStep == ExecutionInv /\ [Execution!Next]_execution => ExecutionInv'
<1> SUFFICES ASSUME ExecutionInv, [Execution!Next]_execution PROVE ExecutionInv'
  OBVIOUS
<1>1. ASSUME NEW t \in Callers, NEW r \in Programs, NEW a \in Sandboxes, Execution!AuthorizeBegin(t, r, a)
      PROVE  ExecutionInv'
  BY <1>1, ExecutionBegin
<1>2. ASSUME NEW t \in Callers, Execution!AuthorizeEnd(t) PROVE ExecutionInv'
  BY <1>2, ExecutionIssue
<1>3. ASSUME NEW l \in DOMAIN leases, NEW started_at \in 0 .. sandbox_now, NEW ending \in Endings,
             Execution!SandboxReport(l, started_at, ending)
      PROVE  ExecutionInv'
  BY <1>3, ExecutionReport
<1>4. ASSUME NEW t \in Callers, NEW l \in DOMAIN leases, NEW r \in DOMAIN reports,
             Execution!CompleteBegin(t, l, r)
      PROVE  ExecutionInv'
  BY <1>4, ExecutionSubmit
<1>5. ASSUME NEW t \in Callers, NEW validated \in BOOLEAN, Execution!CompleteEnd(t, validated)
      PROVE  ExecutionInv'
  BY <1>5, ExecutionComplete
<1>6. CASE Execution!Tick
  <2>1. /\ sandbox_now' \in 0 .. SandboxEnd
        /\ UNCHANGED <<used_sandboxes, running, used_reports, leases, reports, sandbox_calls, outcomes>>
    BY <1>6, ExecutionAssumption DEF ExecutionInv, Execution!Tick
  <2> QED
    BY <2>1 DEF ExecutionInv, CallOf, RanOn, Execution!UsedOnce, Execution!FirstCompletionDecides
<1>7. CASE UNCHANGED execution
  BY <1>7 DEF ExecutionInv, CallOf, execution, RanOn, Execution!UsedOnce, Execution!FirstCompletionDecides
<1> QED
  BY <1>1, <1>2, <1>3, <1>4, <1>5, <1>6, <1>7 DEF Execution!Next

\* What is released ran in an attested sandbox, once.
LEMMA ExecutionSafe ==
    ExecutionInv => /\ Execution!TypeOK /\ Execution!UsedOnce /\ Execution!FirstCompletionDecides
                    /\ Execution!RanInAttestedSandbox
<1> SUFFICES ASSUME ExecutionInv
             PROVE  /\ Execution!TypeOK /\ Execution!UsedOnce /\ Execution!FirstCompletionDecides
                    /\ Execution!RanInAttestedSandbox
  OBVIOUS
<1>1. Execution!TypeOK
  BY DEF ExecutionInv, Execution!TypeOK
<1>2. Execution!RanInAttestedSandbox
  BY DEF ExecutionInv, RanOn, Execution!RanInAttestedSandbox
<1> QED
  BY <1>1, <1>2 DEF ExecutionInv

-----------------------------------------------------------------------------
(* Workloads and their teardown *)

\* The clock is a number.
ASSUME WorkloadAssumption == RuntimeEnd \in Nat

\* Every lease has its attestation, and every verdict ended its lease.
WorkloadInv ==
    /\ runtime_now \in 0 .. RuntimeEnd
    /\ used_runtimes \subseteq {a.id : a \in Runtimes}
    /\ used_evidence \subseteq {e.id : e \in Cleanups}
    /\ Log(workloads) /\ loaded \subseteq DOMAIN workloads
    /\ \A i \in DOMAIN workloads : workloads[i].attestation.id \in used_runtimes
    /\ Log(teardowns)
    /\ \A o \in DOMAIN teardowns :
        /\ teardowns[o].lease \in DOMAIN workloads \ loaded
        /\ teardowns[o].since \in Nat /\ teardowns[o].since < o
    /\ DOMAIN admissions = Callers
    /\ \A t \in Callers : LET call == admissions[t] IN
        \/ call.op = "idle"
        \/ call.op = "authorize" /\ call.attestation \in Runtimes
        \/ /\ call.op = "teardown" /\ call.lease \in DOMAIN workloads /\ call.evidence \in Cleanups
           /\ call.since \in 0 .. Len(teardowns)
           /\ call.passed => \A o \in DOMAIN teardowns :
                o <= call.since => teardowns[o].lease # call.lease
    /\ Workload!UsedOnce
    /\ Workload!QuarantineStays

\* No lease is out at first.
LEMMA WorkloadInit == Workload!Init => WorkloadInv
<1> SUFFICES ASSUME Workload!Init PROVE WorkloadInv
  OBVIOUS
<1>1. runtime_now \in 0 .. RuntimeEnd
  BY WorkloadAssumption DEF Workload!Init
<1>2. \A t \in Callers : admissions[t].op = "idle"
  BY DEF Workload!Init, Workload!Idle
<1> QED
  BY <1>1, <1>2, EmptyLog DEF Workload!Init, WorkloadInv, Workload!UsedOnce, Workload!QuarantineStays

\* authorize from the lock on: one lease of an attestation.
LEMMA WorkloadIssue ==
    ASSUME WorkloadInv, NEW t \in Callers, Workload!AuthorizeEnd(t)
    PROVE  WorkloadInv'
<1> DEFINE a == admissions[t].attestation
           lease == [attestation |-> a, issued_at |-> admissions[t].clock,
                     expires_at |-> Workload!Earlier(a.expires_at, admissions[t].clock + RuntimeTtl)]
           n == Len(workloads) + 1
<1>1. /\ admissions[t].op = "authorize" /\ admissions' = [admissions EXCEPT ![t] = Workload!Idle]
      /\ UNCHANGED <<runtime_now, used_evidence, teardowns>>
      /\ \/ /\ a.id \notin used_runtimes
            /\ used_runtimes' = used_runtimes \cup {a.id}
            /\ workloads' = Append(workloads, lease)
            /\ loaded' = loaded \cup {n}
         \/ UNCHANGED <<used_runtimes, workloads, loaded>>
  BY DEF Workload!AuthorizeEnd, Workload!Fresh
<1>2. a \in Runtimes /\ lease.attestation = a
  BY <1>1 DEF WorkloadInv
<1> HIDE DEF a, lease
<1>3. \A u \in Callers : admissions'[u].op = "idle" \/ admissions'[u] = admissions[u]
  BY <1>1 DEF WorkloadInv, Workload!Idle
<1>4. CASE UNCHANGED <<used_runtimes, workloads, loaded>>
  <2>1. \A u \in Callers : LET call == admissions'[u] IN
        \/ call.op = "idle"
        \/ call.op = "authorize" /\ call.attestation \in Runtimes
        \/ /\ call.op = "teardown" /\ call.lease \in DOMAIN workloads' /\ call.evidence \in Cleanups
           /\ call.since \in 0 .. Len(teardowns')
           /\ call.passed => \A o \in DOMAIN teardowns' :
                o <= call.since => teardowns'[o].lease # call.lease
    BY <1>1, <1>3, <1>4 DEF WorkloadInv
  <2> QED
    BY <1>1, <1>4, <2>1 DEF WorkloadInv, Workload!UsedOnce, Workload!QuarantineStays
<1>5. CASE /\ a.id \notin used_runtimes
           /\ used_runtimes' = used_runtimes \cup {a.id}
           /\ workloads' = Append(workloads, lease)
           /\ loaded' = loaded \cup {n}
  <2>1. /\ Log(workloads') /\ DOMAIN workloads' = DOMAIN workloads \cup {n}
        /\ \A i \in DOMAIN workloads : i # n /\ workloads'[i] = workloads[i]
        /\ workloads'[n] = lease
    BY <1>5, Appended DEF WorkloadInv
  <2> HIDE DEF n
  <2>2. \A i \in DOMAIN workloads' :
          \/ i = n /\ workloads'[i] = lease
          \/ i \in DOMAIN workloads /\ workloads'[i] = workloads[i]
    BY <2>1
  <2>3. Workload!UsedOnce'
    <3> SUFFICES ASSUME NEW i \in DOMAIN workloads', NEW j \in DOMAIN workloads', i # j,
                        workloads'[i].attestation.id = workloads'[j].attestation.id
                 PROVE  FALSE
      BY DEF Workload!UsedOnce
    <3>1. i \in DOMAIN workloads /\ j \in DOMAIN workloads
          /\ workloads'[i] = workloads[i] /\ workloads'[j] = workloads[j]
      BY <1>2, <1>5, <2>2 DEF WorkloadInv
    <3> QED
      BY <3>1 DEF WorkloadInv, Workload!UsedOnce
  <2>4. \A i \in DOMAIN workloads' : workloads'[i].attestation.id \in used_runtimes'
    BY <1>2, <1>5, <2>2 DEF WorkloadInv
  <2>5. \A o \in DOMAIN teardowns :
          /\ teardowns[o].lease \in DOMAIN workloads' \ loaded'
          /\ teardowns[o].since \in Nat /\ teardowns[o].since < o
    BY <1>5, <2>1 DEF WorkloadInv
  <2>6. \A u \in Callers : LET call == admissions'[u] IN
        \/ call.op = "idle"
        \/ call.op = "authorize" /\ call.attestation \in Runtimes
        \/ /\ call.op = "teardown" /\ call.lease \in DOMAIN workloads' /\ call.evidence \in Cleanups
           /\ call.since \in 0 .. Len(teardowns')
           /\ call.passed => \A o \in DOMAIN teardowns' :
                o <= call.since => teardowns'[o].lease # call.lease
    BY <1>1, <1>3, <2>1 DEF WorkloadInv
  <2>7. /\ loaded' \subseteq DOMAIN workloads'
        /\ used_runtimes' \subseteq {x.id : x \in Runtimes}
        /\ DOMAIN admissions' = Callers
    BY <1>1, <1>2, <1>5, <2>1 DEF WorkloadInv
  <2>8. Workload!QuarantineStays'
    BY <1>1 DEF WorkloadInv, Workload!QuarantineStays
  <2> QED
    BY <1>1, <2>1, <2>3, <2>4, <2>5, <2>6, <2>7, <2>8 DEF WorkloadInv
<1> QED
  BY <1>1, <1>4, <1>5

\* verify_teardown from its second lock on: the lease is used up, clean or not.
LEMMA WorkloadTeardown ==
    ASSUME WorkloadInv, NEW t \in Callers, Workload!TeardownEnd(t)
    PROVE  WorkloadInv'
<1> DEFINE call == admissions[t]
           o == [lease |-> call.lease, since |-> call.since,
                 clean |-> call.passed /\ Workload!CleanedUp(call.evidence)]
           n == Len(teardowns) + 1
<1>1. /\ call.op = "teardown"
      /\ used_evidence' = used_evidence \cup {call.evidence.id}
      /\ loaded' = loaded \ {call.lease}
      /\ teardowns' = Append(teardowns, o)
      /\ admissions' = [admissions EXCEPT ![t] = Workload!Idle]
      /\ UNCHANGED <<runtime_now, used_runtimes, workloads>>
  BY DEF Workload!TeardownEnd, Workload!Remaining
<1>2. /\ call.lease \in DOMAIN workloads /\ call.evidence \in Cleanups
      /\ call.since \in 0 .. Len(teardowns)
      /\ call.passed => \A i \in DOMAIN teardowns : i <= call.since => teardowns[i].lease # call.lease
  BY <1>1 DEF WorkloadInv
<1>3. o.lease = call.lease /\ o.since = call.since /\ (o.clean => call.passed)
  OBVIOUS
<1> HIDE DEF o
<1>4. /\ Log(teardowns') /\ DOMAIN teardowns' = DOMAIN teardowns \cup {n}
      /\ \A i \in DOMAIN teardowns : i \in Nat /\ i < n /\ teardowns'[i] = teardowns[i]
      /\ teardowns'[n] = o /\ Len(teardowns') = Len(teardowns) + 1 /\ Len(teardowns) \in Nat
  BY <1>1, Appended DEF WorkloadInv
<1>5. n \in Nat /\ n = Len(teardowns) + 1
  BY <1>4
<1> HIDE DEF n
<1>6. \A i \in DOMAIN teardowns' :
          \/ i = n /\ teardowns'[i] = o
          \/ i \in DOMAIN teardowns /\ teardowns'[i] = teardowns[i] /\ i \in Nat /\ i < n
  BY <1>4
<1>7. \A i \in DOMAIN teardowns' :
        /\ teardowns'[i].lease \in DOMAIN workloads \ loaded'
        /\ teardowns'[i].since \in Nat /\ teardowns'[i].since < i
  <2>1. o.lease \in DOMAIN workloads \ loaded' /\ o.since \in Nat /\ o.since < n
    BY <1>1, <1>2, <1>3, <1>4, <1>5
  <2> QED
    BY <1>1, <1>6, <2>1 DEF WorkloadInv
<1>8. \A u \in Callers : admissions'[u].op = "idle" \/ admissions'[u] = admissions[u]
  BY <1>1 DEF WorkloadInv, Workload!Idle
<1>9. ASSUME NEW u \in Callers
      PROVE  LET c == admissions'[u] IN
        \/ c.op = "idle"
        \/ c.op = "authorize" /\ c.attestation \in Runtimes
        \/ /\ c.op = "teardown" /\ c.lease \in DOMAIN workloads' /\ c.evidence \in Cleanups
           /\ c.since \in 0 .. Len(teardowns')
           /\ c.passed => \A i \in DOMAIN teardowns' : i <= c.since => teardowns'[i].lease # c.lease
  <2>1. CASE admissions'[u].op = "idle"
    BY <2>1
  <2>2. CASE admissions'[u] = admissions[u]
    <3> DEFINE c == admissions[u]
    <3>1. CASE c.op = "teardown" /\ c.lease \in DOMAIN workloads /\ c.evidence \in Cleanups
           /\ c.since \in 0 .. Len(teardowns)
           /\ (c.passed => \A i \in DOMAIN teardowns : i <= c.since => teardowns[i].lease # c.lease)
      <4>1. c.since \in 0 .. Len(teardowns') /\ c.since < n /\ c.since \in Nat
        BY <1>4, <1>5, <3>1
      <4>2. ASSUME c.passed, NEW i \in DOMAIN teardowns', i <= c.since
            PROVE  teardowns'[i].lease # c.lease
        <5> HIDE DEF c
        <5>1. i # n
          BY <1>5, <4>1, <4>2
        <5>2. i \in DOMAIN teardowns /\ teardowns'[i] = teardowns[i]
          BY <1>6, <5>1
        <5> QED
          BY <3>1, <4>2, <5>2
      <4> HIDE DEF c
      <4>3. /\ c.op = "teardown" /\ c.lease \in DOMAIN workloads' /\ c.evidence \in Cleanups
            /\ c.since \in 0 .. Len(teardowns')
            /\ c.passed => \A i \in DOMAIN teardowns' : i <= c.since => teardowns'[i].lease # c.lease
        BY <1>1, <3>1, <4>1, <4>2
      <4> QED
        BY <2>2, <4>3 DEF c
    <3> QED
      BY <2>2, <3>1 DEF WorkloadInv
  <2> QED
    BY <1>8, <2>1, <2>2
<1>10. Workload!QuarantineStays'
  <2> SUFFICES ASSUME NEW i \in DOMAIN teardowns', NEW j \in DOMAIN teardowns',
                      i <= teardowns'[j].since, teardowns'[i].lease = teardowns'[j].lease,
                      teardowns'[j].clean
               PROVE  FALSE
    BY DEF Workload!QuarantineStays
  <2>1. CASE i \in DOMAIN teardowns /\ teardowns'[i] = teardowns[i]
    <3>1. CASE j \in DOMAIN teardowns /\ teardowns'[j] = teardowns[j]
      BY <2>1, <3>1 DEF WorkloadInv, Workload!QuarantineStays
    <3>2. CASE j = n /\ teardowns'[j] = o
      BY <1>2, <1>3, <2>1, <3>2
    <3> QED
      BY <1>6, <3>1, <3>2
  <2>2. CASE i = n
    <3>1. CASE j = n /\ teardowns'[j] = o
      BY <1>2, <1>3, <1>4, <1>5, <2>2, <3>1
    <3>2. CASE j \in DOMAIN teardowns /\ teardowns'[j] = teardowns[j]
      <4>1. teardowns[j].since \in Int /\ teardowns[j].since < j
        BY <3>2 DEF WorkloadInv
      <4> QED
        BY <1>5, <1>6, <2>2, <3>2, <4>1
    <3> QED
      BY <1>6, <3>1, <3>2
  <2> QED
    BY <1>6, <2>1, <2>2
<1>11. /\ used_evidence' \subseteq {e.id : e \in Cleanups} /\ loaded' \subseteq DOMAIN workloads
       /\ DOMAIN admissions' = Callers
  BY <1>1, <1>2 DEF WorkloadInv
<1>12. Workload!UsedOnce'
  BY <1>1 DEF WorkloadInv, Workload!UsedOnce
<1> QED
  BY <1>1, <1>4, <1>7, <1>9, <1>10, <1>11, <1>12 DEF WorkloadInv

\* Every step keeps a workload that was judged from being judged clean later.
LEMMA WorkloadStep == WorkloadInv /\ [Workload!Next]_workload => WorkloadInv'
<1> SUFFICES ASSUME WorkloadInv, [Workload!Next]_workload PROVE WorkloadInv'
  OBVIOUS
<1>1. ASSUME NEW t \in Callers, NEW m \in Models, NEW a \in Runtimes, Workload!AuthorizeBegin(t, m, a)
      PROVE  WorkloadInv'
  <2> DEFINE call == [op |-> "authorize", attestation |-> a, clock |-> runtime_now]
  <2>1. /\ admissions' = [admissions EXCEPT ![t] = call]
        /\ UNCHANGED <<runtime_now, used_runtimes, used_evidence, loaded, workloads, teardowns>>
    BY <1>1 DEF Workload!AuthorizeBegin
  <2>2. call.op = "authorize" /\ call.attestation \in Runtimes
    OBVIOUS
  <2> HIDE DEF call
  <2>3. \A u \in Callers : LET c == admissions'[u] IN
        \/ c.op = "idle"
        \/ c.op = "authorize" /\ c.attestation \in Runtimes
        \/ /\ c.op = "teardown" /\ c.lease \in DOMAIN workloads /\ c.evidence \in Cleanups
           /\ c.since \in 0 .. Len(teardowns)
           /\ c.passed => \A i \in DOMAIN teardowns : i <= c.since => teardowns[i].lease # c.lease
    BY <2>1, <2>2 DEF WorkloadInv
  <2>4. DOMAIN admissions' = Callers
    BY <2>1 DEF WorkloadInv
  <2> QED
    BY <2>1, <2>3, <2>4 DEF WorkloadInv, Workload!UsedOnce, Workload!QuarantineStays
<1>2. ASSUME NEW t \in Callers, Workload!AuthorizeEnd(t) PROVE WorkloadInv'
  BY <1>2, WorkloadIssue
<1>3. ASSUME NEW t \in Callers, NEW lease \in DOMAIN workloads, NEW e \in Cleanups,
             Workload!TeardownRead(t, lease, e)
      PROVE  WorkloadInv'
  <2> DEFINE call == [op |-> "teardown", lease |-> lease, evidence |-> e, since |-> Len(teardowns),
                      passed |-> e.id \notin used_evidence /\ lease \in loaded /\ e.lease = lease]
  <2>1. /\ admissions' = [admissions EXCEPT ![t] = call]
        /\ UNCHANGED <<runtime_now, used_runtimes, used_evidence, loaded, workloads, teardowns>>
    BY <1>3 DEF Workload!TeardownRead
  <2>2. /\ call.op = "teardown" /\ call.lease = lease /\ call.evidence = e
        /\ call.since = Len(teardowns) /\ (call.passed => lease \in loaded)
    OBVIOUS
  <2> HIDE DEF call
  <2>3. Len(teardowns) \in 0 .. Len(teardowns)
    BY Appended DEF WorkloadInv
  <2>4. call.passed => \A i \in DOMAIN teardowns : teardowns[i].lease # call.lease
    BY <2>2 DEF WorkloadInv
  <2>5. \A u \in Callers : LET c == admissions'[u] IN
        \/ c.op = "idle"
        \/ c.op = "authorize" /\ c.attestation \in Runtimes
        \/ /\ c.op = "teardown" /\ c.lease \in DOMAIN workloads /\ c.evidence \in Cleanups
           /\ c.since \in 0 .. Len(teardowns)
           /\ c.passed => \A i \in DOMAIN teardowns : i <= c.since => teardowns[i].lease # c.lease
    BY <2>1, <2>2, <2>3, <2>4 DEF WorkloadInv
  <2>6. DOMAIN admissions' = Callers
    BY <2>1 DEF WorkloadInv
  <2> QED
    BY <2>1, <2>5, <2>6 DEF WorkloadInv, Workload!UsedOnce, Workload!QuarantineStays
<1>4. ASSUME NEW t \in Callers, Workload!TeardownEnd(t) PROVE WorkloadInv'
  BY <1>4, WorkloadTeardown
<1>5. CASE Workload!Tick
  <2>1. /\ runtime_now' \in 0 .. RuntimeEnd
        /\ UNCHANGED <<used_runtimes, used_evidence, loaded, workloads, admissions, teardowns>>
    BY <1>5, WorkloadAssumption DEF WorkloadInv, Workload!Tick
  <2> QED
    BY <2>1 DEF WorkloadInv, Workload!UsedOnce, Workload!QuarantineStays
<1>6. CASE UNCHANGED workload
  BY <1>6 DEF WorkloadInv, workload, Workload!UsedOnce, Workload!QuarantineStays
<1> QED
  BY <1>1, <1>2, <1>3, <1>4, <1>5, <1>6 DEF Workload!Next

\* One lease of an attestation, and quarantine stays.
LEMMA WorkloadSafe ==
    WorkloadInv => Workload!TypeOK /\ Workload!UsedOnce /\ Workload!QuarantineStays
BY DEF WorkloadInv, Workload!TypeOK

-----------------------------------------------------------------------------
(* State of tenants *)

\* The clock is a number.
ASSUME TenantAssumption == TenantsEnd \in Nat

\* What was written is claimed, and every binding given out stands for a write.
TenantsInv ==
    /\ Tenants!TypeOK
    /\ Log(state_permits)
    /\ \A i \in DOMAIN state_permits :
        LET p == state_permits[i] IN
        p.op = "write" => /\ StorageKey[p.owner] \in DOMAIN claims
                          /\ claims[StorageKey[p.owner]] = p.owner
    /\ \A b \in state_bindings :
        \E j \in DOMAIN state_permits :
            /\ state_permits[j].op = "write" /\ state_permits[j].owner = b.owner
            /\ state_permits[j].expires_at = b.expires_at
    /\ Tenants!UsesOwnState
    /\ Tenants!BatchesDedicated

\* No state is claimed or bound at first.
LEMMA TenantsInit == Tenants!Init => TenantsInv
BY EmptyLog, TenantAssumption
DEF Tenants!Init, TenantsInv, Tenants!TypeOK, Tenants!UsesOwnState, Tenants!BatchesDedicated

\* One more permit, whatever it is for.
LEMMA TenantsAppend ==
    ASSUME TenantsInv, NEW p, state_permits' = Append(state_permits, p)
    PROVE  LET n == Len(state_permits) + 1 IN
           /\ Log(state_permits') /\ n \in Nat \ {0}
           /\ DOMAIN state_permits' = 1 .. n /\ DOMAIN state_permits = 1 .. (n - 1)
           /\ \A i \in 1 .. (n - 1) : state_permits'[i] = state_permits[i]
           /\ state_permits'[n] = p
<1> DEFINE n == Len(state_permits) + 1
<1>1. /\ Log(state_permits') /\ Len(state_permits) \in Nat
      /\ DOMAIN state_permits' = DOMAIN state_permits \cup {n}
      /\ DOMAIN state_permits = 1 .. Len(state_permits)
      /\ \A i \in DOMAIN state_permits : state_permits'[i] = state_permits[i]
      /\ state_permits'[n] = p
  BY Appended DEF TenantsInv
<1> QED
  BY <1>1

\* A key is claimed by the tenant that writes it first.
LEMMA TenantsWrite ==
    ASSUME TenantsInv, NEW c, NEW owner \in Owners, NEW a, NEW ttl,
           Tenants!Write(c, owner, a, ttl)
    PROVE  TenantsInv'
<1> DEFINE n == Len(state_permits) + 1
           key == StorageKey[owner]
           p == [op |-> "write", owner |-> owner, at |-> time, expires_at |-> time + ttl]
           b == [owner |-> owner, expires_at |-> time + ttl]
<1>1. /\ key \in DOMAIN claims => claims[key] = owner
      /\ claims' = [k \in DOMAIN claims \cup {key} |-> IF k = key THEN owner ELSE claims[k]]
      /\ state_bindings' = state_bindings \cup {b}
      /\ state_permits' = Append(state_permits, p)
      /\ time' = time
  BY DEF Tenants!Write, Tenants!Claimable
<1>2. /\ Log(state_permits') /\ n \in Nat \ {0}
      /\ DOMAIN state_permits' = 1 .. n /\ DOMAIN state_permits = 1 .. (n - 1)
      /\ \A i \in 1 .. (n - 1) : state_permits'[i] = state_permits[i]
      /\ state_permits'[n] = p
  BY <1>1, TenantsAppend
<1>3. p.op = "write" /\ p.owner = owner /\ p.expires_at = b.expires_at /\ b.owner = owner
  OBVIOUS
<1> HIDE DEF n, p, b
<1>4. Tenants!TypeOK'
  BY <1>1, <1>3 DEF TenantsInv, Tenants!TypeOK
<1>5. ASSUME NEW i \in DOMAIN state_permits', state_permits'[i].op = "write"
      PROVE  /\ StorageKey[state_permits'[i].owner] \in DOMAIN claims'
             /\ claims'[StorageKey[state_permits'[i].owner]] = state_permits'[i].owner
  <2>1. CASE i = n
    BY <1>1, <1>2, <1>3, <2>1
  <2>2. CASE i # n
    <3>1. i \in DOMAIN state_permits /\ state_permits'[i] = state_permits[i]
      BY <1>2, <1>5, <2>2
    <3>2. /\ StorageKey[state_permits[i].owner] \in DOMAIN claims
          /\ claims[StorageKey[state_permits[i].owner]] = state_permits[i].owner
      BY <1>5, <3>1 DEF TenantsInv
    <3> QED
      BY <1>1, <3>1, <3>2
  <2> QED
    BY <2>1, <2>2
<1>6. ASSUME NEW d \in state_bindings'
      PROVE  \E j \in DOMAIN state_permits' :
                /\ state_permits'[j].op = "write" /\ state_permits'[j].owner = d.owner
                /\ state_permits'[j].expires_at = d.expires_at
  <2>1. CASE d = b
    <3>1. n \in DOMAIN state_permits'
      BY <1>2
    <3> QED
      BY <1>2, <1>3, <2>1, <3>1
  <2>2. CASE d \in state_bindings
    <3>1. PICK j \in DOMAIN state_permits :
            /\ state_permits[j].op = "write" /\ state_permits[j].owner = d.owner
            /\ state_permits[j].expires_at = d.expires_at
      BY <2>2 DEF TenantsInv
    <3>2. j \in DOMAIN state_permits' /\ state_permits'[j] = state_permits[j]
      BY <1>2
    <3> QED
      BY <3>1, <3>2
  <2> QED
    BY <1>1, <1>6, <2>1, <2>2
<1>7. Tenants!UsesOwnState'
  <2>1. Tenants!UsesOwnState
    BY DEF TenantsInv
  <2>2. ASSUME NEW i \in DOMAIN state_permits', state_permits'[i].op = "read"
        PROVE  \E j \in 1 .. (i - 1) :
                  /\ state_permits'[j].op = "write"
                  /\ state_permits'[j].owner = state_permits'[i].owner
                  /\ state_permits'[j].owner = state_permits'[i].binding.owner
                  /\ state_permits'[i].at < state_permits'[j].expires_at
    <3>1. i # n
      BY <1>2, <1>3, <2>2
    <3>2. i \in DOMAIN state_permits /\ \A j \in 1 .. i : state_permits'[j] = state_permits[j]
      BY <1>2, <2>2, <3>1
    <3>3. i \in 1 .. i
      BY <1>2, <2>2
    <3> QED
      BY <2>1, <2>2, <3>2, <3>3 DEF Tenants!UsesOwnState
  <2> QED
    BY <2>2 DEF Tenants!UsesOwnState
<1>8. Tenants!BatchesDedicated'
  <2>1. \A i \in DOMAIN state_permits' : state_permits'[i].op = "batch" =>
            i \in DOMAIN state_permits /\ state_permits'[i] = state_permits[i]
    BY <1>2, <1>3
  <2> QED
    BY <2>1 DEF TenantsInv, Tenants!BatchesDedicated
<1> QED
  BY <1>2, <1>4, <1>5, <1>6, <1>7, <1>8 DEF TenantsInv

\* A permit that is no write leaves claims and bindings alone, and is for what was written.
LEMMA TenantsOther ==
    ASSUME TenantsInv, NEW p, state_permits' = Append(state_permits, p),
           UNCHANGED <<time, claims, state_bindings>>, p.op # "write",
           p.op = "read" => /\ p.binding \in state_bindings /\ p.owner = p.binding.owner
                            /\ p.at < p.binding.expires_at,
           p.op = "batch" /\ p.kind \in Dedicated =>
                \A c \in p.contexts : c.tenant = p.attestation.tenant
    PROVE  TenantsInv'
<1> DEFINE n == Len(state_permits) + 1
<1>2. /\ Log(state_permits') /\ n \in Nat \ {0}
      /\ DOMAIN state_permits' = 1 .. n /\ DOMAIN state_permits = 1 .. (n - 1)
      /\ \A i \in 1 .. (n - 1) : state_permits'[i] = state_permits[i]
      /\ state_permits'[n] = p
  BY TenantsAppend
<1> HIDE DEF n
<1>4. Tenants!TypeOK'
  BY DEF TenantsInv, Tenants!TypeOK
<1>5. \A i \in DOMAIN state_permits' : state_permits'[i].op = "write" =>
          i \in DOMAIN state_permits /\ state_permits'[i] = state_permits[i]
  BY <1>2
<1>6. ASSUME NEW d \in state_bindings
      PROVE  \E j \in 1 .. (n - 1) :
                /\ state_permits'[j].op = "write" /\ state_permits'[j].owner = d.owner
                /\ state_permits'[j].expires_at = d.expires_at
  BY <1>2 DEF TenantsInv
<1>7. Tenants!UsesOwnState'
  <2>1. Tenants!UsesOwnState
    BY DEF TenantsInv
  <2>2. ASSUME NEW i \in DOMAIN state_permits', state_permits'[i].op = "read"
        PROVE  \E j \in 1 .. (i - 1) :
                  /\ state_permits'[j].op = "write"
                  /\ state_permits'[j].owner = state_permits'[i].owner
                  /\ state_permits'[j].owner = state_permits'[i].binding.owner
                  /\ state_permits'[i].at < state_permits'[j].expires_at
    <3>1. CASE i = n
      BY <1>2, <1>6, <2>2, <3>1
    <3>2. CASE i # n
      <4>1. i \in DOMAIN state_permits /\ \A j \in 1 .. i : state_permits'[j] = state_permits[j]
        BY <1>2, <2>2, <3>2
      <4>2. i \in 1 .. i
        BY <1>2, <2>2
      <4> QED
        BY <2>1, <2>2, <4>1, <4>2 DEF Tenants!UsesOwnState
    <3> QED
      BY <3>1, <3>2
  <2> QED
    BY <2>2 DEF Tenants!UsesOwnState
<1>8. Tenants!BatchesDedicated'
  <2>1. \A i \in DOMAIN state_permits' :
            state_permits'[i] = p \/ (i \in DOMAIN state_permits /\ state_permits'[i] = state_permits[i])
    BY <1>2
  <2> QED
    BY <2>1 DEF TenantsInv, Tenants!BatchesDedicated
<1>9. \A d \in state_bindings' : \E j \in DOMAIN state_permits' :
            /\ state_permits'[j].op = "write" /\ state_permits'[j].owner = d.owner
            /\ state_permits'[j].expires_at = d.expires_at
  <2>1. \A j \in 1 .. (n - 1) : j \in DOMAIN state_permits'
    BY <1>2
  <2> QED
    BY <1>6, <2>1
<1> QED
  BY <1>2, <1>4, <1>5, <1>7, <1>8, <1>9 DEF TenantsInv

\* Every step keeps keys with the tenant that claimed them.
LEMMA TenantsStep == TenantsInv /\ [Tenants!Next]_tenants => TenantsInv'
<1> SUFFICES ASSUME TenantsInv, [Tenants!Next]_tenants PROVE TenantsInv'
  OBVIOUS
<1>1. ASSUME NEW c \in Contexts, NEW owner \in Owners, NEW a, NEW ttl, Tenants!Write(c, owner, a, ttl)
      PROVE  TenantsInv'
  BY <1>1, TenantsWrite
<1>2. ASSUME NEW c \in Contexts, NEW owner \in Owners, NEW a, NEW b \in state_bindings,
             Tenants!Read(c, owner, a, b)
      PROVE  TenantsInv'
  <2> DEFINE p == [op |-> "read", owner |-> owner, at |-> time, binding |-> b]
  <2>1. /\ state_permits' = Append(state_permits, p) /\ UNCHANGED <<time, claims, state_bindings>>
        /\ time < b.expires_at /\ b.owner = owner
    BY <1>2 DEF Tenants!Read, Tenants!BindingValid
  <2>2. p.op = "read" /\ p.binding \in state_bindings /\ p.owner = p.binding.owner /\ p.at < p.binding.expires_at
    BY <2>1
  <2> HIDE DEF p
  <2> QED
    BY <2>1, <2>2, TenantsOther
<1>3. ASSUME NEW contexts, NEW first, NEW kind, NEW a, Tenants!Batch(contexts, first, kind, a)
      PROVE  TenantsInv'
  <2> DEFINE p == [op |-> "batch", contexts |-> contexts, kind |-> kind, attestation |-> a]
  <2>1. /\ state_permits' = Append(state_permits, p) /\ UNCHANGED <<time, claims, state_bindings>>
        /\ first \in contexts /\ Tenants!OneTenant(contexts)
        /\ Tenants!DeploymentIsolated(a, kind, first.tenant)
    BY <1>3 DEF Tenants!Batch
  <2>2. p.op = "batch" /\ (p.kind \in Dedicated => \A c \in p.contexts : c.tenant = p.attestation.tenant)
    BY <2>1 DEF Tenants!OneTenant, Tenants!DeploymentIsolated, Tenants!AttestationValid
  <2> HIDE DEF p
  <2> QED
    BY <2>1, <2>2, TenantsOther
<1>4. CASE Tenants!Tick
  <2>1. /\ time' = time + 1 /\ time < TenantsEnd /\ UNCHANGED <<claims, state_bindings, state_permits>>
    BY <1>4 DEF Tenants!Tick
  <2>2. Tenants!TypeOK'
    BY <2>1, TenantAssumption DEF TenantsInv, Tenants!TypeOK
  <2> QED
    BY <2>1, <2>2 DEF TenantsInv, Tenants!UsesOwnState, Tenants!BatchesDedicated
<1>5. CASE UNCHANGED tenants
  BY <1>5 DEF TenantsInv, tenants, Tenants!TypeOK, Tenants!UsesOwnState, Tenants!BatchesDedicated
<1> QED
  BY <1>1, <1>2, <1>3, <1>4, <1>5 DEF Tenants!Next

\* A tenant uses its own state, keys are not shared, and batches are dedicated.
LEMMA TenantsSafe ==
    TenantsInv => /\ Tenants!TypeOK /\ Tenants!UsesOwnState /\ Tenants!KeysNotShared
                  /\ Tenants!BatchesDedicated
BY DEF TenantsInv, Tenants!KeysNotShared

-----------------------------------------------------------------------------
(* Admission of connectors *)

\* Configurations name known sources and parsers; lifetimes and limits are numbers.
ASSUME ConnectorAssumption ==
    /\ Configurations \subseteq Admission!ConfigurationType
    /\ RequiredControls \subseteq Controls
    /\ ManifestLifetimes \subseteq Nat /\ EvidenceLifetimes \subseteq Nat
    /\ AdmissionTtl \in Nat /\ SyncTtl \in Nat /\ MaxEvidenceAge \in Nat
    /\ MaxDocuments \in Nat /\ ConnectorEnd \in Nat

\* An admission keeps within the evidence it was given on, and the evidence fits the manifest.
AdmittedOn(a) ==
    LET e == evidence[a.evidence]
        c == manifests[a.manifest].configuration
    IN  /\ a.expires_at <= e.expires_at
        /\ e.configuration = c /\ c.sources \subseteq e.owned
        /\ RequiredControls \subseteq e.controls

\* An authorization keeps within its admission, its manifest and the observed state.
ScheduledOn(s) ==
    LET a == connectors[s.admission]
        m == manifests[s.manifest]
    IN  /\ a.manifest = s.manifest
        /\ s.sources \subseteq m.configuration.sources /\ s.parser = m.configuration.parser
        /\ s.state.configuration = m.configuration
        /\ s.issued_at - s.state.observed_at <= MaxEvidenceAge
        /\ s.expires_at <= m.expires_at /\ s.expires_at <= a.expires_at
        /\ s.expires_at <= s.issued_at + SyncTtl

\* The provenance of a document keeps within its authorization.
ProducedOn(p) ==
    LET s == schedules[p.authorization]
    IN  /\ s.manifest = p.manifest /\ p.source \in s.sources /\ p.parser = s.parser
        /\ p.produced_at <= s.expires_at

\* The clock and the observed state are well formed.
RunningOK ==
    connector_now \in 0 .. ConnectorEnd /\ configuration \in Configurations /\ observed \in Admission!StateType
\* Manifests are signed one after the other.
ManifestsOK == Log(manifests) /\ \A m \in DOMAIN manifests : manifests[m] \in Admission!ManifestType
\* Evidence is of manifests that were signed.
EvidenceOK == Log(evidence) /\ \A e \in DOMAIN evidence : evidence[e] \in Admission!EvidenceType
\* Admissions rest on evidence.
ConnectorsOK ==
    /\ Log(connectors)
    /\ \A a \in DOMAIN connectors : connectors[a] \in Admission!AdmissionType /\ AdmittedOn(connectors[a])
\* Authorizations rest on admissions.
SchedulesOK ==
    /\ Log(schedules)
    /\ \A s \in DOMAIN schedules : schedules[s] \in Admission!AuthorizationType /\ ScheduledOn(schedules[s])
\* Every authorization counts its documents, within the limit.
CountsOK ==
    /\ Log(counts) /\ Len(counts) = Len(schedules)
    /\ \A s \in DOMAIN counts : counts[s] \in -1 .. MaxDocuments
\* Documents rest on authorizations, and only recorded ones are withdrawn.
DocumentsOK ==
    /\ DOMAIN documents = Documents
    /\ \A d \in Documents :
        \/ documents[d] = Admission!NoDocument
        \/ documents[d] \in Admission!ProvenanceType /\ ProducedOn(documents[d])
    /\ withdrawn \subseteq {d \in Documents : documents[d] # Admission!NoDocument}

\* The chain of evidence holds at every link.
AdmissionInv ==
    /\ RunningOK /\ ManifestsOK /\ EvidenceOK /\ ConnectorsOK /\ SchedulesOK /\ CountsOK /\ DocumentsOK

\* r is s with more at its end.
Extended(s, r) == DOMAIN s \subseteq DOMAIN r /\ \A i \in DOMAIN s : r[i] = s[i]

\* What is appended to a log extends it.
LEMMA AppendExtends ==
    ASSUME NEW s, Log(s), NEW e
    PROVE  /\ Extended(s, Append(s, e)) /\ Log(Append(s, e))
           /\ \A i \in DOMAIN Append(s, e) :
                (i \in DOMAIN s /\ Append(s, e)[i] = s[i]) \/ Append(s, e)[i] = e
           /\ Len(Append(s, e)) = Len(s) + 1
BY Appended DEF Extended

\* A log that stays as it was extends itself.
LEMMA SameExtends == ASSUME NEW s PROVE Extended(s, s)
BY DEF Extended

\* What was signed stays as it was, and what rests on it holds.
LEMMA SignedKept ==
    ASSUME AdmissionInv, Extended(manifests, manifests'), Extended(evidence, evidence'),
           Extended(connectors, connectors'), Extended(schedules, schedules')
    PROVE  /\ \A e \in DOMAIN evidence : (evidence[e] \in Admission!EvidenceType)'
           /\ \A a \in DOMAIN connectors :
                (connectors[a] \in Admission!AdmissionType)' /\ AdmittedOn(connectors[a])'
           /\ \A s \in DOMAIN schedules :
                (schedules[s] \in Admission!AuthorizationType)' /\ ScheduledOn(schedules[s])'
           /\ Admission!ProvenanceType \subseteq Admission!ProvenanceType'
           /\ \A p \in Admission!ProvenanceType : ProducedOn(p) =>
                LET s == schedules'[p.authorization]
                IN  /\ s.manifest = p.manifest /\ p.source \in s.sources /\ p.parser = s.parser
                    /\ p.produced_at <= s.expires_at
<1>1. /\ Admission!EvidenceType \subseteq Admission!EvidenceType'
      /\ Admission!AdmissionType \subseteq Admission!AdmissionType'
      /\ Admission!ManifestType = Admission!ManifestType'
  BY DEF Extended, Admission!EvidenceType, Admission!AdmissionType, Admission!ManifestType
<1>2. Admission!AuthorizationType \subseteq Admission!AuthorizationType'
  BY DEF Extended, Admission!AuthorizationType, Admission!StateType
<1>3. Admission!ProvenanceType \subseteq Admission!ProvenanceType'
  BY DEF Extended, Admission!ProvenanceType
<1>4. \A e \in DOMAIN evidence : (evidence[e] \in Admission!EvidenceType)'
  BY <1>1 DEF Extended, AdmissionInv, EvidenceOK
<1>5. ASSUME NEW a \in DOMAIN connectors
      PROVE  (connectors[a] \in Admission!AdmissionType)' /\ AdmittedOn(connectors[a])'
  <2>1. connectors'[a] = connectors[a] /\ connectors[a] \in Admission!AdmissionType /\ AdmittedOn(connectors[a])
    BY DEF Extended, AdmissionInv, ConnectorsOK
  <2>2. connectors[a].manifest \in DOMAIN manifests /\ connectors[a].evidence \in DOMAIN evidence
    BY <2>1 DEF Admission!AdmissionType
  <2>3. /\ manifests'[connectors[a].manifest] = manifests[connectors[a].manifest]
        /\ evidence'[connectors[a].evidence] = evidence[connectors[a].evidence]
    BY <2>2 DEF Extended
  <2>4. AdmittedOn(connectors[a])'
    BY <2>1, <2>3 DEF AdmittedOn
  <2> QED
    BY <1>1, <2>1, <2>4
<1>6. ASSUME NEW s \in DOMAIN schedules
      PROVE  (schedules[s] \in Admission!AuthorizationType)' /\ ScheduledOn(schedules[s])'
  <2>1. schedules'[s] = schedules[s] /\ schedules[s] \in Admission!AuthorizationType /\ ScheduledOn(schedules[s])
    BY DEF Extended, AdmissionInv, SchedulesOK
  <2>2. schedules[s].manifest \in DOMAIN manifests /\ schedules[s].admission \in DOMAIN connectors
    BY <2>1 DEF Admission!AuthorizationType
  <2>3. /\ manifests'[schedules[s].manifest] = manifests[schedules[s].manifest]
        /\ connectors'[schedules[s].admission] = connectors[schedules[s].admission]
    BY <2>2 DEF Extended
  <2>4. ScheduledOn(schedules[s])'
    BY <2>1, <2>3 DEF ScheduledOn
  <2> QED
    BY <1>2, <2>1, <2>4
<1>7. ASSUME NEW p \in Admission!ProvenanceType, ProducedOn(p)
      PROVE  LET s == schedules'[p.authorization]
             IN  /\ s.manifest = p.manifest /\ p.source \in s.sources /\ p.parser = s.parser
                 /\ p.produced_at <= s.expires_at
  <2>1. p.authorization \in DOMAIN schedules
    BY DEF Admission!ProvenanceType
  <2>2. schedules'[p.authorization] = schedules[p.authorization]
    BY <2>1 DEF Extended
  <2> QED
    BY <1>7, <2>2 DEF ProducedOn
<1> QED
  BY <1>3, <1>4, <1>5, <1>6, <1>7

\* Documents stay as they were when more is signed, and only what is recorded is withdrawn.
LEMMA DocumentsKept ==
    ASSUME AdmissionInv, Extended(manifests, manifests'), Extended(evidence, evidence'),
           Extended(connectors, connectors'), Extended(schedules, schedules'),
           documents' = documents,
           withdrawn' \subseteq {d \in Documents : documents[d] # Admission!NoDocument}
    PROVE  DocumentsOK'
<1>1. Admission!NoDocument' = Admission!NoDocument
  BY DEF Admission!NoDocument
<1>2. ASSUME NEW d \in Documents, documents[d] # Admission!NoDocument
      PROVE  documents'[d] \in Admission!ProvenanceType' /\ ProducedOn(documents[d])'
  <2>1. documents[d] \in Admission!ProvenanceType /\ ProducedOn(documents[d])
    BY <1>2 DEF AdmissionInv, DocumentsOK
  <2>2. documents[d] \in Admission!ProvenanceType'
    BY <2>1, SignedKept
  <2>3. ProducedOn(documents[d])'
    BY <2>1, SignedKept DEF ProducedOn
  <2> QED
    BY <2>2, <2>3
<1> QED
  BY <1>1, <1>2 DEF AdmissionInv, DocumentsOK

\* _quarantine: only what was recorded is withdrawn.
LEMMA WithdrawsRecorded ==
    ASSUME AdmissionInv, NEW sync, NEW m
    PROVE  Admission!Quarantined(sync, m) \subseteq {d \in Documents : documents[d] # Admission!NoDocument}
BY DEF AdmissionInv, DocumentsOK, Admission!Quarantined

\* A signed object ends no later than anything it rests on.
LEMMA MinOfThree ==
    ASSUME NEW a \in Int, NEW b \in Int, NEW c \in Int, NEW e, e = Admission!Min({a, b, c})
    PROVE  e \in Int /\ e <= a /\ e <= b /\ e <= c
<1>1. \E x \in {a, b, c} : \A y \in {a, b, c} : x <= y
  <2>1. CASE a <= b /\ a <= c
    BY <2>1
  <2>2. CASE b <= a /\ b <= c
    BY <2>2
  <2>3. CASE c <= a /\ c <= b
    BY <2>3
  <2> QED
    BY <2>1, <2>2, <2>3
<1>2. e \in {a, b, c} /\ \A y \in {a, b, c} : e <= y
  BY <1>1 DEF Admission!Min
<1> QED
  BY <1>2

\* Nothing is signed or recorded at first.
LEMMA ConnectorInit == Admission!Init => AdmissionInv
<1> SUFFICES ASSUME Admission!Init PROVE AdmissionInv
  OBVIOUS
<1>1. RunningOK
  BY ConnectorAssumption DEF Admission!Init, RunningOK, Admission!StateType
<1>2. ManifestsOK /\ EvidenceOK /\ ConnectorsOK /\ SchedulesOK
  BY EmptyLog DEF Admission!Init, ManifestsOK, EvidenceOK, ConnectorsOK, SchedulesOK
<1>3. CountsOK
  BY EmptyLog DEF Admission!Init, CountsOK
<1>4. DocumentsOK
  BY DEF Admission!Init, DocumentsOK
<1> QED
  BY <1>1, <1>2, <1>3, <1>4 DEF AdmissionInv

\* A manifest is signed; what rests on earlier ones stays.
LEMMA ConnectorSigns ==
    ASSUME AdmissionInv, NEW k \in Configurations, NEW st \in {"active", "compromised"},
           NEW lifetime \in ManifestLifetimes, Admission!SignManifest(k, st, lifetime)
    PROVE  AdmissionInv'
<1> DEFINE m == [configuration |-> k, status |-> st,
                 issued_at |-> connector_now, expires_at |-> connector_now + lifetime]
<1>1. /\ manifests' = Append(manifests, m)
      /\ UNCHANGED <<connector_now, configuration, observed, evidence, connectors, schedules, counts,
                     documents, withdrawn>>
  BY DEF Admission!SignManifest
<1>2. connector_now \in 0 .. ConnectorEnd /\ connector_now + lifetime \in Nat
  BY ConnectorAssumption DEF AdmissionInv, RunningOK
<1>3. m \in Admission!ManifestType
  BY <1>2 DEF Admission!ManifestType
<1> HIDE DEF m
<1>4. /\ Extended(manifests, manifests') /\ Log(manifests')
      /\ \A i \in DOMAIN manifests' : (i \in DOMAIN manifests /\ manifests'[i] = manifests[i]) \/ manifests'[i] = m
  BY <1>1, AppendExtends DEF AdmissionInv, ManifestsOK
<1>5. Extended(evidence, evidence') /\ Extended(connectors, connectors') /\ Extended(schedules, schedules')
  BY <1>1, SameExtends
<1>6. RunningOK'
  BY <1>1 DEF AdmissionInv, RunningOK, Admission!StateType
<1>7. ManifestsOK'
  BY <1>3, <1>4 DEF AdmissionInv, ManifestsOK, Admission!ManifestType
<1>8. EvidenceOK' /\ ConnectorsOK' /\ SchedulesOK'
  BY <1>1, <1>4, <1>5, SignedKept DEF AdmissionInv, EvidenceOK, ConnectorsOK, SchedulesOK
<1>9. CountsOK'
  BY <1>1 DEF AdmissionInv, CountsOK
<1>10. DocumentsOK'
  <2>1. withdrawn' \subseteq {d \in Documents : documents[d] # Admission!NoDocument}
    BY <1>1 DEF AdmissionInv, DocumentsOK
  <2> QED
    BY <1>1, <1>4, <1>5, <2>1, DocumentsKept
<1> QED
  BY <1>6, <1>7, <1>8, <1>9, <1>10 DEF AdmissionInv

\* Evidence is signed; what rests on earlier evidence stays.
LEMMA ConnectorEvidence ==
    ASSUME AdmissionInv, NEW m \in DOMAIN manifests, NEW k \in Configurations, NEW lifetime \in EvidenceLifetimes,
           NEW controls \in {RequiredControls, {}}, NEW owned \in {c.sources : c \in Configurations},
           Admission!SignEvidence(m, k, controls, owned, lifetime)
    PROVE  AdmissionInv'
<1> DEFINE e == [manifest |-> m, configuration |-> k, controls |-> controls,
                 owned |-> owned, issued_at |-> connector_now, expires_at |-> connector_now + lifetime]
<1>1. /\ evidence' = Append(evidence, e)
      /\ UNCHANGED <<connector_now, configuration, observed, manifests, connectors, schedules, counts,
                     documents, withdrawn>>
  BY DEF Admission!SignEvidence
<1>2. connector_now \in 0 .. ConnectorEnd /\ connector_now + lifetime \in Nat
  BY ConnectorAssumption DEF AdmissionInv, RunningOK
<1>3. controls \in SUBSET Controls /\ owned \in SUBSET Sources
  BY ConnectorAssumption DEF Admission!ConfigurationType
<1>4. e \in Admission!EvidenceType
  BY <1>2, <1>3 DEF Admission!EvidenceType
<1> HIDE DEF e
<1>5. /\ Extended(evidence, evidence') /\ Log(evidence')
      /\ \A i \in DOMAIN evidence' : (i \in DOMAIN evidence /\ evidence'[i] = evidence[i]) \/ evidence'[i] = e
  BY <1>1, AppendExtends DEF AdmissionInv, EvidenceOK
<1>6. Extended(manifests, manifests') /\ Extended(connectors, connectors') /\ Extended(schedules, schedules')
  BY <1>1, SameExtends
<1>7. RunningOK' /\ ManifestsOK'
  BY <1>1 DEF AdmissionInv, RunningOK, ManifestsOK, Admission!StateType, Admission!ManifestType
<1>8. Admission!EvidenceType' = Admission!EvidenceType
  BY <1>1 DEF Admission!EvidenceType
<1>9. EvidenceOK'
  BY <1>4, <1>5, <1>8 DEF AdmissionInv, EvidenceOK
<1>10. ConnectorsOK' /\ SchedulesOK'
  BY <1>1, <1>5, <1>6, SignedKept DEF AdmissionInv, ConnectorsOK, SchedulesOK
<1>11. CountsOK'
  BY <1>1 DEF AdmissionInv, CountsOK
<1>12. DocumentsOK'
  <2>1. withdrawn' \subseteq {d \in Documents : documents[d] # Admission!NoDocument}
    BY <1>1 DEF AdmissionInv, DocumentsOK
  <2> QED
    BY <1>1, <1>5, <1>6, <2>1, DocumentsKept
<1> QED
  BY <1>7, <1>9, <1>10, <1>11, <1>12 DEF AdmissionInv

\* A step that signs nothing and records nothing.
LEMMA ConnectorRests ==
    ASSUME AdmissionInv, RunningOK', UNCHANGED <<manifests, evidence, connectors, schedules, documents>>,
           CountsOK', withdrawn' \subseteq {d \in Documents : documents[d] # Admission!NoDocument}
    PROVE  AdmissionInv'
<1>1. /\ Extended(manifests, manifests') /\ Extended(evidence, evidence')
      /\ Extended(connectors, connectors') /\ Extended(schedules, schedules')
  BY SameExtends
<1>2. ManifestsOK'
  BY DEF AdmissionInv, ManifestsOK, Admission!ManifestType
<1>3. EvidenceOK' /\ ConnectorsOK' /\ SchedulesOK'
  BY <1>1, SignedKept DEF AdmissionInv, EvidenceOK, ConnectorsOK, SchedulesOK
<1>4. DocumentsOK'
  BY <1>1, DocumentsKept
<1> QED
  BY <1>2, <1>3, <1>4 DEF AdmissionInv

\* admit: evidence that fits gives an admission, anything else may withdraw documents.
LEMMA ConnectorAdmits ==
    ASSUME AdmissionInv, NEW m \in DOMAIN manifests, NEW e \in 0 .. Len(evidence), Admission!Admit(m, e)
    PROVE  AdmissionInv'
<1>1. UNCHANGED <<connector_now, configuration, observed, manifests, evidence, schedules, counts, documents>>
  BY DEF Admission!Admit
<1>2. RunningOK' /\ CountsOK'
  BY <1>1 DEF AdmissionInv, RunningOK, CountsOK, Admission!StateType
<1>3. CASE e # 0 /\ Admission!ManifestValid(m) /\ Admission!EvidenceValid(e, m)
  <2> DEFINE end == Admission!AdmissionEnd(m, e)
             a == [manifest |-> m, evidence |-> e, issued_at |-> connector_now, expires_at |-> end]
  <2>1. end > connector_now /\ connectors' = Append(connectors, a) /\ withdrawn' = withdrawn
    BY <1>3 DEF Admission!Admit
  <2>2. e \in DOMAIN evidence
    BY <1>3, Appended DEF AdmissionInv, EvidenceOK
  <2>3. manifests[m].expires_at \in Int /\ evidence[e].expires_at \in Int /\ connector_now + AdmissionTtl \in Int
        /\ connector_now \in 0 .. ConnectorEnd
    <3>1. manifests[m] \in Admission!ManifestType /\ evidence[e] \in Admission!EvidenceType
      BY <2>2 DEF AdmissionInv, ManifestsOK, EvidenceOK
    <3>2. connector_now + AdmissionTtl \in Int /\ connector_now \in 0 .. ConnectorEnd
      BY ConnectorAssumption DEF AdmissionInv, RunningOK
    <3> QED
      BY <3>1, <3>2 DEF Admission!ManifestType, Admission!EvidenceType
  <2>4. end \in Int /\ end <= evidence[e].expires_at
    BY <2>3, MinOfThree DEF Admission!AdmissionEnd
  <2> HIDE DEF end
  <2>5. end \in Nat
    BY <2>1, <2>3, <2>4
  <2>6. a \in Admission!AdmissionType /\ a.manifest = m /\ a.evidence = e /\ a.expires_at = end
    BY <2>2, <2>3, <2>5 DEF Admission!AdmissionType
  <2> HIDE DEF a
  <2>7. AdmittedOn(a)
    BY <1>3, <2>4, <2>6 DEF AdmittedOn, Admission!EvidenceValid, Admission!SourcesOwned
  <2>8. /\ Extended(connectors, connectors') /\ Log(connectors')
        /\ \A i \in DOMAIN connectors' :
              (i \in DOMAIN connectors /\ connectors'[i] = connectors[i]) \/ connectors'[i] = a
    BY <2>1, AppendExtends DEF AdmissionInv, ConnectorsOK
  <2>9. Extended(manifests, manifests') /\ Extended(evidence, evidence') /\ Extended(schedules, schedules')
    BY <1>1, SameExtends
  <2>10. ManifestsOK' /\ EvidenceOK'
    BY <1>1 DEF AdmissionInv, ManifestsOK, EvidenceOK, Admission!ManifestType, Admission!EvidenceType
  <2>11. Admission!AdmissionType' = Admission!AdmissionType
    BY <1>1 DEF Admission!AdmissionType
  <2>13. ConnectorsOK'
    <3> SUFFICES ASSUME NEW i \in DOMAIN connectors'
                 PROVE  (connectors[i] \in Admission!AdmissionType)' /\ AdmittedOn(connectors[i])'
      BY <2>8 DEF ConnectorsOK
    <3>1. CASE i \in DOMAIN connectors
      BY <2>8, <2>9, <3>1, SignedKept
    <3>2. CASE connectors'[i] = a
      BY <1>1, <2>6, <2>7, <2>11, <3>2 DEF AdmittedOn
    <3> QED
      BY <2>8, <3>1, <3>2
  <2>14. SchedulesOK'
    BY <1>1, <2>8, <2>9, SignedKept DEF AdmissionInv, SchedulesOK
  <2>15. DocumentsOK'
    <3>1. withdrawn' \subseteq {d \in Documents : documents[d] # Admission!NoDocument}
      BY <2>1 DEF AdmissionInv, DocumentsOK
    <3> QED
      BY <1>1, <2>8, <2>9, <3>1, DocumentsKept
  <2> QED
    BY <1>2, <2>10, <2>13, <2>14, <2>15 DEF AdmissionInv
<1>4. CASE ~(e # 0 /\ Admission!ManifestValid(m) /\ Admission!EvidenceValid(e, m))
  <2>1. connectors' = connectors /\ withdrawn' \in {Admission!Quarantined("none", m), withdrawn}
    BY <1>4 DEF Admission!Admit
  <2>2. withdrawn' \subseteq {d \in Documents : documents[d] # Admission!NoDocument}
    BY <2>1, WithdrawsRecorded DEF AdmissionInv, DocumentsOK
  <2> QED
    BY <1>1, <1>2, <2>1, <2>2, ConnectorRests
<1> QED
  BY <1>3, <1>4

\* authorize_sync: an admission and a fresh observation give an authorization.
LEMMA ConnectorSchedules ==
    ASSUME AdmissionInv, NEW m \in DOMAIN manifests, NEW a \in DOMAIN connectors, NEW named, NEW sync \in Syncs,
           NEW sources \in {k.sources : k \in Configurations}, NEW scheduled,
           Admission!AuthorizeSync(m, a, named, sync, sources, scheduled)
    PROVE  AdmissionInv'
<1>1. UNCHANGED <<connector_now, configuration, observed, manifests, evidence, connectors, documents>>
  BY DEF Admission!AuthorizeSync
<1>2. RunningOK'
  BY <1>1 DEF AdmissionInv, RunningOK, Admission!StateType
<1>3. CASE /\ Admission!ManifestValid(m) /\ Admission!AdmissionValid(a, m)
           /\ Admission!RequestValid(a, m, named, sources, scheduled)
  <2> DEFINE end == Admission!AuthorizationEnd(m, a)
             s == [manifest |-> m, admission |-> a, state |-> observed, sync |-> sync, sources |-> sources,
                   parser |-> manifests[m].configuration.parser, issued_at |-> connector_now, expires_at |-> end]
  <2>1. /\ end > connector_now /\ schedules' = Append(schedules, s) /\ counts' = Append(counts, 0)
        /\ withdrawn' = withdrawn
    BY <1>3 DEF Admission!AuthorizeSync
  <2>2. /\ manifests[m].expires_at \in Int /\ connectors[a].expires_at \in Int
        /\ connector_now + SyncTtl \in Int /\ connector_now \in 0 .. ConnectorEnd
        /\ observed \in Admission!StateType /\ manifests[m].configuration.parser \in Parsers
    <3>1. manifests[m] \in Admission!ManifestType /\ connectors[a] \in Admission!AdmissionType
      BY DEF AdmissionInv, ManifestsOK, ConnectorsOK
    <3>2. /\ connector_now + SyncTtl \in Int /\ connector_now \in 0 .. ConnectorEnd
          /\ observed \in Admission!StateType
      BY ConnectorAssumption DEF AdmissionInv, RunningOK
    <3>3. manifests[m].configuration \in Admission!ConfigurationType
      BY <3>1, ConnectorAssumption DEF Admission!ManifestType
    <3> QED
      BY <3>1, <3>2, <3>3 DEF Admission!ManifestType, Admission!AdmissionType, Admission!ConfigurationType
  <2>3. end \in Int /\ end <= manifests[m].expires_at /\ end <= connectors[a].expires_at
        /\ end <= connector_now + SyncTtl
    BY <2>2, MinOfThree DEF Admission!AuthorizationEnd
  <2> HIDE DEF end
  <2>4. end \in Nat
    BY <2>1, <2>2, <2>3
  <2>5. sources \in SUBSET Sources
    BY ConnectorAssumption DEF Admission!ConfigurationType
  <2>6. s \in Admission!AuthorizationType
    BY <2>2, <2>4, <2>5 DEF Admission!AuthorizationType
  <2>7. /\ s.manifest = m /\ s.admission = a /\ s.state = observed /\ s.sources = sources
        /\ s.parser = manifests[m].configuration.parser /\ s.issued_at = connector_now /\ s.expires_at = end
    OBVIOUS
  <2> HIDE DEF s
  <2>8. ScheduledOn(s)
    <3>1. /\ connectors[a].manifest = m /\ observed.configuration = manifests[m].configuration
          /\ connector_now - observed.observed_at <= MaxEvidenceAge
          /\ sources \subseteq manifests[m].configuration.sources
      BY <1>3 DEF Admission!AdmissionValid, Admission!RequestValid
    <3> QED
      BY <2>3, <2>7, <3>1 DEF ScheduledOn
  <2>9. /\ Extended(schedules, schedules') /\ Log(schedules') /\ Len(schedules') = Len(schedules) + 1
        /\ \A i \in DOMAIN schedules' :
              (i \in DOMAIN schedules /\ schedules'[i] = schedules[i]) \/ schedules'[i] = s
    BY <2>1, AppendExtends DEF AdmissionInv, SchedulesOK
  <2>10. Extended(manifests, manifests') /\ Extended(evidence, evidence') /\ Extended(connectors, connectors')
    BY <1>1, SameExtends
  <2>11. ManifestsOK' /\ EvidenceOK'
    BY <1>1 DEF AdmissionInv, ManifestsOK, EvidenceOK, Admission!ManifestType, Admission!EvidenceType
  <2>12. ConnectorsOK'
    BY <1>1, <2>9, <2>10, SignedKept DEF AdmissionInv, ConnectorsOK
  <2>13. Admission!AuthorizationType' = Admission!AuthorizationType
    BY <1>1 DEF Admission!AuthorizationType, Admission!StateType
  <2>14. SchedulesOK'
    <3> SUFFICES ASSUME NEW i \in DOMAIN schedules'
                 PROVE  (schedules[i] \in Admission!AuthorizationType)' /\ ScheduledOn(schedules[i])'
      BY <2>9 DEF SchedulesOK
    <3>1. CASE i \in DOMAIN schedules
      BY <2>9, <2>10, <3>1, SignedKept
    <3>2. CASE schedules'[i] = s
      BY <1>1, <2>6, <2>8, <2>13, <3>2 DEF ScheduledOn
    <3> QED
      BY <2>9, <3>1, <3>2
  <2>15. CountsOK'
    <3>1. /\ Log(counts') /\ Len(counts') = Len(counts) + 1
          /\ \A i \in DOMAIN counts' : (i \in DOMAIN counts /\ counts'[i] = counts[i]) \/ counts'[i] = 0
      BY <2>1, AppendExtends DEF AdmissionInv, CountsOK
    <3>2. 0 \in -1 .. MaxDocuments
      BY ConnectorAssumption
    <3> QED
      BY <2>9, <3>1, <3>2 DEF AdmissionInv, CountsOK
  <2>16. DocumentsOK'
    <3>1. withdrawn' \subseteq {d \in Documents : documents[d] # Admission!NoDocument}
      BY <2>1 DEF AdmissionInv, DocumentsOK
    <3> QED
      BY <1>1, <2>9, <2>10, <3>1, DocumentsKept
  <2> QED
    BY <1>2, <2>11, <2>12, <2>14, <2>15, <2>16 DEF AdmissionInv
<1>4. CASE ~(/\ Admission!ManifestValid(m) /\ Admission!AdmissionValid(a, m)
             /\ Admission!RequestValid(a, m, named, sources, scheduled))
  <2>1. UNCHANGED <<schedules, counts>> /\ withdrawn' = Admission!Quarantined(sync, m)
    BY <1>4 DEF Admission!AuthorizeSync
  <2>2. withdrawn' \subseteq {d \in Documents : documents[d] # Admission!NoDocument}
    BY <2>1, WithdrawsRecorded
  <2>3. CountsOK'
    BY <2>1 DEF AdmissionInv, CountsOK
  <2> QED
    BY <1>1, <1>2, <2>1, <2>2, <2>3, ConnectorRests
<1> QED
  BY <1>3, <1>4

\* An entry that is replaced leaves the others and the length alone.
LEMMA LogSet ==
    ASSUME NEW s, Log(s), NEW i \in DOMAIN s, NEW e
    PROVE  /\ Log([s EXCEPT ![i] = e]) /\ Len([s EXCEPT ![i] = e]) = Len(s)
           /\ DOMAIN [s EXCEPT ![i] = e] = DOMAIN s
<1> DEFINE S == {s[j] : j \in DOMAIN s}
           T == S \cup {e}
           r == [s EXCEPT ![i] = e]
<1>1. s \in Seq(S)
  BY DEF Log
<1>2. DOMAIN s = 1 .. Len(s) /\ Len(s) \in Nat /\ \A j \in DOMAIN s : s[j] \in S
  BY <1>1
<1> HIDE DEF S
<1>3. s \in Seq(T) /\ e \in T
  BY <1>1, <1>2
<1> HIDE DEF T
<1>4. r \in Seq(T) /\ Len(r) = Len(s) /\ DOMAIN r = DOMAIN s
  BY <1>2, <1>3
<1> HIDE DEF r
<1>5. r \in Seq({r[j] : j \in DOMAIN r})
  BY <1>2, <1>4
<1> QED
  BY <1>4, <1>5 DEF Log, r

\* A count that stays in its range leaves the counts well formed.
LEMMA CountsSet ==
    ASSUME AdmissionInv, NEW s \in DOMAIN counts, NEW c \in -1 .. MaxDocuments,
           counts' = [counts EXCEPT ![s] = c], schedules' = schedules
    PROVE  CountsOK'
<1>1. Log(counts') /\ Len(counts') = Len(counts) /\ DOMAIN counts' = DOMAIN counts
  BY LogSet DEF AdmissionInv, CountsOK
<1>2. \A i \in DOMAIN counts' : counts'[i] = c \/ counts'[i] = counts[i]
  BY <1>1
<1> QED
  BY <1>1, <1>2 DEF AdmissionInv, CountsOK

\* A document that was recorded is told from none.
LEMMA NotNoDocument ==
    ASSUME NEW m, NEW s, NEW source
    PROVE  Admission!Provenance(m, s, source) # Admission!NoDocument
<1>1. "manifest" \in DOMAIN Admission!Provenance(m, s, source)
  BY DEF Admission!Provenance
<1>2. "manifest" \notin DOMAIN Admission!NoDocument
  BY DEF Admission!NoDocument
<1> QED
  BY <1>1, <1>2

\* verify_document: a document that fits its authorization is recorded.
LEMMA ConnectorProduces ==
    ASSUME AdmissionInv, NEW m \in DOMAIN manifests, NEW s \in DOMAIN schedules, NEW d \in Documents,
           NEW source \in Sources, NEW parser \in Parsers, Admission!VerifyDocument(m, s, d, source, parser)
    PROVE  AdmissionInv'
<1>1. UNCHANGED <<connector_now, configuration, observed, manifests, evidence, connectors, schedules>>
  BY DEF Admission!VerifyDocument, Admission!signed
<1>2. RunningOK'
  BY <1>1 DEF AdmissionInv, RunningOK, Admission!StateType
<1>3. s \in DOMAIN counts /\ counts[s] \in -1 .. MaxDocuments
  <2>1. DOMAIN counts = 1 .. Len(counts) /\ DOMAIN schedules = 1 .. Len(schedules)
    BY Appended DEF AdmissionInv, CountsOK, SchedulesOK
  <2> QED
    BY <2>1 DEF AdmissionInv, CountsOK
<1>4. CASE /\ Admission!ManifestValid(m) /\ Admission!AuthorizationValid(s, m)
           /\ counts[s] >= 0 /\ counts[s] < MaxDocuments
           /\ Admission!DocumentValid(s, source, parser)
  <2> DEFINE p == Admission!Provenance(m, s, source)
  <2>1. /\ documents' = [documents EXCEPT ![d] = p] /\ counts' = [counts EXCEPT ![s] = counts[s] + 1]
        /\ withdrawn' = withdrawn
    BY <1>4 DEF Admission!VerifyDocument
  <2>2. schedules[s] \in Admission!AuthorizationType
    BY DEF AdmissionInv, SchedulesOK
  <2>3. p \in Admission!ProvenanceType
    BY <2>2 DEF AdmissionInv, RunningOK, Admission!Provenance, Admission!ProvenanceType, Admission!AuthorizationType
  <2>4. ProducedOn(p)
    BY <1>4 DEF ProducedOn, Admission!Provenance, Admission!AuthorizationValid, Admission!DocumentValid
  <2>5. p # Admission!NoDocument
    BY NotNoDocument
  <2> HIDE DEF p
  <2>6. counts[s] + 1 \in -1 .. MaxDocuments
    BY <1>3, <1>4, ConnectorAssumption
  <2>7. CountsOK'
    BY <1>1, <1>3, <2>1, <2>6, CountsSet
  <2>8. /\ Admission!NoDocument' = Admission!NoDocument
        /\ Admission!ProvenanceType' = Admission!ProvenanceType
    BY <1>1 DEF Admission!NoDocument, Admission!ProvenanceType
  <2>9. \A c \in Documents : documents'[c] = p \/ documents'[c] = documents[c]
    BY <2>1 DEF AdmissionInv, DocumentsOK
  <2>10. ASSUME NEW c \in Documents
         PROVE  \/ documents'[c] = Admission!NoDocument
                \/ documents'[c] \in Admission!ProvenanceType /\ ProducedOn(documents'[c])
    BY <2>3, <2>4, <2>9 DEF AdmissionInv, DocumentsOK
  <2>11. \A c \in Documents :
            \/ documents'[c] = Admission!NoDocument
            \/ documents'[c] \in Admission!ProvenanceType /\ ProducedOn(documents[c])'
    BY <1>1, <2>10 DEF ProducedOn
  <2>12. withdrawn' \subseteq {c \in Documents : documents'[c] # Admission!NoDocument}
    BY <2>1, <2>5, <2>9 DEF AdmissionInv, DocumentsOK
  <2>13. DocumentsOK'
    BY <2>1, <2>8, <2>11, <2>12 DEF AdmissionInv, DocumentsOK
  <2>14. /\ Extended(manifests, manifests') /\ Extended(evidence, evidence')
         /\ Extended(connectors, connectors') /\ Extended(schedules, schedules')
    BY <1>1, SameExtends
  <2>15. ManifestsOK'
    BY <1>1 DEF AdmissionInv, ManifestsOK, Admission!ManifestType
  <2>16. EvidenceOK' /\ ConnectorsOK' /\ SchedulesOK'
    BY <1>1, <2>14, SignedKept DEF AdmissionInv, EvidenceOK, ConnectorsOK, SchedulesOK
  <2> QED
    BY <1>2, <2>7, <2>13, <2>15, <2>16 DEF AdmissionInv
<1>5. CASE ~(/\ Admission!ManifestValid(m) /\ Admission!AuthorizationValid(s, m)
             /\ counts[s] >= 0 /\ counts[s] < MaxDocuments
             /\ Admission!DocumentValid(s, source, parser))
  <2>1. UNCHANGED <<documents, counts>> /\ withdrawn' = Admission!Quarantined(schedules[s].sync, m)
    BY <1>5 DEF Admission!VerifyDocument
  <2>2. withdrawn' \subseteq {c \in Documents : documents[c] # Admission!NoDocument}
    BY <2>1, WithdrawsRecorded
  <2>3. CountsOK'
    BY <1>1, <2>1 DEF AdmissionInv, CountsOK
  <2> QED
    BY <1>1, <1>2, <2>1, <2>2, <2>3, ConnectorRests
<1> QED
  BY <1>4, <1>5

\* complete_sync: an authorization is closed, and may be withdrawn.
LEMMA ConnectorCompletes ==
    ASSUME AdmissionInv, NEW m \in DOMAIN manifests, NEW s \in DOMAIN schedules,
           NEW expected, NEW processed, NEW failures,
           Admission!CompleteSync(m, s, expected, processed, failures)
    PROVE  AdmissionInv'
<1>1. /\ UNCHANGED <<connector_now, configuration, observed, manifests, evidence, connectors, schedules, documents>>
      /\ counts' = [counts EXCEPT ![s] = -1]
      /\ withdrawn' \in {withdrawn, Admission!Quarantined(schedules[s].sync, m)}
  BY DEF Admission!CompleteSync, Admission!signed
<1>2. RunningOK'
  BY <1>1 DEF AdmissionInv, RunningOK, Admission!StateType
<1>3. s \in DOMAIN counts
  <2>1. DOMAIN counts = 1 .. Len(counts) /\ DOMAIN schedules = 1 .. Len(schedules)
    BY Appended DEF AdmissionInv, CountsOK, SchedulesOK
  <2> QED
    BY <2>1 DEF AdmissionInv, CountsOK
<1>4. -1 \in -1 .. MaxDocuments
  BY ConnectorAssumption
<1>5. CountsOK'
  BY <1>1, <1>3, <1>4, CountsSet
<1>6. withdrawn' \subseteq {c \in Documents : documents[c] # Admission!NoDocument}
  BY <1>1, WithdrawsRecorded DEF AdmissionInv, DocumentsOK
<1> QED
  BY <1>1, <1>2, <1>5, <1>6, ConnectorRests

\* Every step keeps the chain of evidence.
LEMMA ConnectorStep == AdmissionInv /\ [Admission!Next]_admission => AdmissionInv'
<1> SUFFICES ASSUME AdmissionInv, [Admission!Next]_admission PROVE AdmissionInv'
  OBVIOUS
<1>0. withdrawn \subseteq {d \in Documents : documents[d] # Admission!NoDocument}
  BY DEF AdmissionInv, DocumentsOK
<1>1. ASSUME NEW k \in Configurations, NEW st \in {"active", "compromised"}, NEW lifetime \in ManifestLifetimes,
             Admission!SignManifest(k, st, lifetime)
      PROVE  AdmissionInv'
  BY <1>1, ConnectorSigns
<1>2. ASSUME NEW m \in DOMAIN manifests, NEW k \in Configurations, NEW lifetime \in EvidenceLifetimes,
             NEW controls \in {RequiredControls, {}}, NEW owned \in {c.sources : c \in Configurations},
             Admission!SignEvidence(m, k, controls, owned, lifetime)
      PROVE  AdmissionInv'
  BY <1>2, ConnectorEvidence
<1>3. ASSUME RunningOK',
             UNCHANGED <<manifests, evidence, connectors, schedules, counts, documents, withdrawn>>
      PROVE  AdmissionInv'
  <2>1. CountsOK'
    BY <1>3 DEF AdmissionInv, CountsOK
  <2> QED
    BY <1>0, <1>3, <2>1, ConnectorRests
<1>4. CASE Admission!Observe
  <2>1. RunningOK'
    BY <1>4 DEF AdmissionInv, RunningOK, Admission!Observe, Admission!StateType
  <2> QED
    BY <1>3, <1>4, <2>1 DEF Admission!Observe, Admission!signed
<1>5. ASSUME NEW k \in Configurations, Admission!Reconfigure(k) PROVE AdmissionInv'
  <2>1. RunningOK'
    BY <1>5 DEF AdmissionInv, RunningOK, Admission!Reconfigure, Admission!StateType
  <2> QED
    BY <1>3, <1>5, <2>1 DEF Admission!Reconfigure, Admission!signed
<1>6. ASSUME NEW m \in DOMAIN manifests, NEW e \in 0 .. Len(evidence), Admission!Admit(m, e)
      PROVE  AdmissionInv'
  BY <1>6, ConnectorAdmits
<1>7. ASSUME NEW m \in DOMAIN manifests, NEW a \in DOMAIN connectors, NEW named \in DOMAIN evidence,
             NEW sync \in Syncs, NEW sources \in {k.sources : k \in Configurations},
             NEW scheduled \in {connector_now, connector_now + ScheduleSkew + 1},
             Admission!AuthorizeSync(m, a, named, sync, sources, scheduled)
      PROVE  AdmissionInv'
  BY <1>7, ConnectorSchedules
<1>8. ASSUME NEW m \in DOMAIN manifests, NEW s \in DOMAIN schedules, NEW d \in Documents,
             NEW source \in Sources, NEW parser \in Parsers, Admission!VerifyDocument(m, s, d, source, parser)
      PROVE  AdmissionInv'
  BY <1>8, ConnectorProduces
<1>9. ASSUME NEW m \in DOMAIN manifests, NEW s \in DOMAIN schedules, NEW expected \in 0 .. MaxDocuments,
             NEW processed \in 0 .. MaxDocuments, NEW failures \in 0 .. 1,
             Admission!CompleteSync(m, s, expected, processed, failures)
      PROVE  AdmissionInv'
  BY <1>9, ConnectorCompletes
<1>10. ASSUME NEW m \in DOMAIN manifests, NEW d \in Documents, Admission!VerifyDownstream(m, d)
       PROVE  AdmissionInv'
  <2>1. /\ UNCHANGED <<connector_now, configuration, observed, manifests, evidence, connectors, schedules,
                       counts, documents>>
        /\ withdrawn' = Admission!Quarantined("none", m)
    BY <1>10 DEF Admission!VerifyDownstream, Admission!signed
  <2>2. withdrawn' \subseteq {c \in Documents : documents[c] # Admission!NoDocument}
    BY <2>1, WithdrawsRecorded
  <2>3. RunningOK' /\ CountsOK'
    BY <2>1 DEF AdmissionInv, RunningOK, CountsOK, Admission!StateType
  <2> QED
    BY <2>1, <2>2, <2>3, ConnectorRests
<1>11. CASE Admission!Tick
  <2>1. RunningOK'
    BY <1>11, ConnectorAssumption DEF AdmissionInv, RunningOK, Admission!Tick, Admission!StateType
  <2> QED
    BY <1>3, <1>11, <2>1 DEF Admission!Tick, Admission!signed
<1>12. CASE UNCHANGED admission
  <2>1. RunningOK'
    BY <1>12 DEF AdmissionInv, RunningOK, admission, Admission!StateType
  <2> QED
    BY <1>3, <1>12, <2>1 DEF admission
<1> QED
  BY <1>1, <1>2, <1>4, <1>5, <1>6, <1>7, <1>8, <1>9, <1>10, <1>11, <1>12 DEF Admission!Next

\* A document is attested and freshly observed along the whole chain.
LEMMA AdmissionSafe ==
    AdmissionInv => Admission!TypeOK /\ Admission!DocumentAttested /\ Admission!FreshlyObserved
<1> SUFFICES ASSUME AdmissionInv
             PROVE  Admission!TypeOK /\ Admission!DocumentAttested /\ Admission!FreshlyObserved
  OBVIOUS
<1>1. Admission!TypeOK
  <2>1. DOMAIN counts = DOMAIN schedules
    <3>1. DOMAIN counts = 1 .. Len(counts) /\ DOMAIN schedules = 1 .. Len(schedules)
      BY Appended DEF AdmissionInv, CountsOK, SchedulesOK
    <3> QED
      BY <3>1 DEF AdmissionInv, CountsOK
  <2> QED
    BY <2>1, ConnectorAssumption
    DEF AdmissionInv, RunningOK, ManifestsOK, EvidenceOK, ConnectorsOK, SchedulesOK, CountsOK, DocumentsOK,
        Admission!TypeOK
<1>2. ASSUME NEW d \in Admission!Recorded
      PROVE  LET p == documents[d]
                 s == schedules[p.authorization]
                 a == connectors[s.admission]
                 e == evidence[a.evidence]
                 m == manifests[p.manifest]
             IN  /\ p \in Admission!ProvenanceType /\ ProducedOn(p)
                 /\ s \in Admission!AuthorizationType /\ ScheduledOn(s)
                 /\ a \in Admission!AdmissionType /\ AdmittedOn(a)
                 /\ e \in Admission!EvidenceType /\ m \in Admission!ManifestType
                 /\ s.manifest = p.manifest /\ a.manifest = p.manifest
  <2> DEFINE p == documents[d]
             s == schedules[p.authorization]
             a == connectors[s.admission]
             e == evidence[a.evidence]
             m == manifests[p.manifest]
  <2>1. p \in Admission!ProvenanceType /\ ProducedOn(p)
    BY DEF Admission!Recorded, AdmissionInv, DocumentsOK
  <2>2. p.authorization \in DOMAIN schedules /\ p.manifest \in DOMAIN manifests /\ s.manifest = p.manifest
    BY <2>1 DEF ProducedOn, Admission!ProvenanceType
  <2>3. s \in Admission!AuthorizationType /\ ScheduledOn(s) /\ m \in Admission!ManifestType
    BY <2>2 DEF AdmissionInv, SchedulesOK, ManifestsOK
  <2>4. s.admission \in DOMAIN connectors /\ a.manifest = s.manifest
    BY <2>3 DEF ScheduledOn, Admission!AuthorizationType
  <2>5. a \in Admission!AdmissionType /\ AdmittedOn(a)
    BY <2>4 DEF AdmissionInv, ConnectorsOK
  <2>6. e \in Admission!EvidenceType
    BY <2>5 DEF AdmissionInv, EvidenceOK, Admission!AdmissionType
  <2> QED
    BY <2>1, <2>2, <2>3, <2>4, <2>5, <2>6
<1>3. Admission!DocumentAttested
  BY <1>2 DEF Admission!DocumentAttested, Admission!EvidenceOf, Admission!AdmissionOf,
              ProducedOn, ScheduledOn, AdmittedOn
<1>4. Admission!FreshlyObserved
  <2> SUFFICES ASSUME NEW d \in Admission!Recorded
               PROVE  LET p == documents[d]
                          state == schedules[p.authorization].state
                      IN  /\ p.produced_at <= Admission!EvidenceOf(d).expires_at
                          /\ p.produced_at <= manifests[p.manifest].expires_at
                          /\ state.configuration = manifests[p.manifest].configuration
                          /\ p.produced_at - state.observed_at <= MaxEvidenceAge + SyncTtl
    BY DEF Admission!FreshlyObserved
  <2> DEFINE p == documents[d]
             s == schedules[p.authorization]
             a == connectors[s.admission]
             e == evidence[a.evidence]
             m == manifests[p.manifest]
  <2>1. /\ p.produced_at <= s.expires_at /\ s.expires_at <= m.expires_at /\ s.expires_at <= a.expires_at
        /\ a.expires_at <= e.expires_at /\ s.expires_at <= s.issued_at + SyncTtl
        /\ s.issued_at - s.state.observed_at <= MaxEvidenceAge
        /\ s.state.configuration = m.configuration
    BY <1>2 DEF ProducedOn, ScheduledOn, AdmittedOn
  <2>2. Admission!EvidenceOf(d) = e
    BY DEF Admission!EvidenceOf, Admission!AdmissionOf
  <2>3. /\ p \in Admission!ProvenanceType /\ s \in Admission!AuthorizationType /\ a \in Admission!AdmissionType
        /\ e \in Admission!EvidenceType /\ m \in Admission!ManifestType
    BY <1>2
  <2> HIDE DEF p, s, a, e, m
  <2>4. p.produced_at \in Int /\ a.expires_at \in Int /\ e.expires_at \in Int /\ m.expires_at \in Int
    BY <2>3 DEF Admission!ProvenanceType, Admission!AdmissionType, Admission!EvidenceType, Admission!ManifestType
  <2>5. s.expires_at \in Int /\ s.issued_at \in Int /\ s.state \in Admission!StateType
    BY <2>3 DEF Admission!AuthorizationType
  <2>6. s.state.observed_at \in Int
    BY <2>5 DEF Admission!StateType
  <2>7. p.produced_at <= e.expires_at /\ p.produced_at <= m.expires_at
    BY <2>1, <2>4, <2>5
  <2>8. p.produced_at - s.state.observed_at <= MaxEvidenceAge + SyncTtl
    BY <2>1, <2>4, <2>5, <2>6, ConnectorAssumption
  <2> QED
    BY <2>1, <2>2, <2>7, <2>8 DEF p, s, m
<1> QED
  BY <1>1, <1>3, <1>4

-----------------------------------------------------------------------------
(* Transport *)

\* Versions are numbers.
ASSUME TransportAssumption == ProtocolVersions \subseteq Nat /\ MinVersion \in Nat

\* Every connection was judged by the addresses and the versions it was made with.
TransportInv ==
    /\ answer \subseteq Addresses
    /\ \/ attempt = Transport!None
       \/ attempt.phase \in {"resolved", "connected"}
    /\ Log(allowed)
    /\ \A i \in DOMAIN allowed :
        /\ Transport!DnsPinned(allowed[i]) /\ Transport!Negotiated(allowed[i])
        /\ allowed[i].client \subseteq ProtocolVersions /\ allowed[i].version \in ProtocolVersions

\* Nothing is resolved or allowed at first.
LEMMA TransportInit == Transport!Init => TransportInv
BY EmptyLog DEF Transport!Init, TransportInv

\* Every step judges a connection by the address and the versions it is made with.
LEMMA TransportStep == TransportInv /\ [Transport!Next]_transport => TransportInv'
<1> SUFFICES ASSUME TransportInv, [Transport!Next]_transport PROVE TransportInv'
  OBVIOUS
<1>1. ASSUME NEW addresses \in SUBSET Addresses, Transport!DnsChanges(addresses)
      PROVE  TransportInv'
  BY <1>1 DEF TransportInv, Transport!DnsChanges
<1>2. ASSUME Transport!Resolve PROVE TransportInv'
  BY <1>2 DEF TransportInv, Transport!Resolve
<1>3. ASSUME NEW address, NEW peer, Transport!ConnectTo(address, peer) PROVE TransportInv'
  BY <1>3 DEF TransportInv, Transport!ConnectTo
<1>4. ASSUME NEW forwarded, NEW endpoint, NEW bounded, NEW client \in SUBSET ProtocolVersions,
             NEW server, NEW version \in ProtocolVersions,
             Transport!ValidateHttp(forwarded, client, server, version, endpoint, bounded)
      PROVE  TransportInv'
  <2> DEFINE request == [resolved |-> attempt.resolved, revalidated |-> answer,
                    address |-> attempt.address, peer |-> attempt.peer, forwarded |-> forwarded,
                    client |-> client, server |-> server, version |-> version,
                    endpoint |-> endpoint, bounded |-> bounded]
  <2>1. /\ answer' = answer /\ attempt' = Transport!None
        /\ \/ allowed' = allowed
           \/ /\ allowed' = Append(allowed, request)
              /\ Transport!DnsPinned(request) /\ Transport!Negotiated(request)
    BY <1>4 DEF Transport!ValidateHttp
  <2>2. request.client \subseteq ProtocolVersions /\ request.version \in ProtocolVersions
    OBVIOUS
  <2> HIDE DEF request
  <2>3. CASE allowed' = allowed
    BY <2>1, <2>3 DEF TransportInv
  <2>4. CASE /\ allowed' = Append(allowed, request)
             /\ Transport!DnsPinned(request) /\ Transport!Negotiated(request)
    <3>1. /\ Log(allowed') /\ DOMAIN allowed' = DOMAIN allowed \cup {Len(allowed) + 1}
          /\ \A i \in DOMAIN allowed : allowed'[i] = allowed[i]
          /\ allowed'[Len(allowed) + 1] = request
      BY <2>4, Appended DEF TransportInv
    <3>2. \A i \in DOMAIN allowed' :
              allowed'[i] = request \/ (i \in DOMAIN allowed /\ allowed'[i] = allowed[i])
      BY <3>1
    <3>3. \A i \in DOMAIN allowed' :
            /\ Transport!DnsPinned(allowed'[i]) /\ Transport!Negotiated(allowed'[i])
            /\ allowed'[i].client \subseteq ProtocolVersions /\ allowed'[i].version \in ProtocolVersions
      BY <2>2, <2>4, <3>2 DEF TransportInv
    <3> QED
      BY <2>1, <3>1, <3>3 DEF TransportInv, Transport!DnsPinned, Transport!Negotiated
  <2> QED
    BY <2>1, <2>3, <2>4
<1>5. CASE UNCHANGED transport
  BY <1>5 DEF TransportInv, transport, Transport!DnsPinned, Transport!Negotiated
<1> QED
  BY <1>1, <1>2, <1>3, <1>4, <1>5 DEF Transport!Next

\* No address was changed in between, and no version lowered.
LEMMA TransportSafe ==
    TransportInv => Transport!TypeOK /\ Transport!RebindingCaught /\ Transport!NotDowngraded
<1> SUFFICES ASSUME TransportInv
             PROVE  Transport!TypeOK /\ Transport!RebindingCaught /\ Transport!NotDowngraded
  OBVIOUS
<1>1. Transport!TypeOK
  BY DEF TransportInv, Transport!TypeOK, Transport!None
<1>2. Transport!RebindingCaught
  BY DEF TransportInv, Transport!RebindingCaught, Transport!DnsPinned
<1>3. Transport!NotDowngraded
  <2> SUFFICES ASSUME NEW i \in DOMAIN allowed
               PROVE  /\ allowed[i].version >= MinVersion
                      /\ ~\E v \in (allowed[i].client \cap allowed[i].server) \ {allowed[i].version} :
                            v \in AllowedVersions /\ v > allowed[i].version
    BY DEF Transport!NotDowngraded
  <2> DEFINE r == allowed[i]
  <2>2. Transport!Negotiated(r) /\ r.client \subseteq Nat /\ r.version \in Nat
    BY TransportAssumption DEF TransportInv
  <2>3. ASSUME NEW v \in (r.client \cap r.server) \ {r.version}, v \in AllowedVersions, v > r.version
        PROVE  FALSE
    <3>1. v <= r.version /\ v \in Nat
      BY <2>2, <2>3 DEF Transport!Negotiated
    <3> QED
      BY <2>2, <2>3, <3>1
  <2> QED
    BY <2>2, <2>3 DEF Transport!Negotiated
<1> QED
  BY <1>1, <1>2, <1>3

-----------------------------------------------------------------------------
(* Goals *)

\* The goal and its mutations are of their types; bounds are numbers.
ASSUME GoalAssumption ==
    /\ Goal \in Goals!GoalType /\ MaxSteps \in Nat /\ MaxMutations \in Nat
    /\ Mutations \subseteq [field : {"actions"}, value : SUBSET STRING]
                     \cup [field : {"delegates"}, value : SUBSET Delegates]

\* The goal is the first one with every change in turn, and its revision tells how many there were.
GoalsInv ==
    /\ goal \in Goals!GoalType
    /\ delegates \subseteq Delegates
    /\ Log(steps) /\ Len(steps) <= MaxSteps
    /\ Goals!StepsInOrder
    /\ Log(mutations)
    /\ Goals!MutationsKept
    /\ DOMAIN goal_calls = Callers
    /\ \A t \in Callers :
        LET call == goal_calls[t] IN
        \/ call.op = "idle"
        \/ call.op = "step" /\ call.step \in Goals!StepType
        \/ /\ call.op = "mutation" /\ call.mutation \in Mutations
           /\ call.goal.revision < Goal.revision + MaxMutations

\* The goal is as it was set.
LEMMA GoalsInit == Goals!Init => GoalsInv
<1> SUFFICES ASSUME Goals!Init PROVE GoalsInv
  OBVIOUS
<1>1. /\ goal = Goal /\ delegates = {} /\ steps = <<>> /\ mutations = <<>>
      /\ goal_calls = [t \in Callers |-> Goals!Idle]
  BY DEF Goals!Init
<1>2. \A field : Goals!LastOf(field) = {}
  BY <1>1, EmptyLog DEF Goals!LastOf
<1>3. Goals!MutationsKept
  BY <1>1, <1>2, GoalAssumption DEF Goals!MutationsKept, Goals!ValueOf, Goals!GoalType
<1> QED
  BY <1>1, <1>3, EmptyLog, GoalAssumption DEF GoalsInv, Goals!StepsInOrder, Goals!Idle

\* A change applied last decides its field, and leaves the other to what decided it before.
LEMMA LastChange ==
    ASSUME Log(mutations), NEW mutation, mutations' = Append(mutations, mutation), NEW field, NEW first
    PROVE  Goals!ValueOf(field, first)' =
             IF mutation.field = field THEN mutation.value ELSE Goals!ValueOf(field, first)
<1> DEFINE n == Len(mutations) + 1
<1>1. /\ DOMAIN mutations' = DOMAIN mutations \cup {n} /\ Len(mutations) \in Nat
      /\ \A i \in DOMAIN mutations : i \in Nat /\ i < n /\ mutations'[i] = mutations[i]
      /\ mutations'[n] = mutation
  BY Appended
<1> HIDE DEF n
<1>2. n \in Nat
  BY <1>1 DEF n
<1>3. CASE mutation.field = field
  <2>1. Goals!LastOf(field)' = {n}
    <3>1. n \in Goals!LastOf(field)'
      BY <1>1, <1>2, <1>3 DEF Goals!LastOf
    <3>2. ASSUME NEW i \in Goals!LastOf(field)' PROVE i = n
      BY <1>1, <1>2, <1>3, <3>2 DEF Goals!LastOf
    <3> QED
      BY <3>1, <3>2
  <2>2. (CHOOSE i \in Goals!LastOf(field)' : TRUE) = n
    BY <2>1
  <2> QED
    BY <1>1, <1>3, <2>1, <2>2 DEF Goals!ValueOf
<1>4. CASE mutation.field # field
  <2>1. Goals!LastOf(field)' = Goals!LastOf(field)
    <3>1. ASSUME NEW i \in Goals!LastOf(field)' PROVE i \in Goals!LastOf(field)
      BY <1>1, <1>2, <1>4, <3>1 DEF Goals!LastOf
    <3>2. ASSUME NEW i \in Goals!LastOf(field) PROVE i \in Goals!LastOf(field)'
      BY <1>1, <1>2, <1>4, <3>2 DEF Goals!LastOf
    <3> QED
      BY <3>1, <3>2
  <2>2. \A i \in Goals!LastOf(field) : mutations'[i] = mutations[i]
    BY <1>1 DEF Goals!LastOf
  <2>3. CASE Goals!LastOf(field) = {}
    BY <1>4, <2>1, <2>3 DEF Goals!ValueOf
  <2>4. CASE Goals!LastOf(field) # {}
    <3>1. (CHOOSE i \in Goals!LastOf(field) : TRUE) \in Goals!LastOf(field)
      BY <2>4
    <3>2. (CHOOSE i \in Goals!LastOf(field)' : TRUE) = (CHOOSE i \in Goals!LastOf(field) : TRUE)
      BY <2>1
    <3> QED
      BY <1>4, <2>1, <2>2, <2>4, <3>1, <3>2 DEF Goals!ValueOf
  <2> QED
    BY <2>3, <2>4
<1> QED
  BY <1>3, <1>4

\* A step is recorded as authorized by the goal it was checked against.
LEMMA GoalsStepAuthorized ==
    ASSUME GoalsInv, NEW t \in Callers, Goals!StepAuthorized(t)
    PROVE  GoalsInv'
<1> DEFINE step == goal_calls[t].step
<1>1. /\ goal' = goal /\ mutations' = mutations
      /\ goal_calls' = [goal_calls EXCEPT ![t] = Goals!Idle]
      /\ step \in Goals!StepType
  BY DEF Goals!StepAuthorized, Goals!Goto, GoalsInv
<1>2. \/ UNCHANGED <<steps, delegates>>
      \/ /\ steps' = Append(steps, step) /\ step.sequence = Len(steps) + 1 /\ Len(steps) < MaxSteps
         /\ delegates' = delegates \cup ({step.delegated_to} \ {Goals!NoDelegate})
  BY DEF Goals!StepAuthorized, Goals!InOrder
<1> HIDE DEF step
<1>3. delegates' \subseteq Delegates
  BY <1>1, <1>2 DEF GoalsInv, Goals!StepType
<1>4. Log(steps') /\ Len(steps') <= MaxSteps /\ Goals!StepsInOrder'
  <2>1. CASE UNCHANGED <<steps, delegates>>
    BY <2>1 DEF GoalsInv, Goals!StepsInOrder
  <2>2. CASE /\ steps' = Append(steps, step) /\ step.sequence = Len(steps) + 1 /\ Len(steps) < MaxSteps
    <3>1. /\ Log(steps') /\ Len(steps') = Len(steps) + 1 /\ Len(steps) \in Nat
          /\ DOMAIN steps' = DOMAIN steps \cup {Len(steps) + 1}
          /\ \A i \in DOMAIN steps : steps'[i] = steps[i]
          /\ steps'[Len(steps) + 1] = step
      BY <2>2, Appended DEF GoalsInv
    <3> QED
      BY <2>2, <3>1, GoalAssumption DEF GoalsInv, Goals!StepsInOrder
  <2> QED
    BY <1>2, <2>1, <2>2
<1>5. Goals!MutationsKept'
  BY <1>1 DEF GoalsInv, Goals!MutationsKept, Goals!ValueOf, Goals!LastOf
<1> QED
  BY <1>1, <1>3, <1>4, <1>5 DEF GoalsInv, Goals!Idle

\* A mutation is applied to the goal it was made for.
LEMMA GoalsMutationApplied ==
    ASSUME GoalsInv, NEW t \in Callers, Goals!MutationApplied(t)
    PROVE  GoalsInv'
<1> DEFINE mutation == goal_calls[t].mutation
<1>1. /\ steps' = steps
      /\ goal_calls' = [goal_calls EXCEPT ![t] = Goals!Idle]
      /\ mutation \in Mutations
      /\ goal_calls[t].goal.revision < Goal.revision + MaxMutations
  BY DEF Goals!MutationApplied, Goals!Goto, GoalsInv
<1>2. \/ UNCHANGED <<goal, delegates, mutations>>
      \/ /\ goal = goal_calls[t].goal /\ goal' = Goals!Updated(goal, mutation)
         /\ delegates' = delegates \cap goal'.delegates
         /\ mutations' = Append(mutations, mutation)
  BY DEF Goals!MutationApplied, Goals!Current
<1> HIDE DEF mutation
<1>3. Log(steps') /\ Len(steps') <= MaxSteps /\ Goals!StepsInOrder'
  BY <1>1 DEF GoalsInv, Goals!StepsInOrder
<1>4. CASE UNCHANGED <<goal, delegates, mutations>>
  <2>1. Goals!MutationsKept'
    BY <1>4 DEF GoalsInv, Goals!MutationsKept, Goals!ValueOf, Goals!LastOf
  <2> QED
    BY <1>1, <1>3, <1>4, <2>1 DEF GoalsInv, Goals!Idle
<1>5. CASE /\ goal = goal_calls[t].goal /\ goal' = Goals!Updated(goal, mutation)
           /\ delegates' = delegates \cap goal'.delegates
           /\ mutations' = Append(mutations, mutation)
  <2>1. /\ goal'.revision = goal.revision + 1
        /\ goal'.actions = IF mutation.field = "actions" THEN mutation.value ELSE goal.actions
        /\ goal'.delegates = IF mutation.field = "delegates" THEN mutation.value ELSE goal.delegates
    BY <1>5 DEF Goals!Updated
  <2>2. goal' \in Goals!GoalType
    BY <1>1, <1>5, GoalAssumption DEF GoalsInv, Goals!GoalType, Goals!Updated
  <2>3. Log(mutations') /\ Len(mutations') = Len(mutations) + 1 /\ Len(mutations) \in Nat
    BY <1>5, Appended DEF GoalsInv
  <2>4. Goals!MutationsKept'
    <3>0. Goals!MutationsKept
      BY DEF GoalsInv
    <3>1. goal'.actions = Goals!ValueOf("actions", Goal.actions)'
      <4>1. Goals!ValueOf("actions", Goal.actions)' =
              IF mutation.field = "actions" THEN mutation.value
              ELSE Goals!ValueOf("actions", Goal.actions)
        BY <1>5, LastChange DEF GoalsInv
      <4> QED
        BY <2>1, <3>0, <4>1 DEF Goals!MutationsKept
    <3>2. goal'.delegates = Goals!ValueOf("delegates", Goal.delegates)'
      <4>1. Goals!ValueOf("delegates", Goal.delegates)' =
              IF mutation.field = "delegates" THEN mutation.value
              ELSE Goals!ValueOf("delegates", Goal.delegates)
        BY <1>5, LastChange DEF GoalsInv
      <4> QED
        BY <2>1, <3>0, <4>1 DEF Goals!MutationsKept
    <3>3. Goal.revision \in Nat /\ MaxMutations \in Nat
      BY GoalAssumption DEF Goals!GoalType
    <3>4. goal'.revision = Goal.revision + Len(mutations') /\ Len(mutations') <= MaxMutations
      <4>1. goal.revision = Goal.revision + Len(mutations)
        BY <3>0 DEF Goals!MutationsKept
      <4>2. goal.revision < Goal.revision + MaxMutations
        BY <1>1, <1>5
      <4> QED
        BY <2>1, <2>3, <3>3, <4>1, <4>2
    <3> QED
      BY <3>1, <3>2, <3>4 DEF Goals!MutationsKept
  <2>5. delegates' \subseteq Delegates
    BY <1>5 DEF GoalsInv
  <2> QED
    BY <1>1, <1>3, <2>2, <2>3, <2>4, <2>5 DEF GoalsInv, Goals!Idle
<1> QED
  BY <1>2, <1>4, <1>5

\* Every step keeps the history of the goal.
LEMMA GoalsStep == GoalsInv /\ [Goals!Next]_goals => GoalsInv'
<1> SUFFICES ASSUME GoalsInv, [Goals!Next]_goals PROVE GoalsInv'
  OBVIOUS
<1>1. ASSUME UNCHANGED <<goal, delegates, steps, mutations>>
      PROVE  /\ Log(steps') /\ Len(steps') <= MaxSteps /\ Goals!StepsInOrder'
             /\ goal' \in Goals!GoalType /\ delegates' \subseteq Delegates
             /\ Log(mutations') /\ Goals!MutationsKept'
  BY <1>1 DEF GoalsInv, Goals!StepsInOrder, Goals!MutationsKept, Goals!ValueOf, Goals!LastOf
<1>2. ASSUME NEW t \in Callers, NEW step \in Goals!StepType, Goals!StepChecked(t, step)
      PROVE  GoalsInv'
  <2>1. /\ UNCHANGED <<goal, delegates, steps, mutations>>
        /\ goal_calls' = [goal_calls EXCEPT ![t] = [op |-> "step", step |-> step, goal |-> goal]]
    BY <1>2 DEF Goals!StepChecked, Goals!Goto
  <2> QED
    BY <1>1, <2>1 DEF GoalsInv
<1>3. ASSUME NEW t \in Callers, Goals!StepAuthorized(t) PROVE GoalsInv'
  BY <1>3, GoalsStepAuthorized
<1>4. ASSUME NEW t \in Callers, Goals!MutationApplied(t) PROVE GoalsInv'
  BY <1>4, GoalsMutationApplied
<1>5. ASSUME NEW t \in Callers, NEW mutation \in Mutations, Goals!MutationChecked(t, mutation)
      PROVE  GoalsInv'
  <2>1. /\ UNCHANGED <<goal, delegates, steps, mutations>> /\ Len(mutations) < MaxMutations
        /\ goal_calls' = [goal_calls EXCEPT ![t] =
                            [op |-> "mutation", mutation |-> mutation, goal |-> goal]]
    BY <1>5 DEF Goals!MutationChecked, Goals!Goto
  <2>2. goal.revision < Goal.revision + MaxMutations
    <3>1. goal.revision = Goal.revision + Len(mutations) /\ Len(mutations) \in Nat
      BY Appended DEF GoalsInv, Goals!MutationsKept
    <3>2. Goal.revision \in Nat /\ MaxMutations \in Nat
      BY GoalAssumption DEF Goals!GoalType
    <3> QED
      BY <2>1, <3>1, <3>2
  <2> QED
    BY <1>1, <2>1, <2>2 DEF GoalsInv
<1>6. CASE UNCHANGED goals
  <2>1. UNCHANGED <<goal, delegates, steps, mutations, goal_calls>>
    BY <1>6 DEF goals
  <2> QED
    BY <1>1, <2>1 DEF GoalsInv
<1> QED
  BY <1>2, <1>3, <1>4, <1>5, <1>6 DEF Goals!Next

\* Steps come in order and mutations are kept.
LEMMA GoalsSafe == GoalsInv => Goals!TypeOK /\ Goals!StepsInOrder /\ Goals!MutationsKept
BY DEF GoalsInv, Goals!TypeOK

-----------------------------------------------------------------------------
(* Rogue agents *)

\* Limits are numbers, and grants name revisions.
ASSUME RogueAssumption ==
    /\ MaxActions \in Nat /\ MaxProbes \in Nat /\ Grace \in Nat /\ MaxSequence \in Nat
    /\ \A grant \in RecoveryGrants : grant.replacement \in Nat

\* Until it is contained an agent has not passed its ceiling, and what it did since it was asked
\* to stop is counted by the sequence.
RogueInv ==
    /\ Rogue!TypeOK
    /\ actions <= next_sequence /\ probes <= next_sequence
    /\ status = "active" => stop_deadline = -1
    /\ status \in {"active", "stopping"} => actions <= MaxActions
    /\ agent_allowed \in Nat /\ agent_allowed <= actions /\ agent_allowed <= MaxActions
    /\ allowed_stopping \in Nat /\ allowed_stopping <= Grace
    /\ stop_deadline = -1 => allowed_stopping = 0
    /\ stop_deadline >= 0 => allowed_stopping + stop_deadline <= next_sequence + Grace
    /\ status = "stopping" => stop_deadline >= 0
    /\ Log(resumed)
    /\ Rogue!ResumedInChain

\* The agent runs and has done nothing.
LEMMA RogueInit == Rogue!Init => RogueInv
BY RogueAssumption, EmptyLog
DEF Rogue!Init, RogueInv, Rogue!TypeOK, Rogue!Statuses, Rogue!ResumedInChain

\* An action is counted and judged.
LEMMA RogueJudged ==
    ASSUME RogueInv, NEW event \in Rogue!Events, Rogue!Judged(event),
           UNCHANGED <<revision, stop_deadline, grants_used, resumed>>
    PROVE  RogueInv'
<1>1. /\ status \in {"active", "stopping"} /\ next_sequence < MaxSequence
      /\ next_sequence' = next_sequence + 1
      /\ probes' \in {probes, probes + 1}
      /\ actions' = Rogue!Actions(event) /\ actions' \in {actions, actions + 1}
      /\ status' = IF Rogue!MustContain(event) THEN "quarantined"
                   ELSE IF Rogue!Acknowledges(event) THEN "suspended" ELSE status
      /\ UNCHANGED <<revision, stop_deadline, grants_used, resumed>>
  BY DEF Rogue!Judged, Rogue!Probes, Rogue!Actions, RogueInv, Rogue!TypeOK
<1>2. /\ status \in Rogue!Statuses /\ revision \in Nat /\ next_sequence \in 0 .. MaxSequence
      /\ actions \in Nat /\ probes \in Nat /\ actions <= next_sequence /\ probes <= next_sequence
      /\ stop_deadline \in -1 .. MaxSequence + Grace
      /\ grants_used \subseteq {grant.id : grant \in RecoveryGrants}
      /\ agent_allowed \in Nat /\ agent_allowed <= actions /\ agent_allowed <= MaxActions
      /\ allowed_stopping \in Nat /\ allowed_stopping <= Grace /\ actions <= MaxActions
      /\ MaxActions \in Nat /\ Grace \in Nat /\ MaxSequence \in Nat
  BY <1>1, RogueAssumption DEF RogueInv, Rogue!TypeOK
<1>3. Rogue!TypeOK' /\ actions' <= next_sequence' /\ probes' <= next_sequence'
  BY <1>1, <1>2 DEF Rogue!TypeOK, Rogue!Statuses
<1>4. status' \in {"active", "stopping"} => status' = status /\ ~Rogue!MustContain(event)
  BY <1>1
<1>5. ~Rogue!MustContain(event) => actions' <= MaxActions
  BY <1>1, <1>2 DEF Rogue!MustContain, Rogue!Critical, Rogue!Actions
<1>6. ASSUME ~Rogue!MustContain(event), event.kind = "action" PROVE actions' = actions + 1
  BY <1>1, <1>6 DEF Rogue!MustContain, Rogue!Critical, Rogue!Actions, Rogue!Counted
<1>7. /\ agent_allowed' \in Nat /\ agent_allowed' <= actions' /\ agent_allowed' <= MaxActions
  <2>1. CASE agent_allowed' = agent_allowed
    BY <1>1, <1>2, <2>1
  <2>2. CASE agent_allowed' # agent_allowed
    <3>1. agent_allowed' = agent_allowed + 1 /\ ~Rogue!MustContain(event) /\ event.kind = "action"
      BY <1>2, <2>2 DEF Rogue!Judged
    <3> QED
      BY <1>2, <1>5, <1>6, <3>1
  <2> QED
    BY <2>1, <2>2
<1>8. /\ allowed_stopping' \in Nat /\ allowed_stopping' <= Grace
      /\ stop_deadline' = -1 => allowed_stopping' = 0
      /\ stop_deadline' >= 0 => allowed_stopping' + stop_deadline' <= next_sequence' + Grace
  <2>0. /\ stop_deadline = -1 => allowed_stopping = 0
        /\ stop_deadline >= 0 => allowed_stopping + stop_deadline <= next_sequence + Grace
        /\ status = "stopping" => stop_deadline >= 0
    BY DEF RogueInv
  <2>1. CASE allowed_stopping' = allowed_stopping
    BY <1>1, <1>2, <2>0, <2>1
  <2>2. CASE allowed_stopping' # allowed_stopping
    <3>1. /\ allowed_stopping' = allowed_stopping + 1 /\ ~Rogue!MustContain(event)
          /\ status = "stopping" /\ ~Rogue!Acknowledges(event)
      BY <1>2, <2>2 DEF Rogue!Judged
    <3>2. ~Rogue!Overdue(event)
      BY <3>1 DEF Rogue!MustContain, Rogue!Critical, Rogue!Acknowledges
    <3>3. stop_deadline >= 0 /\ next_sequence < stop_deadline
      BY <1>2, <2>0, <3>1, <3>2 DEF Rogue!Overdue
    <3> QED
      BY <1>1, <1>2, <2>0, <3>1, <3>3
  <2> QED
    BY <2>1, <2>2
<1>9. Log(resumed') /\ Rogue!ResumedInChain'
  BY <1>1 DEF RogueInv, Rogue!ResumedInChain
<1> QED
  BY <1>1, <1>3, <1>4, <1>5, <1>7, <1>8, <1>9 DEF RogueInv

\* A recovery grant is used up by the revision it leads to.
LEMMA RogueRecover ==
    ASSUME RogueInv, NEW grant \in RecoveryGrants, Rogue!Recover(grant)
    PROVE  RogueInv'
<1>1. /\ grants_used' = grants_used \cup {grant.id} /\ revision' = grant.replacement
      /\ status' = "active" /\ next_sequence' = 0 /\ actions' = 0 /\ probes' = 0
      /\ stop_deadline' = -1 /\ agent_allowed' = 0 /\ allowed_stopping' = 0
      /\ resumed' = Append(resumed, grant) /\ grant.quarantined = revision
  BY DEF Rogue!Recover, Rogue!Recoverable
<1>2. Rogue!TypeOK'
  BY <1>1, RogueAssumption DEF RogueInv, Rogue!TypeOK, Rogue!Statuses
<1>3. /\ Log(resumed') /\ Len(resumed') = Len(resumed) + 1 /\ Len(resumed) \in Nat
      /\ \A i \in 1 .. Len(resumed) : resumed'[i] = resumed[i]
      /\ resumed'[Len(resumed) + 1] = grant
  BY <1>1, Appended DEF RogueInv
<1>4. Rogue!ResumedInChain'
  <2>1. Rogue!ResumedInChain
    BY DEF RogueInv
  <2>2. ASSUME NEW i \in 1 .. Len(resumed') - 1
        PROVE  resumed'[i + 1].quarantined = resumed'[i].replacement
    <3>1. CASE i = Len(resumed)
      BY <1>1, <1>3, <2>1, <2>2, <3>1 DEF Rogue!ResumedInChain
    <3>2. CASE i # Len(resumed)
      BY <1>3, <2>1, <2>2, <3>2 DEF Rogue!ResumedInChain
    <3> QED
      BY <3>1, <3>2
  <2> QED
    BY <1>1, <1>3, <2>2 DEF Rogue!ResumedInChain
<1> QED
  BY <1>1, <1>2, <1>3, <1>4, RogueAssumption DEF RogueInv

\* Every step keeps the agent within its ceiling.
LEMMA RogueStep == RogueInv /\ [Rogue!Next]_rogue => RogueInv'
<1> SUFFICES ASSUME RogueInv, [Rogue!Next]_rogue PROVE RogueInv'
  OBVIOUS
<1>1. ASSUME NEW event \in Rogue!Events, Rogue!Evaluate(event) PROVE RogueInv'
  <2>1. CASE Rogue!Judged(event)
    BY <1>1, <2>1, RogueJudged DEF Rogue!Evaluate
  <2>2. CASE Rogue!Refused(event)
    <3>1. /\ status' \in {status, "quarantined"}
          /\ UNCHANGED <<revision, next_sequence, actions, probes, stop_deadline, grants_used,
                         agent_allowed, allowed_stopping, resumed>>
      BY <1>1, <2>2 DEF Rogue!Evaluate, Rogue!Refused
    <3> QED
      BY <3>1 DEF RogueInv, Rogue!TypeOK, Rogue!Statuses, Rogue!ResumedInChain
  <2> QED
    BY <1>1, <2>1, <2>2 DEF Rogue!Evaluate
<1>2. CASE Rogue!RequestShutdown
  <2>1. /\ status = "active" /\ status' = "stopping" /\ stop_deadline' = next_sequence + Grace
        /\ UNCHANGED <<revision, next_sequence, actions, probes, grants_used, agent_allowed,
                       allowed_stopping, resumed>>
    BY <1>2 DEF Rogue!RequestShutdown
  <2>2. Rogue!TypeOK'
    BY <2>1, RogueAssumption DEF RogueInv, Rogue!TypeOK, Rogue!Statuses
  <2> QED
    BY <2>1, <2>2, RogueAssumption DEF RogueInv, Rogue!TypeOK, Rogue!ResumedInChain
<1>3. ASSUME NEW grant \in RecoveryGrants, Rogue!Recover(grant) PROVE RogueInv'
  BY <1>3, RogueRecover
<1>4. CASE UNCHANGED rogue
  BY <1>4 DEF RogueInv, rogue, Rogue!TypeOK, Rogue!ResumedInChain
<1> QED
  BY <1>1, <1>2, <1>3, <1>4 DEF Rogue!Next

\* A stop is bounded, the ceiling holds, and recovery goes along the chain of revisions.
LEMMA RogueSafe ==
    RogueInv => Rogue!TypeOK /\ Rogue!StopBounded /\ Rogue!CeilingHolds /\ Rogue!ResumedInChain
BY DEF RogueInv, Rogue!StopBounded, Rogue!CeilingHolds

-----------------------------------------------------------------------------
(* All components together *)

\* Every component keeps its invariant, whichever takes the steps.
BoundariesInv ==
    /\ AccessInv /\ ManifestInv /\ OnboardingInv /\ IsolationInv /\ ToolsInv /\ PrimitivesInv
    /\ ExecutionInv /\ WorkloadInv /\ TenantsInv /\ AdmissionInv /\ TransportInv
    /\ GoalsInv /\ RogueInv

\* Every component starts with its invariant.
LEMMA BoundariesStarts == BoundariesInit => BoundariesInv
BY AccessInit, ManifestInit, OnboardingInit, IsolationInit, ToolsInit, PrimitivesInit, ExecutionInit,
   WorkloadInit, TenantsInit, ConnectorInit, TransportInit, GoalsInit, RogueInit
DEF BoundariesInit, BoundariesInv

\* A step is one of a component, or leaves it as it is.
LEMMA BoundariesMoves ==
    ASSUME [BoundariesNext]_<<component, of_servers, of_runtimes, of_agents>>
    PROVE  /\ [Manifest!Next]_manifest /\ [Onboarding!Next]_onboarding /\ [Isolation!Next]_isolation
           /\ [ToolGuard!Next]_tools /\ [PrimitiveGuard!Next]_primitives
           /\ [Execution!Next]_execution /\ [Workload!Next]_workload /\ [Tenants!Next]_tenants
           /\ [Admission!Next]_admission /\ [Transport!Next]_transport
           /\ [Goals!Next]_goals /\ [Rogue!Next]_rogue /\ [Next]_vars
<1> DEFINE servers == /\ [Manifest!Next]_manifest /\ [Onboarding!Next]_onboarding
                      /\ [Isolation!Next]_isolation
                      /\ [ToolGuard!Next]_tools /\ [PrimitiveGuard!Next]_primitives
           runtimes == /\ [Execution!Next]_execution /\ [Workload!Next]_workload /\ [Tenants!Next]_tenants
                       /\ [Admission!Next]_admission /\ [Transport!Next]_transport
           agents == [Goals!Next]_goals /\ [Rogue!Next]_rogue /\ [Next]_vars
<1>1. UNCHANGED of_servers => servers
  BY DEF of_servers
<1>2. UNCHANGED of_runtimes => runtimes
  BY DEF of_runtimes
<1>3. UNCHANGED of_agents => agents
  BY DEF of_agents
<1>4. ServersNext => servers
  BY DEF ServersNext
<1>5. RuntimesNext => runtimes
  BY DEF RuntimesNext
<1>6. AgentsNext => agents
  BY DEF AgentsNext
<1>7. \/ ServersNext /\ UNCHANGED of_runtimes /\ UNCHANGED of_agents
      \/ RuntimesNext /\ UNCHANGED of_servers /\ UNCHANGED of_agents
      \/ AgentsNext /\ UNCHANGED of_servers /\ UNCHANGED of_runtimes
      \/ UNCHANGED of_servers /\ UNCHANGED of_runtimes /\ UNCHANGED of_agents
  BY DEF BoundariesNext
<1>8. servers /\ runtimes /\ agents
  <2> HIDE DEF servers, runtimes, agents
  <2> QED
    BY <1>1, <1>2, <1>3, <1>4, <1>5, <1>6, <1>7
<1> QED
  BY <1>8

\* BoundariesInv is an inductive invariant of the components together.
THEOREM BoundariesInductive == BoundariesSpec => []BoundariesInv
<1>1. BoundariesInv /\ [BoundariesNext]_<<component, of_servers, of_runtimes, of_agents>> => BoundariesInv'
  BY BoundariesMoves, AccessStep, ManifestStep, OnboardingStep, IsolationStep, ToolsStep, PrimitivesStep,
     ExecutionStep, WorkloadStep, TenantsStep, ConnectorStep, TransportStep, GoalsStep, RogueStep
  DEF BoundariesInv
<1> QED
  BY <1>1, BoundariesStarts, PTL DEF BoundariesSpec

\* Every component keeps its state well formed and within its bounds, for any bounds.
THEOREM BoundariesTypes == BoundariesSpec => []TypesOK
<1>1. BoundariesInv => TypesOK
  BY AccessSafe, ManifestSafe, OnboardingSafe, IsolationSafe, ToolsSafe, PrimitivesSafe, ExecutionSafe,
     WorkloadSafe, TenantsSafe, AdmissionSafe, TransportSafe, GoalsSafe, RogueSafe
  DEF BoundariesInv, TypesOK
<1> QED
  BY <1>1, BoundariesInductive, PTL

\* What stands for one use serves once: the execution of a tool, consent, the approval of a flow,
\* attestations and leases, whatever the threads that present them.
THEOREM BoundariesUsedOnce == BoundariesSpec => []UsedOnce
<1>1. BoundariesInv => UsedOnce
  BY ManifestSafe, OnboardingSafe, IsolationSafe, ExecutionSafe, WorkloadSafe DEF BoundariesInv, UsedOnce
<1> QED
  BY <1>1, BoundariesInductive, PTL

\* What acts is what was reviewed, for any records, lifetimes and changes in between.
THEOREM BoundariesReviewed == BoundariesSpec => []AsReviewed
<1>1. BoundariesInv => AsReviewed
  BY ManifestSafe, OnboardingSafe, ToolsSafe, PrimitivesSafe, ExecutionSafe, AdmissionSafe, TransportSafe
  DEF BoundariesInv, AsReviewed
<1> QED
  BY <1>1, BoundariesInductive, PTL

\* What belongs to one server, tenant or workload stays there, for any edges, owners and keys.
THEOREM BoundariesApart == BoundariesSpec => []KeptApart
<1>1. BoundariesInv => KeptApart
  BY IsolationSafe, TenantsSafe, WorkloadSafe DEF BoundariesInv, KeptApart
<1> QED
  BY <1>1, BoundariesInductive, PTL

\* An agent stays within its goal and within what a stop leaves it, for any delegates and grants.
THEOREM BoundariesHeld == BoundariesSpec => []AgentHeld
<1>1. BoundariesInv => AgentHeld
  BY GoalsSafe, RogueSafe DEF BoundariesInv, AgentHeld
<1> QED
  BY <1>1, BoundariesInductive, PTL

-----------------------------------------------------------------------------
(* Small values for every component, for TLC, chosen so that what was approved changes, expires *)
(* or is presented twice while calls overlap.                                                    *)

\* Two requests of two sessions; the second was made after the identity changed.
Asked == [session |-> "s1", identity |-> 0, risk |-> 0, permitted |-> TRUE, evidenced |-> TRUE]
TwoSessions == [q1 |-> Asked, q2 |-> [Asked EXCEPT !.session = "s2", !.identity = 1]]

\* A manifest that expires while approvals of it are out, and evidence for less and more.
OneManifest == {[name |-> "m", capabilities |-> {"read", "write"}, issued_at |-> 0, expires_at |-> 3]}
LessAndMore ==
    {[manifest |-> "m", capabilities |-> {"read"}, issued_at |-> 1, expires_at |-> 2],
     [manifest |-> "m", capabilities |-> {"read", "write"}, issued_at |-> 2, expires_at |-> 4]}

\* A server whose second version runs locally and asks for more, whose third comes from
\* somebody else and whose fourth asks for what nobody gets.
FourVersions ==
    [m \in {"v1", "v2", "v3", "v4"} |->
        [capabilities |-> IF m = "v1" THEN {"read"}
                          ELSE IF m = "v4" THEN {"admin"} ELSE {"read", "write"},
         known |-> m # "v3", launchable |-> TRUE, local |-> m = "v2"]]
LocalTwice ==
    {[manifest |-> "v2", issued_at |-> 0, expires_at |-> 1],
     [manifest |-> "v2", issued_at |-> 1, expires_at |-> 2]}

\* Results of a customer database and of the mail server become input of a mail.
Result(id, source, labels) == [id |-> id, source |-> source, labels |-> labels]
r1 == Result("r1", "crm", {"public", "pii"})
r2 == Result("r2", "crm", {"internal"})
r3 == Result("r3", "mail", {"internal"})

ThreeResults == {r1, r2, r3}
TwoMails ==
    {[id |-> "q1", destination |-> "mail", inputs |-> {r1, r3}],
     [id |-> "q2", destination |-> "mail", inputs |-> {r1, r2}]}
CrmToMail ==
    {[source |-> "crm", destination |-> "mail", allowed |-> {"public"},
      redact |-> {"pii"}, approval |-> {"internal"}]}
NarrowAndWide ==
    {[id |-> "a1", request |-> "q2", labels |-> {"internal"}],
     [id |-> "a2", request |-> "q2", labels |-> {"internal", "pii"}]}

\* A search tool in two versions, one of which steers the mail tool, and look-alikes.
Tool(server, name, skeleton, version, mentions, clean) ==
    [server |-> server, name |-> name, skeleton |-> skeleton, version |-> version,
     mentions |-> mentions, clean |-> clean]
LookAlikes ==
    {Tool("s1", "search", "search", 1, {}, TRUE),
     Tool("s1", "search", "search", 2, {"mail"}, TRUE),
     Tool("s1", "search", "search", 3, {}, FALSE),
     Tool("s2", "mail", "mail", 1, {}, TRUE),
     Tool("s2", "se_arch", "search", 1, {}, TRUE),
     Tool("s2", "search", "search", 1, {}, TRUE)}

\* Two resources, a subscription to each, and a prompt in two versions with a completion.
Primitive(server, kind, name, version, target, mentions) ==
    [server |-> server, kind |-> kind, name |-> name, skeleton |-> name, mentions |-> mentions,
     version |-> version, target |-> target, argument |-> "city",
     arguments |-> IF version = 1 THEN {"city"} ELSE {}, clean |-> TRUE]
Content(name, subscription) ==
    [server |-> "s1", name |-> name, subscription |-> subscription, clean |-> TRUE]

Subscriptions ==
    {Primitive("s1", "resource", "doc", 1, "none", {}),
     Primitive("s1", "resource", "log", 1, "none", {}),
     Primitive("s1", "subscription", "docs", 1, "doc", {}),
     Primitive("s1", "subscription", "logs", 1, "log", {}),
     Primitive("s1", "prompt", "trip", 1, "none", {}),
     Primitive("s1", "prompt", "trip", 2, "none", {}),
     Primitive("s1", "completion", "cities", 1, "trip", {}),
     Primitive("s2", "resource", "plan", 1, "none", {"s1"})}
Updates == {Content("doc", "none"), Content("doc", "docs"), Content("doc", "logs"),
            Content("trip", "none")}

\* Two attestations of a sandbox, so that a report of one lease meets the other.
OneProgram == {[id |-> "r1", runtime |-> TRUE, boundary |-> TRUE, source |-> TRUE]}
TwoSandboxes == {[id |-> "a1", request |-> "r1", issued_at |-> 0, expires_at |-> 1],
                 [id |-> "a2", request |-> "r1", issued_at |-> 1, expires_at |-> 2]}
ExitedOrNot == {[exited |-> TRUE, declared |-> TRUE], [exited |-> FALSE, declared |-> TRUE]}

\* One workload that can execute code, and evidence of a good and of a bad teardown.
OneApproval == {[manifest |-> "m1", expires_at |-> 2]}
TwoRuntimes == {[id |-> "a1", manifest |-> "m1", issued_at |-> 0, expires_at |-> 2],
                [id |-> "a2", manifest |-> "m1", issued_at |-> 1, expires_at |-> 3]}
GoodAndBad == {[id |-> "e1", lease |-> 1, complete |-> TRUE],
               [id |-> "e2", lease |-> 1, complete |-> FALSE]}

\* Two tenants, a cache and a dedicated index; the digests of their cached x collide.
Tenant(tenant, kinds, issued_at, expires_at) ==
    [tenant |-> tenant, kinds |-> kinds, issued_at |-> issued_at, expires_at |-> expires_at]
Owned(tenant, kind, artifact) == [tenant |-> tenant, kind |-> kind, artifact |-> artifact]
AllOwned == {Owned("A", "cache", "x"), Owned("B", "cache", "x"), Owned("A", "index", "y")}
Colliding == [o \in AllOwned |-> o.artifact]
TwoTenants == {Tenant("A", {"cache", "index"}, 0, 2), Tenant("B", {"cache", "index"}, 0, 3)}
OneDeployment == {Tenant("A", {"index"}, 0, 2)}

\* Two attestations of one manifest, for either configuration; what was attested ends before it.
OneOrTwoSources == {[sources |-> {"s1"}, parser |-> "p1"], [sources |-> {"s1", "s2"}, parser |-> "p2"]}

\* A delegate who comes, goes and comes again.
OneDelegate == [revision |-> 1, actions |-> {"read", "write"}, delegates |-> {"d1"}]
ComesAndGoes == {[field |-> "actions", value |-> {"read"}],
                 [field |-> "delegates", value |-> {}],
                 [field |-> "delegates", value |-> {"d1"}]}

\* Two grants for the first revision, and one for a revision they may lead to.
Grant(id, quarantined, replacement) ==
    [id |-> id, quarantined |-> quarantined, replacement |-> replacement]
TwoChains == {Grant("g1", 1, 2), Grant("g2", 1, 3), Grant("g3", 2, 3)}

\* The connector starts with its first parser, and a name resolves to a private address only
\* where connections are made.
MCInit ==
    /\ BoundariesInit
    /\ configuration.parser = "p1"
    /\ component # "transport" => answer = {"private"}

MCSpec == MCInit /\ [][BoundariesNext]_<<component, of_servers, of_runtimes, of_agents>>
=============================================================================
