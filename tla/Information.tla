---------------------------- MODULE Information -----------------------------
(***************************************************************************)
(* The components of trustrail that check content, and those that follow   *)
(* data to what derives from it, for any values of their constants.  They  *)
(* do not call one another: component says which one takes the steps of a  *)
(* behaviour, the others rest.  The MemoryTaint this module extends is one *)
(* of them.                                                                *)
(*                                                                         *)
(* What befalls data and what binds it reaches what derives from it, what  *)
(* leaves is what was checked, and what is counted is counted completely.  *)
(***************************************************************************)
EXTENDS Integers, FiniteSets, Sequences, MemoryTaint, FiniteSetTheorems, WellFoundedInduction, TLAPS

CONSTANTS
    \* DataLifecycle
    Executors, DataArtifacts, Sources, Restrictions, DataUses, Locations, Limited, Held, MaxRecordVersion,
    \* IngestionConnector
    Syncs, Authorizations, SyncOf, Documents, Derived, Upstream, MaxDocuments, MaxLineage, ResultLimit,
    \* DataObligations
    Datasets, DatasetSources, CreatedAt, Residency, DatasetLabels, Purposes, Residencies,
    TrainingClasses, MaxRetention, MaxDatasets, MaxSources, MaxDepth, LegalHolds, Subjects, Times,
    \* DataLabels
    LabelDimensions, LabelValues, Handling, LabelOrigins, LabelProposals, Destinations, Tenants,
    Contents, MaxClass, MaxLabels, LabelEnd,
    \* SensitiveFlow
    FlowDimensions, FlowValues, Owners, FlowContents, FlowOrigins, Widenings, MaxSensitivity,
    MaxLineageDepth, MaxFlows, MaxGrants, FlowEnd,
    \* GuardPipeline
    Submissions, GuardRules, Transformers, Detectors, MaxConcurrency, RedactMode, GuardFailClosed,
    HasApproval, GuardBlockAt, GuardWarnAt,
    \* StreamScanner
    Symbols, Invisible, Mask, StreamRules, ChunkOverlap, BufferSize, StreamFailClosed,
    StreamBlockAt, StreamWarnAt, MaxChunk, MaxTotal,
    \* SessionLimits, of a session that tasks share and of one with a single task
    Shared, Single,
    \* StructuredOutput
    Responses, ResponseValues, AllUses, AllowedUses, Contexts, Validators, MaxAttempts, MaxObjects,
    MaxSubmissions,
    \* JailbreakCampaign
    Clients, Scopes, Events, Campaign, Ttl, MaxSessions, MaxTurns, MaxRetries, CampaignEnd, MaxResets

VARIABLES component,
    records, copies, executions,
    active, issued, parents, synced, quarantined, brought, rejected,
    labelled,
    labels, permit, time,
    flows, grants, transfer, flow_now,
    submitted, phase, step, state, running, failed, answer,
    buffer, risk, terminal, received, emitted,
    now, step_count, tool_call_count, recursion_depth, session_total, request_log, calls, checks,
    current, objects, bindings, uses, session, released,
    session_now, states, session_calls, trajectory, lives, revived

lifecycle == <<records, copies, executions>>
ingestion == <<active, issued, parents, synced, quarantined, brought, rejected>>
label == <<labels, permit, time>>
flow == <<flows, grants, transfer, flow_now>>
deriving == <<vars, lifecycle, ingestion, labelled, label, flow>>

guard == <<submitted, phase, step, state, running, failed, answer>>
stream == <<buffer, risk, terminal, received, emitted>>
agent == <<now, step_count, tool_call_count, recursion_depth, session_total, request_log, calls, checks>>
structured == <<current, objects, bindings, uses, session, released>>
campaign == <<session_now, states, session_calls, trajectory, lives, revived>>
releasing == <<guard, stream, agent, structured, campaign>>

-----------------------------------------------------------------------------
(* Data and what derives from it *)

Lifecycle == INSTANCE DataLifecycle WITH
    Threads <- Executors, Artifacts <- DataArtifacts, Uses <- DataUses,
    MaxVersion <- MaxRecordVersion

Ingestion == INSTANCE IngestionConnector WITH
    lineage <- parents, MaxArtifacts <- MaxLineage

Obligations == INSTANCE DataObligations WITH
    records <- labelled, Artifacts <- Datasets, Sources <- DatasetSources, Labels <- DatasetLabels,
    Holds <- LegalHolds, MaxArtifacts <- MaxDatasets

Labelled == INSTANCE DataLabels WITH
    now <- time, Dimensions <- LabelDimensions, Values <- LabelValues, Origins <- LabelOrigins,
    Proposals <- LabelProposals, MaxNow <- LabelEnd

Flow == INSTANCE SensitiveFlow WITH
    labels <- flows, permit <- transfer, now <- flow_now, Dimensions <- FlowDimensions,
    Values <- FlowValues, Contents <- FlowContents, Origins <- FlowOrigins,
    MaxClass <- MaxSensitivity, MaxDepth <- MaxLineageDepth, MaxLabels <- MaxFlows,
    MaxNow <- FlowEnd

(* Content that is checked, counted or released *)

Guard == INSTANCE GuardPipeline WITH
    Contents <- Submissions, Rules <- GuardRules, FailClosed <- GuardFailClosed,
    BlockAt <- GuardBlockAt, WarnAt <- GuardWarnAt

Stream == INSTANCE StreamScanner WITH
    Rules <- StreamRules, FailClosed <- StreamFailClosed,
    BlockAt <- StreamBlockAt, WarnAt <- StreamWarnAt

Limits(bounds) == INSTANCE SessionLimits WITH
    Tasks <- bounds.tasks, MaxSteps <- bounds.steps, MaxToolCalls <- bounds.tools,
    MaxDepth <- bounds.depth, MaxDuration <- bounds.duration, TokenBudget <- bounds.tokens,
    Sizes <- bounds.sizes, MaxRequests <- bounds.requests, Window <- bounds.window,
    MaxChecks <- bounds.checks, MaxNow <- bounds.ends

Structured == INSTANCE StructuredOutput WITH
    calls <- uses, Values <- ResponseValues, Threads <- Validators

Jailbreak == INSTANCE JailbreakCampaign WITH
    now <- session_now, calls <- session_calls, Threads <- Clients, MaxNow <- CampaignEnd

-----------------------------------------------------------------------------
InformationInit ==
    /\ component \in {"memory", "lifecycle", "ingestion", "obligations", "labels", "flow",
                      "guard", "stream", "agent", "alone", "structured", "campaign"}
    /\ Init /\ Lifecycle!Init /\ Ingestion!Init /\ Obligations!Init /\ Labelled!Init /\ Flow!Init
    /\ Guard!Init /\ Stream!Init /\ Structured!Init /\ Jailbreak!Init
    /\ component = "alone" => Limits(Single)!Init
    /\ component # "alone" => Limits(Shared)!Init
    /\ component # "guard" => submitted = CHOOSE submission \in Submissions : TRUE

DerivingNext ==
    \/ component = "memory" /\ Next /\ UNCHANGED <<lifecycle, ingestion, labelled, label, flow>>
    \/ component = "lifecycle" /\ Lifecycle!Next /\ UNCHANGED <<vars, ingestion, labelled, label, flow>>
    \/ component = "ingestion" /\ Ingestion!Next /\ UNCHANGED <<vars, lifecycle, labelled, label, flow>>
    \/ component = "obligations" /\ Obligations!Next /\ UNCHANGED <<vars, lifecycle, ingestion, label, flow>>
    \/ component = "labels" /\ Labelled!Next /\ UNCHANGED <<vars, lifecycle, ingestion, labelled, flow>>
    \/ component = "flow" /\ Flow!Next /\ UNCHANGED <<vars, lifecycle, ingestion, labelled, label>>

ReleasingNext ==
    \/ component = "guard" /\ Guard!Next /\ UNCHANGED <<stream, agent, structured, campaign>>
    \/ component = "stream" /\ Stream!Next /\ UNCHANGED <<guard, agent, structured, campaign>>
    \/ component = "agent" /\ Limits(Shared)!Next /\ UNCHANGED <<guard, stream, structured, campaign>>
    \/ component = "alone" /\ Limits(Single)!Next /\ UNCHANGED <<guard, stream, structured, campaign>>
    \/ component = "structured" /\ Structured!Next /\ UNCHANGED <<guard, stream, agent, campaign>>
    \/ component = "campaign" /\ Jailbreak!Next /\ UNCHANGED <<guard, stream, agent, structured>>

InformationNext ==
    /\ UNCHANGED component
    /\ \/ DerivingNext /\ UNCHANGED releasing
       \/ ReleasingNext /\ UNCHANGED deriving

(* What GuardPipeline assumes to be fair, while it takes the steps. *)
GuardFairness ==
    /\ WF_guard(component = "guard" /\ Guard!RulesDone)
    /\ WF_guard(component = "guard" /\ Guard!TransformsDone)
    /\ WF_guard(component = "guard" /\ Guard!Gather)
    /\ WF_guard(component = "guard" /\ Guard!Deadline)
    /\ WF_guard(component = "guard" /\ Guard!Audited)
    /\ WF_guard(component = "guard" /\ \E approved \in BOOLEAN : Guard!Approval(approved))

InformationSpec ==
    InformationInit /\ [][InformationNext]_<<component, deriving, releasing>> /\ GuardFairness

-----------------------------------------------------------------------------
(* The properties of the instances, each checked while its instance takes steps. *)

\* Every component keeps its state well formed and within its bounds.
TypesOK ==
    /\ component = "memory" => TypeOK
    /\ component = "lifecycle" => Lifecycle!TypeOK
    /\ component = "ingestion" => Ingestion!TypeOK
    /\ component = "obligations" => Obligations!TypeOK
    /\ component = "agent" => Limits(Shared)!TypeOK
    /\ component = "alone" => Limits(Single)!TypeOK
    /\ component = "structured" => Structured!TypeOK
    /\ component = "labels" => Labelled!TypeOK
    /\ component = "flow" => Flow!TypeOK
    /\ component = "guard" => Guard!TypeOK
    /\ component = "campaign" => Jailbreak!TypeOK

\* What befalls data reaches what derives from it: the quarantine of a memory, the deletion of
\* an artifact, the rejection of a synchronization.
ReachesDerived ==
    /\ component = "memory" => LineageSafe
    /\ component = "lifecycle" => Lifecycle!VerifiedIsGone /\ Lifecycle!CascadeUnavailable
    /\ component = "ingestion" => Ingestion!RejectedSyncUnusable /\ Ingestion!QuarantineClosed

\* And what binds it: restrictions, purposes, subjects and deadlines of every origin survive
\* every derivation and merge.
RestrictionsKept ==
    /\ component = "lifecycle" => Lifecycle!RestrictionsKept
    /\ component = "obligations" => /\ Obligations!UseCoveredByOrigins
                                    /\ Obligations!SubjectFindsAll
                                    /\ Obligations!ExpiredIsDeletable

\* What leaves is what was checked: an answer of a guard that fails closed, also when a check
\* failed; a structured value, which the host may change after its validation.
ReleasedAsChecked ==
    /\ component = "guard" /\ GuardFailClosed => Guard!ReleasedClean /\ Guard!FailureBlocks
    /\ component = "structured" => Structured!UsedAsBound

\* What is counted towards a limit is counted once and completely: the steps, depth, tokens and
\* rate of a session, the attempts of a repair; and a conversation cannot shed what it said.
LimitsKept ==
    /\ component = "alone" => Limits(Single)!WithinSessionLimits /\ Limits(Single)!RateHeld
    /\ component = "agent" => Limits(Shared)!WithinSessionLimits /\ Limits(Shared)!TokensWithinBudget
    /\ component = "structured" => Structured!RepairBounded
    /\ component = "campaign" => Jailbreak!TrajectoryKept /\ Jailbreak!BlockSticky

\* What the documentation says and the code does not keep, each with its component alone.  A
\* repair session judges at most max_attempts responses (structured_output.py:777 counts them).
AttemptsBounded == Structured!AttemptsBounded

\* A provider that asks to redact has failed, and a closed one blocks (guard.py:1316 passes its
\* action on).
RedactingFails == Guard!RedactingFails

StructuredSpec == component = "structured" /\ InformationSpec
GuardSpec == component = "guard" /\ InformationSpec

\* A stream leaves nothing that a rule removes or forbids, wherever it is cut, keeps what the
\* rules leave of the whole, and has the risk of all its chunks.
StreamKept ==
    component = "stream" =>
        Stream!TypeOK /\ Stream!EmittedClean /\ Stream!EmittedAsWhole /\ Stream!RiskAddsUp

\* Labels of derived data are exactly as strict as those of its sources: nothing is lost over
\* several derivations, and what was labelled by the rules is accepted.
LabelsKept ==
    /\ component = "labels" => /\ Labelled!NotDowngraded /\ Labelled!NotLaundered
                               /\ Labelled!JoinAccepted
    /\ component = "flow" => Flow!NotLaundered /\ Flow!PropagatedAccepted

\* Every call of the guard is answered, also when a rule, a transformer or a check never returns.
EventuallyAnswered == component = "guard" ~> Guard!Answered

-----------------------------------------------------------------------------
(* Proofs.  Retrieval looks at direct parents only; what makes that enough is *)
(* that a safe memory written in time depends on safe revisions that are      *)
(* still there.  A transition of a parent takes what derives from it along,   *)
(* and a quarantined parent has no safe dependents that it could leave behind *)
(* when it is revalidated.                                                    *)

\* A memory written before its parents changed is safe only as long as they are (_transition_affected).
SafeOnSafe ==
    \A m \in DOMAIN catalog \ late : catalog[m].status \in Safe => DependenciesSafe(catalog[m])

\* Types and the order of memories, and what retrieval relies on.
IInv == TypeOK /\ SafeOnSafe

\* The affected memories are committed ones and the root, and they are closed under derivation (_trace).
LEMMA AffectedClosed ==
    ASSUME NEW m
    PROVE  m \in Affected(m) /\ DerivedClosed(Affected(m))
<1>1. m \in Affected(m)
  BY DEF Affected
<1>2. ASSUME NEW x \in DOMAIN catalog, NEW p \in DOMAIN catalog[x].dependencies, p \in Affected(m)
      PROVE  x \in Affected(m)
  <2>1. SUFFICES ASSUME NEW M \in SUBSET (DOMAIN catalog \cup {m}), m \in M, DerivedClosed(M)
                 PROVE  x \in M
    BY DEF Affected
  <2>2. p \in M
    BY <1>2, <2>1 DEF Affected
  <2> QED
    BY <2>1, <2>2 DEF DerivedClosed
<1> QED
  BY <1>1, <1>2 DEF DerivedClosed

\* A record that is committed or reserved depends on committed memories (authorize_write).
LEMMA DependsOnCommitted ==
    ASSUME TypeOK, NEW m \in DOMAIN catalog \cup DOMAIN pending, NEW r \in Records(m)
    PROVE  DOMAIN r.dependencies = Write[m].parents /\ DOMAIN r.dependencies \subseteq DOMAIN catalog
BY DEF Records, TypeOK

\* After a transition the roots and all that derives from them are unsafe, and nothing else
\* has changed (_transition_affected).
LEMMA TransitionReaches ==
    ASSUME NEW roots \in SUBSET DOMAIN catalog, NEW status \in {"quarantined", "invalidated"},
           catalog' = Transitioned(roots, status), TypeOK
    PROVE  /\ DOMAIN catalog' = DOMAIN catalog
           /\ \A m \in DOMAIN catalog : catalog'[m] \in Records(m)
           /\ \A m \in DOMAIN catalog : catalog'[m].dependencies = catalog[m].dependencies
           /\ \A m \in DOMAIN catalog : catalog'[m].status \in Safe => catalog'[m] = catalog[m]
           /\ \A m \in DOMAIN catalog : \A p \in DOMAIN catalog[m].dependencies :
                  catalog'[p] # catalog[p] => catalog'[m].status \notin Safe
<1> DEFINE heirs == UNION {Affected(r) \ {r} : r \in roots}
<1>1. catalog' = [m \in DOMAIN catalog |->
                     IF m \in heirs THEN Marked(catalog[m], status, {"inherited"})
                     ELSE IF m \in roots THEN Marked(catalog[m], status, {})
                     ELSE catalog[m]]
  BY DEF Transitioned
<1>2. \A m, r, signals : r \in Records(m) =>
          /\ Marked(r, status, signals).status = status
          /\ Marked(r, status, signals).dependencies = r.dependencies
          /\ signals \subseteq Signals => Marked(r, status, signals) \in Records(m)
  BY DEF Marked, Records, Statuses, Signals
<1>3. status \notin Safe
  BY DEF Safe
<1>4. \A m \in DOMAIN catalog : m \in roots \cup heirs => catalog'[m].status = status
  BY <1>1, <1>2 DEF TypeOK
<1>5. \A m \in DOMAIN catalog : m \notin roots \cup heirs => catalog'[m] = catalog[m]
  BY <1>1
<1>6. \A m \in DOMAIN catalog : \A p \in DOMAIN catalog[m].dependencies :
          p \in roots \cup heirs => m \in roots \cup heirs
  <2> TAKE m \in DOMAIN catalog
  <2> TAKE p \in DOMAIN catalog[m].dependencies
  <2> HAVE p \in roots \cup heirs
  <2>1. PICK r \in roots : p \in Affected(r)
    BY AffectedClosed
  <2>2. m \in Affected(r)
    BY <2>1, AffectedClosed DEF DerivedClosed
  <2> QED
    BY <2>2
<1>7. \A m \in DOMAIN catalog :
          catalog'[m] \in Records(m) /\ catalog'[m].dependencies = catalog[m].dependencies
  <2>1. \A m \in DOMAIN catalog :
            \/ catalog'[m] = Marked(catalog[m], status, {"inherited"})
            \/ catalog'[m] = Marked(catalog[m], status, {})
            \/ catalog'[m] = catalog[m]
    BY <1>1
  <2> QED
    BY <2>1, <1>2 DEF Signals, TypeOK
<1>8. \A m \in DOMAIN catalog : \A p \in DOMAIN catalog[m].dependencies :
          catalog'[p] # catalog[p] => catalog'[m].status \notin Safe
  BY <1>3, <1>4, <1>5, <1>6, DependsOnCommitted DEF TypeOK
<1>9. DOMAIN catalog' = DOMAIN catalog
  BY <1>1
<1> QED
  BY <1>3, <1>4, <1>5, <1>7, <1>8, <1>9

\* A proposal that may be written makes a record of committed, safe revisions (authorize_write).
LEMMA EffectiveSound ==
    ASSUME TypeOK, NEW m \in Memories, Writable(m), NEW status \in Safe
    PROVE  EffectiveRecord(m, status) \in Records(m)
<1>1. Write[m] \in WriteType
  BY TaintAssumption
<1>2. \A p \in Write[m].parents : Current(p) \in Revisions
  <2> TAKE p \in Write[m].parents
  <2>1. p \in DOMAIN catalog /\ catalog[p] \in Records(p)
    BY DEF Writable, TypeOK
  <2> QED
    BY <2>1 DEF Current, Revision, Revisions, Records
<1>3. Found(m) \subseteq Signals
  BY <1>1 DEF Found, WriteType
<1>4. status \in Statuses /\ 1 \in 1 .. MaxVersion
  BY TaintAssumption DEF Safe, Statuses
<1> QED
  BY <1>2, <1>3, <1>4 DEF Records, EffectiveRecord

-----------------------------------------------------------------------------
(* The operations preserve the invariant *)

LEMMA Initially == Init => IInv
BY DEF Init, IInv, TypeOK, SafeOnSafe

\* What an authorization reserves is a record; nothing is committed yet (authorize_write).
LEMMA AuthorizedWrite ==
    ASSUME IInv, NEW m \in Memories, AuthorizeWrite(m)
    PROVE  IInv'
<1>1. Writable(m) /\ catalog' = catalog /\ late' = late
  BY DEF AuthorizeWrite
<1>2. PICK status \in Safe : pending' = Stored(pending, m, EffectiveRecord(m, status))
  BY DEF AuthorizeWrite, Safe
<1>3. /\ DOMAIN pending' = DOMAIN pending \cup {m}
      /\ pending'[m] = EffectiveRecord(m, status)
      /\ \A x \in DOMAIN pending : x # m => pending'[x] = pending[x]
  BY <1>2 DEF Stored
<1>4. EffectiveRecord(m, status) \in Records(m)
  BY <1>1, EffectiveSound DEF IInv
<1>5. used' \subseteq Approvals
  BY DEF AuthorizeWrite, IInv, TypeOK
<1>6. m \notin DOMAIN catalog /\ Write[m].parents \subseteq DOMAIN catalog
  BY <1>1 DEF Writable
<1>7. TypeOK'
  BY <1>1, <1>3, <1>4, <1>5, <1>6 DEF IInv, TypeOK
<1>8. SafeOnSafe'
  BY <1>1 DEF IInv, SafeOnSafe, DependenciesSafe, Current
<1> QED
  BY <1>7, <1>8 DEF IInv

\* Nothing committed depends on a memory that is committed now; whether that one depends on
\* safe revisions still, late remembers (commit_write).
LEMMA CommittedWrite ==
    ASSUME IInv, NEW m \in Memories, CommitWrite(m)
    PROVE  IInv'
<1>1. /\ m \in DOMAIN pending /\ m \notin DOMAIN catalog
      /\ pending[m] \in Records(m)
      /\ used' = used
  BY DEF CommitWrite, IInv, TypeOK
<1>2. /\ DOMAIN catalog' = DOMAIN catalog \cup {m}
      /\ catalog'[m] = pending[m]
      /\ \A x \in DOMAIN catalog : catalog'[x] = catalog[x]
  BY <1>1 DEF CommitWrite, Stored
<1>3. /\ DOMAIN pending' = DOMAIN pending \ {m}
      /\ \A x \in DOMAIN pending' : pending'[x] = pending[x]
  BY <1>1 DEF CommitWrite, Unreserved
<1>4. /\ late \subseteq late' /\ late' \subseteq late \cup {m}
      /\ m \notin late' => DependenciesSafe(pending[m])
  BY DEF CommitWrite
<1>5. TypeOK'
  BY <1>1, <1>2, <1>3, <1>4 DEF IInv, TypeOK
<1>6. ASSUME NEW x \in DOMAIN catalog' \ late', catalog'[x].status \in Safe
      PROVE  DependenciesSafe(catalog[x])'
  <2>1. DependenciesSafe(catalog'[x])
    <3>1. CASE x = m
      BY <3>1, <1>2, <1>4, <1>6
    <3>2. CASE x # m
      BY <3>2, <1>2, <1>4, <1>6 DEF IInv, SafeOnSafe
    <3> QED
      BY <3>1, <3>2
  <2>2. \A p \in DOMAIN catalog'[x].dependencies : p \in DOMAIN catalog /\ Current(p)' = Current(p)
    <3>1. x \in DOMAIN catalog \cup DOMAIN pending /\ catalog'[x] \in Records(x)
      BY <1>1, <1>2 DEF IInv, TypeOK
    <3> QED
      BY <3>1, <1>2, DependsOnCommitted DEF Current, IInv
  <2> QED
    BY <2>1, <2>2 DEF DependenciesSafe
<1> QED
  BY <1>5, <1>6 DEF IInv, SafeOnSafe

\* Giving a reservation up leaves what is committed as it is (abandon_write).
LEMMA AbandonedWrite ==
    ASSUME IInv, NEW m \in Memories, AbandonWrite(m)
    PROVE  IInv'
<1>1. /\ catalog' = catalog /\ used' = used /\ late' = late
      /\ DOMAIN pending' = DOMAIN pending \ {m}
      /\ \A x \in DOMAIN pending' : pending'[x] = pending[x]
  BY DEF AbandonWrite, Unreserved
<1>2. TypeOK'
  BY <1>1 DEF IInv, TypeOK
<1>3. SafeOnSafe'
  BY <1>1 DEF IInv, SafeOnSafe, DependenciesSafe, Current
<1> QED
  BY <1>2, <1>3 DEF IInv

\* A transition makes unsafe whatever depends on what it changes (_transition_affected).
LEMMA Transition ==
    ASSUME IInv, NEW roots \in SUBSET DOMAIN catalog, NEW status \in {"quarantined", "invalidated"},
           catalog' = Transitioned(roots, status), UNCHANGED <<pending, used, late>>
    PROVE  IInv'
<1>1. TypeOK
  BY DEF IInv
<1>2. DOMAIN catalog' = DOMAIN catalog
  BY <1>1, TransitionReaches
<1>3. TypeOK'
  BY <1>1, <1>2, TransitionReaches DEF IInv, TypeOK
<1>4. ASSUME NEW m \in DOMAIN catalog \ late, catalog'[m].status \in Safe
      PROVE  DependenciesSafe(catalog[m])'
  <2>1. catalog'[m] = catalog[m] /\ DependenciesSafe(catalog[m])
    BY <1>1, <1>4, TransitionReaches DEF IInv, SafeOnSafe
  <2>2. \A p \in DOMAIN catalog[m].dependencies : catalog'[p] = catalog[p] /\ p \in DOMAIN catalog
    BY <1>1, <1>4, TransitionReaches, DependsOnCommitted DEF TypeOK
  <2>3. \A p \in DOMAIN catalog[m].dependencies : Current(p)' = Current(p)
    BY <1>2, <2>2 DEF Current
  <2> QED
    BY <2>1, <2>3 DEF DependenciesSafe
<1> QED
  BY <1>2, <1>3, <1>4 DEF IInv, SafeOnSafe

\* A quarantined memory has no safe dependents written in time, so revalidating it changes
\* nothing they rely on (revalidate).
LEMMA Revalidated ==
    ASSUME IInv, NEW m \in Memories, Revalidate(m)
    PROVE  IInv'
<1> DEFINE revised == Revised(catalog[m], Write[m].persistent)
<1>1. /\ m \in DOMAIN catalog /\ catalog[m] \in Records(m)
      /\ catalog[m].status = "quarantined" /\ DependenciesSafe(catalog[m])
      /\ catalog[m].version < MaxVersion
      /\ pending' = pending /\ used' = used /\ late' = late
  BY DEF Revalidate, Revalidatable, IInv, TypeOK
<1>2. /\ DOMAIN catalog' = DOMAIN catalog
      /\ catalog'[m] = revised
      /\ \A x \in DOMAIN catalog : x # m => catalog'[x] = catalog[x]
  BY <1>1 DEF Revalidate
<1>3. revised \in Records(m) /\ revised.dependencies = catalog[m].dependencies
  <2>1. Write[m].persistent \in SUBSET Signals
    BY TaintAssumption DEF WriteType
  <2>2. catalog[m].version + 1 \in 1 .. MaxVersion
    BY <1>1, TaintAssumption DEF Records
  <2> QED
    BY <1>1, <2>1, <2>2 DEF Records, Statuses, Revised
<1>4. TypeOK'
  BY <1>1, <1>2, <1>3 DEF IInv, TypeOK
<1>5. ASSUME NEW x \in DOMAIN catalog \ late, catalog'[x].status \in Safe
      PROVE  DependenciesSafe(catalog[x])'
  <2>1. DependenciesSafe(catalog[x])
    BY <1>1, <1>2, <1>5 DEF IInv, SafeOnSafe
  <2>2. catalog'[x].dependencies = catalog[x].dependencies
    BY <1>2, <1>3
  <2>3. \A p \in DOMAIN catalog[x].dependencies : p # m
    BY <2>1, <1>1 DEF DependenciesSafe, Current, Revision, Safe
  <2>4. \A p \in DOMAIN catalog[x].dependencies : Current(p)' = Current(p)
    <3>1. \A p \in DOMAIN catalog[x].dependencies : p \in DOMAIN catalog
      BY DependsOnCommitted DEF IInv, TypeOK
    <3> QED
      BY <3>1, <1>2, <2>3 DEF Current
  <2> QED
    BY <2>1, <2>2, <2>4 DEF DependenciesSafe
<1> QED
  BY <1>1, <1>2, <1>4, <1>5 DEF IInv, SafeOnSafe

LEMMA Steps ==
    ASSUME IInv, [Next]_vars
    PROVE  IInv'
<1>1. CASE UNCHANGED vars
  BY <1>1 DEF vars, IInv, TypeOK, SafeOnSafe, DependenciesSafe, Current
<1>2. CASE \E m \in Memories : AuthorizeWrite(m) \/ CommitWrite(m) \/ AbandonWrite(m) \/ Revalidate(m)
  BY <1>2, AuthorizedWrite, CommittedWrite, AbandonedWrite, Revalidated
<1>3. CASE \E ms \in SUBSET DOMAIN catalog : \E changed \in SUBSET ms : AuthorizeRetrieval(ms, changed)
  <2>1. PICK ms \in SUBSET DOMAIN catalog, changed \in SUBSET DOMAIN catalog :
            AuthorizeRetrieval(ms, changed)
    BY <1>3
  <2>2. Tainted(ms, changed) \in SUBSET DOMAIN catalog
    BY DEF Tainted
  <2> QED
    BY <2>1, <2>2, Transition DEF AuthorizeRetrieval
<1>4. CASE \E m \in Memories, status \in {"quarantined", "invalidated"} : Remediate(m, status)
  <2>1. PICK m \in DOMAIN catalog, status \in {"quarantined", "invalidated"} :
            catalog' = Transitioned({m}, status) /\ UNCHANGED <<pending, used, late>>
    BY <1>4 DEF Remediate
  <2>2. {m} \in SUBSET DOMAIN catalog
    OBVIOUS
  <2> QED
    BY <2>1, <2>2, Transition
<1> QED
  BY <1>1, <1>2, <1>3, <1>4 DEF Next

\* The invariant holds in every state, for all memories, proposals and approvals.
THEOREM Inductive == Spec => []IInv
<1>1. Init => IInv
  BY Initially
<1>2. IInv /\ [Next]_vars => IInv'
  BY Steps
<1> QED
  BY <1>1, <1>2, PTL DEF Spec

-----------------------------------------------------------------------------
(* Safe parents everywhere make safe ancestors *)

LEMMA AncestorsSafe == IInv => LineageSafe
<1> SUFFICES ASSUME IInv, NEW m \in DOMAIN catalog, Readable(m),
                    ({m} \cup Ancestors(m)) \cap late = {},
                    NEW a \in Ancestors(m)
             PROVE  catalog[a].status \in Safe
  BY DEF LineageSafe
<1> DEFINE lineage == {m} \cup Ancestors(m)
           sound == {x \in lineage : catalog[x].status \in Safe}
<1>1. m \in sound /\ sound \in SUBSET DOMAIN catalog
  BY DEF Readable, Ancestors
<1>2. ParentsClosed(sound)
  <2>1. SUFFICES ASSUME NEW x \in sound, NEW p \in DOMAIN catalog[x].dependencies
                 PROVE  p \in sound
    BY DEF ParentsClosed
  <2>2. p \in DOMAIN catalog /\ DependenciesSafe(catalog[x])
    BY <1>1, DependsOnCommitted DEF IInv, TypeOK, SafeOnSafe
  <2>3. catalog[p].status \in Safe
    BY <2>2 DEF DependenciesSafe, Current, Revision
  <2>4. p \in lineage
    <3>1. ASSUME NEW M \in SUBSET DOMAIN catalog, m \in M, ParentsClosed(M)
          PROVE  p \in M
      BY <3>1 DEF ParentsClosed, Ancestors
    <3> QED
      BY <3>1, <2>2 DEF Ancestors
  <2> QED
    BY <2>3, <2>4
<1>3. a \in sound
  BY <1>1, <1>2 DEF Ancestors
<1> QED
  BY <1>3

\* A memory that can be retrieved, and whose lineage was written in time, derives from safe
\* memories only, at any distance and whatever was quarantined, invalidated and revalidated in
\* between, though retrieval looks at its direct parents only (authorize_retrieval).
THEOREM LineagesSafe == Spec => []LineageSafe
BY Inductive, AncestorsSafe, PTL

-----------------------------------------------------------------------------
(* Closures, computed step by step *)

\* The least number outside of a set of numbers.
LEMMA LeastOutside ==
    ASSUME NEW N \in Nat, NEW S, (0..N) \ S # {}
    PROVE  \E n \in (0..N) \ S : \A m \in 0..(n - 1) : m \in S
<1> DEFINE T == (0..N) \ S
<1>1. T \in SUBSET Nat /\ T # {}
  OBVIOUS
<1> HIDE DEF T
<1>2. PICK n \in T : \A m \in T : ~ (<<m, n>> \in OpToRel(<, Nat))
  BY <1>1, NatLessThanWellFounded, WFMin, Zenon
<1>3. \A m \in T : ~ (m < n)
  <2>1. TAKE m \in T
  <2>2. m \in Nat /\ n \in Nat
    BY <1>1
  <2> QED
    BY <1>2, <2>2 DEF OpToRel
<1>4. n \in 0..N /\ n \notin S
  BY DEF T
<1>5. \A m \in 0..(n - 1) : m \in S
  <2>1. TAKE m \in 0..(n - 1)
  <2>2. m \in 0..N /\ m < n
    BY <1>4
  <2>3. m \notin T
    BY <1>3, <2>2
  <2> QED
    BY <2>2, <2>3 DEF T
<1> QED
  BY <1>4, <1>5

\* All numbers up to N are in a set that 0 is in and every number that follows one.
LEMMA EachUpTo ==
    ASSUME NEW N \in Nat, NEW S, 0 \in S, \A n \in 0..(N - 1) : n \in S => n + 1 \in S
    PROVE  \A n \in 0..N : n \in S
<1>1. SUFFICES ASSUME (0..N) \ S # {} PROVE FALSE
  OBVIOUS
<1>2. PICK n \in (0..N) \ S : \A m \in 0..(n - 1) : m \in S
  BY <1>1, LeastOutside
<1>3. n # 0 /\ n - 1 \in 0..(N - 1) /\ n - 1 \in 0..(n - 1) /\ (n - 1) + 1 = n
  OBVIOUS
<1> QED
  BY <1>2, <1>3

\* What children have a parent there.
Born(C, R, found) == {x \in C : R[x] \cap found # {}}

\* The sets that climb from T along the sources R of what is in C.
Climbing(f, C, R, T, N) ==
    f = [n \in 0..N |-> IF n = 0 THEN T ELSE f[n - 1] \cup Born(C, R, f[n - 1])]

\* The climb, step by step.
LEMMA ClimbSteps ==
    ASSUME NEW N \in Nat, NEW C, NEW R, NEW T, NEW f, Climbing(f, C, R, T, N)
    PROVE  /\ f[0] = T
           /\ \A n \in 0..(N - 1) : f[n + 1] = f[n] \cup Born(C, R, f[n])
<1>1. f[0] = T
  BY DEF Climbing
<1>2. ASSUME NEW n \in 0..(N - 1)
      PROVE  f[n + 1] = f[n] \cup Born(C, R, f[n])
  <2>1. n + 1 \in 0..N /\ n + 1 # 0 /\ (n + 1) - 1 = n
    OBVIOUS
  <2>2. \A k \in 0..N : f[k] = IF k = 0 THEN T ELSE f[k - 1] \cup Born(C, R, f[k - 1])
    BY DEF Climbing
  <2> QED
    BY <2>1, <2>2
<1> QED
  BY <1>1, <1>2

\* There is such a climb of every length.
LEMMA ClimbExists ==
    ASSUME NEW N \in Nat, NEW C, NEW R, NEW T
    PROVE  \E f : Climbing(f, C, R, T, N)
<1> DEFINE S == {n \in 0..N : \E f : Climbing(f, C, R, T, n)}
<1>1. 0 \in S
  <2>1. Climbing([n \in 0..0 |-> T], C, R, T, 0)
    BY DEF Climbing
  <2> QED
    BY <2>1
<1>2. ASSUME NEW n \in 0..(N - 1), n \in S
      PROVE  n + 1 \in S
  <2>1. PICK f : Climbing(f, C, R, T, n)
    BY <1>2
  <2> DEFINE g == [k \in 0..(n + 1) |-> IF k = n + 1 THEN f[n] \cup Born(C, R, f[n]) ELSE f[k]]
  <2>2. f[0] = T /\ \A k \in 0..(n - 1) : f[k + 1] = f[k] \cup Born(C, R, f[k])
    BY <2>1, ClimbSteps
  <2>3. ASSUME NEW k \in 0..(n + 1)
        PROVE  g[k] = IF k = 0 THEN T ELSE g[k - 1] \cup Born(C, R, g[k - 1])
    <3>1. CASE k = 0
      BY <3>1, <2>2
    <3>2. CASE k = n + 1
      <4>1. g[k] = f[n] \cup Born(C, R, f[n]) /\ k - 1 = n /\ n \in 0..(n + 1) /\ n # n + 1
        BY <3>2
      <4>2. g[k - 1] = f[n]
        BY <4>1
      <4> QED
        BY <3>2, <4>1, <4>2
    <3>3. CASE k # 0 /\ k # n + 1
      <4>1. k - 1 \in 0..(n - 1) /\ (k - 1) + 1 = k /\ k - 1 \in 0..(n + 1) /\ k - 1 # n + 1
        BY <3>3
      <4>2. g[k] = f[k] /\ g[k - 1] = f[k - 1]
        BY <3>3, <4>1
      <4>3. f[k] = f[k - 1] \cup Born(C, R, f[k - 1])
        BY <4>1, <2>2
      <4> QED
        BY <3>3, <4>2, <4>3
    <3> QED
      BY <3>1, <3>2, <3>3
  <2>4. g = [k \in 0..(n + 1) |-> g[k]]
    OBVIOUS
  <2> HIDE DEF g
  <2>5. Climbing(g, C, R, T, n + 1)
    BY <2>3, <2>4 DEF Climbing
  <2>6. n + 1 \in 0..N
    OBVIOUS
  <2> QED
    BY <2>5, <2>6
<1>3. N \in S
  <2> HIDE DEF S
  <2>1. \A n \in 0..N : n \in S
    BY <1>1, <1>2, EachUpTo
  <2> QED
    BY <2>1
<1> QED
  BY <1>3

\* What is reached from T lies in every set around T that is closed under what derives.
LEMMA ClimbLeast ==
    ASSUME NEW N \in Nat, NEW C, NEW R, NEW T, NEW f, Climbing(f, C, R, T, N),
           NEW S, T \subseteq S, Born(C, R, S) \subseteq S
    PROVE  f[N] \subseteq S
<1> DEFINE P == {n \in 0..N : f[n] \subseteq S}
<1>1. 0 \in P
  BY ClimbSteps
<1>2. ASSUME NEW n \in 0..(N - 1), n \in P PROVE n + 1 \in P
  <2>1. f[n + 1] = f[n] \cup Born(C, R, f[n])
    BY ClimbSteps
  <2>2. Born(C, R, f[n]) \subseteq Born(C, R, S)
    BY <1>2 DEF Born
  <2>3. n + 1 \in 0..N
    OBVIOUS
  <2> QED
    BY <1>2, <2>1, <2>2, <2>3
<1> HIDE DEF P
<1>3. \A n \in 0..N : n \in P
  BY <1>1, <1>2, EachUpTo
<1> QED
  BY <1>3 DEF P

\* The climb goes up.
LEMMA ClimbUp ==
    ASSUME NEW N \in Nat, NEW C, NEW R, NEW T, NEW f, Climbing(f, C, R, T, N)
    PROVE  T \subseteq f[N] /\ f[N] \subseteq T \cup C
<1> DEFINE P == {n \in 0..N : T \subseteq f[n] /\ f[n] \subseteq T \cup C}
<1>1. 0 \in P
  BY ClimbSteps
<1>2. ASSUME NEW n \in 0..(N - 1), n \in P PROVE n + 1 \in P
  <2>1. f[n + 1] = f[n] \cup Born(C, R, f[n])
    BY ClimbSteps
  <2>2. n + 1 \in 0..N
    OBVIOUS
  <2> QED
    BY <1>2, <2>1, <2>2 DEF Born
<1> HIDE DEF P
<1>3. \A n \in 0..N : n \in P
  BY <1>1, <1>2, EachUpTo
<1> QED
  BY <1>3 DEF P

\* As many steps as there are things that may derive are enough: at every step one more of them
\* is found or there are none to be found.
LEMMA ClimbClosed ==
    ASSUME NEW N \in Nat, NEW C, NEW R, NEW T, NEW f, Climbing(f, C, R, T, N),
           IsFiniteSet(C), Cardinality(C) <= N
    PROVE  Born(C, R, f[N]) \subseteq f[N]
<1> DEFINE Closed(n) == Born(C, R, f[n]) \subseteq f[n]
           K(n) == Cardinality(f[n] \cap C)
           P == {n \in 0..N : Closed(n) \/ K(n) >= n}
<1>0. \A n : IsFiniteSet(f[n] \cap C) /\ K(n) \in Nat /\ K(n) <= Cardinality(C)
  <2> TAKE n
  <2>1. f[n] \cap C \subseteq C
    OBVIOUS
  <2> QED
    BY <2>1, FS_Subset, FS_CardinalityType
<1>1. 0 \in P
  <2>1. K(0) \in Nat
    BY <1>0
  <2> HIDE DEF K
  <2>2. K(0) >= 0
    BY <2>1
  <2> QED
    BY <2>2
<1>2. ASSUME NEW n \in 0..(N - 1), n \in P PROVE n + 1 \in P
  <2>1. f[n + 1] = f[n] \cup Born(C, R, f[n])
    BY ClimbSteps
  <2>2. n + 1 \in 0..N /\ n \in Nat
    OBVIOUS
  <2>3. CASE Closed(n)
    <3>1. f[n + 1] = f[n]
      BY <2>1, <2>3
    <3>2. Closed(n + 1)
      BY <2>3, <3>1
    <3> QED
      BY <2>2, <3>2
  <2>4. CASE ~Closed(n)
    <3>1. PICK x \in Born(C, R, f[n]) : x \notin f[n]
      BY <2>4
    <3>2. x \in (f[n + 1] \cap C) /\ x \notin (f[n] \cap C) /\ f[n] \cap C \subseteq f[n + 1] \cap C
      BY <2>1, <3>1 DEF Born
    <3>3. K(n) <= K(n + 1) /\ K(n) # K(n + 1)
      BY <3>2, <1>0, FS_Subset
    <3>4. K(n) >= n
      BY <1>2, <2>4
    <3>5. K(n) \in Nat /\ K(n + 1) \in Nat
      BY <1>0
    <3> HIDE DEF K
    <3>6. K(n + 1) >= n + 1
      BY <2>2, <3>3, <3>4, <3>5
    <3> QED
      BY <2>2, <3>6
  <2> QED
    BY <2>3, <2>4
<1> HIDE DEF P
<1>3. N \in P
  <2>1. \A n \in 0..N : n \in P
    BY <1>1, <1>2, EachUpTo
  <2> QED
    BY <2>1
<1>4. CASE Closed(N)
  BY <1>4
<1>5. CASE K(N) >= N
  <2>1. K(N) \in Nat /\ K(N) <= Cardinality(C) /\ Cardinality(C) \in Nat
    BY <1>0, FS_CardinalityType
  <2>2. K(N) = Cardinality(C)
    <3> HIDE DEF K
    <3> QED
      BY <1>5, <2>1
  <2>3. f[N] \cap C \subseteq C
    OBVIOUS
  <2>4. f[N] \cap C = C
    BY <2>2, <2>3, FS_Subset
  <2> QED
    BY <2>4 DEF Born
<1> QED
  BY <1>3, <1>4, <1>5 DEF P

\* The sources of what is there.
Back(R, found) == UNION {R[x] : x \in found}

\* The sets that go back from T along the sources R.
Descending(f, R, T, N) ==
    f = [n \in 0..N |-> IF n = 0 THEN T ELSE f[n - 1] \cup Back(R, f[n - 1])]

\* The way back, step by step.
LEMMA DescentSteps ==
    ASSUME NEW N \in Nat, NEW R, NEW T, NEW f, Descending(f, R, T, N)
    PROVE  /\ f[0] = T
           /\ \A n \in 0..(N - 1) : f[n + 1] = f[n] \cup Back(R, f[n])
<1>1. f[0] = T
  BY DEF Descending
<1>2. ASSUME NEW n \in 0..(N - 1)
      PROVE  f[n + 1] = f[n] \cup Back(R, f[n])
  <2>1. n + 1 \in 0..N /\ n + 1 # 0 /\ (n + 1) - 1 = n
    OBVIOUS
  <2>2. \A k \in 0..N : f[k] = IF k = 0 THEN T ELSE f[k - 1] \cup Back(R, f[k - 1])
    BY DEF Descending
  <2> QED
    BY <2>1, <2>2
<1> QED
  BY <1>1, <1>2

\* There is a way back of every length.
LEMMA DescentExists ==
    ASSUME NEW N \in Nat, NEW R, NEW T
    PROVE  \E f : Descending(f, R, T, N)
<1> DEFINE S == {n \in 0..N : \E f : Descending(f, R, T, n)}
<1>1. 0 \in S
  <2>1. Descending([n \in 0..0 |-> T], R, T, 0)
    BY DEF Descending
  <2> QED
    BY <2>1
<1>2. ASSUME NEW n \in 0..(N - 1), n \in S
      PROVE  n + 1 \in S
  <2>1. PICK f : Descending(f, R, T, n)
    BY <1>2
  <2> DEFINE g == [k \in 0..(n + 1) |-> IF k = n + 1 THEN f[n] \cup Back(R, f[n]) ELSE f[k]]
  <2>0. n \in Nat
    OBVIOUS
  <2>2. f[0] = T /\ \A k \in 0..(n - 1) : f[k + 1] = f[k] \cup Back(R, f[k])
    BY <2>0, <2>1, DescentSteps
  <2>3. ASSUME NEW k \in 0..(n + 1)
        PROVE  g[k] = IF k = 0 THEN T ELSE g[k - 1] \cup Back(R, g[k - 1])
    <3>1. CASE k = 0
      BY <3>1, <2>2
    <3>2. CASE k = n + 1
      <4>1. g[k] = f[n] \cup Back(R, f[n]) /\ k - 1 = n /\ n \in 0..(n + 1) /\ n # n + 1
        BY <3>2
      <4>2. g[k - 1] = f[n]
        BY <4>1
      <4> QED
        BY <3>2, <4>1, <4>2
    <3>3. CASE k # 0 /\ k # n + 1
      <4>1. k - 1 \in 0..(n - 1) /\ (k - 1) + 1 = k /\ k - 1 \in 0..(n + 1) /\ k - 1 # n + 1
        BY <3>3
      <4>2. g[k] = f[k] /\ g[k - 1] = f[k - 1]
        BY <3>3, <4>1
      <4>3. f[k] = f[k - 1] \cup Back(R, f[k - 1])
        BY <4>1, <2>2
      <4> QED
        BY <3>3, <4>2, <4>3
    <3> QED
      BY <3>1, <3>2, <3>3
  <2>4. g = [k \in 0..(n + 1) |-> g[k]]
    OBVIOUS
  <2> HIDE DEF g
  <2>5. Descending(g, R, T, n + 1)
    BY <2>3, <2>4 DEF Descending
  <2>6. n + 1 \in 0..N
    OBVIOUS
  <2> QED
    BY <2>5, <2>6
<1>3. N \in S
  <2> HIDE DEF S
  <2>1. \A n \in 0..N : n \in S
    BY <1>1, <1>2, EachUpTo
  <2> QED
    BY <2>1
<1> QED
  BY <1>3

\* What lies behind T is in every set around T that holds the sources of what it holds.
LEMMA DescentWithin ==
    ASSUME NEW N \in Nat, NEW R, NEW T, NEW f, Descending(f, R, T, N),
           NEW S, T \subseteq S, \A x \in S : R[x] \subseteq S
    PROVE  f[N] \subseteq S
<1> DEFINE P == {n \in 0..N : f[n] \subseteq S}
<1>1. 0 \in P
  BY DescentSteps
<1>2. ASSUME NEW n \in 0..(N - 1), n \in P PROVE n + 1 \in P
  <2>1. f[n + 1] = f[n] \cup Back(R, f[n])
    BY DescentSteps
  <2>2. f[n] \subseteq S
    BY <1>2
  <2>3. Back(R, f[n]) \subseteq S
    BY <2>2 DEF Back
  <2>4. n + 1 \in 0..N
    OBVIOUS
  <2> QED
    BY <2>1, <2>2, <2>3, <2>4
<1> HIDE DEF P
<1>3. \A n \in 0..N : n \in P
  BY <1>1, <1>2, EachUpTo
<1> QED
  BY <1>3 DEF P

\* A set of numbers has a least one.
LEMMA LeastOf ==
    ASSUME NEW S \in SUBSET Nat, S # {}
    PROVE  \E n \in S : \A m \in S : n <= m
<1>1. PICK n \in S : \A m \in S : ~ (<<m, n>> \in OpToRel(<, Nat))
  BY NatLessThanWellFounded, WFMin, Zenon
<1>2. \A m \in S : ~ (m < n)
  <2>1. TAKE m \in S
  <2>2. m \in Nat /\ n \in Nat
    OBVIOUS
  <2> QED
    BY <1>1, <2>2 DEF OpToRel
<1> QED
  BY <1>2

\* And a greatest one when they are bounded.
LEMMA GreatestOf ==
    ASSUME NEW K \in Nat, NEW S \in SUBSET (0..K), S # {}
    PROVE  \E n \in S : \A m \in S : m <= n
<1> DEFINE T == {K - s : s \in S}
<1>1. T # {} /\ \A x \in T : x \in Nat
  <2>1. PICK s \in S : TRUE
    OBVIOUS
  <2>2. K - s \in T
    OBVIOUS
  <2>3. \A x \in T : x \in Nat
    OBVIOUS
  <2> QED
    BY <2>2, <2>3
<1> HIDE DEF T
<1>2. PICK n \in T : \A m \in T : n <= m
  <2>1. T \in SUBSET Nat
    BY <1>1
  <2> QED
    BY <1>1, <2>1, LeastOf, Zenon
<1>3. PICK s \in S : n = K - s
  BY DEF T
<1>4. ASSUME NEW m \in S PROVE m <= s
  <2>1. K - m \in T
    BY DEF T
  <2>2. K - s <= K - m
    BY <1>2, <1>3, <2>1
  <2> QED
    BY <2>2
<1> QED
  BY <1>4

-----------------------------------------------------------------------------
(* Derivation and deletion *)

\* Artifacts are finitely many and derive from artifacts, as are the threads that delete them.
ASSUME LifecycleAssumption ==
    /\ IsFiniteSet(DataArtifacts) /\ Sources \in [DataArtifacts -> SUBSET DataArtifacts]
    /\ IsFiniteSet(Executors) /\ MaxRecordVersion \in Nat \ {0}

\* What a plan made of what was registered then: every heir of what is doomed is doomed too, held,
\* or cannot be used any more.
Heirs(run) ==
    /\ run.doomed \subseteq Lifecycle!Registered /\ run.registered \subseteq Lifecycle!Registered
    /\ \A a \in run.registered \ Held :
        Lifecycle!Ancestors(a) \cap run.doomed # {} => a \in run.doomed \/ records[a].state # "active"

RunType ==
    [at : {"deleting"}, doomed : SUBSET DataArtifacts, registered : SUBSET DataArtifacts,
     actions : SUBSET Lifecycle!AllCopies, failed : SUBSET DataArtifacts, limited : SUBSET DataArtifacts]

\* A deletion has dealt with the copies that are not among its actions any more.
Deleting(run) ==
    /\ run \in RunType
    /\ \A a \in run.doomed :
        /\ records[a].state # "active"
        /\ a \in run.failed \/ \A l \in Locations[a] : <<a, l>> \in run.actions \/ <<a, l>> \notin copies

RunOK(run) ==
    \/ run.at = "idle"
    \/ Heirs(run) /\ (run.at = "planned" \/ Deleting(run))

RecordsOK ==
    /\ records \in [DataArtifacts -> [state : Lifecycle!States, version : Nat]]
    /\ \A a \in DataArtifacts : records[a].version = 0 => records[a].state = "active"
    /\ \A a \in Lifecycle!Registered :
        Sources[a] \subseteq Lifecycle!Registered /\ Lifecycle!Propagated(a)

CopiesOK ==
    /\ copies \subseteq Lifecycle!AllCopies
    /\ \A a \in DataArtifacts : \A l \in Locations[a] :
        <<a, l>> \in copies => a \in Lifecycle!Registered /\ records[a].state # "verified"

\* Records only get stricter than their sources, copies are of registered artifacts, and
\* deletions go through with their plans.
LifecycleInv ==
    /\ RecordsOK /\ CopiesOK
    /\ DOMAIN executions = Executors
    /\ \A t \in Executors : RunOK(executions[t])

\* The cascade holds what it is asked for and all that derives from what it holds.
LEMMA CascadeClosed ==
    ASSUME NEW T \in SUBSET Lifecycle!Registered
    PROVE  /\ T \subseteq Lifecycle!Cascade(T) /\ Lifecycle!Cascade(T) \subseteq Lifecycle!Registered
           /\ Born(Lifecycle!Registered, Sources, Lifecycle!Cascade(T)) \subseteq Lifecycle!Cascade(T)
<1> DEFINE R == Lifecycle!Registered
           N == Cardinality(DataArtifacts)
           f == CHOOSE f : Climbing(f, R, Sources, T, N)
<1>1. R \subseteq DataArtifacts
  BY DEF Lifecycle!Registered
<1>2. N \in Nat /\ IsFiniteSet(R) /\ Cardinality(R) <= N
  BY <1>1, LifecycleAssumption, FS_Subset, FS_CardinalityType
<1>3. Lifecycle!Cascade(T) = f[N]
  BY DEF Lifecycle!Cascade, Climbing, Born, Lifecycle!Cardinality, Cardinality
<1> HIDE DEF R, N
<1>4. Climbing(f, R, Sources, T, N)
  BY <1>2, ClimbExists
<1> HIDE DEF f
<1>5. T \subseteq f[N] /\ f[N] \subseteq T \cup R
  BY <1>2, <1>4, ClimbUp
<1>6. Born(R, Sources, f[N]) \subseteq f[N]
  BY <1>2, <1>4, ClimbClosed
<1> QED
  BY <1>3, <1>5, <1>6 DEF R

\* The ancestors of an artifact are in every set around it that holds the sources of what it holds.
LEMMA AncestorsWithin ==
    ASSUME NEW a, NEW S, a \in S, \A x \in S : Sources[x] \subseteq S
    PROVE  Lifecycle!Ancestors(a) \subseteq S
<1> DEFINE N == Cardinality(DataArtifacts)
           f == CHOOSE f : Descending(f, Sources, {a}, N)
<1>1. N \in Nat
  BY LifecycleAssumption, FS_CardinalityType
<1>2. Lifecycle!Ancestors(a) = f[N] \ {a}
  BY DEF Lifecycle!Ancestors, Descending, Back, Lifecycle!Cardinality, Cardinality
<1> HIDE DEF N
<1>3. Descending(f, Sources, {a}, N)
  BY <1>1, DescentExists
<1> HIDE DEF f
<1>4. f[N] \subseteq S
  BY <1>1, <1>3, DescentWithin
<1> QED
  BY <1>2, <1>4

\* Registered artifacts have registered ancestors that restrict no more than they do.
LEMMA AncestorsRestrict ==
    ASSUME RecordsOK, NEW a \in Lifecycle!Registered
    PROVE  /\ Lifecycle!Ancestors(a) \subseteq Lifecycle!Registered
           /\ \A s \in Lifecycle!Ancestors(a) : Restrictions[s] \subseteq Restrictions[a]
<1> DEFINE S == {s \in Lifecycle!Registered : Restrictions[s] \subseteq Restrictions[a]}
<1>1. a \in S
  OBVIOUS
<1>2. \A x \in S : Sources[x] \subseteq S
  BY DEF RecordsOK, Lifecycle!Propagated
<1> HIDE DEF S
<1>3. Lifecycle!Ancestors(a) \subseteq S
  BY <1>1, <1>2, AncestorsWithin
<1> QED
  BY <1>3 DEF S

\* What has an ancestor in a cascade is in it.
LEMMA HeirsInCascade ==
    ASSUME RecordsOK, NEW T \in SUBSET Lifecycle!Registered, NEW a \in Lifecycle!Registered,
           Lifecycle!Ancestors(a) \cap Lifecycle!Cascade(T) # {}
    PROVE  a \in Lifecycle!Cascade(T)
<1> DEFINE C == Lifecycle!Cascade(T)
           S == Lifecycle!Registered \ C
<1>1. Born(Lifecycle!Registered, Sources, C) \subseteq C
  BY CascadeClosed
<1> HIDE DEF C
<1>2. SUFFICES ASSUME a \notin C PROVE Lifecycle!Ancestors(a) \cap C = {}
  BY DEF C
<1>3. a \in S
  BY <1>2
<1>4. \A x \in S : Sources[x] \subseteq S
  BY <1>1 DEF Born, RecordsOK
<1>5. Lifecycle!Ancestors(a) \subseteq S
  BY <1>3, <1>4, AncestorsWithin
<1> QED
  BY <1>5

\* Nothing is registered at first.
LEMMA LifecycleInit == Lifecycle!Init => LifecycleInv
<1> SUFFICES ASSUME Lifecycle!Init PROVE LifecycleInv
  OBVIOUS
<1>1. \A a \in DataArtifacts : records[a] = [state |-> "active", version |-> 0]
  BY DEF Lifecycle!Init
<1>2. Lifecycle!Registered = {}
  BY <1>1 DEF Lifecycle!Registered
<1>3. RecordsOK
  <2>1. records \in [DataArtifacts -> [state : Lifecycle!States, version : Nat]]
    BY DEF Lifecycle!Init, Lifecycle!States
  <2> QED
    BY <1>1, <1>2, <2>1 DEF RecordsOK
<1>4. CopiesOK
  BY DEF CopiesOK, Lifecycle!Init
<1>5. DOMAIN executions = Executors /\ \A t \in Executors : RunOK(executions[t])
  BY DEF Lifecycle!Init, Lifecycle!Idle, RunOK
<1> QED
  BY <1>3, <1>4, <1>5 DEF LifecycleInv

\* A run goes on as it was while records only get registered and leave "active" for good, and while
\* no copies of what is registered appear.
LEMMA RunKept ==
    ASSUME LifecycleInv, NEW u \in Executors, executions'[u] = executions[u],
           Lifecycle!Registered \subseteq Lifecycle!Registered',
           \A a \in Lifecycle!Registered : records[a].state # "active" => records'[a].state # "active",
           \A a \in Lifecycle!Registered : \A l : <<a, l>> \in copies' => <<a, l>> \in copies
    PROVE  RunOK(executions[u])'
<1>1. RunOK(executions[u])
  BY DEF LifecycleInv
<1>2. CASE executions[u].at = "idle"
  BY <1>2 DEF RunOK
<1>3. CASE Heirs(executions[u]) /\ executions[u].at = "planned"
  <2>1. Heirs(executions[u])'
    BY <1>3 DEF Heirs
  <2> QED
    BY <1>3, <2>1 DEF RunOK
<1>4. CASE Heirs(executions[u]) /\ Deleting(executions[u])
  <2>1. Heirs(executions[u])'
    BY <1>4 DEF Heirs
  <2>2. Deleting(executions[u])'
    <3>1. (executions[u] \in RunType)'
      BY <1>4 DEF Deleting, RunType, Lifecycle!AllCopies
    <3>2. ASSUME NEW a \in executions'[u].doomed
          PROVE  /\ records'[a].state # "active"
                 /\ a \in executions'[u].failed \/
                        \A l \in Locations[a] : <<a, l>> \in executions'[u].actions \/ <<a, l>> \notin copies'
      BY <1>4 DEF Deleting, Heirs
    <3> QED
      BY <3>1, <3>2 DEF Deleting
  <2> QED
    BY <2>1, <2>2 DEF RunOK
<1> QED
  BY <1>1, <1>2, <1>3, <1>4 DEF RunOK

\* register and derive: a new artifact restricts as much as its sources.
LEMMA LifecycleRegister ==
    ASSUME LifecycleInv, NEW a \in DataArtifacts, Lifecycle!Register(a)
    PROVE  LifecycleInv'
<1>1. /\ a \notin Lifecycle!Registered /\ Lifecycle!Propagated(a)
      /\ Sources[a] \subseteq Lifecycle!Registered
      /\ records' = [records EXCEPT ![a] = [state |-> "active", version |-> 1]]
      /\ copies' = copies \cup ({a} \X Locations[a]) /\ executions' = executions
  BY LifecycleAssumption DEF Lifecycle!Register, Lifecycle!Derivable
<1>2. /\ records'[a] = [state |-> "active", version |-> 1]
      /\ \A x \in DataArtifacts : x # a => records'[x] = records[x]
      /\ records' \in [DataArtifacts -> [state : Lifecycle!States, version : Nat]]
  BY <1>1 DEF LifecycleInv, RecordsOK, Lifecycle!States
<1>3. Lifecycle!Registered' = Lifecycle!Registered \cup {a}
  BY <1>2 DEF Lifecycle!Registered
<1>4. RecordsOK'
  <2>1. \A x \in DataArtifacts : records'[x].version = 0 => records'[x].state = "active"
    BY <1>2 DEF LifecycleInv, RecordsOK
  <2>2. \A x \in Lifecycle!Registered' : Sources[x] \subseteq Lifecycle!Registered' /\ Lifecycle!Propagated(x)
    BY <1>1, <1>3 DEF LifecycleInv, RecordsOK
  <2> QED
    BY <1>2, <2>1, <2>2 DEF RecordsOK, Lifecycle!Propagated
<1>5. CopiesOK'
  <2>1. copies' \subseteq Lifecycle!AllCopies'
    BY <1>1 DEF LifecycleInv, CopiesOK, Lifecycle!AllCopies
  <2>2. ASSUME NEW x \in DataArtifacts, NEW l \in Locations[x], <<x, l>> \in copies'
        PROVE  x \in Lifecycle!Registered' /\ records'[x].state # "verified"
    <3>1. CASE x = a
      BY <3>1, <1>2, <1>3
    <3>2. CASE x # a
      <4>1. <<x, l>> \in copies
        BY <2>2, <3>2, <1>1
      <4> QED
        BY <3>2, <4>1, <1>2, <1>3 DEF LifecycleInv, CopiesOK
    <3> QED
      BY <3>1, <3>2
  <2> QED
    BY <2>1, <2>2 DEF CopiesOK
<1>6. ASSUME NEW u \in Executors PROVE RunOK(executions[u])'
  <2>1. \A x \in Lifecycle!Registered : x \in DataArtifacts /\ x # a /\ records'[x] = records[x]
    BY <1>1, <1>2 DEF Lifecycle!Registered
  <2>2. \A x \in Lifecycle!Registered : \A l : <<x, l>> \in copies' => <<x, l>> \in copies
    BY <1>1, <2>1
  <2> QED
    BY <1>1, <1>3, <2>1, <2>2, RunKept
<1> QED
  BY <1>1, <1>4, <1>5, <1>6 DEF LifecycleInv

\* plan_deletion: what is not doomed of a cascade is held or was deleted before.
LEMMA LifecyclePlan ==
    ASSUME LifecycleInv, NEW t \in Executors, NEW target \in DataArtifacts, Lifecycle!PlanDeletion(t, target)
    PROVE  LifecycleInv'
<1> DEFINE C == Lifecycle!Cascade({target})
           due == Lifecycle!Outstanding(C)
           plan == [at |-> "planned", versions |-> [a \in due |-> records[a].version],
                    doomed |-> due \ Held, registered |-> Lifecycle!Registered]
<1>1. target \in Lifecycle!Registered /\ executions' = [executions EXCEPT ![t] = plan]
      /\ records' = records /\ copies' = copies
  BY DEF Lifecycle!PlanDeletion
<1>2. C \subseteq Lifecycle!Registered
  BY <1>1, CascadeClosed
<1>3. \A a \in Lifecycle!Registered : Lifecycle!Ancestors(a) \cap C # {} => a \in C
  BY <1>1, HeirsInCascade DEF LifecycleInv
<1>4. \A a \in C : a \in due \/ records[a].state # "active"
  BY DEF Lifecycle!Outstanding
<1>5. due \subseteq C
  BY DEF Lifecycle!Outstanding
<1> HIDE DEF C, due
<1>6. plan.at = "planned" /\ plan.doomed = due \ Held /\ plan.registered = Lifecycle!Registered
  OBVIOUS
<1> HIDE DEF plan
<1>7. RunOK(plan)
  <2>1. ASSUME NEW a \in plan.registered \ Held, Lifecycle!Ancestors(a) \cap plan.doomed # {}
        PROVE  a \in plan.doomed \/ records[a].state # "active"
    <3>1. a \in C
      BY <1>3, <1>5, <1>6, <2>1
    <3> QED
      BY <3>1, <1>4, <1>6
  <2>2. Heirs(plan)
    BY <1>2, <1>5, <1>6, <2>1 DEF Heirs
  <2> QED
    BY <1>6, <2>2 DEF RunOK
<1>8. executions'[t] = plan /\ DOMAIN executions' = Executors
      /\ \A u \in Executors : u # t => executions'[u] = executions[u]
  BY <1>1 DEF LifecycleInv
<1>9. Lifecycle!Registered' = Lifecycle!Registered /\ RecordsOK' /\ CopiesOK'
  BY <1>1 DEF LifecycleInv, RecordsOK, CopiesOK, Lifecycle!Registered, Lifecycle!Propagated, Lifecycle!AllCopies
<1>10. ASSUME NEW u \in Executors PROVE RunOK(executions[u])'
  <2>1. CASE u = t
    <3>1. PICK run : run = plan
      OBVIOUS
    <3>2. RunOK(run) /\ run.at = "planned" /\ Heirs(run)
      BY <1>6, <1>7, <3>1 DEF RunOK, Deleting, RunType
    <3>3. Heirs(run)'
      BY <1>1, <1>9, <3>2 DEF Heirs
    <3>4. executions'[u] = run
      BY <1>8, <2>1, <3>1
    <3> QED
      BY <3>2, <3>3, <3>4 DEF RunOK, Heirs
  <2>2. CASE u # t
    BY <2>2, <1>1, <1>8, <1>9, RunKept
  <2> QED
    BY <2>1, <2>2
<1> QED
  BY <1>8, <1>9, <1>10 DEF LifecycleInv

\* What is registered and how restrictive it is stays as it is when records only get newer versions.
LEMMA RecordsNewer ==
    ASSUME LifecycleInv, records' \in [DataArtifacts -> [state : Lifecycle!States, version : Nat]],
           \A a \in DataArtifacts : \/ records'[a] = records[a]
                               \/ /\ records'[a].version > 0
                                  /\ records[a].version > 0
    PROVE  Lifecycle!Registered' = Lifecycle!Registered /\ RecordsOK'
<1>1. Lifecycle!Registered' = Lifecycle!Registered
  BY DEF Lifecycle!Registered
<1>2. \A a \in DataArtifacts : records'[a].version = 0 => records'[a].state = "active"
  BY DEF LifecycleInv, RecordsOK
<1>3. \A a \in Lifecycle!Registered' : Sources[a] \subseteq Lifecycle!Registered' /\ Lifecycle!Propagated(a)
  BY <1>1 DEF LifecycleInv, RecordsOK
<1> QED
  BY <1>1, <1>2, <1>3 DEF RecordsOK, Lifecycle!Propagated

\* A refused plan is dropped.
LEMMA LifecycleRefuse ==
    ASSUME LifecycleInv, NEW t \in Executors, Lifecycle!RefuseDeletion(t)
    PROVE  LifecycleInv'
<1>1. executions' = [executions EXCEPT ![t] = Lifecycle!Idle] /\ records' = records /\ copies' = copies
  BY DEF Lifecycle!RefuseDeletion
<1>2. Lifecycle!Registered' = Lifecycle!Registered /\ RecordsOK' /\ CopiesOK'
  BY <1>1 DEF LifecycleInv, RecordsOK, CopiesOK, Lifecycle!Registered, Lifecycle!Propagated, Lifecycle!AllCopies
<1>3. executions'[t].at = "idle" /\ DOMAIN executions' = Executors
      /\ \A u \in Executors : u # t => executions'[u] = executions[u]
  BY <1>1 DEF LifecycleInv, Lifecycle!Idle
<1>4. ASSUME NEW u \in Executors PROVE RunOK(executions[u])'
  <2>1. CASE u = t
    BY <1>3, <2>1 DEF RunOK
  <2>2. CASE u # t
    BY <2>2, <1>1, <1>2, <1>3, RunKept
  <2> QED
    BY <2>1, <2>2
<1> QED
  BY <1>2, <1>3, <1>4 DEF LifecycleInv

\* execute_deletion, first part: all that is doomed is tombstoned.
LEMMA LifecycleTombstone ==
    ASSUME LifecycleInv, NEW t \in Executors, Lifecycle!Tombstone(t)
    PROVE  LifecycleInv'
<1>a. PICK plan : plan = executions[t]
  OBVIOUS
<1>b. PICK run : run = [at |-> "deleting", doomed |-> plan.doomed, registered |-> plan.registered,
                        actions |-> UNION {{a} \X Locations[a] : a \in plan.doomed},
                        failed |-> {}, limited |-> {}]
  OBVIOUS
<1>1. /\ plan.at = "planned"
      /\ records' = [a \in DataArtifacts |->
                        IF a \in plan.doomed THEN Lifecycle!Next_state(a, "tombstoned") ELSE records[a]]
      /\ executions' = [executions EXCEPT ![t] = run]
      /\ copies' = copies
  BY <1>a, <1>b DEF Lifecycle!Tombstone
<1>2. Heirs(plan)
  BY <1>a, <1>1 DEF LifecycleInv, RunOK
<1>3. executions'[t] = run /\ DOMAIN executions' = Executors
      /\ \A u \in Executors : u # t => executions'[u] = executions[u]
  BY <1>1 DEF LifecycleInv
<1>4. plan.doomed \subseteq Lifecycle!Registered /\ Lifecycle!Registered \subseteq DataArtifacts
  BY <1>2 DEF Heirs, Lifecycle!Registered
<1>5. run.doomed = plan.doomed /\ run.registered = plan.registered /\ run.at = "deleting"
      /\ \A a \in run.doomed : \A l \in Locations[a] : <<a, l>> \in run.actions
  BY <1>b
<1>6. run \in RunType
  <2>1. run.registered \subseteq DataArtifacts /\ run.actions \subseteq Lifecycle!AllCopies
    BY <1>b, <1>2, <1>4 DEF Heirs, Lifecycle!AllCopies
  <2> QED
    BY <1>b, <1>4, <2>1 DEF RunType
<1>8. \A a \in DataArtifacts : a \notin plan.doomed => records'[a] = records[a]
  BY <1>1
<1>9. \A a \in plan.doomed : records[a].version \in Nat \ {0}
  BY <1>4 DEF LifecycleInv, RecordsOK, Lifecycle!Registered
<1>7. \A a \in plan.doomed :
        /\ records'[a] \in [state : Lifecycle!States, version : Nat]
        /\ records'[a].state = "tombstoned" /\ records'[a].version > 0
  <2> SUFFICES ASSUME NEW a \in plan.doomed
               PROVE  /\ records'[a] \in [state : Lifecycle!States, version : Nat]
                      /\ records'[a].state = "tombstoned" /\ records'[a].version > 0
    OBVIOUS
  <2>1. a \in DataArtifacts
    BY <1>4
  <2>2. records'[a] = [state |-> "tombstoned", version |-> records[a].version + 1]
    BY <1>1, <2>1 DEF Lifecycle!Next_state
  <2>3. PICK n \in Nat \ {0} : n = records[a].version + 1
    BY <1>9
  <2>4. records'[a] = [state |-> "tombstoned", version |-> n]
    BY <2>2, <2>3
  <2> QED
    BY <2>4 DEF Lifecycle!States
<1>10. records' \in [DataArtifacts -> [state : Lifecycle!States, version : Nat]]
  <2>1. ASSUME NEW a \in DataArtifacts
        PROVE  records'[a] \in [state : Lifecycle!States, version : Nat]
    <3>1. CASE a \in plan.doomed
      BY <3>1, <1>7, <1>9 DEF Lifecycle!States
    <3>2. CASE a \notin plan.doomed
      BY <3>2, <1>8 DEF LifecycleInv, RecordsOK
    <3> QED
      BY <3>1, <3>2
  <2> QED
    BY <1>1, <2>1
<1>11. Lifecycle!Registered' = Lifecycle!Registered /\ RecordsOK'
  BY <1>7, <1>8, <1>9, <1>10, RecordsNewer
<1>12. CopiesOK'
  <2>1. \A a \in DataArtifacts : records'[a].state = "verified" => records'[a] = records[a]
    BY <1>7, <1>8
  <2> QED
    BY <1>1, <1>11, <2>1 DEF LifecycleInv, CopiesOK, Lifecycle!AllCopies
<1>13. ASSUME NEW u \in Executors PROVE RunOK(executions[u])'
  <2>1. \A a \in Lifecycle!Registered : records[a].state # "active" => records'[a].state # "active"
    BY <1>4, <1>7, <1>8
  <2>2. CASE u = t
    <3>1. Heirs(run)'
      <4>1. ASSUME NEW a \in run.registered \ Held, Lifecycle!Ancestors(a) \cap run.doomed # {}
            PROVE  a \in run.doomed \/ records'[a].state # "active"
        BY <1>2, <1>5, <2>1, <4>1 DEF Heirs
      <4>2. run.doomed \subseteq Lifecycle!Registered' /\ run.registered \subseteq Lifecycle!Registered'
        BY <1>2, <1>5, <1>11 DEF Heirs
      <4> QED
        BY <4>1, <4>2 DEF Heirs
    <3>2. Deleting(run)'
      <4>1. (run \in RunType)'
        BY <1>6 DEF RunType, Lifecycle!AllCopies
      <4>2. ASSUME NEW a \in run.doomed
            PROVE  /\ records'[a].state # "active"
                   /\ \A l \in Locations[a] : <<a, l>> \in run.actions
        BY <1>5, <1>7
      <4> QED
        BY <4>1, <4>2 DEF Deleting
    <3> QED
      BY <1>3, <2>2, <3>1, <3>2 DEF RunOK
  <2>3. CASE u # t
    BY <2>1, <2>3, <1>1, <1>3, <1>11, RunKept
  <2> QED
    BY <2>2, <2>3
<1> QED
  BY <1>3, <1>11, <1>12, <1>13 DEF LifecycleInv

\* One copy less to deal with: it is gone or its artifact has failed.
LEMMA LifecycleDeleteCopy ==
    ASSUME LifecycleInv, NEW t \in Executors, NEW copy \in Lifecycle!AllCopies, Lifecycle!DeleteCopy(t, copy)
    PROVE  LifecycleInv'
<1>a. PICK run : run = executions[t]
  OBVIOUS
<1>b. PICK r : r = executions'[t]
  OBVIOUS
<1>1. /\ run.at = "deleting" /\ copy \in run.actions /\ records' = records
      /\ copies' \in {copies, copies \ {copy}}
  BY <1>a DEF Lifecycle!DeleteCopy
<1>2. Heirs(run) /\ Deleting(run) /\ run \in RunType
  BY <1>a, <1>1 DEF LifecycleInv, RunOK, Deleting
<1>3. PICK x \in DataArtifacts : \E l \in Locations[x] : copy = <<x, l>>
  BY DEF Lifecycle!AllCopies
<1>4. copy[1] = x
  BY <1>3
<1>5. DOMAIN executions' = Executors /\ \A u \in Executors : u # t => executions'[u] = executions[u]
  BY DEF Lifecycle!DeleteCopy, LifecycleInv
<1>6. PICK spoilt, limited :
        /\ r = [run EXCEPT !.actions = @ \ {copy}, !.failed = spoilt, !.limited = limited]
        /\ run.failed \subseteq spoilt /\ spoilt \subseteq run.failed \cup {x}
        /\ limited \subseteq run.limited \cup {x}
        /\ x \in spoilt \/ copies' = copies \ {copy}
  <2>1. CASE /\ copies' = copies \ {copy}
             /\ executions' = [executions EXCEPT
                    ![t].actions = @ \ {copy},
                    ![t].limited = IF copy[2] \in Limited THEN @ \cup {copy[1]} ELSE @]
    <3>1. PICK limited : limited = IF copy[2] \in Limited THEN run.limited \cup {x} ELSE run.limited
      OBVIOUS
    <3>2. r = [run EXCEPT !.actions = @ \ {copy}, !.limited = limited]
      BY <1>a, <1>b, <1>4, <2>1, <3>1 DEF LifecycleInv
    <3>3. r = [run EXCEPT !.actions = @ \ {copy}, !.failed = run.failed, !.limited = limited]
      BY <1>2, <3>2 DEF RunType
    <3> QED
      BY <2>1, <3>1, <3>3
  <2>2. CASE executions' = [executions EXCEPT
                    ![t].actions = @ \ {copy},
                    ![t].failed = @ \cup {copy[1]}]
    <3>1. r = [run EXCEPT !.actions = @ \ {copy}, !.failed = @ \cup {x}]
      BY <1>a, <1>b, <1>4, <2>2 DEF LifecycleInv
    <3>2. PICK more, same : more = run.failed \cup {x} /\ same = run.limited
      OBVIOUS
    <3>3. r = [run EXCEPT !.actions = @ \ {copy}, !.failed = more, !.limited = same]
      BY <1>2, <3>1, <3>2 DEF RunType
    <3>4. run.failed \subseteq more /\ more \subseteq run.failed \cup {x} /\ x \in more
          /\ same \subseteq run.limited \cup {x}
      BY <3>2
    <3> QED
      BY <3>3, <3>4
  <2> QED
    BY <1>a, <2>1, <2>2 DEF Lifecycle!DeleteCopy
<1>7. /\ r.at = "deleting" /\ r.doomed = run.doomed /\ r.registered = run.registered
      /\ r.actions = run.actions \ {copy} /\ r.failed = spoilt /\ r \in RunType
  BY <1>2, <1>6 DEF RunType
<1>8. Lifecycle!Registered' = Lifecycle!Registered /\ RecordsOK' /\ CopiesOK'
  BY <1>1 DEF LifecycleInv, RecordsOK, CopiesOK, Lifecycle!Registered, Lifecycle!Propagated, Lifecycle!AllCopies
<1>9. ASSUME NEW u \in Executors PROVE RunOK(executions[u])'
  <2>1. CASE u = t
    <3>1. Heirs(r)'
      BY <1>1, <1>2, <1>7, <1>8 DEF Heirs
    <3>2. (r \in RunType)'
      BY <1>7 DEF RunType, Lifecycle!AllCopies
    <3>3. ASSUME NEW a \in r.doomed
          PROVE  /\ records'[a].state # "active"
                 /\ a \in r.failed \/ \A l \in Locations[a] : <<a, l>> \in r.actions \/ <<a, l>> \notin copies'
      <4>1. /\ records[a].state # "active"
            /\ a \in run.failed \/ \A l \in Locations[a] : <<a, l>> \in run.actions \/ <<a, l>> \notin copies
        BY <1>2, <1>7 DEF Deleting
      <4>2. CASE a \in r.failed
        BY <1>1, <4>1, <4>2
      <4>3. CASE a \notin r.failed
        <5>1. a \notin run.failed
          BY <1>6, <1>7, <4>3
        <5>2. ASSUME NEW l \in Locations[a]
              PROVE  <<a, l>> \in r.actions \/ <<a, l>> \notin copies'
          <6>1. CASE <<a, l>> = copy
            <7>1. a = x
              BY <1>4, <6>1
            <7> QED
              BY <1>6, <1>7, <4>3, <6>1, <7>1
          <6>2. CASE <<a, l>> # copy
            BY <1>1, <1>7, <4>1, <5>1, <6>2
          <6> QED
            BY <6>1, <6>2
        <5> QED
          BY <1>1, <4>1, <5>2
      <4> QED
        BY <4>2, <4>3
    <3>4. Deleting(r)'
      BY <3>2, <3>3 DEF Deleting
    <3> QED
      BY <1>b, <2>1, <3>1, <3>4 DEF RunOK
  <2>2. CASE u # t
    BY <1>1, <1>5, <1>8, <2>2, RunKept
  <2> QED
    BY <2>1, <2>2
<1> QED
  BY <1>5, <1>8, <1>9 DEF LifecycleInv

\* execute_deletion, second part: what is verified then has no copy left.
LEMMA LifecycleFinalize ==
    ASSUME LifecycleInv, NEW t \in Executors, Lifecycle!Finalize(t)
    PROVE  LifecycleInv'
<1>a. PICK run : run = executions[t]
  OBVIOUS
<1>1. /\ run.at = "deleting" /\ run.actions = {} /\ copies' = copies
      /\ records' = [a \in DataArtifacts |-> IF a \in run.doomed THEN Lifecycle!Outcome(a, run) ELSE records[a]]
      /\ executions' = [executions EXCEPT ![t] = Lifecycle!Idle]
  BY <1>a DEF Lifecycle!Finalize
<1>2. Heirs(run) /\ Deleting(run)
  BY <1>a, <1>1 DEF LifecycleInv, RunOK, Deleting
<1>3. run.doomed \subseteq Lifecycle!Registered /\ Lifecycle!Registered \subseteq DataArtifacts
  BY <1>2 DEF Heirs, Lifecycle!Registered
<1>4. ASSUME NEW a \in DataArtifacts
      PROVE  \/ records'[a] = records[a]
             \/ /\ a \in run.doomed /\ records[a].version > 0
                /\ records'[a] \in [state : Lifecycle!States, version : Nat] /\ records'[a].version > 0
                /\ \/ records'[a].state = "failed"
                   \/ records'[a].state = "verified" /\ a \notin run.failed
  <2>1. CASE a \notin run.doomed
    BY <1>1, <2>1
  <2>2. CASE a \in run.doomed
    <3>1. records[a].version \in Nat \ {0}
      BY <1>3, <2>2 DEF LifecycleInv, RecordsOK, Lifecycle!Registered
    <3>2. PICK n \in Nat \ {0} : n = records[a].version + 1
      BY <3>1
    <3>3. records'[a] = Lifecycle!Outcome(a, run)
      BY <1>1, <2>2
    <3>4. CASE a \in run.failed
      <4>1. records'[a] = [state |-> "failed", version |-> n]
        BY <3>2, <3>3, <3>4 DEF Lifecycle!Outcome, Lifecycle!Next_state
      <4> QED
        BY <2>2, <3>1, <4>1 DEF Lifecycle!States
    <3>5. CASE a \notin run.failed /\ a \in run.limited
      BY <3>3, <3>5 DEF Lifecycle!Outcome
    <3>6. CASE a \notin run.failed /\ a \notin run.limited
      <4>1. records'[a] = [state |-> "verified", version |-> n]
        BY <3>2, <3>3, <3>6 DEF Lifecycle!Outcome, Lifecycle!Next_state
      <4> QED
        BY <2>2, <3>1, <3>6, <4>1 DEF Lifecycle!States
    <3> QED
      BY <3>4, <3>5, <3>6
  <2> QED
    BY <2>1, <2>2
<1>5. records' \in [DataArtifacts -> [state : Lifecycle!States, version : Nat]]
  <2>1. \A a \in DataArtifacts : records'[a] \in [state : Lifecycle!States, version : Nat]
    BY <1>4 DEF LifecycleInv, RecordsOK
  <2> QED
    BY <1>1, <2>1
<1>6. Lifecycle!Registered' = Lifecycle!Registered /\ RecordsOK'
  BY <1>4, <1>5, RecordsNewer
<1>7. CopiesOK'
  <2>1. copies' \subseteq Lifecycle!AllCopies'
    BY <1>1 DEF LifecycleInv, CopiesOK, Lifecycle!AllCopies
  <2>2. ASSUME NEW a \in DataArtifacts, NEW l \in Locations[a], <<a, l>> \in copies'
        PROVE  a \in Lifecycle!Registered' /\ records'[a].state # "verified"
    <3>1. <<a, l>> \in copies /\ a \in Lifecycle!Registered /\ records[a].state # "verified"
      BY <1>1, <2>2 DEF LifecycleInv, CopiesOK
    <3>2. a \in run.doomed => a \in run.failed
      BY <1>1, <1>2, <3>1 DEF Deleting
    <3> QED
      BY <1>4, <1>6, <3>1, <3>2
  <2> QED
    BY <2>1, <2>2 DEF CopiesOK
<1>8. DOMAIN executions' = Executors /\ executions'[t].at = "idle"
      /\ \A u \in Executors : u # t => executions'[u] = executions[u]
  BY <1>1 DEF LifecycleInv, Lifecycle!Idle
<1>9. ASSUME NEW u \in Executors PROVE RunOK(executions[u])'
  <2>1. CASE u = t
    BY <1>8, <2>1 DEF RunOK
  <2>2. CASE u # t
    <3>1. \A a \in Lifecycle!Registered : records[a].state # "active" => records'[a].state # "active"
      BY <1>3, <1>4
    <3> QED
      BY <1>1, <1>6, <1>8, <2>2, <3>1, RunKept
  <2> QED
    BY <2>1, <2>2
<1> QED
  BY <1>6, <1>7, <1>8, <1>9 DEF LifecycleInv

\* Every operation of the lifecycle keeps LifecycleInv.
LEMMA LifecycleStep == LifecycleInv /\ Lifecycle!Next => LifecycleInv'
BY LifecycleRegister, LifecyclePlan, LifecycleRefuse, LifecycleTombstone, LifecycleDeleteCopy, LifecycleFinalize
   DEF Lifecycle!Next

\* Verified artifacts are gone, the heirs of what is deleted are unavailable and restrictions last.
LEMMA LifecycleSafe ==
    LifecycleInv => Lifecycle!VerifiedIsGone /\ Lifecycle!CascadeUnavailable /\ Lifecycle!RestrictionsKept
<1> SUFFICES ASSUME LifecycleInv
             PROVE  Lifecycle!VerifiedIsGone /\ Lifecycle!CascadeUnavailable /\ Lifecycle!RestrictionsKept
  OBVIOUS
<1>1. Lifecycle!VerifiedIsGone
  BY DEF LifecycleInv, CopiesOK, Lifecycle!VerifiedIsGone
<1>2. Lifecycle!CascadeUnavailable
  <2> SUFFICES ASSUME NEW t \in Executors, executions[t].at = "deleting",
                      NEW a \in executions[t].registered \ Held, NEW use \in DataUses,
                      Lifecycle!Ancestors(a) \cap executions[t].doomed # {}
               PROVE  ~Lifecycle!Usable(a, use)
    BY DEF Lifecycle!CascadeUnavailable
  <2>1. Heirs(executions[t]) /\ Deleting(executions[t])
    BY DEF LifecycleInv, RunOK, Deleting
  <2>2. records[a].state # "active"
    BY <2>1 DEF Heirs, Deleting
  <2> QED
    BY <2>2 DEF Lifecycle!Usable
<1>3. Lifecycle!RestrictionsKept
  <2> SUFFICES ASSUME NEW a \in DataArtifacts, NEW use \in DataUses, Lifecycle!Usable(a, use),
                      NEW s \in Lifecycle!Ancestors(a)
               PROVE  use \notin Restrictions[s]
    BY DEF Lifecycle!RestrictionsKept
  <2>1. a \in Lifecycle!Registered /\ use \notin Restrictions[a]
    BY DEF Lifecycle!Usable
  <2>2. Restrictions[s] \subseteq Restrictions[a]
    BY <2>1, AncestorsRestrict DEF LifecycleInv
  <2> QED
    BY <2>1, <2>2
<1> QED
  BY <1>1, <1>2, <1>3

\* The executions that will change the version of an artifact once more when they end.
Finalizing(a) == {t \in Executors : executions[t].at = "deleting" /\ a \in executions[t].doomed}

\* Versions grow with every tombstone, and no further than that than executions run.
VersionsBounded ==
    \A a \in DataArtifacts :
        records[a].version + Cardinality(Finalizing(a)) <= MaxRecordVersion + Cardinality(Executors)

\* No more executors finalize than there are.
LEMMA FinalizingFinite ==
    ASSUME NEW a
    PROVE  /\ IsFiniteSet(Finalizing(a)) /\ Cardinality(Finalizing(a)) \in Nat
           /\ Cardinality(Executors) \in Nat /\ Cardinality(Finalizing(a)) <= Cardinality(Executors)
<1>1. Finalizing(a) \subseteq Executors /\ IsFiniteSet(Executors)
  BY LifecycleAssumption DEF Finalizing
<1> QED
  BY <1>1, FS_Subset, FS_CardinalityType

\* No record has a version past the bound at the start.
LEMMA VersionsBoundedInit == Lifecycle!Init => VersionsBounded
<1> SUFFICES ASSUME Lifecycle!Init, NEW a \in DataArtifacts
             PROVE  records[a].version + Cardinality(Finalizing(a)) <= MaxRecordVersion + Cardinality(Executors)
  BY DEF VersionsBounded
<1>1. records[a].version = 0
  BY DEF Lifecycle!Init
<1> QED
  BY <1>1, FinalizingFinite, LifecycleAssumption

\* A thread that does not delete afterwards, or deletes the same as before, adds nothing.
LEMMA FinalizingShrinks ==
    ASSUME NEW t, NEW a,
           \A u \in Executors : u # t => executions'[u] = executions[u],
           \/ executions'[t].at # "deleting"
           \/ /\ executions[t].at = "deleting" /\ executions'[t].at = "deleting"
              /\ executions'[t].doomed = executions[t].doomed
    PROVE  Cardinality(Finalizing(a)') <= Cardinality(Finalizing(a))
           /\ Cardinality(Finalizing(a)') \in Nat
<1>1. Finalizing(a)' \subseteq Finalizing(a)
  BY DEF Finalizing
<1> QED
  BY <1>1, FinalizingFinite, FS_Subset, FS_CardinalityType

\* Only finalizing passes the bound, once for each executor that began below it.
LEMMA VersionsBoundedStep ==
    ASSUME LifecycleInv, VersionsBounded, Lifecycle!Next
    PROVE  VersionsBounded'
<1> SUFFICES ASSUME NEW a \in DataArtifacts
             PROVE  records'[a].version + Cardinality(Finalizing(a)') <= MaxRecordVersion + Cardinality(Executors)
  BY DEF VersionsBounded
<1>0. /\ DOMAIN executions = Executors /\ records[a].version \in Nat
      /\ Cardinality(Finalizing(a)) \in Nat /\ Cardinality(Executors) \in Nat /\ MaxRecordVersion \in Nat \ {0}
      /\ Cardinality(Finalizing(a)) <= Cardinality(Executors)
      /\ records[a].version + Cardinality(Finalizing(a)) <= MaxRecordVersion + Cardinality(Executors)
      /\ DOMAIN records = DataArtifacts
  BY FinalizingFinite, LifecycleAssumption DEF LifecycleInv, RecordsOK, VersionsBounded
<1>1. ASSUME NEW b \in DataArtifacts, Lifecycle!Register(b)
      PROVE  records'[a].version + Cardinality(Finalizing(a)') <= MaxRecordVersion + Cardinality(Executors)
  <2>1. Finalizing(a)' = Finalizing(a)
    BY <1>1 DEF Lifecycle!Register, Finalizing
  <2>2. records'[a].version = IF a = b THEN 1 ELSE records[a].version
    BY <1>0, <1>1 DEF Lifecycle!Register
  <2> QED
    BY <1>0, <2>1, <2>2
<1>2. ASSUME NEW t \in Executors, NEW target, Lifecycle!PlanDeletion(t, target)
      PROVE  records'[a].version + Cardinality(Finalizing(a)') <= MaxRecordVersion + Cardinality(Executors)
  <2>1. records' = records /\ \A u \in Executors : u # t => executions'[u] = executions[u]
    BY <1>0, <1>2 DEF Lifecycle!PlanDeletion
  <2>2. executions'[t].at = "planned"
    BY <1>0, <1>2 DEF Lifecycle!PlanDeletion
  <2>3. Cardinality(Finalizing(a)') <= Cardinality(Finalizing(a)) /\ Cardinality(Finalizing(a)') \in Nat
    BY <2>1, <2>2, FinalizingShrinks
  <2> QED
    BY <1>0, <2>1, <2>3
<1>3. ASSUME NEW t \in Executors, Lifecycle!RefuseDeletion(t)
      PROVE  records'[a].version + Cardinality(Finalizing(a)') <= MaxRecordVersion + Cardinality(Executors)
  <2>1. records' = records /\ \A u \in Executors : u # t => executions'[u] = executions[u]
    BY <1>0, <1>3 DEF Lifecycle!RefuseDeletion
  <2>2. executions'[t].at = "idle"
    BY <1>0, <1>3 DEF Lifecycle!RefuseDeletion, Lifecycle!Idle
  <2>3. Cardinality(Finalizing(a)') <= Cardinality(Finalizing(a)) /\ Cardinality(Finalizing(a)') \in Nat
    BY <2>1, <2>2, FinalizingShrinks
  <2> QED
    BY <1>0, <2>1, <2>3
<1>4. ASSUME NEW t \in Executors, Lifecycle!Tombstone(t)
      PROVE  records'[a].version + Cardinality(Finalizing(a)') <= MaxRecordVersion + Cardinality(Executors)
  <2> DEFINE doomed == executions[t].doomed
  <2>1. /\ executions[t].at = "planned"
        /\ a \in doomed => records[a].version < MaxRecordVersion
        /\ records'[a].version = IF a \in doomed THEN records[a].version + 1 ELSE records[a].version
    <3>1. executions[t].at = "planned" /\ \A b \in doomed : records[b].version < MaxRecordVersion
      BY <1>4 DEF Lifecycle!Tombstone
    <3>2. records' = [b \in DataArtifacts |-> IF b \in doomed THEN Lifecycle!Next_state(b, "tombstoned") ELSE records[b]]
      BY <1>4 DEF Lifecycle!Tombstone
    <3> QED
      BY <3>1, <3>2 DEF Lifecycle!Next_state
  <2>2. \A u \in Executors : u # t => executions'[u] = executions[u]
    BY <1>0, <1>4 DEF Lifecycle!Tombstone
  <2>3. executions'[t].doomed = doomed
    BY <1>0, <1>4 DEF Lifecycle!Tombstone
  <2>4. CASE a \in doomed
    <3>1. IsFiniteSet(Executors) /\ Finalizing(a)' \subseteq Executors
      BY LifecycleAssumption DEF Finalizing
    <3>2. Cardinality(Finalizing(a)') \in Nat /\ Cardinality(Finalizing(a)') <= Cardinality(Executors)
      BY <3>1, FS_Subset, FS_CardinalityType
    <3> QED
      BY <1>0, <2>1, <2>4, <3>2
  <2>5. CASE a \notin doomed
    <3>1. Finalizing(a)' \subseteq Finalizing(a)
      BY <2>2, <2>3, <2>5 DEF Finalizing
    <3>2. Cardinality(Finalizing(a)') <= Cardinality(Finalizing(a)) /\ Cardinality(Finalizing(a)') \in Nat
      BY <3>1, FinalizingFinite, FS_Subset, FS_CardinalityType
    <3> QED
      BY <1>0, <2>1, <2>5, <3>2
  <2> QED
    BY <2>4, <2>5
<1>5. ASSUME NEW t \in Executors, Lifecycle!Finalize(t)
      PROVE  records'[a].version + Cardinality(Finalizing(a)') <= MaxRecordVersion + Cardinality(Executors)
  <2> DEFINE doomed == executions[t].doomed
  <2>1. /\ executions[t].at = "deleting"
        /\ \/ records'[a].version = records[a].version
           \/ a \in doomed /\ records'[a].version = records[a].version + 1
    <3>1. executions[t].at = "deleting"
      BY <1>5 DEF Lifecycle!Finalize
    <3>2. records' = [b \in DataArtifacts |-> IF b \in doomed THEN Lifecycle!Outcome(b, executions[t]) ELSE records[b]]
      BY <1>5 DEF Lifecycle!Finalize
    <3> QED
      BY <3>1, <3>2 DEF Lifecycle!Next_state, Lifecycle!Outcome
  <2>2. executions'[t].at = "idle" /\ \A u \in Executors : u # t => executions'[u] = executions[u]
    BY <1>0, <1>5 DEF Lifecycle!Finalize, Lifecycle!Idle
  <2>3. CASE records'[a].version = records[a].version
    <3>1. Cardinality(Finalizing(a)') <= Cardinality(Finalizing(a)) /\ Cardinality(Finalizing(a)') \in Nat
      BY <2>2, FinalizingShrinks
    <3> QED
      BY <1>0, <2>3, <3>1
  <2>4. CASE a \in doomed /\ records'[a].version = records[a].version + 1
    <3>1. t \in Finalizing(a) /\ Finalizing(a)' = Finalizing(a) \ {t}
      BY <2>1, <2>2, <2>4 DEF Finalizing
    <3>2. Cardinality(Finalizing(a)') = Cardinality(Finalizing(a)) - 1
      BY <3>1, FinalizingFinite, FS_RemoveElement
    <3> QED
      BY <1>0, <2>4, <3>2
  <2> QED
    BY <2>1, <2>3, <2>4
<1>6. ASSUME NEW t \in Executors, NEW copy, Lifecycle!DeleteCopy(t, copy)
      PROVE  records'[a].version + Cardinality(Finalizing(a)') <= MaxRecordVersion + Cardinality(Executors)
  <2>1. executions[t].at = "deleting" /\ RunOK(executions[t]) /\ records' = records
    BY <1>6 DEF Lifecycle!DeleteCopy, LifecycleInv
  <2>2. executions[t] \in RunType
    BY <2>1 DEF RunOK, Deleting
  <2>3. /\ executions'[t].at = executions[t].at /\ executions'[t].doomed = executions[t].doomed
        /\ \A u \in Executors : u # t => executions'[u] = executions[u]
    BY <1>0, <1>6, <2>2 DEF Lifecycle!DeleteCopy, RunType
  <2>4. Cardinality(Finalizing(a)') <= Cardinality(Finalizing(a)) /\ Cardinality(Finalizing(a)') \in Nat
    BY <2>1, <2>3, FinalizingShrinks
  <2> QED
    BY <1>0, <2>1, <2>4
<1> QED
  BY <1>1, <1>2, <1>3, <1>4, <1>5, <1>6 DEF Lifecycle!Next

\* The two invariants of the lifecycle have its types.
LEMMA LifecycleTyped == LifecycleInv /\ VersionsBounded => Lifecycle!TypeOK
<1> SUFFICES ASSUME LifecycleInv, VersionsBounded PROVE Lifecycle!TypeOK
  OBVIOUS
<1>1. ASSUME NEW a \in DataArtifacts
      PROVE  records[a].state \in Lifecycle!States /\ records[a].version \in 0..MaxRecordVersion + Cardinality(Executors)
  <2>1. records[a].state \in Lifecycle!States /\ records[a].version \in Nat
    BY DEF LifecycleInv, RecordsOK
  <2>2. records[a].version + Cardinality(Finalizing(a)) <= MaxRecordVersion + Cardinality(Executors)
        /\ Cardinality(Finalizing(a)) \in Nat /\ Cardinality(Executors) \in Nat /\ MaxRecordVersion \in Nat
    BY FinalizingFinite, LifecycleAssumption DEF VersionsBounded
  <2> QED
    BY <2>1, <2>2
<1>2. \A t \in Executors : executions[t].at \in {"idle", "planned", "deleting"}
  BY DEF LifecycleInv, RunOK, Deleting, RunType
<1> QED
  BY <1>1, <1>2 DEF LifecycleInv, CopiesOK, Lifecycle!TypeOK, Lifecycle!Cardinality, Cardinality

-----------------------------------------------------------------------------
(* Ingestion and quarantine *)

\* Finitely many artifacts derive from documents and from one another.
ASSUME IngestionAssumption ==
    /\ IsFiniteSet(Derived) /\ Documents \cap Derived = {}
    /\ Upstream \in [Derived -> SUBSET (Documents \cup Derived)]
    /\ SyncOf \in [Authorizations -> Syncs]
    /\ MaxDocuments \in Nat /\ MaxLineage \in Nat

\* Nothing is recorded before what it derives from, quarantines are complete, an authorization that
\* ended badly never goes on, and what was accepted is recorded for the synchronization of its
\* authorization.
IngestionInv ==
    /\ active \in [Authorizations -> Int] /\ DOMAIN synced = Documents
    /\ \A x \in parents \cap Derived : Upstream[x] \subseteq parents
    /\ Ingestion!QuarantineClosed
    /\ \A a \in Authorizations : a \notin issued => active[a] = -1
    /\ \A a \in rejected : a \in Authorizations \cap issued /\ active[a] = -1
    /\ brought \in [Documents -> SUBSET Authorizations]
    /\ \A d \in Documents, a \in Authorizations : a \in brought[d] => d \in parents /\ synced[d] = SyncOf[a]
    /\ Ingestion!RejectedSyncUnusable

\* What a quarantine reaches holds its seeds and all recorded artifacts that derive from what it holds,
\* and nothing else.
LEMMA ReachedClosed ==
    ASSUME NEW seeds
    PROVE  /\ seeds \subseteq Ingestion!Reached(seeds)
           /\ Ingestion!Reached(seeds) \subseteq seeds \cup parents
           /\ Born(parents \cap Derived, Upstream, Ingestion!Reached(seeds)) \subseteq Ingestion!Reached(seeds)
<1> DEFINE R == parents \cap Derived
           N == Cardinality(Derived)
           f == CHOOSE f : Climbing(f, R, Upstream, seeds, N)
<1>1. N \in Nat /\ IsFiniteSet(R) /\ Cardinality(R) <= N
  BY IngestionAssumption, FS_Subset, FS_CardinalityType
<1>2. Ingestion!Reached(seeds) = f[N]
  BY DEF Ingestion!Reached, Ingestion!Children, Climbing, Born, Ingestion!Cardinality, Cardinality
<1> HIDE DEF R, N
<1>3. Climbing(f, R, Upstream, seeds, N)
  BY <1>1, ClimbExists
<1> HIDE DEF f
<1>4. seeds \subseteq f[N] /\ f[N] \subseteq seeds \cup R
  BY <1>1, <1>3, ClimbUp
<1>5. Born(R, Upstream, f[N]) \subseteq f[N]
  BY <1>1, <1>3, ClimbClosed
<1> QED
  BY <1>2, <1>4, <1>5 DEF R

\* A quarantine leaves the quarantine complete and what was in it there.
LEMMA QuarantineKeeps ==
    ASSUME IngestionInv, NEW seeds, parents' = parents, quarantined' = quarantined \cup Ingestion!Reached(seeds)
    PROVE  Ingestion!QuarantineClosed' /\ seeds \subseteq quarantined' /\ quarantined \subseteq quarantined'
<1>1. seeds \subseteq quarantined' /\ quarantined \subseteq quarantined'
  BY ReachedClosed
<1>2. ASSUME NEW x \in parents \cap Derived, Upstream[x] \cap quarantined' # {}
      PROVE  x \in quarantined'
  <2>1. CASE Upstream[x] \cap quarantined # {}
    BY <2>1 DEF IngestionInv, Ingestion!QuarantineClosed
  <2>2. CASE Upstream[x] \cap Ingestion!Reached(seeds) # {}
    <3>1. x \in Born(parents \cap Derived, Upstream, Ingestion!Reached(seeds))
      BY <2>2 DEF Born
    <3> QED
      BY <3>1, ReachedClosed
  <2> QED
    BY <1>2, <2>1, <2>2
<1> QED
  BY <1>1, <1>2 DEF Ingestion!QuarantineClosed

\* Where the quarantine alone grows, the lineage and what is rejected are as before.
LEMMA QuarantineGrows ==
    ASSUME IngestionInv, NEW seeds, quarantined' = quarantined \cup Ingestion!Reached(seeds),
           UNCHANGED <<active, issued, parents, synced, brought, rejected>>
    PROVE  IngestionInv'
<1>1. Ingestion!QuarantineClosed' /\ quarantined \subseteq quarantined'
  BY QuarantineKeeps
<1>2. Ingestion!RejectedSyncUnusable'
  BY <1>1 DEF IngestionInv, Ingestion!RejectedSyncUnusable, Ingestion!Usable
<1> QED
  BY <1>1, <1>2 DEF IngestionInv

\* No synchronization has begun at the start.
LEMMA IngestionInit == Ingestion!Init => IngestionInv
<1> SUFFICES ASSUME Ingestion!Init PROVE IngestionInv
  OBVIOUS
<1>1. /\ active = [a \in Authorizations |-> -1] /\ DOMAIN synced = Documents
      /\ parents = {} /\ rejected = {} /\ brought = [d \in Documents |-> {}]
  BY DEF Ingestion!Init
<1> QED
  BY <1>1 DEF IngestionInv, Ingestion!QuarantineClosed, Ingestion!RejectedSyncUnusable

\* authorize_sync: a new authorization, not one that was rejected.
LEMMA IngestionAuthorize ==
    ASSUME IngestionInv, NEW a \in Authorizations, Ingestion!AuthorizeSync(a)
    PROVE  IngestionInv'
<1>1. /\ a \notin issued /\ issued' = issued \cup {a} /\ active' = [active EXCEPT ![a] = 0]
      /\ UNCHANGED <<parents, synced, quarantined, brought, rejected>>
  BY DEF Ingestion!AuthorizeSync
<1>2. active' \in [Authorizations -> Int] /\ \A r \in Authorizations : r # a => active'[r] = active[r]
  BY <1>1 DEF IngestionInv
<1>3. \A r \in Authorizations : r \notin issued' => active'[r] = -1
  BY <1>1, <1>2 DEF IngestionInv
<1>4. \A r \in rejected' : r \in Authorizations \cap issued' /\ active'[r] = -1
  BY <1>1, <1>2 DEF IngestionInv
<1>5. Ingestion!RejectedSyncUnusable' /\ Ingestion!QuarantineClosed'
  BY <1>1 DEF IngestionInv, Ingestion!RejectedSyncUnusable, Ingestion!Usable, Ingestion!QuarantineClosed
<1> QED
  BY <1>1, <1>2, <1>3, <1>4, <1>5 DEF IngestionInv

\* A call that is refused quarantines.
LEMMA IngestionRefuse ==
    ASSUME IngestionInv, NEW s, Ingestion!RefuseSync(s)
    PROVE  IngestionInv'
<1>1. /\ Ingestion!Quarantine(s)
      /\ UNCHANGED <<active, issued, parents, synced, brought, rejected>>
  BY DEF Ingestion!RefuseSync
<1>2. PICK seeds : quarantined' = quarantined \cup Ingestion!Reached(seeds)
  BY <1>1 DEF Ingestion!Quarantine
<1> QED
  BY <1>1, <1>2, QuarantineGrows

\* verify_document: accepted under an authorization that is active.
LEMMA IngestionVerify ==
    ASSUME IngestionInv, NEW a \in Authorizations, NEW d \in Documents, Ingestion!VerifyDocument(a, d)
    PROVE  IngestionInv'
<1>1. CASE /\ active[a] >= 0
           /\ d \in parents => synced[d] = SyncOf[a]
           /\ parents' = parents \cup {d} /\ synced' = [synced EXCEPT ![d] = SyncOf[a]]
           /\ brought' = [brought EXCEPT ![d] = @ \cup {a}]
           /\ active' = [active EXCEPT ![a] = @ + 1]
           /\ issued' = issued /\ quarantined' = quarantined /\ rejected' = rejected
  <2>1. active' \in [Authorizations -> Int] /\ DOMAIN synced' = Documents
        /\ \A r \in Authorizations : r # a => active'[r] = active[r]
    BY <1>1 DEF IngestionInv
  <2>2. a \notin rejected /\ a \in issued
    BY <1>1 DEF IngestionInv
  <2>3. d \notin Derived
    BY IngestionAssumption
  <2>4. \A x \in parents' \cap Derived : x \in parents \cap Derived /\ Upstream[x] \subseteq parents'
    BY <1>1, <2>3 DEF IngestionInv
  <2>5. Ingestion!QuarantineClosed'
    BY <1>1, <2>4 DEF IngestionInv, Ingestion!QuarantineClosed
  <2>6. /\ \A r \in rejected' : r \in Authorizations \cap issued' /\ active'[r] = -1
        /\ \A r \in Authorizations : r \notin issued' => active'[r] = -1
    BY <1>1, <2>1, <2>2 DEF IngestionInv
  <2>7. /\ brought' \in [Documents -> SUBSET Authorizations]
        /\ brought'[d] = brought[d] \cup {a} /\ synced'[d] = SyncOf[a]
        /\ \A e \in Documents : e # d => brought'[e] = brought[e] /\ synced'[e] = synced[e]
    BY <1>1 DEF IngestionInv
  <2>8. ASSUME NEW e \in Documents, NEW r \in Authorizations, r \in brought'[e]
        PROVE  e \in parents' /\ synced'[e] = SyncOf[r]
    BY <1>1, <2>7, <2>8 DEF IngestionInv
  <2>9. ASSUME NEW e \in Documents, NEW r \in rejected', r \in brought'[e]
        PROVE  e \notin parents' \ quarantined'
    <3>1. r # a /\ r \in brought[e] /\ r \in Authorizations
      BY <1>1, <2>2, <2>7, <2>9 DEF IngestionInv
    <3>2. e \in parents /\ e \notin parents \ quarantined
      BY <1>1, <3>1 DEF IngestionInv, Ingestion!RejectedSyncUnusable, Ingestion!Usable
    <3> QED
      BY <1>1, <3>2
  <2>10. Ingestion!RejectedSyncUnusable'
    BY <2>9 DEF Ingestion!RejectedSyncUnusable, Ingestion!Usable
  <2> QED
    BY <2>1, <2>4, <2>5, <2>6, <2>7, <2>8, <2>10 DEF IngestionInv
<1>2. CASE Ingestion!RefuseSync(SyncOf[a])
  BY <1>2, IngestionRefuse
<1> QED
  BY <1>1, <1>2 DEF Ingestion!VerifyDocument

\* complete_sync: the end of the authorization, and the quarantine of what its synchronization brought
\* when it is refused.
LEMMA IngestionComplete ==
    ASSUME IngestionInv, NEW a \in Authorizations, Ingestion!CompleteSync(a)
    PROVE  IngestionInv'
<1>1. /\ a \in issued /\ active' = [active EXCEPT ![a] = -1]
      /\ UNCHANGED <<issued, parents, synced, brought>>
  BY DEF Ingestion!CompleteSync, Ingestion!Consumed
<1>2. /\ active' \in [Authorizations -> Int] /\ active'[a] = -1
      /\ \A r \in Authorizations : r # a => active'[r] = active[r]
      /\ \A r \in Authorizations : r \notin issued' => active'[r] = -1
  BY <1>1 DEF IngestionInv
<1>3. CASE quarantined' = quarantined /\ rejected' = rejected
  <2>1. Ingestion!RejectedSyncUnusable' /\ Ingestion!QuarantineClosed'
    BY <1>1, <1>3 DEF IngestionInv, Ingestion!RejectedSyncUnusable, Ingestion!Usable, Ingestion!QuarantineClosed
  <2>2. \A r \in rejected' : r \in Authorizations \cap issued' /\ active'[r] = -1
    BY <1>1, <1>2, <1>3 DEF IngestionInv
  <2> QED
    BY <1>1, <1>2, <2>1, <2>2 DEF IngestionInv
<1>4. CASE Ingestion!Quarantine(SyncOf[a]) /\ rejected' = rejected \cup {a}
  <2>1. PICK seeds \in {Ingestion!OfSync(SyncOf[a]), Documents \cap parents} :
            quarantined' = quarantined \cup Ingestion!Reached(seeds)
    BY <1>4 DEF Ingestion!Quarantine
  <2>2. Ingestion!QuarantineClosed' /\ seeds \subseteq quarantined' /\ quarantined \subseteq quarantined'
    BY <1>1, <2>1, QuarantineKeeps
  <2>3. Ingestion!OfSync(SyncOf[a]) \subseteq quarantined'
    BY <2>1, <2>2 DEF Ingestion!OfSync
  <2>4. ASSUME NEW d \in Documents, a \in brought[d] PROVE d \in quarantined'
    BY <2>3, <2>4 DEF IngestionInv, Ingestion!OfSync
  <2>5. Ingestion!RejectedSyncUnusable'
    BY <1>1, <1>4, <2>2, <2>4 DEF IngestionInv, Ingestion!RejectedSyncUnusable, Ingestion!Usable
  <2>6. \A r \in rejected' : r \in Authorizations \cap issued' /\ active'[r] = -1
    BY <1>1, <1>2, <1>4 DEF IngestionInv
  <2> QED
    BY <1>1, <1>2, <2>2, <2>5, <2>6 DEF IngestionInv
<1> QED
  BY <1>3, <1>4 DEF Ingestion!CompleteSync

\* register_downstream_artifact: quarantined when it is registered if it derives from something that is.
LEMMA IngestionRegister ==
    ASSUME IngestionInv, NEW x \in Derived, Ingestion!RegisterDownstream(x)
    PROVE  IngestionInv'
<1>1. /\ Upstream[x] \subseteq parents /\ parents' = parents \cup {x}
      /\ quarantined' = quarantined \cup Ingestion!Joins(x)
      /\ UNCHANGED <<active, issued, synced, brought, rejected>>
  BY DEF Ingestion!RegisterDownstream
<1>2. \A y \in parents' \cap Derived : Upstream[y] \subseteq parents'
  BY <1>1 DEF IngestionInv
<1>3. ASSUME NEW y \in parents' \cap Derived, Upstream[y] \cap quarantined' # {}
      PROVE  y \in quarantined'
  <2>1. CASE Upstream[y] \cap quarantined # {}
    BY <1>1, <2>1 DEF IngestionInv, Ingestion!QuarantineClosed, Ingestion!Joins
  <2>2. CASE Upstream[y] \cap quarantined = {}
    <3>1. Ingestion!Joins(x) = {x} /\ x \in Upstream[y] /\ Upstream[x] \cap quarantined # {}
      BY <1>1, <1>3, <2>2 DEF Ingestion!Joins
    <3>2. x \in parents
      BY <1>1, <3>1 DEF IngestionInv
    <3>3. x \in quarantined
      BY <3>1, <3>2 DEF IngestionInv, Ingestion!QuarantineClosed
    <3> QED
      BY <2>2, <3>1, <3>3
  <2> QED
    BY <2>1, <2>2
<1>4. Ingestion!QuarantineClosed'
  BY <1>3 DEF Ingestion!QuarantineClosed
<1>5. Ingestion!RejectedSyncUnusable'
  <2>1. \A d \in Documents : d \in parents' => d \in parents
    BY <1>1, IngestionAssumption
  <2> QED
    BY <1>1, <2>1 DEF IngestionInv, Ingestion!RejectedSyncUnusable, Ingestion!Usable
<1> QED
  BY <1>1, <1>2, <1>4, <1>5 DEF IngestionInv

\* quarantine_connector: all documents and what derives from them.
LEMMA IngestionQuarantine ==
    ASSUME IngestionInv, Ingestion!QuarantineConnector
    PROVE  IngestionInv'
<1>1. /\ quarantined' = quarantined \cup Ingestion!Reached(Documents \cap parents)
      /\ UNCHANGED <<active, issued, parents, synced, brought, rejected>>
  BY DEF Ingestion!QuarantineConnector
<1> QED
  BY <1>1, QuarantineGrows

\* Every operation of the connectors keeps IngestionInv.
LEMMA IngestionStep == IngestionInv /\ Ingestion!Next => IngestionInv'
BY IngestionAuthorize, IngestionRefuse, IngestionVerify, IngestionComplete, IngestionRegister, IngestionQuarantine
   DEF Ingestion!Next

\* What is recorded are artifacts, no more than the lineage store holds, and only these are quarantined.
IngestionBounded == Ingestion!TypeOK /\ IsFiniteSet(parents)

\* Nothing is ingested at the start.
LEMMA IngestionBoundedInit == Ingestion!Init => IngestionBounded
<1> SUFFICES ASSUME Ingestion!Init PROVE IngestionBounded
  OBVIOUS
<1>1. Cardinality({}) = 0 /\ IsFiniteSet({})
  BY FS_EmptySet
<1>2. -1 \in -1..MaxDocuments
  BY IngestionAssumption
<1> QED
  BY <1>1, <1>2, IngestionAssumption DEF Ingestion!Init, IngestionBounded, Ingestion!TypeOK, Ingestion!Cardinality, Cardinality

\* There is room for what is recorded.
LEMMA Recorded ==
    ASSUME IngestionBounded, NEW x \in Documents \cup Derived, Ingestion!Room(x), parents' = parents \cup {x}
    PROVE  /\ parents' \subseteq Ingestion!Artifacts
           /\ Ingestion!Cardinality(parents') <= MaxLineage /\ IsFiniteSet(parents')
<1>1. /\ IsFiniteSet(parents) /\ Cardinality(parents) <= MaxLineage /\ Cardinality(parents) \in Nat
      /\ x \in parents \/ Cardinality(parents) < MaxLineage
      /\ parents \subseteq Ingestion!Artifacts
  BY FS_CardinalityType DEF IngestionBounded, Ingestion!TypeOK, Ingestion!Room, Ingestion!Cardinality, Cardinality
<1>2. parents' \subseteq Ingestion!Artifacts
  BY <1>1 DEF Ingestion!Artifacts
<1>3. /\ IsFiniteSet(parents \cup {x})
      /\ Cardinality(parents \cup {x}) = IF x \in parents THEN Cardinality(parents) ELSE Cardinality(parents) + 1
  BY <1>1, FS_AddElement
<1>4. Cardinality(parents') <= MaxLineage /\ IsFiniteSet(parents')
  BY <1>1, <1>3, IngestionAssumption
<1> QED
  BY <1>2, <1>4 DEF Ingestion!Cardinality, Cardinality

\* What a quarantine reaches is recorded.
LEMMA QuarantinesRecorded ==
    ASSUME IngestionBounded, NEW s
    PROVE  /\ Ingestion!Quarantine(s) => quarantined' \subseteq parents
           /\ Ingestion!QuarantineConnector => quarantined' \subseteq parents
<1>1. quarantined \subseteq parents
  BY DEF IngestionBounded, Ingestion!TypeOK
<1>2. Ingestion!OfSync(s) \subseteq parents /\ Documents \cap parents \subseteq parents
  BY DEF Ingestion!OfSync
<1>3. /\ Ingestion!Reached(Ingestion!OfSync(s)) \subseteq parents
      /\ Ingestion!Reached(Documents \cap parents) \subseteq parents
  BY <1>2, ReachedClosed
<1> QED
  BY <1>1, <1>3 DEF Ingestion!Quarantine, Ingestion!QuarantineConnector

\* Documents and lineage stay within their bounds.
LEMMA IngestionBoundedStep ==
    ASSUME IngestionBounded, Ingestion!Next
    PROVE  IngestionBounded'
<1>0. /\ active \in [Authorizations -> -1..MaxDocuments] /\ MaxDocuments \in Nat
      /\ synced \in [Documents -> Syncs \cup {"none"}] /\ quarantined \subseteq parents
      /\ parents \subseteq Ingestion!Artifacts /\ Ingestion!Cardinality(parents) <= MaxLineage /\ IsFiniteSet(parents)
  BY IngestionAssumption DEF IngestionBounded, Ingestion!TypeOK
<1>1. ASSUME NEW a \in Authorizations, Ingestion!AuthorizeSync(a) PROVE IngestionBounded'
  <2>1. /\ parents' = parents /\ synced' = synced /\ quarantined' = quarantined
        /\ active' \in [Authorizations -> -1..MaxDocuments]
    BY <1>0, <1>1 DEF Ingestion!AuthorizeSync
  <2> QED
    BY <1>0, <2>1 DEF IngestionBounded, Ingestion!TypeOK
<1>2. ASSUME NEW a \in Authorizations, Ingestion!CompleteSync(a) PROVE IngestionBounded'
  <2>1. parents' = parents /\ synced' = synced /\ active' = [active EXCEPT ![a] = -1]
    BY <1>2 DEF Ingestion!CompleteSync, Ingestion!Consumed
  <2>2. active' \in [Authorizations -> -1..MaxDocuments]
    BY <1>0, <2>1
  <2>3. quarantined' \subseteq parents'
    BY <1>0, <1>2, <2>1, QuarantinesRecorded DEF Ingestion!CompleteSync
  <2> QED
    BY <1>0, <2>1, <2>2, <2>3 DEF IngestionBounded, Ingestion!TypeOK
<1>3. ASSUME NEW s, Ingestion!RefuseSync(s) PROVE IngestionBounded'
  <2>1. parents' = parents /\ synced' = synced /\ active' = active /\ quarantined' \subseteq parents'
    BY <1>3, QuarantinesRecorded DEF Ingestion!RefuseSync
  <2> QED
    BY <1>0, <2>1 DEF IngestionBounded, Ingestion!TypeOK
<1>4. ASSUME NEW a \in Authorizations, NEW d \in Documents, Ingestion!VerifyDocument(a, d) PROVE IngestionBounded'
  <2>1. CASE Ingestion!RefuseSync(SyncOf[a])
    BY <1>3, <2>1
  <2>2. CASE /\ active[a] >= 0 /\ active[a] < MaxDocuments
             /\ Ingestion!Room(d) /\ parents' = parents \cup {d} /\ synced' = [synced EXCEPT ![d] = SyncOf[a]]
             /\ active' = [active EXCEPT ![a] = @ + 1] /\ quarantined' = quarantined
    <3>1. active' \in [Authorizations -> -1..MaxDocuments]
      <4>1. active[a] \in -1..MaxDocuments /\ active[a] + 1 \in -1..MaxDocuments
        BY <1>0, <2>2
      <4> QED
        BY <1>0, <2>2, <4>1
    <3>2. synced' \in [Documents -> Syncs \cup {"none"}]
      <4>1. SyncOf[a] \in Syncs
        BY IngestionAssumption
      <4> QED
        BY <1>0, <2>2, <4>1
    <3>3. /\ parents' \subseteq Ingestion!Artifacts
          /\ Ingestion!Cardinality(parents') <= MaxLineage /\ IsFiniteSet(parents')
      BY <2>2, Recorded
    <3>4. quarantined' \subseteq parents'
      BY <1>0, <2>2
    <3> QED
      BY <3>1, <3>2, <3>3, <3>4 DEF IngestionBounded, Ingestion!TypeOK
  <2> QED
    BY <1>4, <2>1, <2>2 DEF Ingestion!VerifyDocument
<1>5. ASSUME NEW x \in Derived, Ingestion!RegisterDownstream(x) PROVE IngestionBounded'
  <2>1. /\ Ingestion!Room(x) /\ parents' = parents \cup {x} /\ quarantined' \subseteq quarantined \cup {x}
        /\ active' = active /\ synced' = synced
    BY <1>5 DEF Ingestion!RegisterDownstream, Ingestion!Joins
  <2>2. /\ parents' \subseteq Ingestion!Artifacts
        /\ Ingestion!Cardinality(parents') <= MaxLineage /\ IsFiniteSet(parents')
    BY <2>1, Recorded
  <2> QED
    BY <1>0, <2>1, <2>2 DEF IngestionBounded, Ingestion!TypeOK
<1>6. ASSUME Ingestion!QuarantineConnector PROVE IngestionBounded'
  <2>1. quarantined' \subseteq parents
    BY <1>6, QuarantinesRecorded
  <2> QED
    BY <1>0, <1>6, <2>1 DEF Ingestion!QuarantineConnector, IngestionBounded, Ingestion!TypeOK
<1> QED
  BY <1>1, <1>2, <1>3, <1>4, <1>5, <1>6 DEF Ingestion!Next

-----------------------------------------------------------------------------
(* Obligations of labelled data *)

\* Artifacts are finitely many and derive from artifacts; labels are well formed; times are numbers.
ASSUME ObligationsAssumption ==
    /\ IsFiniteSet(Datasets) /\ DatasetSources \in [Datasets -> SUBSET Datasets]
    /\ DatasetLabels \subseteq Obligations!LabelsType /\ Times \subseteq Nat /\ MaxDepth \in Nat

\* Labels that derived data may have when a source has those: nothing is gained by deriving.
Covers(source, derived) ==
    /\ source.classification <= derived.classification
    /\ derived.residencies \subseteq source.residencies /\ derived.purposes \subseteq source.purposes
    /\ Obligations!ConsentRank[source.consent] <= Obligations!ConsentRank[derived.consent]
    /\ derived.retention <= source.retention
    /\ source.subjects \subseteq derived.subjects

\* Whatever is registered was permitted, after its sources and with what they demand.
ObligationsInv ==
    /\ DOMAIN labelled = Datasets
    /\ \A a \in Obligations!Registered :
        /\ labelled[a].labels \in Obligations!LabelsType
        /\ labelled[a].labels.consent = "granted" => labelled[a].labels.classification \in TrainingClasses
        /\ \A s \in DatasetSources[a] :
            s \in Obligations!Registered /\ Covers(labelled[s].labels, labelled[a].labels)

\* Ranks of consent are numbers, granted is the lowest.
LEMMA ConsentRanks ==
    \A c \in DOMAIN Obligations!ConsentRank :
        Obligations!ConsentRank[c] \in Nat /\ (Obligations!ConsentRank[c] <= 0 => c = "granted")
BY DEF Obligations!ConsentRank

\* The parts of labels.
LEMMA LabelParts ==
    ASSUME NEW l \in Obligations!LabelsType
    PROVE  l.classification \in Nat /\ l.retention \in Nat /\ Obligations!ConsentRank[l.consent] \in Nat
<1>1. l.classification \in 0..3 /\ l.retention \in Times /\ l.consent \in DOMAIN Obligations!ConsentRank
  BY DEF Obligations!LabelsType, Obligations!Classes
<1>2. l.retention \in Nat
  BY <1>1, ObligationsAssumption
<1>3. Obligations!ConsentRank[l.consent] \in Nat
  BY <1>1, ConsentRanks
<1>4. l.classification \in Nat
  BY <1>1
<1> QED
  BY <1>2, <1>3, <1>4

\* What derive accepts is covered by every source.
LEMMA PreservedCovers ==
    ASSUME ObligationsInv, NEW l \in Obligations!LabelsType, NEW from \in SUBSET Obligations!Registered,
           Obligations!Preserved(l, from), NEW s \in from
    PROVE  Covers(labelled[s].labels, l)
<1> DEFINE ends == {labelled[x].labels.retention : x \in from}
<1>1. \A x \in from : labelled[x].labels.retention \in Nat
  BY LabelParts DEF ObligationsInv
<1>2. ends \in SUBSET Nat /\ ends # {} /\ labelled[s].labels.retention \in ends
  BY <1>1
<1>3. Obligations!EarliestRetention(from) = Obligations!Min(ends)
  BY DEF Obligations!EarliestRetention
<1> HIDE DEF ends
<1>4. PICK n \in ends : \A m \in ends : n <= m
  BY <1>2, LeastOf
<1>5. Obligations!Min(ends) \in ends /\ \A m \in ends : Obligations!Min(ends) <= m
  BY <1>4 DEF Obligations!Min
<1>6. l.retention <= Obligations!Min(ends)
  BY <1>3 DEF Obligations!Preserved
<1>7. l.retention \in Nat /\ Obligations!Min(ends) \in Nat /\ labelled[s].labels.retention \in Nat
  BY <1>1, <1>2, <1>5, LabelParts
<1>8. l.retention <= labelled[s].labels.retention
  BY <1>2, <1>5, <1>6, <1>7
<1>9. l.purposes \subseteq labelled[s].labels.purposes
  BY DEF Obligations!Preserved, Obligations!CommonPurposes
<1>10. labelled[s].labels.subjects \subseteq l.subjects
  BY DEF Obligations!Preserved, Obligations!AllSubjects
<1> QED
  BY <1>8, <1>9, <1>10 DEF Obligations!Preserved, Covers

\* No artifact is registered at the start.
LEMMA ObligationsInit == Obligations!Init => ObligationsInv
<1> SUFFICES ASSUME Obligations!Init PROVE ObligationsInv
  OBVIOUS
<1>1. DOMAIN labelled = Datasets /\ \A a \in Datasets : labelled[a] = Obligations!NoRecord
  BY DEF Obligations!Init
<1>2. Obligations!Registered = {}
  BY <1>1 DEF Obligations!Registered
<1> QED
  BY <1>1, <1>2 DEF ObligationsInv

\* A new record leaves the others as they are.
LEMMA ObligationsEnter ==
    ASSUME ObligationsInv, NEW a \in Datasets, NEW l \in DatasetLabels, NEW depth, Obligations!Enter(a, l, depth),
           \A s \in DatasetSources[a] : s \in Obligations!Registered /\ Covers(labelled[s].labels, l)
    PROVE  ObligationsInv'
<1>1. /\ a \notin Obligations!Registered
      /\ l.consent = "granted" => l.classification \in TrainingClasses
      /\ labelled' = [labelled EXCEPT ![a] = [labels |-> l, depth |-> depth]]
  BY DEF Obligations!Enter, Obligations!Permitted
<1>2. /\ labelled'[a].labels = l /\ DOMAIN labelled' = Datasets
      /\ \A x \in Datasets : x # a => labelled'[x] = labelled[x]
  BY <1>1 DEF ObligationsInv
<1>3. Obligations!Registered \subseteq Obligations!Registered'
      /\ \A x \in Obligations!Registered' : x = a \/ x \in Obligations!Registered
  BY <1>1, <1>2 DEF Obligations!Registered, Obligations!NoRecord
<1>4. \A x \in Obligations!Registered : x # a /\ labelled'[x] = labelled[x]
  BY <1>1, <1>2 DEF Obligations!Registered
<1>5. labelled'[a] # Obligations!NoRecord
  <2>1. labelled'[a] = [labels |-> l, depth |-> depth]
    BY <1>1 DEF ObligationsInv
  <2> QED
    BY <2>1 DEF Obligations!NoRecord
<1>6. l \in Obligations!LabelsType
  BY ObligationsAssumption
<1>7. ASSUME NEW x \in Obligations!Registered'
      PROVE  /\ labelled'[x].labels \in Obligations!LabelsType
             /\ labelled'[x].labels.consent = "granted" => labelled'[x].labels.classification \in TrainingClasses
             /\ \A s \in DatasetSources[x] :
                 s \in Obligations!Registered' /\ Covers(labelled'[s].labels, labelled'[x].labels)
  <2>1. CASE x = a
    BY <1>1, <1>2, <1>3, <1>4, <1>6, <2>1
  <2>2. CASE x \in Obligations!Registered
    BY <1>3, <1>4, <2>2 DEF ObligationsInv
  <2> QED
    BY <1>3, <2>1, <2>2
<1>8. (Obligations!LabelsType)' = Obligations!LabelsType
  BY DEF Obligations!LabelsType, Obligations!Classes, Obligations!ConsentRank
<1> QED
  BY <1>2, <1>7, <1>8 DEF ObligationsInv, Covers, Obligations!ConsentRank

\* Registering and merging keep ObligationsInv.
LEMMA ObligationsStep == ObligationsInv /\ Obligations!Next => ObligationsInv'
<1> SUFFICES ASSUME ObligationsInv, NEW a \in Datasets, NEW l \in DatasetLabels,
                    Obligations!Register(a, l) \/ Obligations!Derive(a, l)
             PROVE  ObligationsInv'
  BY DEF Obligations!Next
<1>1. CASE Obligations!Register(a, l)
  <2>1. DatasetSources[a] = {} /\ Obligations!Enter(a, l, 0)
    BY <1>1 DEF Obligations!Register
  <2> QED
    BY <2>1, ObligationsEnter
<1>2. CASE Obligations!Derive(a, l)
  <2>1. DatasetSources[a] \subseteq Obligations!Registered /\ Obligations!Preserved(l, DatasetSources[a])
    BY <1>2 DEF Obligations!Derive
  <2>2. PICK depth : Obligations!Enter(a, l, depth)
    BY <1>2 DEF Obligations!Derive
  <2>3. \A s \in DatasetSources[a] : Covers(labelled[s].labels, l)
    BY <2>1, PreservedCovers, ObligationsAssumption
  <2> QED
    BY <2>1, <2>2, <2>3, ObligationsEnter
<1> QED
  BY <1>1, <1>2

\* All origins of what is registered are registered and cover it.
LEMMA OriginsCover ==
    ASSUME ObligationsInv, NEW a \in Obligations!Registered, NEW o \in Obligations!Origins(a)
    PROVE  o \in Obligations!Registered /\ Covers(labelled[o].labels, labelled[a].labels)
<1> DEFINE N == Cardinality(Datasets)
           f == CHOOSE f : Descending(f, DatasetSources, {a}, N)
           S == {x \in Obligations!Registered : Covers(labelled[x].labels, labelled[a].labels)}
<1>1. N \in Nat
  BY ObligationsAssumption, FS_CardinalityType
<1>2. Obligations!Origins(a) = f[N]
  BY DEF Obligations!Origins, Descending, Back, Obligations!Cardinality, Cardinality
<1> HIDE DEF N
<1>3. Descending(f, DatasetSources, {a}, N)
  BY <1>1, DescentExists
<1> HIDE DEF f
<1>4. a \in S
  BY LabelParts DEF Covers, ObligationsInv
<1>5. ASSUME NEW x \in S, NEW s \in DatasetSources[x] PROVE s \in S
  <2>1. s \in Obligations!Registered /\ Covers(labelled[s].labels, labelled[x].labels)
        /\ Covers(labelled[x].labels, labelled[a].labels)
    BY DEF ObligationsInv
  <2>2. \A y \in {s, x, a} :
            /\ labelled[y].labels.classification \in Nat /\ labelled[y].labels.retention \in Nat
            /\ Obligations!ConsentRank[labelled[y].labels.consent] \in Nat
    BY <2>1, LabelParts DEF ObligationsInv
  <2>3. Covers(labelled[s].labels, labelled[a].labels)
    BY <2>1, <2>2 DEF Covers
  <2> QED
    BY <2>1, <2>3
<1> HIDE DEF S
<1>6. f[N] \subseteq S
  BY <1>1, <1>3, <1>4, <1>5, DescentWithin
<1> QED
  BY <1>2, <1>6 DEF S

\* What a use, a subject and a deadline need follows from what each artifact kept of its sources.
LEMMA ObligationsSafe ==
    ObligationsInv =>
        Obligations!UseCoveredByOrigins /\ Obligations!SubjectFindsAll /\ Obligations!ExpiredIsDeletable
<1> SUFFICES ASSUME ObligationsInv
             PROVE  Obligations!UseCoveredByOrigins /\ Obligations!SubjectFindsAll /\ Obligations!ExpiredIsDeletable
  OBVIOUS
<1>1. Obligations!UseCoveredByOrigins
  <2> SUFFICES ASSUME NEW a \in Obligations!Registered, NEW p \in Purposes, NEW r \in Residencies,
                      NEW training \in BOOLEAN, NEW at \in Times, Obligations!Usable(a, p, r, training, at),
                      NEW o \in Obligations!Origins(a)
               PROVE  Obligations!Usable(o, p, r, training, at)
    BY DEF Obligations!UseCoveredByOrigins
  <2>1. o \in Obligations!Registered /\ Covers(labelled[o].labels, labelled[a].labels)
    BY OriginsCover
  <2>2. /\ labelled[a].labels \in Obligations!LabelsType /\ labelled[o].labels \in Obligations!LabelsType
        /\ labelled[o].labels.consent = "granted" => labelled[o].labels.classification \in TrainingClasses
    BY <2>1 DEF ObligationsInv
  <2>3. p \in labelled[o].labels.purposes /\ r \in labelled[o].labels.residencies
    BY <2>1 DEF Obligations!Usable, Covers
  <2>4. at < labelled[o].labels.retention
    <3>1. at < labelled[a].labels.retention /\ labelled[a].labels.retention <= labelled[o].labels.retention
      BY <2>1 DEF Obligations!Usable, Covers
    <3>2. at \in Nat /\ labelled[a].labels.retention \in Nat /\ labelled[o].labels.retention \in Nat
      BY <2>2, LabelParts, ObligationsAssumption
    <3> QED
      BY <3>1, <3>2
  <2>5. ASSUME training PROVE labelled[o].labels.consent = "granted"
    <3>1. labelled[a].labels.consent = "granted"
      BY <2>5 DEF Obligations!Usable
    <3>2. Obligations!ConsentRank[labelled[o].labels.consent] <= 0
      BY <2>1, <3>1 DEF Covers, Obligations!ConsentRank
    <3>3. labelled[o].labels.consent \in DOMAIN Obligations!ConsentRank
      BY <2>2 DEF Obligations!LabelsType
    <3> QED
      BY <3>2, <3>3, ConsentRanks
  <2> QED
    BY <2>2, <2>3, <2>4, <2>5 DEF Obligations!Usable
<1>2. Obligations!SubjectFindsAll
  <2> SUFFICES ASSUME NEW a \in Obligations!Registered, NEW o \in Obligations!Origins(a),
                      NEW x \in labelled[o].labels.subjects
               PROVE  a \in Obligations!Selected({}, {x}, FALSE)
    BY DEF Obligations!SubjectFindsAll
  <2>1. x \in labelled[a].labels.subjects
    BY OriginsCover DEF Covers
  <2> QED
    BY <2>1 DEF Obligations!Selected
<1>3. Obligations!ExpiredIsDeletable
  <2> SUFFICES ASSUME NEW a \in Obligations!Registered, NEW at \in Times, labelled[a].labels.retention <= at
               PROVE  Obligations!Plannable(Obligations!Selected({a}, {}, TRUE), TRUE, at)
    BY DEF Obligations!ExpiredIsDeletable
  <2> DEFINE N == Cardinality(Datasets)
             R == Obligations!Registered
             named == {a} \cup {b \in R : labelled[b].labels.subjects \cap {} # {}}
             f == CHOOSE f : Climbing(f, R, DatasetSources, named, N)
             S == {b \in R : labelled[b].labels.retention <= at}
  <2>1. N \in Nat
    BY ObligationsAssumption, FS_CardinalityType
  <2>2. Obligations!Selected({a}, {}, TRUE) = f[N]
    BY DEF Obligations!Selected, Climbing, Born, Obligations!Cardinality, Cardinality
  <2>3. named = {a}
    OBVIOUS
  <2>4. Born(R, DatasetSources, S) \subseteq S
    <3> SUFFICES ASSUME NEW b \in R, NEW s \in DatasetSources[b], s \in S
                 PROVE  labelled[b].labels.retention <= at
      BY DEF Born
    <3>1. s \in R /\ labelled[b].labels.retention <= labelled[s].labels.retention
          /\ labelled[s].labels.retention <= at
      BY DEF ObligationsInv, Covers
    <3>2. at \in Nat /\ labelled[b].labels.retention \in Nat /\ labelled[s].labels.retention \in Nat
      BY <3>1, LabelParts, ObligationsAssumption DEF ObligationsInv
    <3> QED
      BY <3>1, <3>2
  <2>5. a \in S
    OBVIOUS
  <2> HIDE DEF N, R, S, named
  <2>6. Climbing(f, R, DatasetSources, named, N)
    BY <2>1, ClimbExists
  <2> HIDE DEF f
  <2>7. named \subseteq f[N]
    BY <2>1, <2>6, ClimbUp
  <2>8. f[N] \subseteq S
    BY <2>1, <2>3, <2>4, <2>5, <2>6, ClimbLeast
  <2> QED
    BY <2>2, <2>3, <2>7, <2>8 DEF Obligations!Plannable, S
<1> QED
  BY <1>1, <1>2, <1>3

\* Every record has labels and a depth within its bound.
RecordsBounded == \A a \in Obligations!Registered : labelled[a] \in Obligations!RecordType

\* No record exceeds a bound at the start.
LEMMA RecordsBoundedInit == Obligations!Init => RecordsBounded
BY DEF Obligations!Init, RecordsBounded, Obligations!Registered

\* One more than the depth of the deepest source.
LEMMA DepthTyped ==
    ASSUME RecordsBounded, NEW from \in SUBSET Obligations!Registered, from # {}
    PROVE  Obligations!Max({labelled[s].depth : s \in from}) + 1 \in Nat
<1> DEFINE depths == {labelled[s].depth : s \in from}
<1>1. \A s \in from : labelled[s].depth \in 0..MaxDepth
  BY DEF RecordsBounded, Obligations!RecordType
<1>2. depths \in SUBSET (0..MaxDepth) /\ depths # {}
  BY <1>1
<1> HIDE DEF depths
<1>3. PICK n \in depths : \A m \in depths : m <= n
  BY <1>2, GreatestOf, ObligationsAssumption
<1>4. Obligations!Max(depths) \in depths
  BY <1>3 DEF Obligations!Max
<1>5. PICK deepest : deepest = Obligations!Max(depths)
  OBVIOUS
<1>6. deepest \in 0..MaxDepth
  BY <1>2, <1>4, <1>5
<1>7. deepest \in Nat
  BY <1>6
<1> QED
  BY <1>5, <1>7 DEF depths

\* Records stay within the bounds on artifacts, sources and depth.
LEMMA RecordsBoundedStep ==
    ASSUME ObligationsInv, RecordsBounded, Obligations!Next
    PROVE  RecordsBounded'
<1>1. PICK a \in Datasets, l \in DatasetLabels : Obligations!Register(a, l) \/ Obligations!Derive(a, l)
  BY DEF Obligations!Next
<1>2. PICK depth : depth \in 0..MaxDepth /\ Obligations!Enter(a, l, depth)
  <2>1. CASE Obligations!Register(a, l)
    BY <2>1, ObligationsAssumption DEF Obligations!Register
  <2>2. CASE Obligations!Derive(a, l)
    <3>1. PICK depth : /\ depth = Obligations!Max({labelled[s].depth : s \in DatasetSources[a]}) + 1
                       /\ depth <= MaxDepth /\ Obligations!Enter(a, l, depth)
      BY <2>2 DEF Obligations!Derive
    <3>2. DatasetSources[a] # {} /\ DatasetSources[a] \in SUBSET Obligations!Registered
      BY <2>2 DEF Obligations!Derive
    <3>3. depth \in Nat
      BY <3>1, <3>2, DepthTyped
    <3> QED
      BY <3>1, <3>3, ObligationsAssumption
  <2> QED
    BY <1>1, <2>1, <2>2
<1>3. PICK r : r = [labels |-> l, depth |-> depth]
  OBVIOUS
<1>4. labelled' = [labelled EXCEPT ![a] = r] /\ DOMAIN labelled = Datasets
  BY <1>2, <1>3 DEF Obligations!Enter, ObligationsInv
<1>5. r \in Obligations!RecordType
  BY <1>2, <1>3, ObligationsAssumption DEF Obligations!RecordType
<1>6. labelled'[a] = r /\ \A x \in Datasets : x # a => labelled'[x] = labelled[x]
  BY <1>4
<1>7. ASSUME NEW x \in Obligations!Registered' PROVE labelled'[x] \in Obligations!RecordType
  BY <1>5, <1>6 DEF RecordsBounded, Obligations!Registered, Obligations!NoRecord
<1>8. (Obligations!RecordType)' = Obligations!RecordType
  BY DEF Obligations!RecordType, Obligations!LabelsType, Obligations!Classes, Obligations!ConsentRank
<1> QED
  BY <1>7, <1>8 DEF RecordsBounded

\* Bounded records are typed.
LEMMA RecordsTyped == RecordsBounded => Obligations!TypeOK
BY ObligationsAssumption DEF RecordsBounded, Obligations!TypeOK

-----------------------------------------------------------------------------
(* Labels and their joins *)

\* What is signed by the authority and by others are policies.
ASSUME LabelsAssumption ==
    /\ LabelOrigins \subseteq Labelled!PolicyType /\ LabelProposals \subseteq Labelled!PolicyType
    /\ MaxClass \in Nat /\ MaxLabels \in Nat /\ LabelEnd \in Nat

LabelLike ==
    [policy : Labelled!PolicyType, content : Contents, sources : SUBSET Nat, by : {"issue", "join", "other"},
     issued : Nat]

OneTenant(sources) ==
    \A j \in sources : Labelled!Policy(j).tenant = Labelled!Policy(Labelled!Min(sources)).tenant

\* A label comes after its sources; the propagator's is as strict as all of them.
LabelOK(i) ==
    /\ labels[i].sources \subseteq 1..(i - 1) /\ labels[i].issued <= time
    /\ labels[i].by = "issue" => labels[i].sources = {}
    /\ labels[i].by = "join" =>
        /\ labels[i].sources # {} /\ OneTenant(labels[i].sources)
        /\ labels[i].policy = Labelled!Strictest(labels[i].sources)

\* The permit conforms with its label and the sources of that.
PermitOK ==
    /\ permit.keepUntil \in Nat /\ permit.at \in Nat
    /\ permit.label \in DOMAIN labels /\ Labelled!Conforms(permit.label)
    /\ \A j \in labels[permit.label].sources : Labelled!Conforms(j)

LabelsInv ==
    /\ labels \in Seq(LabelLike) /\ time \in Nat
    /\ \A i \in DOMAIN labels : LabelOK(i)
    /\ permit # Labelled!NoPermit => PermitOK

\* The parts of policies that are numbers.
LEMMA PolicyParts ==
    ASSUME NEW p \in Labelled!PolicyType
    PROVE  p.class \in 0..MaxClass /\ p.class \in Nat /\ p.until \in 1..LabelEnd + 1 /\ p.until \in Nat
<1>1. p.class \in 0..MaxClass /\ p.until \in 1..LabelEnd + 1
  BY DEF Labelled!PolicyType
<1> QED
  BY <1>1, LabelsAssumption

\* The join of policies is one, at least as strict as each.
LEMMA StrictestIs ==
    ASSUME labels \in Seq(LabelLike), NEW from \in SUBSET DOMAIN labels, from # {}
    PROVE  /\ Labelled!Min(from) \in from
           /\ Labelled!Strictest(from) \in Labelled!PolicyType
           /\ \A j \in from : Labelled!Strictest(from).until <= Labelled!Policy(j).until
<1> DEFINE classes == {Labelled!Policy(i).class : i \in from}
           ends == {Labelled!Policy(i).until : i \in from}
<1>1. ASSUME NEW i \in from PROVE Labelled!Policy(i) \in Labelled!PolicyType
  <2>1. labels[i] \in LabelLike
    OBVIOUS
  <2> QED
    BY <2>1 DEF Labelled!Policy, LabelLike
<1>2. PICK k \in from : TRUE
  OBVIOUS
<1>3. /\ \A i \in from : Labelled!Policy(i).class \in 0..MaxClass
      /\ \A i \in from : Labelled!Policy(i).until \in 1..LabelEnd + 1 /\ Labelled!Policy(i).until \in Nat
  BY <1>1, PolicyParts
<1>4. classes \in SUBSET (0..MaxClass) /\ Labelled!Policy(k).class \in classes
  BY <1>3
<1>5. ends \in SUBSET Nat /\ ends \subseteq 1..LabelEnd + 1 /\ Labelled!Policy(k).until \in ends
      /\ \A j \in from : Labelled!Policy(j).until \in ends
  BY <1>3
<1>6. from \in SUBSET Nat
  OBVIOUS
<1>7. Labelled!Min(from) \in from
  <2>1. PICK n \in from : \A m \in from : n <= m
    BY <1>6, LeastOf
  <2> QED
    BY <2>1 DEF Labelled!Min
<1>8. Labelled!Strictest(from) =
        [tenant |-> Labelled!Policy(Labelled!Min(from)).tenant, class |-> Labelled!Max(classes),
         allowed |-> [d \in LabelDimensions |-> Labelled!Common(from, d)],
         handling |-> UNION {Labelled!Policy(i).handling : i \in from}, until |-> Labelled!Min(ends)]
  BY DEF Labelled!Strictest
<1> HIDE DEF classes, ends
<1>9. Labelled!Max(classes) \in classes
  <2>1. PICK n \in classes : \A m \in classes : m <= n
    BY <1>4, LabelsAssumption, GreatestOf
  <2>2. \A m \in classes : m \in Nat
    BY <1>4, LabelsAssumption
  <2>3. \A m \in classes : n >= m
    BY <2>1, <2>2
  <2> QED
    BY <2>3 DEF Labelled!Max
<1>10. Labelled!Min(ends) \in ends /\ \A m \in ends : Labelled!Min(ends) <= m
  <2>1. PICK n \in ends : \A m \in ends : n <= m
    BY <1>5, LeastOf
  <2> QED
    BY <2>1 DEF Labelled!Min
<1>11. Labelled!Policy(Labelled!Min(from)).tenant \in Tenants
  BY <1>1, <1>7 DEF Labelled!PolicyType
<1>12. Labelled!Max(classes) \in 0..MaxClass /\ Labelled!Min(ends) \in 1..LabelEnd + 1
  BY <1>4, <1>5, <1>9, <1>10
<1>13. [d \in LabelDimensions |-> Labelled!Common(from, d)]
            \in [LabelDimensions -> SUBSET UNION {LabelValues[d] : d \in LabelDimensions}]
  <2>1. \A d \in LabelDimensions :
            Labelled!Common(from, d) \subseteq UNION {LabelValues[e] : e \in LabelDimensions}
    BY DEF Labelled!Common
  <2> QED
    BY <2>1
<1>14. UNION {Labelled!Policy(i).handling : i \in from} \subseteq Handling
  BY <1>1 DEF Labelled!PolicyType
<1>15. Labelled!Strictest(from) \in Labelled!PolicyType
  BY <1>8, <1>11, <1>12, <1>13, <1>14 DEF Labelled!PolicyType
<1>16. \A j \in from : Labelled!Strictest(from).until <= Labelled!Policy(j).until
  <2>1. Labelled!Strictest(from).until = Labelled!Min(ends)
    BY <1>8
  <2> QED
    BY <1>5, <1>10, <2>1
<1> QED
  BY <1>7, <1>15, <1>16

\* Where labels stay as they are their joins do.
LEMMA StrictestKept ==
    ASSUME NEW from, \A j \in from : labels'[j] = labels[j], Labelled!Min(from) \in from
    PROVE  Labelled!Strictest(from)' = Labelled!Strictest(from) /\ (OneTenant(from) => OneTenant(from)')
<1>1. \A j \in from : Labelled!Policy(j)' = Labelled!Policy(j)
  BY DEF Labelled!Policy
<1>2. Labelled!Policy(Labelled!Min(from))' = Labelled!Policy(Labelled!Min(from))
  BY DEF Labelled!Policy
<1>3. \A d \in LabelDimensions : Labelled!Common(from, d)' = Labelled!Common(from, d)
  BY <1>1 DEF Labelled!Common
<1>4. {Labelled!Policy(i).class : i \in from}' = {Labelled!Policy(i).class : i \in from}
  BY <1>1
<1>5. {Labelled!Policy(i).until : i \in from}' = {Labelled!Policy(i).until : i \in from}
  BY <1>1
<1>6. {Labelled!Policy(i).handling : i \in from}' = {Labelled!Policy(i).handling : i \in from}
  BY <1>1
<1>7. [d \in LabelDimensions |-> Labelled!Common(from, d)]' = [d \in LabelDimensions |-> Labelled!Common(from, d)]
  BY <1>3
<1>8. Labelled!Strictest(from)' = Labelled!Strictest(from)
  BY <1>2, <1>4, <1>5, <1>6, <1>7 DEF Labelled!Strictest
<1>9. OneTenant(from) => OneTenant(from)'
  BY <1>1, <1>2 DEF OneTenant
<1> QED
  BY <1>8, <1>9

\* No data is labelled at the start.
LEMMA LabelsInit == Labelled!Init => LabelsInv
BY DEF Labelled!Init, LabelsInv

\* A new label leaves the others and the permit as they are.
LEMMA LabelsSign ==
    ASSUME LabelsInv, NEW p \in Labelled!PolicyType, NEW content \in Contents, NEW from \in SUBSET DOMAIN labels,
           NEW by \in {"issue", "join", "other"}, Labelled!Sign(p, content, from, by),
           by = "issue" => from = {},
           by = "join" => from # {} /\ OneTenant(from) /\ p = Labelled!Strictest(from),
           permit' = permit, time' = time
    PROVE  LabelsInv'
<1>a. PICK N : N = Len(labels)
  OBVIOUS
<1>0. PICK l : l = [policy |-> p, content |-> content, sources |-> from, by |-> by, issued |-> time]
  OBVIOUS
<1>1. labels' = Append(labels, l) /\ labels \in Seq(LabelLike)
  BY <1>0 DEF Labelled!Sign, LabelsInv
<1>2. N \in Nat /\ DOMAIN labels = 1..N
  BY <1>a, <1>1
<1>3. l \in LabelLike
  BY <1>0, <1>2 DEF LabelLike, LabelsInv
<1>4. labels' \in Seq(LabelLike) /\ DOMAIN labels' = 1..(N + 1) /\ labels'[N + 1] = l
      /\ \A j \in DOMAIN labels : labels'[j] = labels[j]
  BY <1>a, <1>1, <1>2, <1>3
<1>5. ASSUME NEW i \in DOMAIN labels
      PROVE  LabelOK(i)'
  <2>0. PICK s : s = labels[i].sources
    OBVIOUS
  <2>1. s \subseteq 1..(i - 1) /\ i \in 1..N /\ LabelOK(i) /\ labels'[i] = labels[i]
    BY <1>2, <1>4, <2>0 DEF LabelsInv, LabelOK
  <2>2. s \in SUBSET DOMAIN labels /\ \A j \in s : labels'[j] = labels[j]
    BY <1>2, <1>4, <2>1
  <2>3. CASE s = {}
    BY <2>0, <2>1, <2>3 DEF LabelOK, LabelsInv
  <2>4. CASE s # {}
    <3>1. Labelled!Min(s) \in s
      BY <1>1, <2>2, <2>4, StrictestIs
    <3>2. Labelled!Strictest(s)' = Labelled!Strictest(s) /\ (OneTenant(s) => OneTenant(s)')
      BY <2>2, <3>1, StrictestKept
    <3> QED
      BY <2>0, <2>1, <3>2 DEF LabelOK, LabelsInv
  <2> QED
    BY <2>3, <2>4
<1>6. LabelOK(N + 1)'
  <2>1. l.sources = from /\ l.issued = time /\ l.by = by /\ l.policy = p
    BY <1>0
  <2>2. from \subseteq 1..((N + 1) - 1) /\ time <= time
    BY <1>2 DEF LabelsInv
  <2>3. CASE from = {}
    BY <1>4, <2>1, <2>2, <2>3 DEF LabelOK
  <2>4. CASE from # {}
    <3>1. Labelled!Min(from) \in from
      BY <1>1, <2>4, StrictestIs
    <3>2. Labelled!Strictest(from)' = Labelled!Strictest(from) /\ (OneTenant(from) => OneTenant(from)')
      BY <1>4, <3>1, StrictestKept
    <3> QED
      BY <1>4, <2>1, <2>2, <3>2 DEF LabelOK
  <2> QED
    BY <2>3, <2>4
<1>7. ASSUME permit # Labelled!NoPermit PROVE PermitOK'
  <2>1. PermitOK
    BY <1>7 DEF LabelsInv
  <2>2. labels[permit.label].sources \subseteq DOMAIN labels
    BY <1>2, <2>1 DEF LabelsInv, LabelOK, PermitOK
  <2> QED
    BY <1>2, <1>4, <2>1, <2>2 DEF PermitOK, Labelled!Conforms, Labelled!Policy
<1> QED
  <2>1. \A i \in DOMAIN labels' : LabelOK(i)'
    BY <1>2, <1>4, <1>5, <1>6
  <2>2. (Labelled!NoPermit)' = Labelled!NoPermit
    BY DEF Labelled!NoPermit
  <2> QED
    BY <1>4, <1>7, <2>1, <2>2 DEF LabelsInv, LabelLike, Labelled!PolicyType

\* The guard lets through what conforms with the label shown and, as that is not downgraded, with its sources.
LEMMA LabelsAuthorize ==
    ASSUME LabelsInv, NEW i \in DOMAIN labels, NEW from, NEW content, NEW tenant, NEW use, NEW destination,
           NEW keep \in {Labelled!NotStated} \cup 1..LabelEnd + 1, Labelled!Authorize(i, from, content, tenant, use, destination, keep)
    PROVE  LabelsInv'
<1>1. /\ Labelled!Usable(i) /\ Labelled!Bound(i, content, tenant, use, destination, keep)
      /\ from = labels[i].sources
      /\ from # {} => (\A j \in from : Labelled!Usable(j)) /\ ~Labelled!Downgraded(i, from)
      /\ permit' = [label |-> i, use |-> use, destination |-> destination, keepUntil |-> keep, at |-> time]
      /\ labels' = labels /\ time' = time
  BY DEF Labelled!Authorize, Labelled!Allowed, Labelled!LineageShown
<1>2. /\ permit'.label = i /\ permit'.use = use /\ permit'.destination = destination
      /\ permit'.keepUntil = keep /\ permit'.at = time
  BY <1>1
<1>3. i \in Nat /\ i \in 1..Len(labels) /\ from \subseteq 1..(i - 1) /\ Len(labels) \in Nat
  BY <1>1 DEF LabelsInv, LabelOK
<1>4. from \in SUBSET DOMAIN labels
  BY <1>3 DEF LabelsInv
<1>5. /\ \A d \in LabelDimensions : use[d] \in Labelled!Policy(i).allowed[d]
      /\ destination.tenant = Labelled!Policy(i).tenant
      /\ Labelled!Policy(i).handling \subseteq destination.enforced
      /\ keep # Labelled!NotStated => keep <= Labelled!Policy(i).until
      /\ time < Labelled!Policy(i).until
  BY <1>1 DEF Labelled!Bound, Labelled!Usable
<1>6. Labelled!Conforms(i)'
  BY <1>1, <1>2, <1>5 DEF Labelled!Conforms, Labelled!Policy
<1>7. ASSUME NEW j \in from PROVE Labelled!Conforms(j)'
  <2> DEFINE st == Labelled!Strictest(from)
  <2>1. /\ Labelled!Policy(j).tenant = Labelled!Policy(i).tenant
        /\ \A d \in LabelDimensions : Labelled!Policy(i).allowed[d] \subseteq st.allowed[d]
        /\ st.handling \subseteq Labelled!Policy(i).handling
        /\ ~(Labelled!Policy(i).until > st.until)
    BY <1>1 DEF Labelled!Downgraded
  <2>2. st.until <= Labelled!Policy(j).until /\ st \in Labelled!PolicyType
    BY <1>4, StrictestIs DEF LabelsInv
  <2>3. /\ \A d \in LabelDimensions : st.allowed[d] \subseteq Labelled!Policy(j).allowed[d]
        /\ Labelled!Policy(j).handling \subseteq st.handling
    BY DEF Labelled!Strictest, Labelled!Common
  <2> HIDE DEF st
  <2>4. labels[i] \in LabelLike /\ labels[j] \in LabelLike
    BY <1>4 DEF LabelsInv
  <2>5. Labelled!Policy(i).until \in Nat /\ Labelled!Policy(j).until \in Nat /\ st.until \in Nat /\ keep \in Nat
    BY <2>2, <2>4, PolicyParts, LabelsAssumption DEF Labelled!Policy, LabelLike, Labelled!NotStated
  <2>6. keep # Labelled!NotStated => keep <= Labelled!Policy(j).until
    BY <1>5, <2>1, <2>2, <2>5
  <2>7. time < Labelled!Policy(j).until
    <3>1. Labelled!Usable(j)
      BY <1>1
    <3> QED
      BY <3>1 DEF Labelled!Usable
  <2>8. /\ \A d \in LabelDimensions : use[d] \in Labelled!Policy(j).allowed[d]
        /\ destination.tenant = Labelled!Policy(j).tenant
        /\ Labelled!Policy(j).handling \subseteq destination.enforced
    BY <1>5, <2>1, <2>3
  <2> QED
    BY <1>1, <1>2, <2>6, <2>7, <2>8 DEF Labelled!Conforms, Labelled!Policy
<1>8. PermitOK'
  <2>1. keep \in Nat /\ time \in Nat
    BY LabelsAssumption DEF LabelsInv, Labelled!NotStated
  <2> QED
    BY <1>1, <1>2, <1>6, <1>7, <2>1 DEF PermitOK
<1>9. \A j \in DOMAIN labels : LabelOK(j)'
  BY <1>1 DEF LabelsInv, LabelOK, OneTenant, Labelled!Policy, Labelled!Strictest, Labelled!Common
<1> QED
  BY <1>1, <1>8, <1>9 DEF LabelsInv, LabelLike, Labelled!PolicyType

\* Labelling, propagating and permits keep LabelsInv.
LEMMA LabelsStep == LabelsInv /\ Labelled!Next => LabelsInv'
<1> SUFFICES ASSUME LabelsInv, Labelled!Next PROVE LabelsInv'
  OBVIOUS
<1>1. ASSUME NEW p \in LabelOrigins, NEW content \in Contents, Labelled!Issue(p, content)
      PROVE  LabelsInv'
  <2>1. p \in Labelled!PolicyType /\ {} \in SUBSET DOMAIN labels
    BY LabelsAssumption
  <2> QED
    BY <1>1, <2>1, LabelsSign DEF Labelled!Issue
<1>2. ASSUME NEW from \in SUBSET DOMAIN labels, NEW content \in Contents, Labelled!Join(from, content)
      PROVE  LabelsInv'
  <2>1. /\ from # {} /\ OneTenant(from)
        /\ Labelled!Sign(Labelled!Strictest(from), content, from, "join") /\ permit' = permit /\ time' = time
    BY <1>2 DEF Labelled!Join, OneTenant
  <2>2. Labelled!Strictest(from) \in Labelled!PolicyType
    BY <2>1, StrictestIs DEF LabelsInv
  <2> QED
    BY <2>1, <2>2, LabelsSign
<1>3. ASSUME NEW from \in SUBSET DOMAIN labels, NEW content \in Contents, NEW p \in LabelProposals,
             Labelled!Propose(p, from, content)
      PROVE  LabelsInv'
  <2>1. p \in Labelled!PolicyType
    BY LabelsAssumption
  <2> QED
    BY <1>3, <2>1, LabelsSign DEF Labelled!Propose
<1>4. ASSUME Labelled!Tick PROVE LabelsInv'
  <2>1. labels' = labels /\ permit' = permit /\ time' = time + 1 /\ time \in Nat
    BY <1>4 DEF Labelled!Tick, LabelsInv
  <2>2. ASSUME NEW i \in DOMAIN labels PROVE LabelOK(i)'
    <3>1. LabelOK(i) /\ labels[i] \in LabelLike
      BY DEF LabelsInv
    <3>2. labels[i].issued \in Nat
      BY <3>1 DEF LabelLike
    <3>3. labels[i].issued <= time'
      BY <2>1, <3>1, <3>2 DEF LabelOK
    <3>4. OneTenant(labels[i].sources)' = OneTenant(labels[i].sources)
          /\ Labelled!Strictest(labels[i].sources)' = Labelled!Strictest(labels[i].sources)
      BY <2>1 DEF OneTenant, Labelled!Policy, Labelled!Strictest, Labelled!Common
    <3> QED
      BY <2>1, <3>1, <3>3, <3>4 DEF LabelOK
  <2>3. permit # Labelled!NoPermit => PermitOK'
    BY <2>1 DEF LabelsInv, PermitOK, Labelled!Conforms, Labelled!Policy
  <2> QED
    BY <2>1, <2>2, <2>3 DEF LabelsInv, LabelLike, Labelled!PolicyType, Labelled!NoPermit
<1> QED
  BY <1>1, <1>2, <1>3, <1>4, LabelsAuthorize DEF Labelled!Next

-----------------------------------------------------------------------------
\* The labels that each of the labels in S was derived from.
Traces(of, S) == of = [j \in S |-> {j} \cup UNION {of[k] : k \in labels[j].sources}]

\* As labels come after their sources these can be found one after the other.
LEMMA TracesExist ==
    ASSUME LabelsInv
    PROVE  \E of : Traces(of, DOMAIN labels)
<1>a. PICK N : N = Len(labels)
  OBVIOUS
<1>1. N \in Nat /\ DOMAIN labels = 1..N
  BY <1>a DEF LabelsInv
<1>2. \A i \in 1..N : labels[i].sources \subseteq 1..(i - 1)
  BY <1>1 DEF LabelsInv, LabelOK
<1> DEFINE S == {n \in 0..N : \E of : Traces(of, 1..n)}
<1>3. 0 \in S
  <2>1. Traces([j \in 1..0 |-> {}], 1..0)
    BY DEF Traces
  <2> QED
    BY <1>1, <2>1
<1>4. ASSUME NEW n \in 0..(N - 1), n \in S
      PROVE  n + 1 \in S
  <2>1. PICK of : Traces(of, 1..n)
    BY <1>4
  <2>2. n \in Nat /\ n + 1 \in 1..N /\ n + 1 \in 0..N
    BY <1>1
  <2>3. PICK last : last = {n + 1} \cup UNION {of[k] : k \in labels[n + 1].sources}
    OBVIOUS
  <2>4. PICK g : g = [j \in 1..(n + 1) |-> IF j = n + 1 THEN last ELSE of[j]]
    OBVIOUS
  <2>5. ASSUME NEW j \in 1..(n + 1)
        PROVE  g[j] = {j} \cup UNION {g[k] : k \in labels[j].sources}
    <3>1. j \in 1..N /\ labels[j].sources \subseteq 1..(j - 1)
      BY <1>1, <1>2, <2>2
    <3>2. \A k \in labels[j].sources : k \in 1..(n + 1) /\ k # n + 1
      BY <2>2, <3>1
    <3>3. \A k \in labels[j].sources : g[k] = of[k]
      BY <2>4, <3>2
    <3>4. {g[k] : k \in labels[j].sources} = {of[k] : k \in labels[j].sources}
      BY <3>3
    <3>5. CASE j = n + 1
      <4>1. g[j] = last
        BY <2>4, <3>5
      <4> QED
        BY <2>3, <3>4, <3>5, <4>1
    <3>6. CASE j # n + 1
      <4>1. j \in 1..n /\ g[j] = of[j]
        BY <2>2, <2>4, <3>6
      <4>2. of[j] = {j} \cup UNION {of[k] : k \in labels[j].sources}
        BY <2>1, <4>1 DEF Traces
      <4> QED
        BY <3>4, <4>1, <4>2
    <3> QED
      BY <3>5, <3>6
  <2>6. Traces(g, 1..(n + 1))
    <3>1. g = [j \in 1..(n + 1) |-> g[j]]
      BY <2>4
    <3> QED
      BY <2>5, <3>1 DEF Traces
  <2> QED
    BY <2>2, <2>6
<1>5. N \in S
  <2> HIDE DEF S
  <2>1. \A n \in 0..N : n \in S
    BY <1>1, <1>3, <1>4, EachUpTo
  <2> QED
    BY <1>1, <2>1
<1> QED
  BY <1>1, <1>5

\* What one label permits is permitted by the other.
Narrower(i, j) ==
    /\ Labelled!Policy(i).tenant = Labelled!Policy(j).tenant
    /\ \A d \in LabelDimensions : Labelled!Policy(i).allowed[d] \subseteq Labelled!Policy(j).allowed[d]
    /\ Labelled!Policy(j).handling \subseteq Labelled!Policy(i).handling
    /\ Labelled!Policy(i).until <= Labelled!Policy(j).until

\* A join is narrower than its sources.
LEMMA JoinNarrower ==
    ASSUME LabelsInv, NEW i \in DOMAIN labels, labels[i].by = "join", NEW j \in labels[i].sources
    PROVE  Narrower(i, j)
<1> DEFINE from == labels[i].sources
<1>1. LabelOK(i) /\ i \in 1..Len(labels) /\ Len(labels) \in Nat
  BY DEF LabelsInv
<1>2. from \in SUBSET DOMAIN labels /\ from # {} /\ OneTenant(from)
      /\ Labelled!Policy(i) = Labelled!Strictest(from)
  BY <1>1 DEF LabelOK, LabelsInv, Labelled!Policy
<1>3. Labelled!Strictest(from).until <= Labelled!Policy(j).until /\ Labelled!Min(from) \in from
  BY <1>2, StrictestIs DEF LabelsInv
<1>4. /\ \A d \in LabelDimensions : Labelled!Strictest(from).allowed[d] \subseteq Labelled!Policy(j).allowed[d]
      /\ Labelled!Policy(j).handling \subseteq Labelled!Strictest(from).handling
      /\ Labelled!Strictest(from).tenant = Labelled!Policy(Labelled!Min(from)).tenant
  BY DEF Labelled!Strictest, Labelled!Common
<1> QED
  BY <1>2, <1>3, <1>4 DEF Narrower, OneTenant

\* What the propagator labelled at every step is narrower than all it was derived from.
LEMMA AncestorsNarrower ==
    ASSUME LabelsInv, NEW i \in DOMAIN labels, \A j \in Labelled!Ancestors(i) : labels[j].by # "other",
           NEW j \in Labelled!Ancestors(i)
    PROVE  j \in DOMAIN labels /\ Narrower(i, j)
<1> DEFINE of == CHOOSE of : Traces(of, DOMAIN labels)
           Joined(n) == \A k \in of[n] : labels[k].by # "other"
           Fine(n) == \A k \in of[n] : k \in DOMAIN labels /\ (Joined(n) => Narrower(n, k))
           N == Len(labels)
           S == {n \in 0..N : \A m \in 1..n : Fine(m)}
<1>1. Labelled!Ancestors(i) = of[i]
  BY DEF Labelled!Ancestors, Traces
<1>2. Traces(of, DOMAIN labels)
  BY TracesExist
<1> HIDE DEF of
<1>3. N \in Nat /\ DOMAIN labels = 1..N
  BY DEF LabelsInv
<1> HIDE DEF N
<1>4. ASSUME NEW n \in 1..N
      PROVE  /\ of[n] = {n} \cup UNION {of[k] : k \in labels[n].sources}
             /\ labels[n].sources \subseteq 1..(n - 1)
  BY <1>2, <1>3 DEF Traces, LabelsInv, LabelOK
<1>5. \A n \in 1..N : Labelled!Policy(n).until \in Nat
  <2> SUFFICES ASSUME NEW n \in 1..N PROVE Labelled!Policy(n).until \in Nat
    OBVIOUS
  <2>1. labels[n] \in LabelLike
    BY <1>3 DEF LabelsInv
  <2> QED
    BY <2>1, PolicyParts DEF LabelLike, Labelled!Policy
<1>6. 0 \in S
  BY <1>3
<1>7. ASSUME NEW n \in 0..(N - 1), n \in S
      PROVE  n + 1 \in S
  <2>1. n + 1 \in 1..N /\ n + 1 \in 0..N /\ n \in Nat /\ \A m \in 1..n : Fine(m)
    BY <1>3, <1>7
  <2>2. ASSUME NEW k \in of[n + 1]
        PROVE  k \in DOMAIN labels /\ (Joined(n + 1) => Narrower(n + 1, k))
    <3>1. CASE k = n + 1
      <4>1. Labelled!Policy(n + 1).until <= Labelled!Policy(n + 1).until
        BY <1>5, <2>1
      <4> QED
        BY <1>3, <2>1, <3>1, <4>1 DEF Narrower
    <3>2. CASE \E s \in labels[n + 1].sources : k \in of[s]
      <4>1. PICK s \in labels[n + 1].sources : k \in of[s]
        BY <3>2
      <4>2. s \in 1..n
        BY <1>4, <2>1
      <4>3. Fine(s) /\ s \in 1..N
        BY <1>3, <2>1, <4>2
      <4>4. k \in DOMAIN labels
        BY <4>1, <4>3
      <4>5. ASSUME Joined(n + 1) PROVE Narrower(n + 1, k)
        <5>1. of[s] \subseteq of[n + 1] /\ n + 1 \in of[n + 1]
          BY <1>4, <2>1, <4>1
        <5>2. Joined(s) /\ labels[n + 1].by # "other"
          BY <4>5, <5>1
        <5>3. Narrower(s, k)
          BY <4>1, <4>3, <5>2
        <5>4. labels[n + 1].by = "join"
          <6>1. labels[n + 1] \in LabelLike /\ LabelOK(n + 1)
            BY <1>3, <2>1 DEF LabelsInv
          <6> QED
            BY <4>1, <5>2, <6>1 DEF LabelLike, LabelOK
        <5>5. Narrower(n + 1, s)
          BY <1>3, <2>1, <4>1, <5>4, JoinNarrower
        <5>6. Labelled!Policy(n + 1).until \in Nat /\ Labelled!Policy(s).until \in Nat
              /\ Labelled!Policy(k).until \in Nat
          BY <1>3, <1>5, <2>1, <4>3, <4>4
        <5> QED
          BY <5>3, <5>5, <5>6 DEF Narrower
      <4> QED
        BY <4>4, <4>5
    <3> QED
      BY <1>4, <2>1, <3>1, <3>2
  <2>3. Fine(n + 1)
    BY <2>2
  <2> HIDE DEF Fine
  <2>4. \A m \in 1..(n + 1) : Fine(m)
    <3> SUFFICES ASSUME NEW m \in 1..(n + 1) PROVE Fine(m)
      OBVIOUS
    <3>1. m \in 1..n \/ m = n + 1
      BY <2>1
    <3> QED
      BY <2>1, <2>3, <3>1
  <2> QED
    BY <2>1, <2>4
<1>8. N \in S
  <2> HIDE DEF S
  <2>1. \A n \in 0..N : n \in S
    BY <1>3, <1>6, <1>7, EachUpTo
  <2> QED
    BY <1>3, <2>1
<1>9. Fine(i)
  BY <1>3, <1>8
<1> QED
  BY <1>1, <1>9

\* Labels as strict as those of all sources are neither downgraded nor laundered.
LEMMA LabelsSafe ==
    LabelsInv => Labelled!NotDowngraded /\ Labelled!NotLaundered /\ Labelled!JoinAccepted
<1> SUFFICES ASSUME LabelsInv PROVE Labelled!NotDowngraded /\ Labelled!NotLaundered /\ Labelled!JoinAccepted
  OBVIOUS
<1>1. Labelled!NotDowngraded
  BY DEF LabelsInv, PermitOK, Labelled!NotDowngraded
<1>2. Labelled!NotLaundered
  <2> SUFFICES ASSUME permit # Labelled!NoPermit,
                      \A j \in Labelled!Ancestors(permit.label) : labels[j].by # "other",
                      NEW j \in Labelled!Ancestors(permit.label)
               PROVE  Labelled!Conforms(j)
    BY DEF Labelled!NotLaundered
  <2>1. PICK i : i = permit.label
    OBVIOUS
  <2>2. i \in DOMAIN labels /\ Labelled!Conforms(i) /\ permit.keepUntil \in Nat /\ permit.at \in Nat
    BY <2>1 DEF LabelsInv, PermitOK
  <2>3. j \in DOMAIN labels /\ Narrower(i, j)
    BY <2>1, <2>2, AncestorsNarrower
  <2>4. labels[i] \in LabelLike /\ labels[j] \in LabelLike
    BY <2>2, <2>3 DEF LabelsInv
  <2>5. Labelled!Policy(i).until \in Nat /\ Labelled!Policy(j).until \in Nat
    BY <2>4, PolicyParts DEF LabelLike, Labelled!Policy
  <2>6. /\ permit.keepUntil # Labelled!NotStated => permit.keepUntil <= Labelled!Policy(j).until
        /\ permit.at < Labelled!Policy(j).until
    BY <2>2, <2>3, <2>5 DEF Narrower, Labelled!Conforms
  <2>7. /\ \A d \in LabelDimensions : permit.use[d] \in Labelled!Policy(j).allowed[d]
        /\ permit.destination.tenant = Labelled!Policy(j).tenant
        /\ Labelled!Policy(j).handling \subseteq permit.destination.enforced
    BY <2>2, <2>3 DEF Narrower, Labelled!Conforms
  <2> QED
    BY <2>6, <2>7 DEF Labelled!Conforms
<1>3. Labelled!JoinAccepted
  <2> SUFFICES ASSUME NEW i \in DOMAIN labels, labels[i].by = "join", time < Labelled!Policy(i).until,
                      NEW use \in Labelled!Uses,
                      \A d \in LabelDimensions : use[d] \in Labelled!Policy(i).allowed[d]
               PROVE  Labelled!Allowed(i, labels[i].sources, labels[i].content, Labelled!Policy(i).tenant, use,
                        [tenant |-> Labelled!Policy(i).tenant, supported |-> {Labelled!Policy(i).class},
                         enforced |-> Labelled!Policy(i).handling], Labelled!Policy(i).until)
    BY DEF Labelled!JoinAccepted
  <2> DEFINE from == labels[i].sources
  <2>1. LabelOK(i) /\ labels[i] \in LabelLike
    BY DEF LabelsInv
  <2>2. Labelled!Policy(i).until \in Nat /\ Labelled!Policy(i).class \in Nat /\ time \in Nat
    BY <2>1, PolicyParts DEF LabelLike, LabelsInv, Labelled!Policy
  <2>3. Labelled!Policy(i) = Labelled!Strictest(from) /\ OneTenant(from)
        /\ Labelled!Policy(i).tenant = Labelled!Policy(Labelled!Min(from)).tenant
    BY <2>1 DEF LabelOK, Labelled!Policy, Labelled!Strictest
  <2>4. Labelled!Usable(i)
    BY <2>1 DEF Labelled!Usable, LabelOK
  <2>5. Labelled!Bound(i, labels[i].content, Labelled!Policy(i).tenant, use,
                       [tenant |-> Labelled!Policy(i).tenant, supported |-> {Labelled!Policy(i).class},
                        enforced |-> Labelled!Policy(i).handling], Labelled!Policy(i).until)
    BY <2>2 DEF Labelled!Bound
  <2>6. ASSUME NEW j \in from PROVE Labelled!Usable(j)
    <3>1. j \in DOMAIN labels
      BY <2>1 DEF LabelOK, LabelsInv
    <3>2. labels[j] \in LabelLike /\ LabelOK(j)
      BY <3>1 DEF LabelsInv
    <3>3. Labelled!Policy(j).until \in Nat
      BY <3>2, PolicyParts DEF LabelLike, Labelled!Policy
    <3>4. Labelled!Policy(i).until <= Labelled!Policy(j).until
      BY JoinNarrower DEF Narrower
    <3>5. time < Labelled!Policy(j).until
      BY <2>2, <3>3, <3>4
    <3> QED
      BY <3>2, <3>5 DEF Labelled!Usable, LabelOK
  <2>7. ~Labelled!Downgraded(i, from)
    <3>1. ~(\E j \in from : Labelled!Policy(j).tenant # Labelled!Policy(i).tenant)
      BY <2>3 DEF OneTenant
    <3>2. /\ ~(Labelled!Policy(i).class < Labelled!Strictest(from).class)
          /\ ~(Labelled!Policy(i).until > Labelled!Strictest(from).until)
          /\ Labelled!Strictest(from).handling \subseteq Labelled!Policy(i).handling
          /\ \A d \in LabelDimensions :
                Labelled!Policy(i).allowed[d] \subseteq Labelled!Strictest(from).allowed[d]
      BY <2>2, <2>3
    <3> QED
      BY <3>1, <3>2 DEF Labelled!Downgraded
  <2> QED
    BY <2>4, <2>5, <2>6, <2>7 DEF Labelled!Allowed, Labelled!LineageShown
<1> QED
  BY <1>1, <1>2, <1>3

\* As many labels are signed, and as long, as the bounds allow.
LabelsBounded == Len(labels) <= MaxLabels /\ time <= LabelEnd

\* No label is there at the start.
LEMMA LabelsBoundedInit == Labelled!Init => LabelsBounded
BY LabelsAssumption DEF Labelled!Init, LabelsBounded

\* A label is added below the bound only.
LEMMA LabelsBoundedStep ==
    ASSUME LabelsInv, LabelsBounded, Labelled!Next
    PROVE  LabelsBounded'
<1>1. ASSUME NEW p, NEW content, NEW from, NEW by, Labelled!Sign(p, content, from, by), time' = time
      PROVE  LabelsBounded'
  <2>1. Len(labels') = Len(labels) + 1 /\ Len(labels) < MaxLabels /\ Len(labels) \in Nat
    BY <1>1 DEF Labelled!Sign, LabelsInv
  <2> QED
    BY <1>1, <2>1, LabelsAssumption DEF LabelsBounded
<1>2. ASSUME Labelled!Tick PROVE LabelsBounded'
  BY <1>2, LabelsAssumption DEF Labelled!Tick, LabelsBounded, LabelsInv
<1>3. ASSUME labels' = labels, time' = time PROVE LabelsBounded'
  BY <1>3 DEF LabelsBounded
<1> QED
  BY <1>1, <1>2, <1>3 DEF Labelled!Next, Labelled!Issue, Labelled!Join, Labelled!Propose, Labelled!Authorize

\* What is signed and permitted is typed.
LEMMA LabelsTyped == LabelsInv /\ LabelsBounded => Labelled!TypeOK
<1> SUFFICES ASSUME LabelsInv, LabelsBounded PROVE Labelled!TypeOK
  OBVIOUS
<1>1. /\ labels \in Seq(LabelLike) /\ Len(labels) \in Nat /\ DOMAIN labels = 1..Len(labels)
      /\ Len(labels) <= MaxLabels /\ MaxLabels \in Nat /\ LabelEnd \in Nat /\ time \in 0..LabelEnd
  BY LabelsAssumption DEF LabelsInv, LabelsBounded
<1>2. ASSUME NEW i \in DOMAIN labels
      PROVE  labels[i] \in Labelled!LabelType /\ labels[i].sources \subseteq 1..i - 1
  <2>0. PICK l : l = labels[i]
    OBVIOUS
  <2>1. i \in 1..Len(labels) /\ l \in LabelLike /\ LabelOK(i)
    BY <1>1, <2>0 DEF LabelsInv
  <2>2. l.sources \subseteq 1..(i - 1) /\ l.issued \in Nat /\ l.issued <= time
    BY <2>0, <2>1 DEF LabelOK, LabelLike
  <2>3. l.sources \in SUBSET (1..MaxLabels) /\ l.issued \in 0..LabelEnd
    BY <1>1, <2>1, <2>2
  <2>4. l \in Labelled!LabelType
    BY <2>1, <2>3 DEF Labelled!LabelType, LabelLike
  <2> QED
    BY <2>0, <2>2, <2>4
<1>3. permit.label \in 0..Len(labels)
  BY <1>1 DEF LabelsInv, PermitOK, Labelled!NoPermit
<1> QED
  BY <1>1, <1>2, <1>3 DEF Labelled!TypeOK

-----------------------------------------------------------------------------
(* Flow of sensitive data *)

\* Origins and grants are policies.
ASSUME FlowAssumption ==
    /\ FlowOrigins \subseteq Flow!PolicyType /\ Widenings \subseteq Flow!PolicyType
    /\ MaxSensitivity \in Nat /\ MaxLineageDepth \in Nat
    /\ MaxFlows \in Nat /\ MaxGrants \in Nat /\ FlowEnd \in Nat

FlowLabel ==
    [policy : Flow!PolicyType, content : FlowContents, sources : SUBSET Nat, ancestors : SUBSET Nat,
     depth : 0..MaxLineageDepth, grants : SUBSET Nat, declassified : BOOLEAN, issued : Nat]
FlowGrant == [policy : Flow!PolicyType, source : Nat, content : FlowContents, issued : Nat]

\* A propagated label allows what all its sources allow.
Propagates(l) == l.policy = Flow!Joined(l.sources) /\ l.grants = Flow!GrantsOf(l.sources)

\* A declassified one allows what the last of its grants does.
Widens(l) ==
    \E k \in l.sources, g \in l.grants :
        /\ l.sources = {k} /\ l.grants = flows[k].grants \cup {g}
        /\ grants[g].source = k /\ grants[g].content = l.content
        /\ grants[g].policy.class = l.policy.class /\ grants[g].policy.allowed = l.policy.allowed

\* A label is of the owner of an ancestor, not longer, and allows more only by a grant.
Restrained(l, j) ==
    /\ l.policy.owner = flows[j].policy.owner /\ l.policy.until <= flows[j].policy.until
    /\ \/ \A d \in FlowDimensions : l.policy.allowed[d] \subseteq flows[j].policy.allowed[d]
       \/ \E g \in l.grants :
            /\ Flow!Lifts(g, j)
            /\ \A d \in FlowDimensions : l.policy.allowed[d] \subseteq grants[g].policy.allowed[d]

Granted(l, g) ==
    /\ g \in DOMAIN grants /\ grants[g].source \in l.ancestors
    /\ grants[g].policy.owner = l.policy.owner /\ l.policy.until <= grants[g].policy.until

\* What a label that is signed as the i-th is to the labels before it.
FlowOK(l, i) ==
    /\ l.sources \subseteq 1..(i - 1) /\ l.ancestors \subseteq 1..(i - 1) /\ l.issued <= flow_now
    /\ l.sources = {} => l.grants = {}
    /\ l.sources # {} => l.ancestors = Flow!Lineage(l.sources) /\ l.depth = Flow!Depth(l.sources)
    /\ l.sources # {} /\ ~l.declassified => Propagates(l)
    /\ l.declassified => Widens(l)
    /\ \A j \in l.ancestors : Restrained(l, j)
    /\ \A g \in l.grants : Granted(l, g)

GrantOK(g) == grants[g].source \in DOMAIN flows /\ grants[g].issued <= flow_now

TransferOK ==
    /\ transfer.label \in DOMAIN flows /\ transfer.at \in Nat
    /\ transfer.owner = flows[transfer.label].policy.owner
    /\ transfer.at < flows[transfer.label].policy.until
    /\ \A d \in FlowDimensions : transfer.use[d] \in flows[transfer.label].policy.allowed[d]

FlowInv ==
    /\ flows \in Seq(FlowLabel) /\ grants \in Seq(FlowGrant) /\ flow_now \in Nat
    /\ \A i \in DOMAIN flows : FlowOK(flows[i], i)
    /\ \A g \in DOMAIN grants : GrantOK(g)
    /\ transfer # Flow!NoPermit => TransferOK

\* The parts of policies that are numbers.
LEMMA FlowParts ==
    ASSUME NEW p \in Flow!PolicyType
    PROVE  p.class \in 0..MaxSensitivity /\ p.until \in 1..FlowEnd + 1 /\ p.until \in Nat
<1>1. p.class \in 0..MaxSensitivity /\ p.until \in 1..FlowEnd + 1
  BY DEF Flow!PolicyType
<1> QED
  BY <1>1, FlowAssumption

\* The policies and depths of the labels signed.
LEMMA FlowTyped ==
    ASSUME flows \in Seq(FlowLabel), NEW i \in DOMAIN flows
    PROVE  /\ Flow!Policy(i) = flows[i].policy /\ flows[i].policy \in Flow!PolicyType
           /\ flows[i].policy.until \in Nat /\ flows[i].depth \in 0..MaxLineageDepth
           /\ flows[i].grants \in SUBSET Nat /\ i \in Nat
<1>1. flows[i] \in FlowLabel /\ i \in Nat
  OBVIOUS
<1>2. flows[i].policy \in Flow!PolicyType
  BY <1>1 DEF FlowLabel
<1> QED
  BY <1>1, <1>2, FlowParts DEF FlowLabel, Flow!Policy

\* The join of policies and the depth above labels.
LEMMA JoinedIs ==
    ASSUME flows \in Seq(FlowLabel), NEW from \in SUBSET DOMAIN flows, from # {}
    PROVE  /\ Flow!Min(from) \in from
           /\ Flow!Joined(from) \in Flow!PolicyType
           /\ \A j \in from : Flow!Joined(from).until <= flows[j].policy.until
           /\ Flow!Depth(from) \in Nat
<1> DEFINE classes == {Flow!Policy(i).class : i \in from}
           ends == {Flow!Policy(i).until : i \in from}
           depths == {flows[i].depth : i \in from}
<1>1. ASSUME NEW i \in from
      PROVE  /\ Flow!Policy(i) = flows[i].policy /\ Flow!Policy(i) \in Flow!PolicyType
             /\ flows[i].depth \in 0..MaxLineageDepth
  BY FlowTyped
<1>2. PICK k \in from : TRUE
  OBVIOUS
<1>3. /\ \A i \in from : Flow!Policy(i).class \in 0..MaxSensitivity
      /\ \A i \in from : Flow!Policy(i).until \in 1..FlowEnd + 1 /\ Flow!Policy(i).until \in Nat
  BY <1>1, FlowParts
<1>4. classes \in SUBSET (0..MaxSensitivity) /\ Flow!Policy(k).class \in classes
  BY <1>3
<1>5. ends \in SUBSET Nat /\ ends \subseteq 1..FlowEnd + 1 /\ Flow!Policy(k).until \in ends
      /\ \A j \in from : Flow!Policy(j).until \in ends
  BY <1>3
<1>6. depths \in SUBSET (0..MaxLineageDepth) /\ flows[k].depth \in depths
  BY <1>1
<1>7. from \in SUBSET Nat
  OBVIOUS
<1>8. Flow!Min(from) \in from
  <2>1. PICK n \in from : \A m \in from : n <= m
    BY <1>7, LeastOf
  <2> QED
    BY <2>1 DEF Flow!Min
<1>9. Flow!Joined(from) =
        [owner |-> Flow!Policy(Flow!Min(from)).owner, class |-> Flow!Max(classes),
         allowed |-> [d \in FlowDimensions |-> Flow!Common(from, d)], until |-> Flow!Min(ends)]
  BY DEF Flow!Joined
<1>10. Flow!Depth(from) = Flow!Max(depths) + 1
  BY DEF Flow!Depth
<1> HIDE DEF classes, ends, depths
<1>11. Flow!Max(classes) \in classes
  <2>1. PICK n \in classes : \A m \in classes : m <= n
    BY <1>4, FlowAssumption, GreatestOf
  <2>2. \A m \in classes : m \in Nat
    BY <1>4, FlowAssumption
  <2>3. \A m \in classes : n >= m
    BY <2>1, <2>2
  <2> QED
    BY <2>3 DEF Flow!Max
<1>12. Flow!Max(depths) \in depths
  <2>1. PICK n \in depths : \A m \in depths : m <= n
    BY <1>6, FlowAssumption, GreatestOf
  <2>2. \A m \in depths : m \in Nat
    BY <1>6, FlowAssumption
  <2>3. \A m \in depths : n >= m
    BY <2>1, <2>2
  <2> QED
    BY <2>3 DEF Flow!Max
<1>13. Flow!Min(ends) \in ends /\ \A m \in ends : Flow!Min(ends) <= m
  <2>1. PICK n \in ends : \A m \in ends : n <= m
    BY <1>5, LeastOf
  <2> QED
    BY <2>1 DEF Flow!Min
<1>14. Flow!Depth(from) \in Nat
  <2>1. Flow!Max(depths) \in 0..MaxLineageDepth
    BY <1>6, <1>12
  <2> QED
    BY <1>10, <2>1, FlowAssumption
<1>15. Flow!Policy(Flow!Min(from)).owner \in Owners
  BY <1>1, <1>8 DEF Flow!PolicyType
<1>16. Flow!Max(classes) \in 0..MaxSensitivity /\ Flow!Min(ends) \in 1..FlowEnd + 1
  BY <1>4, <1>5, <1>11, <1>13
<1>17. [d \in FlowDimensions |-> Flow!Common(from, d)]
            \in [FlowDimensions -> SUBSET UNION {FlowValues[d] : d \in FlowDimensions}]
  <2>1. \A d \in FlowDimensions :
            Flow!Common(from, d) \subseteq UNION {FlowValues[e] : e \in FlowDimensions}
    BY DEF Flow!Common
  <2> QED
    BY <2>1
<1>18. Flow!Joined(from) \in Flow!PolicyType
  BY <1>9, <1>15, <1>16, <1>17 DEF Flow!PolicyType
<1>19. ASSUME NEW j \in from PROVE Flow!Joined(from).until <= flows[j].policy.until
  <2>1. Flow!Joined(from).until = Flow!Min(ends)
    BY <1>9
  <2>2. Flow!Policy(j).until \in ends /\ Flow!Policy(j) = flows[j].policy
    BY <1>1, <1>5
  <2> QED
    BY <1>13, <2>1, <2>2
<1> QED
  BY <1>8, <1>14, <1>18, <1>19

\* Where labels stay as they are so does what is made of them.
LEMMA JoinedKept ==
    ASSUME NEW from, \A j \in from : flows'[j] = flows[j], Flow!Min(from) \in from
    PROVE  /\ Flow!Joined(from)' = Flow!Joined(from) /\ Flow!Lineage(from)' = Flow!Lineage(from)
           /\ Flow!Depth(from)' = Flow!Depth(from) /\ Flow!GrantsOf(from)' = Flow!GrantsOf(from)
<1>1. \A j \in from : Flow!Policy(j)' = Flow!Policy(j)
  BY DEF Flow!Policy
<1>2. Flow!Policy(Flow!Min(from))' = Flow!Policy(Flow!Min(from))
  BY DEF Flow!Policy
<1>3. \A d \in FlowDimensions : Flow!Common(from, d)' = Flow!Common(from, d)
  BY <1>1 DEF Flow!Common
<1>4. {Flow!Policy(i).class : i \in from}' = {Flow!Policy(i).class : i \in from}
  BY <1>1
<1>5. {Flow!Policy(i).until : i \in from}' = {Flow!Policy(i).until : i \in from}
  BY <1>1
<1>6. [d \in FlowDimensions |-> Flow!Common(from, d)]' = [d \in FlowDimensions |-> Flow!Common(from, d)]
  BY <1>3
<1>7. Flow!Joined(from)' = Flow!Joined(from)
  BY <1>2, <1>4, <1>5, <1>6 DEF Flow!Joined
<1>8. {flows[i].ancestors : i \in from}' = {flows[i].ancestors : i \in from}
  OBVIOUS
<1>9. {flows[i].depth : i \in from}' = {flows[i].depth : i \in from}
  OBVIOUS
<1>10. {flows[i].grants : i \in from}' = {flows[i].grants : i \in from}
  OBVIOUS
<1> QED
  BY <1>7, <1>8, <1>9, <1>10 DEF Flow!Lineage, Flow!Depth, Flow!GrantsOf

\* What a label is to the labels before it stays as it is when more labels and grants are signed
\* and time goes on.
LEMMA FlowKept ==
    ASSUME FlowInv, NEW l \in FlowLabel, NEW i \in Nat, FlowOK(l, i), \A j \in 1..(i - 1) : j \in DOMAIN flows,
           \A j \in DOMAIN flows : flows'[j] = flows[j],
           \A g \in DOMAIN grants : g \in DOMAIN grants' /\ grants'[g] = grants[g],
           flow_now' \in Nat, flow_now <= flow_now'
    PROVE  FlowOK(l, i)'
<1> DEFINE s == l.sources
<1>1. s \subseteq DOMAIN flows /\ l.ancestors \subseteq DOMAIN flows /\ \A j \in s : flows'[j] = flows[j]
  BY DEF FlowOK
<1>2. l.issued <= flow_now'
  <2>1. l.issued \in Nat /\ l.issued <= flow_now /\ flow_now \in Nat
    BY DEF FlowLabel, FlowOK, FlowInv
  <2> QED
    BY <2>1
<1>3. ASSUME s # {}
      PROVE  /\ Flow!Joined(s)' = Flow!Joined(s) /\ Flow!Lineage(s)' = Flow!Lineage(s)
             /\ Flow!Depth(s)' = Flow!Depth(s) /\ Flow!GrantsOf(s)' = Flow!GrantsOf(s)
  <2>1. Flow!Min(s) \in s
    BY <1>1, <1>3, JoinedIs DEF FlowInv
  <2> QED
    BY <1>1, <2>1, JoinedKept
<1>4. \A g \in l.grants :
        g \in DOMAIN grants /\ g \in DOMAIN grants' /\ grants'[g] = grants[g] /\ grants[g].source \in DOMAIN flows
  BY DEF FlowOK, Granted, FlowInv, GrantOK
<1>5. ASSUME l.declassified PROVE Widens(l)'
  <2>1. PICK k \in l.sources, g \in l.grants :
        /\ l.sources = {k} /\ l.grants = flows[k].grants \cup {g}
        /\ grants[g].source = k /\ grants[g].content = l.content
        /\ grants[g].policy.class = l.policy.class /\ grants[g].policy.allowed = l.policy.allowed
    BY <1>5 DEF FlowOK, Widens
  <2>2. flows'[k] = flows[k] /\ grants'[g] = grants[g]
    BY <1>1, <1>4
  <2> QED
    BY <2>1, <2>2 DEF Widens
<1>6. ASSUME NEW j \in l.ancestors PROVE Restrained(l, j)'
  <2>1. Restrained(l, j) /\ flows'[j] = flows[j]
    BY <1>1 DEF FlowOK
  <2>2. \A g \in l.grants : grants'[g] = grants[g] /\ (Flow!Lifts(g, j) => Flow!Lifts(g, j)')
    BY <1>4 DEF Flow!Lifts
  <2> QED
    BY <2>1, <2>2 DEF Restrained
<1>7. \A g \in l.grants : Granted(l, g)'
  BY <1>4 DEF FlowOK, Granted
<1>8. s # {} /\ ~l.declassified => Propagates(l)'
  BY <1>3 DEF FlowOK, Propagates
<1>9. s # {} => l.ancestors = Flow!Lineage(s)' /\ l.depth = Flow!Depth(s)'
  BY <1>3 DEF FlowOK
<1> QED
  BY <1>2, <1>5, <1>6, <1>7, <1>8, <1>9 DEF FlowOK

\* No flow is labelled at the start.
LEMMA FlowInit == Flow!Init => FlowInv
BY DEF Flow!Init, FlowInv

\* A new label leaves the others, the grants and the permit as they are.
LEMMA FlowSign ==
    ASSUME FlowInv, NEW l \in FlowLabel, flows' = Append(flows, l), FlowOK(l, Len(flows) + 1),
           grants' = grants, transfer' = transfer, flow_now' = flow_now
    PROVE  FlowInv'
<1>a. PICK N : N = Len(flows)
  OBVIOUS
<1>1. N \in Nat /\ DOMAIN flows = 1..N /\ flows \in Seq(FlowLabel) /\ FlowOK(l, N + 1)
  BY <1>a DEF FlowInv
<1>2. flows' \in Seq(FlowLabel) /\ DOMAIN flows' = 1..(N + 1) /\ flows'[N + 1] = l
      /\ \A j \in DOMAIN flows : flows'[j] = flows[j]
  BY <1>a, <1>1
<1>3. flow_now' \in Nat /\ flow_now <= flow_now'
  BY DEF FlowInv
<1>4. ASSUME NEW i \in DOMAIN flows' PROVE FlowOK(flows[i], i)'
  <2>1. CASE i = N + 1
    <3>1. \A j \in 1..((N + 1) - 1) : j \in DOMAIN flows
      BY <1>1
    <3>2. FlowOK(l, N + 1)'
      BY <1>1, <1>2, <1>3, <3>1, FlowKept
    <3> QED
      BY <1>2, <2>1, <3>2
  <2>2. CASE i # N + 1
    <3>0. PICK m : m = flows[i]
      OBVIOUS
    <3>1. i \in DOMAIN flows /\ i \in Nat /\ \A j \in 1..(i - 1) : j \in DOMAIN flows
      BY <1>1, <1>2, <2>2
    <3>2. m \in FlowLabel /\ FlowOK(m, i) /\ flows'[i] = m
      BY <1>1, <1>2, <3>0, <3>1 DEF FlowInv
    <3>3. FlowOK(m, i)'
      BY <1>1, <1>2, <1>3, <3>1, <3>2, FlowKept
    <3> QED
      BY <3>2, <3>3
  <2> QED
    BY <2>1, <2>2
<1>5. ASSUME NEW g \in DOMAIN grants PROVE GrantOK(g)'
  BY <1>1, <1>2 DEF FlowInv, GrantOK
<1>6. transfer # Flow!NoPermit => TransferOK'
  BY <1>1, <1>2 DEF FlowInv, TransferOK
<1> QED
  BY <1>2, <1>4, <1>5, <1>6 DEF FlowInv, FlowLabel, FlowGrant, Flow!PolicyType, Flow!NoPermit

\* issue(): an origin has no sources.
LEMMA FlowIssue ==
    ASSUME FlowInv, NEW p \in FlowOrigins, NEW content \in FlowContents, Flow!Issue(p, content)
    PROVE  FlowInv'
<1>1. PICK l : l = [policy |-> p, content |-> content, sources |-> {}, ancestors |-> {}, depth |-> 0,
                    grants |-> {}, declassified |-> FALSE, issued |-> flow_now]
  OBVIOUS
<1>2. flows' = Append(flows, l) /\ grants' = grants /\ transfer' = transfer /\ flow_now' = flow_now
  BY <1>1 DEF Flow!Issue, Flow!Sign
<1>3. l \in FlowLabel
  BY <1>1, FlowAssumption DEF FlowLabel, FlowInv
<1>4. /\ l.sources = {} /\ l.ancestors = {} /\ l.grants = {} /\ l.declassified = FALSE
      /\ l.issued = flow_now /\ flow_now <= flow_now
  BY <1>1 DEF FlowInv
<1>5. FlowOK(l, Len(flows) + 1)
  BY <1>4 DEF FlowOK
<1> QED
  BY <1>2, <1>3, <1>5, FlowSign

\* What lies behind labels that were signed before.
LEMMA LineageBefore ==
    ASSUME FlowInv, NEW from \in SUBSET DOMAIN flows
    PROVE  /\ Flow!Lineage(from) \subseteq DOMAIN flows /\ Flow!Lineage(from) \in SUBSET Nat
           /\ from \subseteq Flow!Lineage(from)
           /\ Flow!GrantsOf(from) \in SUBSET Nat
<1>1. DOMAIN flows = 1..Len(flows) /\ Len(flows) \in Nat /\ flows \in Seq(FlowLabel)
  BY DEF FlowInv
<1>2. ASSUME NEW i \in from PROVE flows[i].ancestors \subseteq DOMAIN flows /\ flows[i].grants \subseteq Nat
  <2>1. i \in 1..Len(flows) /\ flows[i].ancestors \subseteq 1..(i - 1)
    BY <1>1 DEF FlowInv, FlowOK
  <2> QED
    BY <1>1, <2>1, FlowTyped
<1> QED
  BY <1>1, <1>2 DEF Flow!Lineage, Flow!GrantsOf

\* propagate(): what restrains the sources restrains what they are combined to.
LEMMA FlowPropagate ==
    ASSUME FlowInv, NEW from \in SUBSET DOMAIN flows, NEW content \in FlowContents, Flow!Propagate(from, content)
    PROVE  FlowInv'
<1>1. PICK l : l = [policy |-> Flow!Joined(from), content |-> content, sources |-> from,
                    ancestors |-> Flow!Lineage(from), depth |-> Flow!Depth(from),
                    grants |-> Flow!GrantsOf(from), declassified |-> FALSE, issued |-> flow_now]
  OBVIOUS
<1>2. /\ from # {} /\ Flow!Depth(from) <= MaxLineageDepth
      /\ \A i \in from : Flow!Policy(i).owner = Flow!Policy(Flow!Min(from)).owner
      /\ flows' = Append(flows, l) /\ grants' = grants /\ transfer' = transfer /\ flow_now' = flow_now
  BY <1>1 DEF Flow!Propagate, Flow!Derive, Flow!Sign
<1>3. /\ flows \in Seq(FlowLabel) /\ DOMAIN flows = 1..Len(flows) /\ Len(flows) \in Nat /\ flow_now \in Nat
  BY DEF FlowInv
<1>4. /\ Flow!Min(from) \in from /\ Flow!Joined(from) \in Flow!PolicyType
      /\ \A j \in from : Flow!Joined(from).until <= flows[j].policy.until
      /\ Flow!Depth(from) \in Nat
  BY <1>2, <1>3, JoinedIs
<1>5. /\ Flow!Lineage(from) \subseteq DOMAIN flows /\ Flow!Lineage(from) \in SUBSET Nat
      /\ Flow!GrantsOf(from) \in SUBSET Nat
  BY LineageBefore
<1>6. /\ l.policy = Flow!Joined(from) /\ l.sources = from /\ l.ancestors = Flow!Lineage(from)
      /\ l.depth = Flow!Depth(from) /\ l.grants = Flow!GrantsOf(from) /\ l.declassified = FALSE
      /\ l.issued = flow_now
  BY <1>1
<1>7. l \in FlowLabel
  <2>1. Flow!Depth(from) \in 0..MaxLineageDepth
    BY <1>2, <1>4, FlowAssumption
  <2>2. from \in SUBSET Nat
    BY <1>3
  <2> QED
    BY <1>1, <1>3, <1>4, <1>5, <2>1, <2>2 DEF FlowLabel
<1>8. \A j \in from :
        /\ l.policy.owner = flows[j].policy.owner /\ l.policy.until <= flows[j].policy.until
        /\ \A d \in FlowDimensions : l.policy.allowed[d] \subseteq flows[j].policy.allowed[d]
        /\ flows[j].grants \subseteq l.grants /\ flows[j].ancestors \subseteq l.ancestors
  <2> SUFFICES ASSUME NEW j \in from
               PROVE  /\ l.policy.owner = flows[j].policy.owner /\ l.policy.until <= flows[j].policy.until
                      /\ \A d \in FlowDimensions : l.policy.allowed[d] \subseteq flows[j].policy.allowed[d]
                      /\ flows[j].grants \subseteq l.grants /\ flows[j].ancestors \subseteq l.ancestors
    OBVIOUS
  <2>1. Flow!Joined(from).owner = flows[j].policy.owner
    <3>1. Flow!Joined(from).owner = Flow!Policy(Flow!Min(from)).owner
      BY DEF Flow!Joined
    <3> QED
      BY <1>2, <3>1 DEF Flow!Policy
  <2>2. \A d \in FlowDimensions : Flow!Joined(from).allowed[d] \subseteq flows[j].policy.allowed[d]
    BY DEF Flow!Joined, Flow!Common, Flow!Policy
  <2>3. flows[j].grants \subseteq Flow!GrantsOf(from) /\ flows[j].ancestors \subseteq Flow!Lineage(from)
    BY DEF Flow!GrantsOf, Flow!Lineage
  <2> QED
    BY <1>4, <1>6, <2>1, <2>2, <2>3
<1>9. l.policy.until \in Nat /\ \A j \in DOMAIN flows : flows[j].policy.until \in Nat
  BY <1>3, <1>4, <1>6, FlowParts, FlowTyped
<1>10. ASSUME NEW j \in l.ancestors PROVE Restrained(l, j)
  <2>1. CASE j \in from
    BY <1>8, <2>1 DEF Restrained
  <2>2. CASE \E k \in from : j \in flows[k].ancestors
    <3>1. PICK k \in from : j \in flows[k].ancestors
      BY <2>2
    <3>2. Restrained(flows[k], j) /\ j \in DOMAIN flows
      BY <1>5, <1>6, <3>1 DEF FlowInv, FlowOK
    <3>3. l.policy.owner = flows[j].policy.owner
      BY <1>8, <3>2 DEF Restrained
    <3>4. l.policy.until <= flows[j].policy.until
      <4>1. l.policy.until <= flows[k].policy.until /\ flows[k].policy.until <= flows[j].policy.until
        BY <1>8, <3>2 DEF Restrained
      <4> QED
        BY <1>9, <3>2, <4>1
    <3>5. CASE \A d \in FlowDimensions : flows[k].policy.allowed[d] \subseteq flows[j].policy.allowed[d]
      BY <1>8, <3>3, <3>4, <3>5 DEF Restrained
    <3>6. CASE \E g \in flows[k].grants :
                /\ Flow!Lifts(g, j)
                /\ \A d \in FlowDimensions : flows[k].policy.allowed[d] \subseteq grants[g].policy.allowed[d]
      <4>1. PICK g \in flows[k].grants :
                /\ Flow!Lifts(g, j)
                /\ \A d \in FlowDimensions : flows[k].policy.allowed[d] \subseteq grants[g].policy.allowed[d]
        BY <3>6
      <4>2. g \in l.grants
        BY <1>8
      <4>3. \A d \in FlowDimensions : l.policy.allowed[d] \subseteq grants[g].policy.allowed[d]
        BY <1>8, <4>1
      <4> QED
        BY <3>3, <3>4, <4>1, <4>2, <4>3 DEF Restrained
    <3> QED
      BY <3>2, <3>5, <3>6 DEF Restrained
  <2> QED
    BY <1>6, <2>1, <2>2 DEF Flow!Lineage
<1>11. ASSUME NEW g \in l.grants PROVE Granted(l, g)
  <2>1. PICK k \in from : g \in flows[k].grants
    BY <1>6 DEF Flow!GrantsOf
  <2>2. Granted(flows[k], g)
    BY <2>1 DEF FlowInv, FlowOK
  <2>3. g \in DOMAIN grants /\ grants[g].source \in l.ancestors /\ grants[g].policy.owner = l.policy.owner
    BY <1>8, <2>2 DEF Granted
  <2>4. grants[g] \in FlowGrant
    BY <2>3 DEF FlowInv
  <2>5. grants[g].policy.until \in Nat
    BY <2>4, FlowParts DEF FlowGrant
  <2>6. l.policy.until <= flows[k].policy.until /\ flows[k].policy.until <= grants[g].policy.until
    BY <1>8, <2>2 DEF Granted
  <2>7. l.policy.until <= grants[g].policy.until
    BY <1>9, <2>5, <2>6
  <2> QED
    BY <2>3, <2>7 DEF Granted
<1>12. FlowOK(l, Len(flows) + 1)
  <2>1. from \subseteq 1..((Len(flows) + 1) - 1) /\ Flow!Lineage(from) \subseteq 1..((Len(flows) + 1) - 1)
        /\ flow_now <= flow_now
    BY <1>3, <1>5
  <2> QED
    BY <1>2, <1>6, <1>10, <1>11, <2>1 DEF FlowOK, Propagates
<1> QED
  BY <1>2, <1>7, <1>12, FlowSign

\* declassify(): the grant is given for the source, and lifts what restrains it.
LEMMA FlowDeclassify ==
    ASSUME FlowInv, NEW k \in DOMAIN flows, NEW g \in DOMAIN grants, NEW content \in FlowContents,
           Flow!Declassify(k, g, content)
    PROVE  FlowInv'
<1>1. PICK p : p = [grants[g].policy EXCEPT !.until = Flow!Min({@, flows[k].policy.until})]
  OBVIOUS
<1>2. PICK l : l = [policy |-> p, content |-> content, sources |-> {k}, ancestors |-> Flow!Lineage({k}),
                    depth |-> flows[k].depth + 1, grants |-> flows[k].grants \cup {g},
                    declassified |-> TRUE, issued |-> flow_now]
  OBVIOUS
<1>3. /\ grants[g].source = k /\ grants[g].content = content
      /\ grants[g].policy.owner = flows[k].policy.owner /\ flows[k].depth < MaxLineageDepth
      /\ flows' = Append(flows, l) /\ grants' = grants /\ transfer' = transfer /\ flow_now' = flow_now
  BY <1>1, <1>2 DEF Flow!Declassify, Flow!Sign, Flow!Policy
<1>4. /\ flows \in Seq(FlowLabel) /\ DOMAIN flows = 1..Len(flows) /\ Len(flows) \in Nat /\ flow_now \in Nat
      /\ grants[g] \in FlowGrant /\ g \in Nat /\ FlowOK(flows[k], k)
  BY DEF FlowInv
<1>5. /\ k \in Nat /\ flows[k].policy.until \in Nat /\ flows[k].depth \in 0..MaxLineageDepth
      /\ flows[k].policy \in Flow!PolicyType /\ flows[k].grants \in SUBSET Nat
  BY <1>4, FlowTyped
<1>6. grants[g].policy \in Flow!PolicyType /\ grants[g].policy.until \in Nat
  BY <1>4, FlowParts DEF FlowGrant
<1>7. PICK until : until = Flow!Min({grants[g].policy.until, flows[k].policy.until})
  OBVIOUS
<1>8. /\ until \in {grants[g].policy.until, flows[k].policy.until}
      /\ until <= grants[g].policy.until /\ until <= flows[k].policy.until
  <2>1. PICK S : S = {grants[g].policy.until, flows[k].policy.until}
    OBVIOUS
  <2>2. S \in SUBSET Nat /\ S # {}
    BY <1>5, <1>6, <2>1
  <2>3. PICK n \in S : \A m \in S : n <= m
    BY <2>2, LeastOf
  <2>4. Flow!Min(S) \in S /\ \A m \in S : Flow!Min(S) <= m
    BY <2>3 DEF Flow!Min
  <2> QED
    BY <1>7, <2>1, <2>4
<1>9. p = [grants[g].policy EXCEPT !.until = until]
  BY <1>1, <1>7
<1>10. /\ p \in Flow!PolicyType /\ p.owner = grants[g].policy.owner /\ p.until = until
       /\ p.class = grants[g].policy.class /\ p.allowed = grants[g].policy.allowed
  <2>1. until \in 1..FlowEnd + 1
    BY <1>5, <1>6, <1>8, FlowParts
  <2> QED
    BY <1>6, <1>9, <2>1 DEF Flow!PolicyType
<1>11. /\ l.policy = p /\ l.content = content /\ l.sources = {k} /\ l.ancestors = Flow!Lineage({k})
       /\ l.depth = flows[k].depth + 1 /\ l.grants = flows[k].grants \cup {g}
       /\ l.declassified = TRUE /\ l.issued = flow_now
  BY <1>2
<1>12. /\ Flow!Lineage({k}) \subseteq DOMAIN flows /\ Flow!Lineage({k}) \in SUBSET Nat
       /\ Flow!Lineage({k}) = {k} \cup flows[k].ancestors
  <2>1. {k} \in SUBSET DOMAIN flows
    OBVIOUS
  <2>2. Flow!Lineage({k}) = {k} \cup flows[k].ancestors
    BY DEF Flow!Lineage
  <2> QED
    BY <2>1, <2>2, LineageBefore
<1>13. Flow!Depth({k}) = flows[k].depth + 1
  <2>1. PICK e : e = flows[k].depth
    OBVIOUS
  <2>2. {flows[i].depth : i \in {k}} = {e}
    BY <2>1
  <2>3. Flow!Max({e}) = e
    <3>1. e \in {e} /\ \A m \in {e} : e >= m
      BY <1>5, <2>1
    <3>2. Flow!Max({e}) \in {e}
      BY <3>1 DEF Flow!Max
    <3> QED
      BY <3>2
  <2> QED
    BY <2>1, <2>2, <2>3 DEF Flow!Depth
<1>14. l \in FlowLabel
  <2>1. flows[k].depth + 1 \in 0..MaxLineageDepth
    BY <1>3, <1>5, FlowAssumption
  <2>2. {k} \in SUBSET Nat /\ flows[k].grants \cup {g} \in SUBSET Nat
    BY <1>4, <1>5
  <2> QED
    BY <1>2, <1>4, <1>10, <1>12, <2>1, <2>2 DEF FlowLabel
<1>15. Widens(l)
  BY <1>3, <1>10, <1>11 DEF Widens
<1>16. \A d \in FlowDimensions : l.policy.allowed[d] \subseteq grants[g].policy.allowed[d]
  BY <1>10, <1>11
<1>17. l.policy.until <= flows[k].policy.until /\ l.policy.until <= grants[g].policy.until
       /\ l.policy.until \in Nat /\ l.policy.owner = flows[k].policy.owner
  BY <1>3, <1>5, <1>6, <1>8, <1>10, <1>11
<1>18. ASSUME NEW j \in l.ancestors PROVE Restrained(l, j)
  <2>1. j = k \/ j \in flows[k].ancestors
    BY <1>11, <1>12
  <2>2. Flow!Lifts(g, j)
    BY <1>3, <2>1 DEF Flow!Lifts
  <2>3. l.policy.owner = flows[j].policy.owner /\ l.policy.until <= flows[j].policy.until
    <3>1. CASE j = k
      BY <1>17, <3>1
    <3>2. CASE j \in flows[k].ancestors
      <4>1. Restrained(flows[k], j) /\ j \in DOMAIN flows
        BY <1>4, <1>11, <1>12, <3>2 DEF FlowOK
      <4>2. flows[j].policy.until \in Nat
        BY <1>4, <4>1, FlowTyped
      <4>3. flows[k].policy.owner = flows[j].policy.owner /\ flows[k].policy.until <= flows[j].policy.until
        BY <4>1 DEF Restrained
      <4> QED
        BY <1>5, <1>17, <4>2, <4>3
    <3> QED
      BY <2>1, <3>1, <3>2
  <2> QED
    BY <1>11, <1>16, <2>2, <2>3 DEF Restrained
<1>19. ASSUME NEW h \in l.grants PROVE Granted(l, h)
  <2>1. CASE h = g
    <3>1. grants[g].source \in l.ancestors /\ g \in DOMAIN grants
      <4>1. k \in {k} \cup flows[k].ancestors
        OBVIOUS
      <4> QED
        BY <1>3, <1>11, <1>12, <4>1, Zenon
    <3>2. grants[g].policy.owner = l.policy.owner /\ l.policy.until <= grants[g].policy.until
      BY <1>3, <1>17
    <3> QED
      BY <2>1, <3>1, <3>2 DEF Granted
  <2>2. CASE h \in flows[k].grants
    <3>1. Granted(flows[k], h)
      BY <1>4, <2>2 DEF FlowOK
    <3>2. h \in DOMAIN grants
      BY <3>1 DEF Granted
    <3>3. grants[h] \in FlowGrant
      BY <3>2 DEF FlowInv
    <3>4. grants[h].policy.until \in Nat
      BY <3>3, FlowParts DEF FlowGrant
    <3>5. flows[k].policy.until <= grants[h].policy.until
      BY <3>1 DEF Granted
    <3>6. l.policy.until <= grants[h].policy.until
      BY <1>5, <1>17, <3>4, <3>5
    <3> QED
      BY <1>11, <1>12, <1>17, <3>1, <3>6 DEF Granted
  <2> QED
    BY <1>11, <2>1, <2>2
<1>20. FlowOK(l, Len(flows) + 1)
  <2>0. (Len(flows) + 1) - 1 = Len(flows) /\ flow_now <= flow_now
    BY <1>4
  <2>1. {k} \subseteq 1..((Len(flows) + 1) - 1) /\ Flow!Lineage({k}) \subseteq 1..((Len(flows) + 1) - 1)
        /\ flow_now <= flow_now
    BY <1>4, <1>12, <2>0
  <2> QED
    BY <1>11, <1>13, <1>15, <1>18, <1>19, <2>1 DEF FlowOK
<1> QED
  BY <1>3, <1>14, <1>20, FlowSign

\* A new grant, a permit and the clock leave the labels as they are to one another.
LEMMA FlowStays ==
    ASSUME FlowInv, flows' = flows, flow_now' \in Nat, flow_now <= flow_now', grants' \in Seq(FlowGrant),
           \A g \in DOMAIN grants : g \in DOMAIN grants' /\ grants'[g] = grants[g]
    PROVE  (flows \in Seq(FlowLabel))' /\ (grants \in Seq(FlowGrant))' /\ \A i \in DOMAIN flows' : FlowOK(flows[i], i)'
<1>1. ASSUME NEW i \in DOMAIN flows PROVE FlowOK(flows[i], i)'
  <2>1. PICK l : l = flows[i]
    OBVIOUS
  <2>2. DOMAIN flows = 1..Len(flows) /\ Len(flows) \in Nat /\ i \in Nat
    BY DEF FlowInv
  <2>3. l \in FlowLabel /\ FlowOK(l, i) /\ \A j \in 1..(i - 1) : j \in DOMAIN flows
    BY <2>1, <2>2 DEF FlowInv
  <2>4. FlowOK(l, i)'
    BY <2>2, <2>3, FlowKept
  <2> QED
    BY <2>1, <2>4
<1> QED
  BY <1>1 DEF FlowInv, FlowLabel, FlowGrant, Flow!PolicyType

\* A grant changes no label.
LEMMA FlowGrants ==
    ASSUME FlowInv, NEW k \in DOMAIN flows, NEW p \in Widenings, NEW content \in FlowContents,
           Flow!Grant(k, p, content)
    PROVE  FlowInv'
<1>1. PICK h : h = [policy |-> p, source |-> k, content |-> content, issued |-> flow_now]
  OBVIOUS
<1>2. grants' = Append(grants, h) /\ flows' = flows /\ transfer' = transfer /\ flow_now' = flow_now
  BY <1>1 DEF Flow!Grant
<1>3. grants \in Seq(FlowGrant) /\ flow_now \in Nat /\ k \in Nat
  BY DEF FlowInv
<1>4. h \in FlowGrant
  BY <1>1, <1>3, FlowAssumption DEF FlowGrant
<1>5. /\ grants' \in Seq(FlowGrant) /\ \A g \in DOMAIN grants : g \in DOMAIN grants' /\ grants'[g] = grants[g]
      /\ \A g \in DOMAIN grants' : g \in DOMAIN grants \/ grants'[g] = h
  BY <1>2, <1>3, <1>4
<1>6. flow_now' \in Nat /\ flow_now <= flow_now'
  BY <1>2, <1>3
<1>7. (flows \in Seq(FlowLabel))' /\ (grants \in Seq(FlowGrant))' /\ \A i \in DOMAIN flows' : FlowOK(flows[i], i)'
  BY <1>2, <1>5, <1>6, FlowStays
<1>8. h.source = k /\ h.issued = flow_now
  BY <1>1
<1>9. ASSUME NEW g \in DOMAIN grants' PROVE GrantOK(g)'
  <2>1. CASE g \in DOMAIN grants
    BY <1>2, <1>5, <2>1 DEF FlowInv, GrantOK
  <2>2. CASE grants'[g] = h
    BY <1>2, <1>6, <1>8, <2>2 DEF GrantOK
  <2> QED
    BY <1>5, <2>1, <2>2
<1>10. transfer # Flow!NoPermit => TransferOK'
  BY <1>2 DEF FlowInv, TransferOK
<1> QED
  BY <1>2, <1>6, <1>7, <1>9, <1>10 DEF FlowInv, Flow!NoPermit

\* Every operation on sensitive data keeps FlowInv.
LEMMA FlowStep == FlowInv /\ Flow!Next => FlowInv'
<1> SUFFICES ASSUME FlowInv, Flow!Next PROVE FlowInv'
  OBVIOUS
<1>0. grants \in Seq(FlowGrant) /\ flow_now \in Nat
  BY DEF FlowInv
<1>1. ASSUME NEW i \in DOMAIN flows, NEW from, NEW shown, NEW content, NEW owner, NEW use,
             Flow!Authorize(i, from, shown, content, owner, use)
      PROVE  FlowInv'
  <2>1. /\ Flow!Usable(i) /\ Flow!Bound(i, content, owner, use)
        /\ transfer' = [label |-> i, use |-> use, owner |-> owner, at |-> flow_now]
        /\ flows' = flows /\ grants' = grants /\ flow_now' = flow_now
    BY <1>1 DEF Flow!Authorize, Flow!Allowed
  <2>2. transfer'.label = i /\ transfer'.use = use /\ transfer'.owner = owner /\ transfer'.at = flow_now
    BY <2>1
  <2>3. TransferOK'
    BY <1>0, <2>1, <2>2 DEF TransferOK, Flow!Usable, Flow!Bound, Flow!Policy
  <2>4. flow_now <= flow_now' /\ flow_now' \in Nat /\ grants' \in Seq(FlowGrant)
    BY <1>0, <2>1
  <2>5. (flows \in Seq(FlowLabel))' /\ (grants \in Seq(FlowGrant))' /\ \A j \in DOMAIN flows' : FlowOK(flows[j], j)'
    BY <2>1, <2>4, FlowStays
  <2>6. \A g \in DOMAIN grants' : GrantOK(g)'
    BY <2>1 DEF FlowInv, GrantOK
  <2> QED
    BY <2>3, <2>4, <2>5, <2>6 DEF FlowInv
<1>2. ASSUME Flow!Tick PROVE FlowInv'
  <2>1. flows' = flows /\ grants' = grants /\ transfer' = transfer /\ flow_now' = flow_now + 1
    BY <1>2 DEF Flow!Tick
  <2>2. flow_now <= flow_now' /\ flow_now' \in Nat /\ grants' \in Seq(FlowGrant)
    BY <1>0, <2>1
  <2>3. (flows \in Seq(FlowLabel))' /\ (grants \in Seq(FlowGrant))' /\ \A j \in DOMAIN flows' : FlowOK(flows[j], j)'
    BY <2>1, <2>2, FlowStays
  <2>4. ASSUME NEW g \in DOMAIN grants' PROVE GrantOK(g)'
    <3>1. grants[g] \in FlowGrant /\ GrantOK(g)
      BY <1>0, <2>1 DEF FlowInv
    <3>2. grants[g].issued \in Nat
      BY <3>1 DEF FlowGrant
    <3> QED
      BY <1>0, <2>1, <3>1, <3>2 DEF GrantOK
  <2>5. transfer # Flow!NoPermit => TransferOK'
    BY <2>1 DEF FlowInv, TransferOK
  <2> QED
    BY <2>1, <2>2, <2>3, <2>4, <2>5 DEF FlowInv, Flow!NoPermit
<1> QED
  BY <1>1, <1>2, FlowIssue, FlowPropagate, FlowGrants, FlowDeclassify DEF Flow!Next

\* Lineages that are as strict as their sources are not laundered and are accepted.
LEMMA FlowSafe == FlowInv => Flow!NotLaundered /\ Flow!PropagatedAccepted
<1> SUFFICES ASSUME FlowInv PROVE Flow!NotLaundered /\ Flow!PropagatedAccepted
  OBVIOUS
<1>0. flows \in Seq(FlowLabel) /\ DOMAIN flows = 1..Len(flows) /\ Len(flows) \in Nat /\ flow_now \in Nat
  BY DEF FlowInv
<1>1. ASSUME NEW i \in DOMAIN flows, NEW g \in flows[i].grants
      PROVE  /\ g \in DOMAIN grants /\ grants[g].source \in flows[i].ancestors
             /\ grants[g].policy.owner = flows[i].policy.owner /\ grants[g].issued <= flow_now
             /\ \A t \in Nat : t < flows[i].policy.until => t < grants[g].policy.until
  <2>1. Granted(flows[i], g)
    BY DEF FlowInv, FlowOK
  <2>2. grants[g] \in FlowGrant /\ GrantOK(g)
    BY <2>1 DEF FlowInv, Granted
  <2>3. grants[g].policy.until \in Nat /\ flows[i].policy.until \in Nat
    BY <1>0, <2>2, FlowParts, FlowTyped DEF FlowGrant
  <2>4. flows[i].policy.until <= grants[g].policy.until
    BY <2>1 DEF Granted
  <2>5. \A t \in Nat : t < flows[i].policy.until => t < grants[g].policy.until
    BY <2>3, <2>4
  <2> QED
    BY <2>1, <2>2, <2>5 DEF Granted, GrantOK
<1>2. ASSUME NEW i \in DOMAIN flows, NEW j \in flows[i].ancestors
      PROVE  /\ j \in DOMAIN flows /\ Restrained(flows[i], j)
             /\ \A t \in Nat : t < flows[i].policy.until => t < flows[j].policy.until
  <2>1. FlowOK(flows[i], i) /\ i \in 1..Len(flows)
    BY <1>0 DEF FlowInv
  <2>2. j \in DOMAIN flows /\ Restrained(flows[i], j)
    BY <1>0, <2>1 DEF FlowOK
  <2>3. flows[j].policy.until \in Nat /\ flows[i].policy.until \in Nat
    BY <1>0, <2>2, FlowTyped
  <2>4. flows[i].policy.until <= flows[j].policy.until
    BY <2>2 DEF Restrained
  <2>5. \A t \in Nat : t < flows[i].policy.until => t < flows[j].policy.until
    BY <2>3, <2>4
  <2> QED
    BY <2>2, <2>5
<1>3. Flow!NotLaundered
  <2> SUFFICES ASSUME transfer # Flow!NoPermit, NEW j \in flows[transfer.label].ancestors
               PROVE  /\ transfer.owner = Flow!Policy(j).owner
                      /\ transfer.at < Flow!Policy(j).until
                      /\ \/ \A d \in FlowDimensions : transfer.use[d] \in Flow!Policy(j).allowed[d]
                         \/ \E g \in flows[transfer.label].grants :
                              /\ Flow!Lifts(g, j)
                              /\ transfer.at < grants[g].policy.until
                              /\ \A d \in FlowDimensions : transfer.use[d] \in grants[g].policy.allowed[d]
    BY DEF Flow!NotLaundered
  <2>1. PICK i : i = transfer.label
    OBVIOUS
  <2>2. /\ i \in DOMAIN flows /\ transfer.at \in Nat /\ transfer.owner = flows[i].policy.owner
        /\ transfer.at < flows[i].policy.until
        /\ \A d \in FlowDimensions : transfer.use[d] \in flows[i].policy.allowed[d]
    BY <2>1 DEF FlowInv, TransferOK
  <2>3. j \in DOMAIN flows /\ Restrained(flows[i], j) /\ transfer.at < flows[j].policy.until
        /\ Flow!Policy(j) = flows[j].policy
    BY <1>2, <2>1, <2>2 DEF Flow!Policy
  <2>4. CASE \A d \in FlowDimensions : flows[i].policy.allowed[d] \subseteq flows[j].policy.allowed[d]
    BY <2>2, <2>3, <2>4 DEF Restrained
  <2>5. CASE \E g \in flows[i].grants :
            /\ Flow!Lifts(g, j)
            /\ \A d \in FlowDimensions : flows[i].policy.allowed[d] \subseteq grants[g].policy.allowed[d]
    <3>1. PICK g \in flows[i].grants :
            /\ Flow!Lifts(g, j)
            /\ \A d \in FlowDimensions : flows[i].policy.allowed[d] \subseteq grants[g].policy.allowed[d]
      BY <2>5
    <3>2. transfer.at < grants[g].policy.until
      BY <1>1, <2>2
    <3>3. \A d \in FlowDimensions : transfer.use[d] \in grants[g].policy.allowed[d]
      BY <2>2, <3>1
    <3> QED
      BY <2>1, <2>2, <2>3, <3>1, <3>2, <3>3 DEF Restrained
  <2> QED
    BY <2>3, <2>4, <2>5 DEF Restrained
<1>4. Flow!PropagatedAccepted
  <2> SUFFICES ASSUME NEW i \in DOMAIN flows, flow_now < Flow!Policy(i).until, NEW use \in Flow!Uses,
                      \A d \in FlowDimensions : use[d] \in Flow!Policy(i).allowed[d]
               PROVE  Flow!Allowed(i, flows[i].sources, flows[i].grants, flows[i].content,
                                   Flow!Policy(i).owner, use)
    BY DEF Flow!PropagatedAccepted
  <2> DEFINE from == flows[i].sources
             shown == flows[i].grants
  <2>1. FlowOK(flows[i], i) /\ i \in 1..Len(flows) /\ flow_now < flows[i].policy.until
    BY <1>0 DEF FlowInv, Flow!Policy
  <2>2. Flow!Usable(i)
    BY <2>1 DEF Flow!Usable, FlowOK
  <2>3. Flow!Bound(i, flows[i].content, Flow!Policy(i).owner, use)
    BY DEF Flow!Bound
  <2>4. CASE from = {}
    BY <2>1, <2>2, <2>3, <2>4 DEF FlowOK, Flow!Allowed, Flow!LineageShown
  <2>5. CASE from # {}
    <3>1. from \subseteq flows[i].ancestors /\ from \subseteq DOMAIN flows
          /\ flows[i].ancestors = Flow!Lineage(from) /\ flows[i].depth = Flow!Depth(from)
      BY <1>0, <2>1, <2>5 DEF FlowOK, Flow!Lineage
    <3>2. ASSUME NEW j \in from PROVE Flow!Usable(j)
      <4>1. flow_now < flows[j].policy.until
        BY <1>0, <1>2, <2>1, <3>1
      <4>2. FlowOK(flows[j], j)
        BY <3>1 DEF FlowInv
      <4> QED
        BY <4>1, <4>2 DEF Flow!Usable, Flow!Policy, FlowOK
    <3>3. ASSUME NEW g \in shown
          PROVE  /\ Flow!GrantUsable(g) /\ grants[g].source \in flows[i].ancestors
                 /\ grants[g].policy.owner = Flow!Policy(i).owner
      BY <1>0, <1>1, <2>1 DEF Flow!GrantUsable, Flow!Policy
    <3>4. ASSUME flows[i].declassified PROVE Flow!GrantFits(i, from, shown)
      <4>1. Widens(flows[i])
        BY <2>1, <3>4 DEF FlowOK
      <4>2. PICK k \in from, g \in shown :
                /\ from = {k} /\ shown = flows[k].grants \cup {g}
                /\ grants[g].source = k /\ grants[g].content = flows[i].content
                /\ grants[g].policy.class = flows[i].policy.class
                /\ grants[g].policy.allowed = flows[i].policy.allowed
        BY <4>1 DEF Widens
      <4>3. g \notin flows[k].grants
        <5>1. k \in DOMAIN flows /\ k \in Nat /\ FlowOK(flows[k], k)
          BY <1>0, <3>1 DEF FlowInv
        <5>2. k \notin flows[k].ancestors
          BY <5>1 DEF FlowOK
        <5> QED
          BY <1>1, <4>2, <5>1, <5>2
      <4>4. Flow!GrantsOf(from) = flows[k].grants
        BY <4>2 DEF Flow!GrantsOf
      <4>5. shown \ Flow!GrantsOf(from) = {g} /\ {grants[g].source} = from
        BY <4>2, <4>3, <4>4
      <4>6. Flow!Cardinality(from) = 1
        <5>1. Flow!Cardinality(from) = Cardinality(from)
          BY DEF Flow!Cardinality, Cardinality
        <5>2. Cardinality({k}) = 1
          BY FS_Singleton
        <5> QED
          BY <4>2, <5>1, <5>2
      <4> QED
        BY <4>2, <4>5, <4>6 DEF Flow!GrantFits, Flow!Policy
    <3>5. ~flows[i].declassified => Flow!Narrowed(i, from)
      BY <2>1, <2>5 DEF FlowOK, Propagates, Flow!Narrowed, Flow!Policy
    <3>6. Flow!GrantsShown(i, from, shown)
      BY <3>3, <3>4 DEF Flow!GrantsShown
    <3>7. Flow!LineageShown(i, from, shown)
      BY <2>5, <3>1, <3>2, <3>5, <3>6 DEF Flow!LineageShown
    <3> QED
      BY <2>2, <2>3, <3>7 DEF Flow!Allowed
  <2> QED
    BY <2>4, <2>5
<1> QED
  BY <1>3, <1>4

\* As many labels and grants are signed, and as long, as the bounds allow.
FlowBounded == Len(flows) <= MaxFlows /\ Len(grants) <= MaxGrants /\ flow_now <= FlowEnd

\* No flow and no grant is there at the start.
LEMMA FlowBoundedInit == Flow!Init => FlowBounded
BY FlowAssumption DEF Flow!Init, FlowBounded

\* Flows and grants are added below their bounds only.
LEMMA FlowBoundedStep ==
    ASSUME FlowInv, FlowBounded, Flow!Next
    PROVE  FlowBounded'
<1>1. ASSUME NEW l, Flow!Sign(l), grants' = grants, flow_now' = flow_now
      PROVE  FlowBounded'
  <2>1. Len(flows') = Len(flows) + 1 /\ Len(flows) < MaxFlows /\ Len(flows) \in Nat
    BY <1>1 DEF Flow!Sign, FlowInv
  <2> QED
    BY <1>1, <2>1, FlowAssumption DEF FlowBounded
<1>2. ASSUME NEW i, NEW p, NEW content, Flow!Grant(i, p, content)
      PROVE  FlowBounded'
  <2>1. /\ Len(grants') = Len(grants) + 1 /\ Len(grants) < MaxGrants /\ Len(grants) \in Nat
        /\ flows' = flows /\ flow_now' = flow_now
    BY <1>2 DEF Flow!Grant, FlowInv
  <2> QED
    BY <2>1, FlowAssumption DEF FlowBounded
<1>3. ASSUME Flow!Tick PROVE FlowBounded'
  BY <1>3, FlowAssumption DEF Flow!Tick, FlowBounded, FlowInv
<1>4. ASSUME flows' = flows, grants' = grants, flow_now' = flow_now PROVE FlowBounded'
  BY <1>4 DEF FlowBounded
<1> QED
  BY <1>1, <1>2, <1>3, <1>4
     DEF Flow!Next, Flow!Issue, Flow!Propagate, Flow!Derive, Flow!Declassify, Flow!Authorize

\* What is signed and permitted is typed: ancestors and grants are those of before.
LEMMA FlowsTyped == FlowInv /\ FlowBounded => Flow!TypeOK
<1> SUFFICES ASSUME FlowInv, FlowBounded PROVE Flow!TypeOK
  OBVIOUS
<1>1. /\ flows \in Seq(FlowLabel) /\ Len(flows) \in Nat /\ DOMAIN flows = 1..Len(flows)
      /\ Len(flows) <= MaxFlows /\ MaxFlows \in Nat /\ flow_now \in 0..FlowEnd
      /\ grants \in Seq(FlowGrant) /\ Len(grants) \in Nat /\ DOMAIN grants = 1..Len(grants)
      /\ Len(grants) <= MaxGrants /\ MaxGrants \in Nat /\ MaxLineageDepth \in Nat /\ FlowEnd \in Nat
  BY FlowAssumption DEF FlowInv, FlowBounded
<1>2. ASSUME NEW i \in DOMAIN flows
      PROVE  /\ flows[i] \in Flow!LabelType
             /\ flows[i].ancestors \subseteq 1..i - 1 /\ flows[i].depth <= MaxLineageDepth
  <2>0. PICK l : l = flows[i]
    OBVIOUS
  <2>1. i \in 1..Len(flows) /\ l \in FlowLabel /\ FlowOK(l, i)
    BY <1>1, <2>0 DEF FlowInv
  <2>2. l.issued \in Nat /\ l.depth \in 0..MaxLineageDepth
    BY <2>1 DEF FlowLabel
  <2>3. l.sources \subseteq 1..(i - 1) /\ l.ancestors \subseteq 1..(i - 1) /\ l.issued <= flow_now
    BY <2>1 DEF FlowOK
  <2>4. l.grants \subseteq DOMAIN grants
    BY <2>1 DEF FlowOK, Granted
  <2>5. /\ l.sources \in SUBSET (1..MaxFlows) /\ l.ancestors \in SUBSET (1..MaxFlows)
        /\ l.grants \in SUBSET (1..MaxGrants)
    BY <1>1, <2>1, <2>3, <2>4
  <2>6. l.issued \in 0..FlowEnd /\ l.depth \in 0..MaxLineageDepth + 1
    BY <1>1, <2>2, <2>3
  <2>7. l \in Flow!LabelType
    BY <2>1, <2>5, <2>6 DEF Flow!LabelType, FlowLabel
  <2> QED
    BY <1>1, <2>0, <2>2, <2>3, <2>7
<1>3. ASSUME NEW g \in DOMAIN grants PROVE grants[g] \in Flow!GrantType
  <2>0. PICK l : l = grants[g]
    OBVIOUS
  <2>1. l \in FlowGrant /\ l.source \in DOMAIN flows /\ l.issued <= flow_now
    BY <1>1, <2>0 DEF FlowInv, GrantOK
  <2>2. l.issued \in Nat
    BY <2>1 DEF FlowGrant
  <2>3. l.source \in 1..MaxFlows /\ l.issued \in 0..FlowEnd
    BY <1>1, <2>1, <2>2
  <2> QED
    BY <2>0, <2>1, <2>3 DEF Flow!GrantType, FlowGrant
<1>4. transfer.label \in 0..Len(flows)
  BY <1>1 DEF FlowInv, TransferOK, Flow!NoPermit
<1> QED
  BY <1>1, <1>2, <1>3, <1>4 DEF Flow!TypeOK

-----------------------------------------------------------------------------
(* Sessions *)

\* Limits are numbers.
Bounded(bounds) ==
    /\ IsFiniteSet(bounds.tasks) /\ bounds.sizes \subseteq Nat
    /\ bounds.steps \in Nat /\ bounds.tools \in Nat /\ bounds.depth \in Nat /\ bounds.duration \in Nat
    /\ bounds.tokens \in Nat /\ bounds.requests \in Nat /\ bounds.window \in Nat /\ bounds.ends \in Nat

ASSUME SessionsAssumption == Bounded(Shared) /\ Bounded(Single)

CheckType ==
    [kind : {"step", "tool"}, at : Nat, tokens : Nat, depth : Nat, admitted : BOOLEAN,
     in_budget : BOOLEAN, in_rate : BOOLEAN, clock : Nat]

\* Tokens of a check that passed the budget rule.
Tokens(check) == IF check.in_budget THEN check.tokens ELSE 0

\* Their sums.
Passing(f, log) == f = [n \in 0..Len(log) |-> IF n = 0 THEN 0 ELSE f[n - 1] + Tokens(log[n])]
Total(log) == (CHOOSE f : Passing(f, log))[Len(log)]

\* Where a task is: on a check of its own.
OnCheck(call) ==
    /\ call.at \in {"check", "rate", "copied", "stored", "appended"}
    /\ call.check \in DOMAIN checks
    /\ ~checks[call.check].in_rate
    /\ call.at = "check" => ~checks[call.check].in_budget
    /\ call.at = "copied" => call.log \subseteq DOMAIN checks

\* What the rate rule has let through is in a log of a check with this clock, or too old for it.
Logged(log, clock, bounds) ==
    \A i \in DOMAIN checks : checks[i].in_rate => i \in log \/ checks[i].clock < clock - bounds.window

\* The log of a session with one task.
AloneOK(bounds, t) ==
    /\ calls[t].at \in {"idle", "check", "rate"} => Logged(request_log, now, bounds)
    /\ calls[t].at = "copied" => Logged(calls[t].log, checks[calls[t].check].clock, bounds)
    /\ calls[t].at \in {"stored", "appended"} =>
          Logged(request_log, checks[calls[t].check].clock, bounds)
    /\ calls[t].at \in {"copied", "stored", "appended"} => checks[calls[t].check].clock <= now
    /\ calls[t].at = "appended" => calls[t].check \in request_log
    /\ \A start \in Nat : Cardinality(Limits(bounds)!Rated(start)) <= bounds.requests

CountsOK(bounds) ==
    /\ checks \in Seq(CheckType)
    /\ now \in 0..bounds.ends
    /\ step_count \in Nat /\ tool_call_count \in Nat /\ step_count + tool_call_count = Len(checks)
    /\ recursion_depth \in 0..(bounds.depth + 1)
    /\ Cardinality(Limits(bounds)!Admitted("step")) <= step_count
    /\ Cardinality(Limits(bounds)!Admitted("step")) <= bounds.steps
    /\ Cardinality(Limits(bounds)!Admitted("tool")) <= tool_call_count
    /\ Cardinality(Limits(bounds)!Admitted("tool")) <= bounds.tools
    /\ \A i \in DOMAIN checks :
          checks[i].admitted => checks[i].depth <= bounds.depth /\ checks[i].at < bounds.duration

CallsOK(bounds) ==
    /\ request_log \subseteq DOMAIN checks
    /\ DOMAIN calls = bounds.tasks
    /\ \A t \in bounds.tasks : calls[t] = [at |-> "idle"] \/ OnCheck(calls[t])
    /\ \A t, u \in bounds.tasks :
          t # u /\ calls[t].at # "idle" /\ calls[u].at # "idle" => calls[t].check # calls[u].check

SpentOK(bounds) ==
    session_total \in Nat /\ Total(checks) <= session_total /\ Total(checks) <= bounds.tokens

SessionInv(bounds) ==
    /\ CountsOK(bounds) /\ CallsOK(bounds) /\ SpentOK(bounds)
    /\ \A t : bounds.tasks = {t} => AloneOK(bounds, t)

-----------------------------------------------------------------------------

\* The sum of the first checks, check by check.
LEMMA PassingSteps ==
    ASSUME NEW log \in Seq(CheckType), NEW f, Passing(f, log)
    PROVE  f[0] = 0 /\ \A n \in 0..(Len(log) - 1) : f[n + 1] = f[n] + Tokens(log[n + 1])
<1>1. Len(log) \in Nat
  OBVIOUS
<1>2. \A k \in 0..Len(log) : f[k] = IF k = 0 THEN 0 ELSE f[k - 1] + Tokens(log[k])
  BY DEF Passing
<1>3. ASSUME NEW n \in 0..(Len(log) - 1)
      PROVE  f[n + 1] = f[n] + Tokens(log[n + 1])
  <2>1. n + 1 \in 0..Len(log) /\ n + 1 # 0 /\ (n + 1) - 1 = n
    BY <1>1
  <2> QED
    BY <1>2, <2>1
<1> QED
  BY <1>1, <1>2, <1>3

\* There are such sums for every log.
LEMMA PassingExists ==
    ASSUME NEW log \in Seq(CheckType)
    PROVE  \E f : Passing(f, log)
<1> DEFINE N == Len(log)
           Up(f, n) == f = [k \in 0..n |-> IF k = 0 THEN 0 ELSE f[k - 1] + Tokens(log[k])]
           S == {n \in 0..N : \E f : Up(f, n)}
<1>1. N \in Nat
  OBVIOUS
<1>2. 0 \in S
  <2>1. Up([k \in 0..0 |-> 0], 0)
    OBVIOUS
  <2>2. 0 \in 0..N
    BY <1>1
  <2> HIDE DEF Up, N
  <2> QED
    BY <2>1, <2>2
<1>3. ASSUME NEW n \in 0..(N - 1), n \in S
      PROVE  n + 1 \in S
  <2>1. PICK f : Up(f, n)
    BY <1>3
  <2> DEFINE g == [k \in 0..(n + 1) |-> IF k = n + 1 THEN f[n] + Tokens(log[n + 1]) ELSE f[k]]
  <2>2. ASSUME NEW k \in 0..(n + 1)
        PROVE  g[k] = IF k = 0 THEN 0 ELSE g[k - 1] + Tokens(log[k])
    <3>1. CASE k = 0
      BY <3>1, <2>1
    <3>2. CASE k = n + 1
      <4>1. g[k] = f[n] + Tokens(log[n + 1]) /\ k - 1 = n /\ n \in 0..(n + 1) /\ n # n + 1
        BY <3>2
      <4>2. g[k - 1] = f[n]
        BY <4>1
      <4> QED
        BY <3>2, <4>1, <4>2
    <3>3. CASE k # 0 /\ k # n + 1
      <4>1. k \in 0..n /\ k - 1 \in 0..(n + 1) /\ k - 1 # n + 1
        BY <3>3
      <4>2. g[k] = f[k] /\ g[k - 1] = f[k - 1]
        BY <3>3, <4>1
      <4>3. f[k] = f[k - 1] + Tokens(log[k])
        BY <3>3, <4>1, <2>1
      <4> QED
        BY <3>3, <4>2, <4>3
    <3> QED
      BY <3>1, <3>2, <3>3
  <2>3. g = [k \in 0..(n + 1) |-> g[k]]
    OBVIOUS
  <2> HIDE DEF g
  <2>4. Up(g, n + 1)
    BY <2>2, <2>3
  <2>5. n + 1 \in 0..N
    BY <1>1
  <2> QED
    BY <2>4, <2>5
<1>4. N \in S
  <2> HIDE DEF S
  <2>1. \A n \in 0..N : n \in S
    <3> HIDE DEF N
    <3> QED
      BY <1>1, <1>2, <1>3, EachUpTo
  <2> QED
    BY <1>1, <2>1
<1> QED
  BY <1>4 DEF Passing

\* The sum of a log, and what it grows by when a check of it is passed.
LEMMA TotalGrows ==
    ASSUME NEW a \in Seq(CheckType), NEW b \in Seq(CheckType), Len(a) = Len(b), NEW i \in DOMAIN a, NEW k \in Nat,
           \A n \in DOMAIN a : Tokens(b[n]) = Tokens(a[n]) + (IF n = i THEN k ELSE 0)
    PROVE  Total(b) = Total(a) + k /\ Total(a) \in Nat
<1> DEFINE N == Len(a)
           f == CHOOSE f : Passing(f, a)
           g == CHOOSE g : Passing(g, b)
<1>1. N \in Nat /\ DOMAIN a = 1..N /\ Len(b) = N
  OBVIOUS
<1>2. Total(a) = f[N] /\ Total(b) = g[N]
  BY DEF Total
<1>3. Passing(f, a) /\ Passing(g, b)
  BY PassingExists
<1> HIDE DEF f, g
<1>4. /\ f[0] = 0 /\ \A n \in 0..(N - 1) : f[n + 1] = f[n] + Tokens(a[n + 1])
      /\ g[0] = 0 /\ \A n \in 0..(N - 1) : g[n + 1] = g[n] + Tokens(b[n + 1])
  BY <1>1, <1>3, PassingSteps
<1>5. \A n \in 1..N : Tokens(a[n]) \in Nat
  <2> TAKE n \in 1..N
  <2>1. a[n] \in CheckType
    BY <1>1
  <2> QED
    BY <2>1 DEF CheckType, Tokens
<1> DEFINE S == {n \in 0..N : f[n] \in Nat /\ g[n] = f[n] + (IF i <= n THEN k ELSE 0)}
<1> HIDE DEF N
<1>6. 0 \in S
  BY <1>1, <1>4
<1>7. ASSUME NEW n \in 0..(N - 1), n \in S PROVE n + 1 \in S
  <2>1. n + 1 \in 1..N /\ n + 1 \in 0..N /\ n \in 0..N /\ i \in Nat /\ n \in Nat
    BY <1>1
  <2>2. /\ f[n + 1] = f[n] + Tokens(a[n + 1]) /\ g[n + 1] = g[n] + Tokens(b[n + 1])
        /\ Tokens(b[n + 1]) = Tokens(a[n + 1]) + (IF n + 1 = i THEN k ELSE 0)
        /\ Tokens(a[n + 1]) \in Nat /\ f[n] \in Nat /\ g[n] = f[n] + (IF i <= n THEN k ELSE 0)
    BY <1>1, <1>4, <1>5, <1>7, <2>1
  <2>3. f[n + 1] \in Nat
    BY <2>2
  <2>4. g[n + 1] = f[n + 1] + (IF i <= n + 1 THEN k ELSE 0)
    BY <2>1, <2>2
  <2> QED
    BY <2>1, <2>3, <2>4
<1>8. N \in S
  <2> HIDE DEF S
  <2>1. \A n \in 0..N : n \in S
    BY <1>1, <1>6, <1>7, EachUpTo
  <2> QED
    BY <1>1, <2>1
<1> QED
  BY <1>1, <1>2, <1>8

\* Checks that agree on tokens and verdicts have the same sum.
LEMMA TotalSame ==
    ASSUME NEW a \in Seq(CheckType), NEW b \in Seq(CheckType), Len(a) = Len(b), NEW i \in DOMAIN a,
           \A n \in DOMAIN a : Tokens(b[n]) = Tokens(a[n])
    PROVE  Total(b) = Total(a) /\ Total(a) \in Nat
<1>1. PICK k \in Nat : k = 0
  OBVIOUS
<1>2. ASSUME NEW n \in DOMAIN a PROVE Tokens(a[n]) \in Nat
  <2>1. a[n] \in CheckType
    OBVIOUS
  <2> QED
    BY <2>1 DEF CheckType, Tokens
<1>3. \A n \in DOMAIN a : Tokens(b[n]) = Tokens(a[n]) + (IF n = i THEN k ELSE 0)
  BY <1>1, <1>2
<1>4. Total(b) = Total(a) + k /\ Total(a) \in Nat
  BY <1>3, TotalGrows
<1> QED
  BY <1>1, <1>4

\* A check that has not passed yet adds nothing.
LEMMA TotalAppended ==
    ASSUME NEW a \in Seq(CheckType), NEW c \in CheckType, ~c.in_budget
    PROVE  Total(Append(a, c)) = Total(a)
<1> DEFINE N == Len(a)
           b == Append(a, c)
           f == CHOOSE f : Passing(f, a)
           g == CHOOSE g : Passing(g, b)
<1>1. N \in Nat /\ b \in Seq(CheckType) /\ Len(b) = N + 1 /\ b[N + 1] = c /\ \A n \in 1..N : b[n] = a[n]
  OBVIOUS
<1>2. Total(a) = f[N] /\ Total(b) = g[Len(b)]
  BY DEF Total
<1> HIDE DEF b
<1>3. Passing(f, a) /\ Passing(g, b)
  BY <1>1, PassingExists
<1> HIDE DEF f, g
<1>4. f[0] = 0 /\ \A n \in 0..(N - 1) : f[n + 1] = f[n] + Tokens(a[n + 1])
  BY <1>3, PassingSteps
<1>5. g[0] = 0 /\ \A n \in 0..N : g[n + 1] = g[n] + Tokens(b[n + 1])
  <2>1. g[0] = 0 /\ \A n \in 0..(Len(b) - 1) : g[n + 1] = g[n] + Tokens(b[n + 1])
    BY <1>1, <1>3, PassingSteps
  <2>2. Len(b) - 1 = N
    BY <1>1
  <2> QED
    BY <2>1, <2>2
<1>6. \A n \in 1..N : Tokens(a[n]) \in Nat
  <2> TAKE n \in 1..N
  <2>1. a[n] \in CheckType
    OBVIOUS
  <2> QED
    BY <2>1 DEF CheckType, Tokens
<1> DEFINE S == {n \in 0..N : f[n] \in Nat /\ g[n] = f[n]}
<1> HIDE DEF N
<1>7. 0 \in S
  BY <1>1, <1>4, <1>5
<1>8. ASSUME NEW n \in 0..(N - 1), n \in S PROVE n + 1 \in S
  <2>1. n + 1 \in 1..N /\ n + 1 \in 0..N /\ n \in 0..N
    BY <1>1
  <2>2. /\ f[n + 1] = f[n] + Tokens(a[n + 1]) /\ g[n + 1] = g[n] + Tokens(b[n + 1])
        /\ b[n + 1] = a[n + 1] /\ Tokens(a[n + 1]) \in Nat /\ f[n] \in Nat /\ g[n] = f[n]
    BY <1>1, <1>4, <1>5, <1>6, <1>8, <2>1
  <2> QED
    BY <2>1, <2>2
<1>9. N \in S
  <2> HIDE DEF S
  <2>1. \A n \in 0..N : n \in S
    BY <1>1, <1>7, <1>8, EachUpTo
  <2> QED
    BY <1>1, <2>1
<1>10. g[N + 1] = g[N] + Tokens(b[N + 1]) /\ Tokens(b[N + 1]) = 0
  BY <1>1, <1>5 DEF Tokens
<1>11. Total(b) = Total(a)
  BY <1>1, <1>2, <1>9, <1>10
<1> QED
  BY <1>11 DEF b

\* The sums of the model.
LEMMA TotalIs ==
    ASSUME NEW bounds, checks \in Seq(CheckType)
    PROVE  Limits(bounds)!PassedTokens(checks)[Len(checks)] = Total(checks)
<1>1. \A f : Passing(f, checks) <=>
        f = [n \in 0..Len(checks) |-> IF n = 0 THEN 0
             ELSE f[n - 1] + (IF checks[n].in_budget THEN checks[n].tokens ELSE 0)]
  BY DEF Passing, Tokens
<1> QED
  BY DEF Total, Limits!PassedTokens, Passing, Tokens

-----------------------------------------------------------------------------

\* A check of the log is replaced.
LEMMA OneReplaced ==
    ASSUME NEW log \in Seq(CheckType), NEW c \in DOMAIN log, NEW check \in CheckType
    PROVE  /\ [log EXCEPT ![c] = check] \in Seq(CheckType)
           /\ Len([log EXCEPT ![c] = check]) = Len(log)
           /\ DOMAIN [log EXCEPT ![c] = check] = DOMAIN log
           /\ [log EXCEPT ![c] = check][c] = check
           /\ \A i \in DOMAIN log : i # c => [log EXCEPT ![c] = check][i] = log[i]
OBVIOUS

\* What the rules write about a check.
LEMMA MarkedBudget ==
    ASSUME NEW check \in CheckType, NEW b \in BOOLEAN, NEW new, new = [check EXCEPT !.in_budget = b]
    PROVE  /\ new \in CheckType /\ new.in_budget = b /\ new.in_rate = check.in_rate
           /\ new.clock = check.clock /\ new.admitted = check.admitted /\ new.kind = check.kind
           /\ new.depth = check.depth /\ new.at = check.at /\ new.tokens = check.tokens
BY DEF CheckType

\* The verdict of the rate rule changes no other field of a check.
LEMMA MarkedRate ==
    ASSUME NEW check \in CheckType, NEW b \in BOOLEAN, NEW new, new = [check EXCEPT !.in_rate = b]
    PROVE  /\ new \in CheckType /\ new.in_rate = b /\ new.in_budget = check.in_budget
           /\ new.clock = check.clock /\ new.admitted = check.admitted /\ new.kind = check.kind
           /\ new.depth = check.depth /\ new.at = check.at /\ new.tokens = check.tokens
BY DEF CheckType

\* The time of a check changes no other field of it.
LEMMA MarkedClock ==
    ASSUME NEW check \in CheckType, NEW n \in Nat, NEW new, new = [check EXCEPT !.clock = n]
    PROVE  /\ new \in CheckType /\ new.clock = n /\ new.in_budget = check.in_budget
           /\ new.in_rate = check.in_rate /\ new.admitted = check.admitted /\ new.kind = check.kind
           /\ new.depth = check.depth /\ new.at = check.at /\ new.tokens = check.tokens
BY DEF CheckType

\* The first facts about a session.
LEMMA SessionInit ==
    ASSUME NEW bounds, Bounded(bounds), Limits(bounds)!Init
    PROVE  SessionInv(bounds)
<1>1. /\ now = 0 /\ step_count = 0 /\ tool_call_count = 0 /\ recursion_depth = 0
      /\ session_total = 0 /\ request_log = {} /\ checks = <<>>
      /\ calls = [t \in bounds.tasks |-> [at |-> "idle"]]
  BY DEF Limits!Init, Limits!Idle
<1>2. checks \in Seq(CheckType) /\ Len(checks) = 0 /\ DOMAIN checks = {}
  BY <1>1
<1>3. /\ Limits(bounds)!Admitted("step") = {} /\ Limits(bounds)!Admitted("tool") = {}
      /\ \A start : Limits(bounds)!Rated(start) = {}
  BY <1>2, Zenon DEF Limits!Admitted, Limits!Rated
<1>4. Cardinality({}) = 0
  BY FS_EmptySet
<1>5. CountsOK(bounds)
  <2>1. bounds.steps \in Nat /\ bounds.tools \in Nat /\ bounds.depth \in Nat /\ bounds.ends \in Nat
    BY DEF Bounded
  <2>2. /\ Cardinality(Limits(bounds)!Admitted("step")) = 0
        /\ Cardinality(Limits(bounds)!Admitted("tool")) = 0
    BY <1>3, <1>4
  <2>3. \A i \in DOMAIN checks :
          checks[i].admitted => checks[i].depth <= bounds.depth /\ checks[i].at < bounds.duration
    BY <1>2
  <2> QED
    BY <1>1, <1>2, <2>1, <2>2, <2>3 DEF CountsOK
<1>6. CallsOK(bounds)
  BY <1>1, <1>2 DEF CallsOK
<1>7. Total(checks) = 0
  <2>1. \E f : Passing(f, checks)
    BY <1>2, PassingExists
  <2>2. Total(checks) = (CHOOSE f : Passing(f, checks))[0]
    BY <1>2 DEF Total
  <2>3. Passing((CHOOSE f : Passing(f, checks)), checks)
    BY <2>1
  <2> QED
    BY <1>2, <2>2, <2>3, PassingSteps
<1>8. SpentOK(bounds)
  BY <1>1, <1>7 DEF SpentOK, Bounded
<1>9. ASSUME NEW t, bounds.tasks = {t} PROVE AloneOK(bounds, t)
  <2>1. calls[t].at = "idle"
    BY <1>1, <1>9
  <2>2. Logged(request_log, now, bounds)
    BY <1>2 DEF Logged
  <2>3. \A start \in Nat : Cardinality(Limits(bounds)!Rated(start)) <= bounds.requests
    BY <1>3, <1>4 DEF Bounded
  <2> QED
    BY <2>1, <2>2, <2>3 DEF AloneOK
<1> QED
  BY <1>5, <1>6, <1>8, <1>9 DEF SessionInv

\* Facts about the log that hold as it is.
LEMMA LogFinite ==
    ASSUME checks \in Seq(CheckType)
    PROVE  /\ DOMAIN checks = 1..Len(checks) /\ Len(checks) \in Nat /\ IsFiniteSet(DOMAIN checks)
           /\ \A S \in SUBSET DOMAIN checks : IsFiniteSet(S) /\ Cardinality(S) \in Nat
<1>1. DOMAIN checks = 1..Len(checks) /\ Len(checks) \in Nat
  OBVIOUS
<1>2. IsFiniteSet(DOMAIN checks)
  BY <1>1, FS_Interval
<1> QED
  BY <1>1, <1>2, FS_Subset, FS_CardinalityType

\* A step or a tool call is counted and compared before the task awaits (check_limits).
LEMMA SessionAdmit ==
    ASSUME NEW bounds, Bounded(bounds), SessionInv(bounds), NEW t \in bounds.tasks,
           NEW kind \in {"step", "tool"}, NEW tokens \in bounds.sizes, Limits(bounds)!Admit(t, kind, tokens)
    PROVE  SessionInv(bounds)'
<1> DEFINE n == Len(checks) + 1
<1>1. /\ checks \in Seq(CheckType) /\ now \in Nat /\ step_count \in Nat /\ tool_call_count \in Nat
      /\ recursion_depth \in 0..(bounds.depth + 1) /\ recursion_depth \in Nat /\ bounds.depth \in Nat
      /\ step_count + tool_call_count = Len(checks)
      /\ bounds.steps \in Nat /\ bounds.tools \in Nat
  BY DEF SessionInv, CountsOK, Bounded
<1>2. /\ calls[t] = [at |-> "idle"]
      /\ step_count' = step_count + (IF kind = "step" THEN 1 ELSE 0)
      /\ tool_call_count' = tool_call_count + (IF kind = "tool" THEN 1 ELSE 0)
      /\ UNCHANGED <<now, recursion_depth, session_total, request_log>>
  BY DEF Limits!Admit, Limits!Idle
<1>3. PICK new \in CheckType :
        /\ checks' = Append(checks, new)
        /\ new.kind = kind /\ new.depth = recursion_depth /\ new.at = now
        /\ ~new.in_budget /\ ~new.in_rate
        /\ new.admitted => /\ step_count' <= bounds.steps /\ tool_call_count' <= bounds.tools
                           /\ ~(recursion_depth > bounds.depth) /\ ~(now >= bounds.duration)
        /\ calls' = IF new.admitted THEN [calls EXCEPT ![t] = [at |-> "check", check |-> n]] ELSE calls
  <2> DEFINE refused == Limits(bounds)!Exceeded(step_count', tool_call_count')
             ok == ~refused
  <2>1. tokens \in Nat /\ ok \in BOOLEAN
    BY DEF Bounded
  <2>2. ok => /\ ~(step_count' > bounds.steps) /\ ~(tool_call_count' > bounds.tools)
              /\ ~(recursion_depth > bounds.depth) /\ ~(now >= bounds.duration)
    BY DEF Limits!Exceeded
  <2>3. step_count' \in Nat /\ tool_call_count' \in Nat
    BY <1>1, <1>2
  <2>4. /\ checks' = Append(checks,
                [kind |-> kind, at |-> now, tokens |-> tokens, depth |-> recursion_depth,
                 admitted |-> ok, in_budget |-> FALSE, in_rate |-> FALSE, clock |-> 0])
        /\ calls' = IF refused THEN calls ELSE [calls EXCEPT ![t] = [at |-> "check", check |-> n]]
    BY DEF Limits!Admit
  <2>5. calls' = IF ok THEN [calls EXCEPT ![t] = [at |-> "check", check |-> n]] ELSE calls
    BY <2>4
  <2> HIDE DEF ok, n
  <2> DEFINE new == [kind |-> kind, at |-> now, tokens |-> tokens, depth |-> recursion_depth,
                     admitted |-> ok, in_budget |-> FALSE, in_rate |-> FALSE, clock |-> 0]
  <2>6. new \in CheckType
    BY <1>1, <2>1 DEF CheckType
  <2>7. step_count' <= bounds.steps \/ step_count' > bounds.steps
    BY <1>1, <2>3
  <2>8. tool_call_count' <= bounds.tools \/ tool_call_count' > bounds.tools
    BY <1>1, <2>3
  <2> QED
    BY <2>2, <2>4, <2>5, <2>6, <2>7, <2>8, Zenon
<1>4. /\ checks' \in Seq(CheckType) /\ Len(checks') = n /\ DOMAIN checks' = DOMAIN checks \cup {n}
      /\ checks'[n] = new /\ \A i \in DOMAIN checks : checks'[i] = checks[i] /\ i # n
      /\ n \in Nat
  BY <1>1, <1>3
<1> HIDE DEF n
<1>5. CountsOK(bounds)'
  <2>1. ASSUME NEW k \in {"step", "tool"}
        PROVE  /\ Cardinality(Limits(bounds)!Admitted(k)) \in Nat
               /\ ~(new.admitted /\ kind = k) => Limits(bounds)!Admitted(k)' = Limits(bounds)!Admitted(k)
               /\ new.admitted /\ kind = k =>
                     Cardinality(Limits(bounds)!Admitted(k)') = Cardinality(Limits(bounds)!Admitted(k)) + 1
    <3>1. /\ IsFiniteSet(Limits(bounds)!Admitted(k)) /\ Cardinality(Limits(bounds)!Admitted(k)) \in Nat
          /\ n \notin Limits(bounds)!Admitted(k)
      BY <1>1, <1>4, LogFinite DEF Limits!Admitted
    <3>2. ~(new.admitted /\ kind = k) => Limits(bounds)!Admitted(k)' = Limits(bounds)!Admitted(k)
      BY <1>3, <1>4 DEF Limits!Admitted
    <3>3. new.admitted /\ kind = k => Limits(bounds)!Admitted(k)' = Limits(bounds)!Admitted(k) \cup {n}
      BY <1>3, <1>4 DEF Limits!Admitted
    <3> QED
      BY <3>1, <3>2, <3>3, FS_AddElement
  <2>2. /\ Cardinality(Limits(bounds)!Admitted("step")) <= step_count
        /\ Cardinality(Limits(bounds)!Admitted("step")) <= bounds.steps
        /\ Cardinality(Limits(bounds)!Admitted("tool")) <= tool_call_count
        /\ Cardinality(Limits(bounds)!Admitted("tool")) <= bounds.tools
    BY DEF SessionInv, CountsOK
  <2>3. /\ Cardinality(Limits(bounds)!Admitted("step")') <= step_count'
        /\ Cardinality(Limits(bounds)!Admitted("step")') <= bounds.steps
    <3>1. CASE new.admitted /\ kind = "step"
      BY <1>1, <1>2, <1>3, <2>1, <2>2, <3>1
    <3>2. CASE ~(new.admitted /\ kind = "step")
      BY <1>1, <1>2, <2>1, <2>2, <3>2
    <3> QED
      BY <3>1, <3>2
  <2>4. /\ Cardinality(Limits(bounds)!Admitted("tool")') <= tool_call_count'
        /\ Cardinality(Limits(bounds)!Admitted("tool")') <= bounds.tools
    <3>1. CASE new.admitted /\ kind = "tool"
      BY <1>1, <1>2, <1>3, <2>1, <2>2, <3>1
    <3>2. CASE ~(new.admitted /\ kind = "tool")
      BY <1>1, <1>2, <2>1, <2>2, <3>2
    <3> QED
      BY <3>1, <3>2
  <2>5. \A i \in DOMAIN checks' :
          checks'[i].admitted => checks'[i].depth <= bounds.depth /\ checks'[i].at < bounds.duration
    <3>1. \A i \in DOMAIN checks :
            checks[i].admitted => checks[i].depth <= bounds.depth /\ checks[i].at < bounds.duration
      BY DEF SessionInv, CountsOK
    <3>2. new.admitted => new.depth <= bounds.depth
      BY <1>1, <1>3
    <3>3. new.admitted => new.at < bounds.duration
      BY <1>1, <1>3 DEF Bounded
    <3> QED
      BY <1>4, <3>1, <3>2, <3>3
  <2>6. step_count' \in Nat /\ tool_call_count' \in Nat /\ step_count' + tool_call_count' = n
    BY <1>1, <1>2 DEF n
  <2>7. now \in 0..bounds.ends
    BY DEF SessionInv, CountsOK
  <2> QED
    BY <1>1, <1>2, <1>4, <2>3, <2>4, <2>5, <2>6, <2>7 DEF CountsOK
<1>6. CallsOK(bounds)'
  <2>1. /\ request_log \subseteq DOMAIN checks /\ DOMAIN calls = bounds.tasks
        /\ \A u \in bounds.tasks : calls[u] = [at |-> "idle"] \/ OnCheck(calls[u])
        /\ \A u, v \in bounds.tasks :
              u # v /\ calls[u].at # "idle" /\ calls[v].at # "idle" => calls[u].check # calls[v].check
    BY DEF SessionInv, CallsOK
  <2>2. ASSUME NEW u \in bounds.tasks, calls[u] # [at |-> "idle"]
        PROVE  OnCheck(calls[u]) /\ calls[u].check \in DOMAIN checks /\ calls[u].check # n
    BY <1>4, <2>1, <2>2 DEF OnCheck
  <2>3. \A u \in bounds.tasks : calls[u] = [at |-> "idle"] \/ (calls[u].check # n /\ calls[u].check \in DOMAIN checks)
    BY <2>2
  <2>4. ASSUME NEW u \in bounds.tasks, OnCheck(calls[u])
        PROVE  /\ calls[u].at \in {"check", "rate", "copied", "stored", "appended"}
               /\ calls[u].check \in DOMAIN checks'
               /\ ~checks'[calls[u].check].in_rate
               /\ calls[u].at = "check" => ~checks'[calls[u].check].in_budget
               /\ calls[u].at = "copied" => calls[u].log \subseteq DOMAIN checks'
    BY <1>4, <2>4 DEF OnCheck
  <2>5. CASE ~new.admitted
    <3>1. calls' = calls
      BY <1>3, <2>5
    <3>2. \A u \in bounds.tasks : calls'[u] = [at |-> "idle"] \/ OnCheck(calls[u])'
      BY <2>1, <2>4, <3>1 DEF OnCheck
    <3> QED
      BY <1>2, <1>4, <2>1, <3>1, <3>2 DEF CallsOK
  <2>6. CASE new.admitted
    <3>1. /\ DOMAIN calls' = bounds.tasks /\ calls'[t] = [at |-> "check", check |-> n]
          /\ \A u \in bounds.tasks : u # t => calls'[u] = calls[u]
      BY <1>3, <2>1, <2>6
    <3>2. OnCheck(calls[t])'
      BY <1>3, <1>4, <3>1 DEF OnCheck
    <3>3. \A u \in bounds.tasks : calls'[u] = [at |-> "idle"] \/ OnCheck(calls[u])'
      BY <2>1, <2>4, <3>1, <3>2 DEF OnCheck
    <3>4. ASSUME NEW u \in bounds.tasks, NEW v \in bounds.tasks, u # v, calls'[u].at # "idle", calls'[v].at # "idle"
          PROVE  calls'[u].check # calls'[v].check
      <4>1. CASE u # t /\ v # t
        BY <2>1, <3>1, <3>4, <4>1
      <4>2. CASE u = t
        BY <2>3, <3>1, <3>4, <4>2
      <4>3. CASE v = t
        BY <2>3, <3>1, <3>4, <4>3
      <4> QED
        BY <4>1, <4>2, <4>3
    <3> QED
      BY <1>2, <1>4, <2>1, <3>1, <3>3, <3>4 DEF CallsOK
  <2> QED
    BY <2>5, <2>6
<1>7. SpentOK(bounds)'
  <2>1. Total(checks') = Total(checks)
    BY <1>1, <1>3, TotalAppended
  <2> QED
    BY <1>2, <2>1 DEF SessionInv, SpentOK
<1>8. ASSUME NEW u, bounds.tasks = {u} PROVE AloneOK(bounds, u)'
  <2>1. u = t /\ AloneOK(bounds, t) /\ DOMAIN calls = {t}
    BY <1>8 DEF SessionInv, CallsOK
  <2>2. calls'[t].at \in {"idle", "check"}
    BY <1>2, <1>3, <2>1
  <2>3. Logged(request_log, now, bounds)
    BY <1>2, <2>1 DEF AloneOK
  <2>4. Logged(request_log, now, bounds)'
    BY <1>2, <1>3, <1>4, <2>3 DEF Logged
  <2>5. \A start : Limits(bounds)!Rated(start)' = Limits(bounds)!Rated(start)
    BY <1>3, <1>4 DEF Limits!Rated
  <2> QED
    BY <2>1, <2>2, <2>4, <2>5 DEF AloneOK
<1> QED
  BY <1>5, <1>6, <1>7, <1>8 DEF SessionInv

\* What a rule writes about a check changes no count.
LEMMA SessionMarks ==
    ASSUME NEW bounds, SessionInv(bounds), NEW c \in DOMAIN checks, NEW new \in CheckType,
           new.admitted = checks[c].admitted, new.kind = checks[c].kind, new.depth = checks[c].depth,
           new.at = checks[c].at, checks' = [checks EXCEPT ![c] = new],
           UNCHANGED <<now, step_count, tool_call_count, recursion_depth>>
    PROVE  /\ CountsOK(bounds)' /\ DOMAIN checks' = DOMAIN checks /\ checks'[c] = new
           /\ \A i \in DOMAIN checks : i # c => checks'[i] = checks[i]
<1>1. checks \in Seq(CheckType)
  BY DEF SessionInv, CountsOK
<1>2. /\ checks' \in Seq(CheckType) /\ Len(checks') = Len(checks) /\ DOMAIN checks' = DOMAIN checks
      /\ checks'[c] = new /\ \A i \in DOMAIN checks : i # c => checks'[i] = checks[i]
  BY <1>1, OneReplaced
<1>3. \A i \in DOMAIN checks : /\ checks'[i].admitted = checks[i].admitted /\ checks'[i].kind = checks[i].kind
                               /\ checks'[i].depth = checks[i].depth /\ checks'[i].at = checks[i].at
  BY <1>2
<1>4. \A k : Limits(bounds)!Admitted(k)' = Limits(bounds)!Admitted(k)
  BY <1>2, <1>3 DEF Limits!Admitted
<1>5. \A i \in DOMAIN checks' :
        checks'[i].admitted => checks'[i].depth <= bounds.depth /\ checks'[i].at < bounds.duration
  BY <1>2, <1>3 DEF SessionInv, CountsOK
<1> QED
  BY <1>2, <1>4, <1>5 DEF SessionInv, CountsOK

\* A task is at a check; the other tasks are at others.
LEMMA SessionCall ==
    ASSUME NEW bounds, SessionInv(bounds), NEW t \in bounds.tasks, calls[t].at # "idle"
    PROVE  /\ OnCheck(calls[t]) /\ calls[t].check \in DOMAIN checks
           /\ checks[calls[t].check] \in CheckType
           /\ \A u \in bounds.tasks :
                 u # t /\ calls[u] # [at |-> "idle"] => OnCheck(calls[u]) /\ calls[u].check # calls[t].check
<1>1. /\ \A u \in bounds.tasks : calls[u] = [at |-> "idle"] \/ OnCheck(calls[u])
      /\ \A u, v \in bounds.tasks :
            u # v /\ calls[u].at # "idle" /\ calls[v].at # "idle" => calls[u].check # calls[v].check
  BY DEF SessionInv, CallsOK
<1>2. \A u \in bounds.tasks : calls[u] # [at |-> "idle"] => OnCheck(calls[u]) /\ calls[u].at # "idle"
  BY <1>1 DEF OnCheck
<1>3. OnCheck(calls[t])
  BY <1>1
<1>4. calls[t].check \in DOMAIN checks
  BY <1>3 DEF OnCheck
<1>5. checks \in Seq(CheckType)
  BY DEF SessionInv, CountsOK
<1> QED
  BY <1>1, <1>2, <1>3, <1>4, <1>5

\* The task goes on at its check, or is done with it; the others stay where they are.
LEMMA SessionMoves ==
    ASSUME NEW bounds, SessionInv(bounds), NEW t \in bounds.tasks, calls[t].at # "idle",
           NEW call, calls' = [calls EXCEPT ![t] = call],
           call = [at |-> "idle"] \/ (call.check = calls[t].check /\ OnCheck(calls[t])'),
           DOMAIN checks' = DOMAIN checks, request_log' \subseteq DOMAIN checks,
           \A i \in DOMAIN checks : i # calls[t].check => checks'[i] = checks[i]
    PROVE  CallsOK(bounds)' /\ calls'[t] = call /\ \A u \in bounds.tasks : u # t => calls'[u] = calls[u]
<1>1. DOMAIN calls = bounds.tasks
  BY DEF SessionInv, CallsOK
<1>2. DOMAIN calls' = bounds.tasks /\ calls'[t] = call /\ \A u \in bounds.tasks : u # t => calls'[u] = calls[u]
  BY <1>1
<1>3. \A u \in bounds.tasks :
        u # t /\ calls[u] # [at |-> "idle"] => OnCheck(calls[u]) /\ calls[u].check # calls[t].check
  BY SessionCall
<1>4. ASSUME NEW u \in bounds.tasks, u # t, calls[u] # [at |-> "idle"]
      PROVE  OnCheck(calls[u])'
  <2>1. OnCheck(calls[u]) /\ calls[u].check # calls[t].check /\ calls'[u] = calls[u]
    BY <1>2, <1>3, <1>4
  <2>2. checks'[calls[u].check] = checks[calls[u].check]
    BY <2>1 DEF OnCheck
  <2> QED
    BY <2>1, <2>2 DEF OnCheck
<1>5. \A u \in bounds.tasks : calls'[u] = [at |-> "idle"] \/ OnCheck(calls[u])'
  BY <1>2, <1>4
<1>6. ASSUME NEW u \in bounds.tasks, NEW v \in bounds.tasks, u # v, calls'[u].at # "idle", calls'[v].at # "idle"
      PROVE  calls'[u].check # calls'[v].check
  <2>1. \A x \in bounds.tasks : x # t /\ calls[x].at # "idle" => calls[x].check # calls[t].check
    BY <1>3
  <2>2. \A x, y \in bounds.tasks :
            x # y /\ calls[x].at # "idle" /\ calls[y].at # "idle" => calls[x].check # calls[y].check
    BY DEF SessionInv, CallsOK
  <2>3. calls'[t].at # "idle" => calls'[t].check = calls[t].check
    BY <1>2
  <2>4. CASE u # t /\ v # t
    BY <1>2, <1>6, <2>2, <2>4
  <2>5. CASE u = t
    BY <1>2, <1>6, <2>1, <2>3, <2>5
  <2>6. CASE v = t
    BY <1>2, <1>6, <2>1, <2>3, <2>6
  <2> QED
    BY <2>4, <2>5, <2>6
<1> QED
  BY <1>2, <1>5, <1>6 DEF CallsOK

\* The budget adds and compares in one go (CumulativeTokenBudgetRule).
LEMMA SessionCharge ==
    ASSUME NEW bounds, Bounded(bounds), SessionInv(bounds), NEW t \in bounds.tasks, Limits(bounds)!Charge(t)
    PROVE  SessionInv(bounds)'
<1> DEFINE c == calls[t].check
           ok == session_total + checks[c].tokens <= bounds.tokens
           new == [checks[c] EXCEPT !.in_budget = ok]
           call == IF ok THEN [at |-> "rate", check |-> c] ELSE [at |-> "idle"]
<1>1. /\ calls[t].at = "check" /\ session_total' = session_total + checks[c].tokens
      /\ UNCHANGED <<now, step_count, tool_call_count, recursion_depth, request_log>>
  BY DEF Limits!Charge
<1>2. checks' = [checks EXCEPT ![c] = new]
  BY DEF Limits!Charge, Limits!InBudget
<1>3. calls' = [calls EXCEPT ![t] = call]
  BY DEF Limits!Charge, Limits!InBudget, Limits!Idle
<1>4. /\ OnCheck(calls[t]) /\ c \in DOMAIN checks /\ checks[c] \in CheckType /\ ~checks[c].in_budget
      /\ ~checks[c].in_rate
  BY <1>1, SessionCall DEF OnCheck
<1>5. checks \in Seq(CheckType) /\ request_log \subseteq DOMAIN checks /\ checks[c].tokens \in Nat
  BY <1>4 DEF SessionInv, CountsOK, CallsOK, CheckType
<1>6. ok \in BOOLEAN
  OBVIOUS
<1>7. /\ new \in CheckType /\ new.in_budget = ok /\ new.in_rate = checks[c].in_rate /\ new.clock = checks[c].clock
      /\ new.admitted = checks[c].admitted /\ new.kind = checks[c].kind /\ new.depth = checks[c].depth
      /\ new.at = checks[c].at /\ new.tokens = checks[c].tokens
  <2> HIDE DEF ok
  <2>1. PICK check \in CheckType : check = checks[c]
    BY <1>4
  <2>2. new = [check EXCEPT !.in_budget = ok]
    BY <2>1
  <2> HIDE DEF new, c
  <2> QED
    BY <1>6, <2>1, <2>2, MarkedBudget
<1>8. call = [at |-> "idle"] \/ (call.at = "rate" /\ call.check = c)
  BY <1>6
<1> HIDE DEF ok, new, call, c
<1>9. /\ CountsOK(bounds)' /\ DOMAIN checks' = DOMAIN checks /\ checks'[c] = new
      /\ \A i \in DOMAIN checks : i # c => checks'[i] = checks[i]
  BY <1>1, <1>2, <1>4, <1>7, SessionMarks
<1>10. calls'[t] = call
  BY <1>3 DEF SessionInv, CallsOK
<1>11. call = [at |-> "idle"] \/ (call.check = calls[t].check /\ OnCheck(calls[t])')
  BY <1>4, <1>7, <1>8, <1>9, <1>10 DEF OnCheck, c
<1>12. CallsOK(bounds)'
  BY <1>1, <1>3, <1>5, <1>9, <1>11, SessionMoves DEF c
<1>13. SpentOK(bounds)'
  <2>1. checks' \in Seq(CheckType) /\ Len(checks') = Len(checks)
    BY <1>2, <1>4, <1>5, <1>7, OneReplaced
  <2>2. /\ session_total \in Nat /\ Total(checks) <= session_total /\ Total(checks) <= bounds.tokens
        /\ bounds.tokens \in Nat
    BY DEF SessionInv, SpentOK, Bounded
  <2>3. \A n \in DOMAIN checks : Tokens(checks[n]) \in Nat
    <3> TAKE n \in DOMAIN checks
    <3>1. checks[n] \in CheckType
      BY <1>5
    <3> QED
      BY <3>1 DEF CheckType, Tokens
  <2>4. Tokens(checks[c]) = 0 /\ Tokens(checks'[c]) = IF ok THEN checks[c].tokens ELSE 0
    BY <1>4, <1>7, <1>9 DEF Tokens
  <2>5. CASE ok
    <3>1. \A n \in DOMAIN checks : Tokens(checks'[n]) = Tokens(checks[n]) + (IF n = c THEN checks[c].tokens ELSE 0)
      BY <1>4, <1>5, <1>9, <2>3, <2>4, <2>5
    <3>2. Total(checks') = Total(checks) + checks[c].tokens /\ Total(checks) \in Nat
      BY <1>4, <1>5, <2>1, <3>1, TotalGrows
    <3>3. session_total + checks[c].tokens <= bounds.tokens
      BY <2>5 DEF ok
    <3> QED
      BY <1>1, <1>5, <2>2, <3>2, <3>3 DEF SpentOK
  <2>6. CASE ~ok
    <3>1. \A n \in DOMAIN checks : Tokens(checks'[n]) = Tokens(checks[n])
      BY <1>4, <1>5, <1>9, <2>3, <2>4, <2>6
    <3>2. Total(checks') = Total(checks) /\ Total(checks) \in Nat
      BY <1>4, <1>5, <2>1, <3>1, TotalSame
    <3> QED
      BY <1>1, <1>5, <2>2, <3>2 DEF SpentOK
  <2> QED
    BY <2>5, <2>6
<1>14. ASSUME NEW u, bounds.tasks = {u} PROVE AloneOK(bounds, u)'
  <2>1. u = t /\ AloneOK(bounds, t)
    BY <1>14 DEF SessionInv
  <2>2. calls'[t].at \in {"idle", "rate"}
    BY <1>8, <1>10
  <2>3. \A i \in DOMAIN checks : checks'[i].in_rate = checks[i].in_rate /\ checks'[i].clock = checks[i].clock
    BY <1>7, <1>9
  <2>4. Logged(request_log, now, bounds)'
    BY <1>1, <1>9, <2>1, <2>3 DEF AloneOK, Logged
  <2>5. \A start : Limits(bounds)!Rated(start)' = Limits(bounds)!Rated(start)
    BY <1>9, <2>3 DEF Limits!Rated
  <2> QED
    BY <2>1, <2>2, <2>4, <2>5 DEF AloneOK
<1> QED
  BY <1>9, <1>12, <1>13, <1>14 DEF SessionInv

\* What the rate rule writes about a check spends nothing.
LEMMA SessionSpends ==
    ASSUME NEW bounds, SessionInv(bounds), NEW c \in DOMAIN checks, NEW new \in CheckType,
           new.in_budget = checks[c].in_budget, new.tokens = checks[c].tokens,
           checks' = [checks EXCEPT ![c] = new], session_total' = session_total
    PROVE  SpentOK(bounds)'
<1>1. checks \in Seq(CheckType)
  BY DEF SessionInv, CountsOK
<1>2. /\ checks' \in Seq(CheckType) /\ Len(checks') = Len(checks) /\ DOMAIN checks' = DOMAIN checks
      /\ checks'[c] = new /\ \A i \in DOMAIN checks : i # c => checks'[i] = checks[i]
  BY <1>1, OneReplaced
<1>3. \A n \in DOMAIN checks : Tokens(checks'[n]) = Tokens(checks[n])
  BY <1>2 DEF Tokens
<1>4. Total(checks') = Total(checks)
  BY <1>1, <1>2, <1>3, TotalSame
<1> QED
  BY <1>4 DEF SessionInv, SpentOK

\* The clock is read and the log copied without what is too old (SessionRequestRateLimitRule).
LEMMA SessionCopyLog ==
    ASSUME NEW bounds, Bounded(bounds), SessionInv(bounds), NEW t \in bounds.tasks, Limits(bounds)!CopyLog(t)
    PROVE  SessionInv(bounds)'
<1> DEFINE c == calls[t].check
           log == {d \in request_log : checks[d].clock >= now - bounds.window}
           call == [at |-> "copied", check |-> c, log |-> log]
           new == [checks[c] EXCEPT !.clock = now]
<1>1. /\ calls[t].at = "rate" /\ calls' = [calls EXCEPT ![t] = call] /\ checks' = [checks EXCEPT ![c] = new]
      /\ UNCHANGED <<now, step_count, tool_call_count, recursion_depth, session_total, request_log>>
  BY DEF Limits!CopyLog
<1>2. /\ OnCheck(calls[t]) /\ c \in DOMAIN checks /\ checks[c] \in CheckType /\ ~checks[c].in_rate
  BY <1>1, SessionCall DEF OnCheck
<1>3. /\ checks \in Seq(CheckType) /\ request_log \subseteq DOMAIN checks /\ now \in Nat
      /\ bounds.window \in Nat
  BY DEF SessionInv, CountsOK, CallsOK, Bounded
<1>4. /\ new \in CheckType /\ new.clock = now /\ new.in_budget = checks[c].in_budget
      /\ new.in_rate = checks[c].in_rate /\ new.admitted = checks[c].admitted /\ new.kind = checks[c].kind
      /\ new.depth = checks[c].depth /\ new.at = checks[c].at /\ new.tokens = checks[c].tokens
  <2>1. PICK check \in CheckType : check = checks[c]
    BY <1>2
  <2>2. new = [check EXCEPT !.clock = now]
    BY <2>1
  <2> HIDE DEF new, c
  <2> QED
    BY <1>3, <2>1, <2>2, MarkedClock
<1>5. call.at = "copied" /\ call.check = c /\ call.log = log /\ log \subseteq request_log
  OBVIOUS
<1> HIDE DEF new, call, c
<1>6. /\ CountsOK(bounds)' /\ DOMAIN checks' = DOMAIN checks /\ checks'[c] = new
      /\ \A i \in DOMAIN checks : i # c => checks'[i] = checks[i]
  BY <1>1, <1>2, <1>4, SessionMarks
<1>7. calls'[t] = call
  BY <1>1 DEF SessionInv, CallsOK
<1>8. log \subseteq DOMAIN checks
  BY <1>3
<1>9. call.check = calls[t].check /\ OnCheck(calls[t])'
  <2> HIDE DEF log
  <2> QED
    BY <1>2, <1>4, <1>5, <1>6, <1>7, <1>8 DEF OnCheck, c
<1>10. CallsOK(bounds)'
  <2> HIDE DEF log
  <2>1. calls[t].at # "idle" /\ request_log' \subseteq DOMAIN checks
    BY <1>1, <1>3
  <2> QED
    BY <1>1, <1>6, <1>9, <2>1, SessionMoves DEF c
<1>11. SpentOK(bounds)'
  BY <1>1, <1>2, <1>4, SessionSpends
<1>12. ASSUME NEW u, bounds.tasks = {u} PROVE AloneOK(bounds, u)'
  <2>1. u = t /\ AloneOK(bounds, t)
    BY <1>12 DEF SessionInv
  <2>2. calls'[t].at = "copied" /\ calls'[t].check = c /\ calls'[t].log = log /\ checks'[c].clock = now
    BY <1>4, <1>5, <1>6, <1>7
  <2>3. \A i \in DOMAIN checks :
            /\ checks'[i].in_rate = checks[i].in_rate
            /\ checks[i].in_rate => checks'[i].clock = checks[i].clock
    BY <1>2, <1>4, <1>6
  <2>4. Logged(request_log, now, bounds)
    BY <1>1, <2>1 DEF AloneOK
  <2>5. ASSUME NEW i \in DOMAIN checks', checks'[i].in_rate, i \notin log
        PROVE  checks'[i].clock < now - bounds.window
    <3>1. i \in DOMAIN checks /\ checks[i].in_rate /\ checks'[i].clock = checks[i].clock
      BY <1>6, <2>3, <2>5
    <3>2. checks[i] \in CheckType
      BY <1>3, <3>1
    <3>3. checks[i].clock \in Nat
      BY <3>2 DEF CheckType
    <3>4. i \in request_log \/ checks[i].clock < now - bounds.window
      BY <2>4, <3>1 DEF Logged
    <3> QED
      BY <1>3, <2>5, <3>1, <3>3, <3>4
  <2> HIDE DEF log
  <2>6. Logged(calls[t].log, checks[calls[t].check].clock, bounds)'
    BY <1>1, <2>2, <2>5 DEF Logged
  <2>7. \A start : Limits(bounds)!Rated(start)' = Limits(bounds)!Rated(start)
    BY <1>6, <2>3 DEF Limits!Rated
  <2> QED
    BY <1>1, <1>3, <2>1, <2>2, <2>6, <2>7 DEF AloneOK
<1> QED
  BY <1>6, <1>10, <1>11, <1>12 DEF SessionInv

\* The copy is stored, whatever others have appended in the meantime.
LEMMA SessionStoreLog ==
    ASSUME NEW bounds, Bounded(bounds), SessionInv(bounds), NEW t \in bounds.tasks, Limits(bounds)!StoreLog(t)
    PROVE  SessionInv(bounds)'
<1> DEFINE call == [at |-> "stored", check |-> calls[t].check]
<1>1. /\ calls[t].at = "copied" /\ calls' = [calls EXCEPT ![t] = call] /\ request_log' = calls[t].log
      /\ UNCHANGED <<now, step_count, tool_call_count, recursion_depth, session_total, checks>>
  BY DEF Limits!StoreLog
<1>2. call.at = "stored" /\ call.check = calls[t].check
  OBVIOUS
<1> HIDE DEF call
<1>3. /\ OnCheck(calls[t]) /\ calls[t].log \subseteq DOMAIN checks
  BY <1>1, SessionCall DEF OnCheck
<1>4. calls'[t] = call
  BY <1>1 DEF SessionInv, CallsOK
<1>5. OnCheck(calls[t])'
  BY <1>1, <1>2, <1>3, <1>4 DEF OnCheck
<1>6. CallsOK(bounds)'
  <2>1. calls[t].at # "idle" /\ request_log' \subseteq DOMAIN checks
    BY <1>1, <1>3
  <2> QED
    BY <1>1, <1>2, <1>5, <2>1, SessionMoves
<1>7. CountsOK(bounds)' /\ SpentOK(bounds)'
  BY <1>1 DEF SessionInv, CountsOK, SpentOK, Limits!Admitted
<1>8. ASSUME NEW u, bounds.tasks = {u} PROVE AloneOK(bounds, u)'
  <2>1. u = t /\ AloneOK(bounds, t)
    BY <1>8 DEF SessionInv
  <2> QED
    BY <1>1, <1>2, <1>4, <2>1 DEF AloneOK, Logged, Limits!Rated
<1> QED
  BY <1>6, <1>7, <1>8 DEF SessionInv

\* The thread that appends to its copy of the log adds its own check.
LEMMA SessionAppendLog ==
    ASSUME NEW bounds, Bounded(bounds), SessionInv(bounds), NEW t \in bounds.tasks, Limits(bounds)!AppendLog(t)
    PROVE  SessionInv(bounds)'
<1> DEFINE call == [at |-> "appended", check |-> calls[t].check]
<1>1. /\ calls[t].at = "stored" /\ calls' = [calls EXCEPT ![t] = call]
      /\ request_log' = request_log \cup {calls[t].check}
      /\ UNCHANGED <<now, step_count, tool_call_count, recursion_depth, session_total, checks>>
  BY DEF Limits!AppendLog
<1>2. call.at = "appended" /\ call.check = calls[t].check
  OBVIOUS
<1> HIDE DEF call
<1>3. OnCheck(calls[t]) /\ calls[t].check \in DOMAIN checks
  BY <1>1, SessionCall
<1>4. calls'[t] = call
  BY <1>1 DEF SessionInv, CallsOK
<1>5. OnCheck(calls[t])'
  BY <1>1, <1>2, <1>3, <1>4 DEF OnCheck
<1>6. CallsOK(bounds)'
  <2>1. calls[t].at # "idle" /\ request_log' \subseteq DOMAIN checks
    BY <1>1, <1>3 DEF SessionInv, CallsOK
  <2> QED
    BY <1>1, <1>2, <1>5, <2>1, SessionMoves
<1>7. CountsOK(bounds)' /\ SpentOK(bounds)'
  BY <1>1 DEF SessionInv, CountsOK, SpentOK, Limits!Admitted
<1>8. ASSUME NEW u, bounds.tasks = {u} PROVE AloneOK(bounds, u)'
  <2>1. u = t /\ AloneOK(bounds, t)
    BY <1>8 DEF SessionInv
  <2> QED
    BY <1>1, <1>2, <1>4, <2>1 DEF AloneOK, Logged, Limits!Rated
<1> QED
  BY <1>6, <1>7, <1>8 DEF SessionInv

\* What is stored is counted: all the rule let through lately is there (evaluate).
LEMMA SessionCountLog ==
    ASSUME NEW bounds, Bounded(bounds), SessionInv(bounds), NEW t \in bounds.tasks, Limits(bounds)!CountLog(t)
    PROVE  SessionInv(bounds)'
<1> DEFINE c == calls[t].check
           ok == Cardinality(request_log) <= bounds.requests
           new == [checks[c] EXCEPT !.in_rate = ok]
<1>1. /\ calls[t].at = "appended" /\ calls' = [calls EXCEPT ![t] = [at |-> "idle"]]
      /\ UNCHANGED <<now, step_count, tool_call_count, recursion_depth, session_total, request_log>>
  BY DEF Limits!CountLog, Limits!Idle
<1>2. checks' = [checks EXCEPT ![c] = new]
  BY DEF Limits!CountLog, Limits!Cardinality, Cardinality
<1>3. /\ OnCheck(calls[t]) /\ c \in DOMAIN checks /\ checks[c] \in CheckType /\ ~checks[c].in_rate
  BY <1>1, SessionCall DEF OnCheck
<1>4. checks \in Seq(CheckType) /\ request_log \subseteq DOMAIN checks /\ bounds.requests \in Nat
  BY DEF SessionInv, CountsOK, CallsOK, Bounded
<1>5. ok \in BOOLEAN
  OBVIOUS
<1>6. /\ new \in CheckType /\ new.in_rate = ok /\ new.in_budget = checks[c].in_budget
      /\ new.clock = checks[c].clock /\ new.admitted = checks[c].admitted /\ new.kind = checks[c].kind
      /\ new.depth = checks[c].depth /\ new.at = checks[c].at /\ new.tokens = checks[c].tokens
  <2> HIDE DEF ok
  <2>1. PICK check \in CheckType : check = checks[c]
    BY <1>3
  <2>2. new = [check EXCEPT !.in_rate = ok]
    BY <2>1
  <2> HIDE DEF new, c
  <2> QED
    BY <1>5, <2>1, <2>2, MarkedRate
<1> HIDE DEF ok, new, c
<1>7. /\ CountsOK(bounds)' /\ DOMAIN checks' = DOMAIN checks /\ checks'[c] = new
      /\ \A i \in DOMAIN checks : i # c => checks'[i] = checks[i]
  BY <1>1, <1>2, <1>3, <1>6, SessionMarks
<1>8. calls'[t] = [at |-> "idle"]
  BY <1>1 DEF SessionInv, CallsOK
<1>9. CallsOK(bounds)'
  <2>1. calls[t].at # "idle" /\ request_log' \subseteq DOMAIN checks
    BY <1>1, <1>4
  <2> QED
    BY <1>1, <1>7, <2>1, SessionMoves DEF c
<1>10. SpentOK(bounds)'
  BY <1>1, <1>2, <1>3, <1>6, SessionSpends
<1>11. ASSUME NEW u, bounds.tasks = {u} PROVE AloneOK(bounds, u)'
  <2>1. u = t /\ AloneOK(bounds, t)
    BY <1>11 DEF SessionInv
  <2>2. /\ Logged(request_log, checks[c].clock, bounds) /\ checks[c].clock <= now /\ c \in request_log
        /\ \A start \in Nat : Cardinality(Limits(bounds)!Rated(start)) <= bounds.requests
    BY <1>1, <2>1 DEF AloneOK, c
  <2>3. \A i \in DOMAIN checks : checks'[i].clock = checks[i].clock /\ checks[i].clock \in Nat
    <3> TAKE i \in DOMAIN checks
    <3>1. checks[i] \in CheckType
      BY <1>4
    <3>2. checks[i].clock \in Nat
      BY <3>1 DEF CheckType
    <3> QED
      BY <1>6, <1>7, <3>2
  <2>4. \A i \in DOMAIN checks : i # c => checks'[i].in_rate = checks[i].in_rate
    BY <1>7
  <2>5. now \in Nat /\ bounds.window \in Nat
    BY DEF SessionInv, CountsOK, Bounded
  <2>6. Logged(request_log, now, bounds)'
    <3>1. ASSUME NEW i \in DOMAIN checks', checks'[i].in_rate, i \notin request_log
          PROVE  checks'[i].clock < now - bounds.window
      <4>1. i \in DOMAIN checks /\ i # c /\ checks[i].in_rate
        BY <1>7, <2>2, <2>4, <3>1
      <4>2. checks[i].clock < checks[c].clock - bounds.window
        BY <2>2, <3>1, <4>1 DEF Logged
      <4>3. checks'[i].clock = checks[i].clock /\ checks[i].clock \in Nat /\ checks[c].clock \in Nat
        BY <1>3, <2>3, <4>1
      <4> QED
        BY <2>2, <2>5, <4>2, <4>3
    <3> QED
      BY <1>1, <3>1 DEF Logged
  <2>7. ASSUME NEW start \in Nat PROVE Cardinality(Limits(bounds)!Rated(start)') <= bounds.requests
    <3>1. Limits(bounds)!Rated(start)' =
            {i \in DOMAIN checks : checks'[i].in_rate /\ checks[i].clock \in start..start + bounds.window}
      BY <1>7, <2>3 DEF Limits!Rated
    <3>2. CASE checks'[c].in_rate /\ checks[c].clock \in start..start + bounds.window
      <4>1. Cardinality(request_log) <= bounds.requests
        BY <1>6, <1>7, <3>2 DEF ok
      <4>2. ASSUME NEW i \in Limits(bounds)!Rated(start)' PROVE i \in request_log
        <5>1. /\ i \in DOMAIN checks /\ checks'[i].in_rate
              /\ checks[i].clock \in start..start + bounds.window
          BY <3>1, <4>2
        <5>2. CASE i = c
          BY <2>2, <5>2
        <5>3. CASE i # c
          <6>1. checks[i].in_rate
            BY <2>4, <5>1, <5>3
          <6>2. i \in request_log \/ checks[i].clock < checks[c].clock - bounds.window
            BY <2>2, <5>1, <6>1 DEF Logged
          <6>3. checks[i].clock \in Nat /\ checks[c].clock \in Nat
            BY <1>3, <2>3, <5>1
          <6> QED
            BY <2>5, <3>2, <5>1, <6>2, <6>3
        <5> QED
          BY <5>2, <5>3
      <4>3. Limits(bounds)!Rated(start)' \subseteq request_log
        BY <4>2
      <4>4. IsFiniteSet(request_log) /\ Cardinality(request_log) \in Nat
        BY <1>4, LogFinite
      <4>5. /\ Cardinality(Limits(bounds)!Rated(start)') <= Cardinality(request_log)
            /\ IsFiniteSet(Limits(bounds)!Rated(start)')
        BY <4>3, <4>4, FS_Subset
      <4>6. Cardinality(Limits(bounds)!Rated(start)') \in Nat
        BY <4>5, FS_CardinalityType
      <4> QED
        BY <1>4, <4>1, <4>4, <4>5, <4>6
    <3>3. CASE ~(checks'[c].in_rate /\ checks[c].clock \in start..start + bounds.window)
      <4>1. ASSUME NEW i \in DOMAIN checks
            PROVE  (checks'[i].in_rate /\ checks[i].clock \in start..start + bounds.window)
                     <=> (checks[i].in_rate /\ checks[i].clock \in start..start + bounds.window)
        BY <1>3, <2>4, <3>3
      <4>2. Limits(bounds)!Rated(start)' = Limits(bounds)!Rated(start)
        BY <3>1, <4>1 DEF Limits!Rated
      <4> QED
        BY <2>2, <4>2
    <3> QED
      BY <3>2, <3>3
  <2>8. calls'[t].at = "idle"
    BY <1>8
  <2> QED
    BY <2>1, <2>6, <2>7, <2>8 DEF AloneOK
<1> QED
  BY <1>7, <1>9, <1>10, <1>11 DEF SessionInv

\* The clock goes on.
LEMMA SessionTick ==
    ASSUME NEW bounds, Bounded(bounds), SessionInv(bounds), Limits(bounds)!Tick
    PROVE  SessionInv(bounds)'
<1>1. /\ now < bounds.ends /\ now' = now + 1
      /\ UNCHANGED <<step_count, tool_call_count, recursion_depth, session_total, request_log, calls, checks>>
  BY DEF Limits!Tick
<1>2. now \in 0..bounds.ends /\ bounds.ends \in Nat /\ bounds.window \in Nat /\ checks \in Seq(CheckType)
  BY DEF SessionInv, CountsOK, Bounded
<1>3. now' \in 0..bounds.ends
  BY <1>1, <1>2
<1>4. CountsOK(bounds)'
  BY <1>1, <1>3 DEF SessionInv, CountsOK, Limits!Admitted
<1>5. CallsOK(bounds)' /\ SpentOK(bounds)'
  BY <1>1 DEF SessionInv, CallsOK, SpentOK, OnCheck
<1>6. \A i \in DOMAIN checks : checks[i].clock \in Nat
  <2> TAKE i \in DOMAIN checks
  <2>1. checks[i] \in CheckType
    BY <1>2
  <2> QED
    BY <2>1 DEF CheckType
<1>7. ASSUME NEW u, bounds.tasks = {u} PROVE AloneOK(bounds, u)'
  <2>1. AloneOK(bounds, u)
    BY <1>7 DEF SessionInv
  <2>2. Logged(request_log, now, bounds) => Logged(request_log, now, bounds)'
    BY <1>1, <1>2, <1>6 DEF Logged
  <2>3. calls[u].at = "copied" =>
            Logged(calls[u].log, checks[calls[u].check].clock, bounds)'
    BY <1>1, <2>1 DEF AloneOK, Logged
  <2>4. calls[u].at \in {"stored", "appended"} =>
            Logged(request_log, checks[calls[u].check].clock, bounds)'
    BY <1>1, <2>1 DEF AloneOK, Logged
  <2>5. calls[u].at \in {"copied", "stored", "appended"} => checks[calls[u].check].clock <= now'
    <3>1. u \in bounds.tasks
      BY <1>7
    <3>2. calls[u].at \in {"copied", "stored", "appended"} => calls[u].check \in DOMAIN checks
      BY <3>1 DEF SessionInv, CallsOK, OnCheck
    <3> QED
      BY <1>1, <1>2, <1>6, <2>1, <3>2 DEF AloneOK
  <2>6. \A start : Limits(bounds)!Rated(start)' = Limits(bounds)!Rated(start)
    BY <1>1 DEF Limits!Rated
  <2> QED
    BY <1>1, <2>1, <2>2, <2>3, <2>4, <2>5, <2>6 DEF AloneOK
<1> QED
  BY <1>4, <1>5, <1>7 DEF SessionInv

\* Entering and leaving change the depth only.
LEMMA SessionRecursion ==
    ASSUME NEW bounds, Bounded(bounds), SessionInv(bounds),
           Limits(bounds)!EnterRecursion \/ Limits(bounds)!ExitRecursion
    PROVE  SessionInv(bounds)'
<1>1. /\ recursion_depth \in 0..(bounds.depth + 1) /\ bounds.depth \in Nat
  BY DEF SessionInv, CountsOK, Bounded
<1>2. /\ recursion_depth' \in 0..(bounds.depth + 1)
      /\ UNCHANGED <<now, step_count, tool_call_count, session_total, request_log, calls, checks>>
  BY <1>1 DEF Limits!EnterRecursion, Limits!ExitRecursion
<1>3. CountsOK(bounds)'
  BY <1>2 DEF SessionInv, CountsOK, Limits!Admitted
<1>4. CallsOK(bounds)' /\ SpentOK(bounds)'
  BY <1>2 DEF SessionInv, CallsOK, SpentOK, OnCheck
<1>5. ASSUME NEW u, bounds.tasks = {u} PROVE AloneOK(bounds, u)'
  <2>1. AloneOK(bounds, u)
    BY <1>5 DEF SessionInv
  <2> QED
    BY <1>2, <2>1 DEF AloneOK, Logged, Limits!Rated
<1> QED
  BY <1>3, <1>4, <1>5 DEF SessionInv

\* What leaves the session alone keeps its invariant.
LEMMA SessionRests ==
    ASSUME NEW bounds, SessionInv(bounds), UNCHANGED agent
    PROVE  SessionInv(bounds)'
<1>1. UNCHANGED <<now, step_count, tool_call_count, recursion_depth, session_total, request_log, calls, checks>>
  BY DEF agent
<1>2. CountsOK(bounds)'
  BY <1>1 DEF SessionInv, CountsOK, Limits!Admitted
<1>3. CallsOK(bounds)' /\ SpentOK(bounds)'
  BY <1>1 DEF SessionInv, CallsOK, SpentOK, OnCheck
<1>4. ASSUME NEW u, bounds.tasks = {u} PROVE AloneOK(bounds, u)'
  <2>1. AloneOK(bounds, u)
    BY <1>4 DEF SessionInv
  <2> QED
    BY <1>1, <2>1 DEF AloneOK, Logged, Limits!Rated
<1> QED
  BY <1>2, <1>3, <1>4 DEF SessionInv

\* Every step of a task keeps the invariant of its session.
LEMMA SessionStep ==
    ASSUME NEW bounds, Bounded(bounds), SessionInv(bounds), [Limits(bounds)!Next]_agent
    PROVE  SessionInv(bounds)'
<1>1. CASE UNCHANGED agent
  BY <1>1, SessionRests
<1>2. CASE Limits(bounds)!Next
  <2>1. \/ \E t \in bounds.tasks, kind \in {"step", "tool"}, tokens \in bounds.sizes :
              Limits(bounds)!Admit(t, kind, tokens)
        \/ Limits(bounds)!EnterRecursion \/ Limits(bounds)!ExitRecursion
        \/ \E t \in bounds.tasks : Limits(bounds)!Charge(t)
        \/ \E t \in bounds.tasks : Limits(bounds)!CopyLog(t)
        \/ \E t \in bounds.tasks : Limits(bounds)!StoreLog(t)
        \/ \E t \in bounds.tasks : Limits(bounds)!AppendLog(t)
        \/ \E t \in bounds.tasks : Limits(bounds)!CountLog(t)
        \/ Limits(bounds)!Tick
    BY <1>2 DEF Limits!Next
  <2> QED
    BY <2>1, SessionAdmit, SessionRecursion, SessionCharge, SessionCopyLog, SessionStoreLog, SessionAppendLog,
       SessionCountLog, SessionTick
<1> QED
  BY <1>1, <1>2

\* What the properties of a session say.
LEMMA SessionSafe ==
    ASSUME NEW bounds, Bounded(bounds), SessionInv(bounds)
    PROVE  /\ Limits(bounds)!TypeOK /\ Limits(bounds)!WithinSessionLimits
           /\ Limits(bounds)!TokensWithinBudget /\ Limits(bounds)!RateHeld
<1>1. Limits(bounds)!TypeOK
  BY DEF SessionInv, CountsOK, CallsOK, Limits!TypeOK
<1>2. Limits(bounds)!WithinSessionLimits
  BY DEF SessionInv, CountsOK, Limits!WithinSessionLimits, Limits!Cardinality, Cardinality
<1>3. Limits(bounds)!TokensWithinBudget
  <2>1. checks \in Seq(CheckType) /\ Total(checks) <= bounds.tokens
    BY DEF SessionInv, CountsOK, SpentOK
  <2> QED
    BY <2>1, TotalIs DEF Limits!TokensWithinBudget
<1>4. Limits(bounds)!RateHeld
  <2>1. SUFFICES ASSUME Cardinality(bounds.tasks) = 1, NEW start \in 0..now
        PROVE  Cardinality(Limits(bounds)!Rated(start)) <= bounds.requests
    BY DEF Limits!RateHeld, Limits!Cardinality, Cardinality
  <2>2. IsFiniteSet(bounds.tasks)
    BY DEF Bounded
  <2>3. PICK t : bounds.tasks = {t}
    BY <2>1, <2>2, FS_Singleton
  <2>4. AloneOK(bounds, t) /\ now \in Nat
    BY <2>3 DEF SessionInv, CountsOK
  <2> QED
    BY <2>1, <2>4 DEF AloneOK
<1> QED
  BY <1>1, <1>2, <1>3, <1>4

-----------------------------------------------------------------------------
(* Structured output *)

\* Responses hold values; a repair session takes at least one.
ASSUME StructuredAssumption ==
    /\ Responses \subseteq Structured!ResponseType /\ AllowedUses \subseteq AllUses
    /\ MaxAttempts \in Nat \ {0}

\* Values of responses that passed the whole validation.
ValidValues == {response.value : response \in {r \in Responses : Structured!Valid(r)}}

ObjectType == [json : ValidValues, digest : ValidValues, value : ResponseValues]

\* What a thread is in the middle of: a release of what was bound, or the only repair, which has
\* the last attempt.
UseOK(use, given, repair) ==
    \/ use = Structured!Idle
    \/ /\ use.phase = "verified" /\ use.value \in ValidValues
       /\ [digest |-> use.value, use |-> use.use, context |-> use.context] \in given
    \/ /\ use.phase = "repair" /\ use.response \in Responses
       /\ use.attempt = repair.attempts /\ repair.attempts <= MaxAttempts + repair.escaped /\ ~repair.closed

StructuredInv ==
    /\ current \in BOOLEAN
    /\ objects \in Seq(ObjectType)
    /\ bindings \subseteq [digest : ResponseValues, use : AllUses, context : Contexts]
    /\ DOMAIN uses = Validators /\ \A t \in Validators : UseOK(uses[t], bindings, session)
    /\ \A t, u \in Validators : uses[t].phase = "repair" /\ uses[u].phase = "repair" => t = u
    /\ session \in [attempts : Nat, closed : BOOLEAN, answers : {0, 1}, escaped : Nat]
    /\ session.attempts <= MaxAttempts + session.escaped /\ (~session.closed => session.answers = 0)
    /\ (\A t \in Validators : uses[t].phase # "repair") /\ ~session.closed =>
          session.attempts < MaxAttempts + session.escaped
    /\ \A r \in released : /\ r.value \in ValidValues
                           /\ [digest |-> r.value, use |-> r.use, context |-> r.context] \in bindings
    /\ released \subseteq [value : ResponseValues, use : AllUses, context : Contexts]

\* A valid value is one of the values.
LEMMA ValidTyped == ValidValues \subseteq ResponseValues
BY StructuredAssumption DEF ValidValues, Structured!ResponseType

\* Nothing is validated at the start.
LEMMA StructuredInit == Structured!Init => StructuredInv
<1> SUFFICES ASSUME Structured!Init PROVE StructuredInv
  OBVIOUS
<1>1. \A t \in Validators : uses[t] = [phase |-> "idle"]
  BY DEF Structured!Init, Structured!Idle
<1>2. objects = <<>> /\ bindings = {} /\ released = {} /\ session = [attempts |-> 0, closed |-> FALSE, answers |-> 0, escaped |-> 0]
      /\ DOMAIN uses = Validators /\ current = TRUE
  BY DEF Structured!Init
<1> QED
  BY <1>1, <1>2, StructuredAssumption DEF StructuredInv, UseOK, Structured!Idle

\* An object that is validated holds the value of a valid response.
LEMMA StructuredStore ==
    ASSUME StructuredInv, NEW response \in Responses, Structured!Valid(response), Structured!Store(response)
    PROVE  objects' \in Seq(ObjectType)
<1>1. response.value \in ValidValues
  BY DEF ValidValues
<1>2. [json |-> response.value, digest |-> response.value, value |-> response.value]
          \in ObjectType
  BY <1>1, ValidTyped DEF ObjectType
<1> QED
  BY <1>2 DEF StructuredInv, Structured!Store

\* Validating stores an object whose value is the one that was validated.
LEMMA StructuredValidate ==
    ASSUME StructuredInv, NEW response \in Responses, Structured!Validate(response)
    PROVE  StructuredInv'
<1>1. Structured!Valid(response) /\ Structured!Store(response)
      /\ UNCHANGED <<current, bindings, uses, session, released>>
  BY DEF Structured!Validate
<1>2. objects' \in Seq(ObjectType)
  BY <1>1, StructuredStore
<1> QED
  BY <1>1, <1>2 DEF StructuredInv, UseOK

\* An object whose digests match holds the value of a valid response.
LEMMA VerifiedValid ==
    ASSUME StructuredInv, NEW i \in DOMAIN objects
    PROVE  objects[i].json \in ValidValues /\ objects[i].digest \in ValidValues /\ objects[i].digest \in ResponseValues
<1>1. objects \in Seq(ObjectType)
  BY DEF StructuredInv
<1>2. objects[i] \in ObjectType
  BY <1>1
<1> QED
  BY <1>2, ValidTyped DEF ObjectType

\* A binding is of the value that was validated.
LEMMA StructuredBind ==
    ASSUME StructuredInv, NEW i \in DOMAIN objects, NEW use \in AllUses, NEW context \in Contexts,
           Structured!Bind(i, use, context)
    PROVE  StructuredInv'
<1>1. bindings \subseteq bindings' /\ UNCHANGED <<current, objects, uses, session, released>>
  BY DEF Structured!Bind
<1>2. bindings' \subseteq [digest : ResponseValues, use : AllUses, context : Contexts]
  BY VerifiedValid DEF Structured!Bind, StructuredInv
<1>3. \A t \in Validators : UseOK(uses'[t], bindings', session')
  BY <1>1 DEF StructuredInv, UseOK
<1> QED
  BY <1>1, <1>2, <1>3 DEF StructuredInv

\* What is kept for the release is parsed anew from the text of the object (authorize).
LEMMA StructuredVerify ==
    ASSUME StructuredInv, NEW t \in Validators, NEW i \in DOMAIN objects, NEW binding \in bindings,
           NEW use \in AllUses, NEW context \in Contexts, Structured!Verify(t, i, binding, use, context)
    PROVE  StructuredInv'
<1> DEFINE call == [phase |-> "verified", object |-> i, use |-> use, context |-> context,
                    value |-> objects[i].json]
<1>1. /\ uses[t] = Structured!Idle /\ uses' = [uses EXCEPT ![t] = call]
      /\ objects[i].digest = objects[i].json
      /\ binding.digest = objects[i].json /\ binding.use = use /\ binding.context = context
      /\ UNCHANGED <<current, objects, bindings, session, released>>
  BY DEF Structured!Verify, Structured!Verified
<1>2. binding = [digest |-> objects[i].json, use |-> use, context |-> context]
  BY <1>1 DEF StructuredInv
<1>3. objects[i].json \in ValidValues
  BY VerifiedValid
<1>4. UseOK(call, bindings', session')
  BY <1>1, <1>2, <1>3 DEF UseOK
<1>5. call.phase = "verified" /\ uses[t].phase = "idle"
  BY <1>1 DEF Structured!Idle
<1> HIDE DEF call
<1>6. /\ DOMAIN uses' = Validators /\ uses'[t] = call
      /\ \A u \in Validators : u # t => uses'[u] = uses[u]
  BY <1>1 DEF StructuredInv
<1>7. \A u \in Validators : UseOK(uses'[u], bindings', session') 
  <2>1. ASSUME NEW u \in Validators, u # t PROVE UseOK(uses'[u], bindings', session')
    BY <1>1, <1>6, <2>1 DEF StructuredInv, UseOK
  <2> QED
    BY <1>4, <1>6, <2>1
<1>8. \A u \in Validators : uses'[u].phase = "repair" <=> uses[u].phase = "repair"
  BY <1>5, <1>6
<1> QED
  BY <1>1, <1>6, <1>7, <1>8 DEF StructuredInv

\* The thread is done, with or without a repair; the others are where they were.
LEMMA StructuredDone ==
    ASSUME StructuredInv, NEW t \in Validators, uses' = [uses EXCEPT ![t] = Structured!Idle],
           bindings' = bindings, session' = session \/ uses[t].phase = "repair"
    PROVE  /\ DOMAIN uses' = Validators /\ \A u \in Validators : UseOK(uses'[u], bindings', session')
           /\ \A u \in Validators : uses'[u].phase = "repair" => uses[u].phase = "repair" /\ u # t
<1>1. /\ DOMAIN uses' = Validators /\ uses'[t] = Structured!Idle
      /\ \A u \in Validators : u # t => uses'[u] = uses[u]
  BY DEF StructuredInv
<1>2. ASSUME NEW u \in Validators, u # t PROVE UseOK(uses'[u], bindings', session')
  <2>1. CASE session' = session
    BY <1>1, <1>2, <2>1 DEF StructuredInv, UseOK
  <2>2. CASE uses[t].phase = "repair"
    <3>1. uses[u].phase # "repair"
      BY <1>2, <2>2 DEF StructuredInv
    <3> QED
      BY <1>1, <1>2, <3>1 DEF StructuredInv, UseOK
  <2> QED
    BY <2>1, <2>2
<1>3. UseOK(uses'[t], bindings', session')
  BY <1>1 DEF UseOK
<1> QED
  BY <1>1, <1>2, <1>3 DEF Structured!Idle

\* What is released is what its binding names.
LEMMA StructuredRelease ==
    ASSUME StructuredInv, NEW t \in Validators, Structured!Release(t)
    PROVE  StructuredInv'
<1> DEFINE r == [value |-> uses[t].value, use |-> uses[t].use, context |-> uses[t].context]
<1>1. /\ uses[t].phase = "verified" /\ uses' = [uses EXCEPT ![t] = Structured!Idle]
      /\ released' = released \cup {r} /\ UNCHANGED <<current, objects, bindings, session>>
  BY DEF Structured!Release
<1>2. uses[t].value \in ValidValues
      /\ [digest |-> uses[t].value, use |-> uses[t].use, context |-> uses[t].context] \in bindings
  BY <1>1 DEF StructuredInv, UseOK, Structured!Idle
<1>3. r \in [value : ResponseValues, use : AllUses, context : Contexts]
  BY <1>2 DEF StructuredInv
<1>4. /\ DOMAIN uses' = Validators /\ \A u \in Validators : UseOK(uses'[u], bindings', session')
      /\ \A u \in Validators : uses'[u].phase = "repair" <=> uses[u].phase = "repair"
  <2>1. /\ DOMAIN uses' = Validators /\ \A u \in Validators : UseOK(uses'[u], bindings', session')
        /\ \A u \in Validators : uses'[u].phase = "repair" => uses[u].phase = "repair" /\ u # t
    BY <1>1, StructuredDone
  <2>2. \A u \in Validators : u # t => uses'[u] = uses[u]
    BY <1>1 DEF StructuredInv
  <2> QED
    BY <1>1, <2>1, <2>2
<1>5. /\ r.value \in ValidValues
      /\ [digest |-> r.value, use |-> r.use, context |-> r.context] \in bindings
  BY <1>2
<1> HIDE DEF r
<1> QED
  BY <1>1, <1>3, <1>4, <1>5 DEF StructuredInv

\* One response is taken at a time, and none when the session is closed (_lock, closed).
LEMMA StructuredSubmit ==
    ASSUME StructuredInv, NEW t \in Validators, NEW response \in Responses, Structured!Submit(t, response)
    PROVE  StructuredInv'
<1> DEFINE call == [phase |-> "repair", response |-> response, attempt |-> session.attempts + 1]
<1>1. /\ uses[t] = Structured!Idle /\ uses' = [uses EXCEPT ![t] = call] /\ ~session.closed
      /\ \A u \in Validators : uses[u].phase # "repair"
      /\ session' = [session EXCEPT !.attempts = @ + 1]
      /\ UNCHANGED <<current, objects, bindings, released>>
  BY DEF Structured!Submit
<1>2. /\ session.attempts < MaxAttempts + session.escaped
      /\ session.attempts \in Nat /\ session.escaped \in Nat
  BY <1>1 DEF StructuredInv
<1>3. session' \in [attempts : Nat, closed : BOOLEAN, answers : {0, 1}, escaped : Nat] /\ session'.attempts = session.attempts + 1
      /\ session'.closed = session.closed /\ session'.answers = session.answers
      /\ session'.escaped = session.escaped
  BY <1>1, <1>2 DEF StructuredInv
<1>4. UseOK(call, bindings', session')
  BY <1>1, <1>2, <1>3, StructuredAssumption DEF UseOK
<1>5. call.phase = "repair"
  OBVIOUS
<1> HIDE DEF call
<1>6. /\ DOMAIN uses' = Validators /\ uses'[t] = call
      /\ \A u \in Validators : u # t => uses'[u] = uses[u]
  BY <1>1 DEF StructuredInv
<1>7. \A u \in Validators : UseOK(uses'[u], bindings', session')
  <2>1. ASSUME NEW u \in Validators, u # t PROVE UseOK(uses'[u], bindings', session')
    BY <1>1, <1>6, <2>1 DEF StructuredInv, UseOK
  <2> QED
    BY <1>4, <1>6, <2>1
<1>8. \A u \in Validators : uses'[u].phase = "repair" => u = t
  BY <1>1, <1>6
<1> QED
  BY <1>1, <1>2, <1>3, <1>5, <1>6, <1>7, <1>8, StructuredAssumption DEF StructuredInv

\* A session closes, or stays open, and its answers are counted.
LEMMA SessionEnds ==
    ASSUME NEW s \in [attempts : Nat, closed : BOOLEAN, answers : {0, 1}, escaped : Nat], NEW c \in BOOLEAN, NEW n \in {0, 1}
    PROVE  LET u == [s EXCEPT !.closed = c, !.answers = n]
               v == [s EXCEPT !.closed = c]
           IN  /\ u \in [attempts : Nat, closed : BOOLEAN, answers : {0, 1}, escaped : Nat]
               /\ u.attempts = s.attempts /\ u.closed = c /\ u.answers = n /\ u.escaped = s.escaped
               /\ v \in [attempts : Nat, closed : BOOLEAN, answers : {0, 1}, escaped : Nat]
               /\ v.attempts = s.attempts /\ v.closed = c /\ v.answers = s.answers /\ v.escaped = s.escaped
OBVIOUS

\* A session from which an attempt escaped.
LEMMA SessionEscapes ==
    ASSUME NEW s \in [attempts : Nat, closed : BOOLEAN, answers : {0, 1}, escaped : Nat], NEW e \in Nat
    PROVE  LET u == [s EXCEPT !.escaped = e]
           IN  /\ u \in [attempts : Nat, closed : BOOLEAN, answers : {0, 1}, escaped : Nat]
               /\ u.attempts = s.attempts /\ u.closed = s.closed /\ u.answers = s.answers /\ u.escaped = e
OBVIOUS

\* The repair under way, and the session.
LEMMA RepairUnderWay ==
    ASSUME StructuredInv, NEW t \in Validators, uses[t].phase = "repair"
    PROVE  /\ uses[t].response \in Responses /\ uses[t].attempt = session.attempts
           /\ session \in [attempts : Nat, closed : BOOLEAN, answers : {0, 1}, escaped : Nat]
           /\ session.attempts <= MaxAttempts + session.escaped /\ ~session.closed /\ session.answers = 0
<1>1. UseOK(uses[t], bindings, session)
  BY DEF StructuredInv
<1>2. /\ uses[t].response \in Responses /\ uses[t].attempt = session.attempts
      /\ session.attempts <= MaxAttempts + session.escaped /\ ~session.closed
  BY <1>1 DEF UseOK, Structured!Idle
<1>3. /\ session \in [attempts : Nat, closed : BOOLEAN, answers : {0, 1}, escaped : Nat]
      /\ ~session.closed => session.answers = 0
  BY DEF StructuredInv
<1> QED
  BY <1>2, <1>3

\* A repair that ends well stores what it validated and closes its session.
LEMMA StructuredRepaired ==
    ASSUME StructuredInv, NEW t \in Validators, Structured!Repaired(t)
    PROVE  StructuredInv'
<1>1. /\ uses[t].phase = "repair" /\ uses' = [uses EXCEPT ![t] = Structured!Idle]
      /\ Structured!Valid(uses[t].response) /\ Structured!Store(uses[t].response)
      /\ session' = [session EXCEPT !.closed = TRUE, !.answers = @ + 1]
      /\ UNCHANGED <<current, bindings, released>>
  BY DEF Structured!Repaired
<1>2. /\ uses[t].response \in Responses /\ ~session.closed /\ session.answers = 0
      /\ session \in [attempts : Nat, closed : BOOLEAN, answers : {0, 1}, escaped : Nat]
  BY <1>1, RepairUnderWay
<1>3. objects' \in Seq(ObjectType)
  BY <1>1, <1>2, StructuredStore
<1>4. /\ DOMAIN uses' = Validators /\ \A u \in Validators : UseOK(uses'[u], bindings', session')
      /\ \A u \in Validators : uses'[u].phase = "repair" => uses[u].phase = "repair" /\ u # t
  BY <1>1, StructuredDone
<1>5. /\ session' \in [attempts : Nat, closed : BOOLEAN, answers : {0, 1}, escaped : Nat]
      /\ session'.attempts = session.attempts /\ session'.closed /\ session'.escaped = session.escaped
  <2>1. session' = [session EXCEPT !.closed = TRUE, !.answers = 1]
    BY <1>1, <1>2
  <2> QED
    BY <1>2, <2>1, SessionEnds
<1>6. session.attempts \in Nat /\ session.attempts <= MaxAttempts + session.escaped
  BY DEF StructuredInv
<1> QED
  BY <1>1, <1>3, <1>4, <1>5, <1>6 DEF StructuredInv

\* An attempt that escaped is not one of those that were judged (validate_json).
LEMMA StructuredEscaped ==
    ASSUME StructuredInv, NEW t \in Validators, Structured!Escaped(t)
    PROVE  StructuredInv'
<1>1. /\ uses[t].phase = "repair" /\ uses' = [uses EXCEPT ![t] = Structured!Idle]
      /\ session' = [session EXCEPT !.escaped = @ + 1]
      /\ UNCHANGED <<current, objects, bindings, released>>
  BY DEF Structured!Escaped
<1>2. /\ session.attempts <= MaxAttempts + session.escaped /\ ~session.closed /\ session.answers = 0
      /\ session \in [attempts : Nat, closed : BOOLEAN, answers : {0, 1}, escaped : Nat]
  BY <1>1, RepairUnderWay
<1>3. /\ DOMAIN uses' = Validators /\ \A u \in Validators : UseOK(uses'[u], bindings', session')
      /\ \A u \in Validators : uses'[u].phase = "repair" => uses[u].phase = "repair" /\ u # t
  BY <1>1, StructuredDone
<1>4. /\ session' \in [attempts : Nat, closed : BOOLEAN, answers : {0, 1}, escaped : Nat]
      /\ session'.attempts = session.attempts /\ session'.answers = 0
      /\ session'.escaped = session.escaped + 1 /\ ~session'.closed
  <2>1. session.escaped + 1 \in Nat /\ session' = [session EXCEPT !.escaped = session.escaped + 1]
    BY <1>1, <1>2
  <2> QED
    BY <1>2, <2>1, SessionEscapes
<1>5. session'.attempts < MaxAttempts + session'.escaped
  <2>1. session.attempts \in Nat /\ session.escaped \in Nat
    BY <1>2
  <2> QED
    BY <1>2, <1>4, <2>1, StructuredAssumption
<1>6. session'.attempts <= MaxAttempts + session'.escaped
  BY <1>2, <1>4, <1>5, StructuredAssumption
<1> QED
  BY <1>1, <1>3, <1>4, <1>5, <1>6 DEF StructuredInv

\* A repair that ends badly leaves what is stored alone.
LEMMA StructuredRejected ==
    ASSUME StructuredInv, NEW t \in Validators, Structured!Rejected(t)
    PROVE  StructuredInv'
<1>1. /\ uses[t].phase = "repair" /\ uses' = [uses EXCEPT ![t] = Structured!Idle]
      /\ session' = [session EXCEPT !.closed = @ \/ uses[t].attempt >= MaxAttempts]
      /\ UNCHANGED <<current, objects, bindings, released>>
  BY DEF Structured!Rejected
<1>2. /\ uses[t].attempt = session.attempts /\ ~session.closed /\ session.attempts <= MaxAttempts + session.escaped
      /\ session.answers = 0 /\ session \in [attempts : Nat, closed : BOOLEAN, answers : {0, 1}, escaped : Nat]
  BY <1>1, RepairUnderWay
<1>3. /\ DOMAIN uses' = Validators /\ \A u \in Validators : UseOK(uses'[u], bindings', session')
      /\ \A u \in Validators : uses'[u].phase = "repair" => uses[u].phase = "repair" /\ u # t
  BY <1>1, StructuredDone
<1> DEFINE closes == session.attempts >= MaxAttempts
<1>4. session' = [session EXCEPT !.closed = closes]
  BY <1>1, <1>2
<1>5. closes \in BOOLEAN
  OBVIOUS
<1>6. /\ session' \in [attempts : Nat, closed : BOOLEAN, answers : {0, 1}, escaped : Nat]
      /\ session'.attempts = session.attempts /\ session'.closed = closes /\ session'.answers = 0
      /\ session'.escaped = session.escaped
  <2> HIDE DEF closes
  <2> QED
    BY <1>2, <1>4, <1>5, SessionEnds
<1>7. ~session'.closed => session.attempts < MaxAttempts + session.escaped
  BY <1>2, <1>6, StructuredAssumption
<1> QED
  BY <1>1, <1>2, <1>3, <1>6, <1>7 DEF StructuredInv

\* The host changes what it holds, not the text it was validated from.
LEMMA StructuredChange ==
    ASSUME StructuredInv, NEW i \in DOMAIN objects, NEW value \in ResponseValues, Structured!Change(i, value)
    PROVE  StructuredInv'
<1>1. /\ objects' = [objects EXCEPT ![i].value = value]
      /\ UNCHANGED <<current, bindings, uses, session, released>>
  BY DEF Structured!Change
<1>2. objects \in Seq(ObjectType) /\ objects[i] \in ObjectType
  <2>1. objects \in Seq(ObjectType)
    BY DEF StructuredInv
  <2> QED
    BY <2>1
<1>3. [objects[i] EXCEPT !.value = value] \in ObjectType
  BY <1>2 DEF ObjectType
<1>4. objects' = [objects EXCEPT ![i] = [objects[i] EXCEPT !.value = value]]
  BY <1>1
<1>5. objects' \in Seq(ObjectType)
  BY <1>2, <1>3, <1>4
<1> QED
  BY <1>1, <1>5 DEF StructuredInv, UseOK

\* A schema that changes leaves bindings as they are.
LEMMA StructuredSchema ==
    ASSUME StructuredInv, Structured!ChangeSchema
    PROVE  StructuredInv'
BY DEF Structured!ChangeSchema, StructuredInv, UseOK

\* Every operation on structured output keeps StructuredInv.
LEMMA StructuredStep == StructuredInv /\ [Structured!Next]_structured => StructuredInv'
<1> SUFFICES ASSUME StructuredInv, [Structured!Next]_structured PROVE StructuredInv'
  OBVIOUS
<1>1. CASE Structured!Next
  BY <1>1, StructuredValidate, StructuredBind, StructuredVerify, StructuredRelease, StructuredSubmit,
     StructuredRepaired, StructuredEscaped, StructuredRejected, StructuredChange, StructuredSchema DEF Structured!Next
<1>2. CASE UNCHANGED structured
  BY <1>2 DEF structured, StructuredInv, UseOK
<1> QED
  BY <1>1, <1>2

\* StructuredInv has the types and both properties.
LEMMA StructuredSafe == StructuredInv => Structured!TypeOK /\ Structured!UsedAsBound /\ Structured!RepairBounded
<1> SUFFICES ASSUME StructuredInv PROVE Structured!TypeOK /\ Structured!UsedAsBound /\ Structured!RepairBounded
  OBVIOUS
<1>1. Structured!RepairBounded
  BY DEF StructuredInv, Structured!RepairBounded
<1>2. Structured!UsedAsBound
  BY DEF StructuredInv, Structured!UsedAsBound, ValidValues, Structured!Valid
<1>3. ASSUME NEW i \in DOMAIN objects
      PROVE  objects[i] \in [json : ResponseValues, digest : ResponseValues, value : ResponseValues]
  <2>1. objects \in Seq(ObjectType)
    BY DEF StructuredInv
  <2>2. objects[i] \in ObjectType
    BY <2>1
  <2> QED
    BY <2>2, ValidTyped DEF ObjectType
<1>4. ASSUME NEW t \in Validators PROVE uses[t].phase \in {"idle", "verified", "repair"}
  <2>1. UseOK(uses[t], bindings, session)
    BY DEF StructuredInv
  <2> QED
    BY <2>1 DEF UseOK, Structured!Idle
<1>5. Structured!TypeOK
  BY <1>3, <1>4 DEF StructuredInv, Structured!TypeOK
<1> QED
  BY <1>1, <1>2, <1>5

-----------------------------------------------------------------------------
(* Campaigns *)

\* The store and its states have bounds, and turns belong to conversations.
ASSUME JailbreakAssumption ==
    MaxTurns \in Nat /\ MaxSessions \in Nat /\ \A event \in Events : event.scope \in Scopes

StateOK(stored) ==
    /\ stored.version \in Nat \ {0} /\ stored.turns \in Seq(Events) /\ Len(stored.turns) <= MaxTurns
    /\ stored.last_action \in {"allow", "block"}

StoreInv ==
    /\ IsFiniteSet(DOMAIN states) /\ DOMAIN states \subseteq Scopes /\ Cardinality(DOMAIN states) <= MaxSessions
    /\ \A s \in DOMAIN states : StateOK(states[s])
    /\ trajectory \in [Scopes -> Seq(Events)] /\ lives \in [Scopes -> Nat]
    /\ \A s \in Scopes \ DOMAIN states : trajectory[s] = <<>>
    /\ revived \subseteq DOMAIN states
    /\ Jailbreak!TrajectoryKept /\ Jailbreak!BlockSticky

\* What a call is about to write follows the state it read: none, or one of the life the conversation
\* had then, in which the version tells whether it still stands.
Pending(call) ==
    /\ call.op = "write" /\ call.event \in Events /\ call.version \in Nat
    /\ call.life \in Nat /\ call.life <= lives[call.event.scope]
    /\ StateOK(call.next) /\ call.next.version = call.version + 1
    /\ call.version = 0 => call.next = Jailbreak!NextState(Jailbreak!NoState, call.event, call.clock)
    /\ call.version > 0 /\ call.life = lives[call.event.scope] =>
          /\ call.event.scope \in DOMAIN states /\ call.version <= states[call.event.scope].version
          /\ call.version = states[call.event.scope].version =>
                call.next = Jailbreak!NextState(states[call.event.scope], call.event, call.clock)

CallOK(call) ==
    \/ call = [op |-> "idle"]
    \/ call.op = "read" /\ call.event \in Events
    \/ Pending(call)

JailbreakInv ==
    /\ StoreInv /\ DOMAIN session_calls = Clients
    /\ \A t \in Clients : CallOK(session_calls[t])

\* What is kept of turns are the last ones of all.
LEMMA KeptType ==
    ASSUME NEW turns \in Seq(Events)
    PROVE  Jailbreak!Kept(turns) \in Seq(Events) /\ Len(Jailbreak!Kept(turns)) <= MaxTurns
<1>1. MaxTurns \in Nat /\ Len(turns) \in Nat
  BY JailbreakAssumption
<1>2. CASE Len(turns) <= MaxTurns
  BY <1>1, <1>2 DEF Jailbreak!Kept
<1>3. CASE Len(turns) > MaxTurns
  <2>1. Jailbreak!Kept(turns) = SubSeq(turns, Len(turns) - MaxTurns + 1, Len(turns))
    BY <1>3 DEF Jailbreak!Kept
  <2>2. Len(turns) - MaxTurns + 1 \in 1..Len(turns) + 1
    BY <1>1, <1>3
  <2>3. /\ SubSeq(turns, Len(turns) - MaxTurns + 1, Len(turns)) \in Seq(Events)
        /\ Len(SubSeq(turns, Len(turns) - MaxTurns + 1, Len(turns))) = MaxTurns
    BY <1>1, <1>3, <2>2
  <2> QED
    BY <1>1, <2>1, <2>3
<1> QED
  BY <1>1, <1>2, <1>3

\* What is kept of what was kept is kept of the whole.
LEMMA KeptOfKept ==
    ASSUME NEW turns \in Seq(Events), NEW event \in Events
    PROVE  Jailbreak!Kept(Append(Jailbreak!Kept(turns), event)) = Jailbreak!Kept(Append(turns, event))
<1> DEFINE n == Len(turns)
<1>1. MaxTurns \in Nat /\ n \in Nat
  BY JailbreakAssumption
<1>2. CASE n <= MaxTurns
  BY <1>1, <1>2 DEF Jailbreak!Kept
<1>3. CASE n > MaxTurns
  <2> DEFINE kept == SubSeq(turns, n - MaxTurns + 1, n)
             longer == Append(turns, event)
             added == Append(kept, event)
  <2>1. Jailbreak!Kept(turns) = kept
    BY <1>3 DEF Jailbreak!Kept
  <2>2. /\ kept \in Seq(Events) /\ Len(kept) = MaxTurns
        /\ \A i \in 1..MaxTurns : kept[i] = turns[i + n - MaxTurns]
    BY <1>1, <1>3
  <2>3. /\ longer \in Seq(Events) /\ Len(longer) = n + 1 /\ longer[n + 1] = event
        /\ \A i \in 1..n : longer[i] = turns[i]
    OBVIOUS
  <2> HIDE DEF kept
  <2>4. /\ added \in Seq(Events) /\ Len(added) = MaxTurns + 1 /\ added[MaxTurns + 1] = event
        /\ \A i \in 1..MaxTurns : added[i] = kept[i]
    BY <1>1, <2>2
  <2> HIDE DEF n, longer, added
  <2>5. Jailbreak!Kept(longer) = SubSeq(longer, n + 1 - MaxTurns + 1, n + 1)
    BY <1>1, <1>3, <2>3 DEF Jailbreak!Kept
  <2>6. Jailbreak!Kept(added) = SubSeq(added, 2, MaxTurns + 1)
    BY <1>1, <2>4 DEF Jailbreak!Kept
  <2>7. /\ SubSeq(longer, n + 1 - MaxTurns + 1, n + 1) \in Seq(Events)
        /\ Len(SubSeq(longer, n + 1 - MaxTurns + 1, n + 1)) = MaxTurns
        /\ \A i \in 1..MaxTurns : SubSeq(longer, n + 1 - MaxTurns + 1, n + 1)[i] = longer[n + 1 - MaxTurns + i]
    BY <1>1, <1>3, <2>3
  <2>8. /\ SubSeq(added, 2, MaxTurns + 1) \in Seq(Events)
        /\ Len(SubSeq(added, 2, MaxTurns + 1)) = MaxTurns
        /\ \A i \in 1..MaxTurns : SubSeq(added, 2, MaxTurns + 1)[i] = added[i + 1]
    BY <1>1, <2>4
  <2>9. ASSUME NEW i \in 1..MaxTurns PROVE longer[n + 1 - MaxTurns + i] = added[i + 1]
    <3>1. CASE i = MaxTurns
      BY <1>1, <2>3, <2>4, <3>1
    <3>2. CASE i # MaxTurns
      <4>1. /\ i + 1 \in 1..MaxTurns /\ n + 1 - MaxTurns + i \in 1..n
            /\ (i + 1) + n - MaxTurns = n + 1 - MaxTurns + i
        BY <1>1, <1>3, <3>2
      <4> QED
        BY <2>2, <2>3, <2>4, <4>1
    <3> QED
      BY <3>1, <3>2
  <2>10. SubSeq(longer, n + 1 - MaxTurns + 1, n + 1) = SubSeq(added, 2, MaxTurns + 1)
    BY <1>1, <2>7, <2>8, <2>9
  <2> QED
    BY <2>1, <2>5, <2>6, <2>10 DEF longer, added
<1> QED
  BY <1>1, <1>2, <1>3

\* The state after another turn.
LEMMA NextOK ==
    ASSUME NEW stored, stored.version \in Nat, stored.turns \in Seq(Events),
           stored.last_action \in {"allow", "block"}, NEW event \in Events, NEW clock
    PROVE  /\ StateOK(Jailbreak!NextState(stored, event, clock))
           /\ Jailbreak!NextState(stored, event, clock).version = stored.version + 1
           /\ Jailbreak!NextState(stored, event, clock).turns = Jailbreak!Kept(Append(stored.turns, event))
           /\ Jailbreak!NextState(stored, event, clock).last_action =
                 Jailbreak!Action(Jailbreak!Kept(Append(stored.turns, event)), stored.last_action)
<1>1. Append(stored.turns, event) \in Seq(Events)
  OBVIOUS
<1>2. /\ Jailbreak!Kept(Append(stored.turns, event)) \in Seq(Events)
      /\ Len(Jailbreak!Kept(Append(stored.turns, event))) <= MaxTurns
  BY <1>1, KeptType
<1>3. Jailbreak!Action(Jailbreak!Kept(Append(stored.turns, event)), stored.last_action) \in {"allow", "block"}
  BY DEF Jailbreak!Action
<1> QED
  BY <1>2, <1>3 DEF Jailbreak!NextState, StateOK

\* The state of a session that has none.
LEMMA NoStateOK ==
    /\ Jailbreak!NoState.version = 0 /\ Jailbreak!NoState.turns = <<>> /\ Jailbreak!NoState.turns \in Seq(Events)
    /\ Jailbreak!NoState.last_action = "allow" /\ Jailbreak!NoState.last_action \in {"allow", "block"}
    /\ Jailbreak!NoState.version \in Nat
BY DEF Jailbreak!NoState

\* A conversation expires or is reset: it is gone as a whole.
LEMMA StoreEnds ==
    ASSUME StoreInv, NEW gone \in SUBSET DOMAIN states, states' = Jailbreak!Without(gone), Jailbreak!Ended(gone)
    PROVE  /\ StoreInv' /\ DOMAIN states' = DOMAIN states \ gone
           /\ \A s \in DOMAIN states \ gone : states'[s] = states[s] /\ lives'[s] = lives[s]
           /\ \A s \in gone : lives'[s] = lives[s] + 1
           /\ \A s \in Scopes : lives[s] <= lives'[s] /\ lives'[s] \in Nat
<1>1. /\ DOMAIN states' = DOMAIN states \ gone /\ \A s \in DOMAIN states \ gone : states'[s] = states[s]
  BY DEF Jailbreak!Without
<1>2. /\ DOMAIN states \subseteq Scopes /\ trajectory \in [Scopes -> Seq(Events)] /\ lives \in [Scopes -> Nat]
      /\ revived \subseteq DOMAIN states /\ \A s \in DOMAIN states : StateOK(states[s])
      /\ \A s \in Scopes \ DOMAIN states : trajectory[s] = <<>>
  BY DEF StoreInv
<1>3. /\ lives' = [s \in Scopes |-> lives[s] + IF s \in gone THEN 1 ELSE 0]
      /\ trajectory' = [s \in Scopes |-> IF s \in gone THEN <<>> ELSE trajectory[s]]
      /\ revived' = revived \ gone
  BY DEF Jailbreak!Ended
<1>4. lives' \in [Scopes -> Nat]
  BY <1>2, <1>3
<1>5. \A s \in Scopes : lives'[s] = lives[s] + IF s \in gone THEN 1 ELSE 0
  BY <1>3
<1>6. <<>> \in Seq(Events)
  OBVIOUS
<1>7. trajectory' \in [Scopes -> Seq(Events)]
  BY <1>2, <1>3, <1>6
<1>8. \A s \in Scopes : trajectory'[s] = IF s \in gone THEN <<>> ELSE trajectory[s]
  BY <1>3
<1>9. /\ IsFiniteSet(DOMAIN states') /\ DOMAIN states' \subseteq Scopes
      /\ Cardinality(DOMAIN states') <= MaxSessions
  <2>1. IsFiniteSet(DOMAIN states) /\ Cardinality(DOMAIN states) <= MaxSessions
    BY DEF StoreInv
  <2>2. DOMAIN states' \subseteq DOMAIN states
    BY <1>1
  <2>3. IsFiniteSet(DOMAIN states') /\ Cardinality(DOMAIN states') <= Cardinality(DOMAIN states)
    BY <2>1, <2>2, FS_Subset
  <2>4. Cardinality(DOMAIN states') \in Nat /\ Cardinality(DOMAIN states) \in Nat /\ MaxSessions \in Nat
    BY <2>1, <2>3, FS_CardinalityType, JailbreakAssumption
  <2> QED
    BY <1>2, <2>1, <2>2, <2>3, <2>4
<1>10. Jailbreak!TrajectoryKept' /\ Jailbreak!BlockSticky'
  <2>1. \A s \in DOMAIN states' \ revived' :
          s \in DOMAIN states \ revived /\ states'[s] = states[s] /\ trajectory'[s] = trajectory[s]
    BY <1>1, <1>2, <1>3, <1>8
  <2>2. Jailbreak!TrajectoryKept'
    BY <2>1 DEF StoreInv, Jailbreak!TrajectoryKept
  <2>3. Jailbreak!BlockSticky'
    BY <2>1 DEF StoreInv, Jailbreak!BlockSticky
  <2> QED
    BY <2>2, <2>3
<1>11. \A s \in DOMAIN states' : StateOK(states'[s])
  BY <1>1, <1>2
<1>12. \A s \in Scopes \ DOMAIN states' : trajectory'[s] = <<>>
  BY <1>1, <1>2, <1>8
<1>13. revived' \subseteq DOMAIN states'
  BY <1>1, <1>2, <1>3
<1>14. StoreInv'
  BY <1>4, <1>7, <1>9, <1>10, <1>11, <1>12, <1>13 DEF StoreInv, StateOK
<1>15. \A s \in Scopes : lives[s] \in Nat
  BY <1>2
<1> QED
  BY <1>1, <1>2, <1>5, <1>14, <1>15

\* What calls are about to write still follows what they read.
LEMMA CallStands ==
    ASSUME StoreInv, NEW call, CallOK(call),
           \A s \in Scopes : lives[s] \in Nat /\ lives'[s] \in Nat /\ lives[s] <= lives'[s],
           \A s \in DOMAIN states : lives'[s] = lives[s] => s \in DOMAIN states' /\ states'[s] = states[s]
    PROVE  CallOK(call)'
<1>1. CASE ~Pending(call)
  BY <1>1 DEF CallOK
<1>2. CASE Pending(call)
  <2> DEFINE s == call.event.scope
  <2>1. /\ call.op = "write" /\ call.event \in Events /\ call.version \in Nat
        /\ call.life \in Nat /\ call.life <= lives[s]
        /\ StateOK(call.next) /\ call.next.version = call.version + 1
        /\ call.version = 0 => call.next = Jailbreak!NextState(Jailbreak!NoState, call.event, call.clock)
    BY <1>2 DEF Pending
  <2>2. s \in Scopes
    BY <2>1, JailbreakAssumption
  <2>3. call.life <= lives'[s]
    BY <2>1, <2>2
  <2>4. ASSUME call.version > 0, call.life = lives'[s]
        PROVE  /\ s \in DOMAIN states' /\ call.version <= states'[s].version
               /\ call.version = states'[s].version =>
                    call.next = Jailbreak!NextState(states'[s], call.event, call.clock)
    <3>1. lives[s] = lives'[s]
      BY <2>1, <2>2, <2>4
    <3>2. /\ s \in DOMAIN states /\ call.version <= states[s].version
          /\ call.version = states[s].version =>
                call.next = Jailbreak!NextState(states[s], call.event, call.clock)
      BY <1>2, <2>4, <3>1 DEF Pending
    <3>3. s \in DOMAIN states' /\ states'[s] = states[s]
      BY <3>1, <3>2
    <3> QED
      BY <3>2, <3>3
  <2>5. Pending(call)'
    BY <2>1, <2>3, <2>4 DEF Pending, StateOK, Jailbreak!NextState, Jailbreak!Kept, Jailbreak!Action, Jailbreak!NoState
  <2> QED
    BY <2>5 DEF CallOK
<1> QED
  BY <1>1, <1>2

\* No session has a state at the start.
LEMMA JailbreakInit == Jailbreak!Init => JailbreakInv
<1> SUFFICES ASSUME Jailbreak!Init PROVE JailbreakInv
  OBVIOUS
<1>1. /\ DOMAIN states = {} /\ session_calls = [t \in Clients |-> [op |-> "idle"]]
      /\ trajectory = [s \in Scopes |-> <<>>] /\ lives = [s \in Scopes |-> 0] /\ revived = {}
  BY Zenon DEF Jailbreak!Init, Jailbreak!Idle
<1>2. trajectory \in [Scopes -> Seq(Events)] /\ lives \in [Scopes -> Nat]
  BY <1>1
<1>3. IsFiniteSet(DOMAIN states) /\ Cardinality(DOMAIN states) <= MaxSessions
  <2>1. IsFiniteSet({}) /\ Cardinality({}) = 0 /\ MaxSessions \in Nat
    BY FS_EmptySet, JailbreakAssumption
  <2> QED
    BY <1>1, <2>1
<1>4. Jailbreak!TrajectoryKept /\ Jailbreak!BlockSticky
  BY <1>1 DEF Jailbreak!TrajectoryKept, Jailbreak!BlockSticky
<1>5. StoreInv
  BY <1>1, <1>2, <1>3, <1>4 DEF StoreInv
<1> QED
  BY <1>1, <1>5 DEF JailbreakInv, CallOK

\* What has expired is stored.
LEMMA ExpiredStored ==
    ASSUME NEW clock
    PROVE  Jailbreak!Expired(clock) \in SUBSET DOMAIN states
BY DEF Jailbreak!Expired

\* A step that leaves the store alone keeps what holds of it.
LEMMA StoreRests ==
    ASSUME StoreInv, UNCHANGED <<states, trajectory, lives, revived>>
    PROVE  StoreInv'
<1>1. Jailbreak!TrajectoryKept'
  BY DEF StoreInv, Jailbreak!TrajectoryKept
<1>2. Jailbreak!BlockSticky'
  BY DEF StoreInv, Jailbreak!BlockSticky
<1>3. \A s \in DOMAIN states' : StateOK(states'[s])
  BY DEF StoreInv
<1>4. \A s \in DOMAIN states' : StateOK(states[s])'
  BY <1>3 DEF StateOK
<1>5. UNCHANGED states /\ UNCHANGED trajectory /\ UNCHANGED lives /\ UNCHANGED revived
  OBVIOUS
<1> QED
  BY <1>1, <1>2, <1>4, <1>5 DEF StoreInv

\* A thread that reads a state has one of the states of the session.
LEMMA JailbreakBegin ==
    ASSUME JailbreakInv, NEW t \in Clients, NEW event \in Events, Jailbreak!AssessBegin(t, event)
    PROVE  JailbreakInv'
<1>1. /\ session_calls' = [session_calls EXCEPT ![t] =
             [op |-> "read", event |-> event, clock |-> session_now, tries |-> MaxRetries]]
      /\ UNCHANGED <<states, trajectory, lives, revived>>
  BY DEF Jailbreak!AssessBegin, Jailbreak!Goto
<1>2. StoreInv'
  BY <1>1, StoreRests DEF JailbreakInv
<1>3. ASSUME NEW u \in Clients PROVE CallOK(session_calls[u])'
  <2>1. CASE u = t
    BY <1>1, <2>1 DEF JailbreakInv, CallOK
  <2>2. CASE u # t
    <3>1. session_calls'[u] = session_calls[u] /\ CallOK(session_calls[u])
      BY <1>1, <2>2 DEF JailbreakInv
    <3>2. PICK other : other = session_calls[u]
      OBVIOUS
    <3>3. CallOK(other)'
      BY <1>1, <3>1, <3>2 DEF CallOK, Pending, StateOK
    <3> QED
      BY <3>1, <3>2, <3>3 DEF CallOK, Pending, StateOK
  <2> QED
    BY <2>1, <2>2
<1>4. DOMAIN session_calls' = Clients
  BY <1>1 DEF JailbreakInv
<1> QED
  BY <1>2, <1>3, <1>4 DEF JailbreakInv

\* One call goes on while conversations end.
LEMMA CallsStand ==
    ASSUME JailbreakInv, NEW t \in Clients, NEW call, session_calls' = [session_calls EXCEPT ![t] = call],
           NEW gone \in SUBSET DOMAIN states, states' = Jailbreak!Without(gone), Jailbreak!Ended(gone),
           CallOK(call)'
    PROVE  JailbreakInv'
<1>1. StoreInv /\ DOMAIN session_calls = Clients /\ \A u \in Clients : CallOK(session_calls[u])
  BY DEF JailbreakInv
<1>2. /\ StoreInv' /\ DOMAIN states' = DOMAIN states \ gone
      /\ \A s \in DOMAIN states \ gone : states'[s] = states[s] /\ lives'[s] = lives[s]
      /\ \A s \in gone : lives'[s] = lives[s] + 1
      /\ \A s \in Scopes : lives[s] <= lives'[s] /\ lives'[s] \in Nat
  BY <1>1, StoreEnds
<1>3. (\A s \in Scopes : lives[s] \in Nat) /\ DOMAIN states \subseteq Scopes
  BY <1>1 DEF StoreInv
<1>4. \A s \in DOMAIN states : lives'[s] = lives[s] => s \in DOMAIN states' /\ states'[s] = states[s]
  BY <1>2, <1>3
<1>5. ASSUME NEW u \in Clients PROVE CallOK(session_calls[u])'
  <2>1. CASE u = t
    <3>1. session_calls'[u] = call
      BY <1>1, <2>1
    <3> QED
      BY <3>1 DEF CallOK, Pending, StateOK
  <2>2. CASE u # t
    <3>1. session_calls'[u] = session_calls[u] /\ CallOK(session_calls[u])
      BY <1>1, <2>2
    <3>2. PICK other : other = session_calls[u]
      OBVIOUS
    <3>3. CallOK(other)'
      BY <1>1, <1>2, <1>3, <1>4, <3>1, <3>2, CallStands
    <3> QED
      BY <3>1, <3>2, <3>3 DEF CallOK, Pending, StateOK
  <2> QED
    BY <2>1, <2>2
<1>6. DOMAIN session_calls' = Clients
  BY <1>1
<1> QED
  BY <1>2, <1>5, <1>6 DEF JailbreakInv

\* What a call reads is the state it goes on from (assess).
LEMMA JailbreakRead ==
    ASSUME JailbreakInv, NEW t \in Clients, Jailbreak!AssessRead(t)
    PROVE  JailbreakInv'
<1>1. PICK read, s, gone :
        read = session_calls[t] /\ s = read.event.scope /\ gone = Jailbreak!Expired(read.clock)
  OBVIOUS
<1>2. PICK stored : stored = IF s \in DOMAIN states' THEN states'[s] ELSE Jailbreak!NoState
  OBVIOUS
<1>3. PICK call : call = IF read.event.sequence = stored.next_sequence
                   THEN [op |-> "write", event |-> read.event, clock |-> read.clock,
                         tries |-> read.tries, version |-> stored.version, life |-> lives'[s],
                         next |-> Jailbreak!NextState(stored, read.event, read.clock)]
                   ELSE [op |-> "idle"]
  OBVIOUS
<1>4. /\ session_calls[t].op = "read" /\ states' = Jailbreak!Without(gone) /\ Jailbreak!Ended(gone)
  BY <1>1 DEF Jailbreak!AssessRead
<1>5. session_calls' = [session_calls EXCEPT ![t] = call]
  BY <1>1, <1>2, <1>3, <1>4 DEF Jailbreak!AssessRead, Jailbreak!Goto, Jailbreak!Idle
<1>6. StoreInv /\ CallOK(session_calls[t])
  BY DEF JailbreakInv
<1>7. read.event \in Events
  BY <1>1, <1>4, <1>6 DEF CallOK, Pending
<1>8. s \in Scopes
  BY <1>1, <1>7, JailbreakAssumption
<1>9. gone \in SUBSET DOMAIN states
  BY <1>1, ExpiredStored
<1>10. StoreInv' /\ \A x \in Scopes : lives'[x] \in Nat
  BY <1>4, <1>6, <1>9, StoreEnds
<1>11. /\ stored.version \in Nat /\ stored.turns \in Seq(Events) /\ stored.last_action \in {"allow", "block"}
       /\ s \in DOMAIN states' => stored = states'[s] /\ stored.version # 0
       /\ s \notin DOMAIN states' => stored = Jailbreak!NoState
  <2>1. CASE s \in DOMAIN states'
    <3>1. \A x \in DOMAIN states' : StateOK(states[x])'
      BY <1>10 DEF StoreInv
    <3>2. StateOK(states'[s])
      BY <2>1, <3>1 DEF StateOK
    <3> QED
      BY <1>2, <2>1, <3>2 DEF StateOK
  <2>2. CASE s \notin DOMAIN states'
    <3>1. stored = Jailbreak!NoState
      BY <1>2, <2>2
    <3> QED
      BY <2>2, <3>1, NoStateOK
  <2> QED
    BY <2>1, <2>2
<1>12. CallOK(call)'
  <2>1. CASE call = [op |-> "idle"]
    BY <2>1 DEF CallOK
  <2>2. CASE call # [op |-> "idle"]
    <3>1. /\ call.op = "write" /\ call.event = read.event /\ call.clock = read.clock
          /\ call.version = stored.version /\ call.life = lives'[s]
          /\ call.next = Jailbreak!NextState(stored, read.event, read.clock)
      BY <1>3, <2>2
    <3>2. StateOK(call.next) /\ call.next.version = call.version + 1
      BY <1>7, <1>11, <3>1, NextOK
    <3>3. call.version = 0 => call.next = Jailbreak!NextState(Jailbreak!NoState, call.event, call.clock)
      BY <1>11, <3>1
    <3>4. call.version > 0 =>
            /\ s \in DOMAIN states' /\ call.version <= states'[s].version
            /\ call.next = Jailbreak!NextState(states'[s], call.event, call.clock)
      BY <1>11, <3>1, NoStateOK
    <3>5. /\ call.event \in Events /\ call.version \in Nat /\ call.life \in Nat /\ call.life <= lives'[s]
          /\ call.event.scope = s
      BY <1>1, <1>7, <1>8, <1>10, <1>11, <3>1
    <3>6. Pending(call)'
      BY <3>1, <3>2, <3>3, <3>4, <3>5 DEF Pending, StateOK
    <3> QED
      BY <3>6 DEF CallOK
  <2> QED
    BY <2>1, <2>2
<1> QED
  BY <1>4, <1>5, <1>9, <1>12, CallsStand

\* A call is over, or tries again.
LEMMA JailbreakRetries ==
    ASSUME JailbreakInv, NEW t \in Clients, NEW call, session_calls' = [session_calls EXCEPT ![t] = call],
           NEW gone \in SUBSET DOMAIN states, states' = Jailbreak!Without(gone), Jailbreak!Ended(gone),
           call = [op |-> "idle"] \/ (call.op = "read" /\ call.event \in Events)
    PROVE  JailbreakInv'
<1>1. CallOK(call)'
  BY DEF CallOK
<1> QED
  BY <1>1, CallsStand

\* The turn is appended to what is stored, which is what the call read (compare_and_set).
Written(call, s, gone, left) ==
    /\ states' = [x \in DOMAIN left \cup {s} |-> IF x = s THEN call.next ELSE left[x]]
    /\ lives' = [x \in Scopes |-> lives[x] + IF x \in gone THEN 1 ELSE 0]
    /\ trajectory' = [x \in Scopes |->
            LET before == IF x \in gone THEN <<>> ELSE trajectory[x]
            IN  IF x = s THEN Append(before, call.event) ELSE before]
    /\ revived' = (revived \ gone) \cup IF call.version > 0 /\ call.life # lives'[s] THEN {s} ELSE {}

Replaced(call, s, gone) ==
    /\ DOMAIN states' = (DOMAIN states \ gone) \cup {s}
    /\ \A x \in Scopes : lives'[x] \in Nat /\ lives'[x] = lives[x] + IF x \in gone THEN 1 ELSE 0
    /\ states'[s] = call.next /\ \A x \in DOMAIN states \ gone : x # s => states'[x] = states[x]
    /\ s \in DOMAIN states \ gone => states[s].version = call.version
    /\ s \notin DOMAIN states \ gone => call.version = 0

\* A write that the store accepts continues the version that was read.
LEMMA StoreWritten ==
    ASSUME StoreInv, NEW gone \in SUBSET DOMAIN states, NEW call, Pending(call), NEW s, s = call.event.scope,
           NEW left, left = Jailbreak!Without(gone), Jailbreak!Matches(s, call.version, left),
           s \in DOMAIN left \/ Cardinality(DOMAIN left) < MaxSessions,
           Written(call, s, gone, left)
    PROVE  StoreInv' /\ Replaced(call, s, gone)
<1>1. /\ DOMAIN states \subseteq Scopes /\ trajectory \in [Scopes -> Seq(Events)] /\ lives \in [Scopes -> Nat]
      /\ revived \subseteq DOMAIN states /\ \A x \in DOMAIN states : StateOK(states[x])
      /\ \A x \in Scopes \ DOMAIN states : trajectory[x] = <<>>
  BY DEF StoreInv
<1>2. /\ DOMAIN left = DOMAIN states \ gone /\ \A x \in DOMAIN left : left[x] = states[x]
  BY DEF Jailbreak!Without
<1>3. /\ call.event \in Events /\ call.version \in Nat /\ call.life \in Nat /\ call.life <= lives[s]
      /\ StateOK(call.next) /\ call.next.version = call.version + 1
      /\ call.version = 0 => call.next = Jailbreak!NextState(Jailbreak!NoState, call.event, call.clock)
      /\ call.version > 0 /\ call.life = lives[s] =>
            /\ s \in DOMAIN states /\ call.version <= states[s].version
            /\ call.version = states[s].version =>
                  call.next = Jailbreak!NextState(states[s], call.event, call.clock)
  BY DEF Pending
<1>4. s \in Scopes
  BY <1>3, JailbreakAssumption
<1>5. /\ DOMAIN states' = (DOMAIN states \ gone) \cup {s} /\ states'[s] = call.next
      /\ \A x \in DOMAIN states \ gone : x # s => states'[x] = states[x]
  BY <1>2 DEF Written
<1>6. \A x \in Scopes : lives'[x] \in Nat /\ lives'[x] = lives[x] + IF x \in gone THEN 1 ELSE 0
  BY <1>1 DEF Written
<1>7. /\ s \in DOMAIN states \ gone => states[s].version = call.version /\ call.version > 0
      /\ s \notin DOMAIN states \ gone => call.version = 0
  BY <1>1, <1>2 DEF Jailbreak!Matches, Jailbreak!Version, StateOK
<1>8. PICK before : before = IF s \in gone THEN <<>> ELSE trajectory[s]
  OBVIOUS
<1>9. /\ before \in Seq(Events) /\ trajectory'[s] = Append(before, call.event)
      /\ \A x \in Scopes : x # s => trajectory'[x] = IF x \in gone THEN <<>> ELSE trajectory[x]
  <2>1. <<>> \in Seq(Events)
    OBVIOUS
  <2> QED
    BY <1>1, <1>4, <1>8, <2>1 DEF Written
<1>10. trajectory' \in [Scopes -> Seq(Events)]
  <2>1. Append(before, call.event) \in Seq(Events) /\ <<>> \in Seq(Events)
    BY <1>3, <1>9
  <2>2. ASSUME NEW x \in Scopes PROVE trajectory'[x] \in Seq(Events)
    BY <1>1, <1>9, <2>1
  <2>3. DOMAIN trajectory' = Scopes /\ trajectory' = [x \in Scopes |-> trajectory'[x]]
    BY DEF Written
  <2> QED
    BY <2>2, <2>3
<1>11. /\ IsFiniteSet(DOMAIN states') /\ DOMAIN states' \subseteq Scopes
       /\ Cardinality(DOMAIN states') <= MaxSessions
  <2>1. IsFiniteSet(DOMAIN states) /\ Cardinality(DOMAIN states) <= MaxSessions
    BY DEF StoreInv
  <2>2. IsFiniteSet(DOMAIN left) /\ Cardinality(DOMAIN left) <= Cardinality(DOMAIN states)
    BY <1>2, <2>1, FS_Subset
  <2>3. Cardinality(DOMAIN left) \in Nat /\ Cardinality(DOMAIN states) \in Nat /\ MaxSessions \in Nat
    BY <2>1, <2>2, FS_CardinalityType, JailbreakAssumption
  <2>4. /\ IsFiniteSet(DOMAIN left \cup {s})
        /\ Cardinality(DOMAIN left \cup {s}) =
              IF s \in DOMAIN left THEN Cardinality(DOMAIN left) ELSE Cardinality(DOMAIN left) + 1
    BY <2>2, FS_AddElement
  <2>5. DOMAIN states' = DOMAIN left \cup {s} /\ DOMAIN left \cup {s} \subseteq Scopes
    BY <1>1, <1>2, <1>4, <1>5
  <2>6. Cardinality(DOMAIN left \cup {s}) <= MaxSessions
    BY <2>1, <2>2, <2>3, <2>4
  <2> QED
    BY <2>4, <2>5, <2>6
<1>12. \A x \in DOMAIN states' : StateOK(states'[x])
  BY <1>1, <1>3, <1>5
<1>13. \A x \in Scopes \ DOMAIN states' : trajectory'[x] = <<>>
  BY <1>1, <1>5, <1>9
<1>14. revived' \subseteq DOMAIN states'
  BY <1>1, <1>5 DEF Written
\* Unless it is of another life, the turn follows what the conversation consists of.
<1>15. ASSUME s \notin revived'
       PROVE  \/ before = <<>> /\ call.next = Jailbreak!NextState(Jailbreak!NoState, call.event, call.clock)
              \/ /\ s \in DOMAIN states \ revived /\ before = trajectory[s]
                 /\ call.next = Jailbreak!NextState(states[s], call.event, call.clock)
  <2>1. CASE s \in DOMAIN states \ gone
    <3>1. call.version > 0 /\ states[s].version = call.version
      BY <1>7, <2>1
    <3>2. lives'[s] = lives[s]
      BY <1>1, <1>4, <1>6, <2>1
    <3>3. s \notin revived /\ call.life = lives[s]
      BY <1>15, <2>1, <3>1, <3>2 DEF Written
    <3>4. call.next = Jailbreak!NextState(states[s], call.event, call.clock)
      BY <1>3, <3>1, <3>3
    <3> QED
      BY <1>8, <2>1, <3>3, <3>4
  <2>2. CASE s \notin DOMAIN states \ gone
    <3>1. before = <<>>
      BY <1>1, <1>4, <1>8, <2>2
    <3> QED
      BY <1>3, <1>7, <2>2, <3>1
  <2> QED
    BY <2>1, <2>2
<1>16. ASSUME s \notin revived'
       PROVE  /\ states'[s].turns = Jailbreak!Kept(trajectory'[s])
              /\ (\E i \in DOMAIN trajectory'[s] :
                     Campaign \subseteq Jailbreak!Parts(Jailbreak!Kept(SubSeq(trajectory'[s], 1, i))))
                  => states'[s].last_action = "block"
  <2> DEFINE after == Append(before, call.event)
             Made(turns) == Campaign \subseteq Jailbreak!Parts(Jailbreak!Kept(turns))
  <2>1. /\ after \in Seq(Events) /\ Len(after) = Len(before) + 1 /\ Len(before) \in Nat
        /\ \A i \in 1..Len(before) : SubSeq(after, 1, i) = SubSeq(before, 1, i)
        /\ SubSeq(after, 1, Len(before) + 1) = after
        /\ DOMAIN before = 1..Len(before) /\ DOMAIN after = 1..(Len(before) + 1)
    BY <1>3, <1>9
  <2>2. /\ call.next.turns = Jailbreak!Kept(after)
        /\ \/ call.next.last_action = Jailbreak!Action(Jailbreak!Kept(after), "allow") /\ before = <<>>
           \/ /\ call.next.last_action = Jailbreak!Action(Jailbreak!Kept(after), states[s].last_action)
              /\ s \in DOMAIN states \ revived /\ before = trajectory[s]
    <3>1. CASE before = <<>> /\ call.next = Jailbreak!NextState(Jailbreak!NoState, call.event, call.clock)
      <4>1. /\ call.next.turns = Jailbreak!Kept(Append(Jailbreak!NoState.turns, call.event))
            /\ call.next.last_action = Jailbreak!Action(
                  Jailbreak!Kept(Append(Jailbreak!NoState.turns, call.event)), Jailbreak!NoState.last_action)
        <5>1. PICK none : none = Jailbreak!NoState
          OBVIOUS
        <5>2. /\ none.version \in Nat /\ none.turns \in Seq(Events) /\ none.last_action \in {"allow", "block"}
              /\ call.next = Jailbreak!NextState(none, call.event, call.clock) /\ call.event \in Events
          BY <1>3, <3>1, <5>1, NoStateOK
        <5>3. /\ call.next.turns = Jailbreak!Kept(Append(none.turns, call.event))
              /\ call.next.last_action =
                    Jailbreak!Action(Jailbreak!Kept(Append(none.turns, call.event)), none.last_action)
          BY <5>2, NextOK
        <5> QED
          BY <5>1, <5>3
      <4> QED
        BY <3>1, <4>1, NoStateOK
    <3>2. CASE /\ s \in DOMAIN states \ revived /\ before = trajectory[s]
               /\ call.next = Jailbreak!NextState(states[s], call.event, call.clock)
      <4>1. StateOK(states[s])
        BY <1>1, <3>2
      <4>2. /\ call.next.turns = Jailbreak!Kept(Append(states[s].turns, call.event))
            /\ call.next.last_action = Jailbreak!Action(
                  Jailbreak!Kept(Append(states[s].turns, call.event)), states[s].last_action)
        BY <1>3, <3>2, <4>1, NextOK DEF StateOK
      <4>3. states[s].turns = Jailbreak!Kept(before)
        BY <3>2 DEF StoreInv, Jailbreak!TrajectoryKept
      <4>4. Jailbreak!Kept(Append(states[s].turns, call.event)) = Jailbreak!Kept(after)
        BY <1>3, <1>9, <4>3, KeptOfKept
      <4> QED
        BY <3>2, <4>2, <4>4
    <3> QED
      BY <1>15, <1>16, <3>1, <3>2
  <2>3. states'[s] = call.next /\ trajectory'[s] = after
    BY <1>5, <1>9
  <2> HIDE DEF after
  <2>4. ASSUME NEW i \in DOMAIN after, Made(SubSeq(after, 1, i)) PROVE call.next.last_action = "block"
    <3>1. CASE i = Len(before) + 1
      <4>1. Made(after)
        BY <2>1, <2>4, <3>1
      <4> QED
        BY <2>2, <4>1 DEF Jailbreak!Action, Jailbreak!Parts
    <3>2. CASE i # Len(before) + 1
      <4>1. i \in 1..Len(before)
        BY <2>1, <3>2
      <4>2. i \in DOMAIN before /\ Made(SubSeq(before, 1, i))
        BY <2>1, <2>4, <4>1
      <4>3. before # <<>>
        BY <4>2
      <4>4. /\ s \in DOMAIN states \ revived /\ before = trajectory[s]
            /\ call.next.last_action = Jailbreak!Action(Jailbreak!Kept(after), states[s].last_action)
        BY <2>2, <4>3
      <4>5. states[s].last_action = "block"
        BY <4>2, <4>4 DEF StoreInv, Jailbreak!BlockSticky
      <4> QED
        BY <4>4, <4>5 DEF Jailbreak!Action
    <3> QED
      BY <3>1, <3>2
  <2> QED
    BY <2>2, <2>3, <2>4
<1>17. \A x \in DOMAIN states' \ revived' : x # s =>
          x \in DOMAIN states \ revived /\ states'[x] = states[x] /\ trajectory'[x] = trajectory[x]
  BY <1>1, <1>5, <1>9 DEF Written
<1>18. Jailbreak!TrajectoryKept'
  <2>1. ASSUME NEW x \in DOMAIN states' \ revived' PROVE states'[x].turns = Jailbreak!Kept(trajectory'[x])
    <3>1. CASE x = s
      BY <1>16, <2>1, <3>1
    <3>2. CASE x # s
      <4>1. x \in DOMAIN states \ revived /\ states'[x] = states[x] /\ trajectory'[x] = trajectory[x]
        BY <1>17, <2>1, <3>2
      <4>2. states[x].turns = Jailbreak!Kept(trajectory[x])
        BY <4>1 DEF StoreInv, Jailbreak!TrajectoryKept
      <4> QED
        BY <4>1, <4>2
    <3> QED
      BY <3>1, <3>2
  <2> QED
    BY <2>1 DEF Jailbreak!TrajectoryKept
<1>19. Jailbreak!BlockSticky'
  <2>1. ASSUME NEW x \in DOMAIN states' \ revived', NEW i \in DOMAIN trajectory'[x],
               Campaign \subseteq Jailbreak!Parts(Jailbreak!Kept(SubSeq(trajectory'[x], 1, i)))
        PROVE  states'[x].last_action = "block"
    <3>1. CASE x = s
      BY <1>16, <2>1, <3>1
    <3>2. CASE x # s
      <4>1. x \in DOMAIN states \ revived /\ states'[x] = states[x] /\ trajectory'[x] = trajectory[x]
        BY <1>17, <2>1, <3>2
      <4>2. states[x].last_action = "block"
        BY <2>1, <4>1 DEF StoreInv, Jailbreak!BlockSticky
      <4> QED
        BY <4>1, <4>2
    <3> QED
      BY <3>1, <3>2
  <2> QED
    BY <2>1 DEF Jailbreak!BlockSticky
<1>20. \A x \in DOMAIN states' : StateOK(states[x])'
  BY <1>12 DEF StateOK
<1>21. lives' \in [Scopes -> Nat]
  BY <1>1 DEF Written
<1>22. StoreInv'
  BY <1>10, <1>11, <1>13, <1>14, <1>18, <1>19, <1>20, <1>21 DEF StoreInv
<1> QED
  BY <1>5, <1>6, <1>7, <1>22 DEF Replaced

\* Storing an evaluation keeps JailbreakInv, whether the store accepts it or not.
LEMMA JailbreakWrite ==
    ASSUME JailbreakInv, NEW t \in Clients, Jailbreak!AssessWrite(t)
    PROVE  JailbreakInv'
<1>1. PICK call, s, gone, left :
        /\ call = session_calls[t] /\ s = call.event.scope /\ gone = Jailbreak!Expired(call.clock)
        /\ left = Jailbreak!Without(gone)
  OBVIOUS
<1>2. /\ StoreInv /\ CallOK(session_calls[t]) /\ DOMAIN session_calls = Clients
      /\ \A u \in Clients : CallOK(session_calls[u])
  BY DEF JailbreakInv
<1>3. session_calls[t].op = "write"
  BY DEF Jailbreak!AssessWrite
<1>4. Pending(call)
  BY <1>1, <1>2, <1>3 DEF CallOK
<1>5. call.event \in Events
  BY <1>4 DEF Pending
<1>6. gone \in SUBSET DOMAIN states
  BY <1>1, ExpiredStored
<1>7. CASE /\ states' = left /\ Jailbreak!Ended(gone)
           /\ \/ session_calls' = [session_calls EXCEPT ![t] = [op |-> "idle"]]
              \/ session_calls' = [session_calls EXCEPT ![t] =
                    [op |-> "read", event |-> call.event, clock |-> call.clock, tries |-> call.tries - 1]]
  <2>1. PICK again : again =
          [op |-> "read", event |-> call.event, clock |-> call.clock, tries |-> call.tries - 1]
    OBVIOUS
  <2>2. again.op = "read" /\ again.event \in Events
    BY <1>5, <2>1
  <2>3. PICK idle : idle = [op |-> "idle"]
    OBVIOUS
  <2>4. CASE session_calls' = [session_calls EXCEPT ![t] = idle]
    BY <1>1, <1>6, <1>7, <2>3, <2>4, JailbreakRetries
  <2>5. CASE session_calls' = [session_calls EXCEPT ![t] = again]
    BY <1>1, <1>6, <1>7, <2>2, <2>5, JailbreakRetries
  <2> QED
    BY <1>7, <2>1, <2>3, <2>4, <2>5
<1>8. CASE /\ Jailbreak!Matches(s, call.version, left)
           /\ s \in DOMAIN left \/ ~(Cardinality(DOMAIN left) >= MaxSessions)
           /\ Written(call, s, gone, left)
           /\ session_calls' = [session_calls EXCEPT ![t] = [op |-> "idle"]]
  <2>1. s \in DOMAIN left \/ Cardinality(DOMAIN left) < MaxSessions
    <3>1. DOMAIN left \subseteq DOMAIN states
      BY <1>1 DEF Jailbreak!Without
    <3>2. IsFiniteSet(DOMAIN states)
      BY <1>2 DEF StoreInv
    <3>3. Cardinality(DOMAIN left) \in Nat /\ MaxSessions \in Nat
      BY <3>1, <3>2, FS_Subset, FS_CardinalityType, JailbreakAssumption
    <3> QED
      BY <1>8, <3>3
  <2>2. /\ StoreInv' /\ DOMAIN states' = (DOMAIN states \ gone) \cup {s}
        /\ \A x \in Scopes : lives'[x] \in Nat /\ lives'[x] = lives[x] + IF x \in gone THEN 1 ELSE 0
        /\ states'[s] = call.next /\ \A x \in DOMAIN states \ gone : x # s => states'[x] = states[x]
        /\ s \in DOMAIN states \ gone => states[s].version = call.version
        /\ s \notin DOMAIN states \ gone => call.version = 0
    <3>1. StoreInv' /\ Replaced(call, s, gone)
      BY <1>1, <1>2, <1>4, <1>6, <1>8, <2>1, StoreWritten
    <3> QED
      BY <3>1 DEF Replaced
  <2>3. ASSUME NEW u \in Clients, u # t PROVE CallOK(session_calls[u])'
    <3>1. PICK other : other = session_calls[u]
      OBVIOUS
    <3>2. CallOK(other) /\ session_calls'[u] = other
      BY <1>2, <1>8, <2>3, <3>1
    <3>3. CASE ~Pending(other)
      BY <3>1, <3>2, <3>3 DEF CallOK
    <3>4. CASE Pending(other)
      <4>1. PICK x : x = other.event.scope
        OBVIOUS
      <4>2. /\ other.op = "write" /\ other.event \in Events /\ other.version \in Nat
            /\ other.life \in Nat /\ other.life <= lives[x]
            /\ StateOK(other.next) /\ other.next.version = other.version + 1
            /\ other.version = 0 => other.next = Jailbreak!NextState(Jailbreak!NoState, other.event, other.clock)
            /\ other.version > 0 /\ other.life = lives[x] =>
                  /\ x \in DOMAIN states /\ other.version <= states[x].version
                  /\ other.version = states[x].version =>
                        other.next = Jailbreak!NextState(states[x], other.event, other.clock)
        BY <3>4, <4>1 DEF Pending
      <4>3. x \in Scopes
        BY <4>1, <4>2, JailbreakAssumption
      <4>4. lives[x] \in Nat /\ lives'[x] \in Nat /\ lives'[x] = lives[x] + IF x \in gone THEN 1 ELSE 0
        BY <1>2, <2>2, <4>3 DEF StoreInv
      <4>5. other.life <= lives'[x]
        BY <4>2, <4>4
      <4>6. ASSUME other.version > 0, other.life = lives'[x]
            PROVE  /\ x \in DOMAIN states' /\ other.version <= states'[x].version
                   /\ other.version = states'[x].version =>
                        other.next = Jailbreak!NextState(states'[x], other.event, other.clock)
        <5>1. x \notin gone /\ other.life = lives[x]
          BY <4>2, <4>4, <4>6
        <5>2. x \in DOMAIN states \ gone /\ other.version <= states[x].version
          BY <4>2, <4>6, <5>1
        <5>3. CASE x = s
          <6>1. states'[x].version = call.version + 1 /\ states[x].version = call.version /\ call.version \in Nat
            BY <1>4, <2>2, <5>2, <5>3 DEF Pending
          <6> QED
            BY <2>2, <4>2, <5>2, <6>1
        <5>4. CASE x # s
          BY <2>2, <4>2, <4>6, <5>1, <5>2, <5>4
        <5> QED
          BY <5>3, <5>4
      <4>7. Pending(other)'
        BY <4>1, <4>2, <4>5, <4>6 DEF Pending, StateOK
      <4> QED
        BY <3>2, <4>7 DEF CallOK, Pending, StateOK
    <3> QED
      BY <3>3, <3>4
  <2>4. CallOK(session_calls[t])'
    BY <1>2, <1>8 DEF CallOK
  <2>5. DOMAIN session_calls' = Clients
    BY <1>2, <1>8
  <2> QED
    BY <2>2, <2>3, <2>4, <2>5 DEF JailbreakInv
<1> QED
  BY <1>1, <1>7, <1>8 DEF Written, Jailbreak!AssessWrite, Jailbreak!Goto, Jailbreak!Idle, Jailbreak!Cardinality, Cardinality

\* The application discards a conversation (reset_session).
LEMMA JailbreakReset ==
    ASSUME JailbreakInv, NEW s \in Scopes, Jailbreak!Reset(s)
    PROVE  JailbreakInv'
<1>1. /\ s \in DOMAIN states /\ states' = Jailbreak!Without({s}) /\ Jailbreak!Ended({s})
      /\ session_calls' = session_calls
  BY DEF Jailbreak!Reset
<1>2. StoreInv /\ DOMAIN session_calls = Clients /\ \A u \in Clients : CallOK(session_calls[u])
  BY DEF JailbreakInv
<1>3. PICK gone : gone = {s} /\ gone \in SUBSET DOMAIN states
  BY <1>1
<1>4. /\ StoreInv' /\ DOMAIN states' = DOMAIN states \ gone
      /\ \A x \in DOMAIN states \ gone : states'[x] = states[x] /\ lives'[x] = lives[x]
      /\ \A x \in gone : lives'[x] = lives[x] + 1
      /\ \A x \in Scopes : lives[x] <= lives'[x] /\ lives'[x] \in Nat
  BY <1>1, <1>2, <1>3, StoreEnds
<1>5. (\A x \in Scopes : lives[x] \in Nat) /\ DOMAIN states \subseteq Scopes
  BY <1>2 DEF StoreInv
<1>6. \A x \in DOMAIN states : lives'[x] = lives[x] => x \in DOMAIN states' /\ states'[x] = states[x]
  BY <1>4, <1>5
<1>7. ASSUME NEW u \in Clients PROVE CallOK(session_calls[u])'
  <2>1. PICK other : other = session_calls[u]
    OBVIOUS
  <2>2. CallOK(other)'
    BY <1>2, <1>4, <1>5, <1>6, <2>1, CallStands
  <2> QED
    BY <1>1, <2>1, <2>2 DEF CallOK, Pending, StateOK
<1> QED
  BY <1>1, <1>2, <1>4, <1>7 DEF JailbreakInv

\* What leaves the campaigns alone keeps JailbreakInv.
LEMMA JailbreakRests ==
    ASSUME JailbreakInv, UNCHANGED <<states, session_calls, trajectory, lives, revived>>
    PROVE  JailbreakInv'
<1>1. StoreInv'
  BY StoreRests DEF JailbreakInv
<1>2. ASSUME NEW u \in Clients PROVE CallOK(session_calls[u])'
  <2>1. CallOK(session_calls[u])
    BY DEF JailbreakInv
  <2> QED
    BY <2>1 DEF CallOK, Pending, StateOK
<1> QED
  BY <1>1, <1>2 DEF JailbreakInv

\* Every operation of the tracker keeps JailbreakInv.
LEMMA JailbreakStep ==
    ASSUME JailbreakInv, [Jailbreak!Next]_campaign
    PROVE  JailbreakInv'
<1>1. CASE UNCHANGED campaign
  BY <1>1, JailbreakRests DEF campaign
<1>2. CASE Jailbreak!Next
  <2>1. CASE Jailbreak!Tick
    BY <2>1, JailbreakRests DEF Jailbreak!Tick
  <2> QED
    BY <1>2, <2>1, JailbreakBegin, JailbreakRead, JailbreakWrite, JailbreakReset DEF Jailbreak!Next
<1> QED
  BY <1>1, <1>2

\* JailbreakInv has the types, the trajectories and the blocks.
LEMMA JailbreakSafe ==
    ASSUME JailbreakInv
    PROVE  Jailbreak!TypeOK /\ Jailbreak!TrajectoryKept /\ Jailbreak!BlockSticky
<1>1. /\ DOMAIN states \subseteq Scopes /\ Cardinality(DOMAIN states) <= MaxSessions
      /\ \A s \in DOMAIN states : StateOK(states[s])
      /\ revived \subseteq DOMAIN states
  BY DEF JailbreakInv, StoreInv
<1>2. \A t \in Clients : session_calls[t].op \in {"idle", "read", "write"}
  BY DEF JailbreakInv, CallOK, Pending
<1>3. Jailbreak!TypeOK
  BY <1>1, <1>2 DEF StateOK, Jailbreak!TypeOK, Jailbreak!Cardinality, Cardinality
<1> QED
  BY <1>3 DEF JailbreakInv, StoreInv

-----------------------------------------------------------------------------
(* The components together *)

\* While the others take their steps, a component rests.
LEMMA LifecycleRests == LifecycleInv /\ UNCHANGED lifecycle => LifecycleInv'
BY DEF lifecycle, LifecycleInv, RecordsOK, CopiesOK, RunOK, Heirs, Deleting, RunType,
       Lifecycle!Registered, Lifecycle!Propagated, Lifecycle!Ancestors, Lifecycle!AllCopies

\* Connectors that rest keep their invariant.
LEMMA IngestionRests == IngestionInv /\ UNCHANGED ingestion => IngestionInv'
BY DEF ingestion, IngestionInv, Ingestion!QuarantineClosed, Ingestion!RejectedSyncUnusable,
       Ingestion!Usable, Ingestion!OfSync

\* The same for the obligations.
LEMMA ObligationsRests == ObligationsInv /\ UNCHANGED labelled => ObligationsInv'
BY DEF ObligationsInv, Obligations!Registered

\* The same for the labels.
LEMMA LabelsRests == LabelsInv /\ UNCHANGED label => LabelsInv'
BY DEF label, LabelsInv, LabelOK, OneTenant, PermitOK, Labelled!Policy, Labelled!Strictest,
       Labelled!Conforms, Labelled!Common, Labelled!Usable

\* The same for sensitive flows.
LEMMA FlowRests == FlowInv /\ UNCHANGED flow => FlowInv'
<1> SUFFICES ASSUME FlowInv, UNCHANGED flow PROVE FlowInv'
  OBVIOUS
<1>1. flows' = flows /\ grants' = grants /\ transfer' = transfer /\ flow_now' = flow_now
  BY DEF flow
<1>2. ASSUME NEW i \in DOMAIN flows
      PROVE  FlowOK(flows[i], i)'
  <2>1. FlowOK(flows[i], i)
    BY DEF FlowInv
  <2>2. Propagates(flows[i])' <=> Propagates(flows[i])
    BY <1>1 DEF Propagates, Flow!Joined, Flow!GrantsOf, Flow!Policy, Flow!Common
  <2>3. /\ Flow!Lineage(flows[i].sources)' = Flow!Lineage(flows[i].sources)
        /\ Flow!Depth(flows[i].sources)' = Flow!Depth(flows[i].sources)
    BY <1>1 DEF Flow!Lineage, Flow!Depth
  <2>4. Widens(flows[i])' <=> Widens(flows[i])
    BY <1>1 DEF Widens
  <2>5. \A j : Restrained(flows[i], j)' <=> Restrained(flows[i], j)
    BY <1>1 DEF Restrained, Flow!Lifts
  <2>6. \A g : Granted(flows[i], g)' <=> Granted(flows[i], g)
    BY <1>1 DEF Granted
  <2> QED
    BY <1>1, <2>1, <2>2, <2>3, <2>4, <2>5, <2>6 DEF FlowOK
<1>3. \A g \in DOMAIN grants : GrantOK(g)'
  BY <1>1 DEF FlowInv, GrantOK
<1>4. (transfer # Flow!NoPermit => TransferOK)'
  BY <1>1 DEF FlowInv, TransferOK, Flow!NoPermit
<1> QED
  BY <1>1, <1>2, <1>3, <1>4 DEF FlowInv

\* And its bounds stay.
LEMMA BoundsRest ==
    /\ VersionsBounded /\ UNCHANGED lifecycle => VersionsBounded'
    /\ IngestionBounded /\ UNCHANGED ingestion => IngestionBounded'
    /\ RecordsBounded /\ UNCHANGED labelled => RecordsBounded'
    /\ LabelsBounded /\ UNCHANGED label => LabelsBounded'
    /\ FlowBounded /\ UNCHANGED flow => FlowBounded'
<1>1. VersionsBounded /\ UNCHANGED lifecycle => VersionsBounded'
  BY DEF lifecycle, VersionsBounded, Finalizing
<1>2. IngestionBounded /\ UNCHANGED ingestion => IngestionBounded'
  BY DEF ingestion, IngestionBounded, Ingestion!TypeOK, Ingestion!Artifacts
<1>3. RecordsBounded /\ UNCHANGED labelled => RecordsBounded'
  BY DEF RecordsBounded, Obligations!Registered, Obligations!NoRecord, Obligations!RecordType,
         Obligations!LabelsType, Obligations!Classes, Obligations!ConsentRank
<1>4. LabelsBounded /\ UNCHANGED label => LabelsBounded'
  BY DEF label, LabelsBounded
<1>5. FlowBounded /\ UNCHANGED flow => FlowBounded'
  BY DEF flow, FlowBounded
<1> QED
  BY <1>1, <1>2, <1>3, <1>4, <1>5

\* Checks of the guard are well formed.
ASSUME GuardAssumption == Guard!WellFormed /\ MaxConcurrency \in Nat

\* What the guard needs: its types, and its invariant when it fails closed.
GuardInv == Guard!TypeInv /\ (GuardFailClosed => Guard!IInv)

\* A guard that has not begun keeps its invariants.
LEMMA GuardInit == Guard!Init => GuardInv
BY GuardAssumption, Guard!TypeInit, Guard!Initially DEF GuardInv

\* Every step of the guard keeps both its invariants.
LEMMA GuardStep == GuardInv /\ [Guard!Next]_guard => GuardInv'
<1> SUFFICES ASSUME GuardInv, [Guard!Next]_guard PROVE GuardInv'
  OBVIOUS
<1>1. [Guard!Next]_(Guard!vars)
  BY DEF guard, Guard!vars
<1>2. Guard!TypeInv'
  BY <1>1, GuardAssumption, Guard!TypeKeeps DEF GuardInv
<1>3. GuardFailClosed => Guard!IInv'
  BY <1>1, GuardAssumption, Guard!NextKeeps DEF GuardInv
<1> QED
  BY <1>2, <1>3 DEF GuardInv

\* The tasks of the session that takes the steps, and what they have done.
SessionsInv ==
    /\ component = "alone" => SessionInv(Single)
    /\ component # "alone" => SessionInv(Shared)

\* What every component needs: none of them touches the state of another.
InformationInv ==
    /\ IInv /\ LifecycleInv /\ VersionsBounded /\ IngestionInv /\ IngestionBounded
    /\ ObligationsInv /\ RecordsBounded /\ LabelsInv /\ LabelsBounded /\ FlowInv /\ FlowBounded
    /\ GuardInv /\ SessionsInv /\ StructuredInv /\ JailbreakInv

\* The components start in the invariant, whichever takes the steps.
LEMMA InformationStarts == InformationInit => InformationInv
<1> SUFFICES ASSUME InformationInit PROVE InformationInv
  OBVIOUS
<1>1. /\ IInv /\ LifecycleInv /\ VersionsBounded /\ IngestionInv /\ IngestionBounded
      /\ ObligationsInv /\ RecordsBounded /\ LabelsInv /\ LabelsBounded /\ FlowInv /\ FlowBounded
  BY Initially, LifecycleInit, VersionsBoundedInit, IngestionInit, IngestionBoundedInit, ObligationsInit,
     RecordsBoundedInit, LabelsInit, LabelsBoundedInit, FlowInit, FlowBoundedInit DEF InformationInit
<1>2. SessionsInv
  BY SessionInit, SessionsAssumption DEF InformationInit, SessionsInv
<1>3. GuardInv /\ StructuredInv /\ JailbreakInv
  BY GuardInit, StructuredInit, JailbreakInit DEF InformationInit
<1> QED
  BY <1>1, <1>2, <1>3 DEF InformationInv

\* A step is one of a component, or leaves it as it is.
LEMMA InformationMoves ==
    ASSUME [InformationNext]_<<component, deriving, releasing>>
    PROVE  /\ [Next]_vars /\ [Lifecycle!Next]_lifecycle /\ [Ingestion!Next]_ingestion
           /\ [Obligations!Next]_labelled /\ [Labelled!Next]_label /\ [Flow!Next]_flow
           /\ [Guard!Next]_guard /\ [Structured!Next]_structured /\ [Jailbreak!Next]_campaign
           /\ component' = component
           /\ component = "alone" => [Limits(Single)!Next]_agent
           /\ component # "alone" => [Limits(Shared)!Next]_agent
<1>1. component' = component
  BY DEF InformationNext
<1>2. \/ DerivingNext /\ UNCHANGED releasing
      \/ ReleasingNext /\ UNCHANGED deriving
      \/ UNCHANGED <<deriving, releasing>>
  BY DEF InformationNext
<1>3. /\ [Next]_vars /\ [Lifecycle!Next]_lifecycle /\ [Ingestion!Next]_ingestion
      /\ [Obligations!Next]_labelled /\ [Labelled!Next]_label /\ [Flow!Next]_flow
  <2>1. CASE DerivingNext
    BY <2>1 DEF DerivingNext
  <2>2. CASE UNCHANGED deriving
    BY <2>2 DEF deriving
  <2> QED
    BY <1>2, <2>1, <2>2
<1>4. /\ [Guard!Next]_guard /\ [Structured!Next]_structured /\ [Jailbreak!Next]_campaign
      /\ component = "alone" => [Limits(Single)!Next]_agent
      /\ component # "alone" => [Limits(Shared)!Next]_agent
  <2>1. CASE ReleasingNext
    BY <2>1 DEF ReleasingNext
  <2>2. CASE UNCHANGED releasing
    BY <2>2 DEF releasing
  <2> QED
    BY <1>2, <2>1, <2>2
<1> QED
  BY <1>1, <1>3, <1>4

\* The session stays the same one.
LEMMA SessionsStep ==
    ASSUME SessionsInv, component' = component,
           component = "alone" => [Limits(Single)!Next]_agent,
           component # "alone" => [Limits(Shared)!Next]_agent
    PROVE  SessionsInv'
<1>1. CASE component = "alone"
  <2>1. SessionInv(Single) /\ [Limits(Single)!Next]_agent
    BY <1>1 DEF SessionsInv
  <2>2. SessionInv(Single)'
    BY <2>1, SessionStep, SessionsAssumption
  <2> QED
    BY <1>1, <2>2 DEF SessionsInv
<1>2. CASE component # "alone"
  <2>1. SessionInv(Shared) /\ [Limits(Shared)!Next]_agent
    BY <1>2 DEF SessionsInv
  <2>2. SessionInv(Shared)'
    BY <2>1, SessionStep, SessionsAssumption
  <2> QED
    BY <1>2, <2>2 DEF SessionsInv
<1> QED
  BY <1>1, <1>2

\* InformationInv is an inductive invariant of the components together.
THEOREM InformationInductive == InformationSpec => []InformationInv
<1>1. InformationInv /\ [InformationNext]_<<component, deriving, releasing>> => InformationInv'
  <2> SUFFICES ASSUME InformationInv, [InformationNext]_<<component, deriving, releasing>>
               PROVE  InformationInv'
    OBVIOUS
  <2>1. /\ [Next]_vars /\ [Lifecycle!Next]_lifecycle /\ [Ingestion!Next]_ingestion
        /\ [Obligations!Next]_labelled /\ [Labelled!Next]_label /\ [Flow!Next]_flow
        /\ [Guard!Next]_guard /\ [Structured!Next]_structured /\ [Jailbreak!Next]_campaign
        /\ component' = component
        /\ component = "alone" => [Limits(Single)!Next]_agent
        /\ component # "alone" => [Limits(Shared)!Next]_agent
    BY InformationMoves
  <2>2. IInv' /\ LifecycleInv' /\ IngestionInv' /\ ObligationsInv' /\ LabelsInv' /\ FlowInv'
    BY <2>1, Steps, LifecycleStep, LifecycleRests, IngestionStep, IngestionRests,
       ObligationsStep, ObligationsRests, LabelsStep, LabelsRests, FlowStep, FlowRests
    DEF InformationInv
  <2>3. VersionsBounded' /\ IngestionBounded' /\ RecordsBounded' /\ LabelsBounded' /\ FlowBounded'
    BY <2>1, VersionsBoundedStep, IngestionBoundedStep, RecordsBoundedStep, LabelsBoundedStep,
       FlowBoundedStep, BoundsRest DEF InformationInv
  <2>4. GuardInv' /\ SessionsInv' /\ StructuredInv' /\ JailbreakInv'
    BY <2>1, GuardStep, SessionsStep, StructuredStep, JailbreakStep DEF InformationInv
  <2> QED
    BY <2>2, <2>3, <2>4 DEF InformationInv
<1> QED
  BY <1>1, InformationStarts, PTL DEF InformationSpec

\* Every component keeps its state well formed and within its bounds, whatever it is given.
THEOREM InformationTypes == InformationSpec => []TypesOK
<1>1. InformationInv => TypesOK
  <2> SUFFICES ASSUME InformationInv PROVE TypesOK
    OBVIOUS
  <2>1. TypeOK /\ Lifecycle!TypeOK /\ Ingestion!TypeOK /\ Obligations!TypeOK
    BY LifecycleTyped, RecordsTyped DEF InformationInv, IInv, IngestionBounded
  <2>2. Labelled!TypeOK /\ Flow!TypeOK /\ Guard!TypeOK
    BY LabelsTyped, FlowsTyped, Guard!TypeFollows DEF InformationInv, GuardInv
  <2>3. component = "agent" => Limits(Shared)!TypeOK
    BY SessionSafe, SessionsAssumption DEF InformationInv, SessionsInv
  <2>4. component = "alone" => Limits(Single)!TypeOK
    BY SessionSafe, SessionsAssumption DEF InformationInv, SessionsInv
  <2>5. Structured!TypeOK /\ Jailbreak!TypeOK
    BY StructuredSafe, JailbreakSafe DEF InformationInv
  <2> QED
    BY <2>1, <2>2, <2>3, <2>4, <2>5 DEF TypesOK
<1> QED
  BY <1>1, InformationInductive, PTL

\* Nothing that derives from a quarantined memory is trusted; a deletion leaves none of what derives
\* from what it deletes in use, and what was verified is gone; nothing of a rejected
\* synchronization is usable and quarantines reach what was derived, in any order of plans,
\* registrations and verdicts.
THEOREM InformationReaches == InformationSpec => []ReachesDerived
<1>1. InformationInv => ReachesDerived
  <2> SUFFICES ASSUME InformationInv PROVE ReachesDerived
    OBVIOUS
  <2>1. LineageSafe
    BY AncestorsSafe DEF InformationInv
  <2>2. Lifecycle!VerifiedIsGone /\ Lifecycle!CascadeUnavailable
    BY LifecycleSafe DEF InformationInv
  <2>3. Ingestion!RejectedSyncUnusable /\ Ingestion!QuarantineClosed
    BY DEF InformationInv, IngestionInv
  <2> QED
    BY <2>1, <2>2, <2>3 DEF ReachesDerived
<1> QED
  BY <1>1, InformationInductive, PTL

\* Restrictions, purposes, subjects and deadlines of every origin bind what is derived from it,
\* through any number of derivations and merges.
THEOREM InformationRestricts == InformationSpec => []RestrictionsKept
<1>1. InformationInv => RestrictionsKept
  BY LifecycleSafe, ObligationsSafe DEF InformationInv, RestrictionsKept
<1> QED
  BY <1>1, InformationInductive, PTL

\* Nothing is lost over several derivations, and what was labelled by the rules is accepted, for
\* any policies, dimensions and destinations.
THEOREM InformationLabels == InformationSpec => []LabelsKept
<1>1. InformationInv => LabelsKept
  BY LabelsSafe, FlowSafe DEF InformationInv, LabelsKept
<1> QED
  BY <1>1, InformationInductive, PTL

\* Whatever checks a guard that fails closed has and however they end, what it releases passed
\* all of them; and what a host uses is the value that was validated, for the use it was bound to.
THEOREM InformationReleases == InformationSpec => []ReleasedAsChecked
<1>1. InformationInv => ReleasedAsChecked
  BY Guard!FollowsFromIInv, StructuredSafe DEF InformationInv, GuardInv, ReleasedAsChecked
<1> QED
  BY <1>1, InformationInductive, PTL

\* Tasks of a session, however they interleave, stay within its steps, tool calls and tokens, a
\* single one within its rate; repairs end, and conversations keep what they said and their blocks.
THEOREM InformationLimits == InformationSpec => []LimitsKept
<1>1. InformationInv => LimitsKept
  <2> SUFFICES ASSUME InformationInv PROVE LimitsKept
    OBVIOUS
  <2>1. component = "alone" => Limits(Single)!WithinSessionLimits /\ Limits(Single)!RateHeld
    BY SessionSafe, SessionsAssumption DEF InformationInv, SessionsInv
  <2>2. component = "agent" => Limits(Shared)!WithinSessionLimits /\ Limits(Shared)!TokensWithinBudget
    BY SessionSafe, SessionsAssumption DEF InformationInv, SessionsInv
  <2>3. Structured!RepairBounded /\ Jailbreak!TrajectoryKept /\ Jailbreak!BlockSticky
    BY StructuredSafe, JailbreakSafe DEF InformationInv
  <2> QED
    BY <2>1, <2>2, <2>3 DEF LimitsKept
<1> QED
  BY <1>1, InformationInductive, PTL

-----------------------------------------------------------------------------
(* Values for model checking *)

\* A chain of four memories, the ends of which need the approval of somebody.
Proposal(from, declared, detected) ==
    [parents |-> from, declared |-> declared, detected |-> detected, persistent |-> {}]

SomeProposals ==
    [m1 |-> Proposal({}, {}, {}), m2 |-> Proposal({"m1"}, {}, {}),
     m3 |-> Proposal({"m2"}, {}, {"privileged"}), m4 |-> Proposal({"m3"}, {"privileged"}, {})]

Somebody == [id : {1}, memory : {"m3", "m4"}]

\* Two generations of derived data, one artifact that forgets a restriction.
SomeSources == [a |-> {}, b |-> {"a"}, c |-> {"b"}, e |-> {"a", "c"}]

SomeRestrictions == [a |-> {"train"}, b |-> {"train"}, c |-> {"train", "export"}, e |-> {"train"}]

SomeLocations == [a |-> {"l1", "l2"}, b |-> {}, c |-> {"l3"}, e |-> {}]

\* Derivations of two levels.
\* A synchronization that is authorized twice.
SomeSyncs == [g1 |-> "s1", g2 |-> "s1", g3 |-> "s2"]

SomeUpstream == [x |-> {"d1"}, y |-> {"x", "d2"}]

\* A merge of two artifacts and what derives from it, labels that differ in everything but place.
SomeDatasets == {"a", "b", "c", "d"}

SomeDatasetSources == [a |-> {}, b |-> {}, c |-> {"a", "b"}, d |-> {"c"}]

AtTheStart == [a \in SomeDatasets |-> 0]

InEurope == [a \in SomeDatasets |-> {"eu"}]

SomeDatasetLabels ==
    [classification : {1, 2}, purposes : {{"p"}, {"p", "q"}}, residencies : {{"eu"}},
     retention : {1, 2}, consent : {"granted", "denied"}, holds : {{}}, subjects : {{}, {"s"}}]

SomeRetention == [class \in 0..3 |-> 3 - class \div 2]

\* A label that may be logged anywhere and one that is encrypted and kept for a shorter time.
SomeLabelValues == [purpose |-> {"p1", "p2"}, destination |-> {"d1"}]

Public ==
    [tenant |-> "A", class |-> 0, allowed |-> SomeLabelValues, handling |-> {}, until |-> 2]

Secret ==
    [tenant |-> "A", class |-> 1, allowed |-> [SomeLabelValues EXCEPT !.purpose = {"p1"}],
     handling |-> {"encrypt"}, until |-> 1]

SomeLabels == {Public, Secret, [Public EXCEPT !.tenant = "B"]}

SomeRelabellings == {[Secret EXCEPT !.handling = {}], Secret}

SomeDestinations == [tenant : {"A"}, supported : {{0, 1}}, enforced : {{}, {"encrypt"}}]

\* Data of one user that may go to the model only, and a grant for the net.
SomeFlowValues == [purpose |-> {"p1"}, sink |-> {"model", "net"}]

Personal(sinks, until) ==
    [owner |-> "u1", class |-> 1, allowed |-> [purpose |-> {"p1"}, sink |-> sinks], until |-> until]

SomePolicies == {Personal({"model", "net"}, 2), Personal({"model"}, 1)}

SomeWidenings == {[Personal({"model", "net"}, 2) EXCEPT !.class = 0]}

\* A guard whose rules redact, ask for approval and warn, whose transformers decode what may
\* hide an injection and redact personal data, and which has four independent checks of which
\* two run at a time: one blocks, a provider and a rule want to redact, and another provider may
\* fail.  A submission holds at most three items that a check looks for.
Check(item, action, score, sensitive, replaces, reveals, closed) ==
    [item |-> item, action |-> action, score |-> score, sensitive |-> sensitive,
     replaces |-> replaces, reveals |-> reveals, closed |-> closed, provider |-> FALSE]

Provider(item, action, score, closed) ==
    [Check(item, action, score, FALSE, FALSE, {}, closed) EXCEPT !.provider = TRUE]

SomeSubmissions ==
    {items \in SUBSET {"size", "secret", "lasting", "odd", "wrapped", "person", "injection", "tone"} :
        Cardinality(items) <= 3}

SomeRules == <<Check("size", "BLOCK", 15, FALSE, FALSE, {}, TRUE),
               Check("secret", "BLOCK", 30, TRUE, TRUE, {}, TRUE),
               Check("lasting", "REQUIRE_APPROVAL", 0, FALSE, FALSE, {}, TRUE),
               Check("odd", "ALLOW", 15, FALSE, FALSE, {}, FALSE)>>

SomeTransformers == <<Check("wrapped", "TRANSFORM", 5, FALSE, TRUE, {"injection"}, TRUE),
                      Check("person", "REDACT", 15, TRUE, TRUE, {}, TRUE)>>

SomeDetectors == <<Check("injection", "BLOCK", 30, FALSE, FALSE, {}, TRUE),
                   Provider("tone", "REDACT", 15, TRUE),
                   Check("odd", "REDACT", 30, FALSE, FALSE, {}, TRUE),
                   Provider("lasting", "QUARANTINE", 15, FALSE)>>

\* Patterns of two symbols and one of a single symbol.
Pattern(text, action, score) == [pattern |-> text, action |-> action, score |-> score]

SomePatterns == <<Pattern(<<"a", "b">>, "REDACT", 15), Pattern(<<"b", "c">>, "BLOCK", 30),
                  Pattern(<<"c">>, "WARN", 30), Pattern(<<"a", "c">>, "REQUIRE_APPROVAL", 0)>>

\* Two tasks, and one with time for the window of the rate rule to pass.
TwoTasks ==
    [tasks |-> {"t1", "t2"}, steps |-> 2, tools |-> 1, depth |-> 0, duration |-> 1, tokens |-> 3,
     sizes |-> {1, 2}, requests |-> 1, window |-> 1, checks |-> 3, ends |-> 1]

OneTask ==
    [tasks |-> {"t1"}, steps |-> 3, tools |-> 1, depth |-> 0, duration |-> 9, tokens |-> 9,
     sizes |-> {1}, requests |-> 1, window |-> 1, checks |-> 3, ends |-> 3]

Response(value, parses, fits, agrees) ==
    [value |-> value, parses |-> parses, fits |-> fits, agrees |-> agrees]

SomeResponses == {Response("v1", TRUE, TRUE, TRUE), Response("v2", TRUE, FALSE, TRUE),
                  Response("v2", TRUE, TRUE, FALSE)}

\* A conversation longer than its window, and one that finds no room.
Turn(scope, sequence, part) == [scope |-> scope, sequence |-> sequence, part |-> part]

SomeTurns == {Turn("c1", 0, "a"), Turn("c1", 0, "b"), Turn("c1", 1, "b"), Turn("c1", 2, "c"),
              Turn("c1", 3, "a"), Turn("c2", 0, "a")}
=============================================================================
