# A TLA+ development for trustrail

trustrail is a Python library of guardrails around language models and agents.
Most of its rules are stateless text matching.  Its core, and what is hard to
test, are objects that many clients share: they hand out single-use authority
(leases, permits, capabilities, grants), count what was used, accept signed
records, follow data to what derives from it, and must stay correct when
clients interleave, vanish, retry or report late.  This directory models them
in TLA+, checks them with TLC, and proves the central results with TLAPS.

Paths below are relative to `src/src/trustrail/`.

## 1. Inventory

| Component | State | Operations | What is hard |
|---|---|---|---|
| Consumption budgets (`resource.py`) | leases, counters per principal and tenant, sessions, sliding windows, seen reservation ids | `reserve`, `complete`, `cancel`, the purge inside `reserve` | clients that vanish, purge against live leases, edges of windows, replay |
| State backends, limiter (`state/backends.py`) | values with expiry, in process or on a Redis server | `get`, `set`, `increment`, `delete`, `clear`, `check`, `reset` | expiry at the boundary, eviction; messages lost, late, sent twice; fail-open |
| Failure containment (`failure_containment.py`) | permits, circuits, attempts, idempotency keys, used reports | `authorize`, `record_outcome` | late and missing reports, half-open probes, retries over fallbacks |
| Credential broker (`credentials.py`) | capability store, vault versions, revocations | `issue`, `resolve`, `revoke`, `rotate` | rotation between issue and resolve, single use |
| Tool authorization (`agency.py`) | active calls, budgets, chains, flows, approvals | `authorize`, `complete`, `verify_completion` | limits over overlapping calls, order of a chain |
| Privileged access (`privileged_access.py`) | grants | issue, execute, revoke | identity and risk that change meanwhile |
| High-impact approvals (`high_impact_approval.py`) | prompt windows, used nonces | `prepare`, `authorize` | single use, prompt fatigue, late verifier |
| Delegated identity (`delegated_identity.py`) | revocations, used elevations | `authorize`, revoke | narrowing over links, revocation under way |
| Inter-agent messages (`inter_agent.py`) | replay window, stream positions | `sign`, `verify` | reordering, replay, eviction of nonces |
| Workflow integrity (`workflow_integrity.py`) | resume claims, revocations, chains | sign, `verify_resume` | double resume, forked histories, old checkpoints |
| Memory taint (`memory.py`) | records, pending writes, quarantine | two-phase write, retrieve, quarantine, revalidate | taint that arrives between authorize and commit |
| Goals, rogue agents, campaigns (`goal_integrity.py`, `rogue_agent.py`, `jailbreak_campaign.py`) | revisions, stop and recovery, scores of a conversation | several | compare-and-set, eviction, what remains after a stop |
| Tool manifests (`tool_manifest.py`) | authorizations that are out | discover, approve, dispatch, output | records of different ages |
| MCP (`mcp*.py`) | consents, tokens, nonces, used approvals, snapshots | several | servers that change, rebound names, replay |
| Code execution, workloads (`code_execution.py`, `workload_isolation.py`) | used attestations, leases | authorize, complete, release, teardown | evidence used twice, late runs |
| Tenants, browser (`tenant_isolation.py`, `browser_isolation.py`) | claims of storage keys, sessions, used approvals | several | collisions, swapped values, late approvals |
| Guard (`guard.py`) | one evaluation | `check`, `acheck`, `authorize_memory_write` | checks that raise or never return, redaction, merging |
| Streaming scanner (`streaming/scanner.py`) | buffer, risk, what was passed on | `feed` | patterns across chunks |
| Agent session (`agents/session.py`, `rules/resource/limits.py`) | counters, request log | step, tool call, rules | tasks that share a session, threads without a lock |
| Structured output (`structured_output.py`) | bindings, attempts | validate, use, repair | values changed after validation |
| Labels and sensitive flow (`data_labels.py`, `sensitive_data_flow.py`) | signed labels and grants | label, propagate, transfer | several derivations in a row |
| Ingestion and lifecycle (`ingestion_connector.py`, `data_lifecycle.py`) | lineage, quarantine, artifacts, deletions | several | stores that fail halfway, derivations under way |
| Detection rules | none but two that remember a session | pattern matching | - |
| Content validators, audit, observability, integrations, CLI | none of their own | pure functions, I/O | - |

**Interaction.**  The guard calls rules and providers; every other component is
called by the application before and after a dangerous step.  They do not call
one another, but for the limiter, which calls its backend.  The application's
hooks, verifiers, vaults and stores are called back in the middle of
operations, and what happens in the meantime is where most of the hazards are.
Components that run under asyncio hold one `asyncio.Lock` over a body without
further awaits, those that run under threads one `threading.Lock`; where a whole
call lies under one lock it is one action, and where a clock is read, a hook
called or a second lock taken outside of it, the call is cut into as many
actions as there are such gaps.

**Correctness, by component.**  A budget's counters equal the work under way, and
no limit is passed or left over; a limiter's count is exact in its window; an
effect happens once per idempotency key, an open circuit dispatches nothing and
recovers through one probe; what was granted for one use is used once and not
after its revocation; what acts is what was reviewed; what is accepted was signed
and is accepted once; taint, restrictions and deletions reach what derives; what
the guard or the scanner lets out is what was checked, and a failed check blocks.

`PROJECT.json` lists the hazards at their lines with the properties about them.

## 2. Modules

Every component module begins with a comment that says what it models, where its
calls are cut into steps, and what it abstracts.  In all of them digests and
signatures are ideal (a record is known by its position, or is "genuine or not"),
text is a set or a short sequence of symbols, and audit events, wording and
logging are left out, but for `StructuredOutput`, whose audit sink may raise.

| Modules | Source |
|---|---|
| `ResourceBudget` | `resource.py` |
| `FixedWindow` (abstract), `MemoryStateBackend` (detailed, refines it), `RedisStateBackend` (with network, server and client library) | `state/backends.py` |
| `FailureContainment` | `failure_containment.py` |
| `CredentialBroker`, proofs in `Authority` | `credentials.py` |
| `SingleUse` (abstract), `PrivilegedAccess` (refines it), proofs in `Boundaries` | `privileged_access.py` |
| `ToolAuthorization` | `agency.py` |
| `HighImpactApproval`, `DelegatedIdentity`, `BrowserIsolation` | `high_impact_approval.py`, `delegated_identity.py`, `browser_isolation.py` |
| `InterAgentMessages` (replay and order), `MessageTrails` (who may say what) | `inter_agent.py` |
| `WorkflowResume` (claims), `WorkflowChain` (signed histories) | `workflow_integrity.py` |
| `MCPMessages`, `MCPOAuth`, `MCPOnboarding`, `MCPIsolation`, `MCPTransport`, `ToolPins`, `PrimitivePins` | `mcp_messages.py`, `mcp_oauth.py`, `mcp_onboarding.py`, `mcp_isolation.py`, `mcp_transport.py`, `mcp.py`, `mcp_primitives.py` |
| `ToolManifest` | `tool_manifest.py` |
| `CodeExecution`, `WorkloadIsolation`, `TenantIsolation` | the files of these names |
| `GoalIntegrity`, `RogueAgent`, `JailbreakCampaign` | the files of these names |
| `MemoryTaint`, proofs in `Information` | `memory.py` |
| `DataLifecycle` (deletion), `DataObligations` (labels of artifacts) | `data_lifecycle.py` |
| `IngestionConnector` (lineage), `ConnectorAdmission` (evidence) | `ingestion_connector.py` |
| `DataLabels`, `SensitiveFlow` | `data_labels.py`, `sensitive_data_flow.py` |
| `GuardPipeline`, `StreamScanner`, `SessionLimits`, `StructuredOutput` | `guard.py`, `streaming/scanner.py`, `agents/session.py` with `rules/resource/limits.py`, `structured_output.py` |

State and actions keep the names of the code where TLA+ allows it; the map in
`PROJECT.json` gives the lines each definition stands for.  Some variables are
histories (`granted`, `releases`, `accepted`, `failed`, ...): their declarations
say so, actions write them, properties alone read them.

**Modules for TLC.**  `MCBudgets`, `MCContainment`, `Authority`, `Boundaries` and
`Information` compose the components.  The components do not interact, so their
product would only multiply states: a variable `component` says which one takes the
steps of a behaviour, and the others rest in their initial states.  Each EXTENDS one
component, whose assumptions TLC evaluates, and INSTANCEs the others.  In the last three
every policy, set of records and bound is a CONSTANT, so that the module holds the
properties and their proofs for all values; the small values that their configurations
give the constants are defined at their ends.

| Module | EXTENDS | Components |
|---|---|---|
| `MCBudgets` | `ResourceBudget` | leases and concurrency; windows, sessions and replay; the limiter in `MemoryStateBackend` |
| `MCContainment` | `FailureContainment` | effects with retries; circuits of two tenants |
| `Authority` | `CredentialBroker` | tool calls, approvals, delegation, browser, secrets, messages, workflow, MCP messages and tokens, workflow chains (long and short), message trails |
| `Boundaries` | `PrivilegedAccess` | manifests, MCP onboarding, isolation, pins of tools and of primitives, code execution, workloads, tenants, connectors, transport, goals, rogue agents, privileged access |
| `Information` | `MemoryTaint` | memories, lifecycle, ingestion, obligations, stream, sessions (shared and alone), structured output, labels, sensitive flow, guard, campaigns |

Properties of components are grouped by the question they answer; a conjunct
`component = "x" => X!P` is checked in the behaviours in which x takes the steps:

- `TypesOK`: each component's type invariant, with the capacities of its stores (the
  stream's is part of `StreamKept`).
- `UsedOnce`: what was given for one use serves once, however calls overlap.
- `WithinAuthority`: budgets, flows, prompts, the order of chains, scopes of every
  link above, revocation.
- `AcceptedOnce`, `AcceptedAsMade`, `SignedIsAccepted`: replay and order; what is
  accepted was made by those who might; what was made by the rules is accepted
  while it lives.
- `AsReviewed`: what acts is what was reviewed, and still is when it acts.
- `KeptApart`: servers, tenants and quarantined workloads.
- `AgentHeld`: goals in order, stops bounded, recovery in its chain.
- `ReachesDerived`, `RestrictionsKept`, `LabelsKept`: quarantine (`LineageSafe` of the
  memories), rejection, deletion, restrictions and labels along every derivation.
- `ReleasedAsChecked`, `LimitsKept`: what the guard and structured output release was
  checked; what sessions, repairs and conversations count is counted once and
  completely.  `ReleasedClean` of the guard speaks of what rules and transformers remove and
  of what independent checks forbid; a provider registered with REDACT or TRANSFORM
  forbids nothing, and a closed one releases unchanged content (section 6).
  `RepairBounded` counts the attempts that ended with the sink's exception
  (`escaped`) apart, `RateHeld` is about one task at a time (section 6).
- `StreamKept`: what a stream emits is clean and as the rules leave the whole, its risk
  is that of all its chunks.
- `NoFreshStart` (budgets), with the policy that binds sessions and rates: neither a
  session (`SessionWithinBudget`) nor a window of the limiter (`CountsEveryRequest`)
  starts afresh too early.
- `CircuitRespected` is three action properties: one probe per opening (`OneProbe`),
  nothing dispatched while a circuit is open, no closing but by way of half-open.

## 3. Runs

| Run | Bounds, and why they are enough |
|---|---|
| `budgets` | leases: 2 principals (limit 1) of one tenant (limit 2), 3 leases, clock 0..3 with leases of 2, so a slot is lost, expires and is used again; windows: clock 0..5 and 5 leases, a session ends at 3 and is forgotten at 5, windows of 2, so both edges of each are crossed; limiter: clock 0..4, two windows in a row with unread expired entries between |
| `redis_limiter` | 2 processes, one key, limit 1, window 1, clock 0..2, 3 calls, one command sent again: lost, late and duplicated requests around the end of a window, one process failing open and the other closed |
| `containment` | effects: 3 permits of retried operations with a fallback in another domain, clock past the permits' expiry; circuits: 2 tenants, two dependencies in one domain and a backup, 3 permits: open, half-open, probe, reopen |
| `authority` | secrets: 3 threads, so that issue, resolution and revocation of one reference overlap, 2 versions, 2 marks; every other component has the calls that let two uses of one record overlap, and a clock that passes each of its expiries |
| `boundaries` | per component two records of each kind, so that one can stand in for the other, and a clock that passes the ends of what was approved |
| `information` | memories: a chain of four with a merge and 2 versions; derivations of two levels elsewhere; three authorizations over two synchronization ids; labels with and without a stated retention (`NotStated`); a guard with 4 rules, 2 transformers and 4 independent checks of which 2 run at a time, a provider that wants to redact and a rule that does among them, submissions of up to three items; a repair of 2 attempts and 3 submissions (`MaxSubmissions`), so that one comes after the last attempt |
| `memory_capacity`, `containment_recovery`, `containment_probe`, `containment_mixed`, `information_repair`, `information_redact` | violations, see section 6; the last two have the constants of `information` and the steps of one component |

Each passing run takes between one and four minutes on two workers (`information`
reaches 583,077 distinct states, `authority` 612,830, `boundaries` 484,181,
`budgets` 123,196, `containment` 53,701).
Constants named `MaxNow`, `MaxLeases`, `MaxPermits`, `MaxCalls`, `MaxVersion`,
`MaxResends`, `MaxValue`, `MaxGrants`, `MaxChanges` and the like cut the state
space and stand in guards; nothing in the code corresponds to them (each
declaration says "bound").  When they are reached the model stops, so most
configurations switch the deadlock check off; `budgets` keeps it.  Symmetry
is used where every member of a set is treated alike: reservation ids,
principals, threads, processes and report ids.  `budgets` and `containment` use a
VIEW that drops variables that neither an action nor a checked property reads
where they are dropped.

**Fairness.**  Only `GuardPipeline` promises something in the end: every call is
answered (`EventuallyAnswered`).  It assumes weak fairness of the steps that the
library or the event loop takes itself: the end of the rules and of the
transformations, gathering, the deadline (`timeout_seconds` is a timer, so time
passing is all it needs), audit sinks and the approval provider, which the code
awaits without a limit of its own.  Rules, transformers and checks may never return:
they are not fair.  Everywhere else cleaning up happens inside later calls, and
whether a client calls at all depends on the application, so no liveness is
claimed.

**Refinement.**  `MemoryStateBackend` implements `FixedWindow`
(`ImplementsFixedWindow`): a limiter entry maps to a window, an expired entry not
yet purged to none.  The grants of `PrivilegedAccess` implement `SingleUse`
(`GrantsUsedOnce`): a token is fresh, used or revoked, by the status of the grant.

## 4. Proofs

Every theorem holds for all values of the constants that satisfy the named
assumptions, of which TLC evaluates those that are ASSUMEs on every run.  All
safety theorems have the same shape: an inductive invariant of named conjuncts,
one lemma per action that shows it preserved, and the property as a consequence.
TLC checked the invariants on the runs' instances before they were proved.

**Consumption budgets** (`ResourceBudget`; `PolicyAssumption`: limits are
naturals, those that pydantic wants positive are; `InputAssumption`: requests and
outputs are well typed).  `TypeCorrect`, `CountersExact`, `ConcurrencyBounded`,
`ApprovedOnce`, `NoReplay`, `RatesBounded`, `SessionsKept`, `SessionsBounded`,
`DenialsJustified`.

- Counters: leases are a finite set whose ids are below `nextLease` and determine
  the lease; without that a grant could reuse an id and cardinalities would not
  move by one.  An active lease, and one not granted yet, has no approval.
- Replay: `seen` is ordered by expiry and holds every grant whose id still
  matters, so purging a prefix removes exactly the expired ids.
- Rates: every window holds, in order, exactly the grants of its owner that are
  young enough, however it was trimmed; an injection from grants to positions of
  the deque bounds their number.
- Sessions (`SessionsBounded` proves `SessionWithinBudget`): a session entry exists for
  every lease in it and outlives it, and its counters are those of the grants since it
  began.  The tokens of grants are counted as a set of units, one for each token of
  each grant (`Units`), so that their sum is a cardinality and a grant adds a disjoint set
  (`UnitsAdded`).
- Denials: a refusal for lack of concurrency is decided after the purge, when
  every active lease is unexpired.

**Rate limiters.**  `MemoryStateBackend`: `FixedWindowImplemented` (each step is one
of `FixedWindow` or a stutter) and `RequestsCounted`, under the hypothesis `RoomForAll`: the
store has room for all keys, since at capacity it evicts running windows.
`WindowsExact` ties each unexpired entry to the requests recorded since
its window began, `NothingEvicted` says that entries leave by expiry or
deletion only; lemmas on the ordered dictionary say what `Put`, `Drop` and the eviction
do to the keys.  `RedisStateBackend`: `LimitShared` and `CountersExpire`: the
answers of the server within one window carry distinct numbers, so those
not above the limit are at most as many; this survives late, lost and repeated
messages because a message carries its number from the moment the server
answered.

**Failure containment** (`FailureContainment`, any policy it accepts).
`TypeCorrect`, `RetriesBounded`, `FailuresContained`, `CircuitsRespected`,
`OneEffect`.  `LedgersExact` equates what the manager counts (attempts,
reservations, used reports) with the permits handed out.  `CircuitsTimed` orders
openings and probes in time: a circuit stays open at least one second, so the
moment of opening tells one opening from the next.  `OneEffect`
has the hypothesis `KeysOnlyOnEffects`: callers name idempotency keys on effects
only; `containment_mixed` shows that it is needed, and `KeysHeld` that a reservation
then stands until its own permit is reported.

**Credential broker** (`Authority`; `BrokerAssumption`: lifetimes and
the bound of the store are at least 1, an execution ends after it starts).
`TypeCorrect`, `SingleUse`, `SweepCutsOff`, `MarkCutsOff`, `Inductive`.  Versions only grow, so a capability
that a later call has overtaken shows it by its version or by the revocation
(`Outdated`, kept by drafts and stored capabilities alike).  A resolution that
passes the checks holds a capability no call has overtaken; if one does
afterwards, its sweep finds the capability `stored` and takes it away before it is
consumed.  The growth of versions comes from `NewVersions`, as the documentation
of `rotate` asks; rotating back to a version in use is outside the theorem.

**Authority** (`Authority`: the broker with tool calls, approvals, delegation, browser,
messages, workflow, MCP messages and tokens, chains and trails, for any policy).
`AuthorityTypes`, `AuthorityUsedOnce`, `AuthorityLimits`, `AuthorityAcceptedOnce`,
`AuthorityAsMade`, `AuthorityAccepts` prove the six properties of the run
`authority` from `AuthorityInv` (`AuthorityInductive`), which has one conjunct per
component and which TLC checked on the instance of the run.  What each says:

- Records that are to be used once (`NoncesInv`, `BrowserInv`, `MessagesInv`,
  `WorkflowInv`, `McpInv`, `TokensInv`): a nonce or claim stays in its store as long as
  the record it stands for may pass the checks, so a second use meets the
  first.  This is where the lifetimes matter: the assumptions ask that a review
  takes no longer than the tolerated skew (`ReviewAssumption`), and `UsedOnce` of the
  browser speaks of policies that remember a claim longer than its request lives;
  for any policy two authorizations of one request never live at once.
- Counters and limits (`AgencyInv`, `PromptsInv`): each counter is the cardinality of
  the calls it stands for, each window of prompts holds the young ones of the
  history in order, and the place in a chain is the number of its completed steps.
- Narrowing (`DelegationInv`): each link of a delegation lies within the one before it,
  so by induction over the links in all above it, and a revocation found when the
  lock is taken cuts off everything below.
- Histories and trails (`HistoryInv`, `TrailsInv`): which records a signer accepts is a
  recursive function of their prefix.  Its properties for every length are
  proved by a least counterexample (`LeastOutside`, `LastOutside`).

The assumptions are named for their component (`AgencyAssumption`, ...,
`TrailsAssumption`): limits and lifetimes are naturals as the policies' validators
want, ids name what they are computed from (digests are ideal), clocks of
records come from the modelled time.

**Boundaries** (`Boundaries`: manifests, MCP onboarding, isolation, pins, code execution,
workloads, tenants, connectors, transport, goals, rogue agents and privileged access, for any
records, lifetimes and bounds).  `BoundariesTypes`, `BoundariesUsedOnce`,
`BoundariesReviewed`, `BoundariesApart`, `BoundariesHeld` prove the five invariants of the
run `boundaries` from `BoundariesInv` (`BoundariesInductive`), one conjunct per component,
which TLC checked on the instance of the run.  Most lists there only grow (`Log`,
`Appended`), so what was said of a record once stays true of it.  What the conjuncts add:

- What a call checked before its lock (`OnboardingInv`, `ExecutionInv`, `WorkloadInv`): a
  call under way holds consent given in time, an attestation that was valid when
  the call began, or a report of a run on its own lease, so what changes between check
  and lock is caught by what the lock checks again.
- Ends (`ManifestInv`, `AdmissionInv`): an authorization ends no later than the binding, the
  manifest and the evidence it rests on, an admission no later than its evidence, an
  authorization to synchronize no later than its admission, whatever lifetimes the policy
  has (`EarliestOfTwo`, `EarliestOfFour`), so it is enough to look at the last of
  them when something acts.
- One verdict (`ExecutionInv`, `WorkloadInv`): a lease with an outcome is no longer active,
  and a teardown that passed had seen no outcome of its lease among those that were
  there when it began.
- Claims (`TenantsInv`): the key of whatever was written is claimed by its owner, and a
  binding stands for a write with the same end.
- Flows (`IsolationInv`): what a call is about to deliver carries only labels its edges or
  its approval allow, from the check to the delivery.
- Pins (`ToolsInv`, `PrimitivesInv`): an approval is a discovery that was inspected as a
  whole, and what is used is covered by one approval, its subscription included.
- Agents (`GoalsInv`, `RogueInv`): the goal is the first one with every mutation in turn,
  and its revision tells how many there were; what an agent did since it was asked to
  stop is at most what the sequence has grown since.

The assumptions (`ManifestAssumption`, ..., `AccessAssumption`) say that records are well
typed and that lifetimes and bounds are naturals, as the validators of the models want;
`FlowAssumption` that routes between the tools of two servers do not overlap
(`models/mcp_isolation.py:238`) and that the absence of an approval is not the id of one.

**Privileged access** (`Boundaries`).  `ImplementsSingleUse`: the refinement,
step by step, for any threads, requests and changes of identity and risk;
`ExecutedOnce`: no grant is executed twice, and one executed is consumed or
revoked ever after.  The invariant says which grants the calls under way may name.

**Memory taint** (`Information`; `TaintAssumption`: proposals are well typed).
`Inductive`, `LineagesSafe` (a part of `InformationReaches` too). Retrieval looks at
a memory and its direct parents; the theorem is about ancestors at any distance. The
invariant (`SafeOnSafe`): a memory that is safe and was written in time depends only
on revisions that are safe and still there. Quarantine and invalidation reach the
whole derivation, so the set of memories they spare is closed under derivation; the
closures are the least closed sets (`DerivedClosed`, `ParentsClosed`), which a proof
can use where a recursion could not be unfolded.

**Data and labels** (`Information`: lifecycle, ingestion, obligations, labels and
sensitive flow, for any artifacts, derivations, classifications and rules).
`InformationReaches`, `InformationRestricts`, `InformationLabels` prove three groups of
the run `information` from `InformationInv` (`InformationInductive`).

- Reach (`LifecycleInv`, `IngestionInv`): the code walks derivations step by step, and the
  walk is a recursive function here; that it reaches every descendant is proved by a
  climb along the derivation (`Climbing`) and a least counterexample (`LeastOutside`).  A
  plan dooms every heir registered then, or the heir is unusable already, and
  what a quarantine spares is closed under derivation.  A synchronization id may be used by
  several authorizations: each remembers what it brought (`brought`), and what a rejected one
  brought is quarantined or gone, whoever owns the id now.
- Restrictions (`LifecycleInv`, `ObligationsInv`): what is registered came after its sources and
  permits no more than each of them (`Covers`), so by the same climb no more than
  any origin.
- Labels (`LabelsInv`, `FlowInv`): each label comes after its sources and is as strict as all
  of them, so no permit lets content go where an ancestor forbids it but for the grants on the
  way; since a propagated label is what the guard will compute again, the guard accepts it.

The assumptions of the five components say that what may derive from what is finite and given,
and that policies, labels and bounds are well typed.

**Guard, sessions, structured output, campaigns** (`Information` and `GuardPipeline`).
`InformationReleases` and `InformationLimits` prove `ReleasedAsChecked` and `LimitsKept`
of the run from further conjuncts of `InformationInv`.

- Guard (`GuardInv`; `GuardAssumption`: checks are well formed).  `FailuresBlock` and
  `ReleasesClean` are about a guard that fails closed, `TypeCorrect` about any.  A check
  that asks to block dooms the evaluation (`Doomed` survives every merge), and while it
  is not doomed, each check that ran has left its mark on the content (`Passed`): what
  it removes is gone or was revealed by a later one.  The outcomes of the independent
  checks are merged by a recursive function, whose existence and effect are proved by a
  least counterexample (`LeastOutside`), the form of induction the provers can follow.
  That the guard fails closed is needed: an open guard answers its deadline with WARN
  and the content as submitted, even if a closed check had failed before.
- Sessions (`SessionsInv`; `SessionsAssumption`: limits are naturals), of any number of
  tasks.  Counters are at least the admitted checks of their kind, and the stored
  total at least the sum of what passed the budget rule (`SpentOK`): the sum over a list
  is a recursive function too, and changing one entry changes it by that entry
  (`TotalSame` and the lemmas next to it).  A task is on a check of its own, so two never
  mark the same.  With a single task, the log holds all that the rate rule let through
  and that is young enough, at every step between copying and storing it (`AloneOK`);
  with two that is false (section 6), which is why the rate is claimed for one.
- Structured output (`StructuredInv`; `StructuredAssumption`).  Text and digest of an
  object are those of a response that passed the whole validation, whatever the host
  does to the value; a call that passed the checks holds what it parsed from that text
  and a binding for it, and bindings are never withdrawn.  At most one repair is under
  way, on the last attempt; the attempts are those that ended with a decision and those
  that a raising sink ended (`escaped`), of which the first are at most `MaxAttempts`.
- Campaigns (`JailbreakInv`; `JailbreakAssumption`).  A call that is about to write follows
  the state it read (`Pending`): if the conversation is still in the same life and at
  the same version, it is still in that state, so the compare-and-set appends to it.
  Dropping the oldest turns step by step is dropping them at once (`KeptOfKept`).
  Conversations that a call of an earlier life revived are left out (section 6).

**Types** (`InformationTypes`, for all components of the run but the stream).  Bounds have
conjuncts of their own (`VersionsBounded`, `IngestionBounded`, `RecordsBounded`,
`LabelsBounded`, `FlowBounded`).  The one that takes thought: deletions that overlap may
each write a version past the bound at which they began, so a record's version and the
deletions still to be finalized for it are bounded together.

**Only model-checked.**  Liveness (`EventuallyAnswered`) and everything with
`ENABLED`.  `NoFreshStart` as a whole, which speaks of two instances with the values of
the run; each of its parts is a theorem: `SessionWithinBudget` and `SlidingWindowRate`
of the manager, `CountsEveryRequest` of the limiter.
`StreamKept`: the stream is a computation over texts of every length, and a rule
that looks further back than the look-behind does break it, so it speaks of the rules
of the run.

## 5. Faithfulness

`FailureContainment` takes the reading of the clock and the lock that follows it
as one step.  `SessionLimits` takes the addition of tokens to a session's total and the
comparison after it (`limits.py:265`) as one: they lie between a dictionary's read and
write with no call in between, and the interpreter lock of CPython 3.11 and later is handed over
after calls and at loop rounds only; the copying of the rate log is a loop, and cut.
Keys of `DataLabels` stay trusted: a revoked or expired key makes its labels unusable and
lets nothing through that was refused before.

`RedisStateBackend` and the vault, verifiers and hooks of other modules are modelled
from how the code uses them and may fail at any time.  The text of a
request, a response or a document is what the component measures or looks for
in it.  Checks that only refuse a call (identities, digests, static limits) are
a choice: any call may be refused.

## 6. Where the code and its documentation differ

With a run that shows it:

- `memory_capacity`: `MemoryStateBackend.increment` inserts new keys without
  evicting, so the store is not bounded by `max_keys`.
- `containment_recovery`: the success report of a call dispatched *before* the
  circuit opened closes it when it arrives during half-open; the documentation
  says only a successful probe does.
- `containment_probe`: the samples that opened the circuit still count when the
  probe reports, so a successful probe may reopen the circuit.
- `containment_mixed`: the report of a read that carries an idempotency key
  discards the reservation that an effect under way holds on that key, and the
  effect can be dispatched twice.
- `information_repair`: an audit sink that raises ends `validate_json` with its own
  exception (`structured_output.py:711`, `:777`), which leaves the session open with the
  attempt counted: it goes on past `max_attempts`, and after a valid response, where
  `src/docs/security/structured-output.md:127` says the maximum cannot be exceeded.
- `information_redact`: a provider registered with REDACT or TRANSFORM has its finding
  passed on with that action (`guard.py:1316`), while an async rule that answers so has
  failed (`guard.py:1245`).  A closed provider thus releases the content unchanged, where
  `src/docs/integrations/external-safety-providers.md:103` says that independent
  checks cannot return these actions, and `:116` that an invalid result of a closed one blocks.

Met while modelling, without a run of their own:

- Rate rule: the request log is copied, stored and appended to without a lock
  (`rules/resource/limits.py:552`), so a thread may drop the request of another, and more
  pass in a window than `:525` says.  `RateHeld` is about one task at a time.
- Campaigns: a conversation that expired or was cleared begins again at version 1, so
  the compare-and-set of a call that read its earlier life can succeed
  (`jailbreak_campaign.py:122`) and undo a block, which
  `src/docs/security/cross-turn-jailbreak-campaigns.md:122` calls sticky until reset.
  Such conversations are `revived` in the model, and `BlockSticky` speaks of the others.
- Memory dependents: a write authorized before the quarantine of its source and
  committed after it enters the catalog with the taint it had (`memory.py:372`).
  Retrieval refuses it for its parent, but not what derives from it, while
  `memory.py:555` says "every transitive dependent".  Such records are `late` in the
  model, and `LineageSafe` speaks of the others.
- Goal delegates: a step that passed its checks before an approved mutation removed the
  delegate still activates it, since the recheck under the lock does not look
  at the manifest (`goal_integrity.py:200`);
  `src/docs/security/agent-goal-integrity.md:114` says that removing a delegate
  revokes its active state.
- Workflow rollback: the store forgets a workflow when its last claim expires
  (`workflow_integrity.py:117`), after which an older checkpoint that lives longer is
  accepted; `src/docs/security/persistent-workflow-integrity.md:163` says the store
  rejects rollback.
- Teardown: evidence is looked up under one lock and used up under another, with
  the verifier between, so two overlapping calls of `verify_teardown` may both
  succeed (`workload_isolation.py:192`, `:255`); one after the other, the second is
  refused (`src/tests/unit/test_workload_isolation.py:389`).
- Independent checks: `guard.py:1246` rejects one that answers REDACT or TRANSFORM,
  but a sensitive finding that comes as BLOCK with a replacement is turned into
  REDACT when it is merged (`guard.py:1348`), so that of two such checks the last
  replaces what the first took out;
  `src/docs/integrations/external-safety-providers.md:103` says independent checks
  cannot redact.  This too is left out of `ReleasedClean`, which speaks of independent
  checks that block.
- Browser: `browser_isolation.py:380` says "Authorize the unchanged preview once,
  immediately before actuation".  A request that needs no approval is claimed for as
  long as its authorization may live (`:430`), and expired claims are dropped
  (`:91`); with the default policy that is ten seconds, and so is the age at which a
  request is still fresh (`models/browser_isolation.py:700`, `:702`), so at exactly
  that age it can be authorized again, when the first authorization is over.

Known limits, documented or harmless: the in-memory backend evicts the least
recently used key at capacity, a running window included; `rotate` accepts the
version in use, and a capability whose issue was under way before a revocation
then survives it; a probe that is never reported keeps its circuit half-open for good;
the sets of seen attempts, reports and committed keys grow without bound.

## 7. Not modelled

Text matching, normalisation and content validators are pure functions over
documents; audit, observability and framework integrations are I/O around the
guard in which nothing is decided; the CLI and the test harness are tooling.
`BoundedDecompressor` and `measure_structured_nesting` of `resource.py`,
`CredentialBoundaryGuard`, `get`, `set` and plain `increment` of the Redis backend,
`finalize` of the scanner and the guard's evaluations of several values are left
out; the notes of the components in `PROJECT.json` say what else.

## 8. Plan

1. Pure algorithms: nesting measure and bounded decompression against reference
   definitions.
