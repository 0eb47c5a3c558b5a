------------------------------ MODULE Authority -----------------------------
(***************************************************************************)
(* The components of trustrail that decide on tool calls and credentials,  *)
(* and those that accept signed messages, tokens and checkpoints, for any  *)
(* values of their constants.  They do not call one another: component     *)
(* says which one takes the steps of a behaviour, the others rest.  The    *)
(* CredentialBroker this module extends is one of them.                    *)
(*                                                                         *)
(* What was given for one use serves once, what is granted stays within    *)
(* what was given, and what is accepted was signed and is accepted once.   *)
(***************************************************************************)
EXTENDS Integers, Sequences, FiniteSets, CredentialBroker, FiniteSetTheorems, TLAPS,
        NaturalsInduction, WellFoundedInduction

CONSTANTS
    Callers,     \* threads that call the other components
    \* ToolAuthorization
    ToolChains, Intents, Operations, CallApprovals, ToolRequests, Reports, Gated, Effects,
    Transitions, FlowRules, MaxToolCalls, MaxChainActions, MaxRetries, MaxParallel,
    MaxAutonomous, MaxIntentCalls,
    \* HighImpactApproval
    Reviewed, Previews, Approval, Window, MaxPrompts, MaxRepeated, ReviewSkew, ReviewTtl,
    MaxKeys, MaxNonces, ReviewLag, ReviewEnd,
    \* DelegatedIdentity
    Scopes, Elevated, Grants, CapabilityChains, AccessRequests, Depth, Lifetimes, DelegationEnd,
    \* BrowserIsolation
    Origins, Sessions, ActionRequests, ActionApprovals, MaxRequestAge, MaxObservationAge,
    MaxApprovalAge, MaxAuthorization, ActionLag, BrowserEnd,
    \* InterAgentMessages
    AgentEnvelopes, StreamKeyEnd, MessageTtl, MessageAge, MessageSkew, MaxReplay, MaxStreams,
    MessagesEnd,
    \* WorkflowResume
    Workflows, Checkpoints, ResumeAge, ResumeTtl, ResumeSkew, MaxWorkflows, MaxClaims, Revocable,
    ResumeEnd,
    \* MCPMessages
    McpEnvelopes, McpKeyEnd, McpTtl, McpAge, McpSkew, MaxMcpEntries, McpEnd,
    \* MCPOAuth
    TokenScopes, Resources, Tokens, ToolPolicy, ListScope, TokenTtl, TokenAge, TokenSkew,
    MaxTokens, TokensEnd,
    \* WorkflowChain
    ChainedWorkflows, Goals, Limits, ChainSkew, CheckpointAge, CheckpointTtl, MaxChain, MaxPending,
    ChainKeyFrom, ChainKeyEnd, CheckpointLifetimes, Explored, HistoryEnd,
    \* MessageTrails
    Agents, Payloads, Tenant, AgentKeyEnd, Delegations, Routes, TrustedTransformers, MaxFanout,
    MaxTransformations, MaxAttested, MaxSigned, TrailsEnd

VARIABLES component,
    semantic, authorized, flows, active_authorizations, active_semantic_requests,
    quarantined_chains, chain_history, verified_executions, data_flow_uses, used_approval_ids,
    tool_calls, outcomes,
    review_now, prompts, approvals, reviews, prompted, claimed,
    delegation_now, capability, revocations, used, presented, requested, delegated, elevations,
    browser_now, claims, actions, browsed,
    agent_now, replays, streams, verifying, accepted,
    workflow_now, resumptions, latest, cancelled, resuming, resumed,
    mcp_now, entries, checking, verified,
    token_now, spent, requests, redeemed, admitted, credentials,
    history_now, steps, saved, anchor, withdrawn, continued,
    trail_now, attested, sent, live, delivered

agency == <<semantic, authorized, flows, active_authorizations, active_semantic_requests,
            quarantined_chains, chain_history, verified_executions, data_flow_uses,
            used_approval_ids, tool_calls, outcomes>>
review == <<review_now, prompts, approvals, reviews, prompted, claimed>>
delegation == <<delegation_now, capability, revocations, used, presented, requested, delegated, elevations>>
browser == <<browser_now, claims, actions, browsed>>
granting == <<agency, review, delegation, browser, vars>>

messages == <<agent_now, replays, streams, verifying, accepted>>
workflow == <<workflow_now, resumptions, latest, cancelled, resuming, resumed>>
mcp == <<mcp_now, entries, checking, verified>>
tokens == <<token_now, spent, requests, redeemed, admitted, credentials>>
checkpoint == <<history_now, steps, saved, anchor, withdrawn, continued>>
trails == <<trail_now, attested, sent, live, delivered>>
accepting == <<messages, workflow, mcp, tokens, checkpoint, trails>>

-----------------------------------------------------------------------------
(* Tool calls and credentials *)

Agency == INSTANCE ToolAuthorization WITH
    calls <- tool_calls,
    Chains <- ToolChains, Approvals <- CallApprovals, Requests <- ToolRequests

Review == INSTANCE HighImpactApproval WITH
    now <- review_now, Threads <- Callers,
    Skew <- ReviewSkew, Ttl <- ReviewTtl, MaxLag <- ReviewLag, MaxNow <- ReviewEnd

Delegation == INSTANCE DelegatedIdentity WITH
    now <- delegation_now, authorized <- delegated, uses <- elevations, Threads <- Callers,
    Chains <- CapabilityChains, Requests <- AccessRequests, MaxNow <- DelegationEnd

Browser == INSTANCE BrowserIsolation WITH
    now <- browser_now, authorized <- browsed, Threads <- Callers,
    Requests <- ActionRequests, Approvals <- ActionApprovals, MaxLag <- ActionLag,
    MaxNow <- BrowserEnd

(* Messages, tokens and checkpoints *)

Messages == INSTANCE InterAgentMessages WITH
    now <- agent_now, Threads <- Callers, Envelopes <- AgentEnvelopes, KeyEnd <- StreamKeyEnd,
    MaxTtl <- MessageTtl, MaxAge <- MessageAge, Skew <- MessageSkew, MaxNow <- MessagesEnd

Workflow == INSTANCE WorkflowResume WITH
    now <- workflow_now, claims <- resumptions, revoked <- cancelled, Threads <- Callers,
    MaxAge <- ResumeAge, MaxTtl <- ResumeTtl, Skew <- ResumeSkew, MaxNow <- ResumeEnd

Mcp == INSTANCE MCPMessages WITH
    now <- mcp_now, verifying <- checking, Threads <- Callers,
    Envelopes <- McpEnvelopes, KeyEnd <- McpKeyEnd, MaxTtl <- McpTtl, MaxAge <- McpAge,
    Skew <- McpSkew, MaxEntries <- MaxMcpEntries, MaxNow <- McpEnd

OAuth == INSTANCE MCPOAuth WITH
    now <- token_now, entries <- spent, claimed <- redeemed, authorized <- admitted,
    Threads <- Callers, Scopes <- TokenScopes,
    MaxTtl <- TokenTtl, MaxAge <- TokenAge, Skew <- TokenSkew, MaxEntries <- MaxTokens,
    MaxNow <- TokensEnd

History == INSTANCE WorkflowChain WITH
    now <- history_now, entries <- steps, checkpoints <- saved, revoked <- withdrawn,
    resumed <- continued, Workflows <- ChainedWorkflows, Skew <- ChainSkew,
    MaxAge <- CheckpointAge, MaxTtl <- CheckpointTtl, KeyFrom <- ChainKeyFrom,
    KeyEnd <- ChainKeyEnd, Lifetimes <- CheckpointLifetimes, MaxNow <- HistoryEnd

Trails == INSTANCE MessageTrails WITH
    now <- trail_now, KeyEnd <- AgentKeyEnd, Chains <- Delegations, MaxNow <- TrailsEnd

-----------------------------------------------------------------------------
(* One component takes the steps. *)

AuthorityInit ==
    /\ component \in {"agency", "review", "delegation", "browser", "secrets",
                      "messages", "workflow", "mcp", "tokens", "history", "trails"}
    /\ Agency!Init /\ Review!Init /\ Delegation!Init /\ Browser!Init /\ Init
    /\ Messages!Init /\ Workflow!Init /\ Mcp!Init /\ OAuth!Init /\ History!Init /\ Trails!Init

GrantingNext ==
    \/ component = "agency" /\ Agency!Next /\ UNCHANGED <<review, delegation, browser, vars>>
    \/ component = "review" /\ Review!Next /\ UNCHANGED <<agency, delegation, browser, vars>>
    \/ component = "delegation" /\ Delegation!Next /\ UNCHANGED <<agency, review, browser, vars>>
    \/ component = "browser" /\ Browser!Next /\ UNCHANGED <<agency, review, delegation, vars>>
    \/ component = "secrets" /\ Next /\ UNCHANGED <<agency, review, delegation, browser>>

AcceptingNext ==
    \/ component = "messages" /\ Messages!Next
       /\ UNCHANGED <<workflow, mcp, tokens, checkpoint, trails>>
    \/ component = "workflow" /\ Workflow!Next
       /\ UNCHANGED <<messages, mcp, tokens, checkpoint, trails>>
    \/ component = "mcp" /\ Mcp!Next /\ UNCHANGED <<messages, workflow, tokens, checkpoint, trails>>
    \/ component = "tokens" /\ OAuth!Next /\ UNCHANGED <<messages, workflow, mcp, checkpoint, trails>>
    \/ component = "history" /\ History!Next /\ UNCHANGED <<messages, workflow, mcp, tokens, trails>>
    \/ component = "trails" /\ Trails!Next
       /\ UNCHANGED <<messages, workflow, mcp, tokens, checkpoint>>

AuthorityNext ==
    /\ UNCHANGED component
    /\ \/ GrantingNext /\ UNCHANGED accepting
       \/ AcceptingNext /\ UNCHANGED granting

AuthoritySpec == AuthorityInit /\ [][AuthorityNext]_<<component, granting, accepting>>

-----------------------------------------------------------------------------
(* The properties of the components, each while it takes the steps. *)

\* Every component keeps its state well formed and within its bounds.
TypesOK ==
    /\ component = "secrets" => TypeOK
    /\ component = "agency" => Agency!TypeOK
    /\ component = "review" => Review!TypeOK
    /\ component = "delegation" => Delegation!TypeOK
    /\ component = "messages" => Messages!TypeOK
    /\ component = "workflow" => Workflow!TypeOK
    /\ component = "mcp" => Mcp!TypeOK
    /\ component = "tokens" => OAuth!TypeOK
    /\ component = "history" => History!TypeOK
    /\ component = "trails" => Trails!TypeOK

\* Whatever somebody gave for one use serves once: the approval of a call or of a plan, an
\* elevation, the approval of an action in a browser, however many calls hold it at once.
UsedOnce ==
    /\ component = "agency" => Agency!UsedOnce
    /\ component = "review" => Review!UsedOnce
    /\ component = "delegation" => Delegation!UsedOnce
    /\ component = "browser" => Browser!UsedOnce

\* What is granted stays within what was given: budgets, uses of a flow and prompts of a
\* reviewer, the order of a chain and its quarantine, the scopes of every link above and their
\* revocation.
WithinAuthority ==
    /\ component = "agency" => /\ Agency!LimitsHold /\ Agency!FlowLimited
                               /\ Agency!AdjacentAllowed /\ Agency!NothingAfterViolation
    /\ component = "review" => Review!PromptsLimited
    /\ component = "delegation" => Delegation!NoAmplification /\ Delegation!RevokedFromThenOn

\* Checkpoints, messages and tokens are accepted once however often they arrive, for as long as
\* they are valid, and streams and workflows go forward only, one step at a time.
AcceptedOnce ==
    /\ component = "workflow" => Workflow!AcceptedOnce /\ Workflow!StepByStep
    /\ component = "mcp" => Mcp!AcceptedOnce
    /\ component = "tokens" => OAuth!AcceptedOnce
    /\ component = "messages" => Messages!OrderKept

\* What is accepted is what was made: the chain of one history, a trail of those who were
\* trusted with it, a credential no wider than the call that was authorized.
AcceptedAsMade ==
    /\ component = "history" => History!ResumedIsHistory
    /\ component = "trails" => Trails!MadeByTrusted
    /\ component = "tokens" => OAuth!NoWiderDownstream

\* And what was signed by the rules is accepted as long as it lives.
SignedIsAccepted ==
    /\ component = "trails" => Trails!SignedIsAccepted
    /\ component = "history" => History!SignedIsResumable

-----------------------------------------------------------------------------
(* Facts about numbers, logs and stores with a capacity *)

\* The least number outside of a set of numbers.
LEMMA LeastOutside ==
    ASSUME NEW N \in Nat, NEW S, (0..N) \ S # {}
    PROVE  \E n \in (0..N) \ S : \A m \in 0..(n - 1) : m \in S
<1> DEFINE T == (0..N) \ S
<1>1. T \in SUBSET Nat /\ T # {}
  OBVIOUS
<1> HIDE DEF T
<1>2. PICK n \in T : \A m \in T : ~ (<<m, n>> \in OpToRel(<, Nat))
  BY <1>1, NatLessThanWellFounded, WFMin, Zenon
<1>3. \A m \in T : ~ (m < n)
  <2>1. TAKE m \in T
  <2>2. m \in Nat /\ n \in Nat
    BY <1>1
  <2> QED
    BY <1>2, <2>2 DEF OpToRel
<1>4. n \in 0..N /\ n \notin S
  BY DEF T
<1>5. \A m \in 0..(n - 1) : m \in S
  <2>1. TAKE m \in 0..(n - 1)
  <2>2. m \in 0..N /\ m < n
    BY <1>4
  <2>3. m \notin T
    BY <1>3, <2>2
  <2> QED
    BY <2>2, <2>3 DEF T
<1> QED
  BY <1>4, <1>5

\* The greatest number of 1 .. N outside of a set of numbers.
LEMMA LastOutside ==
    ASSUME NEW N \in Nat, NEW S, (1 .. N) \ S # {}
    PROVE  \E n \in (1 .. N) \ S : \A m \in n + 1 .. N : m \in S
<1> DEFINE T == {k \in Nat : N - k \in (1 .. N) \ S}
<1>1. T \in SUBSET Nat /\ T # {}
  <2>1. PICK n \in (1 .. N) \ S : TRUE
    OBVIOUS
  <2>2. N - n \in T
    BY <2>1
  <2> QED
    BY <2>2
<1>2. PICK k \in T : \A m \in T : ~ (<<m, k>> \in OpToRel(<, Nat))
  <2> HIDE DEF T
  <2> QED
    BY <1>1, NatLessThanWellFounded, WFMin, Zenon
<1>3. \A m \in T : ~ (m < k)
  <2>1. TAKE m \in T
  <2>2. m \in Nat /\ k \in Nat
    BY <1>1
  <2> QED
    BY <1>2, <2>2 DEF OpToRel
<1>4. N - k \in (1 .. N) \ S /\ k \in Nat
  OBVIOUS
<1>5. \A m \in (N - k) + 1 .. N : m \in S
  <2>1. SUFFICES ASSUME NEW m \in (N - k) + 1 .. N, m \notin S PROVE FALSE
    OBVIOUS
  <2>2. m \in 1 .. N /\ N - m \in Nat /\ N - (N - m) = m
    BY <1>4
  <2>3. N - m \in T
    BY <2>1, <2>2
  <2>4. N - m < k
    BY <1>4, <2>1
  <2> HIDE DEF T
  <2> QED
    BY <1>3, <2>3, <2>4
<1> QED
  BY <1>4, <1>5

\* As many numbers after a shift as before.
LEMMA Shifted ==
    ASSUME NEW S \in SUBSET Int, IsFiniteSet(S), NEW d \in Int
    PROVE  /\ IsFiniteSet({i \in Int : i + d \in S})
           /\ Cardinality({i \in Int : i + d \in S}) = Cardinality(S)
<1> DEFINE T == {i \in Int : i + d \in S}
           f == [x \in S |-> x - d]
<1>1. f \in Bijection(S, T)
  <2>1. f \in [S -> T]
    OBVIOUS
  <2>2. \A a, b \in S : f[a] = f[b] => a = b
    OBVIOUS
  <2>3. \A y \in T : \E x \in S : f[x] = y
    <3>1. TAKE y \in T
    <3>2. y + d \in S /\ f[y + d] = y
      OBVIOUS
    <3> QED
      BY <3>2
  <2> HIDE DEF f, T
  <2>4. f \in Injection(S, T)
    BY <2>1, <2>2 DEF Injection, IsInjective
  <2>5. f \in Surjection(S, T)
    BY <2>1, <2>3 DEF Surjection
  <2> QED
    BY <2>4, <2>5 DEF Bijection
<1> HIDE DEF f, T
<1>2. ExistsBijection(S, T)
  BY <1>1 DEF ExistsBijection
<1>3. IsFiniteSet(T) /\ Cardinality(T) = Cardinality(S)
  BY <1>2, FS_Bijection
<1> QED
  BY <1>3 DEF T

\* One more of some numbers up to n.
LEMMA Counted ==
    ASSUME NEW n \in Nat, NEW S \in SUBSET (1 .. n)
    PROVE  /\ IsFiniteSet(S) /\ Cardinality(S) \in Nat
           /\ IsFiniteSet(S \cup {n + 1}) /\ Cardinality(S \cup {n + 1}) = Cardinality(S) + 1
<1>1. IsFiniteSet(1 .. n)
  BY FS_Interval
<1>2. IsFiniteSet(S) /\ Cardinality(S) \in Nat
  BY <1>1, FS_Subset, FS_CardinalityType
<1>3. n + 1 \notin S
  OBVIOUS
<1> QED
  BY <1>2, <1>3, FS_AddElement

\* A log with one more entry.
LEMMA Appended ==
    ASSUME NEW S, NEW log \in Seq(S), NEW x \in S
    PROVE  /\ Append(log, x) \in Seq(S)
           /\ DOMAIN Append(log, x) = DOMAIN log \cup {Len(log) + 1}
           /\ \A i \in DOMAIN log : i < Len(log) + 1 /\ Append(log, x)[i] = log[i]
           /\ Append(log, x)[Len(log) + 1] = x
OBVIOUS

\* The entries of a log.
LEMMA Logged ==
    ASSUME NEW S, NEW log \in Seq(S), NEW i \in DOMAIN log
    PROVE  log[i] \in S
OBVIOUS

\* A log of some is a log of more.
LEMMA Wider ==
    ASSUME NEW S, NEW T, S \subseteq T, NEW log \in Seq(S)
    PROVE  log \in Seq(T)
OBVIOUS

\* A store keeps within its capacity when it forgets, and when it takes one more for which it
\* has room.
LEMMA KeptWithin ==
    ASSUME NEW full, IsFiniteSet(full), NEW kept \in SUBSET full, NEW n \in Nat,
           Cardinality(full) <= n
    PROVE  /\ IsFiniteSet(kept) /\ Cardinality(kept) <= n
           /\ \A x : /\ IsFiniteSet(kept \cup {x})
                     /\ Cardinality(kept) < n => Cardinality(kept \cup {x}) <= n
<1>1. IsFiniteSet(kept) /\ Cardinality(kept) \in Nat /\ Cardinality(kept) <= n
  BY FS_Subset, FS_CardinalityType
<1>2. ASSUME NEW x
      PROVE  /\ IsFiniteSet(kept \cup {x})
             /\ Cardinality(kept) < n => Cardinality(kept \cup {x}) <= n
  <2>1. /\ IsFiniteSet(kept \cup {x})
        /\ Cardinality(kept \cup {x}) = IF x \in kept THEN Cardinality(kept) ELSE Cardinality(kept) + 1
    BY <1>1, FS_AddElement, Zenon
  <2> QED
    BY <1>1, <2>1
<1> QED
  BY <1>1, <1>2

-----------------------------------------------------------------------------
(* Credentials: every draft and every capability is tied to the revocations and rotations it *)
(* has been overtaken by (Outdated), every resolution to the state of its capability          *)

\* The fields of a call, by the step the call is at.
LEMMA CallFields ==
    ASSUME TypeOK, NEW t \in Threads
    PROVE  /\ calls[t].op \in {"idle", "read", "vault", "register", "consume", "release", "sweep"}
           /\ calls[t].op = "read" => calls[t] \in ReadType
           /\ calls[t].op \in {"vault", "register"} => calls[t] \in DraftType
           /\ calls[t].op \in {"consume", "release"} => calls[t] \in ResolveType
           /\ calls[t].op = "sweep" => calls[t] \in SweepType
  <1>1. calls[t] \in {Idle} \cup ReadType \cup DraftType \cup ResolveType \cup SweepType
    BY DEF TypeOK
  <1>2. CASE calls[t] = Idle
    BY <1>2 DEF Idle
  <1>3. CASE calls[t] \in ReadType
    BY <1>3 DEF ReadType
  <1>4. CASE calls[t] \in DraftType
    BY <1>4 DEF DraftType
  <1>5. CASE calls[t] \in ResolveType
    BY <1>5 DEF ResolveType
  <1>6. CASE calls[t] \in SweepType
    BY <1>6 DEF SweepType
  <1> QED
    BY <1>1, <1>2, <1>3, <1>4, <1>5, <1>6

\* Initially nothing is stored and nobody is in a call.
LEMMA InitIInv == Init => IInv
  <1> SUFFICES ASSUME Init PROVE IInv
    OBVIOUS
  <1>1. TypeOK
    BY BrokerAssumption DEF Init, TypeOK, Ids, Idle
  <1>2. Consistent
    BY BrokerAssumption DEF Init, Consistent, CallConsistent, ItemConsistent, Ids, Idle
  <1>3. ReleasedOnce /\ NoReleaseAcrossSweep
    BY BrokerAssumption DEF Init, ReleasedOnce, NoReleaseAcrossSweep, Ids
  <1> QED
    BY <1>1, <1>2, <1>3 DEF IInv

-----------------------------------------------------------------------------
(* Steps that change nothing but a call *)

\* A call that goes to a step other than "release", and agrees with the state there,
\* leaves the invariant alone.
LEMMA OnlyCall ==
    ASSUME IInv, NEW t \in Threads, NEW call,
           call \in {Idle} \cup ReadType \cup DraftType \cup ResolveType \cup SweepType,
           Goto(t, call),
           UNCHANGED <<now, broker, vault, store, history>>,
           call.op # "release",
           call.op = "consume" => call.id <= size,
           CallConsistent(t)'
    PROVE  IInv'
  <1> USE DEF Goto, history, store, broker
  <1>1. \A u \in Threads : calls'[u] = IF u = t THEN call ELSE calls[u]
    BY DEF IInv, TypeOK
  <1>2. TypeOK'
    BY <1>1 DEF IInv, TypeOK
  <1>3. \A u \in Threads : CallConsistent(u)'
    BY <1>1 DEF IInv, Consistent, CallConsistent, Sound, Outdated
  <1>4. Consistent'
    BY <1>3 DEF IInv, Consistent, ItemConsistent, Sound, Outdated
  <1>5. ReleasedOnce' /\ NoReleaseAcrossSweep'
    BY DEF IInv, ReleasedOnce, NoReleaseAcrossSweep
  <1> QED
    BY <1>2, <1>4, <1>5 DEF IInv

\* A call that ends without having written anything.
LEMMA OnlyFinish ==
    ASSUME IInv, NEW t \in Threads, Finish(t),
           UNCHANGED <<now, broker, vault, store, history>>
    PROVE  IInv'
  <1>1. calls'[t] = Idle
    BY DEF Finish, Goto, IInv, TypeOK
  <1>2. CallConsistent(t)'
    BY <1>1 DEF CallConsistent, Idle
  <1> QED
    BY <1>2, OnlyCall DEF Finish, Idle

-----------------------------------------------------------------------------
(* Steps of issue *)

\* issue starts with a call that claims nothing about the broker yet.
LEMMA StepIssueBegin ==
    ASSUME IInv, NEW t \in Threads, NEW r \in References, NEW x \in Executions,
           NEW ttl \in 1 .. MaximumTtl, IssueBegin(t, r, x, ttl)
    PROVE  IInv'
  <1> DEFINE call == [op |-> "read", reference |-> r, execution |-> x, issued_at |-> now,
                      expires_at |-> Smaller(now + ttl, x.expires_at)]
  <1>1. call \in ReadType
    BY BrokerAssumption DEF ReadType, Smaller, ExecutionType, IInv, TypeOK
  <1>2. calls'[t] = call /\ Goto(t, call)
    BY DEF IssueBegin, Goto, IInv, TypeOK
  <1>3. CallConsistent(t)'
    BY <1>2 DEF CallConsistent
  <1> QED
    BY <1>1, <1>2, <1>3, OnlyCall DEF IssueBegin

\* The draft is made of what the broker says now: nothing has overtaken it.
LEMMA StepIssueRead ==
    ASSUME IInv, NEW t \in Threads, IssueRead(t)
    PROVE  IInv'
  <1> DEFINE r == calls[t].reference
             c == [reference |-> r, execution |-> calls[t].execution, version |-> versions[r],
                   issued_at |-> calls[t].issued_at, expires_at |-> calls[t].expires_at,
                   decided |-> marks[r]]
             call == [op |-> "vault", capability |-> c]
  <1>1. CASE r \in revoked
    BY <1>1, OnlyFinish DEF IssueRead
  <1>2. CASE r \notin revoked
    <2>1. calls[t] \in ReadType
      BY CallFields DEF IssueRead, IInv
    <2>2. call \in DraftType /\ c \in CapabilityType
      BY <2>1 DEF DraftType, CapabilityType, ReadType, IInv, TypeOK
    <2>3. calls'[t] = call /\ Goto(t, call)
      BY <1>2 DEF IssueRead, Goto, IInv, TypeOK
    <2>4. CallConsistent(t)'
      <3>1. versions[r] \in Nat /\ marks[r] \in Nat
        BY <2>1 DEF ReadType, IInv, TypeOK
      <3> QED
        BY <2>3, <3>1 DEF CallConsistent, Sound, Outdated, IssueRead, broker, history
    <2> QED
      BY <2>2, <2>3, <2>4, OnlyCall DEF IssueRead
  <1> QED
    BY <1>1, <1>2

\* The vault does not touch the draft.
LEMMA StepIssueVault ==
    ASSUME IInv, NEW t \in Threads, IssueVault(t)
    PROVE  IInv'
  <1> DEFINE call == [op |-> "register", capability |-> calls[t].capability]
  <1>1. CASE Finish(t)
    BY <1>1, OnlyFinish DEF IssueVault
  <1>2. CASE Goto(t, call)
    <2>1. call \in DraftType
      BY CallFields DEF DraftType, IInv, IssueVault
    <2>2. calls'[t] = call
      BY <1>2 DEF Goto, IInv, TypeOK
    <2>3. CallConsistent(t)'
      BY <2>2 DEF CallConsistent, Sound, Outdated, IssueVault, broker, history, IInv, Consistent
    <2> QED
      BY <1>2, <2>1, <2>2, <2>3, OnlyCall DEF IssueVault
  <1> QED
    BY <1>1, <1>2 DEF IssueVault

\* The draft takes the next free place of the store; no other call is about that place.
LEMMA StepIssueRegister ==
    ASSUME IInv, NEW t \in Threads, IssueRegister(t)
    PROVE  IInv'
  <1> DEFINE c == calls[t].capability
  <1>1. CASE UNCHANGED store
    BY <1>1, OnlyFinish DEF IssueRegister
  <1>2. CASE size < MaxCapabilities /\ Registered(c)
    <2> USE BrokerAssumption
    <2>1. c \in CapabilityType /\ Sound(c)
      BY CallFields DEF DraftType, IInv, IssueRegister, Consistent, CallConsistent
    <2>2. /\ size \in Nat /\ size + 1 \in Ids /\ size' = size + 1
          /\ \A i \in Ids : items'[i] = IF i = size + 1 THEN "stored" ELSE items[i]
          /\ \A i \in Ids : capabilities'[i] = IF i = size + 1 THEN c ELSE capabilities[i]
          /\ \A u \in Threads : calls'[u] = IF u = t THEN Idle ELSE calls[u]
      BY <1>2 DEF Registered, Ids, IInv, TypeOK, IssueRegister, Finish, Goto
    <2>3. UNCHANGED <<now, broker, vault, history>>
      BY DEF IssueRegister
    <2>4. TypeOK'
      <3>1. /\ size' \in 0 .. MaxCapabilities
            /\ items' \in [Ids -> {"absent", "stored", "consumed", "revoked", "expired"}]
            /\ capabilities' \in [Ids -> CapabilityType \cup {NoCapability}]
        BY <1>2, <2>1, <2>2 DEF Registered, IInv, TypeOK
      <3>2. \A i \in Ids : /\ i <= size' => capabilities'[i] \in CapabilityType
                           /\ i <= size' <=> items'[i] # "absent"
        <4> TAKE i \in Ids
        <4>1. i \in Nat /\ (i <= size' <=> i <= size \/ i = size + 1)
          BY <2>2 DEF Ids
        <4>2. /\ i <= size => capabilities[i] \in CapabilityType
              /\ i <= size <=> items[i] # "absent"
          BY DEF IInv, TypeOK
        <4> QED
          BY <2>1, <2>2, <4>1, <4>2
      <3>3. calls' \in [Threads -> {Idle} \cup ReadType \cup DraftType \cup ResolveType \cup SweepType]
        BY DEF IssueRegister, Finish, Goto, IInv, TypeOK
      <3>4. \A u \in Threads : calls'[u].op \in {"consume", "release"} => calls'[u].id <= size'
        <4>1. \A u \in Threads : calls[u].op \in {"consume", "release"} => calls[u].id \in Ids
          BY CallFields DEF ResolveType, IInv
        <4>2. \A u \in Threads : calls[u].op \in {"consume", "release"} => calls[u].id <= size
          BY DEF IInv, TypeOK
        <4> QED
          BY <2>2, <4>1, <4>2 DEF Idle, Ids
      <3> QED
        BY <2>3, <3>1, <3>2, <3>3, <3>4 DEF IInv, TypeOK, broker, history
    <2>5. \A u \in Threads : CallConsistent(u)'
      <3> TAKE u \in Threads
      <3>1. CASE u = t
        BY <2>2, <3>1 DEF CallConsistent, Idle
      <3>2. CASE u # t
        <4>1. calls'[u] = calls[u] /\ CallConsistent(u)
          BY <2>2, <3>2 DEF IInv, Consistent
        <4>2. calls[u].op \in {"consume", "release"} =>
                /\ calls[u].id \in Ids /\ calls[u].id # size + 1
                /\ items'[calls[u].id] = items[calls[u].id]
                /\ capabilities'[calls[u].id] = capabilities[calls[u].id]
          <5>1. calls[u].op \in {"consume", "release"} => calls[u].id \in Ids
            BY CallFields DEF ResolveType, IInv
          <5>2. calls[u].op \in {"consume", "release"} => calls[u].id <= size
            BY DEF IInv, TypeOK
          <5> QED
            BY <2>2, <5>1, <5>2 DEF Ids
        <4>3. \A w \in Threads : calls'[w].op = "release" => calls'[w] = calls[w]
          BY <2>2 DEF Idle
        <4> QED
          BY <2>3, <4>1, <4>2, <4>3 DEF CallConsistent, Sound, Outdated, broker, history
      <3> QED
        BY <3>1, <3>2
    <2>6. \A id \in 1 .. size' : ItemConsistent(id)'
      <3> TAKE id \in 1 .. size'
      <3>1. CASE id = size + 1
        <4>1. /\ items'[id] = "stored" /\ capabilities'[id] = c
              /\ releases'[id] = releases[id] /\ UNCHANGED <<versions, revoked, marks>>
          BY <2>2, <2>3, <3>1 DEF broker, history
        <4>2. releases[id] = 0
          BY <2>2, <3>1 DEF IInv, Consistent
        <4> QED
          BY <2>1, <4>1, <4>2 DEF ItemConsistent, Sound, Outdated
      <3>2. CASE id # size + 1
        <4>1. id \in 1 .. size /\ id \in Ids
          BY <2>2, <3>2 DEF Ids
        <4>2. ItemConsistent(id)
          BY <4>1 DEF IInv, Consistent
        <4> QED
          BY <2>2, <2>3, <3>2, <4>1, <4>2 DEF ItemConsistent, Sound, Outdated, broker, history
      <3> QED
        BY <3>1, <3>2
    <2>7. Consistent'
      <3>1. \A i \in Ids : i > size' => releases'[i] = 0
        <4> TAKE i \in Ids
        <4>1. i > size' => i > size
          BY <2>2 DEF Ids
        <4> QED
          BY <2>3, <4>1 DEF IInv, Consistent, history
      <3> QED
        BY <2>3, <2>5, <2>6, <3>1 DEF Consistent, IInv, history
    <2>8. ReleasedOnce'
      BY <2>3 DEF ReleasedOnce, IInv, history
    <2>9. NoReleaseAcrossSweep'
      <3>1. releases[size + 1] = 0
        BY <2>2 DEF IInv, Consistent
      <3>2. \A i \in 1 .. size' : i = size + 1 \/ i \in 1 .. size
        BY <2>2
      <3>3. \A i \in 1 .. size : i \in Ids /\ i # size + 1
        BY <2>2 DEF IInv, TypeOK, Ids
      <3>4. \A i \in 1 .. size : capabilities'[i] = capabilities[i]
        BY <2>2, <3>3
      <3> QED
        BY <2>3, <3>1, <3>2, <3>4 DEF NoReleaseAcrossSweep, IInv, history
    <2> QED
      BY <2>4, <2>7, <2>8, <2>9 DEF IInv
  <1> QED
    BY <1>1, <1>2 DEF IssueRegister

-----------------------------------------------------------------------------
(* Steps of resolve *)

\* A capability that passes the checks has not been overtaken, so no later call has
\* gone through the store either.
LEMMA StepResolveBegin ==
    ASSUME IInv, NEW t \in Threads, NEW id \in 1 .. size, NEW x \in Executions,
           ResolveBegin(t, id, x)
    PROVE  IInv'
  <1> DEFINE c == capabilities[id]
             call == [op |-> "consume", id |-> id, time |-> now, seen |-> marks[c.reference]]
  <1>1. id \in Ids /\ c \in CapabilityType
    BY BrokerAssumption DEF IInv, TypeOK, Ids
  <1>2. call \in ResolveType
    BY <1>1 DEF ResolveType, CapabilityType, IInv, TypeOK
  <1>3. calls'[t] = call /\ Goto(t, call)
    BY DEF ResolveBegin, Goto, IInv, TypeOK
  <1>4. c.decided = marks[c.reference] /\ swept[c.reference] <= marks[c.reference]
    <2>1. Sound(c) /\ swept[c.reference] <= marks[c.reference]
      BY <1>1 DEF IInv, Consistent, ItemConsistent, CapabilityType
    <2>2. c.reference \notin revoked /\ versions[c.reference] = c.version
      BY DEF ResolveBegin, MayResolve
    <2>3. c.decided \in Nat /\ c.version \in Nat /\ marks[c.reference] \in Nat
      BY <1>1 DEF CapabilityType, IInv, TypeOK
    <2> QED
      BY <2>1, <2>2, <2>3 DEF Sound, Outdated
  <1>5. CallConsistent(t)'
    BY <1>1, <1>3, <1>4 DEF CallConsistent, ResolveBegin, MayResolve, broker, store, history,
       CapabilityType, IInv, TypeOK
  <1> QED
    BY <1>1, <1>2, <1>3, <1>5, OnlyCall DEF ResolveBegin

\* Only the first to find the capability "stored" goes on, and then no later call has
\* gone through the store.
LEMMA StepResolveConsume ==
    ASSUME IInv, NEW t \in Threads, ResolveConsume(t)
    PROVE  IInv'
  <1> DEFINE id == calls[t].id
             call == [calls[t] EXCEPT !.op = "release"]
  <1>1. /\ calls[t] \in ResolveType /\ calls[t].op = "consume"
        /\ id \in Ids /\ id <= size /\ id \in 1 .. size
        /\ capabilities[id] \in CapabilityType
    BY BrokerAssumption, CallFields DEF ResolveConsume, ResolveType, IInv, TypeOK, Ids
  <1>2. CallConsistent(t) /\ ItemConsistent(id)
    BY <1>1 DEF IInv, Consistent
  <1>3. calls[t].time < capabilities[id].expires_at
    BY <1>1, <1>2 DEF CallConsistent
  <1>4. CASE items[id] \in {"revoked", "consumed"}
    <2>1. Finish(t) /\ UNCHANGED <<items, consumed>>
      BY <1>1, <1>4 DEF ResolveConsume, Consumed, Usable, IInv, TypeOK
    <2> QED
      BY <2>1, OnlyFinish DEF ResolveConsume, store, history
  <1>5. CASE Finish(t) /\ UNCHANGED <<items, consumed>>
    BY <1>5, OnlyFinish DEF ResolveConsume, store, history
  <1>6. CASE /\ items[id] \notin {"revoked", "consumed"}
             /\ ~ (Finish(t) /\ UNCHANGED <<items, consumed>>)
    <2>1. items[id] = "stored"
      BY <1>1, <1>2, <1>6 DEF ItemConsistent, IInv, TypeOK
    <2>2. Usable(id, calls[t].time) /\ Consumed(id, calls[t].time) = "consumed"
      BY <1>1, <1>3, <2>1 DEF Usable, Consumed, ResolveType, CapabilityType
    <2>3. /\ items' = [items EXCEPT ![id] = "consumed"]
          /\ Goto(t, call)
          /\ consumed' = [consumed EXCEPT ![id] = swept[capabilities[id].reference]]
          /\ UNCHANGED <<now, broker, vault, size, capabilities, marks, swept, releases>>
      BY <1>6, <2>2 DEF ResolveConsume
    <2>4. call \in ResolveType /\ call.op = "release" /\ call.id = id
            /\ call.seen = calls[t].seen /\ call.time = calls[t].time
      BY <1>1 DEF ResolveType
    <2>5. /\ \A i \in Ids : items'[i] = IF i = id THEN "consumed" ELSE items[i]
          /\ \A i \in Ids :
               consumed'[i] = IF i = id THEN swept[capabilities[id].reference] ELSE consumed[i]
          /\ \A u \in Threads : calls'[u] = IF u = t THEN call ELSE calls[u]
      BY <2>3 DEF Goto, IInv, TypeOK
    <2>6. swept[capabilities[id].reference] \in Nat
            /\ swept[capabilities[id].reference] <= capabilities[id].decided
      BY <1>1, <1>2, <2>1 DEF CallConsistent, CapabilityType, IInv, TypeOK
    <2>7. TypeOK'
      <3>1. calls' \in [Threads -> {Idle} \cup ReadType \cup DraftType \cup ResolveType \cup SweepType]
        BY <2>3, <2>4 DEF Goto, IInv, TypeOK
      <3>2. \A u \in Threads : calls'[u].op \in {"consume", "release"} => calls'[u].id <= size'
        BY <1>1, <2>3, <2>4, <2>5 DEF IInv, TypeOK
      <3>3. /\ items' \in [Ids -> {"absent", "stored", "consumed", "revoked", "expired"}]
            /\ consumed' \in [Ids -> Nat]
        BY <2>3, <2>6 DEF IInv, TypeOK
      <3>4. \A i \in Ids : i <= size' <=> items'[i] # "absent"
        BY <1>1, <2>3, <2>5 DEF IInv, TypeOK
      <3> QED
        BY <2>3, <3>1, <3>2, <3>3, <3>4 DEF IInv, TypeOK, broker
    <2>8. \A u \in Threads : calls[u].op = "release" => calls[u].id # id
      BY <2>1 DEF IInv, Consistent, CallConsistent
    <2>9. releases[id] = 0
      BY <1>1, <1>2, <2>1 DEF ItemConsistent, IInv, TypeOK
    <2>10. \A u \in Threads : CallConsistent(u)'
      <3> TAKE u \in Threads
      <3>1. CASE u = t
        <4>1. calls'[u] = call
          BY <2>5, <3>1
        <4>2. \A w \in Threads : calls'[w].op = "release" /\ calls'[w].id = id => w = t
          BY <2>5, <2>8
        <4> QED
          BY <1>1, <1>2, <2>3, <2>4, <2>5, <2>6, <2>9, <3>1, <4>1, <4>2 DEF CallConsistent
      <3>2. CASE u # t
        <4>1. calls'[u] = calls[u] /\ CallConsistent(u)
          BY <2>5, <3>2 DEF IInv, Consistent
        <4>2. calls[u].op \in {"consume", "release"} => calls[u].id \in Ids
          BY CallFields DEF ResolveType, IInv
        <4>3. calls[u].op = "release" => \A w \in Threads :
                 calls'[w].op = "release" /\ calls'[w].id = calls[u].id => w = u
          <5> SUFFICES ASSUME calls[u].op = "release", NEW w \in Threads,
                              calls'[w].op = "release", calls'[w].id = calls[u].id
                       PROVE  w = u
            OBVIOUS
          <5>1. calls[u].id # id /\ calls'[t].id = id
            BY <2>4, <2>5, <2>8
          <5>2. w # t /\ calls'[w] = calls[w]
            BY <2>5, <5>1
          <5> QED
            BY <4>1, <5>2 DEF CallConsistent
        <4>4. UNCHANGED <<versions, revoked, marks, swept, releases, capabilities>>
          BY <2>3 DEF broker
        <4> QED
          BY <2>5, <2>8, <4>1, <4>2, <4>3, <4>4 DEF CallConsistent, Sound, Outdated
      <3> QED
        BY <3>1, <3>2
    <2>11. \A i \in 1 .. size' : ItemConsistent(i)'
      BY <2>3, <2>5 DEF ItemConsistent, Sound, Outdated, broker, IInv, Consistent, TypeOK, Ids
    <2>12. Consistent'
      BY <2>3, <2>10, <2>11 DEF Consistent, IInv, broker
    <2>13. ReleasedOnce' /\ NoReleaseAcrossSweep'
      BY BrokerAssumption, <2>3, <2>5, <2>9 DEF ReleasedOnce, NoReleaseAcrossSweep, IInv, TypeOK, Ids
    <2> QED
      BY <2>7, <2>12, <2>13 DEF IInv
  <1> QED
    BY <1>4, <1>5, <1>6

\* The only call at "release" for the capability adds the first release.
LEMMA StepResolveVault ==
    ASSUME IInv, NEW t \in Threads, ResolveVault(t)
    PROVE  IInv'
  <1> DEFINE id == calls[t].id
  <1>1. CASE UNCHANGED releases
    BY <1>1, OnlyFinish DEF ResolveVault, history
  <1>2. CASE releases' = [releases EXCEPT ![id] = @ + 1]
    <2>1. id \in Ids /\ id <= size /\ id \in 1 .. size
      <3>1. calls[t].op = "release" /\ TypeOK
        BY DEF ResolveVault, IInv
      <3>2. id \in Ids
        BY <3>1, CallFields DEF ResolveType
      <3>3. id <= size
        BY <3>1 DEF TypeOK
      <3> QED
        BY BrokerAssumption, <3>1, <3>2, <3>3 DEF TypeOK, Ids
    <2>2. /\ items[id] = "consumed" /\ releases[id] = 0
          /\ consumed[id] <= capabilities[id].decided
          /\ \A u \in Threads : calls[u].op = "release" /\ calls[u].id = id => u = t
      BY DEF ResolveVault, IInv, Consistent, CallConsistent
    <2>3. UNCHANGED <<now, versions, revoked, vault, size, items, capabilities, marks, swept, consumed>>
      BY DEF ResolveVault, broker, store
    <2>4. /\ \A i \in Ids : releases'[i] = IF i = id THEN 1 ELSE releases[i]
          /\ \A u \in Threads : calls'[u] = IF u = t THEN Idle ELSE calls[u]
      BY <1>2, <2>1, <2>2 DEF ResolveVault, Finish, Goto, IInv, TypeOK
    <2>5. TypeOK'
      BY <1>2, <2>1, <2>2, <2>3, <2>4 DEF ResolveVault, Finish, Goto, IInv, TypeOK, Idle
    <2>6. \A u \in Threads : CallConsistent(u)'
      <3> TAKE u \in Threads
      <3>1. CASE u = t
        BY <2>4, <3>1 DEF CallConsistent, Idle
      <3>2. CASE u # t
        <4>1. calls'[u] = calls[u] /\ CallConsistent(u)
          BY <2>4, <3>2 DEF IInv, Consistent
        <4>2. calls[u].op \in {"consume", "release"} => calls[u].id \in Ids
          BY CallFields DEF ResolveType, IInv
        <4>3. \A w \in Threads : calls'[w].op = "release" => calls'[w] = calls[w]
          BY <2>4 DEF Idle
        <4> QED
          BY <2>2, <2>3, <2>4, <3>2, <4>1, <4>2, <4>3 DEF CallConsistent, Sound, Outdated
      <3> QED
        BY <3>1, <3>2
    <2>7. Consistent'
      <3>1. \A i \in 1 .. size' : ItemConsistent(i)'
        <4> TAKE i \in 1 .. size'
        <4>1. i \in 1 .. size /\ i \in Ids /\ ItemConsistent(i)
          BY BrokerAssumption, <2>3 DEF IInv, Consistent, TypeOK, Ids
        <4> QED
          BY <2>2, <2>3, <2>4, <4>1 DEF ItemConsistent, Sound, Outdated
      <3>2. \A i \in Ids : i > size' => releases'[i] = 0
        BY BrokerAssumption, <2>1, <2>3, <2>4 DEF IInv, Consistent, TypeOK, Ids
      <3> QED
        BY <2>3, <2>6, <3>1, <3>2 DEF Consistent, IInv
    <2>8. ReleasedOnce' /\ NoReleaseAcrossSweep'
      <3>1. \A i \in Ids : releases'[i] <= 1
        BY <2>4 DEF IInv, ReleasedOnce
      <3>2. \A i \in 1 .. size' : releases'[i] > 0 => consumed'[i] <= capabilities'[i].decided
        <4> TAKE i \in 1 .. size'
        <4>1. i \in 1 .. size /\ i \in Ids
          BY BrokerAssumption, <2>3 DEF IInv, TypeOK, Ids
        <4>2. releases[i] > 0 => consumed[i] <= capabilities[i].decided
          BY <4>1 DEF IInv, NoReleaseAcrossSweep
        <4> QED
          BY <2>2, <2>3, <2>4, <4>1, <4>2
      <3> QED
        BY <3>1, <3>2 DEF ReleasedOnce, NoReleaseAcrossSweep
    <2> QED
      BY <2>5, <2>7, <2>8 DEF IInv
  <1> QED
    BY <1>1, <1>2 DEF ResolveVault

-----------------------------------------------------------------------------
(* Steps of revoke and rotate *)

\* Every capability of the reference is outdated by the mark: the versions only grow,
\* and the reference is revoked or its version has grown.
LEMMA StepMark ==
    ASSUME IInv, NEW t \in Threads, NEW r \in References, Marked(t, r),
           versions' \in [References -> Nat], revoked' \subseteq References,
           \A q \in References : q # r =>
             versions'[q] = versions[q] /\ (q \in revoked' <=> q \in revoked),
           versions[r] <= versions'[r],
           r \in revoked' \/ versions[r] < versions'[r]
    PROVE  IInv'
  <1> DEFINE call == [op |-> "sweep", reference |-> r, mark |-> marks[r] + 1]
  <1>1. call \in SweepType
    BY DEF SweepType, IInv, TypeOK
  <1>2. /\ \A q \in References : marks'[q] = IF q = r THEN marks[r] + 1 ELSE marks[q]
        /\ \A u \in Threads : calls'[u] = IF u = t THEN call ELSE calls[u]
        /\ UNCHANGED <<now, vault, size, items, capabilities, swept, consumed, releases>>
    BY DEF Marked, Goto, store, IInv, TypeOK
  <1>3. TypeOK'
    <2>1. /\ calls' \in [Threads -> {Idle} \cup ReadType \cup DraftType \cup ResolveType \cup SweepType]
          /\ marks' \in [References -> Nat]
      BY <1>1 DEF Marked, Goto, IInv, TypeOK
    <2> QED
      BY <1>2, <2>1 DEF IInv, TypeOK
  <1>4. ASSUME NEW c \in CapabilityType, Sound(c)
        PROVE  Sound(c)'
    <2>1. /\ c.reference \in References /\ c.version \in Nat /\ c.decided \in Nat
          /\ versions[c.reference] \in Nat /\ versions'[c.reference] \in Nat
          /\ marks[c.reference] \in Nat
      BY <1>3 DEF CapabilityType, IInv, TypeOK
    <2> QED
      BY <1>2, <1>4, <2>1 DEF Sound, Outdated
  <1>5. \A u \in Threads : CallConsistent(u)'
    <2> TAKE u \in Threads
    <2>1. CASE u = t
      BY <1>2, <2>1 DEF CallConsistent, IInv, TypeOK
    <2>2. CASE u # t
      <3>1. calls'[u] = calls[u] /\ CallConsistent(u)
        BY <1>2, <2>2 DEF IInv, Consistent
      <3>2. calls[u].op \in {"vault", "register"} => Sound(calls[u].capability)'
        BY <1>4, <3>1, CallFields DEF CallConsistent, DraftType, IInv
      <3>3. calls[u].op = "sweep" => calls[u].mark <= marks'[calls[u].reference]
        BY <1>2, <3>1, CallFields DEF CallConsistent, SweepType, IInv, TypeOK
      <3>4. \A w \in Threads : calls'[w].op = "release" => calls'[w] = calls[w]
        BY <1>2
      <3> QED
        BY <1>2, <3>1, <3>2, <3>3, <3>4 DEF CallConsistent, Sound, Outdated
    <2> QED
      BY <2>1, <2>2
  <1>6. Consistent'
    <2>1. \A q \in References : swept'[q] <= marks'[q]
      BY <1>2 DEF IInv, Consistent, TypeOK
    <2>2. \A i \in 1 .. size' : ItemConsistent(i)'
      BY <1>2, <1>4, BrokerAssumption DEF ItemConsistent, IInv, Consistent, TypeOK, Ids
    <2> QED
      BY <1>2, <1>5, <2>1, <2>2 DEF Consistent, IInv
  <1>7. ReleasedOnce' /\ NoReleaseAcrossSweep'
    BY <1>2 DEF ReleasedOnce, NoReleaseAcrossSweep, IInv
  <1> QED
    BY <1>3, <1>6, <1>7 DEF IInv

\* revoke marks the reference before the store is swept.
LEMMA StepRevokeMark ==
    ASSUME IInv, NEW t \in Threads, NEW r \in References, RevokeMark(t, r)
    PROVE  IInv'
  <1>1. versions \in [References -> Nat] /\ revoked \subseteq References
    BY DEF IInv, TypeOK
  <1> QED
    BY <1>1, StepMark DEF RevokeMark

\* rotate marks the reference with a version that is new.
LEMMA StepRotateMark ==
    ASSUME IInv, NEW t \in Threads, NEW r \in References, NEW version \in NewVersions(r),
           RotateMark(t, r, version)
    PROVE  IInv'
  <1>1. versions \in [References -> Nat] /\ revoked \subseteq References
    BY DEF IInv, TypeOK
  <1>2. version \in Nat /\ versions[r] < version
    BY BrokerAssumption DEF NewVersions
  <1> QED
    BY <1>1, <1>2, StepMark DEF RotateMark

\* The sweep takes every "stored" capability of the reference away from the resolutions
\* that have not consumed it.
LEMMA StepSweep ==
    ASSUME IInv, NEW t \in Threads, Sweep(t)
    PROVE  IInv'
  <1> DEFINE r == calls[t].reference
  <1>1. CASE UNCHANGED <<items, swept>>
    BY <1>1, OnlyFinish DEF Sweep, store, history
  <1>2. CASE /\ items' = Swept(r)
             /\ swept' = [swept EXCEPT ![r] = IF @ < calls[t].mark THEN calls[t].mark ELSE @]
    <2>1. /\ r \in References /\ calls[t].mark \in Nat /\ calls[t].mark <= marks[r]
          /\ swept[r] \in Nat /\ marks[r] \in Nat
      BY CallFields DEF Sweep, SweepType, IInv, TypeOK, Consistent, CallConsistent
    <2>2. UNCHANGED <<now, versions, revoked, vault, size, capabilities, marks, consumed, releases>>
      BY DEF Sweep, broker
    <2>3. /\ \A i \in Ids : items'[i] =
               IF items[i] = "stored" /\ capabilities[i].reference = r THEN "revoked" ELSE items[i]
          /\ \A q \in References : q # r => swept'[q] = swept[q]
          /\ swept'[r] \in Nat /\ swept'[r] <= marks[r]
          /\ \A u \in Threads : calls'[u] = IF u = t THEN Idle ELSE calls[u]
      <3>1. swept'[r] = IF swept[r] < calls[t].mark THEN calls[t].mark ELSE swept[r]
        BY <1>2, <2>1 DEF IInv, TypeOK
      <3>2. swept[r] <= marks[r]
        BY <2>1 DEF IInv, Consistent
      <3>3. \A q \in References : q # r => swept'[q] = swept[q]
        BY <1>2 DEF IInv, TypeOK
      <3>4. \A u \in Threads : calls'[u] = IF u = t THEN Idle ELSE calls[u]
        BY DEF Sweep, Finish, Goto, IInv, TypeOK
      <3> QED
        BY <1>2, <2>1, <3>1, <3>2, <3>3, <3>4 DEF Swept
    <2>4. TypeOK'
      <3>1. /\ items' \in [Ids -> {"absent", "stored", "consumed", "revoked", "expired"}]
            /\ swept' \in [References -> Nat]
        BY <1>2, <2>1 DEF Swept, IInv, TypeOK
      <3>2. \A i \in Ids : i <= size' <=> items'[i] # "absent"
        BY <2>2, <2>3 DEF IInv, TypeOK
      <3>3. /\ calls' \in [Threads -> {Idle} \cup ReadType \cup DraftType \cup ResolveType \cup SweepType]
            /\ \A u \in Threads : calls'[u].op \in {"consume", "release"} => calls'[u].id <= size'
        BY <2>2, <2>3 DEF Sweep, Finish, Goto, IInv, TypeOK, Idle
      <3> QED
        BY <2>2, <3>1, <3>2, <3>3 DEF IInv, TypeOK
    <2>5. \A u \in Threads : CallConsistent(u)'
      <3> TAKE u \in Threads
      <3>1. CASE u = t
        BY <2>3, <3>1 DEF CallConsistent, Idle
      <3>2. CASE u # t
        <4>1. calls'[u] = calls[u] /\ CallConsistent(u)
          BY <2>3, <3>2 DEF IInv, Consistent
        <4>2. calls[u].op \in {"consume", "release"} =>
                /\ calls[u].id \in Ids
                /\ capabilities[calls[u].id].reference \in References
          BY CallFields DEF ResolveType, CapabilityType, IInv, TypeOK
        <4>3. \A w \in Threads : calls'[w].op = "release" => calls'[w] = calls[w]
          BY <2>3 DEF Idle
        <4> QED
          BY <2>2, <2>3, <4>1, <4>2, <4>3 DEF CallConsistent, Sound, Outdated
      <3> QED
        BY <3>1, <3>2
    <2>6. \A i \in 1 .. size' : ItemConsistent(i)'
      <3> TAKE i \in 1 .. size'
      <3>1. i \in Ids /\ ItemConsistent(i)
        BY BrokerAssumption, <2>2 DEF IInv, Consistent, TypeOK, Ids
      <3> QED
        BY <2>2, <2>3, <3>1 DEF ItemConsistent, Sound, Outdated
    <2>7. Consistent'
      BY <2>2, <2>3, <2>5, <2>6 DEF Consistent, IInv
    <2>8. ReleasedOnce' /\ NoReleaseAcrossSweep'
      BY <2>2 DEF ReleasedOnce, NoReleaseAcrossSweep, IInv
    <2> QED
      BY <2>4, <2>7, <2>8 DEF IInv
  <1> QED
    BY <1>1, <1>2 DEF Sweep

-----------------------------------------------------------------------------
(* The environment, and the theorems *)

\* The vault and the clock are not part of what the invariant relates.
LEMMA StepEnvironment ==
    ASSUME IInv, Tick \/ (\E r \in References : VaultRotate(r)) \/ UNCHANGED vars
    PROVE  IInv'
  <1>1. UNCHANGED <<versions, revoked, size, items, capabilities, calls, marks, swept, consumed, releases>>
    BY DEF Tick, VaultRotate, vars, broker, store, history
  <1>2. now' \in Nat /\ vault' \in [References -> Nat]
    BY DEF Tick, VaultRotate, vars, IInv, TypeOK
  <1>3. TypeOK'
    BY <1>1, <1>2 DEF IInv, TypeOK
  <1>4. Consistent'
    BY <1>1 DEF IInv, Consistent, CallConsistent, ItemConsistent, Sound, Outdated
  <1>5. ReleasedOnce' /\ NoReleaseAcrossSweep'
    BY <1>1 DEF IInv, ReleasedOnce, NoReleaseAcrossSweep
  <1> QED
    BY <1>3, <1>4, <1>5 DEF IInv

\* Every step of the broker, its store and its callers preserves IInv.
LEMMA StepIInv == IInv /\ [Next]_vars => IInv'
  <1> SUFFICES ASSUME IInv, [Next]_vars PROVE IInv'
    OBVIOUS
  <1>1. ASSUME NEW t \in Threads, Issue(t) PROVE IInv'
    BY <1>1, StepIssueBegin, StepIssueRead, StepIssueVault, StepIssueRegister DEF Issue
  <1>2. ASSUME NEW t \in Threads, Resolve(t) PROVE IInv'
    BY <1>2, StepResolveBegin, StepResolveConsume, StepResolveVault DEF Resolve
  <1>3. ASSUME NEW t \in Threads, Administer(t) PROVE IInv'
    BY <1>3, StepRevokeMark, StepRotateMark, StepSweep DEF Administer
  <1> QED
    BY <1>1, <1>2, <1>3, StepEnvironment DEF Next

\* IInv is an inductive invariant of the broker, its store and its callers.
THEOREM Inductive == Spec => []IInv
  <1> QED
    BY InitIInv, StepIInv, PTL DEF Spec

\* The store never outgrows max_capabilities, and every call is about a capability
\* that it holds.
THEOREM TypeCorrect == Spec => []TypeOK
  <1>1. IInv => TypeOK
    BY DEF IInv
  <1> QED
    BY <1>1, Inductive, PTL

\* resolve gives out the material of a capability at most once, whatever threads,
\* vault and store do.
THEOREM SingleUse == Spec => []ReleasedOnce
  <1>1. IInv => ReleasedOnce
    BY DEF IInv
  <1> QED
    BY <1>1, Inductive, PTL

\* A revoke or rotate that has gone through the store cuts off every capability
\* decided before it.
THEOREM SweepCutsOff == Spec => []NoReleaseAcrossSweep
  <1>1. IInv => NoReleaseAcrossSweep
    BY DEF IInv
  <1> QED
    BY <1>1, Inductive, PTL

\* A resolution that starts after revoke or rotate has marked the reference gets
\* nothing for a capability decided before, whatever the store did.
THEOREM MarkCutsOff == Spec => []NoResolveAfterMark
  <1>1. IInv => NoResolveAfterMark
    BY DEF IInv, Consistent, CallConsistent, NoResolveAfterMark
  <1> QED
    BY <1>1, Inductive, PTL

-----------------------------------------------------------------------------
(* Tool calls *)

\* Limits and uses are natural numbers (ToolExecutionPolicy).
ASSUME AgencyAssumption ==
    /\ ToolRequests \subseteq Agency!RequestType
    /\ MaxToolCalls \in Nat /\ MaxChainActions \in Nat /\ MaxRetries \in Nat /\ MaxParallel \in Nat
    /\ MaxAutonomous \in Nat /\ MaxIntentCalls \in Nat
    /\ \A pair \in DOMAIN FlowRules : FlowRules[pair].max_uses \in Nat
    /\ Reports \subseteq Agency!ReportType

Running == {i \in DOMAIN authorized : outcomes[i] = "running"}

\* The calls granted, and what became of them.
LogInv ==
    /\ semantic \in BOOLEAN
    /\ authorized \in Seq(ToolRequests)
    /\ flows \in Seq(Nat) /\ Len(flows) = Len(authorized)
    /\ outcomes \in Seq({"running", "completed", "succeeded", "failed", "violated"})
    /\ Len(outcomes) = Len(authorized)
    /\ active_authorizations = Running
    /\ active_semantic_requests = IF semantic THEN Running ELSE {}

\* The calls whose outcome is awaited.
Pending == {authorized[i] : i \in active_semantic_requests}

\* A chain goes on only from outcomes that were verified, one call at a time.
ChainInv ==
    /\ quarantined_chains \subseteq ToolChains
    /\ \A i \in DOMAIN authorized :
        outcomes[i] = "violated" => semantic /\ authorized[i].chain \in quarantined_chains
    /\ semantic =>
        \A i, j \in DOMAIN authorized :
            i < j /\ authorized[i].chain = authorized[j].chain
                => outcomes[i] # "running" /\ outcomes[i] # "violated"
    /\ DOMAIN verified_executions \subseteq {i \in DOMAIN authorized : outcomes[i] = "succeeded"}
    /\ chain_history \in [ToolChains -> Seq(DOMAIN authorized)]
    /\ Agency!AdjacentAllowed
    /\ \A r \in Pending : Agency!SequenceAllowed(r)

\* An approval that let a call through is among those used.
ApprovalsInv ==
    /\ \A i \in DOMAIN authorized :
        Agency!ApprovalRequired(authorized[i]) => authorized[i].approval \in used_approval_ids
    /\ Agency!UsedOnce

Uses(s, t) == {i \in DOMAIN authorized : flows[i] = s /\ authorized[i].tool = t}

\* The uses of an output are counted, and come after the call that made it.
FlowsInv ==
    /\ data_flow_uses \in [Agency!FlowKeys -> Nat]
    /\ semantic =>
        /\ \A s \in Agency!Ids, t \in Agency!Tools : data_flow_uses[<<s, t>>] = Cardinality(Uses(s, t))
        /\ \A i \in DOMAIN authorized : flows[i] # Agency!NoFlow =>
            /\ flows[i] \in 1 .. i - 1 /\ outcomes[flows[i]] = "succeeded"
            /\ authorized[flows[i]].chain = authorized[i].chain
        /\ \A s \in DOMAIN authorized, t \in Agency!Tools : Uses(s, t) # {} =>
            Cardinality(Uses(s, t)) <= FlowRules[<<authorized[s].tool, t>>].max_uses

OfChain(c) == {i \in DOMAIN authorized : authorized[i].chain = c}
OfOperation(o) == {i \in DOMAIN authorized : authorized[i].operation = o}
OfIntent(n) == {i \in DOMAIN authorized : authorized[i].intent = n}
Autonomous == {i \in DOMAIN authorized : authorized[i].autonomous}

\* The counters are those of the calls granted, and within the limits.
BudgetInv ==
    /\ tool_calls.tool = Len(authorized) /\ Len(authorized) <= MaxToolCalls
    /\ Cardinality(Running) <= MaxParallel
    /\ tool_calls.chain \in [ToolChains -> Nat]
    /\ \A c \in ToolChains :
        tool_calls.chain[c] = Cardinality(OfChain(c)) /\ tool_calls.chain[c] <= MaxChainActions
    /\ tool_calls.operation \in [Operations -> Nat]
    /\ \A o \in Operations :
        tool_calls.operation[o] = Cardinality(OfOperation(o)) /\ tool_calls.operation[o] <= MaxRetries + 1
    /\ tool_calls.intent \in [Intents -> Nat]
    /\ \A n \in Intents :
        tool_calls.intent[n] = Cardinality(OfIntent(n)) /\ tool_calls.intent[n] <= MaxIntentCalls
    /\ tool_calls.autonomous = Cardinality(Autonomous) /\ tool_calls.autonomous <= MaxAutonomous

AgencyInv == LogInv /\ ChainInv /\ ApprovalsInv /\ FlowsInv /\ BudgetInv

\* The logs of the calls have one entry for each call.
LEMMA LogDomain ==
    ASSUME LogInv
    PROVE  /\ Len(authorized) \in Nat /\ DOMAIN authorized = 1 .. Len(authorized)
           /\ DOMAIN flows = 1 .. Len(authorized) /\ DOMAIN outcomes = 1 .. Len(authorized)
           /\ \A i \in DOMAIN authorized : authorized[i] \in ToolRequests
           /\ \A i \in DOMAIN authorized : flows[i] \in Nat
BY DEF LogInv

\* The fields of a request that was granted.
LEMMA AgencyRequest ==
    ASSUME NEW r \in ToolRequests
    PROVE  /\ r.tool \in Agency!Tools /\ r.chain \in ToolChains /\ r.intent \in Intents
           /\ r.operation \in Operations /\ r.autonomous \in BOOLEAN
BY AgencyAssumption DEF Agency!RequestType

\* Initially no call was granted.
LEMMA AgencyInit == Agency!Init => AgencyInv
<1> SUFFICES ASSUME Agency!Init PROVE AgencyInv
  OBVIOUS
<1>1. /\ semantic \in BOOLEAN /\ authorized = <<>> /\ flows = <<>> /\ outcomes = <<>>
      /\ active_authorizations = {} /\ active_semantic_requests = {} /\ quarantined_chains = {}
      /\ chain_history = [c \in ToolChains |-> <<>>] /\ DOMAIN verified_executions = {}
      /\ data_flow_uses = [k \in Agency!FlowKeys |-> 0]
      /\ tool_calls = [tool |-> 0, chain |-> [c \in ToolChains |-> 0],
                       operation |-> [o \in Operations |-> 0], intent |-> [i \in Intents |-> 0],
                       autonomous |-> 0]
  BY DEF Agency!Init
<1>2. DOMAIN authorized = {} /\ Len(authorized) = 0 /\ Running = {} /\ Autonomous = {}
  BY <1>1 DEF Running, Autonomous
<1>3. \A x, y : OfChain(x) = {} /\ OfOperation(x) = {} /\ OfIntent(x) = {} /\ Uses(x, y) = {}
  BY <1>2 DEF OfChain, OfOperation, OfIntent, Uses
<1>4. Cardinality({}) = 0
  BY FS_EmptySet, Zenon
<1>5. LogInv
  BY <1>1, <1>2 DEF LogInv
<1>6. ChainInv
  BY <1>1, <1>2 DEF ChainInv, Pending, Agency!AdjacentAllowed
<1>7. ApprovalsInv
  BY <1>2 DEF ApprovalsInv, Agency!UsedOnce, Agency!Granted
<1>8. FlowsInv
  <2>1. \A s \in Agency!Ids, t \in Agency!Tools : <<s, t>> \in Agency!FlowKeys
    BY DEF Agency!FlowKeys
  <2>2. \A s \in Agency!Ids, t \in Agency!Tools : data_flow_uses[<<s, t>>] = Cardinality(Uses(s, t))
    BY <1>1, <1>3, <1>4, <2>1
  <2> QED
    BY <1>1, <1>2, <2>2 DEF FlowsInv
<1>9. BudgetInv
  <2>1. Cardinality(Running) = 0 /\ Cardinality(Autonomous) = 0
    BY <1>2, <1>4, Zenon
  <2>2. \A x : /\ Cardinality(OfChain(x)) = 0 /\ Cardinality(OfOperation(x)) = 0
               /\ Cardinality(OfIntent(x)) = 0
    BY <1>3, <1>4, Zenon
  <2> QED
    BY <1>1, <1>2, <2>1, <2>2, AgencyAssumption DEF BudgetInv
<1> QED
  BY <1>5, <1>6, <1>7, <1>8, <1>9 DEF AgencyInv

\* What a grant appends.
LEMMA Granting ==
    ASSUME LogInv, NEW r \in ToolRequests, NEW source \in Nat, Agency!Authorize(r, source)
    PROVE  LET n == Len(authorized) + 1 IN
           /\ n \in Nat /\ DOMAIN authorized' = 1 .. n /\ DOMAIN authorized = 1 .. n - 1
           /\ Len(authorized') = n
           /\ \A i \in DOMAIN authorized : /\ i \in DOMAIN authorized' /\ i < n
                                           /\ authorized'[i] = authorized[i]
                                           /\ flows'[i] = flows[i] /\ outcomes'[i] = outcomes[i]
           /\ authorized'[n] = r /\ flows'[n] = source /\ outcomes'[n] = "running"
           /\ Running' = Running \cup {n}
           /\ LogInv'
<1> DEFINE n == Len(authorized) + 1
           Verdicts == {"running", "completed", "succeeded", "failed", "violated"}
<1>1. /\ authorized' = Append(authorized, r) /\ flows' = Append(flows, source)
      /\ outcomes' = Append(outcomes, "running") /\ semantic' = semantic
      /\ active_authorizations' = active_authorizations \cup {n}
      /\ active_semantic_requests' = active_semantic_requests \cup (IF semantic THEN {n} ELSE {})
  BY DEF Agency!Authorize
<1>2. /\ authorized \in Seq(ToolRequests) /\ flows \in Seq(Nat) /\ outcomes \in Seq(Verdicts)
      /\ Len(flows) = Len(authorized) /\ Len(outcomes) = Len(authorized)
      /\ semantic \in BOOLEAN
      /\ active_authorizations = Running
      /\ active_semantic_requests = IF semantic THEN Running ELSE {}
  BY DEF LogInv
<1>3. "running" \in Verdicts
  OBVIOUS
<1> HIDE DEF Verdicts
<1>4. /\ authorized' \in Seq(ToolRequests) /\ Len(authorized') = n /\ DOMAIN authorized' = 1 .. n
      /\ authorized'[n] = r /\ \A i \in 1 .. n - 1 : authorized'[i] = authorized[i]
      /\ n \in Nat /\ DOMAIN authorized = 1 .. n - 1
  BY <1>1, <1>2
<1>5. /\ flows' \in Seq(Nat) /\ Len(flows') = n
      /\ flows'[n] = source /\ \A i \in 1 .. n - 1 : flows'[i] = flows[i]
  BY <1>1, <1>2
<1>6. /\ outcomes' \in Seq(Verdicts) /\ Len(outcomes') = n
      /\ outcomes'[n] = "running" /\ \A i \in 1 .. n - 1 : outcomes'[i] = outcomes[i]
  BY <1>1, <1>2, <1>3
<1> HIDE DEF n
<1>7. Running' = Running \cup {n}
  <2>1. Running' = {i \in 1 .. n : outcomes'[i] = "running"}
    BY <1>4 DEF Running
  <2>2. Running = {i \in 1 .. n - 1 : outcomes[i] = "running"}
    BY <1>4 DEF Running
  <2>3. \A i \in 1 .. n : i \in 1 .. n - 1 \/ i = n
    BY <1>4
  <2>4. n \in 1 .. n /\ \A i \in 1 .. n - 1 : i \in 1 .. n
    BY <1>2 DEF n
  <2> QED
    BY <1>6, <2>1, <2>2, <2>3, <2>4
<1>8. /\ semantic' \in BOOLEAN /\ active_authorizations' = Running'
      /\ active_semantic_requests' = IF semantic' THEN Running' ELSE {}
  BY <1>1, <1>2, <1>7 DEF n
<1>9. LogInv'
  BY <1>4, <1>5, <1>6, <1>8 DEF LogInv, Verdicts
<1> QED
  BY <1>4, <1>5, <1>6, <1>7, <1>9 DEF n

\* What the end of a call changes: its outcome.
LEMMA Ending ==
    ASSUME LogInv, NEW id \in DOMAIN authorized,
           (Agency!Complete(id) \/ \E q \in Reports : Agency!VerifyCompletion(id, q))
    PROVE  /\ outcomes[id] = "running" /\ outcomes'[id] # "running"
           /\ \A i \in DOMAIN authorized : i # id => outcomes'[i] = outcomes[i]
           /\ UNCHANGED <<semantic, authorized, flows, data_flow_uses, used_approval_ids, tool_calls>>
           /\ Running' = Running \ {id}
           /\ LogInv'
<1>1. /\ id \in active_authorizations
      /\ active_authorizations' = active_authorizations \ {id}
      /\ UNCHANGED <<semantic, authorized, flows, data_flow_uses, used_approval_ids, tool_calls>>
      /\ \E v \in {"completed", "succeeded", "failed", "violated"} : outcomes' = [outcomes EXCEPT ![id] = v]
      /\ active_semantic_requests' = active_semantic_requests \ {id}
  <2>1. CASE Agency!Complete(id)
    BY <2>1 DEF Agency!Complete
  <2>2. ASSUME NEW q \in Reports, Agency!VerifyCompletion(id, q)
        PROVE  /\ id \in active_authorizations
               /\ active_authorizations' = active_authorizations \ {id}
               /\ UNCHANGED <<semantic, authorized, flows, data_flow_uses, used_approval_ids, tool_calls>>
               /\ \E v \in {"completed", "succeeded", "failed", "violated"} :
                    outcomes' = [outcomes EXCEPT ![id] = v]
               /\ active_semantic_requests' = active_semantic_requests \ {id}
    <3>1. Agency!Verdict(authorized[id], q) \in {"succeeded", "failed", "violated"}
      BY AgencyAssumption DEF Agency!Verdict, Agency!PostconditionsHold, Agency!ReportType
    <3> QED
      BY <2>2, <3>1 DEF Agency!VerifyCompletion
  <2> QED
    BY <2>1, <2>2
<1>2. PICK v \in {"completed", "succeeded", "failed", "violated"} : outcomes' = [outcomes EXCEPT ![id] = v]
  BY <1>1
<1>3. /\ Len(authorized) \in Nat /\ DOMAIN authorized = 1 .. Len(authorized)
      /\ DOMAIN outcomes = 1 .. Len(authorized)
  BY LogDomain
<1>4. outcomes[id] = "running"
  BY <1>1 DEF LogInv, Running
<1>5. /\ outcomes'[id] = v /\ v # "running"
      /\ \A i \in DOMAIN authorized : i # id => outcomes'[i] = outcomes[i]
  BY <1>2, <1>3
<1>6. Running' = Running \ {id}
  BY <1>1, <1>5 DEF Running
<1>7. /\ outcomes' \in Seq({"running", "completed", "succeeded", "failed", "violated"})
      /\ Len(outcomes') = Len(outcomes)
  BY <1>2, <1>3 DEF LogInv
<1> QED
  BY <1>1, <1>4, <1>5, <1>6, <1>7 DEF LogInv

\* A call that fits the budget is counted once in every counter it is of (_budget_findings,
\* _reserve).
LEMMA BudgetAuthorize ==
    ASSUME LogInv, BudgetInv, NEW r \in ToolRequests, NEW source \in Nat, Agency!Authorize(r, source)
    PROVE  BudgetInv'
<1> DEFINE n == Len(authorized) + 1
<1>1. /\ n \in Nat /\ DOMAIN authorized' = 1 .. n /\ DOMAIN authorized = 1 .. n - 1
      /\ Len(authorized') = n
      /\ \A i \in 1 .. n - 1 : authorized'[i] = authorized[i]
      /\ authorized'[n] = r /\ Running' = Running \cup {n}
  BY Granting
<1>2. /\ tool_calls' = Agency!Reserved(r) /\ Agency!WithinBudget(r)
      /\ Cardinality(active_authorizations) < MaxParallel /\ active_authorizations = Running
  BY DEF Agency!Authorize, Agency!WithinBudget, Agency!Cardinality, Cardinality, LogInv
<1>3. /\ r.chain \in ToolChains /\ r.intent \in Intents
      /\ r.operation \in Operations /\ r.autonomous \in BOOLEAN
  BY AgencyRequest
<1>4. \A i \in 1 .. n : i \in 1 .. n - 1 \/ i = n
  BY <1>1
<1>5. n \in 1 .. n /\ (n - 1) + 1 = n /\ n - 1 \in Nat /\ \A i \in 1 .. n - 1 : i \in 1 .. n
  <2>1. Len(authorized) \in Nat
    BY LogDomain
  <2> QED
    BY <2>1
<1> HIDE DEF n
<1>6. \A c : OfChain(c)' = IF r.chain = c THEN OfChain(c) \cup {n} ELSE OfChain(c)
  BY <1>1, <1>4, <1>5 DEF OfChain
<1>7. \A o : OfOperation(o)' = IF r.operation = o THEN OfOperation(o) \cup {n} ELSE OfOperation(o)
  BY <1>1, <1>4, <1>5 DEF OfOperation
<1>8. \A x : OfIntent(x)' = IF r.intent = x THEN OfIntent(x) \cup {n} ELSE OfIntent(x)
  BY <1>1, <1>4, <1>5 DEF OfIntent
<1>9. Autonomous' = IF r.autonomous THEN Autonomous \cup {n} ELSE Autonomous
  BY <1>1, <1>3, <1>4, <1>5 DEF Autonomous
<1>10. \A S \in SUBSET (1 .. n - 1) :
          Cardinality(S) \in Nat /\ Cardinality(S \cup {n}) = Cardinality(S) + 1
  BY <1>5, Counted
<1>11. /\ Running \in SUBSET (1 .. n - 1) /\ Autonomous \in SUBSET (1 .. n - 1)
       /\ \A x : /\ OfChain(x) \in SUBSET (1 .. n - 1) /\ OfOperation(x) \in SUBSET (1 .. n - 1)
                 /\ OfIntent(x) \in SUBSET (1 .. n - 1)
  BY <1>1 DEF Running, Autonomous, OfChain, OfOperation, OfIntent
<1>12. Cardinality(Running') <= MaxParallel
  BY <1>1, <1>2, <1>10, <1>11, AgencyAssumption
<1>13. tool_calls'.tool = Len(authorized') /\ Len(authorized') <= MaxToolCalls
  BY <1>1, <1>2, <1>5, AgencyAssumption DEF BudgetInv, Agency!Reserved, Agency!WithinBudget, n
<1>14. /\ tool_calls'.chain = [tool_calls.chain EXCEPT ![r.chain] = @ + 1]
       /\ tool_calls'.operation = [tool_calls.operation EXCEPT ![r.operation] = @ + 1]
       /\ tool_calls'.intent = [tool_calls.intent EXCEPT ![r.intent] = @ + 1]
       /\ tool_calls'.autonomous = IF r.autonomous THEN tool_calls.autonomous + 1 ELSE tool_calls.autonomous
       /\ tool_calls.chain[r.chain] < MaxChainActions
       /\ tool_calls.operation[r.operation] <= MaxRetries
       /\ tool_calls.intent[r.intent] < MaxIntentCalls
       /\ r.autonomous => tool_calls.autonomous < MaxAutonomous
  BY <1>2 DEF Agency!Reserved, Agency!WithinBudget
<1>15. /\ tool_calls'.chain \in [ToolChains -> Nat]
       /\ \A x \in ToolChains :
            tool_calls'.chain[x] = Cardinality(OfChain(x)') /\ tool_calls'.chain[x] <= MaxChainActions
  <2>1. /\ tool_calls.chain \in [ToolChains -> Nat]
        /\ \A x \in ToolChains :
            tool_calls.chain[x] = Cardinality(OfChain(x)) /\ tool_calls.chain[x] <= MaxChainActions
    BY DEF BudgetInv
  <2>2. tool_calls'.chain \in [ToolChains -> Nat]
    BY <1>3, <1>14, <2>1
  <2>3. ASSUME NEW x \in ToolChains
        PROVE  tool_calls'.chain[x] = Cardinality(OfChain(x)') /\ tool_calls'.chain[x] <= MaxChainActions
    <3>1. CASE r.chain = x
      <4>1. tool_calls'.chain[x] = tool_calls.chain[x] + 1
        BY <1>14, <2>1, <3>1
      <4>2. Cardinality(OfChain(x)') = Cardinality(OfChain(x)) + 1
        BY <1>6, <1>10, <1>11, <3>1
      <4> QED
        BY <1>14, <2>1, <3>1, <4>1, <4>2, AgencyAssumption
    <3>2. CASE r.chain # x
      <4>1. tool_calls'.chain[x] = tool_calls.chain[x]
        BY <1>14, <2>1, <3>2
      <4> QED
        BY <1>6, <2>1, <3>2, <4>1
    <3> QED
      BY <3>1, <3>2
  <2> QED
    BY <2>2, <2>3
<1>16. /\ tool_calls'.operation \in [Operations -> Nat]
       /\ \A x \in Operations :
            tool_calls'.operation[x] = Cardinality(OfOperation(x)') /\ tool_calls'.operation[x] <= MaxRetries + 1
  <2>1. /\ tool_calls.operation \in [Operations -> Nat]
        /\ \A x \in Operations :
            tool_calls.operation[x] = Cardinality(OfOperation(x)) /\ tool_calls.operation[x] <= MaxRetries + 1
    BY DEF BudgetInv
  <2>2. tool_calls'.operation \in [Operations -> Nat]
    BY <1>3, <1>14, <2>1
  <2>3. ASSUME NEW x \in Operations
        PROVE  tool_calls'.operation[x] = Cardinality(OfOperation(x)') /\ tool_calls'.operation[x] <= MaxRetries + 1
    <3>1. CASE r.operation = x
      <4>1. tool_calls'.operation[x] = tool_calls.operation[x] + 1
        BY <1>14, <2>1, <3>1
      <4>2. Cardinality(OfOperation(x)') = Cardinality(OfOperation(x)) + 1
        BY <1>7, <1>10, <1>11, <3>1
      <4> QED
        BY <1>14, <2>1, <3>1, <4>1, <4>2, AgencyAssumption
    <3>2. CASE r.operation # x
      <4>1. tool_calls'.operation[x] = tool_calls.operation[x]
        BY <1>14, <2>1, <3>2
      <4> QED
        BY <1>7, <2>1, <3>2, <4>1
    <3> QED
      BY <3>1, <3>2
  <2> QED
    BY <2>2, <2>3
<1>17. /\ tool_calls'.intent \in [Intents -> Nat]
       /\ \A x \in Intents :
            tool_calls'.intent[x] = Cardinality(OfIntent(x)') /\ tool_calls'.intent[x] <= MaxIntentCalls
  <2>1. /\ tool_calls.intent \in [Intents -> Nat]
        /\ \A x \in Intents :
            tool_calls.intent[x] = Cardinality(OfIntent(x)) /\ tool_calls.intent[x] <= MaxIntentCalls
    BY DEF BudgetInv
  <2>2. tool_calls'.intent \in [Intents -> Nat]
    BY <1>3, <1>14, <2>1
  <2>3. ASSUME NEW x \in Intents
        PROVE  tool_calls'.intent[x] = Cardinality(OfIntent(x)') /\ tool_calls'.intent[x] <= MaxIntentCalls
    <3>1. CASE r.intent = x
      <4>1. tool_calls'.intent[x] = tool_calls.intent[x] + 1
        BY <1>14, <2>1, <3>1
      <4>2. Cardinality(OfIntent(x)') = Cardinality(OfIntent(x)) + 1
        BY <1>8, <1>10, <1>11, <3>1
      <4> QED
        BY <1>14, <2>1, <3>1, <4>1, <4>2, AgencyAssumption
    <3>2. CASE r.intent # x
      <4>1. tool_calls'.intent[x] = tool_calls.intent[x]
        BY <1>14, <2>1, <3>2
      <4> QED
        BY <1>8, <2>1, <3>2, <4>1
    <3> QED
      BY <3>1, <3>2
  <2> QED
    BY <2>2, <2>3
<1>18. tool_calls'.autonomous = Cardinality(Autonomous') /\ tool_calls'.autonomous <= MaxAutonomous
  <2>1. /\ tool_calls.autonomous = Cardinality(Autonomous) /\ tool_calls.autonomous <= MaxAutonomous
        /\ Cardinality(Autonomous) \in Nat
        /\ Cardinality(Autonomous \cup {n}) = Cardinality(Autonomous) + 1
    BY <1>10, <1>11 DEF BudgetInv
  <2>2. CASE r.autonomous
    BY <1>9, <1>14, <2>1, <2>2, AgencyAssumption
  <2>3. CASE ~ r.autonomous
    BY <1>9, <1>14, <2>1, <2>3
  <2> QED
    BY <2>2, <2>3
<1> QED
  BY <1>12, <1>13, <1>15, <1>16, <1>17, <1>18 DEF BudgetInv

\* The approval a call was granted with was not used before (_approval_findings).
LEMMA ApprovalsAuthorize ==
    ASSUME LogInv, ApprovalsInv, NEW r \in ToolRequests, NEW source \in Nat, Agency!Authorize(r, source)
    PROVE  ApprovalsInv'
<1> DEFINE n == Len(authorized) + 1
<1>1. /\ n \in Nat /\ DOMAIN authorized' = 1 .. n /\ DOMAIN authorized = 1 .. n - 1
      /\ \A i \in 1 .. n - 1 : authorized'[i] = authorized[i]
      /\ authorized'[n] = r
  BY Granting
<1>2. \A i \in 1 .. n : i \in 1 .. n - 1 \/ i = n
  BY <1>1
<1>3. /\ used_approval_ids' = used_approval_ids \cup Agency!Consumed(r)
      /\ Agency!ApprovalRequired(r) => r.approval \notin used_approval_ids
  BY DEF Agency!Authorize, Agency!Approved
<1> HIDE DEF n
<1>4. \A i \in DOMAIN authorized' :
        Agency!ApprovalRequired(authorized'[i]) => authorized'[i].approval \in used_approval_ids'
  BY <1>1, <1>2, <1>3 DEF ApprovalsInv, Agency!Consumed
<1>5. ASSUME NEW i \in DOMAIN authorized', NEW j \in DOMAIN authorized', i # j,
             Agency!ApprovalRequired(authorized'[i]), Agency!ApprovalRequired(authorized'[j])
      PROVE  authorized'[i].approval # authorized'[j].approval
  BY <1>1, <1>2, <1>3, <1>5 DEF ApprovalsInv, Agency!UsedOnce, Agency!Granted
<1>6. Agency!UsedOnce'
  BY <1>5 DEF Agency!UsedOnce, Agency!Granted, Agency!ApprovalRequired
<1> QED
  BY <1>4, <1>6 DEF ApprovalsInv, Agency!ApprovalRequired

\* A call that uses an output is counted for it, and comes after the call that made it
\* (_data_flow_findings).
LEMMA FlowsAuthorize ==
    ASSUME LogInv, ChainInv, BudgetInv, FlowsInv, NEW r \in ToolRequests,
           NEW source \in DOMAIN verified_executions \cup {Agency!NoFlow}, Agency!Authorize(r, source)
    PROVE  FlowsInv'
<1> DEFINE n == Len(authorized) + 1
           pair == <<authorized[source].tool, r.tool>>
<1>0. source \in Nat
  <2>1. DOMAIN verified_executions \subseteq DOMAIN authorized
    BY DEF ChainInv
  <2> QED
    BY <2>1, LogDomain DEF Agency!NoFlow
<1>1. /\ n \in Nat /\ DOMAIN authorized' = 1 .. n /\ DOMAIN authorized = 1 .. n - 1
      /\ \A i \in 1 .. n - 1 : /\ authorized'[i] = authorized[i]
                               /\ flows'[i] = flows[i] /\ outcomes'[i] = outcomes[i]
      /\ authorized'[n] = r /\ flows'[n] = source
      /\ LogInv'
  BY <1>0, Granting
<1>2. /\ \A i \in 1 .. n : i \in 1 .. n - 1 \/ i = n
      /\ n \in 1 .. n /\ (n - 1) + 1 = n /\ n - 1 \in Nat /\ \A i \in 1 .. n - 1 : i \in 1 .. n
  <2>1. Len(authorized) \in Nat
    BY LogDomain
  <2> QED
    BY <2>1
<1>3. /\ semantic' = semantic /\ semantic \in BOOLEAN
      /\ data_flow_uses' = Agency!CountedFlow(r, source)
      /\ semantic => Agency!FlowAllowed(r, source)
  BY DEF Agency!Authorize, Agency!SemanticallyAllowed, LogInv
<1>4. r.tool \in Agency!Tools
  BY AgencyRequest
<1>5. n - 1 <= MaxToolCalls
  BY <1>2 DEF BudgetInv
<1>6. source # Agency!NoFlow => /\ source \in 1 .. n - 1 /\ source \in Agency!Ids
                                /\ <<source, r.tool>> \in Agency!FlowKeys
  <2>1. source # Agency!NoFlow => source \in 1 .. n - 1
    BY <1>1 DEF ChainInv
  <2> QED
    BY <1>2, <1>4, <1>5, <2>1, AgencyAssumption DEF Agency!Ids, Agency!FlowKeys
<1> HIDE DEF n
<1>7. \A s, t : Uses(s, t)' = IF s = source /\ t = r.tool THEN Uses(s, t) \cup {n} ELSE Uses(s, t)
  BY <1>1, <1>2 DEF Uses
<1>8. \A S \in SUBSET (1 .. n - 1) :
          Cardinality(S) \in Nat /\ Cardinality(S \cup {n}) = Cardinality(S) + 1
  BY <1>2, Counted
<1>9. \A s, t : Uses(s, t) \in SUBSET (1 .. n - 1)
  BY <1>1 DEF Uses
<1>10. data_flow_uses' \in [Agency!FlowKeys -> Nat]
  BY <1>3, <1>6 DEF FlowsInv, Agency!CountedFlow
<1>11. ASSUME semantic, NEW s \in Agency!Ids, NEW t \in Agency!Tools
       PROVE  data_flow_uses'[<<s, t>>] = Cardinality(Uses(s, t)')
  <2>1. <<s, t>> \in Agency!FlowKeys /\ s # Agency!NoFlow
    BY DEF Agency!FlowKeys, Agency!Ids, Agency!NoFlow
  <2>2. data_flow_uses[<<s, t>>] = Cardinality(Uses(s, t))
    BY <1>11 DEF FlowsInv
  <2>3. CASE s = source /\ t = r.tool
    <3>1. data_flow_uses'[<<s, t>>] = data_flow_uses[<<s, t>>] + 1
      BY <1>3, <1>10, <1>11, <2>1, <2>3 DEF FlowsInv, Agency!CountedFlow
    <3> QED
      BY <1>7, <1>8, <1>9, <2>2, <2>3, <3>1
  <2>4. CASE ~ (s = source /\ t = r.tool)
    <3>1. <<s, t>> # <<source, r.tool>>
      BY <2>4
    <3>2. data_flow_uses'[<<s, t>>] = data_flow_uses[<<s, t>>]
      BY <1>3, <2>1, <3>1 DEF FlowsInv, Agency!CountedFlow
    <3> QED
      BY <1>7, <2>2, <2>4, <3>2
  <2> QED
    BY <2>3, <2>4
<1>12. source # Agency!NoFlow /\ semantic =>
          /\ outcomes[source] = "succeeded" /\ authorized[source].chain = r.chain
          /\ Cardinality(Uses(source, r.tool)) < FlowRules[pair].max_uses
          /\ FlowRules[pair].max_uses \in Nat
  BY <1>3, <1>4, <1>6, AgencyAssumption DEF Agency!FlowAllowed, ChainInv, FlowsInv
<1>13. ASSUME semantic, NEW i \in DOMAIN authorized', flows'[i] # Agency!NoFlow
       PROVE  /\ flows'[i] \in 1 .. i - 1 /\ outcomes'[flows'[i]] = "succeeded"
              /\ authorized'[flows'[i]].chain = authorized'[i].chain
  <2>1. CASE i \in 1 .. n - 1
    <3>1. flows'[i] = flows[i] /\ authorized'[i] = authorized[i]
      BY <1>1, <2>1
    <3>2. /\ flows[i] \in 1 .. i - 1 /\ outcomes[flows[i]] = "succeeded"
          /\ authorized[flows[i]].chain = authorized[i].chain
      BY <1>1, <1>13, <2>1, <3>1 DEF FlowsInv
    <3>3. flows[i] \in 1 .. n - 1
      BY <1>2, <2>1, <3>2
    <3>4. outcomes'[flows[i]] = outcomes[flows[i]] /\ authorized'[flows[i]] = authorized[flows[i]]
      BY <1>1, <3>3
    <3> QED
      BY <3>1, <3>2, <3>4
  <2>2. CASE i = n
    <3>1. flows'[i] = source /\ authorized'[i] = r /\ source # Agency!NoFlow
      BY <1>1, <1>13, <2>2
    <3>2. source \in 1 .. i - 1 /\ outcomes'[source] = outcomes[source] /\ authorized'[source] = authorized[source]
      BY <1>1, <1>6, <2>2, <3>1
    <3> QED
      BY <1>12, <1>13, <3>1, <3>2
  <2> QED
    BY <1>1, <1>2, <2>1, <2>2
<1>14. ASSUME semantic, NEW s \in DOMAIN authorized', NEW t \in Agency!Tools, Uses(s, t)' # {}
       PROVE  Cardinality(Uses(s, t)') <= FlowRules[<<authorized'[s].tool, t>>].max_uses
  <2>1. CASE s = source /\ t = r.tool
    <3>1. Uses(s, t)' = Uses(s, t) \cup {n}
      BY <1>7, <2>1
    <3>2. source # Agency!NoFlow
      BY <1>1, <2>1 DEF Agency!NoFlow
    <3>3. Cardinality(Uses(s, t)) \in Nat /\ Cardinality(Uses(s, t)') = Cardinality(Uses(s, t)) + 1
      BY <1>8, <1>9, <3>1
    <3>4. authorized'[s].tool = authorized[s].tool
      BY <1>1, <1>6, <2>1, <3>2
    <3> HIDE DEF pair
    <3>5. /\ Cardinality(Uses(s, t)) < FlowRules[pair].max_uses /\ FlowRules[pair].max_uses \in Nat
          /\ pair = <<authorized'[s].tool, t>>
      BY <1>12, <1>14, <2>1, <3>2, <3>4 DEF pair
    <3> QED
      BY <3>3, <3>5
  <2>2. CASE ~ (s = source /\ t = r.tool)
    <3>1. Uses(s, t)' = Uses(s, t)
      BY <1>7, <2>2
    <3>2. PICK i \in 1 .. n - 1 : flows[i] = s
      BY <1>1, <1>14, <3>1 DEF Uses
    <3>3. s \in 1 .. n - 1
      <4>1. s # Agency!NoFlow
        BY <1>1 DEF Agency!NoFlow
      <4>2. s \in 1 .. i - 1
        BY <1>1, <1>14, <3>2, <4>1 DEF FlowsInv
      <4> QED
        BY <1>1, <3>2, <4>2
    <3>4. authorized'[s] = authorized[s]
      BY <1>1, <3>3
    <3>5. Cardinality(Uses(s, t)) <= FlowRules[<<authorized[s].tool, t>>].max_uses
      BY <1>1, <1>14, <3>1, <3>3 DEF FlowsInv
    <3> QED
      BY <3>1, <3>4, <3>5
  <2> QED
    BY <2>1, <2>2
<1> QED
  BY <1>3, <1>10, <1>11, <1>13, <1>14 DEF FlowsInv

\* A call joins a chain in which nothing runs and nothing was violated (_sequence_findings).
LEMMA ChainAuthorize ==
    ASSUME LogInv, ChainInv, NEW r \in ToolRequests, NEW source \in Nat, Agency!Authorize(r, source)
    PROVE  ChainInv'
<1> DEFINE n == Len(authorized) + 1
<1>1. /\ n \in Nat /\ DOMAIN authorized' = 1 .. n /\ DOMAIN authorized = 1 .. n - 1
      /\ \A i \in 1 .. n - 1 : /\ authorized'[i] = authorized[i] /\ outcomes'[i] = outcomes[i]
      /\ authorized'[n] = r /\ outcomes'[n] = "running"
      /\ Running' = Running \cup {n}
      /\ LogInv'
  BY Granting
<1>2. /\ \A i \in 1 .. n : i \in 1 .. n - 1 \/ i = n
      /\ \A i \in 1 .. n - 1 : i \in 1 .. n
  BY <1>1
<1>3. /\ UNCHANGED <<semantic, quarantined_chains, chain_history, verified_executions>>
      /\ semantic \in BOOLEAN
      /\ semantic => /\ r.chain \notin quarantined_chains
                     /\ \A a \in active_semantic_requests : authorized[a].chain # r.chain
                     /\ Agency!SequenceAllowed(r)
      /\ active_semantic_requests = IF semantic THEN Running ELSE {}
      /\ active_semantic_requests' = IF semantic THEN Running' ELSE {}
  BY <1>1 DEF Agency!Authorize, Agency!SemanticallyAllowed, LogInv
<1> HIDE DEF n
<1>4. /\ quarantined_chains \subseteq ToolChains
      /\ DOMAIN verified_executions \subseteq {i \in 1 .. n - 1 : outcomes[i] = "succeeded"}
      /\ chain_history \in [ToolChains -> Seq(1 .. n - 1)]
      /\ \A i \in 1 .. n - 1 :
           outcomes[i] = "violated" => semantic /\ authorized[i].chain \in quarantined_chains
      /\ semantic =>
           \A i, j \in 1 .. n - 1 :
              i < j /\ authorized[i].chain = authorized[j].chain
                => outcomes[i] # "running" /\ outcomes[i] # "violated"
      /\ Agency!AdjacentAllowed
      /\ \A q \in Pending : Agency!SequenceAllowed(q)
  BY <1>1 DEF ChainInv
<1>5. \A i \in 1 .. n :
         outcomes'[i] = "violated" => semantic' /\ authorized'[i].chain \in quarantined_chains'
  BY <1>1, <1>2, <1>3, <1>4
<1>6. ASSUME semantic, NEW i \in 1 .. n, NEW j \in 1 .. n, i < j,
             authorized'[i].chain = authorized'[j].chain
      PROVE  outcomes'[i] # "running" /\ outcomes'[i] # "violated"
  <2>1. i \in 1 .. n - 1
    BY <1>1, <1>6
  <2>2. CASE j = n
    <3>1. outcomes[i] # "running"
      <4> SUFFICES ASSUME outcomes[i] = "running" PROVE FALSE
        OBVIOUS
      <4>1. i \in active_semantic_requests
        BY <1>1, <1>3, <1>6, <2>1 DEF Running
      <4> QED
        BY <1>1, <1>3, <1>6, <2>1, <2>2, <4>1
    <3>2. outcomes[i] # "violated"
      BY <1>1, <1>3, <1>4, <1>6, <2>1, <2>2
    <3> QED
      BY <1>1, <2>1, <3>1, <3>2
  <2>3. CASE j \in 1 .. n - 1
    BY <1>1, <1>4, <1>6, <2>1, <2>3
  <2> QED
    BY <1>2, <2>2, <2>3
<1>7. DOMAIN verified_executions' \subseteq {i \in 1 .. n : outcomes'[i] = "succeeded"}
  BY <1>1, <1>2, <1>3, <1>4
<1>8. chain_history' \in [ToolChains -> Seq(1 .. n)]
  <2> DEFINE Earlier == 1 .. n - 1
             Later == 1 .. n
  <2>1. Earlier \subseteq Later /\ chain_history \in [ToolChains -> Seq(Earlier)]
    BY <1>2, <1>4
  <2> HIDE DEF Earlier, Later
  <2>2. \A c \in ToolChains : chain_history[c] \in Seq(Later)
    BY <2>1, Wider
  <2>3. chain_history' \in [ToolChains -> Seq(Later)]
    BY <1>3, <2>1, <2>2
  <2> QED
    BY <2>3 DEF Later
<1>9. \A c \in ToolChains : \A k \in 1 .. Len(chain_history[c]) :
        authorized'[chain_history[c][k]] = authorized[chain_history[c][k]]
  <2> SUFFICES ASSUME NEW c \in ToolChains, NEW k \in 1 .. Len(chain_history[c])
               PROVE  authorized'[chain_history[c][k]] = authorized[chain_history[c][k]]
    OBVIOUS
  <2>1. chain_history[c] \in Seq(1 .. n - 1)
    BY <1>4
  <2>2. k \in DOMAIN chain_history[c]
    BY <2>1
  <2>3. chain_history[c][k] \in 1 .. n - 1
    BY <2>1, <2>2, Logged
  <2> QED
    BY <1>1, <2>3
<1>10. Agency!AdjacentAllowed'
  <2> SUFFICES ASSUME NEW c \in ToolChains, NEW k \in 1 .. Len(chain_history'[c]) - 1
               PROVE  <<authorized'[chain_history'[c][k]].tool,
                        authorized'[chain_history'[c][k + 1]].tool>> \in Transitions
    BY DEF Agency!AdjacentAllowed
  <2>1. chain_history' = chain_history /\ chain_history[c] \in Seq(1 .. n - 1)
    BY <1>3, <1>4
  <2>2. k \in 1 .. Len(chain_history[c]) /\ k + 1 \in 1 .. Len(chain_history[c])
    BY <2>1
  <2>3. <<authorized[chain_history[c][k]].tool, authorized[chain_history[c][k + 1]].tool>> \in Transitions
    BY <1>4, <2>1 DEF Agency!AdjacentAllowed
  <2> QED
    BY <1>9, <2>1, <2>2, <2>3
<1>11. \A q \in ToolRequests : Agency!SequenceAllowed(q) => Agency!SequenceAllowed(q)'
  <2> SUFFICES ASSUME NEW q \in ToolRequests, Agency!SequenceAllowed(q), chain_history[q.chain] # <<>>
               PROVE  <<authorized'[chain_history[q.chain][Len(chain_history[q.chain])]].tool, q.tool>>
                        \in Transitions
    BY <1>3 DEF Agency!SequenceAllowed
  <2>1. q.chain \in ToolChains
    BY AgencyRequest
  <2>2. chain_history[q.chain] \in Seq(1 .. n - 1)
    BY <1>4, <2>1
  <2>3. Len(chain_history[q.chain]) \in 1 .. Len(chain_history[q.chain])
    BY <2>2
  <2>4. <<authorized[chain_history[q.chain][Len(chain_history[q.chain])]].tool, q.tool>> \in Transitions
    BY DEF Agency!SequenceAllowed
  <2> QED
    BY <1>9, <2>1, <2>3, <2>4
<1>12. \A q \in Pending' : Agency!SequenceAllowed(q)'
  <2> SUFFICES ASSUME NEW i \in active_semantic_requests', NEW q, q = authorized'[i]
               PROVE  Agency!SequenceAllowed(q)'
    BY DEF Pending
  <2>1. /\ i \in Running \cup {n} /\ active_semantic_requests = Running /\ semantic
    BY <1>1, <1>3
  <2>2. CASE i = n
    BY <1>1, <1>3, <1>11, <2>1, <2>2
  <2>3. CASE i \in Running
    <3>1. i \in 1 .. n - 1
      BY <1>1, <2>3 DEF Running
    <3>2. q = authorized[i] /\ q \in ToolRequests
      BY <1>1, <3>1, LogDomain
    <3>3. q \in Pending
      BY <2>1, <2>3, <3>2 DEF Pending
    <3> QED
      BY <1>4, <1>11, <3>2, <3>3
  <2> QED
    BY <2>1, <2>2, <2>3
<1> QED
  BY <1>1, <1>3, <1>4, <1>5, <1>6, <1>7, <1>8, <1>10, <1>12 DEF ChainInv

\* What was granted stays counted when a call ends (complete).
LEMMA BudgetEnd ==
    ASSUME LogInv, BudgetInv, NEW id \in DOMAIN authorized,
           Agency!Complete(id) \/ \E q \in Reports : Agency!VerifyCompletion(id, q)
    PROVE  BudgetInv'
<1>1. /\ UNCHANGED <<authorized, tool_calls>> /\ Running' = Running \ {id}
  BY Ending
<1>2. Cardinality(Running') <= MaxParallel
  <2>1. Len(authorized) \in Nat /\ Running \in SUBSET (1 .. Len(authorized))
    BY LogDomain DEF Running
  <2>2. IsFiniteSet(Running) /\ Running' \in SUBSET Running /\ Cardinality(Running) <= MaxParallel
    BY <1>1, <2>1, Counted DEF BudgetInv
  <2> QED
    BY <2>2, KeptWithin, AgencyAssumption
<1>3. /\ Autonomous' = Autonomous
      /\ \A x : OfChain(x)' = OfChain(x) /\ OfOperation(x)' = OfOperation(x) /\ OfIntent(x)' = OfIntent(x)
  BY <1>1 DEF Autonomous, OfChain, OfOperation, OfIntent
<1> QED
  BY <1>1, <1>2, <1>3 DEF BudgetInv

\* The end of a call uses no approval.
LEMMA ApprovalsEnd ==
    ASSUME LogInv, ApprovalsInv, NEW id \in DOMAIN authorized,
           Agency!Complete(id) \/ \E q \in Reports : Agency!VerifyCompletion(id, q)
    PROVE  ApprovalsInv'
<1>1. UNCHANGED <<authorized, used_approval_ids>>
  BY Ending
<1> QED
  BY <1>1 DEF ApprovalsInv, Agency!UsedOnce, Agency!Granted, Agency!ApprovalRequired

\* The end of a call uses no output.
LEMMA FlowsEnd ==
    ASSUME LogInv, FlowsInv, NEW id \in DOMAIN authorized,
           Agency!Complete(id) \/ \E q \in Reports : Agency!VerifyCompletion(id, q)
    PROVE  FlowsInv'
<1>1. /\ UNCHANGED <<semantic, authorized, flows, data_flow_uses>>
      /\ outcomes[id] = "running"
      /\ \A i \in DOMAIN authorized : i # id => outcomes'[i] = outcomes[i]
  BY Ending
<1>2. \A s, t : Uses(s, t)' = Uses(s, t)
  BY <1>1 DEF Uses
<1>3. ASSUME semantic, NEW i \in DOMAIN authorized, flows[i] # Agency!NoFlow
      PROVE  /\ flows[i] \in 1 .. i - 1 /\ outcomes'[flows[i]] = "succeeded"
             /\ authorized[flows[i]].chain = authorized[i].chain
  <2>1. /\ flows[i] \in 1 .. i - 1 /\ outcomes[flows[i]] = "succeeded"
        /\ authorized[flows[i]].chain = authorized[i].chain
    BY <1>3 DEF FlowsInv
  <2>2. flows[i] \in DOMAIN authorized
    BY <2>1, LogDomain
  <2> QED
    BY <1>1, <2>1, <2>2
<1> QED
  BY <1>1, <1>2, <1>3 DEF FlowsInv

\* Two calls of a chain that run at once do not both await their outcome.
LEMMA OnePending ==
    ASSUME LogInv, ChainInv, semantic, NEW i \in Running, NEW j \in Running, i # j
    PROVE  authorized[i].chain # authorized[j].chain
<1>1. i \in 1 .. Len(authorized) /\ j \in 1 .. Len(authorized) /\ Len(authorized) \in Nat
  BY LogDomain DEF Running
<1>2. i < j \/ j < i
  BY <1>1
<1> QED
  BY <1>1, <1>2 DEF ChainInv, Running

\* complete leaves the chains as they are: it is not for semantic requests.
LEMMA ChainComplete ==
    ASSUME LogInv, ChainInv, NEW id \in DOMAIN authorized, Agency!Complete(id)
    PROVE  ChainInv'
<1>1. /\ UNCHANGED <<semantic, authorized>>
      /\ outcomes[id] = "running"
      /\ \A i \in DOMAIN authorized : i # id => outcomes'[i] = outcomes[i]
  BY Ending
<1>2. /\ UNCHANGED <<quarantined_chains, chain_history, verified_executions, active_semantic_requests>>
      /\ outcomes' = [outcomes EXCEPT ![id] = "completed"]
  BY DEF Agency!Complete
<1>3. outcomes'[id] = "completed"
  BY <1>2, LogDomain
<1>4. Agency!AdjacentAllowed' /\ \A q \in Pending' : Agency!SequenceAllowed(q)'
  BY <1>1, <1>2 DEF ChainInv, Pending, Agency!AdjacentAllowed, Agency!SequenceAllowed
<1>5. \A i \in DOMAIN authorized : outcomes'[i] = "violated" \/ outcomes'[i] = "running"
                                     => outcomes'[i] = outcomes[i]
  BY <1>1, <1>3
<1>6. \A i \in DOMAIN authorized : outcomes[i] = "succeeded" => outcomes'[i] = "succeeded"
  BY <1>1
<1> QED
  BY <1>1, <1>2, <1>4, <1>5, <1>6 DEF ChainInv

\* verify_completion extends the chain by a call that succeeded, or closes it.
LEMMA ChainVerify ==
    ASSUME LogInv, ChainInv, NEW id \in DOMAIN authorized, NEW q \in Reports,
           Agency!VerifyCompletion(id, q)
    PROVE  ChainInv'
<1> DEFINE r == authorized[id]
           verdict == Agency!Verdict(r, q)
<1>1. /\ UNCHANGED <<semantic, authorized>>
      /\ outcomes[id] = "running" /\ outcomes'[id] # "running"
      /\ \A i \in DOMAIN authorized : i # id => outcomes'[i] = outcomes[i]
  BY Ending
<1>2. /\ quarantined_chains' = Agency!Quarantined(r, verdict)
      /\ Agency!Recorded(id, r, verdict, q)
      /\ outcomes' = [outcomes EXCEPT ![id] = verdict]
      /\ id \in active_semantic_requests /\ semantic
      /\ active_semantic_requests' = active_semantic_requests \ {id}
      /\ active_semantic_requests = Running
  BY DEF Agency!VerifyCompletion, LogInv
<1>3. /\ r \in ToolRequests /\ r.chain \in ToolChains
      /\ Agency!SequenceAllowed(r)
  BY <1>2, LogDomain, AgencyRequest DEF ChainInv, Pending
<1> HIDE DEF verdict
<1>4. outcomes'[id] = verdict
  BY <1>2, LogDomain
<1> HIDE DEF r
<1>5. /\ quarantined_chains' \subseteq ToolChains /\ quarantined_chains \subseteq quarantined_chains'
      /\ verdict = "violated" => r.chain \in quarantined_chains'
  BY <1>2, <1>3 DEF ChainInv, Agency!Quarantined
<1>6. \A i \in DOMAIN authorized :
        outcomes'[i] = "violated" => semantic' /\ authorized'[i].chain \in quarantined_chains'
  BY <1>1, <1>2, <1>4, <1>5 DEF ChainInv, r
<1>7. ASSUME NEW i \in DOMAIN authorized, NEW j \in DOMAIN authorized, i < j,
             authorized[i].chain = authorized[j].chain
      PROVE  outcomes'[i] # "running" /\ outcomes'[i] # "violated"
  <2>1. outcomes[i] # "running" /\ outcomes[i] # "violated"
    BY <1>2, <1>7 DEF ChainInv
  <2>2. i # id
    BY <1>1, <2>1
  <2> QED
    BY <1>1, <2>1, <2>2
<1>8. DOMAIN verified_executions' \subseteq {i \in DOMAIN authorized : outcomes'[i] = "succeeded"}
  BY <1>1, <1>2, <1>4 DEF ChainInv, Agency!Recorded
<1>9. \A c \in ToolChains :
        /\ chain_history[c] \in Seq(DOMAIN authorized)
        /\ \/ chain_history'[c] = chain_history[c]
           \/ c = r.chain /\ chain_history'[c] = Append(chain_history[c], id)
  BY <1>2, <1>3 DEF ChainInv, Agency!Recorded
<1>10. chain_history' \in [ToolChains -> Seq(DOMAIN authorized)]
  <2>1. chain_history' = [c \in ToolChains |-> chain_history'[c]]
    BY <1>2 DEF ChainInv, Agency!Recorded
  <2>2. \A c \in ToolChains : chain_history'[c] \in Seq(DOMAIN authorized)
    BY <1>9, Appended
  <2> QED
    BY <2>1, <2>2
<1>11. Agency!AdjacentAllowed'
  <2> SUFFICES ASSUME NEW c \in ToolChains, NEW k \in 1 .. Len(chain_history'[c]) - 1
               PROVE  <<authorized[chain_history'[c][k]].tool, authorized[chain_history'[c][k + 1]].tool>>
                        \in Transitions
    BY <1>1 DEF Agency!AdjacentAllowed
  <2>1. Agency!AdjacentAllowed
    BY DEF ChainInv
  <2>2. CASE chain_history'[c] = chain_history[c]
    BY <2>1, <2>2 DEF Agency!AdjacentAllowed
  <2>3. CASE c = r.chain /\ chain_history'[c] = Append(chain_history[c], id)
    <3> DEFINE past == chain_history[c]
    <3>1. past \in Seq(DOMAIN authorized) /\ chain_history'[c] = Append(past, id)
      BY <1>9, <2>3
    <3>2. past # <<>> => <<authorized[past[Len(past)]].tool, r.tool>> \in Transitions
      BY <1>3, <2>3 DEF Agency!SequenceAllowed
    <3>3. \A i \in 1 .. Len(past) - 1 :
             <<authorized[past[i]].tool, authorized[past[i + 1]].tool>> \in Transitions
      BY <2>1 DEF Agency!AdjacentAllowed
    <3> HIDE DEF past
    <3>4. /\ Len(past) \in Nat /\ k \in 1 .. Len(past) /\ Append(past, id)[k] = past[k]
      BY <3>1
    <3>5. CASE k = Len(past)
      <4>1. Append(past, id)[k + 1] = id /\ past # <<>>
        BY <3>1, <3>4, <3>5
      <4> QED
        BY <3>1, <3>2, <3>4, <3>5, <4>1 DEF r
    <3>6. CASE k # Len(past)
      <4>1. Append(past, id)[k + 1] = past[k + 1] /\ k \in 1 .. Len(past) - 1
        BY <3>1, <3>4, <3>6
      <4> QED
        BY <3>1, <3>3, <3>4, <4>1
    <3> QED
      BY <3>5, <3>6
  <2> QED
    BY <1>9, <2>2, <2>3
<1>12. \A p \in Pending' : Agency!SequenceAllowed(p)'
  <2> SUFFICES ASSUME NEW i \in Running, i # id
               PROVE  Agency!SequenceAllowed(authorized[i])'
    BY <1>1, <1>2 DEF Pending
  <2>1. authorized[i].chain # r.chain /\ authorized[i] \in Pending /\ authorized[i].chain \in ToolChains
    BY <1>1, <1>2, OnePending, LogDomain, AgencyRequest DEF Running, r, Pending
  <2>2. chain_history'[authorized[i].chain] = chain_history[authorized[i].chain]
    BY <1>9, <2>1
  <2> QED
    BY <1>1, <2>1, <2>2 DEF ChainInv, Agency!SequenceAllowed
<1> QED
  BY <1>1, <1>5, <1>6, <1>7, <1>8, <1>10, <1>11, <1>12 DEF ChainInv

\* Every step of the authorizer preserves its invariant.
LEMMA AgencyStep ==
    ASSUME AgencyInv, [Agency!Next]_agency
    PROVE  AgencyInv'
<1> USE DEF AgencyInv
<1>1. ASSUME NEW r \in ToolRequests, NEW source \in DOMAIN verified_executions \cup {Agency!NoFlow},
             Agency!Authorize(r, source)
      PROVE  AgencyInv'
  <2>1. source \in Nat
    <3>1. DOMAIN verified_executions \subseteq DOMAIN authorized
      BY DEF ChainInv
    <3> QED
      BY <3>1, LogDomain DEF Agency!NoFlow
  <2> QED
    BY <1>1, <2>1, Granting, ChainAuthorize, ApprovalsAuthorize, FlowsAuthorize, BudgetAuthorize
<1>2. ASSUME NEW id \in DOMAIN authorized,
             Agency!Complete(id) \/ \E q \in Reports : Agency!VerifyCompletion(id, q)
      PROVE  AgencyInv'
  <2>1. LogInv' /\ ApprovalsInv' /\ FlowsInv' /\ BudgetInv'
    BY <1>2, Ending, ApprovalsEnd, FlowsEnd, BudgetEnd
  <2>2. ChainInv'
    BY <1>2, ChainComplete, ChainVerify
  <2> QED
    BY <2>1, <2>2
<1>3. CASE UNCHANGED agency
  <2>1. UNCHANGED <<semantic, authorized, flows, active_authorizations, active_semantic_requests,
                    quarantined_chains, chain_history, verified_executions, data_flow_uses,
                    used_approval_ids, tool_calls, outcomes>>
    BY <1>3 DEF agency
  <2>2. LogInv' /\ ApprovalsInv'
    BY <2>1 DEF LogInv, ApprovalsInv, Running, Agency!UsedOnce, Agency!Granted, Agency!ApprovalRequired
  <2>3. ChainInv'
    BY <2>1 DEF ChainInv, Pending, Agency!AdjacentAllowed, Agency!SequenceAllowed
  <2>4. /\ Running' = Running /\ Autonomous' = Autonomous
        /\ \A x : OfChain(x)' = OfChain(x) /\ OfOperation(x)' = OfOperation(x) /\ OfIntent(x)' = OfIntent(x)
        /\ \A s, t : Uses(s, t)' = Uses(s, t)
    BY <2>1 DEF Uses, Running, OfChain, OfOperation, OfIntent, Autonomous
  <2>5. FlowsInv'
    BY <2>1, <2>4 DEF FlowsInv
  <2>6. BudgetInv'
    BY <2>1, <2>4 DEF BudgetInv
  <2> QED
    BY <2>2, <2>3, <2>5, <2>6
<1> QED
  BY <1>1, <1>2, <1>3 DEF Agency!Next, Agency!Granted

\* The counters stay within the limits, whatever was granted.
LEMMA AgencyTypes == AgencyInv => Agency!TypeOK
<1> SUFFICES ASSUME AgencyInv PROVE Agency!TypeOK
  OBVIOUS
<1>1. LogInv /\ ChainInv /\ BudgetInv
  BY DEF AgencyInv
<1>2. authorized \in Seq(ToolRequests) /\ tool_calls.tool = Len(authorized)
  BY <1>1 DEF LogInv, BudgetInv
<1>3. DOMAIN flows = Agency!Granted /\ DOMAIN outcomes = Agency!Granted
  BY <1>1, LogDomain DEF Agency!Granted
<1>4. /\ active_semantic_requests \subseteq active_authorizations
      /\ active_authorizations = {i \in Agency!Granted : outcomes[i] = "running"}
  BY <1>1 DEF LogInv, Running, Agency!Granted
<1>5. quarantined_chains \subseteq ToolChains /\ DOMAIN verified_executions \subseteq Agency!Granted
  BY <1>1 DEF ChainInv, Agency!Granted
<1> QED
  BY <1>2, <1>3, <1>4, <1>5 DEF Agency!TypeOK

\* No counter is behind the calls it counts.
LEMMA AgencyLimits == AgencyInv => Agency!LimitsHold
BY DEF AgencyInv, BudgetInv, Agency!LimitsHold, Agency!Granted, Running, Autonomous,
       OfChain, OfOperation, OfIntent, Agency!Cardinality, Cardinality

\* An output is used no more often than its rule says.
LEMMA AgencyFlows == AgencyInv => Agency!FlowLimited
<1> SUFFICES ASSUME AgencyInv, semantic, NEW s \in DOMAIN authorized, NEW t \in Agency!Tools,
                    Uses(s, t) # {}
             PROVE  /\ Cardinality(Uses(s, t)) <= FlowRules[<<authorized[s].tool, t>>].max_uses
                    /\ outcomes[s] = "succeeded"
                    /\ \A i \in Uses(s, t) : s < i /\ authorized[i].chain = authorized[s].chain
  BY DEF Agency!FlowLimited, Agency!Granted, Uses, Agency!Cardinality, Cardinality
<1>1. LogInv /\ FlowsInv
  BY DEF AgencyInv
<1>2. s \in Nat /\ s # Agency!NoFlow
  BY <1>1, LogDomain DEF Agency!NoFlow
<1>3. ASSUME NEW i \in Uses(s, t)
      PROVE  /\ s \in 1 .. i - 1 /\ i \in Nat /\ outcomes[s] = "succeeded"
             /\ authorized[i].chain = authorized[s].chain
  <2>1. i \in DOMAIN authorized /\ flows[i] = s
    BY DEF Uses
  <2> QED
    BY <1>1, <1>2, <2>1, LogDomain DEF FlowsInv
<1> QED
  BY <1>1, <1>3 DEF FlowsInv

\* Chains follow the transitions allowed, and end with a violation.
LEMMA AgencyChains == AgencyInv => Agency!AdjacentAllowed /\ Agency!NothingAfterViolation
BY DEF AgencyInv, ChainInv, Agency!NothingAfterViolation, Agency!Granted

\* What the invariant says of tool calls.
LEMMA AgencySafe ==
    AgencyInv => /\ Agency!TypeOK /\ Agency!UsedOnce /\ Agency!LimitsHold /\ Agency!FlowLimited
                 /\ Agency!AdjacentAllowed /\ Agency!NothingAfterViolation
BY AgencyTypes, AgencyLimits, AgencyFlows, AgencyChains DEF AgencyInv, ApprovalsInv

-----------------------------------------------------------------------------
(* Approvals of plans *)

\* No call outlives the clock skew that nonces are retained for (authorize), as UsedOnce says.
ASSUME ReviewAssumption ==
    /\ \A a \in Review!Approvals : Approval[a].expires_at \in Nat
    /\ ReviewSkew \in Nat /\ ReviewLag \in Nat /\ ReviewLag <= ReviewSkew
    /\ Window \in Nat \ {0} /\ ReviewEnd \in Nat
    /\ MaxPrompts \in Nat /\ MaxRepeated \in Nat /\ MaxKeys \in Nat /\ MaxNonces \in Nat

\* A nonce that was claimed is remembered for as long as a call may present it.
NoncesInv ==
    /\ review_now \in Nat
    /\ DOMAIN reviews = Callers
    /\ \A t \in Callers : reviews[t] # Review!NoReview =>
        /\ reviews[t].approval \in Review!Approvals
        /\ reviews[t].at \in Nat /\ reviews[t].at < Approval[reviews[t].approval].expires_at
        /\ reviews[t].at <= review_now /\ review_now <= reviews[t].at + ReviewLag
    /\ approvals \in [Review!Approvals -> Nat]
    /\ claimed \in [Review!Approvals -> 0 .. 1]
    /\ IsFiniteSet({a \in Review!Approvals : approvals[a] > 0})
    /\ Cardinality({a \in Review!Approvals : approvals[a] > 0}) <= MaxNonces
    /\ \A a \in Review!Approvals :
        claimed[a] = 1 /\ review_now < Review!RetainedUntil(a) => approvals[a] = Review!RetainedUntil(a)

\* Until when a nonce is retained.
LEMMA RetainedType == \A a \in Review!Approvals :
    /\ Review!RetainedUntil(a) \in Nat
    /\ Review!RetainedUntil(a) = Approval[a].expires_at + ReviewSkew /\ Approval[a].expires_at \in Nat
BY ReviewAssumption DEF Review!RetainedUntil

\* Initially no nonce is claimed.
LEMMA NoncesInit == Review!Init => NoncesInv
<1> SUFFICES ASSUME Review!Init PROVE NoncesInv
  OBVIOUS
<1>1. /\ review_now = 0 /\ approvals = [a \in Review!Approvals |-> 0]
      /\ claimed = approvals /\ reviews = [t \in Callers |-> Review!NoReview]
  BY DEF Review!Init
<1>2. {a \in Review!Approvals : approvals[a] > 0} = {}
  BY <1>1
<1>3. IsFiniteSet({}) /\ Cardinality({}) = 0 /\ MaxNonces \in Nat
  BY ReviewAssumption, FS_EmptySet, Zenon
<1>4. /\ IsFiniteSet({a \in Review!Approvals : approvals[a] > 0})
      /\ Cardinality({a \in Review!Approvals : approvals[a] > 0}) = 0
  BY <1>2, <1>3, Zenon
<1> QED
  BY <1>1, <1>3, <1>4 DEF NoncesInv

\* claim_approval forgets what ended, and refuses the nonce of a call that holds a claimed one.
LEMMA NonceClaim ==
    ASSUME NoncesInv, NEW a \in Review!Approvals, NEW at \in Nat, at <= review_now,
           review_now < Review!RetainedUntil(a), Review!Claim(a, at)
    PROVE  /\ approvals' \in [Review!Approvals -> Nat]
           /\ claimed' \in [Review!Approvals -> 0 .. 1]
           /\ IsFiniteSet({b \in Review!Approvals : approvals'[b] > 0})
           /\ Cardinality({b \in Review!Approvals : approvals'[b] > 0}) <= MaxNonces
           /\ \A b \in Review!Approvals : claimed'[b] = 1 /\ review_now < Review!RetainedUntil(b)
                => approvals'[b] = Review!RetainedUntil(b)
<1> DEFINE kept == Review!Live(at)
           Kept == {b \in Review!Approvals : kept[b] > 0}
<1>1. /\ kept \in [Review!Approvals -> Nat]
      /\ Kept \in SUBSET {b \in Review!Approvals : approvals[b] > 0}
      /\ \A b \in Review!Approvals : kept[b] = IF approvals[b] > at THEN approvals[b] ELSE 0
  BY DEF Review!Live, NoncesInv
<1>2. /\ MaxNonces \in Nat
      /\ IsFiniteSet({b \in Review!Approvals : approvals[b] > 0})
      /\ Cardinality({b \in Review!Approvals : approvals[b] > 0}) <= MaxNonces
  BY ReviewAssumption DEF NoncesInv
<1>3. /\ IsFiniteSet(Kept) /\ Cardinality(Kept) <= MaxNonces
      /\ IsFiniteSet(Kept \cup {a})
      /\ Cardinality(Kept) < MaxNonces => Cardinality(Kept \cup {a}) <= MaxNonces
  <2> HIDE DEF Kept
  <2> QED
    BY <1>1, <1>2, KeptWithin
<1>4. \A b \in Review!Approvals : claimed[b] = 1 /\ review_now < Review!RetainedUntil(b)
                => kept[b] = Review!RetainedUntil(b) /\ kept[b] > 0
  <2>1. ASSUME NEW b \in Review!Approvals, claimed[b] = 1, review_now < Review!RetainedUntil(b)
        PROVE  kept[b] = Review!RetainedUntil(b) /\ kept[b] > 0
    <3>1. /\ approvals[b] = Review!RetainedUntil(b) /\ Review!RetainedUntil(b) \in Nat
          /\ review_now \in Nat
      BY <2>1, RetainedType DEF NoncesInv
    <3> HIDE DEF kept
    <3> QED
      BY <1>1, <2>1, <3>1
  <2> QED
    BY <2>1
<1>5. CASE approvals' = kept /\ claimed' = claimed
  <2>1. {b \in Review!Approvals : approvals'[b] > 0} = Kept
    BY <1>5
  <2> HIDE DEF kept, Kept
  <2> QED
    BY <1>1, <1>3, <1>4, <1>5, <2>1 DEF NoncesInv
<1>6. CASE /\ kept[a] = 0 /\ Cardinality(Kept) < MaxNonces
           /\ approvals' = [kept EXCEPT ![a] = Review!RetainedUntil(a)]
           /\ claimed' = [claimed EXCEPT ![a] = @ + 1]
  <2>1. claimed[a] = 0 /\ claimed \in [Review!Approvals -> 0 .. 1]
    <3>1. claimed[a] # 1
      <4> HIDE DEF kept
      <4> QED
        BY <1>4, <1>6
    <3> QED
      BY <3>1 DEF NoncesInv
  <2>2. claimed' \in [Review!Approvals -> 0 .. 1]
    BY <1>6, <2>1
  <2>3. /\ approvals' \in [Review!Approvals -> Nat] /\ approvals'[a] = Review!RetainedUntil(a)
        /\ approvals'[a] > 0
        /\ \A b \in Review!Approvals : b # a => approvals'[b] = kept[b] /\ claimed'[b] = claimed[b]
    <3>1. Review!RetainedUntil(a) \in Nat /\ Review!RetainedUntil(a) > 0
      BY RetainedType DEF NoncesInv
    <3> HIDE DEF kept, Kept
    <3> QED
      BY <1>1, <1>6, <2>1, <3>1
  <2>4. {b \in Review!Approvals : approvals'[b] > 0} = Kept \cup {a}
    <3> HIDE DEF kept
    <3> QED
      BY <2>3
  <2>5. /\ IsFiniteSet({b \in Review!Approvals : approvals'[b] > 0})
        /\ Cardinality({b \in Review!Approvals : approvals'[b] > 0}) <= MaxNonces
    <3> HIDE DEF Kept
    <3> QED
      BY <1>3, <1>6, <2>4
  <2>6. \A b \in Review!Approvals : claimed'[b] = 1 /\ review_now < Review!RetainedUntil(b)
                => approvals'[b] = Review!RetainedUntil(b)
    <3> HIDE DEF kept
    <3> QED
      BY <1>4, <2>3
  <2> QED
    BY <2>2, <2>3, <2>5, <2>6
<1> QED
  BY <1>5, <1>6 DEF Review!Claim, Review!Cardinality, Cardinality

\* Every step of the approver preserves the invariant of its nonces.
LEMMA NoncesStep == NoncesInv /\ [Review!Next]_review => NoncesInv'
<1> SUFFICES ASSUME NoncesInv, [Review!Next]_review PROVE NoncesInv'
  OBVIOUS
<1> USE DEF Review!RetainedUntil
<1>1. ASSUME NEW key \in Reviewed, NEW preview \in Previews, Review!Prepare(key, preview)
      PROVE  NoncesInv'
  BY <1>1 DEF NoncesInv, Review!Prepare
<1>2. ASSUME NEW t \in Callers, NEW a \in Review!Approvals, Review!AuthorizeBegin(t, a)
      PROVE  NoncesInv'
  <2>1. /\ reviews' = [reviews EXCEPT ![t] = [approval |-> a, at |-> review_now]]
        /\ UNCHANGED <<review_now, approvals, claimed>>
        /\ review_now < Approval[a].expires_at /\ ReviewLag \in Nat /\ review_now \in Nat
    BY <1>2, ReviewAssumption DEF Review!AuthorizeBegin, Review!Accepted, NoncesInv
  <2> QED
    BY <2>1 DEF NoncesInv
<1>3. ASSUME NEW t \in Callers, Review!AuthorizeClaim(t) PROVE NoncesInv'
  <2> DEFINE c == reviews[t]
  <2>1. /\ reviews' = [reviews EXCEPT ![t] = Review!NoReview] /\ review_now' = review_now
        /\ Review!Claim(c.approval, c.at) \/ UNCHANGED <<approvals, claimed>>
        /\ c # Review!NoReview
    BY <1>3 DEF Review!AuthorizeClaim
  <2>2. /\ c.approval \in Review!Approvals /\ c.at \in Nat /\ c.at <= review_now
        /\ c.at < Approval[c.approval].expires_at /\ review_now <= c.at + ReviewLag
        /\ review_now \in Nat
    BY <2>1 DEF NoncesInv
  <2>3. review_now < Review!RetainedUntil(c.approval)
    BY <2>2, ReviewAssumption
  <2>4. CASE Review!Claim(c.approval, c.at)
    <3>1. /\ approvals' \in [Review!Approvals -> Nat]
          /\ claimed' \in [Review!Approvals -> 0 .. 1]
          /\ IsFiniteSet({b \in Review!Approvals : approvals'[b] > 0})
          /\ Cardinality({b \in Review!Approvals : approvals'[b] > 0}) <= MaxNonces
          /\ \A b \in Review!Approvals : claimed'[b] = 1 /\ review_now < Review!RetainedUntil(b)
                => approvals'[b] = Review!RetainedUntil(b)
      <4> HIDE DEF c, Review!RetainedUntil
      <4> QED
        BY <2>2, <2>3, <2>4, NonceClaim
    <3> QED
      BY <2>1, <3>1 DEF NoncesInv
  <2>5. CASE UNCHANGED <<approvals, claimed>>
    BY <2>1, <2>5 DEF NoncesInv
  <2> QED
    BY <2>1, <2>4, <2>5
<1>4. CASE Review!Tick
  <2>1. /\ review_now' = review_now + 1 /\ review_now \in Nat /\ ReviewLag \in Nat
        /\ UNCHANGED <<approvals, reviews, claimed>>
        /\ \A t \in Callers : reviews[t] # Review!NoReview => review_now - reviews[t].at < ReviewLag
    BY <1>4, ReviewAssumption DEF Review!Tick, NoncesInv
  <2>2. ASSUME NEW t \in Callers, reviews[t] # Review!NoReview
        PROVE  reviews[t].at <= review_now' /\ review_now' <= reviews[t].at + ReviewLag
    <3>1. reviews[t].at \in Nat /\ reviews[t].at <= review_now
      BY <2>2 DEF NoncesInv
    <3> QED
      BY <2>1, <2>2, <3>1
  <2>3. ASSUME NEW a \in Review!Approvals, review_now' < Review!RetainedUntil(a)
        PROVE  review_now < Review!RetainedUntil(a)
    <3>1. Review!RetainedUntil(a) \in Nat
      BY RetainedType
    <3> HIDE DEF Review!RetainedUntil
    <3> QED
      BY <2>1, <2>3, <3>1
  <2> QED
    BY <2>1, <2>2, <2>3 DEF NoncesInv
<1>5. CASE UNCHANGED review
  BY <1>5 DEF NoncesInv, review
<1> QED
  BY <1>1, <1>2, <1>3, <1>4, <1>5 DEF Review!Next

\* No nonce was ever claimed twice.
LEMMA NoncesSafe == NoncesInv => Review!UsedOnce
BY DEF NoncesInv, Review!UsedOnce

-----------------------------------------------------------------------------
(* Prompts of a reviewer *)

Prompt == [at : Nat, preview : Previews]

\* The prompts in the window that ends at some moment.
Shown(k, end) == {i \in DOMAIN prompted[k] : prompted[k][i].at \in end - Window + 1 .. end}
ShownOf(k, end, p) == {i \in Shown(k, end) : prompted[k][i].preview = p}

\* What the store keeps of the prompts of a key is their end, the window included.
PromptsInv ==
    /\ review_now \in Nat
    /\ prompted \in [Reviewed -> Seq(Prompt)]
    /\ \A k \in Reviewed : \A i \in DOMAIN prompted[k] :
        /\ prompted[k][i].at <= review_now
        /\ \A j \in DOMAIN prompted[k] : i <= j => prompted[k][i].at <= prompted[k][j].at
    /\ DOMAIN prompts = Reviewed
    /\ \A k \in Reviewed : \E d \in 0 .. Len(prompted[k]) :
        /\ prompts[k] = SubSeq(prompted[k], d + 1, Len(prompted[k]))
        /\ \A i \in 1 .. d : prompted[k][i].at <= review_now - Window
    /\ IsFiniteSet({k \in Reviewed : prompts[k] # <<>>})
    /\ Cardinality({k \in Reviewed : prompts[k] # <<>>}) <= MaxKeys
    /\ \A k \in Reviewed, end \in Nat :
        /\ IsFiniteSet(Shown(k, end)) /\ Cardinality(Shown(k, end)) <= MaxPrompts
        /\ \A p \in Previews : Cardinality(ShownOf(k, end, p)) <= MaxRepeated

\* The deque without its expired head is what was prompted in the window that ends now.
LEMMA RecentShown ==
    ASSUME PromptsInv, NEW k \in Reviewed
    PROVE  \E e \in 0 .. Len(prompted[k]) :
             /\ Review!Recent(k) = SubSeq(prompted[k], e + 1, Len(prompted[k]))
             /\ \A i \in 1 .. e : prompted[k][i].at <= review_now - Window
             /\ Shown(k, review_now) = e + 1 .. Len(prompted[k])
             /\ prompts[k] = <<>> => Review!Recent(k) = <<>>
<1> DEFINE s == prompted[k]
           n == Len(s)
           Fresh == {i \in Int : i \in 1 .. n /\ s[i].at > review_now - Window}
<1>1. /\ s \in Seq(Prompt) /\ n \in Nat /\ DOMAIN s = 1 .. n
      /\ review_now \in Nat /\ Window \in Nat
      /\ \A i \in 1 .. n : s[i].at \in Nat /\ s[i].at <= review_now
      /\ \A i, j \in 1 .. n : i <= j => s[i].at <= s[j].at
  <2>1. s \in Seq(Prompt) /\ review_now \in Nat /\ Window \in Nat
    BY ReviewAssumption DEF PromptsInv
  <2>2. n \in Nat /\ DOMAIN s = 1 .. n
    BY <2>1
  <2>3. \A i \in 1 .. n : s[i] \in Prompt
    BY <2>1, <2>2, Logged
  <2>4. \A i \in 1 .. n : s[i].at <= review_now /\ \A j \in 1 .. n : i <= j => s[i].at <= s[j].at
    BY <2>2 DEF PromptsInv
  <2> QED
    BY <2>1, <2>2, <2>3, <2>4 DEF Prompt
<1>2. PICK d \in 0 .. n : /\ prompts[k] = SubSeq(s, d + 1, n)
                          /\ \A i \in 1 .. d : s[i].at <= review_now - Window
  BY DEF PromptsInv
<1> HIDE DEF s, n
<1>3. PICK e \in d .. n : Fresh = e + 1 .. n
  <2>1. CASE (1 .. n) \ Fresh = {}
    <3>1. d = 0
      <4>1. SUFFICES ASSUME d # 0 PROVE FALSE
        OBVIOUS
      <4>2. d \in 1 .. d /\ d \in 1 .. n /\ s[d].at <= review_now - Window
        BY <1>1, <1>2, <4>1
      <4>3. d \notin Fresh
        BY <1>1, <4>2
      <4> QED
        BY <2>1, <4>2, <4>3
    <3>2. Fresh = 0 + 1 .. n
      BY <1>1, <2>1
    <3> QED
      BY <1>1, <3>1, <3>2
  <2>2. CASE (1 .. n) \ Fresh # {}
    <3>1. PICK e \in (1 .. n) \ Fresh : \A m \in e + 1 .. n : m \in Fresh
      <4> HIDE DEF Fresh
      <4> QED
        BY <1>1, <2>2, LastOutside
    <3>2. e \in 1 .. n /\ s[e].at <= review_now - Window
      BY <1>1
    <3>3. d <= e
      <4>1. SUFFICES ASSUME e < d PROVE FALSE
        BY <1>1, <1>2, <3>2
      <4>2. d \in Fresh
        BY <1>1, <1>2, <3>1, <3>2, <4>1
      <4>3. d \in 1 .. d
        BY <1>1, <1>2, <3>2, <4>1
      <4> QED
        BY <1>1, <1>2, <4>2, <4>3
    <3>4. \A m \in Fresh : m \in e + 1 .. n
      BY <1>1, <3>2
    <3>5. Fresh = e + 1 .. n
      <4> HIDE DEF Fresh
      <4> QED
        BY <3>1, <3>4
    <3>6. e \in d .. n
      BY <1>1, <1>2, <3>2, <3>3
    <3> HIDE DEF Fresh
    <3> QED
      BY <3>5, <3>6
  <2> QED
    BY <2>1, <2>2
<1>4. d \in Nat /\ e \in Nat /\ d <= e /\ e <= n
  BY <1>1, <1>2, <1>3
<1> DEFINE t == SubSeq(s, d + 1, n)
<1>5. Len(t) = n - d /\ DOMAIN t = 1 .. n - d /\ \A i \in 1 .. n - d : t[i] = s[i + d]
  BY <1>1, <1>4
<1> HIDE DEF t
<1> DEFINE fresh == {i \in DOMAIN t : t[i].at > review_now - Window}
<1>6. fresh = (e - d) + 1 .. n - d
  <2>1. \A i \in 1 .. n - d : i \in fresh <=> i + d \in Fresh
    BY <1>1, <1>4, <1>5
  <2> HIDE DEF Fresh
  <2> QED
    BY <1>1, <1>3, <1>4, <1>5, <2>1
<1>7. Cardinality(fresh) = n - e
  <2> HIDE DEF fresh
  <2>1. Cardinality((e - d) + 1 .. n - d) = IF (e - d) + 1 > n - d THEN 0 ELSE (n - d) - ((e - d) + 1) + 1
    BY <1>1, <1>4, FS_Interval
  <2> QED
    BY <1>1, <1>4, <1>6, <2>1
<1>8. Review!Recent(k) = SubSeq(t, (e - d) + 1, n - d)
  <2>1. Review!Recent(k) = SubSeq(t, Len(t) - Cardinality(fresh) + 1, Len(t))
    BY <1>2 DEF Review!Recent, Review!InWindow, Review!Cardinality, Cardinality, t, s, n
  <2>2. Len(t) - Cardinality(fresh) + 1 = (e - d) + 1 /\ Len(t) = n - d
    <3> HIDE DEF fresh
    <3> QED
      BY <1>1, <1>4, <1>5, <1>7
  <2> HIDE DEF fresh
  <2> QED
    BY <2>1, <2>2
<1>9. SubSeq(t, (e - d) + 1, n - d) = SubSeq(s, e + 1, n)
  BY <1>1, <1>4 DEF t
<1>10. Shown(k, review_now) = e + 1 .. n
  <2>1. Shown(k, review_now) = Fresh
    BY <1>1 DEF Shown, s
  <2> QED
    BY <1>3, <2>1
<1>11. ASSUME NEW i \in 1 .. e PROVE s[i].at <= review_now - Window
  <2>1. i \in 1 .. n /\ i \notin Fresh
    <3> HIDE DEF Fresh
    <3> QED
      BY <1>1, <1>3, <1>4
  <2> QED
    BY <1>1, <2>1
<1>12. prompts[k] = <<>> => Review!Recent(k) = <<>>
  <2>1. ASSUME prompts[k] = <<>> PROVE n - d = 0
    BY <1>1, <1>2, <1>4, <1>5, <2>1 DEF t
  <2>2. n - d = 0 => SubSeq(t, (e - d) + 1, n - d) = <<>>
    BY <1>1, <1>4, <1>5
  <2> QED
    BY <1>8, <2>1, <2>2
<1>13. /\ e \in 0 .. n
       /\ Review!Recent(k) = SubSeq(s, e + 1, n)
       /\ Shown(k, review_now) = e + 1 .. n
  BY <1>1, <1>4, <1>8, <1>9, <1>10
<1> QED
  BY <1>11, <1>12, <1>13 DEF s, n

\* So the deque says how often a prompt was shown, and one preview.
LEMMA RecentCounts ==
    ASSUME PromptsInv, NEW k \in Reviewed
    PROVE  /\ IsFiniteSet(Shown(k, review_now))
           /\ Len(Review!Recent(k)) = Cardinality(Shown(k, review_now))
           /\ \A p : Cardinality({i \in DOMAIN Review!Recent(k) : Review!Recent(k)[i].preview = p})
                        = Cardinality(ShownOf(k, review_now, p))
<1> DEFINE s == prompted[k]
           n == Len(s)
           r == Review!Recent(k)
<1>1. s \in Seq(Prompt) /\ n \in Nat /\ DOMAIN s = 1 .. n
  BY DEF PromptsInv
<1>2. PICK e \in 0 .. n : /\ r = SubSeq(s, e + 1, n)
                          /\ Shown(k, review_now) = e + 1 .. n
  BY RecentShown
<1> HIDE DEF s, n, r
<1>3. Len(r) = n - e /\ DOMAIN r = 1 .. n - e /\ \A i \in 1 .. n - e : r[i] = s[i + e]
  BY <1>1, <1>2
<1>4. IsFiniteSet(e + 1 .. n) /\ Cardinality(e + 1 .. n) = n - e
  <2>1. /\ IsFiniteSet(e + 1 .. n)
        /\ Cardinality(e + 1 .. n) = IF e + 1 > n THEN 0 ELSE n - (e + 1) + 1
    BY <1>1, <1>2, FS_Interval
  <2> QED
    BY <1>1, <1>2, <2>1
<1>5. ASSUME NEW p
      PROVE  Cardinality({i \in DOMAIN r : r[i].preview = p}) = Cardinality(ShownOf(k, review_now, p))
  <2> DEFINE A == ShownOf(k, review_now, p)
  <2>1. A = {i \in e + 1 .. n : s[i].preview = p}
    BY <1>2 DEF ShownOf, s
  <2>2. A \in SUBSET (e + 1 .. n)
    BY <2>1
  <2>6. A \in SUBSET Int /\ IsFiniteSet(A)
    <3> HIDE DEF A
    <3>1. A \in SUBSET Int
      BY <1>1, <1>2, <2>2
    <3>2. IsFiniteSet(A)
      BY <1>4, <2>2, FS_Subset
    <3> QED
      BY <3>1, <3>2
  <2>3. {i \in DOMAIN r : r[i].preview = p} = {i \in Int : i + e \in A}
    <3>1. ASSUME NEW i \in DOMAIN r PROVE i \in Int /\ (r[i].preview = p <=> i + e \in A)
      BY <1>1, <1>2, <1>3, <2>1
    <3>2. ASSUME NEW i \in Int, i + e \in A PROVE i \in DOMAIN r
      BY <1>1, <1>2, <1>3, <2>1, <3>2
    <3> HIDE DEF A
    <3> QED
      BY <3>1, <3>2
  <2>4. e \in Int
    BY <1>1, <1>2
  <2> HIDE DEF A
  <2>5. Cardinality({i \in Int : i + e \in A}) = Cardinality(A)
    BY <2>4, <2>6, Shifted
  <2> QED
    BY <2>3, <2>5 DEF A
<1> QED
  BY <1>2, <1>3, <1>4, <1>5 DEF r

\* Forgetting what left the window.
LEMMA PromptsForgotten ==
    ASSUME PromptsInv, NEW k \in Reviewed
    PROVE  \E d \in 0 .. Len(prompted[k]) :
             /\ Review!Recent(k) = SubSeq(prompted[k], d + 1, Len(prompted[k]))
             /\ \A i \in 1 .. d : prompted[k][i].at <= review_now - Window
BY RecentShown

\* The end of a sequence to which something is appended.
LEMMA EndAppended ==
    ASSUME NEW S, NEW s \in Seq(S), NEW x \in S, NEW e \in 0 .. Len(s)
    PROVE  Append(SubSeq(s, e + 1, Len(s)), x) = SubSeq(Append(s, x), e + 1, Len(s) + 1)
<1> DEFINE n == Len(s)
           l == Append(SubSeq(s, e + 1, n), x)
           r == SubSeq(Append(s, x), e + 1, n + 1)
<1>1. n \in Nat /\ e \in Nat /\ e <= n
  OBVIOUS
<1>2. /\ SubSeq(s, e + 1, n) \in Seq(S) /\ Len(SubSeq(s, e + 1, n)) = n - e
      /\ \A i \in 1 .. n - e : SubSeq(s, e + 1, n)[i] = s[e + i]
  BY <1>1
<1>3. /\ Append(s, x) \in Seq(S) /\ Len(Append(s, x)) = n + 1
      /\ \A i \in 1 .. n : Append(s, x)[i] = s[i]
      /\ Append(s, x)[n + 1] = x
  OBVIOUS
<1>4. /\ l \in Seq(S) /\ Len(l) = (n - e) + 1
      /\ \A i \in 1 .. n - e : l[i] = s[e + i]
      /\ l[(n - e) + 1] = x
  BY <1>1, <1>2
<1>5. /\ r \in Seq(S) /\ Len(r) = (n + 1) - e
      /\ \A i \in 1 .. (n + 1) - e : r[i] = Append(s, x)[e + i]
  <2> DEFINE a == Append(s, x)
  <2>1. a \in Seq(S) /\ Len(a) = n + 1
    BY <1>3
  <2> HIDE DEF a, n
  <2> QED
    BY <1>1, <2>1 DEF a
<1> HIDE DEF l, r, n
<1>6. \A i \in 1 .. Len(l) : l[i] = r[i]
  BY <1>1, <1>3, <1>4, <1>5
<1> QED
  BY <1>1, <1>4, <1>5, <1>6 DEF l, r, n

\* One more prompt, for which policy and store have room.
LEMMA PromptAdded ==
    ASSUME PromptsInv, NEW k \in Reviewed, NEW preview \in Previews, Review!Promptable(k, preview),
           prompted'[k] = Append(prompted[k], [at |-> review_now, preview |-> preview]),
           prompts'[k] = Append(Review!Recent(k), [at |-> review_now, preview |-> preview])
    PROVE  /\ prompted'[k] \in Seq(Prompt)
           /\ \A i \in DOMAIN prompted'[k] :
                /\ prompted'[k][i].at <= review_now
                /\ \A j \in DOMAIN prompted'[k] : i <= j => prompted'[k][i].at <= prompted'[k][j].at
           /\ \E d \in 0 .. Len(prompted'[k]) :
                /\ prompts'[k] = SubSeq(prompted'[k], d + 1, Len(prompted'[k]))
                /\ \A i \in 1 .. d : prompted'[k][i].at <= review_now - Window
           /\ \A end \in Nat :
                /\ IsFiniteSet(Shown(k, end)') /\ Cardinality(Shown(k, end)') <= MaxPrompts
                /\ \A p \in Previews : Cardinality(ShownOf(k, end, p)') <= MaxRepeated
<1> DEFINE s == prompted[k]
           n == Len(s)
           x == [at |-> review_now, preview |-> preview]
<1>1. /\ s \in Seq(Prompt) /\ n \in Nat /\ DOMAIN s = 1 .. n /\ x \in Prompt
      /\ review_now \in Nat /\ Window \in Nat /\ Window > 0
  <2>1. s \in Seq(Prompt) /\ review_now \in Nat
    BY DEF PromptsInv
  <2>2. n \in Nat /\ DOMAIN s = 1 .. n
    BY <2>1
  <2>3. x \in Prompt
    BY <2>1 DEF Prompt
  <2> QED
    BY <2>1, <2>2, <2>3, ReviewAssumption
<1>2. \A i \in 1 .. n : s[i].at \in Nat /\ s[i].at <= review_now
  <2>1. \A i \in 1 .. n : s[i] \in Prompt
    BY <1>1, Logged
  <2> QED
    BY <1>1, <2>1 DEF PromptsInv, Prompt
<1>3. \A i, j \in 1 .. n : i <= j => s[i].at <= s[j].at
  BY <1>1 DEF PromptsInv
<1>4. PICK e \in 0 .. n : /\ Review!Recent(k) = SubSeq(s, e + 1, n)
                          /\ \A i \in 1 .. e : s[i].at <= review_now - Window
  BY RecentShown
<1> DEFINE s1 == prompted'[k]
<1>5. /\ s1 \in Seq(Prompt) /\ Len(s1) = n + 1 /\ DOMAIN s1 = 1 .. n + 1
      /\ \A i \in 1 .. n : s1[i] = s[i]
      /\ s1[n + 1] = x
  <2> HIDE DEF s, x
  <2> QED
    BY <1>1 DEF s, n, x
<1>6. \A i, j \in 1 .. n + 1 : s1[i].at <= review_now /\ (i <= j => s1[i].at <= s1[j].at)
  <2> HIDE DEF s1, s, n
  <2> QED
    BY <1>1, <1>2, <1>3, <1>5
<1>7. prompts'[k] = SubSeq(s1, e + 1, n + 1)
  <2>1. Append(SubSeq(s, e + 1, n), x) = SubSeq(Append(s, x), e + 1, n + 1)
    <3> HIDE DEF s, x
    <3> QED
      BY <1>1, EndAppended
  <2> QED
    BY <1>4, <2>1
<1>8. \A i \in 1 .. e : s1[i].at <= review_now - Window
  <2> HIDE DEF s1, s, n
  <2> QED
    BY <1>1, <1>4, <1>5
<1>9. /\ Cardinality(Shown(k, review_now)) < MaxPrompts
      /\ Cardinality(ShownOf(k, review_now, preview)) < MaxRepeated
  BY RecentCounts DEF Review!Promptable, Review!Cardinality, Cardinality
<1>10. ASSUME NEW end \in Nat
       PROVE  /\ IsFiniteSet(Shown(k, end)') /\ Cardinality(Shown(k, end)') <= MaxPrompts
              /\ \A p \in Previews : Cardinality(ShownOf(k, end, p)') <= MaxRepeated
  <2>1. Shown(k, end)' = {i \in 1 .. n + 1 : s1[i].at \in end - Window + 1 .. end}
    BY <1>5 DEF Shown
  <2>2. \A p : ShownOf(k, end, p)' = {i \in Shown(k, end)' : s1[i].preview = p}
    BY DEF ShownOf
  <2>3. \A m : Shown(k, m) = {i \in 1 .. n : s[i].at \in m - Window + 1 .. m}
    BY <1>1 DEF Shown
  <2>4. \A m, p : ShownOf(k, m, p) = {i \in Shown(k, m) : s[i].preview = p}
    BY DEF ShownOf
  <2>5. \A m \in Nat : /\ IsFiniteSet(Shown(k, m)) /\ Cardinality(Shown(k, m)) <= MaxPrompts
                       /\ \A p \in Previews : /\ IsFiniteSet(ShownOf(k, m, p))
                                              /\ Cardinality(ShownOf(k, m, p)) <= MaxRepeated
    <3>1. \A m \in Nat : /\ IsFiniteSet(Shown(k, m)) /\ Cardinality(Shown(k, m)) <= MaxPrompts
                         /\ \A p \in Previews : Cardinality(ShownOf(k, m, p)) <= MaxRepeated
      BY DEF PromptsInv
    <3>2. \A m, p : ShownOf(k, m, p) \in SUBSET Shown(k, m)
      BY DEF ShownOf
    <3> QED
      BY <3>1, <3>2, FS_Subset
  <2> HIDE DEF s1, s, n
  <2>6. CASE end < review_now
    <3>1. ~ (s1[n + 1].at \in end - Window + 1 .. end)
      BY <1>1, <1>5, <2>6
    <3>2. Shown(k, end)' = Shown(k, end)
      BY <1>1, <1>5, <2>1, <2>3, <3>1
    <3>3. \A i \in Shown(k, end) : s1[i] = s[i]
      BY <1>5, <2>3
    <3>4. \A p : ShownOf(k, end, p)' = ShownOf(k, end, p)
      <4>1. TAKE p
      <4>2. {i \in Shown(k, end) : s1[i].preview = p} = {i \in Shown(k, end) : s[i].preview = p}
        BY <3>3
      <4> QED
        BY <2>2, <2>4, <3>2, <4>2
    <3> QED
      BY <2>5, <3>2, <3>4
  <2>7. CASE ~ (end < review_now)
    <3>1. Shown(k, end)' \in SUBSET (Shown(k, review_now) \cup {n + 1})
      <4>1. ASSUME NEW i \in 1 .. n, s[i].at \in end - Window + 1 .. end
            PROVE  s[i].at \in review_now - Window + 1 .. review_now
        BY <1>1, <1>2, <2>7, <4>1
      <4>2. ASSUME NEW i \in Shown(k, end)'
            PROVE  i \in Shown(k, review_now) \cup {n + 1}
        <5>1. i \in 1 .. n + 1 /\ s1[i].at \in end - Window + 1 .. end
          BY <2>1
        <5>2. CASE i \in 1 .. n
          BY <1>5, <2>3, <4>1, <5>1, <5>2
        <5> QED
          BY <1>1, <5>1, <5>2
      <4> QED
        BY <4>2
    <3>5. \A i \in Shown(k, review_now) : s1[i] = s[i]
      BY <1>5, <2>3
    <3>6. s1[n + 1].preview = preview /\ n + 1 \notin 1 .. n
      BY <1>1, <1>5
    <3>2. /\ IsFiniteSet(Shown(k, review_now) \cup {n + 1})
          /\ Cardinality(Shown(k, review_now) \cup {n + 1}) <= MaxPrompts
      BY <1>1, <1>9, <2>5, ReviewAssumption, KeptWithin
    <3>3. IsFiniteSet(Shown(k, end)') /\ Cardinality(Shown(k, end)') <= MaxPrompts
      BY <3>1, <3>2, ReviewAssumption, KeptWithin
    <3>4. ASSUME NEW p \in Previews PROVE Cardinality(ShownOf(k, end, p)') <= MaxRepeated
      <4>1. CASE p = preview
        <5>1. ShownOf(k, end, p)' \in SUBSET (ShownOf(k, review_now, p) \cup {n + 1})
          BY <2>2, <2>4, <3>1, <3>5
        <5>2. /\ IsFiniteSet(ShownOf(k, review_now, p) \cup {n + 1})
              /\ Cardinality(ShownOf(k, review_now, p) \cup {n + 1}) <= MaxRepeated
          <6> DEFINE S == ShownOf(k, review_now, p)
          <6>1. /\ IsFiniteSet(S) /\ Cardinality(S) <= MaxRepeated /\ MaxRepeated \in Nat
                /\ Cardinality(S) < MaxRepeated
            BY <1>1, <1>9, <2>5, <4>1, ReviewAssumption
          <6> HIDE DEF S
          <6>2. IsFiniteSet(S \cup {n + 1}) /\ Cardinality(S \cup {n + 1}) <= MaxRepeated
            BY <6>1, KeptWithin
          <6> QED
            BY <6>2 DEF S
        <5> QED
          BY <5>1, <5>2, ReviewAssumption, KeptWithin
      <4>2. CASE p # preview
        <5>1. ShownOf(k, end, p)' \in SUBSET ShownOf(k, review_now, p)
          BY <2>2, <2>4, <3>1, <3>5, <3>6, <4>2
        <5>2. /\ IsFiniteSet(ShownOf(k, review_now, p))
              /\ Cardinality(ShownOf(k, review_now, p)) <= MaxRepeated
          BY <1>1, <2>5
        <5> QED
          BY <5>1, <5>2, ReviewAssumption, KeptWithin
      <4> QED
        BY <4>1, <4>2
    <3> QED
      BY <3>3, <3>4
  <2> QED
    BY <2>6, <2>7
<1>11. e \in 0 .. Len(s1)
  <2> HIDE DEF s1, s, n
  <2> QED
    BY <1>1, <1>5
<1> QED
  BY <1>5, <1>6, <1>7, <1>8, <1>10, <1>11

\* Initially nothing was prompted.
LEMMA PromptsInit == Review!Init => PromptsInv
<1> SUFFICES ASSUME Review!Init PROVE PromptsInv
  OBVIOUS
<1>1. /\ review_now = 0 /\ prompts = [k \in Reviewed |-> <<>>] /\ prompted = prompts
  BY DEF Review!Init
<1>2. {k \in Reviewed : prompts[k] # <<>>} = {}
  BY <1>1
<1>3. IsFiniteSet({}) /\ Cardinality({}) = 0 /\ MaxKeys \in Nat /\ MaxPrompts \in Nat /\ MaxRepeated \in Nat
  BY ReviewAssumption, FS_EmptySet, Zenon
<1>4. /\ IsFiniteSet({k \in Reviewed : prompts[k] # <<>>})
      /\ Cardinality({k \in Reviewed : prompts[k] # <<>>}) = 0
  BY <1>2, <1>3, Zenon
<1>5. \A k \in Reviewed : \A end, p : Shown(k, end) = {} /\ ShownOf(k, end, p) = {}
  BY <1>1 DEF Shown, ShownOf
<1>6. \A k \in Reviewed : prompted[k] = <<>> /\ prompts[k] = SubSeq(prompted[k], 0 + 1, Len(prompted[k]))
  BY <1>1
<1>7. \A k \in Reviewed, end \in Nat :
        /\ IsFiniteSet(Shown(k, end)) /\ Cardinality(Shown(k, end)) <= MaxPrompts
        /\ \A p \in Previews : Cardinality(ShownOf(k, end, p)) <= MaxRepeated
  BY <1>3, <1>5
<1> QED
  BY <1>1, <1>3, <1>4, <1>6, <1>7 DEF PromptsInv

\* prepare records a prompt within the limits of its window (record_prompt).
LEMMA PromptsPrepare ==
    ASSUME PromptsInv, NEW key \in Reviewed, NEW preview \in Previews, Review!Prepare(key, preview)
    PROVE  PromptsInv'
<1> DEFINE prompt == [at |-> review_now, preview |-> preview]
           Kept == {k \in Reviewed : Review!Recent(k) # <<>>}
<1>1. /\ review_now' = review_now /\ review_now \in Nat
      /\ DOMAIN prompts' = Reviewed /\ DOMAIN prompted' = Reviewed
      /\ \A k \in Reviewed :
            IF k = key /\ Review!Promptable(key, preview)
            THEN prompts'[k] = Append(Review!Recent(k), prompt) /\ prompted'[k] = Append(prompted[k], prompt)
            ELSE prompts'[k] = Review!Recent(k) /\ prompted'[k] = prompted[k]
  BY DEF Review!Prepare, PromptsInv
<1>2. ASSUME NEW k \in Reviewed
      PROVE  /\ prompted'[k] \in Seq(Prompt)
             /\ \A i \in DOMAIN prompted'[k] :
                  /\ prompted'[k][i].at <= review_now
                  /\ \A j \in DOMAIN prompted'[k] : i <= j => prompted'[k][i].at <= prompted'[k][j].at
             /\ \E d \in 0 .. Len(prompted'[k]) :
                  /\ prompts'[k] = SubSeq(prompted'[k], d + 1, Len(prompted'[k]))
                  /\ \A i \in 1 .. d : prompted'[k][i].at <= review_now - Window
             /\ \A end \in Nat :
                  /\ IsFiniteSet(Shown(k, end)') /\ Cardinality(Shown(k, end)') <= MaxPrompts
                  /\ \A p \in Previews : Cardinality(ShownOf(k, end, p)') <= MaxRepeated
  <2>1. CASE k = key /\ Review!Promptable(key, preview)
    <3>1. /\ prompts'[k] = Append(Review!Recent(k), prompt) /\ prompted'[k] = Append(prompted[k], prompt)
          /\ Review!Promptable(k, preview)
      BY <1>1, <2>1
    <3> QED
      BY <3>1, PromptAdded
  <2>2. CASE ~ (k = key /\ Review!Promptable(key, preview))
    <3>1. prompts'[k] = Review!Recent(k) /\ prompted'[k] = prompted[k]
      BY <1>1, <2>2
    <3>2. \A end, p : Shown(k, end)' = Shown(k, end) /\ ShownOf(k, end, p)' = ShownOf(k, end, p)
      BY <3>1 DEF Shown, ShownOf
    <3>3. \E d \in 0 .. Len(prompted[k]) :
             /\ Review!Recent(k) = SubSeq(prompted[k], d + 1, Len(prompted[k]))
             /\ \A i \in 1 .. d : prompted[k][i].at <= review_now - Window
      BY PromptsForgotten
    <3>4. \A end \in Nat :
             /\ IsFiniteSet(Shown(k, end)') /\ Cardinality(Shown(k, end)') <= MaxPrompts
             /\ \A p \in Previews : Cardinality(ShownOf(k, end, p)') <= MaxRepeated
      BY <3>2 DEF PromptsInv
    <3>5. /\ prompted[k] \in Seq(Prompt)
          /\ \A i \in DOMAIN prompted[k] :
                /\ prompted[k][i].at <= review_now
                /\ \A j \in DOMAIN prompted[k] : i <= j => prompted[k][i].at <= prompted[k][j].at
      BY DEF PromptsInv
    <3> QED
      BY <3>1, <3>3, <3>4, <3>5
  <2> QED
    BY <2>1, <2>2
<1>3. /\ MaxKeys \in Nat
      /\ IsFiniteSet({k \in Reviewed : prompts[k] # <<>>})
      /\ Cardinality({k \in Reviewed : prompts[k] # <<>>}) <= MaxKeys
      /\ Kept \in SUBSET {k \in Reviewed : prompts[k] # <<>>}
  BY ReviewAssumption, RecentShown DEF PromptsInv
<1>4. /\ IsFiniteSet(Kept) /\ Cardinality(Kept) <= MaxKeys
      /\ IsFiniteSet(Kept \cup {key})
      /\ Cardinality(Kept) < MaxKeys => Cardinality(Kept \cup {key}) <= MaxKeys
  <2> HIDE DEF Kept
  <2> QED
    BY <1>3, KeptWithin
<1> DEFINE Now == {k \in Reviewed : prompts'[k] # <<>>}
<1>5. \/ Now \in SUBSET Kept
      \/ Now \in SUBSET (Kept \cup {key}) /\ Cardinality(Kept) < MaxKeys
  <2>1. CASE Review!Promptable(key, preview) /\ Review!Recent(key) = <<>>
    <3>1. Cardinality(Kept) < MaxKeys
      BY <2>1 DEF Review!Promptable, Review!Cardinality, Cardinality
    <3>2. Now \in SUBSET (Kept \cup {key})
      BY <1>1
    <3> QED
      BY <3>1, <3>2
  <2>2. CASE ~ (Review!Promptable(key, preview) /\ Review!Recent(key) = <<>>)
    BY <1>1, <2>2
  <2> QED
    BY <2>1, <2>2
<1>6. IsFiniteSet(Now) /\ Cardinality(Now) <= MaxKeys
  <2> HIDE DEF Now, Kept
  <2> QED
    BY <1>3, <1>4, <1>5, KeptWithin
<1>7. prompted' \in [Reviewed -> Seq(Prompt)]
  <2>1. prompted' = [k \in Reviewed |-> prompted'[k]]
    BY DEF Review!Prepare
  <2> QED
    BY <1>2, <2>1
<1> QED
  BY <1>1, <1>2, <1>6, <1>7 DEF PromptsInv

\* Every step of the approver preserves the invariant of its prompts.
LEMMA PromptsStep == PromptsInv /\ [Review!Next]_review => PromptsInv'
<1> SUFFICES ASSUME PromptsInv, [Review!Next]_review PROVE PromptsInv'
  OBVIOUS
<1>1. ASSUME NEW key \in Reviewed, NEW preview \in Previews, Review!Prepare(key, preview)
      PROVE  PromptsInv'
  BY <1>1, PromptsPrepare
<1>2. ASSUME UNCHANGED <<prompts, prompted>>, review_now' \in {review_now, review_now + 1}
      PROVE  PromptsInv'
  <2>1. review_now \in Nat /\ review_now' \in Nat /\ review_now <= review_now' /\ Window \in Nat
    BY <1>2, ReviewAssumption DEF PromptsInv
  <2>2. \A k, end, p : Shown(k, end)' = Shown(k, end) /\ ShownOf(k, end, p)' = ShownOf(k, end, p)
    BY <1>2 DEF Shown, ShownOf
  <2>3. ASSUME NEW k \in Reviewed, NEW i \in DOMAIN prompted[k] PROVE prompted[k][i].at \in Nat
    <3>1. prompted[k] \in Seq(Prompt)
      BY DEF PromptsInv
    <3>2. prompted[k][i] \in Prompt
      BY <2>3, <3>1, Logged
    <3> QED
      BY <3>2 DEF Prompt
  <2>4. ASSUME NEW k \in Reviewed
        PROVE  \E d \in 0 .. Len(prompted[k]) :
                 /\ prompts[k] = SubSeq(prompted[k], d + 1, Len(prompted[k]))
                 /\ \A i \in 1 .. d : prompted[k][i].at <= review_now' - Window
    <3>1. PICK d \in 0 .. Len(prompted[k]) :
                 /\ prompts[k] = SubSeq(prompted[k], d + 1, Len(prompted[k]))
                 /\ \A i \in 1 .. d : prompted[k][i].at <= review_now - Window
      BY DEF PromptsInv
    <3>2. DOMAIN prompted[k] = 1 .. Len(prompted[k]) /\ Len(prompted[k]) \in Nat
      BY DEF PromptsInv
    <3>3. ASSUME NEW i \in 1 .. d PROVE prompted[k][i].at <= review_now' - Window
      <4>1. i \in DOMAIN prompted[k]
        BY <3>1, <3>2
      <4> QED
        BY <2>1, <2>3, <3>1, <4>1
    <3> QED
      BY <3>1, <3>3
  <2>5. ASSUME NEW k \in Reviewed, NEW i \in DOMAIN prompted[k] PROVE prompted[k][i].at <= review_now'
    <3>1. prompted[k][i].at <= review_now
      BY DEF PromptsInv
    <3> QED
      BY <2>1, <2>3, <3>1
  <2> QED
    BY <1>2, <2>1, <2>2, <2>4, <2>5 DEF PromptsInv
<1>3. (\E t \in Callers, a \in Review!Approvals : Review!AuthorizeBegin(t, a))
      => UNCHANGED <<review_now, prompts, prompted>>
  BY DEF Review!AuthorizeBegin
<1>4. (\E t \in Callers : Review!AuthorizeClaim(t)) => UNCHANGED <<review_now, prompts, prompted>>
  BY DEF Review!AuthorizeClaim
<1>5. Review!Tick => review_now' = review_now + 1 /\ UNCHANGED <<prompts, prompted>>
  BY DEF Review!Tick
<1>6. UNCHANGED review => UNCHANGED <<review_now, prompts, prompted>>
  BY DEF review
<1> QED
  BY <1>1, <1>2, <1>3, <1>4, <1>5, <1>6 DEF Review!Next

\* No window holds more prompts than the policy allows.
LEMMA PromptsSafe == PromptsInv => Review!PromptsLimited
<1> SUFFICES ASSUME PromptsInv, NEW k \in Reviewed, NEW end \in 0 .. ReviewEnd
             PROVE  /\ Review!Cardinality(Shown(k, end)) <= MaxPrompts
                    /\ \A p \in Previews : Review!Cardinality(ShownOf(k, end, p)) <= MaxRepeated
  BY DEF Review!PromptsLimited, Shown, ShownOf
<1>1. end \in Nat
  OBVIOUS
<1> QED
  BY <1>1 DEF PromptsInv, Review!Cardinality, Cardinality

-----------------------------------------------------------------------------
(* Delegated identity *)

\* A chain has a capability for every place, each with its lifetime (DelegatedCapability).
ASSUME DelegationAssumption ==
    /\ Depth \in Nat /\ Lifetimes \in [Delegation!Places -> Nat] /\ DelegationEnd \in Nat
    /\ CapabilityChains \subseteq [Delegation!Places -> Delegation!DelegatedCapability]
    /\ AccessRequests \subseteq Delegation!DelegatedAccessRequest

\* What holds of a request that passed the checks: it stays within its leaf, every link
\* above narrows, and no revocation of its chain had been asked for.
Admissible(r) ==
    /\ r.leaf \in Delegation!Places /\ r.grants \subseteq Grants
    /\ r.scopes \subseteq capability[r.leaf].scopes
    /\ \A i \in 2 .. r.leaf : Delegation!Narrowing(capability[i - 1], capability[i])
    /\ ~ r.cut

DelegationInv ==
    /\ capability \in [Delegation!Places -> Delegation!DelegatedCapability]
    /\ delegation_now \in Int
    /\ revocations \in [Delegation!Places -> Int] /\ requested = revocations
    /\ elevations \in [Grants -> Nat]
    /\ used = {g \in Grants : elevations[g] > 0}
    /\ \A g \in Grants : elevations[g] <= 1
    /\ DOMAIN presented = Callers
    /\ \A t \in Callers : presented[t] # Delegation!Nothing => Admissible(presented[t])
    /\ delegated # Delegation!Nothing => Admissible(delegated)

\* Initially nothing was delegated.
LEMMA DelegationInit == Delegation!Init => DelegationInv
BY DelegationAssumption
DEF Delegation!Init, DelegationInv, Delegation!Places, Delegation!Never, Delegation!Nothing

\* Every step of the authorizer of delegations preserves its invariant.
LEMMA DelegationStep == DelegationInv /\ [Delegation!Next]_delegation => DelegationInv'
<1> SUFFICES ASSUME DelegationInv, [Delegation!Next]_delegation PROVE DelegationInv'
  OBVIOUS
<1>1. ASSUME NEW t \in Callers, NEW r \in AccessRequests, Delegation!AuthorizeBegin(t, r)
      PROVE  DelegationInv'
  <2>1. Admissible([leaf |-> r.leaf, scopes |-> r.scopes, grants |-> r.grants, at |-> delegation_now,
                    cut |-> \E i \in 1 .. r.leaf : requested[i] <= delegation_now])
    BY <1>1, DelegationAssumption
    DEF DelegationInv, Admissible, Delegation!AuthorizeBegin, Delegation!ChainValid,
        Delegation!Revoked, Delegation!DelegatedAccessRequest, Delegation!Places
  <2> QED
    BY <2>1, <1>1
    DEF DelegationInv, Admissible, Delegation!AuthorizeBegin, Delegation!history, Delegation!Narrowing
<1>2. ASSUME NEW t \in Callers, Delegation!AuthorizeCommit(t)
      PROVE  DelegationInv'
  <2> DEFINE r == presented[t]
  <2>1. Admissible(r) /\ r.grants \subseteq Grants
    BY <1>2 DEF DelegationInv, Admissible, Delegation!AuthorizeCommit
  <2>2. UNCHANGED <<delegation_now, capability, revocations, requested>>
    BY <1>2 DEF Delegation!AuthorizeCommit
  <2>3. \A q : Admissible(q)' = Admissible(q)
    BY <2>2 DEF Admissible, Delegation!Narrowing
  <2>4. presented' = [presented EXCEPT ![t] = Delegation!Nothing]
    BY <1>2 DEF Delegation!AuthorizeCommit
  <2>5. \/ /\ r.grants \cap used = {}
           /\ used' = used \cup r.grants
           /\ elevations' = [g \in Grants |-> IF g \in r.grants THEN elevations[g] + 1 ELSE elevations[g]]
           /\ delegated' = r
        \/ UNCHANGED <<used, delegated, elevations>>
    BY <1>2 DEF Delegation!AuthorizeCommit, Delegation!Acceptable
  <2>6. /\ elevations' \in [Grants -> Nat]
        /\ used' = {g \in Grants : elevations'[g] > 0}
        /\ \A g \in Grants : elevations'[g] <= 1
    <3> HIDE DEF r
    <3> QED
      BY <2>1, <2>5 DEF DelegationInv
  <2>7. delegated' # Delegation!Nothing => Admissible(delegated')
    BY <2>1, <2>5 DEF DelegationInv
  <2>8. /\ DOMAIN presented' = Callers
        /\ \A u \in Callers : presented'[u] # Delegation!Nothing => Admissible(presented'[u])
    BY <2>4 DEF DelegationInv
  <2> QED
    BY <2>2, <2>3, <2>6, <2>7, <2>8 DEF DelegationInv
<1>3. ASSUME NEW i \in Delegation!Places, NEW at \in delegation_now .. delegation_now + 1,
             Delegation!Revoke(i, at)
      PROVE  DelegationInv'
  BY <1>3 DEF DelegationInv, Admissible, Delegation!Revoke, Delegation!Recorded, Delegation!Earlier,
              Delegation!Narrowing
<1>4. CASE Delegation!Tick
  BY <1>4 DEF DelegationInv, Admissible, Delegation!Tick, Delegation!history, Delegation!Narrowing
<1>5. CASE UNCHANGED delegation
  BY <1>5 DEF DelegationInv, Admissible, delegation, Delegation!Narrowing
<1> QED
  BY <1>1, <1>2, <1>3, <1>4, <1>5 DEF Delegation!Next

\* What the invariant says of delegations: scopes only narrow along a chain of any length.
LEMMA DelegationSafe ==
    ASSUME DelegationInv
    PROVE  /\ Delegation!TypeOK /\ Delegation!UsedOnce
           /\ Delegation!NoAmplification /\ Delegation!RevokedFromThenOn
<1>1. Delegation!TypeOK /\ Delegation!UsedOnce
  BY DEF DelegationInv, Delegation!TypeOK, Delegation!UsedOnce
<1>2. Delegation!RevokedFromThenOn
  BY DEF DelegationInv, Admissible, Delegation!RevokedFromThenOn
<1>3. Delegation!NoAmplification
  <2> DEFINE n == delegated.leaf
             Allowed == {i \in 1 .. n - 1 : delegated.scopes \subseteq capability[i].delegatable_scopes}
  <2>1. CASE delegated = Delegation!Nothing
    BY <2>1 DEF Delegation!NoAmplification, Delegation!Nothing
  <2>2. CASE delegated # Delegation!Nothing
    <3>1. Admissible(delegated) /\ Depth \in Nat
      BY <2>2, DelegationAssumption DEF DelegationInv
    <3>2. n \in Delegation!Places /\ n \in Nat /\ n - 1 \in Nat
      BY <3>1 DEF Admissible, Delegation!Places
    <3>3. SUFFICES ASSUME (1 .. n - 1) \ Allowed # {} PROVE FALSE
      BY DEF Delegation!NoAmplification
    <3>4. PICK i \in (1 .. n - 1) \ Allowed : \A j \in i + 1 .. n - 1 : j \in Allowed
      <4> HIDE DEF Allowed, n
      <4> QED
        BY <3>2, <3>3, LastOutside
    <3>5. i \in Int /\ i + 1 \in 2 .. n /\ i + 1 \in Delegation!Places /\ (i + 1) - 1 = i
      <4>1. i \in 1 .. n - 1
        OBVIOUS
      <4> HIDE DEF n, Allowed
      <4> QED
        BY <3>1, <3>2, <4>1 DEF Delegation!Places
    <3>6. capability[i + 1].scopes \subseteq capability[i].delegatable_scopes
      BY <3>1, <3>5 DEF Admissible, Delegation!Narrowing
    <3>7. delegated.scopes \subseteq capability[i + 1].scopes
      <4>1. CASE i + 1 = n
        BY <4>1, <3>1 DEF Admissible
      <4>2. CASE i + 1 # n
        <5>1. i + 1 \in i + 1 .. n - 1
          BY <4>2, <3>2, <3>5
        <5>2. delegated.scopes \subseteq capability[i + 1].delegatable_scopes
          BY <3>4, <5>1
        <5>3. capability[i + 1].delegatable_scopes \subseteq capability[i + 1].scopes
          BY <3>5 DEF DelegationInv, Delegation!DelegatedCapability
        <5> QED
          BY <5>2, <5>3
      <4> QED
        BY <4>1, <4>2
    <3> QED
      BY <3>4, <3>6, <3>7
  <2> QED
    BY <2>1, <2>2
<1> QED
  BY <1>1, <1>2, <1>3

-----------------------------------------------------------------------------
(* Actions in a browser *)

\* Claims are kept by session and request (authorize_action): an id stands for both, and
\* content for the digest of the request, the time it was made included.
ASSUME BrowserAssumption ==
    /\ \A r \in ActionRequests : r.requested_at \in Nat /\ Sessions[r.session].expires_at \in Nat
    /\ \A a \in ActionApprovals : a.expires_at \in Nat
    /\ MaxRequestAge \in Nat /\ MaxAuthorization \in Nat /\ ActionLag \in Nat
    /\ \A q, r \in ActionRequests :
        q.id = r.id => /\ q.session = r.session
                       /\ q.content = r.content => q.requested_at = r.requested_at

\* The calls that passed the tests: they were young, and an approval is for its request.
Proposed ==
    {c \in [request : ActionRequests, approval : ActionApprovals \cup {Browser!NoApproval}, at : Nat] :
        /\ c.request.requested_at <= c.at /\ c.at <= c.request.requested_at + MaxRequestAge
        /\ c.approval # Browser!NoApproval => 
            c.approval.id = c.request.id /\ c.approval.content = c.request.content}

ExpiryOf(c) == Browser!Expiry(c.request, c.at)

\* A request is remembered as claimed for as long as its authorization lives.
BrowserInv ==
    /\ browser_now \in Nat
    /\ DOMAIN actions = Callers
    /\ \A t \in Callers : actions[t] # Browser!NoAction =>
        /\ actions[t] \in Proposed
        /\ actions[t].at <= browser_now /\ browser_now <= actions[t].at + ActionLag
    /\ claims \in [Browser!Claims -> Nat]
    /\ browsed \in Seq(Proposed)
    /\ \A i \in DOMAIN browsed :
        browser_now < ExpiryOf(browsed[i]) => claims[browsed[i].request.id] = ExpiryOf(browsed[i])
    /\ \A i, j \in DOMAIN browsed :
        i # j /\ browsed[i].request.id = browsed[j].request.id =>
            /\ browser_now >= ExpiryOf(browsed[i]) \/ browser_now >= ExpiryOf(browsed[j])
            /\ MaxAuthorization > MaxRequestAge + ActionLag =>
                browsed[i].request.requested_at # browsed[j].request.requested_at

\* The end of an authorization is that of its session, or earlier.
LEMMA BrowserExpiry ==
    ASSUME NEW c \in Proposed
    PROVE  /\ ExpiryOf(c) \in Nat
           /\ ExpiryOf(c) <= Sessions[c.request.session].expires_at
           /\ Sessions[c.request.session].expires_at \in Nat
           /\ \/ ExpiryOf(c) = Sessions[c.request.session].expires_at
              \/ ExpiryOf(c) = c.at + MaxAuthorization
<1>1. /\ c.at \in Nat /\ MaxAuthorization \in Nat
      /\ Sessions[c.request.session].expires_at \in Nat
  BY BrowserAssumption DEF Proposed
<1> QED
  BY <1>1 DEF ExpiryOf, Browser!Expiry

\* Two calls for one request: where the first still was live, so it is when the second, as slow
\* as a call may be, comes to its claim, or the second comes too late.
LEMMA BrowserOverlap ==
    ASSUME NEW b \in Proposed, NEW c \in Proposed, b.request.id = c.request.id,
           b.request.requested_at = c.request.requested_at,
           MaxAuthorization > MaxRequestAge + ActionLag, NEW time \in Nat, time <= c.at + ActionLag, time < ExpiryOf(c)
    PROVE  time < ExpiryOf(b)
<1>1. /\ b.request.session = c.request.session /\ b.request.requested_at = c.request.requested_at
      /\ b.request.requested_at \in Nat
      /\ MaxRequestAge + ActionLag < MaxAuthorization
      /\ MaxRequestAge \in Nat /\ MaxAuthorization \in Nat /\ ActionLag \in Nat
  BY BrowserAssumption DEF Proposed
<1>2. /\ b.at \in Nat /\ c.at \in Nat
      /\ b.request.requested_at <= b.at /\ c.at <= c.request.requested_at + MaxRequestAge
  BY DEF Proposed
<1>3. time < b.at + MaxAuthorization
  BY <1>1, <1>2
<1>4. time < Sessions[b.request.session].expires_at
  BY <1>1, BrowserExpiry
<1> QED
  BY <1>3, <1>4, BrowserExpiry

\* Initially nothing is claimed.
LEMMA BrowserInit == Browser!Init => BrowserInv
BY DEF Browser!Init, BrowserInv

\* claim_many refuses a request whose authorization lives.
LEMMA BrowserClaim ==
    ASSUME BrowserInv, NEW t \in Callers, Browser!AuthorizeClaim(t)
    PROVE  BrowserInv'
<1> DEFINE c == actions[t]
           keys == {c.request.id} \cup ({c.approval.name} \ {Browser!NoApproval.name})
           kept == Browser!Live(c.at)
           n == Len(browsed) + 1
           taken == [k \in Browser!Claims |-> IF k = c.request.id THEN ExpiryOf(c)
                                             ELSE IF k \in keys THEN c.approval.expires_at
                                             ELSE kept[k]]
<1>1. /\ browser_now' = browser_now /\ browser_now \in Nat
      /\ actions' = [actions EXCEPT ![t] = Browser!NoAction]
      /\ c \in Proposed /\ c.at <= browser_now /\ browser_now <= c.at + ActionLag
  BY DEF Browser!AuthorizeClaim, BrowserInv
<1>2. \/ claims' = kept /\ browsed' = browsed
      \/ /\ \A k \in keys : ~ kept[k] > 0
         /\ claims' = taken
         /\ browsed' = browsed \/ (browsed' = Append(browsed, c) /\ browser_now < ExpiryOf(c))
  BY <1>1, BrowserExpiry DEF Browser!AuthorizeClaim, ExpiryOf
<1>3. /\ kept \in [Browser!Claims -> Nat]
      /\ \A k \in Browser!Claims : claims[k] > c.at => kept[k] = claims[k]
  BY DEF Browser!Live, BrowserInv
<1>4. /\ c.request.id \in Browser!Claims
      /\ ExpiryOf(c) \in Nat /\ c.at \in Nat
  BY <1>1, BrowserExpiry DEF Browser!Claims, Browser!Ids, Proposed
<1>5. taken \in [Browser!Claims -> Nat]
  <2>1. \A k \in keys : k # c.request.id => c.approval.expires_at \in Nat
    BY <1>1, BrowserAssumption DEF Proposed
  <2> HIDE DEF keys, kept, c
  <2> QED
    BY <1>3, <1>4, <2>1
<1>6. ASSUME NEW i \in DOMAIN browsed, browser_now < ExpiryOf(browsed[i])
      PROVE  /\ kept[browsed[i].request.id] = ExpiryOf(browsed[i])
             /\ ExpiryOf(browsed[i]) > 0 /\ browsed[i].request.id \in Browser!Claims
  <2> DEFINE b == browsed[i]
  <2>1. b \in Proposed
    BY Logged DEF BrowserInv
  <2>2. b.request.id \in Browser!Claims /\ ExpiryOf(b) \in Nat
    BY <2>1, BrowserExpiry DEF Proposed, Browser!Claims, Browser!Ids
  <2>3. claims[b.request.id] = ExpiryOf(b)
    BY <1>6 DEF BrowserInv
  <2> HIDE DEF b, kept, c
  <2> QED
    BY <1>1, <1>3, <1>4, <1>6, <2>2, <2>3 DEF b
<1>7. CASE claims' = kept /\ browsed' = browsed
  <2> HIDE DEF kept
  <2> QED
    BY <1>1, <1>3, <1>6, <1>7 DEF BrowserInv, ExpiryOf, Browser!Expiry, Browser!NoAction
<1>8. CASE /\ \A k \in keys : ~ kept[k] > 0
           /\ claims' = taken
           /\ browsed' = browsed \/ (browsed' = Append(browsed, c) /\ browser_now < ExpiryOf(c))
  <2>1. ASSUME NEW i \in DOMAIN browsed, browser_now < ExpiryOf(browsed[i])
        PROVE  /\ browsed[i].request.id \notin keys
               /\ taken[browsed[i].request.id] = ExpiryOf(browsed[i])
    <3>1. kept[browsed[i].request.id] > 0
      BY <1>6, <2>1
    <3>2. browsed[i].request.id \notin keys
      BY <1>8, <3>1
    <3>3. browsed[i].request.id # c.request.id
      BY <3>2
    <3> HIDE DEF keys, kept, c
    <3> QED
      BY <1>6, <2>1, <3>2, <3>3
  <2>2. CASE browsed' = browsed
    <3> HIDE DEF taken
    <3> QED
      BY <1>1, <1>5, <1>8, <2>1, <2>2 DEF BrowserInv, ExpiryOf, Browser!Expiry, Browser!NoAction
  <2>3. CASE browsed' = Append(browsed, c) /\ browser_now < ExpiryOf(c)
    <3>1. /\ browsed' \in Seq(Proposed)
          /\ DOMAIN browsed' = DOMAIN browsed \cup {n}
          /\ \A i \in DOMAIN browsed : i \in Nat /\ i < n /\ browsed'[i] = browsed[i]
          /\ browsed'[n] = c /\ n \in Nat
      <4>1. browsed \in Seq(Proposed)
        BY DEF BrowserInv
      <4> HIDE DEF c
      <4> QED
        BY <1>1, <2>3, <4>1, Appended
    <3>2. ASSUME NEW i \in DOMAIN browsed, browsed[i].request.id = c.request.id
          PROVE  /\ browser_now >= ExpiryOf(browsed[i])
                 /\ MaxAuthorization > MaxRequestAge + ActionLag =>
                        browsed[i].request.requested_at # c.request.requested_at
      <4>1. browsed[i] \in Proposed /\ ExpiryOf(browsed[i]) \in Nat
        BY Logged, BrowserExpiry DEF BrowserInv
      <4>2. ~ (browser_now < ExpiryOf(browsed[i]))
        BY <2>1, <3>2
      <4>3. ASSUME MaxAuthorization > MaxRequestAge + ActionLag,
                   browsed[i].request.requested_at = c.request.requested_at
            PROVE  FALSE
        <5> HIDE DEF c
        <5> QED
          BY <1>1, <2>3, <3>2, <4>1, <4>2, <4>3, BrowserOverlap
      <4> QED
        BY <1>1, <4>1, <4>2, <4>3
    <3>3. ASSUME NEW i \in DOMAIN browsed', browser_now < ExpiryOf(browsed'[i])
          PROVE  claims'[browsed'[i].request.id] = ExpiryOf(browsed'[i])
      <4>1. CASE i \in DOMAIN browsed
        <5> HIDE DEF taken, c
        <5> QED
          BY <1>8, <2>1, <3>1, <3>3, <4>1
      <4>2. CASE i = n
        BY <1>4, <1>8, <3>1, <4>2
      <4> QED
        BY <3>1, <4>1, <4>2
    <3>4. ASSUME NEW i \in DOMAIN browsed', NEW j \in DOMAIN browsed', i # j,
                 browsed'[i].request.id = browsed'[j].request.id
          PROVE  /\ \/ browser_now >= ExpiryOf(browsed'[i])
                    \/ browser_now >= ExpiryOf(browsed'[j])
                 /\ MaxAuthorization > MaxRequestAge + ActionLag =>
                        browsed'[i].request.requested_at # browsed'[j].request.requested_at
      <4> HIDE DEF c
      <4>1. CASE i \in DOMAIN browsed /\ j \in DOMAIN browsed
        BY <3>1, <3>4, <4>1 DEF BrowserInv
      <4>2. CASE i = n /\ j \in DOMAIN browsed
        BY <3>1, <3>2, <3>4, <4>2
      <4>3. CASE i \in DOMAIN browsed /\ j = n
        BY <3>1, <3>2, <3>4, <4>3
      <4> QED
        BY <3>1, <3>4, <4>1, <4>2, <4>3
    <3> HIDE DEF taken
    <3> QED
      BY <1>1, <1>5, <1>8, <3>1, <3>3, <3>4 DEF BrowserInv, ExpiryOf, Browser!Expiry, Browser!NoAction
  <2> QED
    BY <1>8, <2>2, <2>3
<1> QED
  BY <1>2, <1>7, <1>8

\* Every step of the browser guard preserves its invariant.
LEMMA BrowserStep == BrowserInv /\ [Browser!Next]_browser => BrowserInv'
<1> SUFFICES ASSUME BrowserInv, [Browser!Next]_browser PROVE BrowserInv'
  OBVIOUS
<1> USE DEF ExpiryOf, Browser!Expiry
<1>1. ASSUME NEW t \in Callers, NEW r \in ActionRequests,
             NEW a \in ActionApprovals \cup {Browser!NoApproval}, Browser!AuthorizeBegin(t, r, a)
      PROVE  BrowserInv'
  <2> DEFINE c == [request |-> r, approval |-> a, at |-> browser_now]
  <2>1. /\ actions' = [actions EXCEPT ![t] = c]
        /\ UNCHANGED <<browser_now, claims, browsed>>
        /\ r.requested_at <= browser_now /\ browser_now - r.requested_at <= MaxRequestAge
        /\ a # Browser!NoApproval => a.id = r.id /\ a.content = r.content
    BY <1>1 DEF Browser!AuthorizeBegin, Browser!RequestValid, Browser!ApprovalValid
  <2>2. browser_now \in Nat /\ r.requested_at \in Nat /\ MaxRequestAge \in Nat /\ ActionLag \in Nat
    BY BrowserAssumption DEF BrowserInv
  <2>3. c \in Proposed /\ c.at <= browser_now /\ browser_now <= c.at + ActionLag
    BY <2>1, <2>2 DEF Proposed
  <2> HIDE DEF c
  <2> QED
    BY <2>1, <2>3 DEF BrowserInv
<1>2. ASSUME NEW t \in Callers, Browser!AuthorizeClaim(t) PROVE BrowserInv'
  BY <1>2, BrowserClaim
<1>3. CASE Browser!Tick
  <2>1. /\ browser_now' = browser_now + 1 /\ browser_now \in Nat /\ ActionLag \in Nat
        /\ UNCHANGED <<claims, actions, browsed>>
        /\ \A t \in Callers : actions[t] # Browser!NoAction => browser_now - actions[t].at < ActionLag
    BY <1>3, BrowserAssumption DEF Browser!Tick, BrowserInv
  <2>2. ASSUME NEW t \in Callers, actions[t] # Browser!NoAction
        PROVE  actions[t].at <= browser_now' /\ browser_now' <= actions[t].at + ActionLag
    <3>1. actions[t].at \in Nat /\ actions[t].at <= browser_now
      BY <2>2 DEF BrowserInv, Proposed
    <3> QED
      BY <2>1, <2>2, <3>1
  <2>3. ASSUME NEW i \in DOMAIN browsed, browser_now' < ExpiryOf(browsed[i])
        PROVE  browser_now < ExpiryOf(browsed[i])
    <3>1. browsed[i] \in Proposed
      BY <2>3, Logged DEF BrowserInv
    <3>2. ExpiryOf(browsed[i]) \in Nat
      BY <3>1, BrowserExpiry
    <3> HIDE DEF ExpiryOf
    <3> QED
      BY <2>1, <2>3, <3>2
  <2>4. ASSUME NEW i \in DOMAIN browsed, browser_now >= ExpiryOf(browsed[i])
        PROVE  browser_now' >= ExpiryOf(browsed[i])
    <3>1. browsed[i] \in Proposed
      BY <2>4, Logged DEF BrowserInv
    <3>2. ExpiryOf(browsed[i]) \in Nat
      BY <3>1, BrowserExpiry
    <3> HIDE DEF ExpiryOf
    <3> QED
      BY <2>1, <2>4, <3>2
  <2>5. \A i, j \in DOMAIN browsed :
          i # j /\ browsed[i].request.id = browsed[j].request.id =>
            /\ browser_now' >= ExpiryOf(browsed[i]) \/ browser_now' >= ExpiryOf(browsed[j])
            /\ MaxAuthorization > MaxRequestAge + ActionLag =>
                browsed[i].request.requested_at # browsed[j].request.requested_at
    <3> HIDE DEF ExpiryOf
    <3> QED
      BY <2>4 DEF BrowserInv
  <2> QED
    BY <2>1, <2>2, <2>3, <2>5 DEF BrowserInv
<1>4. CASE UNCHANGED browser
  BY <1>4 DEF BrowserInv, browser
<1> QED
  BY <1>1, <1>2, <1>3, <1>4 DEF Browser!Next

\* An approval is for one request, as it was made.
LEMMA BrowserSafe == BrowserInv => Browser!UsedOnce
<1> SUFFICES ASSUME BrowserInv, NEW i \in DOMAIN browsed, NEW j \in DOMAIN browsed, i # j
             PROVE  LET a == browsed[i]  b == browsed[j] IN
                    /\ a.request.id = b.request.id =>
                        browser_now >= ExpiryOf(a) \/ browser_now >= ExpiryOf(b)
                    /\ MaxAuthorization > MaxRequestAge + ActionLag =>
                        /\ <<a.request.id, a.request.requested_at>>
                            # <<b.request.id, b.request.requested_at>>
                        /\ a.approval # b.approval \/ a.approval = Browser!NoApproval
  BY DEF Browser!UsedOnce, ExpiryOf
<1>1. browsed[i] \in Proposed /\ browsed[j] \in Proposed
  BY Logged DEF BrowserInv
<1>2. browsed[i].approval = browsed[j].approval /\ browsed[i].approval # Browser!NoApproval =>
        /\ browsed[i].request.id = browsed[j].request.id
        /\ browsed[i].request.requested_at = browsed[j].request.requested_at
  BY <1>1, BrowserAssumption DEF Proposed
<1>3. browsed[i].request.id = browsed[j].request.id =>
        /\ browser_now >= ExpiryOf(browsed[i]) \/ browser_now >= ExpiryOf(browsed[j])
        /\ MaxAuthorization > MaxRequestAge + ActionLag =>
                browsed[i].request.requested_at # browsed[j].request.requested_at
  BY DEF BrowserInv
<1> QED
  BY <1>2, <1>3

-----------------------------------------------------------------------------
(* Messages between agents *)

\* Messages are of their type, the skew and the capacities are natural numbers.
ASSUME MessageAssumption ==
    /\ AgentEnvelopes \subseteq Messages!EnvelopeType
    /\ MessageSkew \in Nat /\ MaxReplay \in Nat /\ MaxStreams \in Nat

\* A stream is remembered, and is ahead of a message accepted, for as long as the message may be
\* accepted.
MessagesInv ==
    /\ agent_now \in Nat
    /\ DOMAIN verifying = Callers
    /\ \A t \in Callers : verifying[t] # Messages!Idle =>
        verifying[t].message \in AgentEnvelopes /\ verifying[t].at \in 0 .. agent_now
    /\ IsFiniteSet(replays) /\ Cardinality(replays) <= MaxReplay
    /\ streams \in [Messages!Streams -> [next : Nat, until : Nat]]
    /\ IsFiniteSet({s \in Messages!Streams : streams[s] # Messages!NoStream})
    /\ Cardinality({s \in Messages!Streams : streams[s] # Messages!NoStream}) <= MaxStreams
    /\ accepted \in Seq([message : AgentEnvelopes, at : Nat])
    /\ \A i \in DOMAIN accepted :
        LET m == accepted[i].message IN
        agent_now < Messages!Until(m) =>
            streams[m.stream].until >= Messages!Until(m) /\ streams[m.stream].next > m.sequence
    /\ Messages!OrderKept

\* The fields of a message.
LEMMA MessagesEnvelope ==
    ASSUME NEW m \in AgentEnvelopes
    PROVE  m.stream \in Messages!Streams /\ m.sequence \in Nat /\ Messages!Until(m) \in Nat
BY MessageAssumption DEF Messages!EnvelopeType, Messages!Until

\* Initially no stream was opened.
LEMMA MessagesInit == Messages!Init => MessagesInv
<1> SUFFICES ASSUME Messages!Init PROVE MessagesInv
  OBVIOUS
<1>1. {s \in Messages!Streams : streams[s] # Messages!NoStream} = {}
  BY DEF Messages!Init
<1>2. /\ IsFiniteSet({}) /\ Cardinality({}) = 0 /\ MaxReplay \in Nat /\ MaxStreams \in Nat
  BY MessageAssumption, FS_EmptySet, Zenon
<1>3. /\ agent_now = 0 /\ replays = {} /\ accepted = <<>>
      /\ streams = [s \in Messages!Streams |-> Messages!NoStream]
      /\ verifying = [t \in Callers |-> Messages!Idle]
  BY DEF Messages!Init
<1>4. /\ IsFiniteSet(replays) /\ Cardinality(replays) = 0
      /\ IsFiniteSet({s \in Messages!Streams : streams[s] # Messages!NoStream})
      /\ Cardinality({s \in Messages!Streams : streams[s] # Messages!NoStream}) = 0
  BY <1>1, <1>2, <1>3, Zenon
<1>5. Messages!OrderKept
  BY <1>3 DEF Messages!OrderKept
<1>6. streams \in [Messages!Streams -> [next : Nat, until : Nat]]
  BY <1>3 DEF Messages!NoStream
<1> QED
  BY <1>2, <1>3, <1>4, <1>5, <1>6 DEF MessagesInv

\* What was accepted was received.
LEMMA MessagesLogged == MessagesInv => \A i \in DOMAIN accepted : accepted[i].message \in AgentEnvelopes
<1> SUFFICES ASSUME MessagesInv, NEW i \in DOMAIN accepted PROVE accepted[i].message \in AgentEnvelopes
  OBVIOUS
<1>1. accepted[i] \in [message : AgentEnvelopes, at : Nat]
  BY Logged DEF MessagesInv
<1> QED
  BY <1>1

\* A message that may be accepted lives as long as its entry.
LEMMA MessagesUntil ==
    ASSUME NEW stream \in [next : Nat, until : Nat], NEW m \in AgentEnvelopes
    PROVE  /\ Messages!StreamUntil(stream, m) \in Nat
           /\ Messages!StreamUntil(stream, m) >= Messages!Until(m)
           /\ Messages!StreamUntil(stream, m) >= stream.until
<1>1. Messages!Until(m) \in Nat /\ stream.until \in Nat
  BY MessagesEnvelope
<1>2. \A a, b \in Nat : Messages!Max({a, b}) = IF a < b THEN b ELSE a
  BY DEF Messages!Max
<1> QED
  BY <1>1, <1>2 DEF Messages!StreamUntil

\* A message is claimed when it is the next of its stream, which is remembered after that for
\* as long as the message lives.
LEMMA MessagesClaim ==
    ASSUME MessagesInv, NEW t \in Callers, Messages!VerifyClaim(t)
    PROVE  MessagesInv'
<1> DEFINE m == verifying[t].message
           at == verifying[t].at
           kept == Messages!LiveReplays(at)
           open == Messages!LiveStreams(at)
           Open == {s \in Messages!Streams : open[s] # Messages!NoStream}
           entry == [id |-> m.id, until |-> Messages!Until(m)]
           moved == [next |-> m.sequence + 1, until |-> Messages!StreamUntil(open[m.stream], m)]
           record == [message |-> m, at |-> agent_now]
           n == Len(accepted) + 1
<1>1. /\ agent_now' = agent_now /\ agent_now \in Nat /\ at \in 0 .. agent_now
      /\ verifying' = [verifying EXCEPT ![t] = Messages!Idle]
      /\ m \in AgentEnvelopes
  BY DEF Messages!VerifyClaim, MessagesInv
<1>2. \/ /\ m.sequence = open[m.stream].next
         /\ Cardinality(kept) < MaxReplay
         /\ open[m.stream] = Messages!NoStream => Cardinality(Open) < MaxStreams
         /\ replays' = kept \cup {entry}
         /\ streams' = [open EXCEPT ![m.stream] = moved]
         /\ accepted' = Append(accepted, record)
      \/ replays' = kept /\ streams' = open /\ accepted' = accepted
  BY DEF Messages!VerifyClaim, Messages!Cardinality, Cardinality
<1>3. kept \in SUBSET replays
  BY DEF Messages!LiveReplays
<1>4. /\ open \in [Messages!Streams -> [next : Nat, until : Nat]]
      /\ \A s \in Messages!Streams : streams[s].until > at => open[s] = streams[s]
      /\ Open \in SUBSET {s \in Messages!Streams : streams[s] # Messages!NoStream}
  BY DEF Messages!LiveStreams, Messages!NoStream, MessagesInv
<1>5. m.stream \in Messages!Streams /\ m.sequence \in Nat /\ Messages!Until(m) \in Nat
  BY <1>1, MessagesEnvelope
<1>6. /\ moved \in [next : Nat, until : Nat] /\ moved # Messages!NoStream
      /\ moved.next = m.sequence + 1
      /\ moved.until >= Messages!Until(m) /\ moved.until >= open[m.stream].until
  <2>1. open[m.stream] \in [next : Nat, until : Nat]
    BY <1>4, <1>5
  <2>2. /\ Messages!StreamUntil(open[m.stream], m) \in Nat
        /\ Messages!StreamUntil(open[m.stream], m) >= Messages!Until(m)
        /\ Messages!StreamUntil(open[m.stream], m) >= open[m.stream].until
    BY <1>1, <2>1, MessagesUntil
  <2> QED
    BY <1>5, <2>2 DEF Messages!NoStream
<1>7. IsFiniteSet(replays') /\ Cardinality(replays') <= MaxReplay
  <2>1. MaxReplay \in Nat /\ IsFiniteSet(replays) /\ Cardinality(replays) <= MaxReplay
    BY MessageAssumption DEF MessagesInv
  <2> HIDE DEF kept, m, open, Open, record, entry, moved
  <2> QED
    BY <1>2, <1>3, <2>1, KeptWithin
<1>8. streams' \in [Messages!Streams -> [next : Nat, until : Nat]]
  <2> HIDE DEF kept, m, open, Open, record, entry, moved
  <2> QED
    BY <1>1, <1>2, <1>4, <1>6
<1>9. /\ IsFiniteSet({s \in Messages!Streams : streams'[s] # Messages!NoStream})
      /\ Cardinality({s \in Messages!Streams : streams'[s] # Messages!NoStream}) <= MaxStreams
  <2>1. /\ MaxStreams \in Nat
        /\ IsFiniteSet({s \in Messages!Streams : streams[s] # Messages!NoStream})
        /\ Cardinality({s \in Messages!Streams : streams[s] # Messages!NoStream}) <= MaxStreams
    BY MessageAssumption DEF MessagesInv
  <2>2. /\ IsFiniteSet(Open) /\ Cardinality(Open) <= MaxStreams
        /\ IsFiniteSet(Open \cup {m.stream})
        /\ Cardinality(Open) < MaxStreams => Cardinality(Open \cup {m.stream}) <= MaxStreams
    <3> HIDE DEF Open
    <3> QED
      BY <1>4, <2>1, KeptWithin
  <2>3. CASE streams' = open
    BY <2>2, <2>3
  <2>4. CASE /\ streams' = [open EXCEPT ![m.stream] = moved]
             /\ open[m.stream] = Messages!NoStream => Cardinality(Open) < MaxStreams
    <3>1. {s \in Messages!Streams : streams'[s] # Messages!NoStream} = Open \cup {m.stream}
      <4> HIDE DEF m, open, moved
      <4> QED
        BY <1>4, <1>5, <1>6, <2>4
    <3>2. open[m.stream] # Messages!NoStream => Open \cup {m.stream} = Open
      <4> HIDE DEF m, open
      <4> QED
        BY <1>5
    <3> QED
      BY <2>2, <2>4, <3>1, <3>2
  <2> QED
    BY <1>2, <2>3, <2>4
<1>10. ASSUME NEW i \in DOMAIN accepted, agent_now < Messages!Until(accepted[i].message)
       PROVE  /\ open[accepted[i].message.stream].until >= Messages!Until(accepted[i].message)
              /\ open[accepted[i].message.stream].next > accepted[i].message.sequence
  <2> DEFINE o == accepted[i].message
  <2>1. o.stream \in Messages!Streams /\ Messages!Until(o) \in Nat
    BY MessagesLogged, MessagesEnvelope
  <2>2. streams[o.stream].until >= Messages!Until(o) /\ streams[o.stream].next > o.sequence
    BY <1>10 DEF MessagesInv
  <2>3. streams[o.stream].until \in Nat
    BY <2>1 DEF MessagesInv
  <2>4. streams[o.stream].until > at
    BY <1>1, <1>10, <2>1, <2>2, <2>3
  <2> HIDE DEF o, open, at
  <2>5. open[o.stream] = streams[o.stream]
    BY <1>4, <2>1, <2>4
  <2> QED
    BY <2>2, <2>5 DEF o
<1>11. CASE streams' = open /\ accepted' = accepted
  <2>1. Messages!OrderKept'
    BY <1>11 DEF MessagesInv, Messages!OrderKept, Messages!Until
  <2>2. \A o : Messages!Until(o)' = Messages!Until(o)
    BY DEF Messages!Until
  <2> HIDE DEF open
  <2> QED
    BY <1>1, <1>7, <1>8, <1>9, <1>10, <1>11, <2>1, <2>2 DEF MessagesInv, Messages!Idle
<1>12. CASE /\ m.sequence = open[m.stream].next
            /\ streams' = [open EXCEPT ![m.stream] = moved]
            /\ accepted' = Append(accepted, record)
  <2>1. /\ accepted' \in Seq([message : AgentEnvelopes, at : Nat])
        /\ DOMAIN accepted' = DOMAIN accepted \cup {n}
        /\ \A i \in DOMAIN accepted : i \in Nat /\ i < n /\ accepted'[i] = accepted[i]
        /\ accepted'[n] = record /\ n \in Nat
    <3>1. /\ accepted \in Seq([message : AgentEnvelopes, at : Nat])
          /\ record \in [message : AgentEnvelopes, at : Nat]
      BY <1>1 DEF MessagesInv
    <3> HIDE DEF record
    <3> QED
      BY <1>12, <3>1, Appended
  <2>2. ASSUME NEW i \in DOMAIN accepted', agent_now < Messages!Until(accepted'[i].message)
        PROVE  /\ streams'[accepted'[i].message.stream].until >= Messages!Until(accepted'[i].message)
               /\ streams'[accepted'[i].message.stream].next > accepted'[i].message.sequence
    <3>1. CASE i \in DOMAIN accepted
      <4> DEFINE o == accepted[i].message
      <4>1. accepted'[i].message = o
        BY <2>1, <3>1
      <4>2. o.stream \in Messages!Streams /\ o.sequence \in Nat /\ Messages!Until(o) \in Nat
        BY <3>1, MessagesLogged, MessagesEnvelope
      <4>3. open[o.stream].until >= Messages!Until(o) /\ open[o.stream].next > o.sequence
        BY <1>10, <2>2, <3>1, <4>1
      <4>4. open[o.stream] \in [next : Nat, until : Nat]
        BY <1>4, <4>2
      <4>5. CASE o.stream # m.stream
        <5>1. streams'[o.stream] = open[o.stream]
          <6> HIDE DEF m, open, moved, o
          <6> QED
            BY <1>4, <1>12, <4>2, <4>5
        <5> QED
          BY <4>1, <4>3, <5>1
      <4>6. CASE o.stream = m.stream
        <5>1. streams'[o.stream] = moved
          <6> HIDE DEF m, open, moved, o
          <6> QED
            BY <1>4, <1>5, <1>12, <4>6
        <5>2. moved.until \in Nat
          BY <1>6
        <5>3. open[m.stream].until >= Messages!Until(o) /\ open[m.stream].next > o.sequence
          BY <4>3, <4>6
        <5>4. open[m.stream].until \in Nat /\ open[m.stream].next \in Nat
          BY <4>4, <4>6
        <5>5. moved.until >= Messages!Until(o)
          <6> HIDE DEF m, open, moved, o
          <6> QED
            BY <1>6, <4>2, <5>2, <5>3, <5>4
        <5>6. moved.next > o.sequence
          <6> HIDE DEF m, open, moved, o
          <6> QED
            BY <1>5, <1>6, <1>12, <4>2, <5>3, <5>4
        <5> QED
          BY <4>1, <5>1, <5>5, <5>6
      <4> QED
        BY <4>5, <4>6
    <3>2. CASE i = n
      <4>1. accepted'[i].message = m
        BY <2>1, <3>2
      <4>2. streams'[m.stream] = moved
        <5> HIDE DEF m, open, moved
        <5> QED
          BY <1>4, <1>5, <1>12
      <4> HIDE DEF m, open, moved
      <4> QED
        BY <1>5, <1>6, <4>1, <4>2
    <3> QED
      BY <2>1, <3>1, <3>2
  <2>3. Messages!OrderKept'
    <3>1. Messages!OrderKept
      BY DEF MessagesInv
    <3>2. ASSUME NEW i \in DOMAIN accepted', NEW j \in DOMAIN accepted', i < j,
                 accepted'[i].message.stream = accepted'[j].message.stream,
                 accepted'[j].at < Messages!Until(accepted'[i].message)
          PROVE  accepted'[i].message.sequence < accepted'[j].message.sequence
      <4>1. i \in DOMAIN accepted /\ accepted'[i] = accepted[i]
        BY <2>1, <3>2
      <4>2. CASE j \in DOMAIN accepted
        <5>1. /\ i < j /\ accepted'[j] = accepted[j]
              /\ accepted[i].message.stream = accepted[j].message.stream
              /\ accepted[j].at < Messages!Until(accepted[i].message)
          BY <2>1, <3>2, <4>1, <4>2
        <5> QED
          BY <3>1, <4>1, <4>2, <5>1 DEF Messages!OrderKept
      <4>3. CASE j = n
        <5>1. /\ accepted'[j].message = m /\ accepted'[j].at = agent_now
          BY <2>1, <4>3
        <5>2. open[m.stream].next > accepted[i].message.sequence
          <6>1. accepted[i].message.stream = m.stream /\ agent_now < Messages!Until(accepted[i].message)
            BY <3>2, <4>1, <5>1
          <6> HIDE DEF m, open
          <6> QED
            BY <1>10, <4>1, <6>1
        <5>3. accepted[i].message.sequence \in Nat
          BY <4>1, MessagesLogged, MessagesEnvelope
        <5> HIDE DEF m, open
        <5> QED
          BY <1>5, <1>12, <4>1, <5>1, <5>2, <5>3
      <4> QED
        BY <2>1, <4>2, <4>3
    <3>3. \A o : Messages!Until(o)' = Messages!Until(o)
      BY DEF Messages!Until
    <3> QED
      BY <3>2, <3>3 DEF Messages!OrderKept
  <2>4. \A o : Messages!Until(o)' = Messages!Until(o)
    BY DEF Messages!Until
  <2> QED
    BY <1>1, <1>7, <1>8, <1>9, <2>1, <2>2, <2>3, <2>4 DEF MessagesInv, Messages!Idle
<1> QED
  BY <1>2, <1>11, <1>12

\* Every step of the verifier preserves its invariant.
LEMMA MessagesStep == MessagesInv /\ [Messages!Next]_messages => MessagesInv'
<1> SUFFICES ASSUME MessagesInv, [Messages!Next]_messages PROVE MessagesInv'
  OBVIOUS
<1> USE DEF Messages!OrderKept, Messages!Until
<1>1. ASSUME NEW t \in Callers, NEW m \in AgentEnvelopes, Messages!VerifyBegin(t, m)
      PROVE  MessagesInv'
  BY <1>1 DEF MessagesInv, Messages!VerifyBegin
<1>2. ASSUME NEW t \in Callers, Messages!VerifyClaim(t) PROVE MessagesInv'
  BY <1>2, MessagesClaim
<1>3. CASE Messages!Tick
  <2>1. /\ agent_now' = agent_now + 1 /\ agent_now \in Nat
        /\ UNCHANGED <<replays, streams, verifying, accepted>>
    BY <1>3 DEF Messages!Tick, MessagesInv
  <2>2. ASSUME NEW i \in DOMAIN accepted, agent_now' < Messages!Until(accepted[i].message)
        PROVE  agent_now < Messages!Until(accepted[i].message)
    <3>1. Messages!Until(accepted[i].message) \in Nat
      BY <2>2, MessagesEnvelope, MessagesLogged
    <3> QED
      BY <2>1, <2>2, <3>1
  <2> QED
    BY <2>1, <2>2 DEF MessagesInv
<1>4. CASE UNCHANGED messages
  BY <1>4 DEF MessagesInv, messages
<1> QED
  BY <1>1, <1>2, <1>3, <1>4 DEF Messages!Next

\* Streams are accepted in the order of their numbers, without repetition.
LEMMA MessagesSafe == MessagesInv => Messages!TypeOK /\ Messages!OrderKept
BY DEF MessagesInv, Messages!TypeOK, Messages!Cardinality, Cardinality

-----------------------------------------------------------------------------
(* Checkpoints of workflows *)

\* Checkpoints are of their type, the capacities are natural numbers.
ASSUME WorkflowAssumption ==
    /\ Checkpoints \subseteq Workflow!CheckpointType
    /\ MaxWorkflows \in Nat /\ MaxClaims \in Nat

\* The checkpoint resumed last of its workflow.
LastOf(i) ==
    \A k \in DOMAIN resumed :
        i < k => resumed[k].checkpoint.workflow # resumed[i].checkpoint.workflow

\* A checkpoint is remembered as claimed, and the last one of a workflow as its latest, for as
\* long as it is valid.
WorkflowInv ==
    /\ workflow_now \in Nat
    /\ DOMAIN resuming = Callers
    /\ \A t \in Callers : resuming[t] # Workflow!Idle =>
        resuming[t].checkpoint \in Checkpoints /\ resuming[t].at \in 0 .. workflow_now
    /\ IsFiniteSet(resumptions) /\ Cardinality(resumptions) <= MaxClaims
    /\ latest \in [Workflows -> Checkpoints \cup {Workflow!Nothing}]
    /\ IsFiniteSet({w \in Workflows : latest[w] # Workflow!Nothing})
    /\ Cardinality({w \in Workflows : latest[w] # Workflow!Nothing}) <= MaxWorkflows
    /\ resumed \in Seq([checkpoint : Checkpoints, at : Nat])
    /\ \A i \in DOMAIN resumed :
        LET c == resumed[i].checkpoint IN
        workflow_now < c.expires_at =>
            /\ c \in resumptions
            /\ LastOf(i) => latest[c.workflow] = c
    /\ Workflow!AcceptedOnce /\ Workflow!StepByStep

\* The fields of a checkpoint.
LEMMA WorkflowCheckpoint ==
    ASSUME NEW c \in Checkpoints
    PROVE  /\ c.workflow \in Workflows /\ c.sequence \in Nat /\ c.expires_at \in Nat
           /\ c # Workflow!Nothing
BY WorkflowAssumption DEF Workflow!CheckpointType, Workflow!Nothing

\* Initially nothing was resumed.
LEMMA WorkflowInit == Workflow!Init => WorkflowInv
<1> SUFFICES ASSUME Workflow!Init PROVE WorkflowInv
  OBVIOUS
<1>1. {w \in Workflows : latest[w] # Workflow!Nothing} = {}
  BY DEF Workflow!Init
<1>2. /\ IsFiniteSet({}) /\ Cardinality({}) = 0 /\ MaxWorkflows \in Nat /\ MaxClaims \in Nat
  BY WorkflowAssumption, FS_EmptySet, Zenon
<1>3. /\ workflow_now = 0 /\ resumptions = {} /\ resumed = <<>>
      /\ latest = [w \in Workflows |-> Workflow!Nothing]
      /\ resuming = [t \in Callers |-> Workflow!Idle]
  BY DEF Workflow!Init
<1>4. /\ IsFiniteSet(resumptions) /\ Cardinality(resumptions) = 0
      /\ IsFiniteSet({w \in Workflows : latest[w] # Workflow!Nothing})
      /\ Cardinality({w \in Workflows : latest[w] # Workflow!Nothing}) = 0
  BY <1>1, <1>2, <1>3, Zenon
<1>5. Workflow!AcceptedOnce /\ Workflow!StepByStep
  BY <1>3 DEF Workflow!AcceptedOnce, Workflow!StepByStep
<1> QED
  BY <1>2, <1>3, <1>4, <1>5 DEF WorkflowInv

\* What was resumed was presented.
LEMMA WorkflowLogged == WorkflowInv => \A i \in DOMAIN resumed : resumed[i].checkpoint \in Checkpoints
<1> SUFFICES ASSUME WorkflowInv, NEW i \in DOMAIN resumed PROVE resumed[i].checkpoint \in Checkpoints
  OBVIOUS
<1>1. resumed[i] \in [checkpoint : Checkpoints, at : Nat]
  BY Logged DEF WorkflowInv
<1> QED
  BY <1>1

\* A claim goes one step beyond the latest checkpoint of the workflow, and takes its place.
LEMMA WorkflowClaim ==
    ASSUME WorkflowInv, NEW t \in Callers, Workflow!ResumeClaim(t)
    PROVE  WorkflowInv'
<1> DEFINE c == resuming[t].checkpoint
           at == resuming[t].at
           kept == Workflow!LiveClaims(at)
           known == Workflow!LiveLatest(at)
           Known == {w \in Workflows : known[w] # Workflow!Nothing}
           record == [checkpoint |-> c, at |-> workflow_now]
           n == Len(resumed) + 1
<1>1. /\ workflow_now' = workflow_now /\ workflow_now \in Nat /\ at \in 0 .. workflow_now
      /\ resuming' = [resuming EXCEPT ![t] = Workflow!Idle]
      /\ c \in Checkpoints
  BY DEF Workflow!ResumeClaim, WorkflowInv
<1>2. \/ /\ c \notin kept /\ Workflow!Follows(c, known[c.workflow])
         /\ Cardinality(kept) < MaxClaims
         /\ known[c.workflow] = Workflow!Nothing => Cardinality(Known) < MaxWorkflows
         /\ resumptions' = kept \cup {c}
         /\ latest' = [known EXCEPT ![c.workflow] = c]
         /\ resumed' = Append(resumed, record)
      \/ resumptions' = kept /\ latest' = known /\ resumed' = resumed
  BY DEF Workflow!ResumeClaim, Workflow!Cardinality, Cardinality
<1>3. /\ kept \in SUBSET resumptions
      /\ \A x \in resumptions : x.expires_at > at => x \in kept
  BY DEF Workflow!LiveClaims
<1>4. /\ known \in [Workflows -> Checkpoints \cup {Workflow!Nothing}]
      /\ \A w \in Workflows : latest[w].expires_at > at => known[w] = latest[w]
      /\ Known \in SUBSET {w \in Workflows : latest[w] # Workflow!Nothing}
  BY DEF Workflow!LiveLatest, WorkflowInv
<1>5. /\ c.workflow \in Workflows /\ c # Workflow!Nothing
      /\ c.expires_at \in Nat /\ c.sequence \in Nat
  BY <1>1, WorkflowCheckpoint
<1>6. IsFiniteSet(resumptions') /\ Cardinality(resumptions') <= MaxClaims
  <2>1. MaxClaims \in Nat /\ IsFiniteSet(resumptions) /\ Cardinality(resumptions) <= MaxClaims
    BY WorkflowAssumption DEF WorkflowInv
  <2> HIDE DEF kept, c, known, Known, record
  <2> QED
    BY <1>2, <1>3, <2>1, KeptWithin
<1>7. latest' \in [Workflows -> Checkpoints \cup {Workflow!Nothing}]
  <2> HIDE DEF kept, c, known, Known, record
  <2> QED
    BY <1>1, <1>2, <1>4, <1>5
<1>8. /\ IsFiniteSet({w \in Workflows : latest'[w] # Workflow!Nothing})
      /\ Cardinality({w \in Workflows : latest'[w] # Workflow!Nothing}) <= MaxWorkflows
  <2>1. /\ MaxWorkflows \in Nat
        /\ IsFiniteSet({w \in Workflows : latest[w] # Workflow!Nothing})
        /\ Cardinality({w \in Workflows : latest[w] # Workflow!Nothing}) <= MaxWorkflows
    BY WorkflowAssumption DEF WorkflowInv
  <2>2. /\ IsFiniteSet(Known) /\ Cardinality(Known) <= MaxWorkflows
        /\ IsFiniteSet(Known \cup {c.workflow})
        /\ Cardinality(Known) < MaxWorkflows => Cardinality(Known \cup {c.workflow}) <= MaxWorkflows
    <3> HIDE DEF Known
    <3> QED
      BY <1>4, <2>1, KeptWithin
  <2>3. CASE latest' = known
    BY <2>2, <2>3
  <2>4. CASE /\ latest' = [known EXCEPT ![c.workflow] = c]
             /\ known[c.workflow] = Workflow!Nothing => Cardinality(Known) < MaxWorkflows
    <3>1. {w \in Workflows : latest'[w] # Workflow!Nothing} = Known \cup {c.workflow}
      <4> HIDE DEF c, known
      <4> QED
        BY <1>4, <1>5, <2>4
    <3>2. known[c.workflow] # Workflow!Nothing => Known \cup {c.workflow} = Known
      <4> HIDE DEF c, known
      <4> QED
        BY <1>5
    <3> QED
      BY <2>2, <2>4, <3>1, <3>2
  <2> QED
    BY <1>2, <2>3, <2>4
<1>9. ASSUME NEW i \in DOMAIN resumed, workflow_now < resumed[i].checkpoint.expires_at
      PROVE  /\ resumed[i].checkpoint \in kept
             /\ LastOf(i) => known[resumed[i].checkpoint.workflow] = resumed[i].checkpoint
  <2>1. resumed[i].checkpoint \in Checkpoints
    BY WorkflowLogged
  <2>2. /\ resumed[i].checkpoint.expires_at \in Nat
        /\ resumed[i].checkpoint.workflow \in Workflows
    BY <2>1, WorkflowCheckpoint
  <2>3. resumed[i].checkpoint.expires_at > at
    BY <1>1, <1>9, <2>2
  <2>4. /\ resumed[i].checkpoint \in resumptions
        /\ LastOf(i) => latest[resumed[i].checkpoint.workflow] = resumed[i].checkpoint
    BY <1>9 DEF WorkflowInv
  <2> HIDE DEF kept, known, at
  <2> QED
    BY <1>3, <1>4, <2>2, <2>3, <2>4
<1>10. CASE resumptions' = kept /\ latest' = known /\ resumed' = resumed
  <2>1. \A i : LastOf(i)' = LastOf(i)
    BY <1>10 DEF LastOf
  <2>2. Workflow!AcceptedOnce' /\ Workflow!StepByStep'
    BY <1>10 DEF WorkflowInv, Workflow!AcceptedOnce, Workflow!StepByStep, Workflow!Earlier
  <2> HIDE DEF kept, known
  <2> QED
    BY <1>1, <1>6, <1>7, <1>8, <1>9, <1>10, <2>1, <2>2 DEF WorkflowInv, Workflow!Idle
<1>11. CASE /\ c \notin kept /\ Workflow!Follows(c, known[c.workflow])
            /\ resumptions' = kept \cup {c}
            /\ latest' = [known EXCEPT ![c.workflow] = c]
            /\ resumed' = Append(resumed, record)
  <2>1. /\ resumed' \in Seq([checkpoint : Checkpoints, at : Nat])
        /\ DOMAIN resumed' = DOMAIN resumed \cup {n}
        /\ \A i \in DOMAIN resumed : i \in Nat /\ i < n /\ resumed'[i] = resumed[i]
        /\ resumed'[n] = record /\ n \in Nat
    <3>1. /\ resumed \in Seq([checkpoint : Checkpoints, at : Nat])
          /\ record \in [checkpoint : Checkpoints, at : Nat]
      BY <1>1 DEF WorkflowInv
    <3> HIDE DEF record
    <3> QED
      BY <1>11, <3>1, Appended
  <2>2. \A i \in DOMAIN resumed : LastOf(i)' => LastOf(i) /\ resumed[i].checkpoint.workflow # c.workflow
    <3> HIDE DEF c
    <3> QED
      BY <2>1 DEF LastOf
  <2>3. ASSUME NEW i \in DOMAIN resumed', workflow_now < resumed'[i].checkpoint.expires_at
        PROVE  /\ resumed'[i].checkpoint \in resumptions'
               /\ LastOf(i)' => latest'[resumed'[i].checkpoint.workflow] = resumed'[i].checkpoint
    <3>1. CASE i \in DOMAIN resumed
      <4>1. resumed[i].checkpoint.workflow \in Workflows
        BY <3>1, WorkflowLogged, WorkflowCheckpoint
      <4> HIDE DEF c, kept, known, record
      <4> QED
        BY <1>4, <1>9, <1>11, <2>1, <2>2, <2>3, <3>1, <4>1
    <3>2. CASE i = n
      <4>1. resumed'[i].checkpoint = c
        BY <2>1, <3>2
      <4> HIDE DEF c, kept, known, record
      <4> QED
        BY <1>4, <1>5, <1>11, <4>1
    <3> QED
      BY <2>1, <3>1, <3>2
  <2>4. Workflow!AcceptedOnce'
    <3>1. Workflow!AcceptedOnce
      BY DEF WorkflowInv
    <3>2. ASSUME NEW i \in DOMAIN resumed', NEW j \in DOMAIN resumed', i < j,
                 resumed'[j].at < resumed'[i].checkpoint.expires_at,
                 resumed'[i].checkpoint.workflow = resumed'[j].checkpoint.workflow
          PROVE  resumed'[i].checkpoint # resumed'[j].checkpoint
      <4>1. i \in DOMAIN resumed /\ resumed'[i] = resumed[i]
        BY <2>1, <3>2
      <4>2. CASE j \in DOMAIN resumed
        BY <2>1, <3>1, <3>2, <4>1, <4>2 DEF Workflow!AcceptedOnce, Workflow!Earlier
      <4>3. CASE j = n
        BY <1>9, <1>11, <2>1, <3>2, <4>1, <4>3
      <4> QED
        BY <2>1, <4>2, <4>3
    <3> QED
      BY <3>2 DEF Workflow!AcceptedOnce, Workflow!Earlier
  <2>5. Workflow!StepByStep'
    <3>1. Workflow!StepByStep
      BY DEF WorkflowInv
    <3>2. ASSUME NEW i \in DOMAIN resumed', NEW j \in DOMAIN resumed', i < j,
                 resumed'[j].at < resumed'[i].checkpoint.expires_at,
                 resumed'[i].checkpoint.workflow = resumed'[j].checkpoint.workflow,
                 \A k \in i + 1 .. j - 1 :
                    ~ (i < k /\ resumed'[i].checkpoint.workflow = resumed'[k].checkpoint.workflow)
          PROVE  resumed'[j].checkpoint.sequence = resumed'[i].checkpoint.sequence + 1
      <4>1. i \in DOMAIN resumed /\ resumed'[i] = resumed[i] /\ i \in Nat
        BY <2>1, <3>2
      <4>2. CASE j \in DOMAIN resumed
        <5>1. j \in Nat /\ \A k \in i + 1 .. j - 1 : k \in DOMAIN resumed
          BY <4>1, <4>2 DEF WorkflowInv
        <5>2. \A k \in i + 1 .. j - 1 : resumed'[k] = resumed[k]
          BY <2>1, <5>1
        <5>3. /\ Workflow!Earlier(i, j) /\ resumed[j].at < resumed[i].checkpoint.expires_at
              /\ \A k \in i + 1 .. j - 1 : ~ Workflow!Earlier(i, k)
              /\ resumed'[j] = resumed[j]
          BY <2>1, <3>2, <4>1, <4>2, <5>2 DEF Workflow!Earlier
        <5> QED
          BY <3>1, <4>1, <4>2, <5>3 DEF Workflow!StepByStep
      <4>3. CASE j = n
        <5>1. LastOf(i)
          BY <2>1, <3>2, <4>1, <4>3 DEF LastOf
        <5>2. known[c.workflow] = resumed[i].checkpoint /\ resumed[i].checkpoint \in Checkpoints
          <6>1. resumed[i].checkpoint.workflow = c.workflow /\ workflow_now < resumed[i].checkpoint.expires_at
            BY <2>1, <3>2, <4>1, <4>3
          <6>2. resumed[i].checkpoint \in Checkpoints
            BY <4>1, WorkflowLogged
          <6> HIDE DEF known, c
          <6> QED
            BY <1>9, <4>1, <5>1, <6>1, <6>2
        <5>3. resumed[i].checkpoint # Workflow!Nothing
          BY <5>2, WorkflowCheckpoint
        <5>4. c.sequence = resumed[i].checkpoint.sequence + 1
          <6> HIDE DEF known, c
          <6> QED
            BY <1>11, <5>2, <5>3 DEF Workflow!Follows
        <5> QED
          BY <2>1, <4>1, <4>3, <5>4
      <4> QED
        BY <2>1, <4>2, <4>3
    <3> QED
      BY <3>2 DEF Workflow!StepByStep, Workflow!Earlier
  <2> QED
    BY <1>1, <1>6, <1>7, <1>8, <2>1, <2>3, <2>4, <2>5 DEF WorkflowInv, Workflow!Idle
<1> QED
  BY <1>2, <1>10, <1>11

\* Every step of the resume authorizer preserves its invariant.
LEMMA WorkflowStep == WorkflowInv /\ [Workflow!Next]_workflow => WorkflowInv'
<1> SUFFICES ASSUME WorkflowInv, [Workflow!Next]_workflow PROVE WorkflowInv'
  OBVIOUS
<1> USE DEF Workflow!AcceptedOnce, Workflow!StepByStep, Workflow!Earlier, LastOf
<1>1. ASSUME NEW t \in Callers, NEW c \in Checkpoints, Workflow!ResumeBegin(t, c)
      PROVE  WorkflowInv'
  BY <1>1 DEF WorkflowInv, Workflow!ResumeBegin
<1>2. ASSUME NEW t \in Callers, Workflow!ResumeClaim(t) PROVE WorkflowInv'
  BY <1>2, WorkflowClaim
<1>3. ASSUME NEW t \in Callers, Workflow!ResumeDenied(t) PROVE WorkflowInv'
  BY <1>3 DEF WorkflowInv, Workflow!ResumeDenied, Workflow!Idle
<1>4. ASSUME NEW x, Workflow!Revoke(x) PROVE WorkflowInv'
  BY <1>4 DEF WorkflowInv, Workflow!Revoke
<1>5. CASE Workflow!Tick
  <2>1. /\ workflow_now' = workflow_now + 1 /\ workflow_now \in Nat
        /\ UNCHANGED <<resumptions, latest, resuming, resumed>>
    BY <1>5 DEF Workflow!Tick, WorkflowInv
  <2>2. ASSUME NEW i \in DOMAIN resumed, workflow_now' < resumed[i].checkpoint.expires_at
        PROVE  workflow_now < resumed[i].checkpoint.expires_at
    <3>1. resumed[i].checkpoint.expires_at \in Nat
      BY <2>2, WorkflowCheckpoint, WorkflowLogged
    <3> QED
      BY <2>1, <2>2, <3>1
  <2> QED
    BY <2>1, <2>2 DEF WorkflowInv
<1>6. CASE UNCHANGED workflow
  BY <1>6 DEF WorkflowInv, workflow
<1> QED
  BY <1>1, <1>2, <1>3, <1>4, <1>5, <1>6 DEF Workflow!Next

\* Checkpoints are resumed once, and one after the other.
LEMMA WorkflowSafe ==
    WorkflowInv => Workflow!TypeOK /\ Workflow!AcceptedOnce /\ Workflow!StepByStep
BY DEF WorkflowInv, Workflow!TypeOK, Workflow!Cardinality, Cardinality

-----------------------------------------------------------------------------
(* MCP messages *)

\* Messages are of their type, the age, the skew and the capacity are natural numbers.
ASSUME McpAssumption ==
    /\ McpEnvelopes \subseteq Mcp!EnvelopeType
    /\ McpAge \in Nat /\ McpSkew \in Nat /\ MaxMcpEntries \in Nat

\* A nonce is remembered as long as its message may be verified.
McpInv ==
    /\ mcp_now \in Nat
    /\ DOMAIN checking = Callers
    /\ \A t \in Callers : checking[t] # Mcp!Idle =>
        checking[t].message \in McpEnvelopes /\ checking[t].at \in 0 .. mcp_now
    /\ IsFiniteSet(entries) /\ Cardinality(entries) <= MaxMcpEntries
    /\ verified \in Seq([message : McpEnvelopes, at : Nat])
    /\ \A i \in DOMAIN verified :
        mcp_now < Mcp!ReplayUntil(verified[i].message) =>
            [nonce |-> verified[i].message.nonce, until |-> Mcp!ReplayUntil(verified[i].message)]
                \in entries
    /\ Mcp!AcceptedOnce

\* Initially no nonce is remembered.
LEMMA McpInit == Mcp!Init => McpInv
BY McpAssumption, FS_EmptySet DEF Mcp!Init, McpInv, Mcp!AcceptedOnce

\* A nonce is retained until its message has expired, skew included.
LEMMA McpUntil ==
    ASSUME NEW m \in McpEnvelopes
    PROVE  /\ Mcp!ReplayUntil(m) \in Nat /\ m.expires_at \in Nat
           /\ m.expires_at + McpSkew <= Mcp!ReplayUntil(m)
BY McpAssumption DEF Mcp!ReplayUntil, Mcp!EnvelopeType

\* What was verified was received.
LEMMA McpLogged == McpInv => \A i \in DOMAIN verified : verified[i].message \in McpEnvelopes
<1> SUFFICES ASSUME McpInv, NEW i \in DOMAIN verified PROVE verified[i].message \in McpEnvelopes
  OBVIOUS
<1>1. verified[i] \in [message : McpEnvelopes, at : Nat]
  BY Logged DEF McpInv
<1> QED
  BY <1>1

\* A nonce is claimed once for as long as it is retained, or the store is full.
LEMMA McpClaim ==
    ASSUME McpInv, NEW t \in Callers, Mcp!VerifyClaim(t)
    PROVE  McpInv'
<1> DEFINE m == checking[t].message
           unexpired == {e \in entries : e.until > checking[t].at}
           entry == [nonce |-> m.nonce, until |-> Mcp!ReplayUntil(m)]
           record == [message |-> m, at |-> mcp_now]
<1>1. /\ mcp_now' = mcp_now /\ mcp_now \in Nat
      /\ checking' = [checking EXCEPT ![t] = Mcp!Idle]
      /\ m \in McpEnvelopes /\ checking[t].at \in 0 .. mcp_now
      /\ \/ /\ m.nonce \notin {e.nonce : e \in unexpired} /\ Cardinality(unexpired) < MaxMcpEntries
            /\ entries' = unexpired \cup {entry} /\ verified' = Append(verified, record)
         \/ entries' = unexpired /\ verified' = verified
  BY DEF Mcp!VerifyClaim, McpInv, Mcp!Room, Mcp!Cardinality, Cardinality
<1>2. IsFiniteSet(entries') /\ Cardinality(entries') <= MaxMcpEntries
  <2>1. /\ unexpired \in SUBSET entries /\ MaxMcpEntries \in Nat
        /\ IsFiniteSet(entries) /\ Cardinality(entries) <= MaxMcpEntries
    BY McpAssumption DEF McpInv
  <2> HIDE DEF unexpired, entry
  <2> QED
    BY <1>1, <2>1, KeptWithin
<1>3. ASSUME NEW i \in DOMAIN verified, mcp_now < Mcp!ReplayUntil(verified[i].message)
      PROVE  [nonce |-> verified[i].message.nonce, until |-> Mcp!ReplayUntil(verified[i].message)]
                \in unexpired
  <2>1. Mcp!ReplayUntil(verified[i].message) \in Nat
    BY McpUntil, McpLogged
  <2>2. Mcp!ReplayUntil(verified[i].message) > checking[t].at
    BY <1>1, <1>3, <2>1
  <2> QED
    BY <1>3, <2>2 DEF McpInv
<1>4. CASE verified' = verified /\ entries' = unexpired
  <2> HIDE DEF unexpired
  <2> QED
    BY <1>1, <1>2, <1>3, <1>4 DEF McpInv, Mcp!Idle, Mcp!AcceptedOnce, Mcp!ReplayUntil
<1>5. CASE /\ m.nonce \notin {e.nonce : e \in unexpired}
           /\ entries' = unexpired \cup {entry} /\ verified' = Append(verified, record)
  <2>1. /\ verified' \in Seq([message : McpEnvelopes, at : Nat])
        /\ DOMAIN verified' = DOMAIN verified \cup {Len(verified) + 1}
        /\ \A i \in DOMAIN verified : i < Len(verified) + 1 /\ verified'[i] = verified[i]
        /\ verified'[Len(verified) + 1] = record
    <3>1. /\ verified \in Seq([message : McpEnvelopes, at : Nat])
          /\ record \in [message : McpEnvelopes, at : Nat]
      BY <1>1 DEF McpInv
    <3> HIDE DEF record
    <3> QED
      BY <1>5, <3>1, Appended
  <2>2. ASSUME NEW i \in DOMAIN verified, mcp_now < verified[i].message.expires_at + McpSkew,
               verified[i].message = m
        PROVE  FALSE
    <3>1. mcp_now < Mcp!ReplayUntil(m)
      BY <1>1, <2>2, McpUntil, McpAssumption
    <3>2. entry \in unexpired
      BY <1>3, <2>2, <3>1
    <3> QED
      BY <1>5, <3>2
  <2>3. Mcp!AcceptedOnce'
    <3>1. Mcp!AcceptedOnce
      BY DEF McpInv
    <3>2. ASSUME NEW i \in DOMAIN verified', NEW j \in DOMAIN verified', i < j,
                 verified'[j].at < verified'[i].message.expires_at + McpSkew
          PROVE  verified'[j].message # verified'[i].message
      <4>1. i \in DOMAIN verified /\ verified'[i] = verified[i]
        BY <2>1, <3>2 DEF McpInv
      <4>2. CASE j \in DOMAIN verified
        BY <2>1, <3>1, <3>2, <4>1, <4>2 DEF Mcp!AcceptedOnce
      <4>3. CASE j = Len(verified) + 1
        BY <2>1, <2>2, <3>2, <4>1, <4>3
      <4> QED
        BY <2>1, <4>2, <4>3
    <3> QED
      BY <3>2 DEF Mcp!AcceptedOnce
  <2>4. ASSUME NEW i \in DOMAIN verified', mcp_now < Mcp!ReplayUntil(verified'[i].message)
        PROVE  [nonce |-> verified'[i].message.nonce,
                until |-> Mcp!ReplayUntil(verified'[i].message)] \in entries'
    <3> HIDE DEF unexpired, m
    <3> QED
      BY <1>3, <1>5, <2>1, <2>4
  <2> QED
    BY <1>1, <1>2, <2>1, <2>3, <2>4 DEF McpInv, Mcp!Idle, Mcp!ReplayUntil
<1> QED
  BY <1>1, <1>4, <1>5

\* Every step of the message guard preserves its invariant.
LEMMA McpStep == McpInv /\ [Mcp!Next]_mcp => McpInv'
<1> SUFFICES ASSUME McpInv, [Mcp!Next]_mcp PROVE McpInv'
  OBVIOUS
<1>1. ASSUME NEW t \in Callers, NEW m \in McpEnvelopes, Mcp!VerifyBegin(t, m)
      PROVE  McpInv'
  BY <1>1 DEF McpInv, Mcp!VerifyBegin, Mcp!AcceptedOnce, Mcp!ReplayUntil
<1>2. ASSUME NEW t \in Callers, Mcp!VerifyClaim(t) PROVE McpInv'
  BY <1>2, McpClaim
<1>3. CASE Mcp!Tick
  <2>1. /\ mcp_now' = mcp_now + 1 /\ mcp_now \in Nat
        /\ UNCHANGED <<entries, checking, verified>>
    BY <1>3 DEF Mcp!Tick, McpInv
  <2>2. ASSUME NEW i \in DOMAIN verified, mcp_now' < Mcp!ReplayUntil(verified[i].message)
        PROVE  mcp_now < Mcp!ReplayUntil(verified[i].message)
    <3>1. Mcp!ReplayUntil(verified[i].message) \in Nat
      BY <2>2, McpUntil, McpLogged
    <3> QED
      BY <2>1, <2>2, <3>1
  <2> QED
    BY <2>1, <2>2 DEF McpInv, Mcp!AcceptedOnce, Mcp!ReplayUntil
<1>4. CASE UNCHANGED mcp
  BY <1>4 DEF McpInv, mcp, Mcp!AcceptedOnce, Mcp!ReplayUntil
<1> QED
  BY <1>1, <1>2, <1>3, <1>4 DEF Mcp!Next

\* MCP messages are verified once while they are valid.
LEMMA McpSafe == McpInv => Mcp!TypeOK /\ Mcp!AcceptedOnce
BY DEF McpInv, Mcp!TypeOK, Mcp!Cardinality, Cardinality

-----------------------------------------------------------------------------
(* OAuth tokens of MCP *)

\* Tokens are of their type, the skew and the capacity are natural numbers.
ASSUME TokenAssumption ==
    /\ Tokens \subseteq OAuth!TokenType
    /\ TokenSkew \in Nat /\ MaxTokens \in Nat

\* What a call that names its resource was admitted with: a resource that policy and token allow.
Argued(a) ==
    a.tool # OAuth!ListTools /\ ToolPolicy[a.tool].takes_resource =>
        \E r \in ToolPolicy[a.tool].allowed_resources \cap a.token.resources : a.argument = {r}

\* A token is remembered as long as it may be valid.
TokensInv ==
    /\ token_now \in Nat
    /\ DOMAIN requests = Callers
    /\ \A t \in Callers : requests[t] # OAuth!Idle =>
        requests[t].token \in Tokens /\ requests[t].at \in 0 .. token_now
    /\ IsFiniteSet(spent) /\ Cardinality(spent) <= MaxTokens
    /\ redeemed \in Seq([token : Tokens, at : Nat])
    /\ \A i \in DOMAIN redeemed :
        token_now < OAuth!RetainedUntil(redeemed[i].token) =>
            [id |-> redeemed[i].token.id, until |-> OAuth!RetainedUntil(redeemed[i].token)] \in spent
    /\ OAuth!AcceptedOnce
    /\ \A a \in admitted : Argued(a)
    /\ OAuth!NoWiderDownstream

\* Initially no token is spent.
LEMMA TokensInit == OAuth!Init => TokensInv
BY TokenAssumption, FS_EmptySet
DEF OAuth!Init, TokensInv, OAuth!AcceptedOnce, OAuth!NoWiderDownstream

\* A token is retained until it has expired, skew included.
LEMMA TokensUntil ==
    ASSUME NEW token \in Tokens
    PROVE  OAuth!RetainedUntil(token) \in Nat /\ OAuth!RetainedUntil(token) = token.expires_at + TokenSkew
BY TokenAssumption DEF OAuth!RetainedUntil, OAuth!TokenType

\* What was redeemed was presented.
LEMMA TokensLogged == TokensInv => \A i \in DOMAIN redeemed : redeemed[i].token \in Tokens
<1> SUFFICES ASSUME TokensInv, NEW i \in DOMAIN redeemed PROVE redeemed[i].token \in Tokens
  OBVIOUS
<1>1. redeemed[i] \in [token : Tokens, at : Nat]
  BY Logged DEF TokensInv
<1> QED
  BY <1>1

\* A token is claimed once for as long as it is retained, and what it admits goes no further
\* than the call that presented it.
LEMMA TokensClaim ==
    ASSUME TokensInv, NEW t \in Callers, OAuth!RequestClaim(t)
    PROVE  TokensInv'
<1> DEFINE call == requests[t]
           token == call.token
           kept == {e \in spent : e.until > call.at}
           entry == [id |-> token.id, until |-> OAuth!RetainedUntil(token)]
           record == [token |-> token, at |-> token_now]
           argument == IF call.tool # OAuth!ListTools /\ ToolPolicy[call.tool].takes_resource
                       THEN {call.resource} ELSE {}
           grant == [tool |-> call.tool, token |-> token, argument |-> argument]
<1>1. /\ token_now' = token_now /\ token_now \in Nat /\ credentials' = credentials
      /\ requests' = [requests EXCEPT ![t] = OAuth!Idle]
      /\ token \in Tokens /\ call.at \in 0 .. token_now
  BY DEF OAuth!RequestClaim, TokensInv
<1>2. \/ /\ token.id \notin {e.id : e \in kept} /\ Cardinality(kept) < MaxTokens
         /\ spent' = kept \cup {entry} /\ redeemed' = Append(redeemed, record)
      \/ spent' = kept /\ redeemed' = redeemed
  BY DEF OAuth!RequestClaim, OAuth!Cardinality, Cardinality
<1>3. IsFiniteSet(spent') /\ Cardinality(spent') <= MaxTokens
  <2>1. /\ kept \in SUBSET spent /\ MaxTokens \in Nat
        /\ IsFiniteSet(spent) /\ Cardinality(spent) <= MaxTokens
    BY TokenAssumption DEF TokensInv
  <2> HIDE DEF kept, entry
  <2> QED
    BY <1>2, <2>1, KeptWithin
<1>4. ASSUME NEW i \in DOMAIN redeemed, token_now < OAuth!RetainedUntil(redeemed[i].token)
      PROVE  [id |-> redeemed[i].token.id, until |-> OAuth!RetainedUntil(redeemed[i].token)] \in kept
  <2>1. OAuth!RetainedUntil(redeemed[i].token) \in Nat
    BY TokensUntil, TokensLogged
  <2>2. OAuth!RetainedUntil(redeemed[i].token) > call.at
    BY <1>1, <1>4, <2>1
  <2> QED
    BY <1>4, <2>2 DEF TokensInv
<1>5. /\ redeemed' \in Seq([token : Tokens, at : Nat])
      /\ \A i \in DOMAIN redeemed' :
          token_now < OAuth!RetainedUntil(redeemed'[i].token) =>
              [id |-> redeemed'[i].token.id, until |-> OAuth!RetainedUntil(redeemed'[i].token)] \in spent'
      /\ OAuth!AcceptedOnce'
  <2>1. CASE spent' = kept /\ redeemed' = redeemed
    <3> HIDE DEF kept
    <3> QED
      BY <1>4, <2>1 DEF TokensInv, OAuth!AcceptedOnce
  <2>2. CASE /\ token.id \notin {e.id : e \in kept}
             /\ spent' = kept \cup {entry} /\ redeemed' = Append(redeemed, record)
    <3>1. /\ redeemed' \in Seq([token : Tokens, at : Nat])
          /\ DOMAIN redeemed' = DOMAIN redeemed \cup {Len(redeemed) + 1}
          /\ \A i \in DOMAIN redeemed : i < Len(redeemed) + 1 /\ redeemed'[i] = redeemed[i]
          /\ redeemed'[Len(redeemed) + 1] = record
      <4>1. /\ redeemed \in Seq([token : Tokens, at : Nat])
            /\ record \in [token : Tokens, at : Nat]
        BY <1>1 DEF TokensInv
      <4> HIDE DEF record
      <4> QED
        BY <2>2, <4>1, Appended
    <3>2. ASSUME NEW i \in DOMAIN redeemed, token_now < redeemed[i].token.expires_at + TokenSkew,
                 redeemed[i].token = token
          PROVE  FALSE
      <4>1. token_now < OAuth!RetainedUntil(token)
        BY <1>1, <3>2, TokensUntil
      <4>2. entry \in kept
        BY <1>4, <3>2, <4>1
      <4> QED
        BY <2>2, <4>2
    <3>3. OAuth!AcceptedOnce'
      <4>1. OAuth!AcceptedOnce
        BY DEF TokensInv
      <4>2. ASSUME NEW i \in DOMAIN redeemed', NEW j \in DOMAIN redeemed', i < j,
                   redeemed'[j].at < redeemed'[i].token.expires_at + TokenSkew
            PROVE  redeemed'[j].token # redeemed'[i].token
        <5>1. i \in DOMAIN redeemed /\ redeemed'[i] = redeemed[i]
          BY <3>1, <4>2 DEF TokensInv
        <5>2. CASE j \in DOMAIN redeemed
          BY <3>1, <4>1, <4>2, <5>1, <5>2 DEF OAuth!AcceptedOnce
        <5>3. CASE j = Len(redeemed) + 1
          BY <3>1, <3>2, <4>2, <5>1, <5>3
        <5> QED
          BY <3>1, <5>2, <5>3
      <4> QED
        BY <4>2 DEF OAuth!AcceptedOnce
    <3>4. ASSUME NEW i \in DOMAIN redeemed', token_now < OAuth!RetainedUntil(redeemed'[i].token)
          PROVE  [id |-> redeemed'[i].token.id,
                  until |-> OAuth!RetainedUntil(redeemed'[i].token)] \in spent'
      <4> HIDE DEF kept, token
      <4> QED
        BY <1>4, <2>2, <3>1, <3>4
    <3> QED
      BY <3>1, <3>3, <3>4
  <2> QED
    BY <1>2, <2>1, <2>2
<1>6. \A a \in admitted' : Argued(a)
  <2>1. \/ admitted' = admitted
        \/ /\ admitted' = admitted \cup {grant}
           /\ call.tool = OAuth!ListTools \/ OAuth!CallAuthorized(token, call.tool, call.resource)
    BY DEF OAuth!RequestClaim
  <2>2. call.tool = OAuth!ListTools \/ OAuth!CallAuthorized(token, call.tool, call.resource)
        => Argued(grant)
    BY DEF Argued, OAuth!CallAuthorized, OAuth!ArgumentAuthorized
  <2> HIDE DEF grant, call, token
  <2> QED
    BY <2>1, <2>2 DEF TokensInv
<1>7. OAuth!NoWiderDownstream'
  BY <1>1 DEF TokensInv, OAuth!NoWiderDownstream
<1> QED
  BY <1>1, <1>3, <1>5, <1>6, <1>7 DEF TokensInv, OAuth!Idle, OAuth!RetainedUntil

\* Every step of the OAuth guard preserves its invariant.
LEMMA TokensStep == TokensInv /\ [OAuth!Next]_tokens => TokensInv'
<1> SUFFICES ASSUME TokensInv, [OAuth!Next]_tokens PROVE TokensInv'
  OBVIOUS
<1> USE DEF OAuth!AcceptedOnce, OAuth!RetainedUntil
<1>1. ASSUME NEW t \in Callers, NEW token \in Tokens, NEW tool, NEW resource,
             OAuth!RequestBegin(t, token, tool, resource)
      PROVE  TokensInv'
  BY <1>1 DEF TokensInv, OAuth!RequestBegin, OAuth!NoWiderDownstream
<1>2. ASSUME NEW t \in Callers, OAuth!RequestClaim(t) PROVE TokensInv'
  BY <1>2, TokensClaim
<1>3. ASSUME NEW a \in admitted, NEW resource, NEW scopes, OAuth!Acquire(a, resource, scopes)
      PROVE  TokensInv'
  <2>1. /\ credentials' = credentials \cup {[of |-> a, resource |-> resource]}
        /\ UNCHANGED <<token_now, spent, requests, redeemed, admitted>>
    BY <1>3 DEF OAuth!Acquire
  <2>2. ToolPolicy[a.tool].takes_resource =>
            resource \in ToolPolicy[a.tool].allowed_resources \cap a.token.resources
    BY <1>3 DEF TokensInv, Argued, OAuth!Acquire, OAuth!Downstream
  <2>3. OAuth!NoWiderDownstream'
    BY <2>1, <2>2 DEF TokensInv, OAuth!NoWiderDownstream
  <2> QED
    BY <2>1, <2>3 DEF TokensInv
<1>4. CASE OAuth!Tick
  <2>1. /\ token_now' = token_now + 1 /\ token_now \in Nat
        /\ UNCHANGED <<spent, requests, redeemed, admitted, credentials>>
    BY <1>4 DEF OAuth!Tick, TokensInv
  <2>2. ASSUME NEW i \in DOMAIN redeemed, token_now' < OAuth!RetainedUntil(redeemed[i].token)
        PROVE  token_now < OAuth!RetainedUntil(redeemed[i].token)
    <3>1. OAuth!RetainedUntil(redeemed[i].token) \in Nat
      BY <2>2, TokensUntil, TokensLogged
    <3> QED
      BY <2>1, <2>2, <3>1
  <2> QED
    BY <2>1, <2>2 DEF TokensInv, OAuth!NoWiderDownstream
<1>5. CASE UNCHANGED tokens
  BY <1>5 DEF TokensInv, tokens, OAuth!NoWiderDownstream
<1> QED
  BY <1>1, <1>2, <1>3, <1>4, <1>5 DEF OAuth!Next

\* Tokens are accepted once, and no credential is wider than its call.
LEMMA TokensSafe == TokensInv => OAuth!TypeOK /\ OAuth!AcceptedOnce /\ OAuth!NoWiderDownstream
BY DEF TokensInv, OAuth!TypeOK, OAuth!Cardinality, Cardinality

-----------------------------------------------------------------------------
(* Checkpoints of a history *)

\* The skew, the limits and the lifetimes of the policy are natural numbers.
ASSUME HistoryAssumption ==
    /\ ChainSkew \in Nat /\ CheckpointAge \in Nat /\ CheckpointTtl \in Nat
    /\ CheckpointLifetimes \subseteq Nat

\* Each entry continues one that was signed before it.
StepsInv ==
    /\ steps \in Seq(History!EntryType)
    /\ \A e \in DOMAIN steps : LET p == steps[e].prior IN
        /\ p < e
        /\ p = 0 => steps[e].sequence = 0
        /\ p # 0 => /\ steps[e].sequence = steps[p].sequence + 1
                    /\ steps[e].workflow = steps[p].workflow /\ steps[e].goal = steps[p].goal
                    /\ steps[p].at <= steps[e].at

\* A checkpoint names the end of a chain, and what was resumed ends there.
HistoryInv ==
    /\ StepsInv
    /\ history_now \in Nat
    /\ \A e \in DOMAIN steps : steps[e].at <= history_now + ChainSkew
    /\ saved \in Seq(History!CheckpointType)
    /\ \A c \in DOMAIN saved :
        /\ saved[c].prior < c /\ saved[c].issued_at <= history_now
        /\ saved[c].head \in 0 .. Len(steps)
        /\ saved[c].head = 0 => saved[c].length = 0
        /\ saved[c].head # 0 =>
            /\ steps[saved[c].head].workflow = saved[c].workflow
            /\ steps[saved[c].head].at <= saved[c].issued_at + ChainSkew
            /\ saved[c].length = steps[saved[c].head].sequence + 1
    /\ anchor \in [ChainedWorkflows -> 0 .. Len(saved)]
    /\ withdrawn \subseteq DOMAIN saved
    /\ continued # History!NoResume =>
        LET chain == continued.chain IN
        /\ continued.checkpoint \in DOMAIN saved /\ continued.checkpoint = continued.anchor
        /\ chain \in Seq(DOMAIN steps) /\ History!Linked(chain)
        /\ saved[continued.checkpoint].head = IF chain = <<>> THEN 0 ELSE chain[Len(chain)]
        /\ \A i \in DOMAIN chain : steps[chain[i]].goal = continued.goal

\* The fields of an entry.
LEMMA StepsDomain ==
    ASSUME StepsInv
    PROVE  /\ Len(steps) \in Nat /\ DOMAIN steps = 1 .. Len(steps)
           /\ \A e \in 1 .. Len(steps) :
                /\ steps[e] \in History!EntryType
                /\ steps[e].prior \in 0 .. e - 1 /\ steps[e].sequence \in Nat /\ steps[e].at \in Nat
                /\ steps[e].workflow \in ChainedWorkflows /\ steps[e].goal \in Goals
<1>1. Len(steps) \in Nat /\ DOMAIN steps = 1 .. Len(steps)
  BY DEF StepsInv
<1>2. ASSUME NEW e \in 1 .. Len(steps)
      PROVE  steps[e] \in History!EntryType /\ steps[e].prior < e
  BY <1>1, Logged DEF StepsInv
<1> QED
  BY <1>1, <1>2 DEF History!EntryType

\* The entries up to one, unfolded: those up to the one before, and the entry itself.
LEMMA HistoryUnfolds ==
    ASSUME StepsInv
    PROVE  /\ History!History(0) = <<>>
           /\ \A e \in 1 .. Len(steps) :
                History!History(e) = Append(History!History(steps[e].prior), e)
<1> DEFINE N == Len(steps)
           Start == <<>>
           Body(f, k) == [i \in 0 .. k |-> IF i = 0 THEN Start ELSE Append(f[steps[i].prior], i)]
           to == CHOOSE f : f = Body(f, N)
<1>1. \A e : History!History(e) = to[e]
  BY DEF History!History
<1>2. N \in Nat /\ \A e \in 1 .. N : steps[e].prior \in 0 .. e - 1
  BY StepsDomain
<1> HIDE DEF Start, N, to
<1>3. \E f : f = Body(f, N)
  <2> DEFINE Upto(f, k) == f = Body(f, k)
             S == {k \in 0 .. N : \E f : Upto(f, k)}
  <2> HIDE DEF Body, S
  <2>1. SUFFICES ASSUME (0 .. N) \ S # {} PROVE FALSE
    <3>1. N \in 0 .. N
      BY <1>2
    <3>2. N \in S => \E f : f = Body(f, N)
      BY DEF S
    <3> QED
      BY <3>1, <3>2
  <2>2. PICK k \in (0 .. N) \ S : \A m \in 0 .. (k - 1) : m \in S
    BY <1>2, <2>1, LeastOutside
  <2>3. k # 0
    <3>1. Upto([i \in 0 .. 0 |-> Start], 0)
      BY DEF Body
    <3>2. 0 \in 0 .. N => 0 \in S
      BY <3>1 DEF S
    <3> QED
      BY <2>2, <3>2
  <2>4. k - 1 \in S /\ k \in 1 .. N
    <3>1. k - 1 \in 0 .. (k - 1)
      BY <1>2, <2>2, <2>3
    <3> QED
      BY <1>2, <2>2, <2>3, <3>1
  <2>5. PICK f : Upto(f, k - 1)
    BY <2>4 DEF S
  <2> DEFINE g == [i \in 0 .. k |-> IF i = k THEN Append(f[steps[k].prior], k) ELSE f[i]]
  <2>6. Upto(g, k)
    <3>1. \A i \in 0 .. k : g[i] = IF i = 0 THEN Start ELSE Append(g[steps[i].prior], i)
      <4>1. TAKE i \in 0 .. k
      <4>2. CASE i = k
        <5>1. steps[k].prior \in 0 .. k /\ steps[k].prior # k
          BY <1>2, <2>4
        <5>2. g[steps[i].prior] = f[steps[k].prior]
          BY <4>2, <5>1
        <5> QED
          BY <4>2, <5>2, <2>3
      <4>3. CASE i # k
        <5>1. i \in 0 .. (k - 1)
          BY <1>2, <2>2, <4>3
        <5>2. f[i] = IF i = 0 THEN Start ELSE Append(f[steps[i].prior], i)
          BY <2>5, <5>1 DEF Body
        <5>3. i # 0 => steps[i].prior \in 0 .. k /\ steps[i].prior # k
          BY <1>2, <2>4, <5>1
        <5>4. i # 0 => g[steps[i].prior] = f[steps[i].prior]
          BY <5>3
        <5> QED
          BY <4>3, <5>2, <5>4
      <4> QED
        BY <4>2, <4>3
    <3> QED
      BY <3>1 DEF Body
  <2>7. k \in S
    BY <2>2, <2>6 DEF S
  <2> QED
    BY <2>2, <2>7
<1> HIDE DEF Body
<1>4. to = Body(to, N)
  BY <1>3, Zenon DEF to
<1>5. to[0] = Start
  <2>1. 0 \in 0 .. N
    BY <1>2
  <2>2. Body(to, N)[0] = Start
    BY <2>1 DEF Body
  <2> QED
    BY <1>4, <2>2, Zenon
<1>6. \A e \in 1 .. N : to[e] = Append(to[steps[e].prior], e)
  <2>1. \A e \in 1 .. N : Body(to, N)[e] = Append(to[steps[e].prior], e)
    BY <1>2 DEF Body
  <2> QED
    BY <1>4, <2>1, Zenon
<1> QED
  BY <1>1, <1>5, <1>6 DEF Start, N

\* What the entries up to one are: a chain of one workflow and one goal that ends there.
ChainOf(e, h) ==
    /\ h \in Seq(1 .. e)
    /\ e = 0 => h = <<>>
    /\ e # 0 => Len(h) = steps[e].sequence + 1 /\ h[Len(h)] = e
    /\ History!Linked(h)
    /\ \A i \in DOMAIN h :
        /\ steps[h[i]].workflow = steps[e].workflow /\ steps[h[i]].goal = steps[e].goal
        /\ steps[h[i]].at <= steps[e].at
        /\ i > 1 => steps[h[i - 1]].at <= steps[h[i]].at
        /\ \A j \in DOMAIN h : i # j => h[i] # h[j]

\* An entry after a chain that ends with the one before.
LEMMA ChainExtended ==
    ASSUME StepsInv, NEW e \in 1 .. Len(steps), NEW h, ChainOf(steps[e].prior, h)
    PROVE  ChainOf(e, Append(h, e))
<1> DEFINE p == steps[e].prior
           g == Append(h, e)
           n == Len(h)
<1>1. /\ e \in Nat /\ Len(steps) \in Nat /\ p \in 0 .. e - 1 /\ p # e
      /\ steps[e].at \in Nat /\ steps[e].sequence \in Nat
      /\ p = 0 => steps[e].sequence = 0
      /\ p # 0 => /\ steps[e].sequence = steps[p].sequence + 1
                  /\ steps[e].workflow = steps[p].workflow /\ steps[e].goal = steps[p].goal
                  /\ steps[p].at <= steps[e].at /\ steps[p].at \in Nat
  BY StepsDomain DEF StepsInv
<1>2. /\ h \in Seq(1 .. p) /\ (p = 0 => h = <<>>)
      /\ p # 0 => n = steps[p].sequence + 1 /\ h[n] = p
      /\ History!Linked(h)
  BY DEF ChainOf
<1>3. \A i \in 1 .. n : /\ h[i] \in 1 .. p /\ h[i] \in 1 .. e /\ h[i] # e
                        /\ steps[h[i]].at \in Nat
  <2>1. n \in Nat /\ DOMAIN h = 1 .. n
    BY <1>2
  <2>2. \A i \in 1 .. n : h[i] \in 1 .. p
    BY <1>2, <2>1, Logged
  <2> QED
    BY <1>1, <2>2, StepsDomain
<1>4. h \in Seq(1 .. e) /\ n \in Nat /\ DOMAIN h = 1 .. n
  <2> DEFINE Earlier == 1 .. p
             Later == 1 .. e
  <2>1. Earlier \subseteq Later /\ h \in Seq(Earlier)
    BY <1>1, <1>2
  <2> HIDE DEF Earlier, Later
  <2>2. h \in Seq(Later)
    BY <2>1, Wider
  <2> QED
    BY <1>2, <2>2 DEF Later
<1>5. /\ g \in Seq(1 .. e) /\ Len(g) = n + 1 /\ g[n + 1] = e /\ DOMAIN g = 1 .. n + 1
      /\ \A i \in 1 .. n : g[i] = h[i]
  BY <1>1, <1>4
<1>6. n + 1 = steps[e].sequence + 1
  <2>1. CASE p = 0
    BY <1>1, <1>2, <2>1
  <2>2. CASE p # 0
    BY <1>1, <1>2, <2>2
  <2> QED
    BY <2>1, <2>2
<1>7. \A i \in 1 .. n + 1 : i \in 1 .. n \/ i = n + 1
  BY <1>4
<1>8. ASSUME NEW i \in 1 .. n
      PROVE  /\ steps[h[i]].workflow = steps[p].workflow /\ steps[h[i]].goal = steps[p].goal
             /\ steps[h[i]].at <= steps[p].at
             /\ i > 1 => steps[h[i - 1]].at <= steps[h[i]].at
             /\ \A j \in 1 .. n : i # j => h[i] # h[j]
             /\ steps[h[i]].sequence = i - 1
             /\ steps[h[i]].prior = IF i = 1 THEN 0 ELSE h[i - 1]
             /\ p # 0
  <2>1. p # 0
    BY <1>2, <1>4
  <2> QED
    BY <1>2, <1>4, <2>1 DEF ChainOf, History!Linked
<1> HIDE DEF g, n, p
<1>9. History!Linked(g)
  <2> SUFFICES ASSUME NEW i \in 1 .. n + 1
               PROVE  /\ steps[g[i]].sequence = i - 1
                      /\ steps[g[i]].prior = IF i = 1 THEN 0 ELSE g[i - 1]
    BY <1>5 DEF History!Linked
  <2>1. CASE i \in 1 .. n
    <3>1. i # 1 => i - 1 \in 1 .. n
      BY <1>4, <2>1
    <3> QED
      BY <1>5, <1>8, <2>1, <3>1
  <2>2. CASE i = n + 1
    <3>1. steps[g[i]].sequence = i - 1
      BY <1>1, <1>4, <1>5, <1>6, <2>2
    <3>2. CASE n = 0
      <4>1. p = 0
        BY <1>1, <1>6, <3>2, <1>2, <1>3, <1>4, StepsDomain DEF p
      <4> QED
        BY <1>5, <2>2, <3>1, <3>2, <4>1 DEF p
    <3>3. CASE n # 0
      <4>1. p # 0 /\ h[n] = p /\ n \in 1 .. n
        BY <1>2, <1>4, <1>8, <3>3
      <4> QED
        BY <1>4, <1>5, <2>2, <3>1, <3>3, <4>1 DEF p
    <3> QED
      BY <3>2, <3>3
  <2> QED
    BY <1>7, <2>1, <2>2
<1>10. ASSUME NEW i \in 1 .. n + 1
       PROVE  /\ steps[g[i]].workflow = steps[e].workflow /\ steps[g[i]].goal = steps[e].goal
              /\ steps[g[i]].at <= steps[e].at
              /\ i > 1 => steps[g[i - 1]].at <= steps[g[i]].at
              /\ \A j \in 1 .. n + 1 : i # j => g[i] # g[j]
  <2>1. CASE i \in 1 .. n
    <3>1. i > 1 => i - 1 \in 1 .. n
      BY <1>4, <2>1
    <3>2. ASSUME NEW j \in 1 .. n + 1, i # j PROVE g[i] # g[j]
      <4>1. CASE j \in 1 .. n
        BY <1>5, <1>8, <2>1, <3>2, <4>1
      <4>2. CASE j = n + 1
        BY <1>3, <1>5, <2>1, <4>2
      <4> QED
        BY <1>7, <4>1, <4>2
    <3>3. steps[h[i]].at <= steps[e].at
      BY <1>1, <1>3, <1>8, <2>1
    <3> QED
      BY <1>1, <1>5, <1>8, <2>1, <3>1, <3>2, <3>3
  <2>2. CASE i = n + 1
    <3>1. \A j \in 1 .. n + 1 : i # j => g[i] # g[j]
      BY <1>3, <1>5, <1>7, <2>2
    <3>2. i > 1 => steps[g[i - 1]].at <= steps[e].at
      <4>1. SUFFICES ASSUME i > 1 PROVE steps[g[n]].at <= steps[e].at
        BY <1>4, <2>2
      <4>2. n \in 1 .. n
        BY <1>4, <2>2, <4>1
      <4>3. g[n] = h[n] /\ steps[h[n]].at <= steps[p].at /\ p # 0 /\ steps[h[n]].at \in Nat
        BY <1>3, <1>5, <1>8, <4>2
      <4>4. steps[p].at <= steps[e].at /\ steps[p].at \in Nat /\ steps[e].at \in Nat
        BY <1>1, <4>3
      <4> QED
        BY <4>3, <4>4
    <3> QED
      BY <1>1, <1>5, <2>2, <3>1, <3>2
  <2> QED
    BY <1>7, <2>1, <2>2
<1>11. e # 0 => Len(g) = steps[e].sequence + 1 /\ g[Len(g)] = e
  BY <1>5, <1>6
<1>12. e # 0
  BY <1>1
<1>13. ChainOf(e, g)
  BY <1>5, <1>9, <1>10, <1>11, <1>12 DEF ChainOf
<1> QED
  BY <1>13 DEF g

\* The entries up to one, back to where each came from, are a chain.
LEMMA HistoryIsChain ==
    ASSUME StepsInv
    PROVE  \A e \in 0 .. Len(steps) : ChainOf(e, History!History(e))
<1> DEFINE N == Len(steps)
           S == {e \in 0 .. N : ChainOf(e, History!History(e))}
<1>1. N \in Nat /\ \A e \in 1 .. N : steps[e].prior \in 0 .. e - 1
  BY StepsDomain
<1>2. SUFFICES ASSUME (0 .. N) \ S # {} PROVE FALSE
  BY <1>2
<1> HIDE DEF N, S
<1>3. PICK k \in (0 .. N) \ S : \A m \in 0 .. (k - 1) : m \in S
  BY <1>1, <1>2, LeastOutside
<1>4. k # 0
  <2>1. ChainOf(0, <<>>)
    BY DEF ChainOf, History!Linked
  <2>2. History!History(0) = <<>>
    BY HistoryUnfolds
  <2>3. ChainOf(0, History!History(0))
    BY <2>1, <2>2
  <2> QED
    BY <1>3, <2>3 DEF S
<1>5. k \in 1 .. N /\ steps[k].prior \in 0 .. k - 1
  BY <1>1, <1>3, <1>4
<1>6. ChainOf(steps[k].prior, History!History(steps[k].prior))
  BY <1>3, <1>5 DEF S
<1>7. ChainOf(k, Append(History!History(steps[k].prior), k))
  BY <1>5, <1>6, ChainExtended DEF N
<1>8. History!History(k) = Append(History!History(steps[k].prior), k)
  BY <1>5, HistoryUnfolds DEF N
<1> QED
  BY <1>3, <1>7, <1>8 DEF S

\* A chain whose entries follow each other is the history of its last entry.
LEMMA LinkedIsHistory ==
    ASSUME StepsInv, NEW chain \in Seq(DOMAIN steps), History!Linked(chain)
    PROVE  chain = History!History(IF chain = <<>> THEN 0 ELSE chain[Len(chain)])
<1> DEFINE n == Len(chain)
           End(k) == IF k = 0 THEN 0 ELSE chain[k]
           S == {k \in 0 .. n : SubSeq(chain, 1, k) = History!History(End(k))}
<1>1. n \in Nat /\ DOMAIN chain = 1 .. n
  OBVIOUS
<1>2. \A k \in 1 .. n : /\ chain[k] \in 1 .. Len(steps)
                        /\ steps[chain[k]].prior = End(k - 1)
  <2>1. \A k \in 1 .. n : chain[k] \in 1 .. Len(steps)
    BY <1>1, Logged, StepsDomain
  <2>2. \A k \in 1 .. n : steps[chain[k]].prior = IF k = 1 THEN 0 ELSE chain[k - 1]
    BY <1>1 DEF History!Linked
  <2> QED
    BY <1>1, <2>1, <2>2
<1>3. n \in S
  <2>1. SUFFICES ASSUME (0 .. n) \ S # {} PROVE FALSE
    <3> HIDE DEF S
    <3> QED
      BY <1>1, <2>1
  <2>2. PICK k \in (0 .. n) \ S : \A m \in 0 .. (k - 1) : m \in S
    <3> HIDE DEF S
    <3> QED
      BY <1>1, <2>1, LeastOutside
  <2>3. k # 0
    <3>1. SubSeq(chain, 1, 0) = <<>>
      BY <1>1
    <3>2. History!History(0) = <<>>
      BY HistoryUnfolds
    <3>3. 0 \in 0 .. n => 0 \in S
      BY <3>1, <3>2
    <3> QED
      BY <2>2, <3>3
  <2>4. k \in 1 .. n /\ k - 1 \in S
    <3> HIDE DEF S
    <3> QED
      BY <1>1, <2>2, <2>3
  <2>5. SubSeq(chain, 1, k - 1) = History!History(End(k - 1))
    BY <2>4
  <2>6. SubSeq(chain, 1, k) = Append(SubSeq(chain, 1, k - 1), chain[k])
    BY <1>1, <2>4
  <2>7. History!History(chain[k]) = Append(History!History(steps[chain[k]].prior), chain[k])
    BY <1>2, <2>4, HistoryUnfolds
  <2>8. SubSeq(chain, 1, k) = History!History(End(k))
    BY <1>2, <2>3, <2>4, <2>5, <2>6, <2>7
  <2> QED
    BY <2>2, <2>8
<1>4. SubSeq(chain, 1, n) = chain
  BY <1>1
<1>5. chain = <<>> <=> n = 0
  BY <1>1
<1> QED
  BY <1>3, <1>4, <1>5

\* Initially nothing was signed.
LEMMA HistoryInit == History!Init => HistoryInv
BY DEF History!Init, HistoryInv, StepsInv

\* The fields of what was signed.
LEMMA SavedDomain ==
    ASSUME HistoryInv
    PROVE  /\ Len(saved) \in Nat /\ DOMAIN saved = 1 .. Len(saved)
           /\ \A c \in 1 .. Len(saved) : saved[c] \in History!CheckpointType
<1>1. Len(saved) \in Nat /\ DOMAIN saved = 1 .. Len(saved)
  BY DEF HistoryInv
<1> QED
  BY <1>1, Logged DEF HistoryInv

\* sign_entry continues an entry: what was signed before is as it was.
LEMMA EntrySigned ==
    ASSUME HistoryInv, NEW w \in ChainedWorkflows, NEW goal \in Goals,
           NEW prior \in 0 .. Len(steps), NEW at \in history_now .. history_now + ChainSkew,
           History!SignEntry(w, goal, prior, at)
    PROVE  HistoryInv'
<1> DEFINE n == Len(steps) + 1
           entry == [workflow |-> w, goal |-> goal,
                     sequence |-> IF prior = 0 THEN 0 ELSE steps[prior].sequence + 1,
                     prior |-> prior, at |-> at]
<1>1. /\ steps' = Append(steps, entry)
      /\ prior # 0 => /\ steps[prior].workflow = w /\ steps[prior].goal = goal
                      /\ steps[prior].at <= at
      /\ UNCHANGED <<history_now, saved, anchor, withdrawn, continued>>
  BY DEF History!SignEntry
<1>2. /\ steps \in Seq(History!EntryType) /\ Len(steps) \in Nat /\ DOMAIN steps = 1 .. n - 1
      /\ history_now \in Nat /\ ChainSkew \in Nat /\ n \in Nat /\ at \in Nat
  BY StepsDomain, HistoryAssumption DEF HistoryInv, StepsInv
<1>3. entry \in History!EntryType
  <2>1. prior # 0 => prior \in 1 .. Len(steps)
    BY <1>2
  <2>2. prior # 0 => steps[prior].sequence \in Nat
    BY <2>1, StepsDomain DEF HistoryInv
  <2> QED
    BY <1>2, <2>2 DEF History!EntryType
<1> HIDE DEF entry
<1>4. /\ steps' \in Seq(History!EntryType) /\ Len(steps') = n /\ DOMAIN steps' = 1 .. n
      /\ steps'[n] = entry /\ \A e \in 1 .. n - 1 : steps'[e] = steps[e]
  BY <1>1, <1>2, <1>3
<1>5. \A e \in 1 .. n : e \in 1 .. n - 1 \/ e = n
  BY <1>2
<1>6. \A e \in 1 .. n - 1 : steps[e].prior \in 0 .. e - 1 /\ (steps[e].prior # 0 => steps[e].prior \in 1 .. n - 1)
  BY <1>2, StepsDomain DEF HistoryInv
<1>7. prior \in 0 .. n - 1 /\ (prior # 0 => prior \in 1 .. n - 1)
  BY <1>2
<1> HIDE DEF n
<1>8. StepsInv'
  <2> SUFFICES ASSUME NEW e \in 1 .. n
               PROVE  /\ steps'[e].prior < e
                      /\ steps'[e].prior = 0 => steps'[e].sequence = 0
                      /\ steps'[e].prior # 0 =>
                           /\ steps'[e].sequence = steps'[steps'[e].prior].sequence + 1
                           /\ steps'[e].workflow = steps'[steps'[e].prior].workflow
                           /\ steps'[e].goal = steps'[steps'[e].prior].goal
                           /\ steps'[steps'[e].prior].at <= steps'[e].at
    BY <1>4 DEF StepsInv
  <2>1. CASE e \in 1 .. n - 1
    <3>1. /\ steps[e].prior < e
          /\ steps[e].prior = 0 => steps[e].sequence = 0
          /\ steps[e].prior # 0 =>
                /\ steps[e].sequence = steps[steps[e].prior].sequence + 1
                /\ steps[e].workflow = steps[steps[e].prior].workflow
                /\ steps[e].goal = steps[steps[e].prior].goal
                /\ steps[steps[e].prior].at <= steps[e].at
      BY <1>2, <2>1 DEF HistoryInv, StepsInv
    <3>2. steps'[e] = steps[e] /\ (steps[e].prior # 0 => steps'[steps[e].prior] = steps[steps[e].prior])
      BY <1>4, <1>6, <2>1
    <3> QED
      BY <3>1, <3>2
  <2>2. CASE e = n
    BY <1>1, <1>2, <1>4, <1>7, <2>2 DEF entry
  <2> QED
    BY <1>5, <2>1, <2>2
<1>9. \A e \in 1 .. n : steps'[e].at <= history_now' + ChainSkew
  <2>1. \A e \in 1 .. n - 1 : steps[e].at <= history_now + ChainSkew
    BY <1>2 DEF HistoryInv
  <2>2. entry.at <= history_now + ChainSkew
    BY <1>2 DEF entry
  <2> QED
    BY <1>1, <1>4, <1>5, <2>1, <2>2
<1>10. ASSUME NEW c \in DOMAIN saved
       PROVE  /\ saved[c].prior < c /\ saved[c].issued_at <= history_now
              /\ saved[c].head \in 0 .. n
              /\ saved[c].head = 0 => saved[c].length = 0
              /\ saved[c].head # 0 =>
                    /\ steps'[saved[c].head].workflow = saved[c].workflow
                    /\ steps'[saved[c].head].at <= saved[c].issued_at + ChainSkew
                    /\ saved[c].length = steps'[saved[c].head].sequence + 1
  <2>1. /\ saved[c].prior < c /\ saved[c].issued_at <= history_now
        /\ saved[c].head \in 0 .. n - 1
        /\ saved[c].head = 0 => saved[c].length = 0
        /\ saved[c].head # 0 =>
              /\ steps[saved[c].head].workflow = saved[c].workflow
              /\ steps[saved[c].head].at <= saved[c].issued_at + ChainSkew
              /\ saved[c].length = steps[saved[c].head].sequence + 1
    BY DEF HistoryInv, n
  <2>2. saved[c].head \in 0 .. n /\ (saved[c].head # 0 => saved[c].head \in 1 .. n - 1)
    BY <1>2, <2>1
  <2> QED
    BY <1>4, <2>1, <2>2
<1>11. ASSUME continued # History!NoResume
       PROVE  /\ continued.chain \in Seq(1 .. n) /\ History!Linked(continued.chain)'
              /\ \A i \in DOMAIN continued.chain : steps'[continued.chain[i]].goal = continued.goal
  <2> DEFINE chain == continued.chain
             Earlier == 1 .. n - 1
             Later == 1 .. n
  <2>1. /\ chain \in Seq(Earlier) /\ History!Linked(chain)
        /\ \A i \in DOMAIN chain : steps[chain[i]].goal = continued.goal
    BY <1>2, <1>11 DEF HistoryInv
  <2>2. Earlier \subseteq Later
    BY <1>2
  <2> HIDE DEF chain, Earlier, Later
  <2>3. chain \in Seq(Later) /\ \A i \in DOMAIN chain : chain[i] \in Earlier
    BY <2>1, <2>2, Wider, Logged
  <2>4. \A i \in DOMAIN chain : steps'[chain[i]] = steps[chain[i]]
    BY <1>4, <2>3 DEF Earlier
  <2>5. chain' = chain
    BY <1>1 DEF chain
  <2>6. History!Linked(chain)'
    BY <2>1, <2>4, <2>5 DEF History!Linked
  <2> QED
    BY <1>1, <2>1, <2>3, <2>4, <2>6 DEF chain, Later
<1> QED
  BY <1>1, <1>2, <1>4, <1>8, <1>9, <1>10, <1>11 DEF HistoryInv

\* sign_checkpoint names the end of a history, and its length.
LEMMA CheckpointSigned ==
    ASSUME HistoryInv, NEW w \in ChainedWorkflows, NEW goal \in Goals,
           NEW head \in 0 .. Len(steps), NEW prior \in 0 .. Len(saved),
           NEW lifetime \in CheckpointLifetimes,
           NEW pending \in {{}} \cup {{history_now + l} : l \in CheckpointLifetimes},
           NEW limit \in Limits,
           head # 0 => steps[head].workflow = w,
           History!SignCheckpoint(w, goal, head, prior, lifetime, pending, limit)
    PROVE  HistoryInv'
<1> DEFINE n == Len(saved) + 1
           checkpoint_ ==
             [workflow |-> w, goal |-> goal,
              number |-> IF prior = 0 THEN 0 ELSE saved[prior].number + 1,
              prior |-> prior, length |-> Len(History!History(head)), head |-> head,
              issued_at |-> history_now, expires_at |-> history_now + lifetime, pending |-> pending,
              limit |-> limit]
<1>1. /\ saved' = Append(saved, checkpoint_)
      /\ UNCHANGED <<history_now, steps, anchor, withdrawn, continued>>
  BY DEF History!SignCheckpoint
<1>2. /\ saved \in Seq(History!CheckpointType) /\ Len(saved) \in Nat /\ DOMAIN saved = 1 .. n - 1
      /\ history_now \in Nat /\ lifetime \in Nat /\ n \in Nat /\ Len(steps) \in Nat
      /\ \A c \in 1 .. n - 1 : saved[c] \in History!CheckpointType
  BY SavedDomain, StepsDomain, HistoryAssumption DEF HistoryInv
<1>3. /\ head = 0 => Len(History!History(head)) = 0
      /\ head # 0 => Len(History!History(head)) = steps[head].sequence + 1
      /\ Len(History!History(head)) \in Nat
  <2>1. ChainOf(head, History!History(head))
    BY HistoryIsChain DEF HistoryInv
  <2> QED
    BY <2>1 DEF ChainOf
<1>4. checkpoint_ \in History!CheckpointType
  <2>1. prior # 0 => prior \in 1 .. n - 1
    BY <1>2
  <2>2. prior # 0 => saved[prior].number \in Nat
    BY <1>2, <2>1 DEF History!CheckpointType
  <2>3. pending \in SUBSET Nat
    BY <1>2, HistoryAssumption
  <2>4. /\ checkpoint_.number \in Nat /\ checkpoint_.prior \in Nat /\ checkpoint_.head \in Nat
        /\ checkpoint_.length \in Nat /\ checkpoint_.expires_at \in Nat
    BY <1>2, <1>3, <2>2
  <2> DEFINE number == IF prior = 0 THEN 0 ELSE saved[prior].number + 1
             length == Len(History!History(head))
             end == history_now + lifetime
  <2>5. number \in Nat /\ length \in Nat /\ end \in Nat /\ prior \in Nat /\ head \in Nat
    BY <2>4
  <2> HIDE DEF number, length, end
  <2>6. [workflow |-> w, goal |-> goal, number |-> number, prior |-> prior, length |-> length,
         head |-> head, issued_at |-> history_now, expires_at |-> end, pending |-> pending,
         limit |-> limit] \in History!CheckpointType
    BY <1>2, <2>3, <2>5 DEF History!CheckpointType
  <2> QED
    BY <2>6 DEF number, length, end
<1>5. head # 0 => steps[head].at <= history_now + ChainSkew
  <2>1. head # 0 => head \in DOMAIN steps
    BY <1>2, StepsDomain DEF HistoryInv
  <2> QED
    BY <2>1 DEF HistoryInv
<1>6. /\ checkpoint_.prior < n /\ checkpoint_.issued_at <= history_now
      /\ checkpoint_.head = head /\ head \in 0 .. Len(steps)
      /\ checkpoint_.workflow = w /\ checkpoint_.issued_at = history_now
      /\ checkpoint_.length = Len(History!History(head))
  BY <1>2
<1> HIDE DEF checkpoint_
<1>7. /\ saved' \in Seq(History!CheckpointType) /\ Len(saved') = n /\ DOMAIN saved' = 1 .. n
      /\ saved'[n] = checkpoint_ /\ \A c \in 1 .. n - 1 : saved'[c] = saved[c]
  BY <1>1, <1>2, <1>4
<1>8. \A c \in 1 .. n : c \in 1 .. n - 1 \/ c = n
  BY <1>2
<1>9. anchor \in [ChainedWorkflows -> 0 .. n] /\ withdrawn \subseteq 1 .. n
  <2>1. anchor \in [ChainedWorkflows -> 0 .. n - 1] /\ withdrawn \subseteq 1 .. n - 1
    BY <1>2 DEF HistoryInv
  <2>2. 0 .. n - 1 \subseteq 0 .. n /\ 1 .. n - 1 \subseteq 1 .. n
    BY <1>2
  <2> HIDE DEF n
  <2> QED
    BY <2>1, <2>2
<1> HIDE DEF n
<1>10. ASSUME NEW c \in 1 .. n
       PROVE  /\ saved'[c].prior < c /\ saved'[c].issued_at <= history_now
              /\ saved'[c].head \in 0 .. Len(steps)
              /\ saved'[c].head = 0 => saved'[c].length = 0
              /\ saved'[c].head # 0 =>
                    /\ steps[saved'[c].head].workflow = saved'[c].workflow
                    /\ steps[saved'[c].head].at <= saved'[c].issued_at + ChainSkew
                    /\ saved'[c].length = steps[saved'[c].head].sequence + 1
  <2>1. CASE c \in 1 .. n - 1
    BY <1>2, <1>7, <2>1 DEF HistoryInv
  <2>2. CASE c = n
    BY <1>3, <1>5, <1>6, <1>7, <2>2
  <2> QED
    BY <1>8, <2>1, <2>2
<1>11. ASSUME continued # History!NoResume
       PROVE  /\ continued.checkpoint \in 1 .. n /\ continued.checkpoint = continued.anchor
              /\ continued.chain \in Seq(DOMAIN steps) /\ History!Linked(continued.chain)
              /\ saved'[continued.checkpoint].head =
                    IF continued.chain = <<>> THEN 0 ELSE continued.chain[Len(continued.chain)]
              /\ \A i \in DOMAIN continued.chain : steps[continued.chain[i]].goal = continued.goal
  <2>1. /\ continued.checkpoint \in 1 .. n - 1 /\ continued.checkpoint = continued.anchor
        /\ continued.chain \in Seq(DOMAIN steps) /\ History!Linked(continued.chain)
        /\ saved[continued.checkpoint].head =
              IF continued.chain = <<>> THEN 0 ELSE continued.chain[Len(continued.chain)]
        /\ \A i \in DOMAIN continued.chain : steps[continued.chain[i]].goal = continued.goal
    BY <1>2, <1>11 DEF HistoryInv
  <2>2. continued.checkpoint \in 1 .. n /\ saved'[continued.checkpoint] = saved[continued.checkpoint]
    BY <1>2, <1>7, <2>1
  <2> QED
    BY <2>1, <2>2
<1>12. StepsInv' /\ \A chain : History!Linked(chain)' = History!Linked(chain)
  BY <1>1 DEF HistoryInv, StepsInv, History!Linked
<1>13. continued # History!NoResume => History!Linked(continued.chain)'
  BY <1>1, <1>11 DEF History!Linked
<1>14. \A e \in DOMAIN steps : steps[e].at <= history_now + ChainSkew
  BY DEF HistoryInv
<1> QED
  BY <1>1, <1>2, <1>7, <1>9, <1>10, <1>11, <1>12, <1>13, <1>14 DEF HistoryInv

\* verify_resume takes a chain that is linked and ends where its checkpoint says.
LEMMA HistoryResumed ==
    ASSUME HistoryInv, NEW c \in DOMAIN saved, NEW chain \in History!Chains, NEW w \in ChainedWorkflows,
           NEW goal \in Goals, NEW limit \in Limits, History!Resume(c, chain, w, goal, limit)
    PROVE  HistoryInv'
<1>1. /\ History!Verified(c, chain, w, goal, anchor[w], limit)
      /\ continued' = [checkpoint |-> c, chain |-> chain, workflow |-> w, goal |-> goal,
                       anchor |-> anchor[w], at |-> history_now]
      /\ UNCHANGED <<history_now, steps, saved, anchor, withdrawn>>
  BY DEF History!Resume
<1>2. /\ saved[c].goal = goal /\ c = anchor[w]
      /\ History!Linked(chain)
      /\ \A i \in DOMAIN chain : steps[chain[i]].goal = saved[c].goal
      /\ saved[c].head = IF chain = <<>> THEN 0 ELSE chain[Len(chain)]
  BY <1>1 DEF History!Verified, History!Expected, History!ChainValid
<1>3. chain \in Seq(DOMAIN steps)
  <2> DEFINE D == DOMAIN steps
  <2>1. PICK n \in 0 .. Len(steps) : chain \in [1 .. n -> D]
    BY DEF History!Chains
  <2> HIDE DEF D
  <2>2. n \in Nat
    BY StepsDomain DEF HistoryInv
  <2>3. chain \in Seq(D)
    BY <2>1, <2>2
  <2> QED
    BY <2>3 DEF D
<1>4. StepsInv' /\ History!Linked(chain)'
  BY <1>1, <1>2 DEF HistoryInv, StepsInv, History!Linked
<1>5. /\ continued'.checkpoint = c /\ continued'.chain = chain /\ continued'.goal = goal
      /\ continued'.anchor = anchor[w]
  BY <1>1
<1>6. /\ history_now' \in Nat
      /\ \A e \in DOMAIN steps' : steps'[e].at <= history_now' + ChainSkew
      /\ saved' \in Seq(History!CheckpointType)
      /\ anchor' \in [ChainedWorkflows -> 0 .. Len(saved')]
      /\ withdrawn' \subseteq DOMAIN saved'
  BY <1>1 DEF HistoryInv
<1>7. \A d \in DOMAIN saved' :
        /\ saved'[d].prior < d /\ saved'[d].issued_at <= history_now'
        /\ saved'[d].head \in 0 .. Len(steps')
        /\ saved'[d].head = 0 => saved'[d].length = 0
        /\ saved'[d].head # 0 =>
            /\ steps'[saved'[d].head].workflow = saved'[d].workflow
            /\ steps'[saved'[d].head].at <= saved'[d].issued_at + ChainSkew
            /\ saved'[d].length = steps'[saved'[d].head].sequence + 1
  BY <1>1 DEF HistoryInv
<1>8. /\ continued'.checkpoint \in DOMAIN saved' /\ continued'.checkpoint = continued'.anchor
      /\ continued'.chain \in Seq(DOMAIN steps') /\ History!Linked(continued'.chain)
      /\ saved'[continued'.checkpoint].head =
            IF continued'.chain = <<>> THEN 0 ELSE continued'.chain[Len(continued'.chain)]
      /\ \A i \in DOMAIN continued'.chain : steps'[continued'.chain[i]].goal = continued'.goal
  BY <1>1, <1>2, <1>3, <1>5
<1>9. History!Linked(continued.chain)'
  BY <1>1, <1>8 DEF History!Linked
<1> QED
  BY <1>4, <1>6, <1>7, <1>8, <1>9 DEF HistoryInv

\* Every step of the signer and the verifier preserves their invariant.
LEMMA HistoryStep == HistoryInv /\ [History!Next]_checkpoint => HistoryInv'
<1> SUFFICES ASSUME HistoryInv, [History!Next]_checkpoint PROVE HistoryInv'
  OBVIOUS
<1>1. ASSUME NEW w \in ChainedWorkflows, NEW goal \in Goals, NEW prior \in 0 .. Len(steps),
             NEW at \in history_now .. history_now + ChainSkew, History!SignEntry(w, goal, prior, at)
      PROVE  HistoryInv'
  BY <1>1, EntrySigned
<1>2. ASSUME NEW w \in ChainedWorkflows, NEW goal \in Goals, NEW head \in 0 .. Len(steps),
             NEW prior \in 0 .. Len(saved), NEW lifetime \in CheckpointLifetimes,
             NEW pending \in {{}} \cup {{history_now + l} : l \in CheckpointLifetimes},
             NEW limit \in Limits, head # 0 => steps[head].workflow = w,
             History!SignCheckpoint(w, goal, head, prior, lifetime, pending, limit)
      PROVE  HistoryInv'
  BY <1>2, CheckpointSigned
<1>3. ASSUME NEW w \in ChainedWorkflows, NEW goal \in Goals, NEW c \in DOMAIN saved,
             NEW chain \in History!Chains, NEW limit \in Limits, History!Resume(c, chain, w, goal, limit)
      PROVE  HistoryInv'
  BY <1>3, HistoryResumed
<1>4. UNCHANGED steps => \A chain : History!Linked(chain)' = History!Linked(chain)
  BY DEF History!Linked
<1>5. ASSUME NEW c \in DOMAIN saved, History!MoveAnchor(c) PROVE HistoryInv'
  <2>1. /\ anchor' = [anchor EXCEPT ![saved[c].workflow] = c]
        /\ UNCHANGED <<history_now, steps, saved, withdrawn, continued>>
    BY <1>5 DEF History!MoveAnchor
  <2>2. anchor' \in [ChainedWorkflows -> 0 .. Len(saved)]
    <3>1. anchor \in [ChainedWorkflows -> 0 .. Len(saved)] /\ c \in 0 .. Len(saved)
      BY SavedDomain DEF HistoryInv
    <3> QED
      BY <2>1, <3>1
  <2> QED
    BY <2>1, <2>2 DEF HistoryInv, StepsInv, History!Linked
<1>6. ASSUME NEW c \in DOMAIN saved, History!Revoke(c) PROVE HistoryInv'
  <2>1. /\ withdrawn' = withdrawn \cup {c}
        /\ UNCHANGED <<history_now, steps, saved, anchor, continued>>
    BY <1>6 DEF History!Revoke
  <2> QED
    BY <2>1 DEF HistoryInv, StepsInv, History!Linked
<1>7. CASE History!Tick
  <2>1. /\ history_now \in Nat /\ history_now' = history_now + 1
        /\ UNCHANGED <<steps, saved, anchor, withdrawn, continued>>
    BY <1>7 DEF History!Tick, HistoryInv
  <2>2. \A e \in DOMAIN steps : steps[e].at <= history_now + 1 + ChainSkew
    <3>1. \A e \in DOMAIN steps : steps[e].at <= history_now + ChainSkew /\ steps[e].at \in Nat
      BY StepsDomain DEF HistoryInv
    <3> QED
      BY <2>1, <3>1, HistoryAssumption
  <2>3. \A c \in DOMAIN saved : saved[c].issued_at <= history_now + 1
    <3>1. \A c \in DOMAIN saved : saved[c].issued_at <= history_now /\ saved[c].issued_at \in Nat
      BY SavedDomain DEF HistoryInv, History!CheckpointType
    <3> QED
      BY <2>1, <3>1
  <2> QED
    BY <2>1, <2>2, <2>3 DEF HistoryInv, StepsInv, History!Linked
<1>8. CASE UNCHANGED checkpoint
  BY <1>8 DEF HistoryInv, StepsInv, History!Linked, checkpoint
<1> QED
  BY <1>1, <1>2, <1>3, <1>5, <1>6, <1>7, <1>8 DEF History!Next

\* Entries and checkpoints are what they are signed as.
LEMMA HistoryTypes == HistoryInv => History!TypeOK
<1> SUFFICES ASSUME HistoryInv PROVE History!TypeOK
  OBVIOUS
<1>1. \A e \in DOMAIN steps : steps[e] \in History!EntryType /\ steps[e].prior < e
  BY StepsDomain DEF HistoryInv
<1>2. \A c \in DOMAIN saved : saved[c] \in History!CheckpointType /\ saved[c].prior < c
  BY SavedDomain DEF HistoryInv
<1> QED
  BY <1>1, <1>2 DEF HistoryInv, History!TypeOK

\* What is resumed is a history: the chain that was signed, whole and in order.
LEMMA HistoryResumes == HistoryInv => History!ResumedIsHistory
<1> SUFFICES ASSUME HistoryInv, continued # History!NoResume
             PROVE  /\ continued.checkpoint = continued.anchor
                    /\ continued.chain = History!History(saved[continued.checkpoint].head)
                    /\ \A i \in DOMAIN continued.chain :
                            steps[continued.chain[i]].goal = continued.goal
  BY DEF History!ResumedIsHistory
<1>1. /\ continued.checkpoint = continued.anchor
      /\ continued.chain \in Seq(DOMAIN steps) /\ History!Linked(continued.chain) /\ StepsInv
      /\ saved[continued.checkpoint].head =
            IF continued.chain = <<>> THEN 0 ELSE continued.chain[Len(continued.chain)]
      /\ \A i \in DOMAIN continued.chain : steps[continued.chain[i]].goal = continued.goal
  BY DEF HistoryInv
<1>2. continued.chain =
        History!History(IF continued.chain = <<>> THEN 0 ELSE continued.chain[Len(continued.chain)])
  BY <1>1, LinkedIsHistory
<1> QED
  BY <1>1, <1>2

\* A history that was signed within the policy passes every check of the verifier.
LEMMA HistoryAccepted == HistoryInv => History!SignedIsResumable
<1> SUFFICES ASSUME HistoryInv, NEW c \in DOMAIN saved,
                    history_now < saved[c].expires_at,
                    saved[c].expires_at - saved[c].issued_at <= CheckpointTtl,
                    history_now - saved[c].issued_at <= CheckpointAge,
                    \A i \in DOMAIN History!History(saved[c].head) :
                        /\ steps[History!History(saved[c].head)[i]].goal = saved[c].goal
                        /\ History!KeyActive(steps[History!History(saved[c].head)[i]].at),
                    History!KeyActive(saved[c].issued_at),
                    Len(History!History(saved[c].head)) <= MaxChain,
                    History!Cardinality(saved[c].pending) <= MaxPending,
                    \A end \in saved[c].pending : history_now < end,
                    c \notin withdrawn
             PROVE  History!Verified(c, History!History(saved[c].head), saved[c].workflow,
                                     saved[c].goal, c, saved[c].limit)
  BY DEF History!SignedIsResumable
<1> DEFINE head == saved[c].head
           chain == History!History(head)
<1>1. /\ history_now \in Nat /\ saved[c].issued_at \in Nat /\ saved[c].issued_at <= history_now
      /\ ChainSkew \in Nat /\ CheckpointAge \in Nat /\ Len(steps) \in Nat
  BY SavedDomain, StepsDomain, HistoryAssumption DEF HistoryInv, History!CheckpointType
<1>2. /\ head \in 0 .. Len(steps) /\ head \in Nat
      /\ head = 0 => saved[c].length = 0
      /\ head # 0 => /\ steps[head].workflow = saved[c].workflow
                     /\ steps[head].at <= saved[c].issued_at + ChainSkew
                     /\ saved[c].length = steps[head].sequence + 1
                     /\ head \in 1 .. Len(steps) /\ steps[head].at \in Nat
                     /\ steps[head].at <= history_now + ChainSkew
  BY <1>1, StepsDomain DEF HistoryInv
<1>3. ChainOf(head, chain)
  BY <1>2, HistoryIsChain DEF HistoryInv
<1> HIDE DEF head, chain
<1>4. /\ Len(chain) \in Nat /\ DOMAIN chain = 1 .. Len(chain)
      /\ head = 0 => chain = <<>>
      /\ head # 0 => Len(chain) = steps[head].sequence + 1 /\ chain[Len(chain)] = head
      /\ History!Linked(chain)
      /\ \A i \in DOMAIN chain :
          /\ chain[i] \in 1 .. head
          /\ steps[chain[i]].workflow = steps[head].workflow
          /\ steps[chain[i]].at <= steps[head].at
          /\ i > 1 => steps[chain[i - 1]].at <= steps[chain[i]].at
          /\ \A j \in DOMAIN chain : i # j => chain[i] # chain[j]
  <2>1. chain \in Seq(1 .. head)
    BY <1>3 DEF ChainOf
  <2> DEFINE D == 1 .. head
  <2> HIDE DEF D
  <2>3. chain \in Seq(D)
    BY <2>1 DEF D
  <2>4. Len(chain) \in Nat /\ DOMAIN chain = 1 .. Len(chain)
    BY <2>3
  <2>5. \A i \in DOMAIN chain : chain[i] \in D
    BY <2>3, Logged
  <2>2. Len(chain) \in Nat /\ DOMAIN chain = 1 .. Len(chain) /\ \A i \in DOMAIN chain : chain[i] \in 1 .. head
    BY <2>4, <2>5 DEF D
  <2> QED
    BY <1>3, <2>2 DEF ChainOf
<1>5. head # 0 => chain # <<>> /\ Len(chain) = saved[c].length
  <2>1. head # 0 => steps[head].sequence \in Nat
    BY <1>2, StepsDomain DEF HistoryInv
  <2> QED
    BY <1>2, <1>4, <2>1
<1>6. /\ Len(chain) = saved[c].length
      /\ head = IF chain = <<>> THEN 0 ELSE chain[Len(chain)]
  BY <1>2, <1>4, <1>5
<1>7. ASSUME NEW i \in DOMAIN chain
      PROVE  /\ steps[chain[i]].workflow = saved[c].workflow
             /\ steps[chain[i]].at <= saved[c].issued_at + ChainSkew
             /\ steps[chain[i]].at <= history_now + ChainSkew
  <2>1. head # 0 /\ chain[i] \in 1 .. Len(steps)
    BY <1>1, <1>2, <1>4
  <2>2. steps[chain[i]].at \in Nat /\ steps[chain[i]].at <= steps[head].at
    BY <1>4, <2>1, StepsDomain DEF HistoryInv
  <2>3. /\ steps[head].at \in Nat /\ steps[head].workflow = saved[c].workflow
        /\ steps[head].at <= saved[c].issued_at + ChainSkew
        /\ steps[head].at <= history_now + ChainSkew
    BY <1>2, <2>1
  <2>4. steps[chain[i]].workflow = steps[head].workflow
    BY <1>4
  <2>5. steps[chain[i]].at <= saved[c].issued_at + ChainSkew
    BY <1>1, <2>2, <2>3
  <2>6. steps[chain[i]].at <= history_now + ChainSkew
    BY <1>1, <2>2, <2>3
  <2> QED
    BY <2>3, <2>4, <2>5, <2>6
<1>8. History!Timed(chain, c)
  BY <1>4, <1>7 DEF History!Timed
<1>9. History!ChainValid(chain, c)
  BY <1>4, <1>6, <1>7, <1>8 DEF History!ChainValid, chain, head
<1>10. History!CheckpointValid(c)
  <2>1. saved[c].issued_at <= history_now + ChainSkew /\ history_now - saved[c].issued_at <= CheckpointAge + ChainSkew
    BY <1>1
  <2> QED
    BY <2>1 DEF History!CheckpointValid
<1> QED
  BY <1>9, <1>10 DEF History!Verified, History!Expected, History!PendingValid, chain, head

-----------------------------------------------------------------------------
(* Trails of messages *)

\* A delegation is a chain of members, keys end (InterAgentPolicy).
ASSUME TrailsAssumption ==
    /\ Delegations \subseteq Trails!ChainType
    /\ AgentKeyEnd \in [Agents -> Nat]
    /\ MaxTransformations \in Nat /\ TrailsEnd \in Nat

\* A message as it was signed.
Signed(m) ==
    /\ m \in Trails!EnvelopeType
    /\ m.trail \in Seq(attested) /\ Len(m.trail) <= MaxTransformations
    /\ m.issued_at <= trail_now
    /\ Trails!EnvelopeValid(m)
    /\ Cardinality(m.recipients) <= MaxFanout

\* What is delivered was signed, and transformed by those who were trusted with it.
TrailsInv ==
    /\ trail_now \in 0 .. TrailsEnd
    /\ attested \subseteq Trails!TransformationType
    /\ live \subseteq Delegations
    /\ \A m \in sent : Signed(m)
    /\ \A d \in delivered :
        /\ d.message \in sent
        /\ \A i \in DOMAIN d.message.trail :
            d.message.trail[i].by \in Trails!Transformers(d.message, d.message.chain)

\* Initially nothing was signed.
LEMMA TrailsInit == Trails!Init => TrailsInv
BY TrailsAssumption DEF Trails!Init, TrailsInv

\* A message that is signed from attested transformations.
LEMMA TrailsSigned ==
    ASSUME TrailsInv, NEW sender \in Agents, NEW recipients \in (SUBSET Agents) \ {{}},
           NEW chain \in Delegations, NEW payload \in Payloads, NEW trail \in Trails!Trails,
           Trails!Sign(sender, recipients, chain, payload, trail)
    PROVE  \A m \in sent' : Signed(m)'
<1> DEFINE m == [sender |-> sender, recipients |-> recipients, chain |-> chain, payload |-> payload,
                 trail |-> trail,
                 source |-> IF trail = <<>> THEN payload ELSE trail[1].input, issued_at |-> trail_now]
<1>1. /\ Len(trail) <= MaxTransformations /\ Trails!EnvelopeValid(m) /\ sent' = sent \cup {m}
      /\ Cardinality(recipients) <= MaxFanout
  BY DEF Trails!Sign, Trails!Cardinality, Cardinality
<1>2. PICK n \in 0 .. MaxTransformations : trail \in [1 .. n -> attested]
  BY DEF Trails!Trails
<1>3. trail \in Seq(attested) /\ Len(trail) = n /\ n \in Nat
  BY <1>2, TrailsAssumption
<1>4. /\ trail_now \in 0 .. TrailsEnd /\ attested \subseteq Trails!TransformationType
  BY DEF TrailsInv
<1>5. trail \in [1 .. n -> Trails!TransformationType]
  BY <1>2, <1>4
<1>6. m.source \in Payloads
  <2>1. CASE trail = <<>>
    BY <2>1
  <2>2. CASE trail # <<>>
    <3>1. 1 \in 1 .. n
      BY <1>3, <2>2
    <3>2. trail[1] \in Trails!TransformationType
      BY <1>5, <3>1
    <3> QED
      BY <2>2, <3>2 DEF Trails!TransformationType
  <2> QED
    BY <2>1, <2>2
<1>7. m \in Trails!EnvelopeType
  <2>1. trail \in UNION {[1 .. k -> Trails!TransformationType] : k \in 0 .. MaxTransformations}
    BY <1>5
  <2> QED
    BY <1>4, <1>6, <2>1 DEF Trails!EnvelopeType
<1>8. UNCHANGED <<trail_now, attested>>
  BY DEF Trails!Sign
<1>9. ASSUME NEW q, q = m PROVE Signed(q)'
  <2>1. q.trail = trail /\ q.issued_at = trail_now /\ q.recipients = recipients
    BY <1>9
  <2>2. trail_now <= trail_now
    BY <1>4, TrailsAssumption
  <2>3. q \in Trails!EnvelopeType /\ Trails!EnvelopeValid(q)
    BY <1>1, <1>7, <1>9
  <2> HIDE DEF m
  <2> QED
    BY <1>1, <1>3, <1>8, <2>1, <2>2, <2>3 DEF Signed
<1>10. ASSUME NEW q \in sent PROVE Signed(q)'
  BY <1>8 DEF TrailsInv, Signed
<1> HIDE DEF m
<1> QED
  BY <1>1, <1>9, <1>10

\* Every step of the signers and the verifier preserves their invariant.
LEMMA TrailsStep == TrailsInv /\ [Trails!Next]_trails => TrailsInv'
<1> SUFFICES ASSUME TrailsInv, [Trails!Next]_trails PROVE TrailsInv'
  OBVIOUS
<1>1. ASSUME NEW agent \in Agents, NEW hop \in 0 .. MaxTransformations - 1,
             NEW input \in Payloads, NEW output \in Payloads,
             Trails!Attest(agent, hop, input, output)
      PROVE  TrailsInv'
  <2>1. /\ attested' = attested \cup {[by |-> agent, hop |-> hop, input |-> input, output |-> output, at |-> trail_now]}
        /\ UNCHANGED <<trail_now, sent, live, delivered>>
    BY <1>1 DEF Trails!Attest
  <2>2. attested' \subseteq Trails!TransformationType /\ attested \subseteq attested'
    BY <2>1 DEF TrailsInv, Trails!TransformationType
  <2>3. ASSUME NEW m \in sent PROVE Signed(m)'
    <3>1. Signed(m)
      BY DEF TrailsInv
    <3>2. m.trail \in Seq(attested')
      BY <2>2, <3>1, Wider DEF Signed
    <3> QED
      BY <2>1, <3>1, <3>2 DEF Signed
  <2> QED
    BY <2>1, <2>2, <2>3 DEF TrailsInv
<1>2. ASSUME NEW sender \in Agents, NEW recipients \in (SUBSET Agents) \ {{}},
             NEW chain \in Delegations, NEW payload \in Payloads, NEW trail \in Trails!Trails,
             Trails!Sign(sender, recipients, chain, payload, trail)
      PROVE  TrailsInv'
  <2>1. UNCHANGED <<trail_now, attested, live, delivered>> /\ sent \subseteq sent'
    BY <1>2 DEF Trails!Sign
  <2>2. \A m \in sent' : Signed(m)'
    BY <1>2, TrailsSigned
  <2> QED
    BY <2>1, <2>2 DEF TrailsInv
<1>3. ASSUME NEW m \in sent, NEW recipient \in Agents, NEW chain \in Delegations,
             Trails!Verify(m, recipient, chain)
      PROVE  TrailsInv'
  <2>1. /\ delivered' = delivered \cup {[message |-> m, recipient |-> recipient, at |-> trail_now]}
        /\ UNCHANGED <<trail_now, attested, sent, live>>
        /\ m.chain = chain
        /\ \A i \in DOMAIN m.trail : m.trail[i].by \in Trails!Transformers(m, chain)
    BY <1>3 DEF Trails!Verify, Trails!Verified, Trails!Delegated, Trails!TrailValid
  <2>2. \A q \in sent : Signed(q)' = Signed(q)
    BY <2>1 DEF Signed
  <2>3. \A d \in delivered' : /\ d.message \in sent
        /\ \A i \in DOMAIN d.message.trail :
            d.message.trail[i].by \in Trails!Transformers(d.message, d.message.chain)
    BY <2>1 DEF TrailsInv
  <2> QED
    BY <2>1, <2>2, <2>3 DEF TrailsInv
<1>4. ASSUME NEW chain \in live, Trails!Revoke(chain) PROVE TrailsInv'
  BY <1>4 DEF TrailsInv, Trails!Revoke, Signed
<1>5. CASE Trails!Tick
  <2>1. /\ trail_now' = trail_now + 1 /\ trail_now < TrailsEnd /\ trail_now \in 0 .. TrailsEnd
        /\ UNCHANGED <<attested, sent, live, delivered>>
    BY <1>5 DEF Trails!Tick, TrailsInv
  <2>2. ASSUME NEW m \in sent PROVE Signed(m)'
    <3>1. Signed(m) /\ m.issued_at \in Nat
      BY DEF TrailsInv, Signed, Trails!EnvelopeType
    <3>2. m.issued_at <= trail_now'
      BY <2>1, <3>1, TrailsAssumption DEF Signed
    <3> QED
      BY <2>1, <3>1, <3>2 DEF Signed
  <2> QED
    BY <2>1, <2>2, TrailsAssumption DEF TrailsInv
<1>6. CASE UNCHANGED trails
  BY <1>6 DEF TrailsInv, Signed, trails
<1> QED
  BY <1>1, <1>2, <1>3, <1>4, <1>5, <1>6 DEF Trails!Next

\* No trail is longer than the policy allows.
LEMMA TrailsTypes == TrailsInv => Trails!TypeOK
BY TrailsAssumption DEF TrailsInv, Signed, Trails!TypeOK

\* What was signed by the rules passes every check while it lives.
LEMMA TrailsAccepted == TrailsInv => Trails!SignedIsAccepted
<1> SUFFICES ASSUME TrailsInv, NEW m \in sent, NEW recipient \in Agents,
                    recipient \in m.recipients, \A q \in m.recipients : <<m.sender, q>> \in Routes,
                    Tenant[recipient] = Tenant[m.sender],
                    m.chain \in live, m.chain.leaf = m.sender, m.recipients \subseteq m.chain.audience,
                    trail_now < AgentKeyEnd[m.sender],
                    \A i \in DOMAIN m.trail :
                        /\ m.trail[i].by \in m.chain.members /\ Tenant[m.trail[i].by] = Tenant[m.sender]
                        /\ trail_now < AgentKeyEnd[m.trail[i].by]
             PROVE  Trails!Verified(m, recipient, m.chain)
  BY DEF Trails!SignedIsAccepted
<1>1. /\ m \in Trails!EnvelopeType /\ m.trail \in Seq(attested) /\ Len(m.trail) <= MaxTransformations
      /\ m.issued_at <= trail_now /\ Trails!EnvelopeValid(m) /\ Cardinality(m.recipients) <= MaxFanout
  BY DEF TrailsInv, Signed
<1>2. /\ m.sender \in Agents /\ m.issued_at \in Nat /\ trail_now \in Nat
      /\ attested \subseteq Trails!TransformationType
  BY <1>1, TrailsAssumption DEF TrailsInv, Trails!EnvelopeType
<1>3. Trails!KeyActive(m.sender, m.issued_at)
  <2>1. AgentKeyEnd[m.sender] \in Nat
    BY <1>2, TrailsAssumption
  <2> QED
    BY <1>1, <1>2, <2>1 DEF Trails!KeyActive
<1>4. Trails!Addressed(m, recipient)
  BY <1>1 DEF Trails!Addressed, Trails!Cardinality, Cardinality
<1>5. ASSUME NEW i \in DOMAIN m.trail
      PROVE  /\ m.trail[i].by \in Trails!Transformers(m, m.chain)
             /\ Trails!KeyActive(m.trail[i].by, m.trail[i].at) /\ Trails!Past(m, i)
             /\ m.trail[i].hop = i - 1 /\ m.trail[i].input = Trails!Into(m, i)
  <2>1. m.trail[i] \in attested
    BY <1>1, Logged
  <2>2. m.trail[i].by \in Agents /\ m.trail[i].at \in Nat
    BY <1>2, <2>1 DEF Trails!TransformationType
  <2>3. AgentKeyEnd[m.trail[i].by] \in Nat
    BY <2>2, TrailsAssumption
  <2>4. /\ m.trail[i].hop = i - 1 /\ m.trail[i].at <= m.issued_at
        /\ m.trail[i].input = Trails!Into(m, i)
    BY <1>1 DEF Trails!EnvelopeValid
  <2> QED
    BY <1>1, <1>2, <2>2, <2>3, <2>4 DEF Trails!Transformers, Trails!KeyActive, Trails!Past
<1>6. Trails!TrailValid(m, m.chain)
  BY <1>1, <1>5 DEF Trails!TrailValid, Trails!EnvelopeValid
<1>7. Trails!Delegated(m, m.chain)
  BY DEF Trails!Delegated
<1> QED
  BY <1>3, <1>4, <1>6, <1>7 DEF Trails!Verified

\* What hop n makes of some payloads.
Hop(before, chain, at, n) ==
    {t.output : t \in {x \in attested :
        /\ x.input \in before /\ x.hop = n - 1 /\ x.at <= at
        /\ x.by \in chain.members \cup TrustedTransformers}}

\* What is made in n hops, unfolded: what the last hop makes of what is made in n - 1.
LEMMA MadeUnfolds ==
    ASSUME NEW source, NEW chain, NEW at, MaxTransformations \in Nat
    PROVE  /\ Trails!Made(source, chain, at)[0] = {source}
           /\ \A n \in 1 .. MaxTransformations :
                Trails!Made(source, chain, at)[n] = Hop(Trails!Made(source, chain, at)[n - 1], chain, at, n)
<1> DEFINE N == MaxTransformations
           Start == {source}
           Body(f, k) == [n \in 0 .. k |-> IF n = 0 THEN Start ELSE Hop(f[n - 1], chain, at, n)]
<1>1. Trails!Made(source, chain, at) = CHOOSE f : f = Body(f, N)
  BY DEF Trails!Made, Hop
<1> HIDE DEF Start
<1>2. \E f : f = Body(f, N)
  <2> DEFINE Upto(f, k) == f = Body(f, k)
             S == {k \in 0 .. N : \E f : Upto(f, k)}
  <2> HIDE DEF Body, S
  <2>1. SUFFICES ASSUME (0 .. N) \ S # {} PROVE FALSE
    <3>1. N \in 0 .. N
      OBVIOUS
    <3>2. N \in S => \E f : f = Body(f, N)
      BY DEF S
    <3> QED
      BY <3>1, <3>2
  <2>2. PICK k \in (0 .. N) \ S : \A m \in 0 .. (k - 1) : m \in S
    BY <2>1, LeastOutside
  <2>3. k # 0
    <3>1. Upto([n \in 0 .. 0 |-> Start], 0)
      BY DEF Body
    <3>2. 0 \in 0 .. N => 0 \in S
      BY <3>1 DEF S
    <3> QED
      BY <2>2, <3>2
  <2>4. k - 1 \in S
    <3>1. k - 1 \in 0 .. (k - 1)
      BY <2>2, <2>3
    <3> QED
      BY <2>2, <3>1
  <2>5. PICK f : Upto(f, k - 1)
    BY <2>4 DEF S
  <2> DEFINE g == [n \in 0 .. k |-> IF n = k THEN Hop(f[k - 1], chain, at, k) ELSE f[n]]
  <2>6. Upto(g, k)
    <3>1. \A n \in 0 .. k : g[n] = IF n = 0 THEN Start ELSE Hop(g[n - 1], chain, at, n)
      <4>1. TAKE n \in 0 .. k
      <4>2. CASE n = k
        <5>1. g[n - 1] = f[k - 1]
          BY <2>2, <2>3, <4>2
        <5> QED
          BY <4>2, <5>1, <2>3
      <4>3. CASE n # k
        <5>1. n \in 0 .. (k - 1)
          BY <2>2, <4>3
        <5>2. f[n] = IF n = 0 THEN Start ELSE Hop(f[n - 1], chain, at, n)
          BY <2>5, <5>1 DEF Body
        <5>3. n # 0 => g[n - 1] = f[n - 1]
          BY <4>3
        <5> QED
          BY <4>3, <5>2, <5>3
      <4> QED
        BY <4>2, <4>3
    <3> QED
      BY <3>1 DEF Body
  <2>7. k \in S
    BY <2>2, <2>6 DEF S
  <2> QED
    BY <2>2, <2>7
<1> HIDE DEF Body
<1>3. Trails!Made(source, chain, at) = Body(Trails!Made(source, chain, at), N)
  BY <1>1, <1>2, Zenon
<1> DEFINE made == Trails!Made(source, chain, at)
<1> HIDE DEF made
<1>4. made = Body(made, N)
  BY <1>3 DEF made
<1>5. made[0] = {source}
  BY <1>4 DEF Body, Start
<1>6. \A n \in 1 .. N : made[n] = Hop(made[n - 1], chain, at, n)
  BY <1>4 DEF Body
<1> QED
  BY <1>5, <1>6 DEF made

\* Hop by hop, what goes into the next one was made from the source.
LEMMA TrailsMade == TrailsInv => Trails!MadeByTrusted
<1> SUFFICES ASSUME TrailsInv, NEW d \in delivered
             PROVE  d.message.payload \in
                      Trails!Made(d.message.source, d.message.chain, d.message.issued_at)[Len(d.message.trail)]
  BY DEF Trails!MadeByTrusted
<1> DEFINE m == d.message
           n == Len(m.trail)
           made == Trails!Made(m.source, m.chain, m.issued_at)
<1>1. /\ m.trail \in Seq(attested) /\ n <= MaxTransformations /\ Trails!EnvelopeValid(m)
      /\ \A i \in DOMAIN m.trail : m.trail[i].by \in m.chain.members \cup TrustedTransformers
  BY DEF TrailsInv, Signed, Trails!Transformers
<1>2. n \in Nat /\ DOMAIN m.trail = 1 .. n /\ MaxTransformations \in Nat
  BY <1>1, TrailsAssumption
<1>3. /\ made[0] = {m.source}
      /\ \A k \in 1 .. MaxTransformations : made[k] = Hop(made[k - 1], m.chain, m.issued_at, k)
  BY <1>2, MadeUnfolds
<1>4. \A i \in 1 .. n : /\ m.trail[i] \in attested
                        /\ m.trail[i].hop = i - 1 /\ m.trail[i].at <= m.issued_at
                        /\ m.trail[i].input = Trails!Into(m, i)
                        /\ m.trail[i].by \in m.chain.members \cup TrustedTransformers
  BY <1>1, <1>2, Logged DEF Trails!EnvelopeValid
<1>5. m.payload = Trails!Into(m, n + 1)
  BY <1>1 DEF Trails!EnvelopeValid
<1>6. Trails!Into(m, 1) = m.source /\ \A i \in 1 .. n : Trails!Into(m, i + 1) = m.trail[i].output
  BY <1>2 DEF Trails!Into
<1> HIDE DEF made, n, m
<1>7. \A k \in 0 .. n : Trails!Into(m, k + 1) \in made[k]
  <2> DEFINE S == {k \in 0 .. n : Trails!Into(m, k + 1) \in made[k]}
  <2>1. SUFFICES ASSUME (0 .. n) \ S # {} PROVE FALSE
    BY <2>1
  <2>2. PICK k \in (0 .. n) \ S : \A j \in 0 .. (k - 1) : j \in S
    <3> HIDE DEF S
    <3> QED
      BY <1>2, <2>1, LeastOutside
  <2>3. k # 0
    BY <1>3, <1>6, <2>2
  <2>4. k \in 1 .. n /\ k - 1 \in 0 .. (k - 1) /\ (k - 1) + 1 = k /\ k \in 1 .. MaxTransformations
    BY <1>1, <1>2, <2>2, <2>3 DEF n
  <2>5. Trails!Into(m, k) \in made[k - 1]
    BY <2>2, <2>4
  <2>6. made[k] = Hop(made[k - 1], m.chain, m.issued_at, k)
    BY <1>3, <2>4
  <2>7. m.trail[k].output \in made[k]
    BY <1>4, <2>4, <2>5, <2>6 DEF Hop
  <2> QED
    BY <1>6, <2>2, <2>4, <2>7
<1> QED
  BY <1>2, <1>5, <1>7 DEF m, n, made

-----------------------------------------------------------------------------
(* All components together *)

\* Every component keeps its invariant, whichever takes the steps.
AuthorityInv ==
    /\ IInv /\ AgencyInv /\ NoncesInv /\ PromptsInv /\ DelegationInv /\ BrowserInv
    /\ MessagesInv /\ WorkflowInv /\ McpInv /\ TokensInv /\ HistoryInv /\ TrailsInv

\* Every component starts with its invariant.
LEMMA AuthorityStarts == AuthorityInit => AuthorityInv
BY InitIInv, AgencyInit, NoncesInit, PromptsInit, DelegationInit, BrowserInit, MessagesInit,
   WorkflowInit, McpInit, TokensInit, HistoryInit, TrailsInit
DEF AuthorityInit, AuthorityInv

\* A step is one of a component, or leaves it as it is.
LEMMA AuthorityMoves ==
    ASSUME [AuthorityNext]_<<component, granting, accepting>>
    PROVE  /\ [Next]_vars /\ [Agency!Next]_agency /\ [Review!Next]_review
           /\ [Delegation!Next]_delegation /\ [Browser!Next]_browser
           /\ [Messages!Next]_messages /\ [Workflow!Next]_workflow /\ [Mcp!Next]_mcp
           /\ [OAuth!Next]_tokens /\ [History!Next]_checkpoint /\ [Trails!Next]_trails
<1>1. CASE GrantingNext /\ UNCHANGED accepting
  <2>1. /\ [Next]_vars /\ [Agency!Next]_agency /\ [Review!Next]_review
        /\ [Delegation!Next]_delegation /\ [Browser!Next]_browser
    BY <1>1 DEF GrantingNext
  <2>2. UNCHANGED <<messages, workflow, mcp, tokens, checkpoint, trails>>
    BY <1>1 DEF accepting
  <2> QED
    BY <2>1, <2>2
<1>2. CASE AcceptingNext /\ UNCHANGED granting
  <2>1. /\ [Messages!Next]_messages /\ [Workflow!Next]_workflow /\ [Mcp!Next]_mcp
        /\ [OAuth!Next]_tokens /\ [History!Next]_checkpoint /\ [Trails!Next]_trails
    BY <1>2 DEF AcceptingNext
  <2>2. UNCHANGED <<agency, review, delegation, browser, vars>>
    BY <1>2 DEF granting
  <2> QED
    BY <2>1, <2>2
<1>3. CASE UNCHANGED <<component, granting, accepting>>
  <2>1. UNCHANGED <<messages, workflow, mcp, tokens, checkpoint, trails>>
    BY <1>3 DEF accepting
  <2>2. UNCHANGED <<agency, review, delegation, browser, vars>>
    BY <1>3 DEF granting
  <2> QED
    BY <2>1, <2>2
<1> QED
  BY <1>1, <1>2, <1>3 DEF AuthorityNext

\* AuthorityInv is an inductive invariant of the components together.
THEOREM AuthorityInductive == AuthoritySpec => []AuthorityInv
<1>1. AuthorityInv /\ [AuthorityNext]_<<component, granting, accepting>> => AuthorityInv'
  BY AuthorityMoves, StepIInv, AgencyStep, NoncesStep, PromptsStep, DelegationStep, BrowserStep,
     MessagesStep, WorkflowStep, McpStep, TokensStep, HistoryStep, TrailsStep
  DEF AuthorityInv
<1> QED
  BY <1>1, AuthorityStarts, PTL DEF AuthoritySpec

\* Every store keeps within its capacity, and what is kept is well formed.
THEOREM AuthorityTypes == AuthoritySpec => []TypesOK
<1>1. NoncesInv /\ PromptsInv => Review!TypeOK
  BY DEF NoncesInv, PromptsInv, Review!TypeOK, Review!Cardinality, Cardinality
<1>2. AuthorityInv => TypesOK
  BY <1>1, AgencySafe, DelegationSafe, MessagesSafe, WorkflowSafe, McpSafe, TokensSafe, HistoryTypes,
     TrailsTypes
  DEF AuthorityInv, IInv, TypesOK
<1> QED
  BY <1>2, AuthorityInductive, PTL

\* What is given for one use serves once: approvals of calls, of plans and of actions, and
\* elevations, whatever the threads that present them.
THEOREM AuthorityUsedOnce == AuthoritySpec => []UsedOnce
<1>1. AuthorityInv => UsedOnce
  BY AgencySafe, NoncesSafe, DelegationSafe, BrowserSafe DEF AuthorityInv, UsedOnce
<1> QED
  BY <1>1, AuthorityInductive, PTL

\* Nothing is granted beyond what was given, for any limits, windows and chains.
THEOREM AuthorityLimits == AuthoritySpec => []WithinAuthority
<1>1. AuthorityInv => WithinAuthority
  BY AgencySafe, PromptsSafe, DelegationSafe DEF AuthorityInv, WithinAuthority
<1> QED
  BY <1>1, AuthorityInductive, PTL

\* Nothing signed is accepted twice while it is valid, whatever the stores forget meanwhile.
THEOREM AuthorityAcceptedOnce == AuthoritySpec => []AcceptedOnce
<1>1. AuthorityInv => AcceptedOnce
  BY WorkflowSafe, McpSafe, TokensSafe, MessagesSafe DEF AuthorityInv, AcceptedOnce
<1> QED
  BY <1>1, AuthorityInductive, PTL

\* What is accepted was made by those who were trusted with it, whole and in order.
THEOREM AuthorityAsMade == AuthoritySpec => []AcceptedAsMade
<1>1. AuthorityInv => AcceptedAsMade
  BY HistoryResumes, TrailsMade, TokensSafe DEF AuthorityInv, AcceptedAsMade
<1> QED
  BY <1>1, AuthorityInductive, PTL

\* What was signed by the rules is accepted while it lives.
THEOREM AuthorityAccepts == AuthoritySpec => []SignedIsAccepted
<1>1. AuthorityInv => SignedIsAccepted
  BY TrailsAccepted, HistoryAccepted DEF AuthorityInv, SignedIsAccepted
<1> QED
  BY <1>1, AuthorityInductive, PTL

-----------------------------------------------------------------------------
(* A small instance of each component, for TLC. *)

(* A session that reads, then sends what it read, in two chains. *)
Read(chain) ==
    [tool |-> "read", chain |-> chain, intent |-> "i1", operation |-> "o1",
     approval |-> "no approval", autonomous |-> TRUE, resource |-> "x", permitted |-> TRUE]
Send(chain, operation) ==
    [Read(chain) EXCEPT !.tool = "send", !.approval = "a1", !.autonomous = FALSE,
                        !.operation = operation]

SomeRequests ==
    {Read("c1"), Read("c2"), Send("c1", "o2"), [Send("c1", "o3") EXCEPT !.approval = "a2"],
     [Send("c2", "o2") EXCEPT !.approval = "a2"],
     [Send("c1", "o2") EXCEPT !.approval = "a2", !.intent = "i2"],
     [Read("c2") EXCEPT !.permitted = FALSE]}

Good == [status |-> "succeeded", attested |-> TRUE, effects |-> {"e"}, resources |-> {"x"}]
SomeReports ==
    {Good, [Good EXCEPT !.effects = {}], [Good EXCEPT !.status = "failed"],
     [Good EXCEPT !.status = "failed", !.effects = {}, !.resources = {}]}

SomeEffects == [t \in {"read", "send"} |-> {"e"}]
SomeTransitions == {<<"read", "send">>, <<"send", "read">>, <<"read", "read">>}
SomeFlowRules ==
    [p \in {<<"read", "send">>} |->
        [max_uses |-> 1, require_same_intent |-> TRUE, require_same_resource |-> TRUE]]

(* Approvals of different lifetimes, one of them forged. *)
Grant == [issued_at |-> 0, expires_at |-> 2, bound |-> TRUE, genuine |-> TRUE]
SomeApproval == [a1 |-> Grant, a2 |-> [Grant EXCEPT !.expires_at = 4],
                 a3 |-> [Grant EXCEPT !.genuine = FALSE]]

(* Chains that narrow, that skip a link's delegatable scopes, and that widen again. *)
Holds(scopes, delegatable) == [scopes |-> scopes, delegatable_scopes |-> delegatable]
Narrow == <<Holds({"s1", "s2"}, {"s1", "s2"}), Holds({"s1", "s2"}, {"s1"}), Holds({"s1"}, {})>>
Widened == [Narrow EXCEPT ![3] = Holds({"s1", "s2"}, {})]
SomeChains == {Narrow, Widened}

SomeAccess ==
    {[leaf |-> 3, scopes |-> {"s1"}, grants |-> {"g1"}],
     [leaf |-> 3, scopes |-> {"s2"}, grants |-> {}],
     [leaf |-> 2, scopes |-> {"s1", "s2"}, grants |-> {"g1"}]}
SomeLifetimes == <<2, 2, 1>>

(* One request in two contents, one approved; the session ends soon. *)
Click ==
    [id |-> "q1", session |-> "s1", content |-> "x", requested_at |-> 0, target |-> "o1",
     source |-> "o1", contains_sensitive_data |-> FALSE, captured_at |-> 0, clear |-> TRUE,
     sensitive_action |-> FALSE]
Sent == [Click EXCEPT !.content = "y", !.target = "o2", !.contains_sensitive_data = TRUE]

SomeSessions ==
    [s1 |-> [issued_at |-> 0, expires_at |-> 4, sound |-> TRUE, allowed_origins |-> {"o1", "o2"},
             edges |-> {[source |-> "o1", destination |-> "o2", allow_sensitive |-> TRUE]}]]
SomeActions ==
    {Click, Sent, [Sent EXCEPT !.source = "o2", !.target = "o1"],
     [Click EXCEPT !.id = "q2", !.requested_at = 1]}
SomeActionApprovals ==
    {[name |-> "a1", id |-> "q1", content |-> "y", issued_at |-> 0, expires_at |-> 2,
      genuine |-> TRUE]}

(* An execution that outlives the capabilities issued for it at first, and   *)
(* one that is not authenticated.                                            *)
Records ==
    LET x == [scope |-> "r1", issued_at |-> 0, expires_at |-> 2, genuine |-> TRUE, verified |-> TRUE]
    IN  {x, [x EXCEPT !.verified = FALSE]}

LOCAL INSTANCE TLC

\* The threads that use the broker are interchangeable.
SameThreads == Permutations(Threads)

-----------------------------------------------------------------------------
(* A sender that lost its counter, a stream that waits for room, a clock that is ahead. *)
Envelope(id, stream, sequence, issued_at, expires_at) ==
    [id |-> id, stream |-> stream, sequence |-> sequence,
     issued_at |-> issued_at, expires_at |-> expires_at]

SomeEnvelopes ==
    {Envelope("m1", "s1", 0, 0, 3), Envelope("m2", "s1", 1, 0, 1), Envelope("m3", "s1", 0, 1, 3),
     Envelope("m4", "s1", 2, 2, 3), Envelope("m5", "s2", 0, 2, 3)}
SomeKeyEnd == [s1 |-> 9, s2 |-> 3]

(* A workflow whose later checkpoints live shorter. *)
Checkpoint(id, owner, sequence, issued_at, expires_at) ==
    [id |-> id, workflow |-> owner, sequence |-> sequence,
     issued_at |-> issued_at, expires_at |-> expires_at, pending |-> {}]

SomeCheckpoints ==
    {Checkpoint("k0", "w1", 0, 0, 4), Checkpoint("k1", "w1", 1, 0, 2), Checkpoint("k2", "w1", 2, 1, 3),
     [Checkpoint("v0", "w2", 0, 0, 3) EXCEPT !.pending = {[from |-> 0, expires_at |-> 2]}]}

(* The age of a message ends before it expires, or after. *)
SomeMcpEnvelopes ==
    {[nonce |-> "n1", issued_at |-> 0, expires_at |-> 1],
     [nonce |-> "n2", issued_at |-> 1, expires_at |-> 4],
     [nonce |-> "n3", issued_at |-> 2, expires_at |-> 4]}

(* One token that reaches two resources and a tool that may use one of them. *)
SomeTokens ==
    {[id |-> "j1", issued_at |-> 0, expires_at |-> 1, scopes |-> {"call"}, resources |-> {"r1", "r2"}],
     [id |-> "j2", issued_at |-> 1, expires_at |-> 3, scopes |-> {"list"}, resources |-> {}]}
SomeToolPolicy ==
    [read |-> [required_scopes |-> {"call"}, allowed_resources |-> {"r1"}, takes_resource |-> TRUE]]

(* A chain of three entries, which may fork, and one checkpoint; two checkpoints *)
(* of a short chain.                                                             *)
SomeHistories == ((0..3) \X (0..1)) \cup ((0..1) \X (0..2))

(* A member of the delegation whose key ends early, its leaf, and an outsider with a key. *)
SomeTenant == [a |-> "t", b |-> "t", x |-> "t"]
SomeAgentKeyEnd == [a |-> 1, b |-> 9, x |-> 9]
SomeDelegations == {[members |-> {"a", "b"}, leaf |-> "b", audience |-> {"a"}]}
SomeRoutes == {<<"b", "a">>}

-----------------------------------------------------------------------------
(* What a component does not read does not vary while it takes steps. *)
MCInit ==
    /\ AuthorityInit
    /\ component # "agency" => semantic
    /\ component # "delegation" => capability = Narrow

MCSpec == MCInit /\ [][AuthorityNext]_<<component, granting, accepting>>
=============================================================================
