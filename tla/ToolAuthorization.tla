------------------------- MODULE ToolAuthorization --------------------------
(***************************************************************************)
(* ToolAuthorizer and ToolExecutionBudget of src/trustrail/agency.py: each *)
(* proposed tool call is granted a lease against the counters of its       *)
(* session, and with a semantic policy also against what the earlier calls *)
(* of its chain were verified to have done.                                *)
(*                                                                         *)
(* The tests made before the lock only read and are made again under it,   *)
(* so authorize, complete and verify_completion are one step each.  A      *)
(* refused call changes nothing and is no step.  A semantic policy covers  *)
(* every tool or there is none; it denies unlisted transitions and flows,  *)
(* as it does by default.                                                  *)
(***************************************************************************)
EXTENDS Integers, Sequences, FiniteSets

CONSTANTS
    Chains, Operations,
    Intents,        \* ToolIntent: what the user asked for
    Approvals,      \* ToolApprovalGrant
    Requests,       \* the invocations proposed, by record of RequestType
    Reports,        \* what trusted executors report of them, by record
    Gated,          \* tools that need an approval
    Effects,        \* the effects of each tool
    Transitions,    \* allowed_transitions
    FlowRules,      \* data_flow_rules, by pair of tools
    MaxToolCalls, MaxChainActions, MaxRetries, MaxParallel, MaxAutonomous, MaxIntentCalls

Tools == DOMAIN Effects
NoApproval == "no approval"
NoFlow == 0

\* permitted: identity, intent, scope, argument and resource tests and the
\* preconditions pass; flow: the authorization whose output an argument carries
RequestType ==
    [tool : Tools, chain : Chains, intent : Intents, operation : Operations,
     approval : Approvals \cup {NoApproval}, autonomous : BOOLEAN,
     resource : STRING, permitted : BOOLEAN]

\* attested: report, destinations and facts are those the call was bound to
ReportType ==
    [status : {"succeeded", "failed", "unknown"}, attested : BOOLEAN,
     effects : SUBSET STRING, resources : SUBSET STRING]

VARIABLES
    semantic,                 \* is there a semantic policy
    authorized,               \* the requests granted; an authorization is its index
    flows,                    \* the flow each of them declared
    active_authorizations,
    active_semantic_requests,
    quarantined_chains,
    chain_history,
    verified_executions,      \* resources of the outcomes verified, by authorization
    data_flow_uses,
    used_approval_ids,
    calls,                    \* tool_calls, chain_actions, operation_attempts, ...
    outcomes                  \* history: verdict on each authorization

vars == <<semantic, authorized, flows, active_authorizations, active_semantic_requests,
          quarantined_chains, chain_history, verified_executions, data_flow_uses,
          used_approval_ids, calls, outcomes>>

Ids == 1 .. MaxToolCalls
Granted == DOMAIN authorized
FlowKeys == Ids \X Tools

-----------------------------------------------------------------------------
(* authorize *)

ApprovalRequired(r) == r.tool \in Gated

\* _approval_findings, and the same test again under the lock
Approved(r) ==
    ApprovalRequired(r) => r.approval # NoApproval /\ r.approval \notin used_approval_ids

\* _sequence_findings
SequenceAllowed(r) ==
    LET past == chain_history[r.chain]
    IN  past # <<>> => <<authorized[past[Len(past)]].tool, r.tool>> \in Transitions

\* _data_flow_findings, _matching_data_flow_rule
FlowAllowed(r, source) ==
    source # NoFlow =>
        /\ source \in DOMAIN verified_executions
        /\ authorized[source].chain = r.chain
        /\ LET pair == <<authorized[source].tool, r.tool>> IN
           /\ pair \in DOMAIN FlowRules
           /\ data_flow_uses[<<source, r.tool>>] < FlowRules[pair].max_uses
           /\ FlowRules[pair].require_same_intent => authorized[source].intent = r.intent
           /\ FlowRules[pair].require_same_resource =>
                 r.resource \in verified_executions[source]

\* _semantic_findings
SemanticallyAllowed(r, source) ==
    semantic =>
        /\ r.chain \notin quarantined_chains
        /\ \A a \in active_semantic_requests : authorized[a].chain # r.chain
        /\ SequenceAllowed(r)
        /\ FlowAllowed(r, source)

\* _budget_findings
WithinBudget(r) ==
    /\ calls.tool < MaxToolCalls
    /\ calls.chain[r.chain] < MaxChainActions
    /\ calls.operation[r.operation] <= MaxRetries
    /\ Cardinality(active_authorizations) < MaxParallel
    /\ r.autonomous => calls.autonomous < MaxAutonomous
    /\ calls.intent[r.intent] < MaxIntentCalls

\* Mutant: a call of an agent is counted twice
ReservedTwice(r) ==
    [tool |-> calls.tool + 2, chain |-> calls.chain, operation |-> calls.operation,
     intent |-> calls.intent, autonomous |-> calls.autonomous]

\* _reserve
Reserved(r) ==
    [tool |-> calls.tool + 1,
     chain |-> [calls.chain EXCEPT ![r.chain] = @ + 1],
     operation |-> [calls.operation EXCEPT ![r.operation] = @ + 1],
     intent |-> [calls.intent EXCEPT ![r.intent] = @ + 1],
     autonomous |-> IF r.autonomous THEN calls.autonomous + 1 ELSE calls.autonomous]

\* consume_approval
Consumed(r) == IF ApprovalRequired(r) THEN {r.approval} ELSE {}

\* Mutant: the use of a flow is not counted
CountedFlowNot(r, source) == data_flow_uses

CountedFlow(r, source) ==
    IF semantic /\ source # NoFlow
    THEN [data_flow_uses EXCEPT ![<<source, r.tool>>] = @ + 1]
    ELSE data_flow_uses

\* authorize, require
Authorize(r, source) ==
    /\ r.permitted
    /\ SemanticallyAllowed(r, source)
    /\ Approved(r)
    /\ WithinBudget(r)
    /\ LET id == Len(authorized) + 1 IN
       /\ authorized' = Append(authorized, r)
       /\ flows' = Append(flows, source)
       /\ outcomes' = Append(outcomes, "running")
       /\ active_authorizations' = active_authorizations \cup {id}
       /\ active_semantic_requests' = active_semantic_requests \cup (IF semantic THEN {id} ELSE {})
    /\ calls' = Reserved(r)
    /\ used_approval_ids' = used_approval_ids \cup Consumed(r)
    /\ data_flow_uses' = CountedFlow(r, source)
    /\ UNCHANGED <<semantic, quarantined_chains, chain_history, verified_executions>>

-----------------------------------------------------------------------------
(* The end of a call *)

\* complete
Complete(id) ==
    /\ id \in active_authorizations \ active_semantic_requests
    /\ active_authorizations' = active_authorizations \ {id}
    /\ outcomes' = [outcomes EXCEPT ![id] = "completed"]
    /\ UNCHANGED <<semantic, authorized, flows, active_semantic_requests, quarantined_chains,
                   chain_history, verified_executions, data_flow_uses, used_approval_ids, calls>>

\* _postcondition_findings
PostconditionsHold(r, q) ==
    /\ q.attested /\ q.status # "unknown"
    /\ q.effects \subseteq Effects[r.tool] /\ q.resources \subseteq {r.resource}
    /\ q.status = "succeeded" => q.effects = Effects[r.tool] /\ q.resources = {r.resource}
    /\ q.status = "failed" => q.effects = {} /\ q.resources = {}

Verdict(r, q) == IF PostconditionsHold(r, q) THEN q.status ELSE "violated"

\* quarantined_chains.add
Quarantined(r, verdict) ==
    quarantined_chains \cup (IF verdict = "violated" THEN {r.chain} ELSE {})

\* the record of a verified execution
Recorded(id, r, verdict, q) ==
    IF verdict = "succeeded"
    THEN /\ verified_executions' =
                [i \in DOMAIN verified_executions \cup {id} |->
                    IF i = id THEN q.resources ELSE verified_executions[i]]
         /\ chain_history' = [chain_history EXCEPT ![r.chain] = Append(@, id)]
    ELSE UNCHANGED <<verified_executions, chain_history>>

\* verify_completion; a report that names no active semantic authorization is answered
\* with a quarantine and changes nothing
VerifyCompletion(id, q) ==
    /\ id \in active_semantic_requests \cap active_authorizations
    /\ LET r == authorized[id]
           verdict == Verdict(r, q)
       IN  /\ quarantined_chains' = Quarantined(r, verdict)
           /\ Recorded(id, r, verdict, q)
           /\ outcomes' = [outcomes EXCEPT ![id] = verdict]
    /\ active_authorizations' = active_authorizations \ {id}
    /\ active_semantic_requests' = active_semantic_requests \ {id}
    /\ UNCHANGED <<semantic, authorized, flows, data_flow_uses, used_approval_ids, calls>>

-----------------------------------------------------------------------------

\* ToolExecutionBudget, with and without a semantic policy in the authorizer
Init ==
    /\ semantic \in BOOLEAN
    /\ authorized = <<>> /\ flows = <<>> /\ outcomes = <<>>
    /\ active_authorizations = {} /\ active_semantic_requests = {}
    /\ quarantined_chains = {}
    /\ chain_history = [c \in Chains |-> <<>>]
    /\ verified_executions = [i \in {} |-> {}]
    /\ data_flow_uses = [k \in FlowKeys |-> 0]
    /\ used_approval_ids = {}
    /\ calls = [tool |-> 0, chain |-> [c \in Chains |-> 0], operation |-> [o \in Operations |-> 0],
                intent |-> [i \in Intents |-> 0], autonomous |-> 0]

Next ==
    \/ \E r \in Requests : \E source \in DOMAIN verified_executions \cup {NoFlow} : Authorize(r, source)
    \/ \E id \in Granted : Complete(id)
    \/ \E id \in Granted, q \in Reports : VerifyCompletion(id, q)

Spec == Init /\ [][Next]_vars

-----------------------------------------------------------------------------
(* Properties *)

\* The counters of the budget are those of the calls granted (ToolExecutionBudget, _reserve).
TypeOK ==
    /\ authorized \in Seq(Requests) /\ DOMAIN flows = Granted /\ DOMAIN outcomes = Granted
    /\ active_semantic_requests \subseteq active_authorizations
    /\ active_authorizations = {i \in Granted : outcomes[i] = "running"}
    /\ quarantined_chains \subseteq Chains /\ DOMAIN verified_executions \subseteq Granted
    /\ calls.tool = Len(authorized)

\* Under a semantic policy two calls of a chain verified one after the other are an
\* allowed transition, though each was tested when it was authorized and recorded only
\* when its report arrived (authorize, verify_completion).
AdjacentAllowed ==
    \A c \in Chains : \A i \in 1 .. Len(chain_history[c]) - 1 :
        <<authorized[chain_history[c][i]].tool, authorized[chain_history[c][i + 1]].tool>>
            \in Transitions

\* An output feeds no more calls of a tool than the rule's max_uses, and only calls of
\* the same chain made after it was verified to come from a successful call
\* (_data_flow_findings, authorize).
FlowLimited ==
    semantic =>
        \A s \in Granted, t \in Tools :
            LET uses == {i \in Granted : flows[i] = s /\ authorized[i].tool = t} IN
            uses # {} =>
                /\ Cardinality(uses) <= FlowRules[<<authorized[s].tool, t>>].max_uses
                /\ outcomes[s] = "succeeded"
                /\ \A i \in uses : s < i /\ authorized[i].chain = authorized[s].chain

\* An approval lets one call through, however often and with whatever request it is
\* presented (_approval_findings, _budget_findings, _reserve).
UsedOnce ==
    \A i, j \in Granted :
        i # j /\ ApprovalRequired(authorized[i]) /\ ApprovalRequired(authorized[j])
            => authorized[i].approval # authorized[j].approval

\* Once an outcome of a chain could not be verified nothing more of the chain is
\* authorized, whatever other chains do (verify_completion, _semantic_findings).
NothingAfterViolation ==
    \A i, j \in Granted :
        i < j /\ authorized[i].chain = authorized[j].chain => outcomes[i] # "violated"

\* Calls running at once, of an operation, of an intent, of a chain and autonomous ones
\* stay within the policy's limits, counted over what was really granted
\* (_budget_findings, _reserve).
LimitsHold ==
    /\ Cardinality({i \in Granted : outcomes[i] = "running"}) <= MaxParallel
    /\ Cardinality({i \in Granted : authorized[i].autonomous}) <= MaxAutonomous
    /\ \A c \in Chains : Cardinality({i \in Granted : authorized[i].chain = c}) <= MaxChainActions
    /\ \A o \in Operations :
        Cardinality({i \in Granted : authorized[i].operation = o}) <= MaxRetries + 1
    /\ \A n \in Intents : Cardinality({i \in Granted : authorized[i].intent = n}) <= MaxIntentCalls
=============================================================================
