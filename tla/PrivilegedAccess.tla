-------------------------- MODULE PrivilegedAccess --------------------------
(***************************************************************************)
(* PrivilegedAccessManager and MemoryPrivilegeGrantStateStore of           *)
(* src/trustrail/privileged_access.py: just-in-time grants for one action, *)
(* issued and consumed against identity and risk that change meanwhile.    *)
(*                                                                         *)
(* A call reads its clock, asks the identity provider, then the risk       *)
(* provider and the backend, then goes to the store, which alone is        *)
(* atomic: issue_grant and authorize_execution are three steps each.       *)
(* The providers are external.  One actor is modelled, whose requests may  *)
(* belong to several sessions.  A call denied before it changed anything   *)
(* just ends.  Lifetimes are compared once per call, with the clock the    *)
(* store is given too: they only refuse calls, so any call may be refused  *)
(* and there is no clock here.                                             *)
(***************************************************************************)
EXTENDS Integers, FiniteSets

CONSTANTS
    Threads,
    Requests,     \* names of the requests; the grant of a request is named after it
    Request,      \* their contents, by record of RequestType
    MaxGrants,    \* max_grants of the store
    MaxChanges    \* bound: changes of identity and risk

\* The store has a capacity.
ASSUME AccessAssumption == MaxGrants \in Nat

\* identity, risk: the versions the request was made under; permitted: classification,
\* scopes, policy and digests agree; evidenced: step-up and approval are authentic
RequestType ==
    [session : STRING, identity : Nat, risk : Nat, permitted : BOOLEAN, evidenced : BOOLEAN]

VARIABLES
    identity,    \* version and activity the identity provider reports
    risk,        \* version and verdict the risk provider reports
    grants,      \* _grants: status of the grant of each request
    calls,       \* the call each thread is in
    executions   \* history: permits given, by request

vars == <<identity, risk, grants, calls, executions>>
authority == <<identity, risk>>
store == <<grants, executions>>

Changes == identity.version + risk.version
Idle == [op |-> "idle"]
Goto(t, call) == calls' = [calls EXCEPT ![t] = call]
Finish(t) == Goto(t, Idle)

-----------------------------------------------------------------------------
(* The store *)

\* register: STORED; otherwise REPLAYED or COLLISION and nothing changes
Registrable(q) ==
    grants[q] = "absent" /\ Cardinality({x \in Requests : grants[x] # "absent"}) < MaxGrants

\* Mutant: only a consumed grant is refused.
ConsumableIfRevoked(q) == grants[q] \notin {"absent", "consumed"}

\* consume answers CONSUMED
Consumable(q) == grants[q] = "stored"

Consume(q) ==
    IF Consumable(q)
    THEN /\ grants' = [grants EXCEPT ![q] = "consumed"]
         /\ executions' = [executions EXCEPT ![q] = @ + 1]
    ELSE UNCHANGED store

\* revoke overwrites whatever state the grant is in
Revoked(q) == IF grants[q] = "absent" THEN "absent" ELSE "revoked"

-----------------------------------------------------------------------------
(* Live authority, read by both calls: _current_authority *)

\* the identity provider answers with an active identity, or else the call goes on with a
\* finding; when the provider is unavailable the call ends
IdentityStep(t, op, q) ==
    Goto(t, [op |-> op, request |-> q, identity |-> identity])

RiskStep(t) ==
    /\ calls[t].op \in {"issue identity", "execute identity"}
    /\ Goto(t, [op |-> IF calls[t].op = "issue identity" THEN "issue risk" ELSE "execute risk",
                request |-> calls[t].request,
                identity |-> calls[t].identity, risk |-> risk])
    /\ UNCHANGED <<authority, store>>

\* what the call saw is active, permitted and the state the request was made under
Unchanged(c) ==
    /\ c.identity = [version |-> Request[c.request].identity, active |-> TRUE]
    /\ c.risk = [version |-> Request[c.request].risk, blocked |-> FALSE]

-----------------------------------------------------------------------------
(* issue_grant, require_grant *)

\* _policy_findings, _step_up_findings, _approval_findings
Evidenced(q) == Request[q].permitted /\ Request[q].evidenced

IssueBegin(t, q) ==
    /\ calls[t] = Idle
    /\ Evidenced(q)
    /\ IdentityStep(t, "issue identity", q)
    /\ UNCHANGED <<authority, store>>

\* the backend allows the request and the grant is registered; or the call is blocked
IssueRegister(t) ==
    LET q == calls[t].request IN
    /\ calls[t].op = "issue risk"
    /\ Finish(t)
    /\ \/ /\ Unchanged(calls[t]) /\ Registrable(q)
          /\ grants' = [grants EXCEPT ![q] = "stored"]
       \/ UNCHANGED grants
    /\ UNCHANGED <<authority, executions>>

-----------------------------------------------------------------------------
(* authorize_execution, require_execution *)

\* _policy_findings, _grant_binding_findings
Bound(q) == Request[q].permitted /\ grants[q] # "absent"

ExecuteBegin(t, q) ==
    /\ calls[t] = Idle
    /\ Bound(q)
    /\ IdentityStep(t, "execute identity", q)
    /\ UNCHANGED <<authority, store>>

\* authority that changed revokes the grant; the store may raise, which is ignored
ExecuteRevoke(t) ==
    /\ calls[t].op = "execute risk" /\ ~Unchanged(calls[t])
    /\ Finish(t)
    /\ LET q == calls[t].request IN
       \/ grants' = [grants EXCEPT ![q] = Revoked(q)]
       \/ UNCHANGED grants
    /\ UNCHANGED <<authority, executions>>

\* the backend allows the action and the grant is consumed; or the call is blocked
ExecuteConsume(t) ==
    /\ calls[t].op = "execute risk" /\ Unchanged(calls[t])
    /\ Finish(t)
    /\ Consume(calls[t].request) \/ UNCHANGED store
    /\ UNCHANGED authority

-----------------------------------------------------------------------------
(* revoke_session, and the world the providers report *)

\* revoke_session of the store: grants that are stored, and only those
RevokeSession(s) ==
    /\ grants' = [q \in Requests |->
            IF Request[q].session = s /\ grants[q] = "stored" THEN Revoked(q) ELSE grants[q]]
    /\ UNCHANGED <<authority, calls, executions>>

\* a change of the identity or of its roles, a suspension or its end
IdentityChanges ==
    /\ Changes < MaxChanges
    /\ \E a \in BOOLEAN : identity' = [version |-> identity.version + 1, active |-> a]
    /\ UNCHANGED <<risk, store, calls>>

Suspended ==
    /\ identity' = [identity EXCEPT !.active = ~@]
    /\ UNCHANGED <<risk, store, calls>>

RiskChanges ==
    /\ Changes < MaxChanges
    /\ \E b \in BOOLEAN : risk' = [version |-> risk.version + 1, blocked |-> b]
    /\ UNCHANGED <<identity, store, calls>>

-----------------------------------------------------------------------------

\* MemoryPrivilegeGrantStateStore
Init ==
    /\ identity = [version |-> 0, active |-> TRUE]
    /\ risk = [version |-> 0, blocked |-> FALSE]
    /\ grants = [q \in Requests |-> "absent"]
    /\ calls = [t \in Threads |-> Idle]
    /\ executions = [q \in Requests |-> 0]

Next ==
    \/ \E t \in Threads, q \in Requests : IssueBegin(t, q) \/ ExecuteBegin(t, q)
    \/ \E t \in Threads :
        RiskStep(t) \/ IssueRegister(t) \/ ExecuteRevoke(t) \/ ExecuteConsume(t)
    \/ \E q \in Requests : RevokeSession(Request[q].session)
    \/ IdentityChanges \/ Suspended \/ RiskChanges

Spec == Init /\ [][Next]_vars

-----------------------------------------------------------------------------
(* Properties *)

Statuses == {"absent", "stored", "consumed", "revoked"}

\* The store stays within max_grants (register).
TypeOK ==
    /\ grants \in [Requests -> Statuses]
    /\ Cardinality({q \in Requests : grants[q] # "absent"}) <= MaxGrants

Token == [absent |-> "absent", stored |-> "live", consumed |-> "spent", revoked |-> "revoked"]

\* the grants as tokens that are used at most once
SingleGrants == INSTANCE SingleUse WITH
    Tokens <- Requests, state <- [q \in Requests |-> Token[grants[q]]], uses <- executions

\* A grant permits one action, and none after an execution that saw the identity, roles or
\* risk changed, or revoke_session, revoked it in the store, whatever calls were under way
\* (authorize_execution, consume, revoke, revoke_session).
GrantsUsedOnce == SingleGrants!Spec
=============================================================================
