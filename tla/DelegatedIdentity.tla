------------------------- MODULE DelegatedIdentity --------------------------
(***************************************************************************)
(* DelegatedIdentityAuthorizer of src/trustrail/delegated_identity.py: a   *)
(* chain of capabilities, each handed on by the holder of the one before,  *)
(* is checked link by link, against revocations, and against single-use    *)
(* grants for the scopes that need elevation.                              *)
(*                                                                         *)
(* authorize reads its clock and checks chain, shared revocation service   *)
(* and verifiers, then takes the lock, looks at revocations and grants     *)
(* again and consumes the grants: two steps.  What links and requests bind *)
(* besides scopes and lifetime (identity, tenant, audience, purpose,       *)
(* depth) is only a reason to refuse a call, so any call may be refused.   *)
(***************************************************************************)
EXTENDS Integers, FiniteSets

CONSTANTS
    Threads,
    Scopes,
    Elevated,     \* step_up_required_scopes and jit_required_scopes
    Grants,       \* identities of the out-of-band grants
    Chains,       \* the chains presented: sequences of capabilities, root first
    Requests,     \* the requests made, by record of DelegatedAccessRequest
    Depth,        \* capabilities in a chain
    Lifetimes,    \* expiry of the capabilities, by place in the chain
    MaxNow        \* bound: last clock value explored

Places == 1 .. Depth

DelegatedCapability ==
    {c \in [scopes : SUBSET Scopes \ {{}}, delegatable_scopes : SUBSET Scopes] :
        c.delegatable_scopes \subseteq c.scopes}

\* leaf: the place of the capability presented
DelegatedAccessRequest ==
    [leaf : Places, scopes : SUBSET Scopes \ {{}}, grants : SUBSET Grants]

Never == MaxNow + 2

VARIABLES
    now,
    capability,    \* the chain: root first
    revocations,   \* _revocations: revoked_at, by place
    used,          \* _used_grant_ids
    presented,     \* the authorize call of each thread
    requested,     \* history: earliest time a revocation was asked for, by place
    authorized,    \* history: the last request authorized
    uses           \* history: authorizations each grant was used for

vars == <<now, capability, revocations, used, presented, requested, authorized, uses>>
history == <<requested, authorized, uses>>

Nothing == [leaf |-> 0]

-----------------------------------------------------------------------------
(* The chain *)

\* _chain_link_findings
Narrowing(parent, child) == child.scopes \subseteq parent.delegatable_scopes

\* _chain_findings: integrity, lifetime and authenticity of every capability, and its link
ChainValid(leaf) ==
    \A i \in 1 .. leaf :
        /\ now < Lifetimes[i]
        /\ i > 1 => Narrowing(capability[i - 1], capability[i])

\* _local_revocation_findings
Revoked(leaf, at) == \E i \in 1 .. leaf : revocations[i] <= at

-----------------------------------------------------------------------------
(* authorize, require *)

\* _grant_findings, _validate_grant: elevated scopes need a grant, others must not have one
Elevation(scopes, grants) ==
    /\ scopes \cap Elevated = {} <=> grants = {}
    /\ grants \cap used = {}

\* _request_findings, and the findings made before the lock
AuthorizeBegin(t, r) ==
    /\ presented[t] = Nothing
    /\ ChainValid(r.leaf) /\ ~Revoked(r.leaf, now)
    /\ r.scopes \subseteq capability[r.leaf].scopes
    /\ Elevation(r.scopes, r.grants)
    /\ presented' = [presented EXCEPT ![t] =
            [leaf |-> r.leaf, scopes |-> r.scopes, grants |-> r.grants, at |-> now,
             cut |-> \E i \in 1 .. r.leaf : requested[i] <= now]]
    /\ UNCHANGED <<now, capability, revocations, used, history>>

\* _mutable_findings
Acceptable(r) == ~Revoked(r.leaf, r.at) /\ r.grants \cap used = {}

\* the shared revocation service or a verifier may still block the call
AuthorizeCommit(t) ==
    LET r == presented[t] IN
    /\ r # Nothing
    /\ presented' = [presented EXCEPT ![t] = Nothing]
    /\ \/ /\ Acceptable(r)
          /\ used' = used \cup r.grants
          /\ authorized' = r
          /\ uses' = [g \in Grants |-> IF g \in r.grants THEN uses[g] + 1 ELSE uses[g]]
       \/ UNCHANGED <<used, authorized, uses>>
    /\ UNCHANGED <<now, capability, revocations, requested>>

-----------------------------------------------------------------------------
(* revoke *)

Earlier(a, b) == IF a <= b THEN a ELSE b

\* a revocation that is recorded already stays when it is the earlier one
Recorded(i, at) == Earlier(revocations[i], at)

\* the time of a revocation may lie ahead
Revoke(i, at) ==
    /\ revocations' = [revocations EXCEPT ![i] = Recorded(i, at)]
    /\ requested' = [requested EXCEPT ![i] = Earlier(@, at)]
    /\ UNCHANGED <<now, capability, used, presented, authorized, uses>>

Tick ==
    /\ now < MaxNow /\ now' = now + 1
    /\ UNCHANGED <<capability, revocations, used, presented, history>>

-----------------------------------------------------------------------------

Init ==
    /\ now = 0
    /\ capability \in Chains
    /\ revocations = [i \in Places |-> Never] /\ requested = revocations
    /\ used = {} /\ authorized = Nothing /\ uses = [g \in Grants |-> 0]
    /\ presented = [t \in Threads |-> Nothing]

Next ==
    \/ \E t \in Threads, r \in Requests : AuthorizeBegin(t, r)
    \/ \E t \in Threads : AuthorizeCommit(t)
    \/ \E i \in Places, at \in now .. now + 1 : Revoke(i, at)
    \/ Tick

Spec == Init /\ [][Next]_vars

-----------------------------------------------------------------------------
(* Properties *)

\* The grants recorded as consumed are those that were used (authorize).
TypeOK ==
    /\ \A i \in Places : capability[i] \in DelegatedCapability
    /\ used = {g \in Grants : uses[g] > 0}

\* What is authorized at the end of a chain every capability before allowed to be handed
\* on, however many links lie between (_chain_findings, _chain_link_findings).
NoAmplification ==
    \A i \in 1 .. authorized.leaf - 1 :
        authorized.scopes \subseteq capability[i].delegatable_scopes

\* A grant elevates one request, whatever threads present it (_validate_grant,
\* _mutable_findings).
UsedOnce == \A g \in Grants : uses[g] <= 1

\* A call made at or after the earliest time for which a revocation of any capability of
\* its chain had been asked for is refused (revoke, _local_revocation_findings).
RevokedFromThenOn == authorized # Nothing => ~authorized.cut
=============================================================================
