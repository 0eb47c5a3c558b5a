------------------------------ MODULE MCPOAuth ------------------------------
(***************************************************************************)
(* MCPOAuthResourceServer, MemoryMCPOAuthReplayStore and                   *)
(* MCPOAuthDownstreamBroker of src/trustrail/mcp_oauth.py: an access token *)
(* is claimed once for one request, then the request is authorized within  *)
(* the token and the tool's policy, and what was authorized obtains        *)
(* credentials of downstream services.                                     *)
(*                                                                         *)
(* The clock is read before the token is validated and claimed: two steps. *)
(* The rest of the call changes nothing that is shared.  Signatures,       *)
(* issuer, audience and identities match.                                  *)
(***************************************************************************)
EXTENDS Integers, Sequences, FiniteSets

CONSTANTS
    Threads, Scopes, Resources,
    Tokens,          \* access tokens: records of TokenType
    ToolPolicy,      \* by tool: records of ToolPolicyType
    ListScope,       \* tools_list_scope
    MaxTtl, MaxAge, Skew,            \* of the policy, seconds
    MaxEntries,      \* capacity of the store
    MaxNow           \* bound: last clock value explored

Tools == DOMAIN ToolPolicy

TokenType ==
    [id : STRING, issued_at : Nat, expires_at : Nat,
     scopes : SUBSET Scopes, resources : SUBSET Resources]

ToolPolicyType ==
    [required_scopes : SUBSET Scopes, allowed_resources : SUBSET Resources,
     takes_resource : BOOLEAN]   \* bound: at most one resource argument

NoResource == "no resource"
ListTools == "tools/list"

VARIABLES
    now,
    entries,      \* _entries: token ids and until when
    requests,     \* the authorize call of each thread
    claimed,      \* history: tokens claimed and when, in order
    authorized,   \* what the server authorized and the application holds
    credentials   \* history: what the broker issued, and for which authorization

vars == <<now, entries, requests, claimed, authorized, credentials>>

Idle == [at |-> -1]

-----------------------------------------------------------------------------
(* MCPOAuthResourceServer *)

Valid(token) ==
    /\ token.issued_at <= now + Skew
    /\ token.expires_at > now - Skew
    /\ token.expires_at - token.issued_at <= MaxTtl
    /\ now - token.issued_at <= MaxAge + Skew

\* resource: the argument of the call; NoResource when it takes none or it is missing
RequestBegin(t, token, tool, resource) ==
    /\ requests[t] = Idle
    /\ Valid(token)
    /\ requests' = [requests EXCEPT ![t] =
                       [token |-> token, tool |-> tool, resource |-> resource, at |-> now]]
    /\ UNCHANGED <<now, entries, claimed, authorized, credentials>>

ArgumentAuthorized(token, policy, resource) ==
    policy.takes_resource => resource \in policy.allowed_resources \cap token.resources

CallAuthorized(token, tool, resource) ==
    LET policy == ToolPolicy[tool] IN
    /\ policy.required_scopes \subseteq token.scopes
    /\ ArgumentAuthorized(token, policy, resource)

ListAuthorized(token) == ListScope \in token.scopes

RetainedUntil(token) == token.expires_at + Skew

\* the token is consumed also when the request is then refused
RequestClaim(t) ==
    LET call == requests[t]
        token == call.token
        live == {e \in entries : e.until > call.at}
        stored == token.id \notin {e.id : e \in live} /\ Cardinality(live) < MaxEntries
        granted == IF call.tool = ListTools
                   THEN ListAuthorized(token)
                   ELSE CallAuthorized(token, call.tool, call.resource)
        argument == IF call.tool # ListTools /\ ToolPolicy[call.tool].takes_resource
                    THEN {call.resource} ELSE {}
    IN
    /\ call # Idle
    /\ requests' = [requests EXCEPT ![t] = Idle]
    /\ entries' = IF stored THEN live \cup {[id |-> token.id, until |-> RetainedUntil(token)]}
                            ELSE live
    /\ claimed' = IF stored THEN Append(claimed, [token |-> token, at |-> now]) ELSE claimed
    /\ authorized' = IF stored /\ granted
                     THEN authorized \cup {[tool |-> call.tool, token |-> token, argument |-> argument]}
                     ELSE authorized
    /\ UNCHANGED <<now, credentials>>

-----------------------------------------------------------------------------
(* MCPOAuthDownstreamBroker *)

Downstream(a, resource) ==
    IF a.argument # {} THEN resource \in a.argument
    ELSE resource = NoResource \/ resource \in a.token.resources

\* acquire; the provider may fail, and then nothing is issued
Acquire(a, resource, scopes) ==
    /\ a.tool # ListTools
    /\ Downstream(a, resource)
    /\ now < a.token.expires_at
    /\ scopes \subseteq a.token.scopes
    /\ credentials' = credentials \cup {[of |-> a, resource |-> resource]}
    /\ UNCHANGED <<now, entries, requests, claimed, authorized>>

Tick ==
    /\ now < MaxNow
    /\ now' = now + 1
    /\ UNCHANGED <<entries, requests, claimed, authorized, credentials>>

-----------------------------------------------------------------------------

Init ==
    /\ now = 0
    /\ entries = {}
    /\ requests = [t \in Threads |-> Idle]
    /\ claimed = <<>>
    /\ authorized = {} /\ credentials = {}

Next ==
    \/ \E t \in Threads, token \in Tokens, tool \in Tools \cup {ListTools},
          resource \in Resources \cup {NoResource} : RequestBegin(t, token, tool, resource)
    \/ \E t \in Threads : RequestClaim(t)
    \/ \E a \in authorized, resource \in Resources \cup {NoResource}, scopes \in SUBSET Scopes :
          Acquire(a, resource, scopes)
    \/ Tick

Spec == Init /\ [][Next]_vars

-----------------------------------------------------------------------------
(* Properties *)

\* The store keeps within its capacity (MemoryMCPOAuthReplayStore).
TypeOK == Cardinality(entries) <= MaxEntries

\* A token serves one request while it can be valid, and is spent by a refused one too
\* (authorize_tool_call, authorize_tools_list, claim).
AcceptedOnce ==
    \A i, j \in DOMAIN claimed :
        LET token == claimed[i].token IN
        /\ i < j
        /\ claimed[j].at < token.expires_at + Skew
        => claimed[j].token # token

\* Downstream authority never exceeds the call: a tool that names its resource obtains
\* credentials of this resource only, which both its policy and the token allow
\* (_argument_resources, acquire).
NoWiderDownstream ==
    \A c \in credentials :
        ToolPolicy[c.of.tool].takes_resource =>
            c.resource \in ToolPolicy[c.of.tool].allowed_resources \cap c.of.token.resources
=============================================================================
