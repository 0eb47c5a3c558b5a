-------------------------- MODULE BrowserIsolation --------------------------
(***************************************************************************)
(* BrowserIsolationGuard and MemoryBrowserAuthorizationStateStore of       *)
(* src/trustrail/browser_isolation.py: an action proposed by a model is    *)
(* checked against its session, previewed, approved when it is sensitive,  *)
(* and authorized by claiming its request id and its approval, all or none.*)
(*                                                                         *)
(* authorize_action reads its clock first and claims last, with the        *)
(* application's approval verifier called between: two steps.  Signatures  *)
(* and digests match or not; an approval names the content it was given.   *)
(***************************************************************************)
EXTENDS Naturals, Sequences

CONSTANTS
    Threads,
    Sessions,       \* session manifests by name: records of SessionType
    Requests,       \* action requests presented: records of RequestType
    Approvals,      \* approvals presented: records of ApprovalType
    Origins,
    MaxRequestAge, MaxObservationAge, MaxApprovalAge, MaxAuthorization,  \* of the policy, seconds
    MaxLag,         \* assumption: how long a call may take from its clock to its claim
    MaxNow          \* bound: last clock value explored

Ids == {r.id : r \in Requests}

SessionType ==
    [issued_at : Nat, expires_at : Nat, sound : BOOLEAN,   \* signature, policy and controls
     allowed_origins : SUBSET Origins,
     edges : SUBSET [source : Origins, destination : Origins, allow_sensitive : BOOLEAN]]

\* flow: the origin the typed data come from; captured_at and clear: the element observed
RequestType ==
    [id : Ids, session : DOMAIN Sessions, content : STRING, requested_at : Nat,
     target : Origins, source : Origins, contains_sensitive_data : BOOLEAN,
     captured_at : Nat, clear : BOOLEAN, sensitive_action : BOOLEAN]

ApprovalType ==
    [name : STRING, id : Ids, content : STRING, issued_at : Nat, expires_at : Nat,
     genuine : BOOLEAN]

NoApproval == [name |-> "no approval"]

Claims == Ids \cup {a.name : a \in Approvals}

VARIABLES
    now,
    claims,      \* _claims: live until, by claim; 0 when absent
    actions,     \* the authorize_action call of each thread
    authorized   \* history: authorizations live when returned

vars == <<now, claims, actions, authorized>>

NoAction == [at |-> 0]

-----------------------------------------------------------------------------
(* What a request must satisfy *)

SessionValid(s) ==
    /\ s.issued_at <= now /\ now < s.expires_at
    /\ s.sound

ObservationValid(r) ==
    /\ r.captured_at <= now /\ now - r.captured_at <= MaxObservationAge
    /\ r.clear

DataFlowAllowed(r, s) ==
    r.source # r.target =>
        \E e \in s.edges :
            /\ e.source = r.source /\ e.destination = r.target
            /\ r.contains_sensitive_data => e.allow_sensitive

RequestValid(r) ==
    LET s == Sessions[r.session] IN
    /\ SessionValid(s)
    /\ r.requested_at <= now /\ now - r.requested_at <= MaxRequestAge
    /\ r.target \in s.allowed_origins
    /\ ObservationValid(r)
    /\ DataFlowAllowed(r, s)

ApprovalRequired(r) == r.sensitive_action \/ r.contains_sensitive_data

ApprovalValid(r, a) ==
    IF ApprovalRequired(r)
    THEN /\ a # NoApproval
         /\ a.id = r.id /\ a.content = r.content
         /\ a.issued_at <= now /\ now < a.expires_at
         /\ now - a.issued_at <= MaxApprovalAge
         /\ a.genuine
    ELSE a = NoApproval

-----------------------------------------------------------------------------
(* authorize_action, require_action *)

\* the preview is made anew and is that of the content approved; else nothing changes
AuthorizeBegin(t, r, a) ==
    /\ actions[t] = NoAction
    /\ RequestValid(r)
    /\ ApprovalValid(r, a)
    /\ actions' = [actions EXCEPT ![t] = [request |-> r, approval |-> a, at |-> now]]
    /\ UNCHANGED <<now, claims, authorized>>

Expiry(r, at) ==
    LET end == Sessions[r.session].expires_at IN
    IF at + MaxAuthorization < end THEN at + MaxAuthorization ELSE end

Live(at) == [c \in Claims |-> IF claims[c] > at THEN claims[c] ELSE 0]

\* claim_many: every key, or none
AuthorizeClaim(t) ==
    LET call == actions[t]
        r == call.request
        keys == {r.id} \cup ({call.approval.name} \ {NoApproval.name})
        expiry == Expiry(r, call.at)
        live == Live(call.at)
    IN
    /\ call # NoAction
    /\ actions' = [actions EXCEPT ![t] = NoAction]
    /\ IF \E k \in keys : live[k] > 0
       THEN claims' = live /\ UNCHANGED authorized
       ELSE /\ claims' = [k \in Claims |-> IF k = r.id THEN expiry
                                           ELSE IF k \in keys THEN call.approval.expires_at
                                           ELSE live[k]]
            /\ authorized' = IF expiry > now THEN Append(authorized, call) ELSE authorized
    /\ UNCHANGED now

\* time passes, but no call takes longer than MaxLag
Tick ==
    /\ now < MaxNow
    /\ \A t \in Threads : actions[t] # NoAction => now - actions[t].at < MaxLag
    /\ now' = now + 1
    /\ UNCHANGED <<claims, actions, authorized>>

-----------------------------------------------------------------------------

Init ==
    /\ now = 0
    /\ claims = [c \in Claims |-> 0]
    /\ actions = [t \in Threads |-> NoAction]
    /\ authorized = <<>>

Next ==
    \/ \E t \in Threads, r \in Requests, a \in Approvals \cup {NoApproval} : AuthorizeBegin(t, r, a)
    \/ \E t \in Threads : AuthorizeClaim(t)
    \/ Tick

Spec == Init /\ [][Next]_vars

-----------------------------------------------------------------------------
(* Properties *)

\* Of one request no two authorizations live at once, though calls overlap and its content is
\* exchanged.  Nor is there ever a second one, for the request as it was made or for its approval,
\* where authorizations outlive requests by more than a call takes (claim_many).
UsedOnce ==
    \A i, j \in DOMAIN authorized :
        LET a == authorized[i]  b == authorized[j] IN
        i # j =>
            /\ a.request.id = b.request.id =>
                now >= Expiry(a.request, a.at) \/ now >= Expiry(b.request, b.at)
            /\ MaxAuthorization > MaxRequestAge + MaxLag =>
                /\ <<a.request.id, a.request.requested_at>> # <<b.request.id, b.request.requested_at>>
                /\ a.approval # b.approval \/ a.approval = NoApproval
=============================================================================
