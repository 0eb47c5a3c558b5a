------------------------- MODULE HighImpactApproval -------------------------
(***************************************************************************)
(* HighImpactApprovalGate and MemoryHighImpactApprovalStateStore of        *)
(* src/trustrail/high_impact_approval.py: the prompts shown to a reviewer  *)
(* are limited by a sliding window, and an approval is consumed by its     *)
(* nonce, which the store forgets clock_skew_seconds after the approval's  *)
(* end.                                                                    *)
(*                                                                         *)
(* authorize reads its clock first and claims the nonce last, with the     *)
(* application's verifier called between: two steps.  Only computation     *)
(* lies between the clock of prepare and the store, one step.  Digests are *)
(* equal or not: a preview stands for the plan and its rendered text.      *)
(***************************************************************************)
EXTENDS Integers, Sequences, FiniteSets

CONSTANTS
    Threads,
    Reviewed,       \* fatigue keys: actor, tenant and session
    Previews,
    Approval,       \* the approvals presented, by name: records of ApprovalType
    Window, MaxPrompts, MaxRepeated,      \* of the policy
    Skew, Ttl,      \* clock_skew_seconds, max_approval_ttl_seconds
    MaxKeys, MaxNonces,                   \* capacities of the store
    MaxLag,         \* assumption: how long a call may take from its clock to its claim
    MaxNow          \* bound: last clock value explored

Approvals == DOMAIN Approval   \* each has its own nonce

\* bound: the digests, policy, actor, context and approver are those of the plan
ApprovalType ==
    [issued_at : Nat, expires_at : Nat, bound : BOOLEAN, genuine : BOOLEAN]

VARIABLES
    now,
    prompts,     \* _prompts
    approvals,   \* _approvals: retained until, by approval; 0 when absent
    reviews,     \* the authorize call of each thread
    prompted,    \* history: every prompt shown, by key
    claimed      \* history: claims that succeeded, by approval

vars == <<now, prompts, approvals, reviews, prompted, claimed>>

NoReview == [approval |-> "none", at |-> 0]

-----------------------------------------------------------------------------
(* prepare, record_prompt *)

InWindow(at) == at > now - Window

\* the deque of each key without its expired head
Recent(key) ==
    LET fresh == {i \in DOMAIN prompts[key] : InWindow(prompts[key][i].at)}
    IN  SubSeq(prompts[key], Len(prompts[key]) - Cardinality(fresh) + 1, Len(prompts[key]))

Promptable(key, preview) ==
    LET shown == Recent(key) IN
    /\ shown = <<>> => Cardinality({k \in Reviewed : Recent(k) # <<>>}) < MaxKeys
    /\ Len(shown) < MaxPrompts
    /\ Cardinality({i \in DOMAIN shown : shown[i].preview = preview}) < MaxRepeated

\* FATIGUE and FULL block the preview, but expired prompts are gone for every key
Prepare(key, preview) ==
    LET prompt == [at |-> now, preview |-> preview]
        added(k, s) == IF k = key /\ Promptable(key, preview) THEN Append(s, prompt) ELSE s
    IN  /\ prompts' = [k \in Reviewed |-> added(k, Recent(k))]
        /\ prompted' = [k \in Reviewed |-> added(k, prompted[k])]
        /\ UNCHANGED <<now, approvals, reviews, claimed>>

-----------------------------------------------------------------------------
(* authorize, require *)

\* _approval_binding_failure
Accepted(a) ==
    /\ Approval[a].bound
    /\ Approval[a].issued_at <= now + Skew
    /\ now < Approval[a].expires_at
    /\ Approval[a].expires_at - Approval[a].issued_at <= Ttl

AuthorizeBegin(t, a) ==
    /\ reviews[t] = NoReview
    /\ Accepted(a)
    /\ reviews' = [reviews EXCEPT ![t] = [approval |-> a, at |-> now]]
    /\ UNCHANGED <<now, prompts, approvals, prompted, claimed>>

\* Mutant: the nonce is forgotten when the approval ends.
RetainedUntilExpiry(a) == Approval[a].expires_at

RetainedUntil(a) == Approval[a].expires_at + Skew

\* claims the call's clock does not find expired
Live(at) == [a \in Approvals |-> IF approvals[a] > at THEN approvals[a] ELSE 0]

\* claim_approval
Claim(a, at) ==
    LET live == Live(at) IN
    IF live[a] = 0 /\ Cardinality({b \in Approvals : live[b] > 0}) < MaxNonces
    THEN /\ approvals' = [live EXCEPT ![a] = RetainedUntil(a)]
         /\ claimed' = [claimed EXCEPT ![a] = @ + 1]
    ELSE approvals' = live /\ UNCHANGED claimed

\* the verifier vouches for the approval and the nonce is claimed; or it does not, or raises
AuthorizeClaim(t) ==
    LET c == reviews[t] IN
    /\ c # NoReview
    /\ reviews' = [reviews EXCEPT ![t] = NoReview]
    /\ IF Approval[c.approval].genuine
       THEN Claim(c.approval, c.at)
       ELSE UNCHANGED <<approvals, claimed>>
    /\ UNCHANGED <<now, prompts, prompted>>

\* time passes, but no call takes longer than MaxLag
Tick ==
    /\ now < MaxNow
    /\ \A t \in Threads : reviews[t] # NoReview => now - reviews[t].at < MaxLag
    /\ now' = now + 1
    /\ UNCHANGED <<prompts, approvals, reviews, prompted, claimed>>

-----------------------------------------------------------------------------

Init ==
    /\ now = 0
    /\ prompts = [k \in Reviewed |-> <<>>] /\ prompted = prompts
    /\ approvals = [a \in Approvals |-> 0] /\ claimed = approvals
    /\ reviews = [t \in Threads |-> NoReview]

Next ==
    \/ \E key \in Reviewed, preview \in Previews : Prepare(key, preview)
    \/ \E t \in Threads, a \in Approvals : AuthorizeBegin(t, a)
    \/ \E t \in Threads : AuthorizeClaim(t)
    \/ Tick

Spec == Init /\ [][Next]_vars

-----------------------------------------------------------------------------
(* Properties *)

\* The store keeps within its capacities (record_prompt, claim_approval).
TypeOK ==
    /\ Cardinality({k \in Reviewed : prompts[k] # <<>>}) <= MaxKeys
    /\ Cardinality({a \in Approvals : approvals[a] > 0}) <= MaxNonces

\* In no window is a reviewer shown more than max_prompts_per_window prompts, or one
\* preview more often than max_repeated_preview_prompts (prepare, record_prompt).
PromptsLimited ==
    \A k \in Reviewed, end \in 0 .. MaxNow :
        LET shown == {i \in DOMAIN prompted[k] : prompted[k][i].at \in end - Window + 1 .. end} IN
        /\ Cardinality(shown) <= MaxPrompts
        /\ \A p \in Previews : Cardinality({i \in shown : prompted[k][i].preview = p}) <= MaxRepeated

\* An approval authorizes one plan, whichever threads present it, as long as no call takes
\* longer than the policy's clock skew (authorize, claim_approval).
UsedOnce == \A a \in Approvals : claimed[a] <= 1
=============================================================================
