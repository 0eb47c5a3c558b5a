--------------------------- MODULE WorkflowResume ---------------------------
(***************************************************************************)
(* PersistentWorkflowVerifier, MemoryWorkflowResumeStateStore and          *)
(* MemoryWorkflowRevocationProvider of src/trustrail/workflow_integrity.py:*)
(* a workflow that was interrupted is resumed from a signed checkpoint,    *)
(* each checkpoint once and in sequence, as far as the store remembers.    *)
(*                                                                         *)
(* verify_resume reads its clock first, asks the revocation provider, then *)
(* the application's authorizer, and claims last: two steps.  What persists*)
(* checkpoints may hand out any of them, also an older one.  Signatures,   *)
(* contexts and execution chains match.                                    *)
(***************************************************************************)
EXTENDS Integers, Sequences, FiniteSets

CONSTANTS
    Threads, Workflows,
    Checkpoints,     \* signed checkpoints: records of CheckpointType
    MaxAge, MaxTtl, Skew,            \* of the policy, seconds
    MaxWorkflows, MaxClaims,         \* capacities of the store
    Revocable,       \* bound: workflows and checkpoints that may be revoked
    MaxNow           \* bound: last clock value explored

\* PendingActionBinding and PendingApprovalBinding: what was begun, for a while
PendingType ==
    {binding \in [from : Nat, expires_at : Nat] : binding.expires_at > binding.from}

CheckpointType ==
    [id : STRING, workflow : Workflows, sequence : Nat,
     issued_at : Nat, expires_at : Nat, pending : SUBSET PendingType]

VARIABLES
    now,
    claims,      \* _claims: checkpoints claimed
    latest,      \* _workflows: the checkpoint claimed last, by workflow
    revoked,     \* workflows and checkpoints revoked
    resuming,    \* the verify_resume call of each thread
    resumed      \* history: checkpoints resumed and when, in order

vars == <<now, claims, latest, revoked, resuming, resumed>>

Nothing == [id |-> "none", sequence |-> -1, expires_at |-> 0]
Idle == [at |-> -1]

-----------------------------------------------------------------------------

Valid(c) ==
    /\ c.issued_at <= now + Skew
    /\ now < c.expires_at
    /\ now - c.issued_at <= MaxAge + Skew
    /\ c.expires_at - c.issued_at <= MaxTtl
    /\ \A binding \in c.pending : now < binding.expires_at

NotRevoked(c) == {c.workflow, c.id} \cap revoked = {}

ResumeBegin(t, c) ==
    /\ resuming[t] = Idle
    /\ Valid(c) /\ NotRevoked(c)
    /\ resuming' = [resuming EXCEPT ![t] = [checkpoint |-> c, at |-> now]]
    /\ UNCHANGED <<now, claims, latest, revoked, resumed>>

LiveClaims(at) == {c \in claims : c.expires_at > at}
LiveLatest(at) == [w \in Workflows |-> IF latest[w].expires_at > at THEN latest[w] ELSE Nothing]

Follows(c, last) == last # Nothing => c.sequence = last.sequence + 1

\* claim_resume: REPLAYED, ROLLBACK, COLLISION, OUT_OF_ORDER and FULL only forget
ResumeClaim(t) ==
    LET c == resuming[t].checkpoint
        at == resuming[t].at
        live == LiveClaims(at)
        known == LiveLatest(at)
        last == known[c.workflow]
        claimed ==
            /\ c \notin live
            /\ Follows(c, last)
            /\ Cardinality(live) < MaxClaims
            /\ last = Nothing =>
                   Cardinality({w \in Workflows : known[w] # Nothing}) < MaxWorkflows
    IN
    /\ resuming[t] # Idle
    /\ resuming' = [resuming EXCEPT ![t] = Idle]
    /\ IF claimed
       THEN /\ claims' = live \cup {c}
            /\ latest' = [known EXCEPT ![c.workflow] = c]
            /\ resumed' = Append(resumed, [checkpoint |-> c, at |-> now])
       ELSE claims' = live /\ latest' = known /\ UNCHANGED resumed
    /\ UNCHANGED <<now, revoked>>

\* the authorizer denies or fails: nothing is claimed
ResumeDenied(t) ==
    /\ resuming[t] # Idle
    /\ resuming' = [resuming EXCEPT ![t] = Idle]
    /\ UNCHANGED <<now, claims, latest, revoked, resumed>>

Revoke(x) ==
    /\ x \notin revoked
    /\ revoked' = revoked \cup {x}
    /\ UNCHANGED <<now, claims, latest, resuming, resumed>>

Tick ==
    /\ now < MaxNow
    /\ now' = now + 1
    /\ UNCHANGED <<claims, latest, revoked, resuming, resumed>>

-----------------------------------------------------------------------------

Init ==
    /\ now = 0
    /\ claims = {}
    /\ latest = [w \in Workflows |-> Nothing]
    /\ revoked = {}
    /\ resuming = [t \in Threads |-> Idle]
    /\ resumed = <<>>

Next ==
    \/ \E t \in Threads, c \in Checkpoints : ResumeBegin(t, c)
    \/ \E t \in Threads : ResumeClaim(t) \/ ResumeDenied(t)
    \/ \E x \in Revocable : Revoke(x)
    \/ Tick

Spec == Init /\ [][Next]_vars

-----------------------------------------------------------------------------
(* Properties *)

\* The store keeps within its capacities (MemoryWorkflowResumeStateStore).
TypeOK ==
    /\ Cardinality(claims) <= MaxClaims
    /\ Cardinality({w \in Workflows : latest[w] # Nothing}) <= MaxWorkflows

Earlier(i, j) ==
    /\ i < j
    /\ resumed[i].checkpoint.workflow = resumed[j].checkpoint.workflow

\* A checkpoint that is still valid is not resumed again, whatever was resumed between and
\* however slow a call is (claim_resume).
AcceptedOnce ==
    \A i, j \in DOMAIN resumed :
        Earlier(i, j) /\ resumed[j].at < resumed[i].checkpoint.expires_at =>
            resumed[i].checkpoint # resumed[j].checkpoint

\* As long as the checkpoint resumed last is valid, the workflow goes on with the next one
\* (claim_resume).
StepByStep ==
    \A i, j \in DOMAIN resumed :
        /\ Earlier(i, j)
        /\ \A k \in i + 1 .. j - 1 : ~ Earlier(i, k)
        /\ resumed[j].at < resumed[i].checkpoint.expires_at
        => resumed[j].checkpoint.sequence = resumed[i].checkpoint.sequence + 1
=============================================================================
