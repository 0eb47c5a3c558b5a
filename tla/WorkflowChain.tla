---------------------------- MODULE WorkflowChain ---------------------------
(***************************************************************************)
(* WorkflowCheckpointSigner and PersistentWorkflowVerifier of              *)
(* src/trustrail/workflow_integrity.py: the signed chain of what a         *)
(* workflow has done, checkpoints over its end, and what the verifier      *)
(* accepts of what storage hands back.                                     *)
(*                                                                         *)
(* An entry or a checkpoint is known by its position: its digest covers    *)
(* every field.  Executors that lost sight of each other may both continue *)
(* one entry.  Storage hands out any sequence of signed entries with any   *)
(* signed checkpoint.  The claim of a checkpoint is in WorkflowResume.     *)
(***************************************************************************)
EXTENDS Integers, FiniteSets, Sequences

CONSTANTS
    Workflows,        \* workflow, tenant, agent, session and chain, as one
    Goals,            \* goal and plan, as one
    Limits,           \* budget limits
    Skew, MaxAge, MaxTtl, MaxChain, MaxPending,    \* of the policy
    KeyFrom, KeyEnd,  \* when the signing key is active
    Lifetimes,        \* lifetimes of checkpoints and of pending actions
    Explored, MaxNow  \* bounds: how many entries and checkpoints are signed at most, in pairs

VARIABLES
    now,
    entries,        \* entries signed
    checkpoints,    \* checkpoints signed
    anchor,         \* [Workflows -> the checkpoint the trusted context expects, 0 if none]
    revoked,        \* checkpoints revoked
    resumed         \* the last resume authorized, or NoResume

vars == <<now, entries, checkpoints, anchor, revoked, resumed>>

NoResume == [checkpoint |-> 0]

EntryType == [workflow : Workflows, goal : Goals, sequence : Nat, prior : Nat, at : Nat]
CheckpointType ==
    [workflow : Workflows, goal : Goals, number : Nat, prior : Nat, length : Nat, head : Nat,
     issued_at : Nat, expires_at : Nat, pending : SUBSET Nat, limit : Limits]

\* The entries from the first to entry e, as each names its predecessor.
History(e) ==
    LET to[i \in 0..Len(entries)] ==
            IF i = 0 THEN <<>> ELSE LET before == to[entries[i].prior] IN Append(before, i)
    IN  to[e]

-----------------------------------------------------------------------------
(* WorkflowCheckpointSigner *)

\* sign_entry: sequence and predecessor come from the entry before; 0 starts a chain
SignEntry(workflow, goal, prior, at) ==
    /\ <<Len(entries) + 1, Len(checkpoints)>> \in Explored
    /\ prior # 0 =>
        /\ entries[prior].workflow = workflow /\ entries[prior].goal = goal
        /\ entries[prior].at <= at
    /\ entries' = Append(entries,
            [workflow |-> workflow, goal |-> goal, sequence |-> IF prior = 0 THEN 0 ELSE entries[prior].sequence + 1,
             prior |-> prior, at |-> at])
    /\ UNCHANGED <<now, checkpoints, anchor, revoked, resumed>>

\* sign_checkpoint over a whole chain, after the checkpoint before
SignCheckpoint(workflow, goal, head, prior, lifetime, pending, limit) ==
    /\ <<Len(entries), Len(checkpoints) + 1>> \in Explored
    /\ prior # 0 => checkpoints[prior].workflow = workflow
    /\ checkpoints' = Append(checkpoints,
            [workflow |-> workflow, goal |-> goal, number |-> IF prior = 0 THEN 0 ELSE checkpoints[prior].number + 1,
             prior |-> prior, length |-> Len(History(head)), head |-> head, issued_at |-> now,
             expires_at |-> now + lifetime, pending |-> pending, limit |-> limit])
    /\ UNCHANGED <<now, entries, anchor, revoked, resumed>>

-----------------------------------------------------------------------------
(* PersistentWorkflowVerifier *)

\* _signature_findings: what the key signed while it was active
KeyActive(at) == KeyFrom <= at /\ at < KeyEnd

\* _checkpoint_findings
CheckpointValid(c) ==
    /\ KeyActive(checkpoints[c].issued_at)
    /\ checkpoints[c].issued_at <= now + Skew
    /\ now < checkpoints[c].expires_at
    /\ now - checkpoints[c].issued_at <= MaxAge + Skew
    /\ checkpoints[c].expires_at - checkpoints[c].issued_at <= MaxTtl

\* _context_findings: the workflow, the goal, and the checkpoint that is expected with its chain
Expected(c, workflow, goal, expected) ==
    checkpoints[c].workflow = workflow /\ checkpoints[c].goal = goal /\ c = expected

\* Mutant: entries are put in order by their numbers, not by the digests they name.
LinkedByNumber(chain) == \A i \in DOMAIN chain : entries[chain[i]].sequence = i - 1

\* each entry is the next and names the one before
Linked(chain) ==
    \A i \in DOMAIN chain :
        /\ entries[chain[i]].sequence = i - 1
        /\ entries[chain[i]].prior = IF i = 1 THEN 0 ELSE chain[i - 1]

\* Mutant: executors and verifier are to agree on the time.
TimedExactly(chain, c) ==
    \A i \in DOMAIN chain :
        /\ entries[chain[i]].at <= checkpoints[c].issued_at
        /\ i > 1 => entries[chain[i - 1]].at <= entries[chain[i]].at

\* no entry is later than the checkpoint or than now, and time does not go back
Timed(chain, c) ==
    \A i \in DOMAIN chain :
        /\ entries[chain[i]].at <= checkpoints[c].issued_at + Skew
        /\ entries[chain[i]].at <= now + Skew
        /\ i > 1 => entries[chain[i - 1]].at <= entries[chain[i]].at

\* _chain_findings
ChainValid(chain, c) ==
    /\ Len(chain) <= MaxChain /\ Len(chain) = checkpoints[c].length
    /\ \A i, j \in DOMAIN chain : i # j => chain[i] # chain[j]
    /\ Linked(chain)
    /\ \A i \in DOMAIN chain :
        /\ entries[chain[i]].workflow = checkpoints[c].workflow /\ entries[chain[i]].goal = checkpoints[c].goal
        /\ KeyActive(entries[chain[i]].at)
    /\ Timed(chain, c)
    /\ checkpoints[c].head = IF chain = <<>> THEN 0 ELSE chain[Len(chain)]

\* _pending_findings: nothing that waits has ended, and limits are those of the trusted policy
PendingValid(c, limit) ==
    /\ Cardinality(checkpoints[c].pending) <= MaxPending
    /\ \A end \in checkpoints[c].pending : now < end
    /\ checkpoints[c].limit = limit

\* verify_resume, up to the authorizer
Verified(c, chain, workflow, goal, expected, limit) ==
    /\ CheckpointValid(c)
    /\ Expected(c, workflow, goal, expected)
    /\ ChainValid(chain, c)
    /\ PendingValid(c, limit)
    /\ c \notin revoked    \* _revocation_findings

Resume(c, chain, workflow, goal, limit) ==
    /\ anchor[workflow] # 0
    /\ Verified(c, chain, workflow, goal, anchor[workflow], limit)
    /\ resumed' = [checkpoint |-> c, chain |-> chain, workflow |-> workflow, goal |-> goal,
                   anchor |-> anchor[workflow], at |-> now]
    /\ UNCHANGED <<now, entries, checkpoints, anchor, revoked>>

-----------------------------------------------------------------------------
(* The host *)

\* The trusted context takes note of a new checkpoint.
MoveAnchor(c) ==
    /\ LET w == checkpoints[c].workflow
       IN  anchor[w] < c /\ anchor' = [anchor EXCEPT ![w] = c]
    /\ UNCHANGED <<now, entries, checkpoints, revoked, resumed>>

Revoke(c) ==
    /\ revoked' = revoked \cup {c}
    /\ UNCHANGED <<now, entries, checkpoints, anchor, resumed>>

Tick == now < MaxNow /\ now' = now + 1 /\ UNCHANGED <<entries, checkpoints, anchor, revoked, resumed>>

-----------------------------------------------------------------------------
Init ==
    /\ now = 0 /\ entries = <<>> /\ checkpoints = <<>> /\ revoked = {} /\ resumed = NoResume
    /\ anchor = [w \in Workflows |-> 0]

Chains == UNION {[1..n -> DOMAIN entries] : n \in 0..Len(entries)}

Next ==
    \/ \E workflow \in Workflows, goal \in Goals :
        \/ \E prior \in 0..Len(entries), at \in now..now + Skew : SignEntry(workflow, goal, prior, at)
        \/ \E head \in 0..Len(entries), prior \in 0..Len(checkpoints), lifetime \in Lifetimes,
              pending \in {{}} \cup {{now + l} : l \in Lifetimes}, limit \in Limits :
            /\ head # 0 => entries[head].workflow = workflow
            /\ SignCheckpoint(workflow, goal, head, prior, lifetime, pending, limit)
        \/ \E c \in DOMAIN checkpoints, chain \in Chains, limit \in Limits :
            Resume(c, chain, workflow, goal, limit)
    \/ \E c \in DOMAIN checkpoints : MoveAnchor(c) \/ Revoke(c)
    \/ Tick

Spec == Init /\ [][Next]_vars

-----------------------------------------------------------------------------
(* Properties *)

TypeOK ==
    /\ \A e \in DOMAIN entries : entries[e] \in EntryType /\ entries[e].prior < e
    /\ \A c \in DOMAIN checkpoints : checkpoints[c] \in CheckpointType /\ checkpoints[c].prior < c
    /\ anchor \in [Workflows -> 0..Len(checkpoints)]
    /\ revoked \subseteq DOMAIN checkpoints

\* A workflow is resumed with what was done up to the checkpoint the trusted context expects: all of
\* it, in order and nothing else, also where executors continued one entry in two ways and storage
\* mixes them up, all of it done for the goal the workflow has now.
ResumedIsHistory ==
    resumed # NoResume =>
        LET c == resumed.checkpoint IN
        /\ c = resumed.anchor
        /\ resumed.chain = History(checkpoints[c].head)
        /\ \A i \in DOMAIN resumed.chain : entries[resumed.chain[i]].goal = resumed.goal

\* What was signed within the policy's limits can be resumed until it expires: the verifier, with the
\* same clock, refuses no checkpoint for its chain, though executors' clocks are ahead by the skew
\* allowed.
SignedIsResumable ==
    \A c \in DOMAIN checkpoints :
        LET chain == History(checkpoints[c].head)
            end == checkpoints[c].expires_at
        IN  /\ now < end /\ end - checkpoints[c].issued_at <= MaxTtl /\ now - checkpoints[c].issued_at <= MaxAge
            /\ \A i \in DOMAIN chain :
                entries[chain[i]].goal = checkpoints[c].goal /\ KeyActive(entries[chain[i]].at)
            /\ KeyActive(checkpoints[c].issued_at)
            /\ Len(chain) <= MaxChain /\ Cardinality(checkpoints[c].pending) <= MaxPending
            /\ \A pending \in checkpoints[c].pending : now < pending
            /\ c \notin revoked
            => Verified(c, chain, checkpoints[c].workflow, checkpoints[c].goal, c, checkpoints[c].limit)

=============================================================================
