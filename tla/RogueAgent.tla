----------------------------- MODULE RogueAgent -----------------------------
(***************************************************************************)
(* RogueAgentRuntimeMonitor of src/trustrail/rogue_agent.py: the events of *)
(* one agent, judged in sequence against a signed manifest, stopping,      *)
(* containment and recovery.  Every call holds the lock, the containment   *)
(* hooks included, so it is one action.                                    *)
(***************************************************************************)
EXTENDS Integers, FiniteSets, Sequences

CONSTANTS
    MaxActions,        \* max_actions of the capability ceiling
    MaxProbes,         \* max_boundary_probes
    Grace,             \* shutdown_grace_events
    Grants,            \* recovery grants: id, quarantined and replacement revision
    MaxSequence        \* bound: events under one manifest

VARIABLES
    status,            \* _status
    revision,          \* revision of _manifest
    next_sequence,     \* _next_sequence
    actions,           \* _action_count; communications and capabilities count alike
    probes,            \* _boundary_probes
    stop_deadline,     \* _stop_deadline_sequence, -1 without a stop request
    used,              \* _used_recovery_grants
    allowed,           \* history: actions allowed under this manifest
    allowed_stopping,  \* history: events but the acknowledgement allowed since the stop
    resumed            \* history: grants that resumed the agent

vars == <<status, revision, next_sequence, actions, probes, stop_deadline, used,
          allowed, allowed_stopping, resumed>>

Statuses == {"active", "stopping", "suspended", "quarantined"}

\* in_sequence: the event carries the next number, its context and digest are right and
\* the manifest is valid; permitted: action, tool, peer or capability is in the manifest;
\* denied: a boundary refused it; disclosed: the agent reported it
Events == [kind : {"action", "self_modification", "acknowledged"}, in_sequence : BOOLEAN,
           permitted : BOOLEAN, denied : BOOLEAN, disclosed : BOOLEAN]

-----------------------------------------------------------------------------
(* evaluate *)

\* the grace period of a stop request is over
Overdue(event) == stop_deadline >= 0 /\ next_sequence >= stop_deadline

Acknowledges(event) == status = "stopping" /\ event.kind = "acknowledged"

\* _behavior_findings ends early for an acknowledgement and for resistance to a stop
Counted(event) ==
    IF status = "stopping"
    THEN event.kind # "acknowledged" /\ ~Overdue(event)
    ELSE event.kind # "acknowledged"

Probes(event) == probes + IF Counted(event) /\ event.denied THEN 1 ELSE 0

Actions(event) == actions + IF Counted(event) /\ event.kind = "action" THEN 1 ELSE 0

\* findings that always contain the agent
Critical(event) ==
    \/ ~event.disclosed
    \/ status = "stopping" /\ event.kind # "acknowledged" /\ Overdue(event)
    \/ status # "stopping" /\ event.kind = "acknowledged"
    \/ Probes(event) > MaxProbes
    \/ Counted(event) /\ event.kind = "action" /\ Actions(event) > MaxActions
    \/ Counted(event) /\ event.kind = "self_modification" /\ ~event.permitted

\* finding that contains it unless a boundary denied the action already
Violation(event) == Counted(event) /\ event.kind = "action" /\ ~event.permitted

MustContain(event) == Critical(event) \/ (Violation(event) /\ ~event.denied)

\* an event out of order, or one of an agent that is not active: the former contains
Refused(event) ==
    /\ ~event.in_sequence \/ status \in {"suspended", "quarantined"}
    /\ status' = IF event.in_sequence THEN status ELSE "quarantined"
    /\ UNCHANGED <<next_sequence, actions, probes, allowed, allowed_stopping>>

Judged(event) ==
    /\ event.in_sequence /\ status \in {"active", "stopping"}
    /\ next_sequence < MaxSequence
    /\ next_sequence' = next_sequence + 1
    /\ probes' = Probes(event)
    /\ actions' = Actions(event)
    /\ status' = IF MustContain(event) THEN "quarantined"
                 ELSE IF Acknowledges(event) THEN "suspended" ELSE status
    /\ IF MustContain(event) \/ Violation(event)
       THEN UNCHANGED <<allowed, allowed_stopping>>
       ELSE /\ allowed' = allowed + IF event.kind = "action" THEN 1 ELSE 0
            /\ allowed_stopping' = allowed_stopping +
                 IF status = "stopping" /\ ~Acknowledges(event) THEN 1 ELSE 0

Evaluate(event) ==
    /\ Refused(event) \/ Judged(event)
    /\ UNCHANGED <<revision, stop_deadline, used, resumed>>

-----------------------------------------------------------------------------
(* request_shutdown and recover *)

RequestShutdown ==
    /\ status = "active"
    /\ status' = "stopping"
    /\ stop_deadline' = next_sequence + Grace
    /\ UNCHANGED <<revision, next_sequence, actions, probes, used, allowed, allowed_stopping,
                   resumed>>

\* the grant is authentic, unused and bound to this manifest and its replacement
Recoverable(grant) ==
    /\ grant.id \notin used
    /\ grant.quarantined = revision
    /\ grant.replacement > revision

Recover(grant) ==
    /\ status = "quarantined"
    /\ Recoverable(grant)
    /\ used' = used \cup {grant.id}
    /\ revision' = grant.replacement
    /\ status' = "active"
    /\ next_sequence' = 0 /\ actions' = 0 /\ probes' = 0 /\ stop_deadline' = -1
    /\ allowed' = 0 /\ allowed_stopping' = 0
    /\ resumed' = Append(resumed, grant)

Init ==
    /\ status = "active"
    /\ revision = 1
    /\ next_sequence = 0 /\ actions = 0 /\ probes = 0 /\ stop_deadline = -1
    /\ used = {}
    /\ allowed = 0 /\ allowed_stopping = 0
    /\ resumed = <<>>

Next ==
    \/ \E event \in Events : Evaluate(event)
    \/ RequestShutdown
    \/ \E grant \in Grants : Recover(grant)

Spec == Init /\ [][Next]_vars

-----------------------------------------------------------------------------
(* Properties *)

\* Type invariant of the monitor.
TypeOK ==
    /\ status \in Statuses
    /\ revision \in Nat /\ next_sequence \in 0..MaxSequence
    /\ actions \in 0..MaxSequence /\ probes \in 0..MaxSequence
    /\ stop_deadline \in -1..MaxSequence + Grace
    /\ used \subseteq {grant.id : grant \in Grants}

\* After a stop request the agent gets no more than its grace, whatever it mixes into its
\* events: denied probes, actions the boundary stopped, events out of order.
StopBounded == allowed_stopping <= Grace

\* The ceiling of actions holds from recovery to recovery, and what a boundary denied has
\* used it up too.
CeilingHolds == allowed <= MaxActions /\ (status = "active" => actions <= MaxActions)

\* An agent is resumed by the grants of an unbroken chain: each was issued for the policy
\* that the one before it had put in place.
ResumedInChain ==
    /\ \A i \in 1..Len(resumed) - 1 : resumed[i + 1].quarantined = resumed[i].replacement
    /\ Len(resumed) > 0 => resumed[Len(resumed)].replacement = revision
=============================================================================
