--------------------------- MODULE GoalIntegrity ---------------------------
(***************************************************************************)
(* GoalIntegrityGuard of src/trustrail/goal_integrity.py: plan steps and   *)
(* changes of the goal of one agent execution.                             *)
(*                                                                         *)
(* A call checks manifest, binding and proposal without the lock, asks the *)
(* approval verifier if it has to, and takes the lock to recheck some of   *)
(* it and to change the state: two steps, between which other calls run.   *)
(* Constraints and objective of the goal behave like its actions.          *)
(* Identities, contents and lifetimes only refuse a proposal: any proposal *)
(* may be refused.                                                         *)
(***************************************************************************)
EXTENDS Integers, FiniteSets, Sequences

CONSTANTS
    Threads,
    Primary,          \* primary_actor_id
    Delegates,        \* actors that may ever be delegates
    Goal,             \* first goal: allowed actions and delegates
    Mutations,        \* material changes: new actions or new delegates, with their approval
    MaxSteps,         \* max_steps_per_execution
    MaxMutations      \* max_mutations_per_execution

VARIABLES
    goal,             \* the manifest the state is bound to: manifest_digest
    delegates,        \* active_delegate_ids
    steps,            \* history of authorized steps; its length is step_count
    mutations,        \* history of applied changes; its length is mutation_count
    calls             \* the call each thread is in

vars == <<goal, delegates, steps, mutations, calls>>

GoalType == [revision : Nat, actions : SUBSET STRING, delegates : SUBSET Delegates]
Idle == [op |-> "idle"]
NoDelegate == "none"
Goto(t, call) == calls' = [calls EXCEPT ![t] = call]

-----------------------------------------------------------------------------
(* Plan steps *)

\* _state_step_findings; a step identifier is new
InOrder(step) == step.sequence = Len(steps) + 1 /\ Len(steps) < MaxSteps

\* validate_step up to the lock: the manifest is current, the actor active, the step allowed
StepChecked(t, step) ==
    /\ calls[t] = Idle
    /\ step.actor \in {Primary} \cup delegates
    /\ step.action \in goal.actions
    /\ step.delegated_to \in goal.delegates \cup {NoDelegate}
    /\ InOrder(step)
    /\ Goto(t, [op |-> "step", step |-> step, goal |-> goal])
    /\ UNCHANGED <<goal, delegates, steps, mutations>>

\* validate_step under the lock: sequence and counters are checked again, the manifest is not
StepAuthorized(t) ==
    /\ calls[t].op = "step"
    /\ Goto(t, Idle)
    /\ LET step == calls[t].step
       IN  IF InOrder(step)
           THEN /\ steps' = Append(steps, step)
                /\ delegates' = delegates \cup ({step.delegated_to} \ {NoDelegate})
           ELSE UNCHANGED <<steps, delegates>>
    /\ UNCHANGED <<goal, mutations>>

-----------------------------------------------------------------------------
(* Mutations *)

\* _is_material_mutation
Material(change) == change.actions # goal.actions \/ change.delegates # goal.delegates

\* a proposed field replaces that of the manifest, others are kept
Proposed(mutation) ==
    [actions |-> IF mutation.field = "actions" THEN mutation.value ELSE goal.actions,
     delegates |-> IF mutation.field = "delegates" THEN mutation.value ELSE goal.delegates]

Used(mutation) == \E i \in DOMAIN mutations : mutations[i] = mutation

\* validate_mutation up to the lock: the approval was given for this change of this
\* manifest, and its approver answers
MutationChecked(t, mutation) ==
    /\ calls[t] = Idle
    /\ Material(Proposed(mutation))
    /\ Len(mutations) < MaxMutations
    /\ ~Used(mutation)
    /\ Goto(t, [op |-> "mutation", mutation |-> mutation, goal |-> goal])
    /\ UNCHANGED <<goal, delegates, steps, mutations>>

\* Mutant: a change is applied to whatever goal there is by then.
CurrentAlways(t) == TRUE

\* the manifest was not superseded meanwhile
Current(t) == goal = calls[t].goal

\* _updated_manifest
Updated(base, mutation) ==
    [revision |-> base.revision + 1,
     actions |-> IF mutation.field = "actions" THEN mutation.value ELSE base.actions,
     delegates |-> IF mutation.field = "delegates" THEN mutation.value ELSE base.delegates]

\* validate_mutation under the lock
MutationApplied(t) ==
    /\ calls[t].op = "mutation"
    /\ Goto(t, Idle)
    /\ LET mutation == calls[t].mutation
       IN  IF ~Used(mutation) /\ Current(t)
           THEN /\ goal' = Updated(calls[t].goal, mutation)
                /\ delegates' = delegates \cap goal'.delegates
                /\ mutations' = Append(mutations, mutation)
           ELSE UNCHANGED <<goal, delegates, mutations>>
    /\ UNCHANGED steps

Init ==
    /\ goal = Goal
    /\ delegates = {}
    /\ steps = <<>>
    /\ mutations = <<>>
    /\ calls = [t \in Threads |-> Idle]

StepType == [actor : {Primary} \cup Delegates, action : Goal.actions,
             delegated_to : Delegates \cup {NoDelegate}, sequence : 1..MaxSteps]

Next ==
    \/ \E t \in Threads, step \in StepType : StepChecked(t, step)
    \/ \E t \in Threads : StepAuthorized(t) \/ MutationApplied(t)
    \/ \E t \in Threads, mutation \in Mutations : MutationChecked(t, mutation)

Spec == Init /\ [][Next]_vars

-----------------------------------------------------------------------------
(* Properties *)

\* Type invariant of the execution state.
TypeOK ==
    /\ goal \in GoalType
    /\ delegates \subseteq Delegates
    /\ Len(steps) <= MaxSteps
    /\ \A t \in Threads : calls[t].op \in {"idle", "step", "mutation"}

\* The steps of an execution are authorized one by one in the order of their numbers,
\* although two planners may have had the same step checked at the same time.
StepsInOrder == \A i \in DOMAIN steps : steps[i].sequence = i

LastOf(field) ==
    {i \in DOMAIN mutations : /\ mutations[i].field = field
                              /\ \A j \in DOMAIN mutations : mutations[j].field = field => j <= i}
ValueOf(field, first) ==
    IF LastOf(field) = {} THEN first ELSE mutations[CHOOSE i \in LastOf(field) : TRUE].value

\* Approved changes are neither lost nor undone by a change approved for an older goal, and
\* there are no more of them than the policy allows: the goal is the first one with every
\* applied mutation in turn.
MutationsKept ==
    /\ goal.actions = ValueOf("actions", Goal.actions)
    /\ goal.delegates = ValueOf("delegates", Goal.delegates)
    /\ goal.revision = Goal.revision + Len(mutations)
    /\ Len(mutations) <= MaxMutations
=============================================================================
