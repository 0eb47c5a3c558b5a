--------------------------- MODULE DataLifecycle ---------------------------
(***************************************************************************)
(* DataLifecycleManager of src/trustrail/data_lifecycle.py: registration,  *)
(* derivation and use of artifacts, and their deletion from the stores     *)
(* that hold the copies.                                                   *)
(*                                                                         *)
(* register, derive, authorize_use and plan_deletion hold the lock.        *)
(* execute_deletion holds it to tombstone and again to finalize; between   *)
(* them it calls the connectors, one location after the other, while other *)
(* calls and other executions go on.  The connectors are external: each of *)
(* their calls may fail.  One tenant; artifacts with fixed labels.  The    *)
(* restrictions of an artifact stand for its labels: purposes, residencies,*)
(* retention, consent, holds and subjects, which only ever get stricter.   *)
(* Lifetimes of plans only refuse them: any plan may stay unexecuted.      *)
(***************************************************************************)
EXTENDS Integers, FiniteSets

CONSTANTS
    Threads,
    Artifacts,
    Sources,        \* sources of each artifact, {} for an original one
    Restrictions,   \* what each artifact must not be used for
    Uses,           \* uses somebody may ask for
    Locations,      \* locations of the copies of each artifact
    Limited,        \* locations without a strong guarantee
    Held,           \* artifacts under legal hold
    MaxVersion      \* bound: versions of one record

VARIABLES
    records,        \* _records: state and version; version 0 is not registered
    copies,         \* external: copies that are still in their stores
    executions      \* plan and progress of each thread

vars == <<records, copies, executions>>

States == {"active", "tombstoned", "verified", "failed"}
Idle == [at |-> "idle"]
Registered == {a \in Artifacts : records[a].version > 0}
AllCopies == UNION {{a} \X Locations[a] : a \in Artifacts}

-----------------------------------------------------------------------------
(* Registration, derivation and use *)

\* the sources of a derivation as they are now; others are stale
Derivable(a) == \A s \in Sources[a] : s \in Registered /\ records[s].state = "active"

\* Mutant: one source is enough to go by.
PropagatedFirst(a) ==
    Sources[a] = {} \/ \E s \in Sources[a] : Restrictions[s] \subseteq Restrictions[a]

\* _propagation_findings: a derived artifact keeps the restrictions of all its sources
Propagated(a) == \A s \in Sources[a] : Restrictions[s] \subseteq Restrictions[a]

\* register and derive
Register(a) ==
    /\ a \notin Registered
    /\ Derivable(a)
    /\ Propagated(a)
    /\ records' = [records EXCEPT ![a] = [state |-> "active", version |-> 1]]
    /\ copies' = copies \cup ({a} \X Locations[a])
    /\ UNCHANGED executions

\* authorize_use
Usable(a, use) ==
    /\ a \in Registered
    /\ records[a].state = "active"
    /\ use \notin Restrictions[a]

-----------------------------------------------------------------------------
(* Deletion *)

\* the cascade of plan_deletion over what is registered now
Cascade(targets) ==
    LET selected[n \in 0..Cardinality(Artifacts)] ==
            IF n = 0 THEN targets
            ELSE LET found == selected[n - 1]
                 IN  found \cup {a \in Registered : Sources[a] \cap found # {}}
    IN  selected[Cardinality(Artifacts)]

Outstanding(selected) == {a \in selected : records[a].state # "verified"}

\* plan_deletion: versions stand for the record digests; registered is history
PlanDeletion(t, target) ==
    /\ executions[t] = Idle
    /\ target \in Registered
    /\ LET pending == Outstanding(Cascade({target}))
       IN  executions' = [executions EXCEPT ![t] =
            [at |-> "planned",
             versions |-> [a \in pending |-> records[a].version],
             doomed |-> pending \ Held,
             registered |-> Registered]]
    /\ UNCHANGED <<records, copies>>

Next_state(a, state) == [state |-> state, version |-> records[a].version + 1]

Stale(plan) == \E a \in DOMAIN plan.versions : records[a].version # plan.versions[a]

\* a plan that is stale or has expired is refused
RefuseDeletion(t) ==
    /\ executions[t].at = "planned"
    /\ executions' = [executions EXCEPT ![t] = Idle]
    /\ UNCHANGED <<records, copies>>

\* execute_deletion: tombstone everything, first part under the lock
Tombstone(t) ==
    LET plan == executions[t]
    IN  /\ plan.at = "planned"
        /\ ~Stale(plan)
        /\ \A a \in plan.doomed : records[a].version < MaxVersion
        /\ records' = [a \in Artifacts |->
                        IF a \in plan.doomed THEN Next_state(a, "tombstoned") ELSE records[a]]
        /\ executions' = [executions EXCEPT ![t] =
            [at |-> "deleting", doomed |-> plan.doomed, registered |-> plan.registered,
             actions |-> UNION {{a} \X Locations[a] : a \in plan.doomed},
             failed |-> {}, limited |-> {}]]
        /\ UNCHANGED copies

\* one action of the plan: tombstone, delete and verify at its connector.  The copy may be
\* gone although the connector fails
DeleteCopy(t, copy) ==
    LET run == executions[t]
    IN  /\ run.at = "deleting"
        /\ copy \in run.actions
        /\ \/ /\ copies' = copies \ {copy}
              /\ executions' = [executions EXCEPT
                    ![t].actions = @ \ {copy},
                    ![t].limited = IF copy[2] \in Limited THEN @ \cup {copy[1]} ELSE @]
           \/ /\ copies' \in {copies, copies \ {copy}}
              /\ executions' = [executions EXCEPT
                    ![t].actions = @ \ {copy},
                    ![t].failed = @ \cup {copy[1]}]
        /\ UNCHANGED records

\* the state an artifact is left in
Outcome(a, run) ==
    IF a \in run.failed THEN Next_state(a, "failed")
    ELSE IF a \in run.limited THEN records[a]
    ELSE Next_state(a, "verified")

\* execute_deletion: second part under the lock
Finalize(t) ==
    LET run == executions[t]
    IN  /\ run.at = "deleting"
        /\ run.actions = {}
        /\ records' = [a \in Artifacts |->
                        IF a \in run.doomed THEN Outcome(a, run) ELSE records[a]]
        /\ executions' = [executions EXCEPT ![t] = Idle]
        /\ UNCHANGED copies

Init ==
    /\ records = [a \in Artifacts |-> [state |-> "active", version |-> 0]]
    /\ copies = {}
    /\ executions = [t \in Threads |-> Idle]

Next ==
    \/ \E a \in Artifacts : Register(a)
    \/ \E t \in Threads, a \in Artifacts : PlanDeletion(t, a)
    \/ \E t \in Threads : RefuseDeletion(t) \/ Tombstone(t) \/ Finalize(t)
    \/ \E t \in Threads, copy \in AllCopies : DeleteCopy(t, copy)

Spec == Init /\ [][Next]_vars

-----------------------------------------------------------------------------
(* Properties *)

\* Type invariant of the records, the copies and the executions.
TypeOK ==
    /\ \A a \in Artifacts :
        records[a].state \in States /\ records[a].version \in 0..MaxVersion + Cardinality(Threads)
    /\ copies \subseteq AllCopies
    /\ \A t \in Threads : executions[t].at \in {"idle", "planned", "deleting"}

Ancestors(a) ==
    LET reached[n \in 0..Cardinality(Artifacts)] ==
            IF n = 0 THEN {a}
            ELSE LET found == reached[n - 1]
                 IN  found \cup UNION {Sources[x] : x \in found}
    IN  reached[Cardinality(Artifacts)] \ {a}

\* However often data was derived, from however many sources, it is not used for what one
\* of its origins forbids: derive compares with the direct sources alone.
RestrictionsKept ==
    \A a \in Artifacts, use \in Uses :
        Usable(a, use) => \A s \in Ancestors(a) : use \notin Restrictions[s]

\* VERIFIED is the answer to the data subject: no copy of the artifact is left in any
\* store, though executions overlap, connectors fail halfway and plans are repeated.
VerifiedIsGone ==
    \A a \in Artifacts :
        records[a].state = "verified" => \A l \in Locations[a] : <<a, l>> \notin copies

\* While a deletion runs, nothing it should have cascaded to can be used: what derived from
\* a doomed artifact when the plan was made is unavailable too, unless it is held.
CascadeUnavailable ==
    \A t \in Threads :
        executions[t].at = "deleting" =>
            \A a \in executions[t].registered \ Held, use \in Uses :
                Ancestors(a) \cap executions[t].doomed # {} => ~Usable(a, use)
=============================================================================
