----------------------------- MODULE DataLabels -----------------------------
(***************************************************************************)
(* DataLabelSigner, DataLabelPropagator and DataLabelGuard of              *)
(* src/trustrail/data_labels.py: signed labels that follow content, the    *)
(* join of the labels of what was derived from several sources, and the    *)
(* guard every transfer passes.                                            *)
(*                                                                         *)
(* A label is known by its position in `labels': its digest covers every   *)
(* field.  What a label permits is a function from a dimension (purpose,   *)
(* residency, destination, boundary kind) to the values it allows.  Only   *)
(* signed labels are presented: a changed one fails the signature check.   *)
(* The trusted keys are those the guard and the propagator were built with *)
(* and outlast the clock: a key that is revoked or expires only makes the  *)
(* labels it signed unusable.                                              *)
(***************************************************************************)
EXTENDS Integers, FiniteSets, FiniteSetsExt, Sequences

CONSTANTS
    Dimensions,     \* purpose, residency, destination, boundary kind
    Values,         \* [Dimensions -> sets]: the values of each
    Handling,       \* handling requirements
    Origins,        \* labels the classification authority issues, of PolicyType
    Proposals,      \* labels another holder of a trusted key signs, of PolicyType
    Destinations,   \* trusted destinations, of DestinationType
    Tenants,
    Contents,
    MaxClass,       \* bound: ranks of classification, from 0
    MaxLabels,      \* bound: labels signed
    MaxNow          \* bound: the clock

PolicyType ==
    [tenant : Tenants, class : 0..MaxClass, allowed : [Dimensions -> SUBSET UNION {Values[d] : d \in Dimensions}],
     handling : SUBSET Handling, until : 1..MaxNow + 1]
DestinationType == [tenant : Tenants, supported : SUBSET (0..MaxClass), enforced : SUBSET Handling]

VARIABLES
    labels,         \* the labels signed so far
    permit,         \* the last permit the guard returned, or NoPermit
    now

vars == <<labels, permit, now>>
NoPermit == [label |-> 0]
NotStated == 0       \* requested_retention_until is None

LabelType ==
    [policy : PolicyType, content : Contents, sources : SUBSET (1..MaxLabels), by : {"issue", "join", "other"},
     issued : 0..MaxNow]
Uses == {use \in [Dimensions -> UNION {Values[d] : d \in Dimensions}] : \A d \in Dimensions : use[d] \in Values[d]}

-----------------------------------------------------------------------------
(* DataLabelSigner and DataLabelVerifier *)

Policy(i) == labels[i].policy

\* DataLabelVerifier.findings: a signed label within its lifetime
Usable(i) == labels[i].issued <= now /\ now < Policy(i).until

Sign(policy, content, sources, by) ==
    /\ Len(labels) < MaxLabels
    /\ labels' = Append(labels, [policy |-> policy, content |-> content, sources |-> sources, by |-> by,
                                 issued |-> now])

\* issue()
Issue(policy, content) ==
    /\ now < policy.until
    /\ Sign(policy, content, {}, "issue")
    /\ UNCHANGED <<permit, now>>

-----------------------------------------------------------------------------
(* DataLabelPropagator.join *)

\* Mutant: what any source allows, for what every source allows.
AnyOf(sources, d) == UNION {Policy(i).allowed[d] : i \in sources}

\* _intersection
Common(sources, d) == {v \in Values[d] : \A i \in sources : v \in Policy(i).allowed[d]}

\* The strictest label that every source agrees with.
Strictest(sources) ==
    [tenant |-> Policy(Min(sources)).tenant,
     class |-> Max({Policy(i).class : i \in sources}),
     allowed |-> [d \in Dimensions |-> Common(sources, d)],
     handling |-> UNION {Policy(i).handling : i \in sources},
     until |-> Min({Policy(i).until : i \in sources})]

Join(sources, content) ==
    /\ sources # {}
    /\ \A i \in sources : Usable(i) /\ Policy(i).tenant = Policy(Min(sources)).tenant
    /\ \A d \in Dimensions : Common(sources, d) # {}
    /\ Sign(Strictest(sources), content, sources, "join")
    /\ UNCHANGED <<permit, now>>

\* Another holder of a trusted key signs a derived label of its own making.
Propose(policy, sources, content) ==
    /\ sources # {}
    /\ now < policy.until
    /\ Sign(policy, content, sources, "other")
    /\ UNCHANGED <<permit, now>>

-----------------------------------------------------------------------------
(* DataLabelGuard.authorize *)

\* _binding_findings is empty.
Bound(i, content, tenant, use, destination, keepUntil) ==
    /\ content = labels[i].content
    /\ tenant = Policy(i).tenant /\ destination.tenant = Policy(i).tenant
    /\ \A d \in Dimensions : use[d] \in Policy(i).allowed[d]
    /\ Policy(i).class \in destination.supported
    /\ Policy(i).handling \subseteq destination.enforced
    /\ keepUntil # NotStated => keepUntil <= Policy(i).until

\* _downgrade_findings is not empty.
Downgraded(i, sources) ==
    LET strictest == Strictest(sources) IN
    \/ \E j \in sources : Policy(j).tenant # Policy(i).tenant
    \/ Policy(i).class < strictest.class
    \/ \E d \in Dimensions : ~(Policy(i).allowed[d] \subseteq strictest.allowed[d])
    \/ ~(strictest.handling \subseteq Policy(i).handling)
    \/ Policy(i).until > strictest.until

\* _lineage_findings is empty.
LineageShown(i, sources) ==
    /\ sources = labels[i].sources
    /\ sources # {} => (\A j \in sources : Usable(j)) /\ ~Downgraded(i, sources)

Allowed(i, sources, content, tenant, use, destination, keepUntil) ==
    Usable(i) /\ Bound(i, content, tenant, use, destination, keepUntil) /\ LineageShown(i, sources)

Authorize(i, sources, content, tenant, use, destination, keepUntil) ==
    /\ Allowed(i, sources, content, tenant, use, destination, keepUntil)
    /\ permit' = [label |-> i, use |-> use, destination |-> destination, keepUntil |-> keepUntil, at |-> now]
    /\ UNCHANGED <<labels, now>>

-----------------------------------------------------------------------------
Init == labels = <<>> /\ permit = NoPermit /\ now = 0

Tick == now < MaxNow /\ now' = now + 1 /\ UNCHANGED <<labels, permit>>

Next ==
    \/ \E policy \in Origins, content \in Contents : Issue(policy, content)
    \/ \E sources \in SUBSET DOMAIN labels, content \in Contents :
        \/ Join(sources, content)
        \/ \E policy \in Proposals : Propose(policy, sources, content)
    \/ \E i \in DOMAIN labels,
          sources \in {labels[j].sources : j \in DOMAIN labels},   \* those of this label or of another one
          content \in Contents, tenant \in Tenants,
          use \in Uses, destination \in Destinations, keepUntil \in {NotStated} \cup 1..MaxNow + 1 :
        Authorize(i, sources, content, tenant, use, destination, keepUntil)
    \/ Tick

Spec == Init /\ [][Next]_vars

-----------------------------------------------------------------------------
(* Properties *)

TypeOK ==
    /\ Len(labels) <= MaxLabels /\ \A i \in DOMAIN labels : labels[i] \in LabelType
    /\ \A i \in DOMAIN labels : labels[i].sources \subseteq 1..i - 1
    /\ permit.label \in 0..Len(labels)
    /\ now \in 0..MaxNow

\* Every label that content was derived from, however many steps ago.
Ancestors(i) ==
    LET of[j \in DOMAIN labels] == {j} \cup UNION {LET rest == of[k] IN rest : k \in labels[j].sources}
    IN  of[i]

\* What a permit lets through when seen from a label: the use, the receiver and how long it is kept
\* when the request states it.
Conforms(j) ==
    /\ \A d \in Dimensions : permit.use[d] \in Policy(j).allowed[d]
    /\ permit.destination.tenant = Policy(j).tenant
    /\ Policy(j).handling \subseteq permit.destination.enforced
    /\ permit.keepUntil # NotStated => permit.keepUntil <= Policy(j).until
    /\ permit.at < Policy(j).until

\* No permit lets content go where a label it was directly derived from forbids it, whoever signed
\* the derived label.
NotDowngraded == permit # NoPermit => \A j \in labels[permit.label].sources : Conforms(j)

\* Content that the propagator labelled at every step goes only where each of the labels it started
\* from, any number of joins ago, lets it go.
NotLaundered ==
    permit # NoPermit /\ (\A j \in Ancestors(permit.label) : labels[j].by # "other") =>
        \A j \in Ancestors(permit.label) : Conforms(j)

\* The guard recomputes the join and agrees with the propagator until the deadline of the label: a
\* destination of the label's tenant that supports it and enforces its handling receives the content.
JoinAccepted ==
    \A i \in DOMAIN labels : labels[i].by = "join" /\ now < Policy(i).until =>
        \A use \in Uses :
            (\A d \in Dimensions : use[d] \in Policy(i).allowed[d]) =>
            Allowed(i, labels[i].sources, labels[i].content, Policy(i).tenant, use,
                    [tenant |-> Policy(i).tenant, supported |-> {Policy(i).class}, enforced |-> Policy(i).handling],
                    Policy(i).until)

=============================================================================
