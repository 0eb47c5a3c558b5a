---------------------------- MODULE SensitiveFlow ---------------------------
(***************************************************************************)
(* SensitiveDataFlowSigner, SensitiveDataFlowPropagator and                *)
(* SensitiveDataFlowGuard of src/trustrail/sensitive_data_flow.py: labels  *)
(* that only narrow as data is transformed and combined, and the separately *)
(* signed grant that widens one of them for one exact output.              *)
(*                                                                         *)
(* A label or a grant is known by its position: its digest covers every    *)
(* field.  The tenant and the user form the owner; what a label allows is  *)
(* a function from a dimension (purpose, sink kind, sink) to values.       *)
(***************************************************************************)
EXTENDS Integers, FiniteSets, FiniteSetsExt, Sequences

CONSTANTS
    Dimensions,     \* purpose, sink kind, sink
    Values,         \* [Dimensions -> sets]
    Owners,         \* pairs of a tenant and a user
    Contents,
    Origins,        \* origin labels, of PolicyType
    Widenings,      \* what grants allow, of PolicyType
    MaxClass,       \* bound: ranks of sensitivity, from 0
    MaxDepth,       \* 128 in the code: the longest lineage propagate() extends
    MaxLabels, MaxGrants, MaxNow

PolicyType ==
    [owner : Owners, class : 0..MaxClass, allowed : [Dimensions -> SUBSET UNION {Values[d] : d \in Dimensions}],
     until : 1..MaxNow + 1]

VARIABLES
    labels,     \* labels signed
    grants,     \* declassification grants signed
    permit,     \* the last permit of the guard, or NoPermit
    now

vars == <<labels, grants, permit, now>>
NoPermit == [label |-> 0]

LabelType ==
    [policy : PolicyType, content : Contents, sources : SUBSET (1..MaxLabels), ancestors : SUBSET (1..MaxLabels),
     depth : 0..MaxDepth + 1, grants : SUBSET (1..MaxGrants), declassified : BOOLEAN, issued : 0..MaxNow]
GrantType == [policy : PolicyType, source : 1..MaxLabels, content : Contents, issued : 0..MaxNow]
Uses == {use \in [Dimensions -> UNION {Values[d] : d \in Dimensions}] : \A d \in Dimensions : use[d] \in Values[d]}

Policy(i) == labels[i].policy

-----------------------------------------------------------------------------
(* SensitiveDataFlowVerifier: signed by a trusted key, within its lifetime *)

Usable(i) == labels[i].issued <= now /\ now < Policy(i).until
GrantUsable(g) == grants[g].issued <= now /\ now < grants[g].policy.until

-----------------------------------------------------------------------------
(* SensitiveDataFlowSigner *)

Sign(label) == Len(labels) < MaxLabels /\ labels' = Append(labels, label)

\* issue()
Issue(policy, content) ==
    /\ now < policy.until
    /\ Sign([policy |-> policy, content |-> content, sources |-> {}, ancestors |-> {}, depth |-> 0, grants |-> {},
             declassified |-> FALSE, issued |-> now])
    /\ UNCHANGED <<grants, permit, now>>

\* issue_declassification()
Grant(i, policy, content) ==
    /\ Len(grants) < MaxGrants
    /\ policy.owner = Policy(i).owner /\ now < policy.until
    /\ grants' = Append(grants, [policy |-> policy, source |-> i, content |-> content, issued |-> now])
    /\ UNCHANGED <<labels, permit, now>>

-----------------------------------------------------------------------------
(* SensitiveDataFlowPropagator *)

\* _intersection
Common(sources, d) == {v \in Values[d] : \A i \in sources : v \in Policy(i).allowed[d]}

\* What every source allows.
Joined(sources) ==
    [owner |-> Policy(Min(sources)).owner,
     class |-> Max({Policy(i).class : i \in sources}),
     allowed |-> [d \in Dimensions |-> Common(sources, d)],
     until |-> Min({Policy(i).until : i \in sources})]

\* _lineage
Lineage(sources) == sources \cup UNION {labels[i].ancestors : i \in sources}
Depth(sources) == Max({labels[i].depth : i \in sources}) + 1
GrantsOf(sources) == UNION {labels[i].grants : i \in sources}

\* _derive
Derive(sources, content) ==
    Sign([policy |-> Joined(sources), content |-> content, sources |-> sources, ancestors |-> Lineage(sources),
          depth |-> Depth(sources), grants |-> GrantsOf(sources), declassified |-> FALSE, issued |-> now])

\* propagate(): refused when the sources disagree on their owner or have nothing in common.
Propagate(sources, content) ==
    /\ sources # {}
    /\ \A i \in sources : Usable(i) /\ Policy(i).owner = Policy(Min(sources)).owner
    /\ \A d \in Dimensions : Common(sources, d) # {}
    /\ Depth(sources) <= MaxDepth
    /\ Derive(sources, content)
    /\ UNCHANGED <<grants, permit, now>>

\* declassify(): the grant names this source and this output.
Declassify(i, g, content) ==
    /\ Usable(i) /\ GrantUsable(g)
    /\ grants[g].source = i /\ grants[g].content = content /\ grants[g].policy.owner = Policy(i).owner
    /\ labels[i].depth < MaxDepth    \* a deeper label is refused by its own field bound
    /\ Sign([policy |-> [grants[g].policy EXCEPT !.until = Min({@, Policy(i).until})],
             content |-> content, sources |-> {i}, ancestors |-> Lineage({i}), depth |-> labels[i].depth + 1,
             grants |-> labels[i].grants \cup {g}, declassified |-> TRUE, issued |-> now])
    /\ UNCHANGED <<grants, permit, now>>

-----------------------------------------------------------------------------
(* SensitiveDataFlowGuard.authorize *)

\* _binding_findings is empty.
Bound(i, content, owner, use) ==
    /\ content = labels[i].content
    /\ owner = Policy(i).owner
    /\ \A d \in Dimensions : use[d] \in Policy(i).allowed[d]

\* _policy_expansion_findings is empty.
Narrowed(i, sources) == Policy(i) = Joined(sources) /\ labels[i].grants = GrantsOf(sources)

\* The grant that made this label, among those shown.
GrantFits(i, sources, shown) ==
    /\ Cardinality(sources) = 1
    /\ \E g \in shown :
        /\ shown \ GrantsOf(sources) = {g}
        /\ {grants[g].source} = sources
        /\ grants[g].content = labels[i].content
        /\ grants[g].policy.class = Policy(i).class /\ grants[g].policy.allowed = Policy(i).allowed

\* _declassification_lineage_findings is empty.
GrantsShown(i, sources, shown) ==
    /\ shown = labels[i].grants
    /\ \A g \in shown :
        /\ GrantUsable(g)
        /\ grants[g].source \in labels[i].ancestors
        /\ grants[g].policy.owner = Policy(i).owner
    /\ labels[i].declassified => GrantFits(i, sources, shown)

\* _lineage_findings is empty.
LineageShown(i, sources, shown) ==
    /\ sources = labels[i].sources
    /\ IF sources = {} THEN shown = {}
       ELSE /\ \A j \in sources : Usable(j)
            /\ labels[i].ancestors = Lineage(sources) /\ labels[i].depth = Depth(sources)
            /\ GrantsShown(i, sources, shown)
            /\ ~labels[i].declassified => Narrowed(i, sources)

Allowed(i, sources, shown, content, owner, use) ==
    Usable(i) /\ Bound(i, content, owner, use) /\ LineageShown(i, sources, shown)

Authorize(i, sources, shown, content, owner, use) ==
    /\ Allowed(i, sources, shown, content, owner, use)
    /\ permit' = [label |-> i, use |-> use, owner |-> owner, at |-> now]
    /\ UNCHANGED <<labels, grants, now>>

-----------------------------------------------------------------------------
Init == labels = <<>> /\ grants = <<>> /\ permit = NoPermit /\ now = 0

Tick == now < MaxNow /\ now' = now + 1 /\ UNCHANGED <<labels, grants, permit>>

Next ==
    \/ \E content \in Contents :
        \/ \E policy \in Origins : Issue(policy, content)
        \/ \E sources \in SUBSET DOMAIN labels : Propagate(sources, content)
        \/ \E i \in DOMAIN labels :
            \/ \E policy \in Widenings : Grant(i, policy, content)
            \/ \E g \in DOMAIN grants : Declassify(i, g, content)
    \/ \E i \in DOMAIN labels, sources \in {labels[j].sources : j \in DOMAIN labels},
          shown \in {labels[j].grants : j \in DOMAIN labels},   \* those of this label or of another one
          content \in Contents, owner \in Owners, use \in Uses :
        Authorize(i, sources, shown, content, owner, use)
    \/ Tick

Spec == Init /\ [][Next]_vars

-----------------------------------------------------------------------------
(* Properties *)

TypeOK ==
    /\ Len(labels) <= MaxLabels /\ \A i \in DOMAIN labels : labels[i] \in LabelType
    /\ \A i \in DOMAIN labels : labels[i].ancestors \subseteq 1..i - 1 /\ labels[i].depth <= MaxDepth
    /\ Len(grants) <= MaxGrants /\ \A g \in DOMAIN grants : grants[g] \in GrantType
    /\ permit.label \in 0..Len(labels)
    /\ now \in 0..MaxNow

\* A grant lifts a restriction of label j on the way to label i: it was given for j or for something
\* derived from j.
Lifts(g, j) == grants[g].source = j \/ j \in labels[grants[g].source].ancestors

\* Data reaches a sink only for its owner and only where every label it comes from, any number of
\* transformations ago, allows it, except where a grant given on the way from that label allows it.
NotLaundered ==
    permit # NoPermit =>
        \A j \in labels[permit.label].ancestors :
            /\ permit.owner = Policy(j).owner
            /\ permit.at < Policy(j).until
            /\ \/ \A d \in Dimensions : permit.use[d] \in Policy(j).allowed[d]
               \/ \E g \in labels[permit.label].grants :
                    /\ Lifts(g, j)
                    /\ permit.at < grants[g].policy.until
                    /\ \A d \in Dimensions : permit.use[d] \in grants[g].policy.allowed[d]

\* The guard, which recomputes lineage, policy and grants on its own, accepts every label of the
\* propagator until it expires when shown the evidence the label names.
PropagatedAccepted ==
    \A i \in DOMAIN labels : now < Policy(i).until =>
        \A use \in Uses :
            (\A d \in Dimensions : use[d] \in Policy(i).allowed[d]) =>
            Allowed(i, labels[i].sources, labels[i].grants, labels[i].content, Policy(i).owner, use)

=============================================================================
