---------------------------- MODULE PrimitivePins ---------------------------
(***************************************************************************)
(* MCPPrimitiveGuard of src/trustrail/mcp_primitives.py: resources,        *)
(* prompts, completions and subscriptions are inspected with their         *)
(* relationships, captured, approved, and compared one by one when what    *)
(* they stand for arrives.                                                 *)
(*                                                                         *)
(* As for tools the guard keeps nothing and snapshots never expire.  What  *)
(* one text alone gives away is the field clean of a definition or of a    *)
(* content; media types, sizes, schemas and scopes are part of it.         *)
(***************************************************************************)
EXTENDS Naturals, FiniteSets, Sequences

CONSTANTS
    Definitions,     \* MCPPrimitiveDefinition, of DefinitionType
    Contents,        \* MCPResourceContent and MCPCompletionMetadata, of ContentType
    MaxPrimitives,   \* max_primitives
    MaxSnapshots,    \* bound: snapshots of each phase
    MaxUses          \* bound: contents accepted

\* skeleton: the name as it looks; mentions: servers its texts name; target: the prompt a
\* completion is for, the resource a subscription is to; argument: the argument a completion
\* completes; arguments: those of a prompt
DefinitionType ==
    [server : STRING, kind : {"resource", "prompt", "completion", "subscription"},
     name : STRING, skeleton : STRING, mentions : SUBSET STRING, version : Nat, target : STRING, argument : STRING,
     arguments : SUBSET STRING, clean : BOOLEAN]

\* subscription: the name of the subscription that brought it, or "none"
ContentType == [server : STRING, name : STRING, subscription : STRING, clean : BOOLEAN]

VARIABLES
    discoveries,     \* external: sets of definitions captured
    approvals,       \* external: sets of definitions approved, in order
    accepted         \* history: contents let through, with definition, subscription, approval

vars == <<discoveries, approvals, accepted>>
NoSubscription == [name |-> "none"]

-----------------------------------------------------------------------------
(* _inspection_findings *)

\* _identity_findings: a name once for its kind, whatever the server, and none that looks alike
Clash(d, e) == d.kind = e.kind /\ (d.name = e.name \/ d.skeleton = e.skeleton)

\* _definition_findings: a text that names another server
Mentions(d, primitives) == d.mentions \cap ({e.server : e \in primitives} \ {d.server}) # {}

\* _definition_findings and _semantic_findings of one definition
Clean(d) == d.clean

\* _relationship_findings: a completion is for an argument of a prompt of its server, a
\* subscription to a resource of its server
Related(d, primitives) ==
    /\ d.kind = "completion" =>
        \E e \in primitives : /\ e.kind = "prompt" /\ e.server = d.server /\ e.name = d.target
                              /\ d.argument \in e.arguments
    /\ d.kind = "subscription" =>
        \E e \in primitives : e.kind = "resource" /\ e.server = d.server /\ e.name = d.target

Inspected(primitives) ==
    /\ primitives # {}
    /\ Cardinality(primitives) <= MaxPrimitives
    /\ \A d, e \in primitives : d # e => ~Clash(d, e)
    /\ \A d \in primitives : Clean(d) /\ ~Mentions(d, primitives)

-----------------------------------------------------------------------------
(* Snapshots *)

\* discover
Discover(primitives) ==
    /\ Cardinality(discoveries) < MaxSnapshots
    /\ Inspected(primitives)
    /\ \A d \in primitives : Related(d, primitives)
    /\ discoveries' = discoveries \cup {primitives}
    /\ UNCHANGED <<approvals, accepted>>

\* Mutant: what the snapshot has and the server no longer offers is not missed.
UnchangedKnown(primitives, snapshot) == primitives \subseteq snapshot

\* _snapshot_findings
Unchanged(primitives, snapshot) == primitives = snapshot

\* approve
Approve(primitives, discovery) ==
    /\ Len(approvals) < MaxSnapshots
    /\ Inspected(primitives)
    /\ \A d \in primitives : Related(d, primitives)
    /\ Unchanged(primitives, discovery)
    /\ approvals' = Append(approvals, primitives)
    /\ UNCHANGED <<discoveries, accepted>>

-----------------------------------------------------------------------------
(* Use *)

\* verify_use: the definition alone, without its relationships
Usable(d, a) == Inspected({d}) /\ d \in approvals[a]

\* _subscription_findings: an approved subscription of this server to this very resource
Subscribed(s, content, a) ==
    /\ content.subscription = s.name
    /\ Usable(s, a)
    /\ s.server = content.server /\ s.target = content.name

\* validate_resource_content: content of a resource that was fetched, or that an update brings
ResourceContent(d, content, s, a) ==
    /\ d.kind = "resource"
    /\ content.server = d.server /\ content.name = d.name
    /\ content.subscription # "none" \/ s # NoSubscription => Subscribed(s, content, a)

\* validate_prompt_render: a rendered prompt belongs to no subscription
PromptRender(d, content) ==
    /\ d.kind = "prompt" /\ content.subscription = "none"
    /\ content.server = d.server /\ content.name = d.name

\* validate_completion: nor does a completion
Completion(d, content) ==
    /\ d.kind = "completion" /\ content.subscription = "none"
    /\ content.server = d.server /\ content.name = d.target

Validate(d, content, s, a) ==
    /\ Len(accepted) < MaxUses
    /\ Usable(d, a)
    /\ content.clean
    /\ \/ ResourceContent(d, content, s, a)
       \/ PromptRender(d, content) /\ s = NoSubscription
       \/ Completion(d, content) /\ s = NoSubscription
    /\ accepted' = Append(accepted,
        [definition |-> d, content |-> content, subscription |-> s, approval |-> a])
    /\ UNCHANGED <<discoveries, approvals>>

Init ==
    /\ discoveries = {}
    /\ approvals = <<>>
    /\ accepted = <<>>

Next ==
    \/ \E primitives \in SUBSET Definitions : Discover(primitives)
    \/ \E primitives \in SUBSET Definitions, discovery \in discoveries :
            Approve(primitives, discovery)
    \/ \E d \in Definitions, content \in Contents, a \in DOMAIN approvals :
        \E s \in {e \in Definitions : e.kind = "subscription"} \cup {NoSubscription} :
            Validate(d, content, s, a)

Spec == Init /\ [][Next]_vars

-----------------------------------------------------------------------------
(* Properties *)

\* Type invariant: an approval is a discovery somebody has agreed to.
TypeOK ==
    /\ discoveries \subseteq SUBSET Definitions
    /\ \A a \in DOMAIN approvals : approvals[a] \in discoveries
    /\ \A u \in DOMAIN accepted : accepted[u].approval \in DOMAIN approvals

\* What a subscription brings is let through only if one approval covers the subscription and
\* the resource: not the subscription of another resource, and not one approved elsewhere.
UpdatesSubscribed ==
    \A u \in DOMAIN accepted :
        LET x == accepted[u]
        IN  x.content.subscription # "none" =>
                /\ {x.definition, x.subscription} \subseteq approvals[x.approval]
                /\ x.subscription.target = x.definition.name
                /\ x.subscription.server = x.definition.server

\* Completions that are let through complete an argument of a prompt that was approved with
\* them, although relationships are not looked at when a completion arrives.
CompletesApprovedPrompt ==
    \A u \in DOMAIN accepted :
        LET x == accepted[u]
        IN  x.definition.kind = "completion" =>
                \E e \in approvals[x.approval] :
                    /\ e.kind = "prompt" /\ e.server = x.content.server
                    /\ e.name = x.content.name
                    /\ x.definition.argument \in e.arguments
=============================================================================
