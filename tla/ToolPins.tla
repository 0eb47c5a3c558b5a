------------------------------ MODULE ToolPins ------------------------------
(***************************************************************************)
(* MCPToolDefinitionGuard of src/trustrail/mcp.py: the tools of servers    *)
(* are inspected together, captured by a discovery, approved as captured,  *)
(* and compared with the approval one by one before they run.              *)
(*                                                                         *)
(* The guard keeps nothing: discoveries and approvals are signed snapshots *)
(* that the application stores, and never expire.  Servers list whatever   *)
(* tools they like at any time, so every operation may see others.  What   *)
(* one definition alone gives away (hidden instructions, ambiguous         *)
(* schemas, size) is the field clean of it; digests stand for versions.    *)
(***************************************************************************)
EXTENDS Naturals, FiniteSets, Sequences

CONSTANTS
    Definitions,     \* MCPToolDefinition, of DefinitionType
    MaxTools,        \* max_tools
    MaxSnapshots,    \* bound: snapshots of each phase
    MaxUses          \* bound: executions

\* skeleton: the name as it looks; mentions: the tool names that occur in its texts
DefinitionType ==
    [server : STRING, name : STRING, skeleton : STRING, version : Nat,
     mentions : SUBSET STRING, clean : BOOLEAN]

VARIABLES
    discoveries,     \* external: sets of definitions captured
    approvals,       \* external: sets of definitions approved, in order
    used             \* history: definitions executed, with the approval

vars == <<discoveries, approvals, used>>

-----------------------------------------------------------------------------
(* _inspection_findings *)

\* _identity_findings: a name once, whatever the server, and none that looks like another
Clash(d, e) == d.name = e.name \/ d.skeleton = e.skeleton

\* _content_findings: a text that names another exposed tool
Mentions(d, tools) == d.mentions \cap ({e.name : e \in tools} \ {d.name}) # {}

\* _content_findings and _schema_findings of one definition
Clean(d) == d.clean

Inspected(tools) ==
    /\ tools # {}
    /\ Cardinality(tools) <= MaxTools
    /\ \A d, e \in tools : d # e => ~Clash(d, e)
    /\ \A d \in tools : Clean(d) /\ ~Mentions(d, tools)

-----------------------------------------------------------------------------
(* Operations *)

\* discover
Discover(tools) ==
    /\ Cardinality(discoveries) < MaxSnapshots
    /\ Inspected(tools)
    /\ discoveries' = discoveries \cup {tools}
    /\ UNCHANGED <<approvals, used>>

\* _bundle_findings: the same identities with the same digests
Unchanged(tools, snapshot) == tools = snapshot

\* approve
Approve(tools, discovery) ==
    /\ Len(approvals) < MaxSnapshots
    /\ Inspected(tools)
    /\ Unchanged(tools, discovery)
    /\ approvals' = Append(approvals, tools)
    /\ UNCHANGED <<discoveries, used>>

\* the fingerprint of this server and name, with the digest of this definition
Pinned(d, snapshot) ==
    \E e \in snapshot : e.server = d.server /\ e.name = d.name /\ e = d

\* verify_execution: the definition is inspected alone
VerifyExecution(d, a) ==
    /\ Len(used) < MaxUses
    /\ Inspected({d})
    /\ Pinned(d, approvals[a])
    /\ used' = Append(used, [definition |-> d, approval |-> a])
    /\ UNCHANGED <<discoveries, approvals>>

Init ==
    /\ discoveries = {}
    /\ approvals = <<>>
    /\ used = <<>>

Next ==
    \/ \E tools \in SUBSET Definitions : Discover(tools)
    \/ \E tools \in SUBSET Definitions, discovery \in discoveries : Approve(tools, discovery)
    \/ \E d \in Definitions, a \in DOMAIN approvals : VerifyExecution(d, a)

Spec == Init /\ [][Next]_vars

-----------------------------------------------------------------------------
(* Properties *)

\* Type invariant of the snapshots.
TypeOK ==
    /\ discoveries \subseteq SUBSET Definitions
    /\ \A a \in DOMAIN approvals : approvals[a] \subseteq Definitions
    /\ \A u \in DOMAIN used : used[u].approval \in DOMAIN approvals

\* A tool runs as a discovery captured it, together with all that its approval covers: a
\* server that swaps a definition between discovery, approval and execution gains nothing.
RunsAsDiscovered ==
    \A u \in DOMAIN used :
        \E discovery \in discoveries :
            /\ approvals[used[u].approval] = discovery
            /\ used[u].definition \in discovery

\* Tools that ran under one approval cannot be taken for each other and do not steer one
\* another, although each was looked at alone when it ran.
NoShadowing ==
    \A u, v \in DOMAIN used :
        LET d == used[u].definition
            e == used[v].definition
        IN  used[u].approval = used[v].approval /\ d # e =>
                /\ d.name # e.name /\ d.skeleton # e.skeleton
                /\ e.name \notin d.mentions
=============================================================================
