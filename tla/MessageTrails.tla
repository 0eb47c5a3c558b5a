---------------------------- MODULE MessageTrails ----------------------------
(***************************************************************************)
(* InterAgentMessageSigner and the checks of InterAgentMessageVerifier on  *)
(* who may say what to whom (src/trustrail/inter_agent.py): agents hand a  *)
(* payload on, each attesting its own transformation, until one of them    *)
(* signs it in a message to others.                                        *)
(*                                                                         *)
(* Attestations do not name a message: whoever has one may put it into a   *)
(* trail.  A payload is known by its digest.  Session, goal, task, purpose *)
(* and scope of a message and of its receiver agree or the message is      *)
(* refused; freshness and the order of messages are in InterAgentMessages, *)
(* delegation chains in DelegatedIdentity.                                 *)
(***************************************************************************)
EXTENDS Integers, Sequences, FiniteSets

CONSTANTS
    Agents, Payloads,
    Tenant,                 \* [Agents -> tenants]
    KeyEnd,                 \* [Agents -> expires_at of its key]
    Chains,                 \* delegation chains: records of ChainType
    Routes,                 \* pairs of sender and recipient
    TrustedTransformers, MaxFanout, MaxTransformations,    \* of the policy
    MaxAttested, MaxSigned, MaxNow                         \* bounds

VARIABLES
    now,
    attested,     \* transformations signed
    sent,         \* messages signed
    live,         \* external: chains that are authorized
    delivered     \* history: messages verified, by whom and when

vars == <<now, attested, sent, live, delivered>>

ChainType == [members : SUBSET Agents, leaf : Agents, audience : SUBSET Agents]
TransformationType ==
    [by : Agents, hop : 0..MaxTransformations - 1, input : Payloads, output : Payloads, at : 0..MaxNow]
EnvelopeType ==
    [sender : Agents, recipients : SUBSET Agents, chain : Chains, source : Payloads, payload : Payloads,
     trail : UNION {[1..n -> TransformationType] : n \in 0..MaxTransformations}, issued_at : 0..MaxNow]

-----------------------------------------------------------------------------
(* InterAgentMessageSigner *)

\* attest_transformation
Attest(agent, hop, input, output) ==
    /\ Cardinality(attested) < MaxAttested
    /\ attested' = attested \cup {[by |-> agent, hop |-> hop, input |-> input, output |-> output, at |-> now]}
    /\ UNCHANGED <<now, sent, live, delivered>>

\* the digest that goes into hop i of a trail, and the one that comes out of the last
Into(m, i) == IF i = 1 THEN m.source ELSE m.trail[i - 1].output

\* validate_envelope
EnvelopeValid(m) ==
    /\ \A i \in DOMAIN m.trail :
        m.trail[i].hop = i - 1 /\ m.trail[i].at <= m.issued_at /\ m.trail[i].input = Into(m, i)
    /\ m.payload = Into(m, Len(m.trail) + 1)

\* the source is what went into the first transformation
Sign(sender, recipients, chain, payload, trail) ==
    LET m == [sender |-> sender, recipients |-> recipients, chain |-> chain, payload |-> payload, trail |-> trail,
              source |-> IF trail = <<>> THEN payload ELSE trail[1].input, issued_at |-> now]
    IN  /\ Cardinality(sent) < MaxSigned
        /\ Cardinality(recipients) <= MaxFanout /\ Len(trail) <= MaxTransformations
        /\ EnvelopeValid(m)
        /\ sent' = sent \cup {m}
        /\ UNCHANGED <<now, attested, live, delivered>>

-----------------------------------------------------------------------------
(* InterAgentMessageVerifier *)

KeyActive(agent, signed_at) == now < KeyEnd[agent] /\ signed_at < KeyEnd[agent]

Addressed(m, recipient) ==
    /\ Tenant[m.sender] = Tenant[recipient]
    /\ recipient \in m.recipients
    /\ Cardinality(m.recipients) <= MaxFanout
    /\ \A q \in m.recipients : <<m.sender, q>> \in Routes

Transformers(m, chain) == chain.members \cup TrustedTransformers

Past(m, i) == m.trail[i].at <= m.issued_at

\* _verify_transformations
TrailValid(m, chain) ==
    /\ Len(m.trail) <= MaxTransformations
    /\ \A i \in DOMAIN m.trail :
        /\ m.trail[i].hop = i - 1 /\ m.trail[i].input = Into(m, i) /\ Past(m, i)
        /\ Tenant[m.trail[i].by] = Tenant[m.sender]
        /\ m.trail[i].by \in Transformers(m, chain)
        /\ KeyActive(m.trail[i].by, m.trail[i].at)
    /\ m.payload = Into(m, Len(m.trail) + 1)

\* the chain presented is the one that is bound, and allows every recipient now
Delegated(m, chain) ==
    /\ m.chain = chain /\ chain.leaf = m.sender
    /\ chain \in live /\ m.recipients \subseteq chain.audience

Verified(m, recipient, chain) ==
    KeyActive(m.sender, m.issued_at) /\ Addressed(m, recipient) /\ TrailValid(m, chain) /\ Delegated(m, chain)

Verify(m, recipient, chain) ==
    /\ Verified(m, recipient, chain)
    /\ delivered' = delivered \cup {[message |-> m, recipient |-> recipient, at |-> now]}
    /\ UNCHANGED <<now, attested, sent, live>>

-----------------------------------------------------------------------------
Revoke(chain) == live' = live \ {chain} /\ UNCHANGED <<now, attested, sent, delivered>>

Tick == now < MaxNow /\ now' = now + 1 /\ UNCHANGED <<attested, sent, live, delivered>>

Init == now = 0 /\ attested = {} /\ sent = {} /\ live = Chains /\ delivered = {}

Trails == UNION {[1..n -> attested] : n \in 0..MaxTransformations}

Next ==
    \/ \E agent \in Agents, hop \in 0..MaxTransformations - 1, input, output \in Payloads :
        Attest(agent, hop, input, output)
    \/ \E sender \in Agents, recipients \in (SUBSET Agents) \ {{}}, chain \in Chains,
          payload \in Payloads, trail \in Trails :
        Sign(sender, recipients, chain, payload, trail)
    \/ \E m \in sent, recipient \in Agents, chain \in Chains : Verify(m, recipient, chain)
    \/ \E chain \in live : Revoke(chain)
    \/ Tick

Spec == Init /\ [][Next]_vars

-----------------------------------------------------------------------------
(* Properties *)

\* Type invariant of what was attested, signed and delivered.
TypeOK ==
    /\ Chains \subseteq ChainType /\ live \subseteq Chains
    /\ attested \subseteq TransformationType
    /\ \A m \in sent : m \in EnvelopeType
    /\ \A d \in delivered : d.message \in sent

\* payloads made from one by members of a chain and trusted transformers, until a time, in n hops
Made(source, chain, at) ==
    LET after[n \in 0..MaxTransformations] ==
            IF n = 0 THEN {source}
            ELSE LET before == after[n - 1]
                 IN  {t.output : t \in {x \in attested :
                        /\ x.input \in before /\ x.hop = n - 1 /\ x.at <= at
                        /\ x.by \in chain.members \cup TrustedTransformers}}
    IN  after

\* The payload an agent consumes was made from the source the message names by agents of the delegation
\* or trusted ones alone, whatever attestations of other messages were put into the trail.
MadeByTrusted ==
    \A d \in delivered :
        LET m == d.message IN m.payload \in Made(m.source, m.chain, m.issued_at)[Len(m.trail)]

\* What the last agent of a delegation signed, over transformations of its members made up to that
\* moment, its recipients accept as long as keys, delegation and routes stand.
SignedIsAccepted ==
    \A m \in sent, recipient \in Agents :
        /\ recipient \in m.recipients /\ \A q \in m.recipients : <<m.sender, q>> \in Routes
        /\ Tenant[recipient] = Tenant[m.sender]
        /\ m.chain \in live /\ m.chain.leaf = m.sender /\ m.recipients \subseteq m.chain.audience
        /\ now < KeyEnd[m.sender]
        /\ \A i \in DOMAIN m.trail :
            LET by == m.trail[i].by
            IN  by \in m.chain.members /\ Tenant[by] = Tenant[m.sender] /\ now < KeyEnd[by]
        => Verified(m, recipient, m.chain)

=============================================================================
