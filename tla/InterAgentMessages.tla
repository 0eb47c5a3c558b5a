------------------------- MODULE InterAgentMessages -------------------------
(***************************************************************************)
(* MemoryInterAgentStateStore of src/trustrail/inter_agent.py: agents sign *)
(* numbered messages, and a receiver accepts each stream in order, each    *)
(* message once, while it is fresh.                                        *)
(*                                                                         *)
(* The network delays, duplicates and reorders what was signed.  verify    *)
(* reads its clock first and claims last, with the delegated identity and  *)
(* its callbacks between (DelegatedIdentity): two steps of a thread.  A    *)
(* stream stands for recipient, sender, session, task and tenant;          *)
(* signatures, digests and transformation chains are sound.                *)
(***************************************************************************)
EXTENDS Integers, SequencesExt

CONSTANTS
    Threads,
    Envelopes,       \* messages signed, in any order: records of EnvelopeType
    KeyEnd,          \* expires_at of the sender's key, by stream
    MaxTtl, MaxAge, Skew,            \* of the policy, seconds
    MaxReplay, MaxStreams,           \* capacities of the store
    MaxNow           \* bound: last clock value explored

Streams == DOMAIN KeyEnd

\* a sender that lost its counter numbers from 0 again; its clock is its own
EnvelopeType ==
    [id : STRING, stream : Streams, sequence : Nat, issued_at : Nat, expires_at : Nat]

VARIABLES
    now,
    replays,     \* _replays: messages and until when
    streams,     \* _streams: next sequence and until when, by stream
    verifying,   \* the verify call of each thread
    accepted     \* history: messages accepted and when, in order

vars == <<now, replays, streams, verifying, accepted>>

NoStream == [next |-> 0, until |-> 0]
Idle == [at |-> -1]

-----------------------------------------------------------------------------
(* InterAgentMessageVerifier *)

KeyActive(m) == now < KeyEnd[m.stream] /\ m.issued_at < KeyEnd[m.stream]

Fresh(m) ==
    /\ m.expires_at - m.issued_at <= MaxTtl
    /\ m.issued_at <= now + Skew
    /\ m.expires_at > now - Skew
    /\ now - m.issued_at <= MaxAge + Skew

\* the receiver lets a delivered message reach the store
VerifyBegin(t, m) ==
    /\ verifying[t] = Idle
    /\ KeyActive(m) /\ Fresh(m)
    /\ verifying' = [verifying EXCEPT ![t] = [message |-> m, at |-> now]]
    /\ UNCHANGED <<now, replays, streams, accepted>>

Until(m) == m.expires_at + Skew

LiveReplays(at) == {r \in replays : r.until > at}
LiveStreams(at) == [s \in Streams |-> IF streams[s].until > at THEN streams[s] ELSE NoStream]

\* Mutant: the stream ends with its latest message.
StreamUntilLatest(stream, m) == Until(m)

StreamUntil(stream, m) == Max({stream.until, Until(m)})

\* claim: REPLAYED, OUT_OF_ORDER and FULL forget what expired and nothing else
VerifyClaim(t) ==
    LET m == verifying[t].message
        at == verifying[t].at
        live == LiveReplays(at)
        open == LiveStreams(at)
        stream == open[m.stream]
        stored ==
            /\ \A r \in live : r.id # m.id
            /\ m.sequence = stream.next
            /\ Cardinality(live) < MaxReplay
            /\ stream = NoStream => Cardinality({s \in Streams : open[s] # NoStream}) < MaxStreams
    IN
    /\ verifying[t] # Idle
    /\ verifying' = [verifying EXCEPT ![t] = Idle]
    /\ IF stored
       THEN /\ replays' = live \cup {[id |-> m.id, until |-> Until(m)]}
            /\ streams' = [open EXCEPT ![m.stream] =
                              [next |-> m.sequence + 1, until |-> StreamUntil(stream, m)]]
            /\ accepted' = Append(accepted, [message |-> m, at |-> now])
       ELSE replays' = live /\ streams' = open /\ UNCHANGED accepted
    /\ UNCHANGED now

Tick ==
    /\ now < MaxNow
    /\ now' = now + 1
    /\ UNCHANGED <<replays, streams, verifying, accepted>>

-----------------------------------------------------------------------------

Init ==
    /\ now = 0
    /\ replays = {}
    /\ streams = [s \in Streams |-> NoStream]
    /\ verifying = [t \in Threads |-> Idle]
    /\ accepted = <<>>

Next ==
    \/ \E t \in Threads, m \in Envelopes : VerifyBegin(t, m)
    \/ \E t \in Threads : VerifyClaim(t)
    \/ Tick

Spec == Init /\ [][Next]_vars

-----------------------------------------------------------------------------
(* Properties *)

\* The store keeps within its capacities (MemoryInterAgentStateStore).
TypeOK ==
    /\ Cardinality(replays) <= MaxReplay
    /\ Cardinality({s \in Streams : streams[s] # NoStream}) <= MaxStreams

\* While a message that was accepted could still be accepted, nothing earlier in its stream,
\* nor the message itself, is: whatever the network repeats and however slow a call is
\* (claim).
OrderKept ==
    \A i, j \in DOMAIN accepted :
        /\ i < j
        /\ accepted[i].message.stream = accepted[j].message.stream
        /\ accepted[j].at < Until(accepted[i].message)
        => accepted[i].message.sequence < accepted[j].message.sequence
=============================================================================
