---------------------------- MODULE MCPMessages -----------------------------
(***************************************************************************)
(* MCPMessageVerifier and MemoryMCPReplayStore of                          *)
(* src/trustrail/mcp_messages.py: a signed request or response is accepted *)
(* while it is fresh, and its nonce is remembered as long as that.         *)
(*                                                                         *)
(* The transport delays and repeats messages.  verify reads its clock      *)
(* first and claims last: two steps.  Signatures and contexts match.       *)
(***************************************************************************)
EXTENDS Integers, Sequences, FiniteSets

CONSTANTS
    Threads,
    Envelopes,       \* signed messages: records of EnvelopeType, each with its own nonce
    KeyEnd,          \* expires_at of the key
    MaxTtl, MaxAge, Skew,            \* of the policy, seconds
    MaxEntries,      \* capacity of the store
    MaxNow           \* bound: last clock value explored

EnvelopeType == [nonce : STRING, issued_at : Nat, expires_at : Nat]

VARIABLES
    now,
    entries,     \* _entries: nonces and until when
    verifying,   \* the verify call of each thread
    verified     \* history: messages verified and when, in order

vars == <<now, entries, verifying, verified>>

Idle == [at |-> -1]

-----------------------------------------------------------------------------

KeyActive(m) == now < KeyEnd /\ m.issued_at < KeyEnd

Fresh(m) ==
    /\ m.issued_at <= now + Skew
    /\ m.issued_at >= now - MaxAge
    /\ m.expires_at > now - Skew
    /\ m.expires_at - m.issued_at <= MaxTtl

VerifyBegin(t, m) ==
    /\ verifying[t] = Idle
    /\ KeyActive(m) /\ Fresh(m)
    /\ verifying' = [verifying EXCEPT ![t] = [message |-> m, at |-> now]]
    /\ UNCHANGED <<now, entries, verified>>

ReplayUntil(m) ==
    LET aged == m.issued_at + MaxAge IN
    (IF m.expires_at > aged THEN m.expires_at ELSE aged) + Skew

\* Mutant: a full store takes one more.
RoomAfter(live) == Cardinality(live) <= MaxEntries

Room(live) == Cardinality(live) < MaxEntries

\* claim: REPLAYED and FULL forget what expired and nothing else
VerifyClaim(t) ==
    LET m == verifying[t].message
        live == {e \in entries : e.until > verifying[t].at}
    IN
    /\ verifying[t] # Idle
    /\ verifying' = [verifying EXCEPT ![t] = Idle]
    /\ IF m.nonce \notin {e.nonce : e \in live} /\ Room(live)
       THEN /\ entries' = live \cup {[nonce |-> m.nonce, until |-> ReplayUntil(m)]}
            /\ verified' = Append(verified, [message |-> m, at |-> now])
       ELSE entries' = live /\ UNCHANGED verified
    /\ UNCHANGED now

Tick ==
    /\ now < MaxNow
    /\ now' = now + 1
    /\ UNCHANGED <<entries, verifying, verified>>

-----------------------------------------------------------------------------

Init ==
    /\ now = 0
    /\ entries = {}
    /\ verifying = [t \in Threads |-> Idle]
    /\ verified = <<>>

Next ==
    \/ \E t \in Threads, m \in Envelopes : VerifyBegin(t, m)
    \/ \E t \in Threads : VerifyClaim(t)
    \/ Tick

Spec == Init /\ [][Next]_vars

-----------------------------------------------------------------------------
(* Properties *)

\* The store keeps within its capacity (MemoryMCPReplayStore).
TypeOK == Cardinality(entries) <= MaxEntries

\* A message is not verified twice while it is fresh, even when calls are slow and other
\* messages push the store to forget (verify, claim).
AcceptedOnce ==
    \A i, j \in DOMAIN verified :
        LET m == verified[i].message IN
        /\ i < j
        /\ verified[j].at < m.expires_at + Skew
        => verified[j].message # m
=============================================================================
