------------------------- MODULE JailbreakCampaign -------------------------
(***************************************************************************)
(* JailbreakCampaignDetector and MemoryCampaignStateStore of               *)
(* src/trustrail/jailbreak_campaign.py: turns of a conversation are        *)
(* appended to its state by compare-and-set.                               *)
(*                                                                         *)
(* assess captures its clock, reads the state, computes the next one and   *)
(* writes it if the version is still the one it read, a bounded number of  *)
(* times.  Read and write are atomic, anything may happen between them.    *)
(* A conversation is risky when its turns, none of them risky alone, make  *)
(* up a campaign: scores and signals of a turn are abstracted to that.     *)
(***************************************************************************)
EXTENDS Integers, FiniteSets, Sequences

CONSTANTS
    Threads,
    Scopes,         \* conversations
    Events,         \* turns that may be submitted: scope, sequence and part
    Campaign,       \* parts that together make a campaign
    Ttl,            \* session_ttl_seconds
    MaxSessions,    \* max_sessions of the store
    MaxTurns,       \* max_turns kept in the state
    MaxRetries,     \* max_atomic_retries
    MaxNow,         \* bound: clock
    MaxResets       \* bound: resets

VARIABLES
    now,
    states,         \* _states
    calls,          \* the call each thread is in
    trajectory,     \* history: turns committed to each conversation since it started
    lives,          \* history: how often a conversation was reset or expired
    revived         \* history: conversations written over by a turn of an earlier life

vars == <<now, states, calls, trajectory, lives, revived>>
Idle == [op |-> "idle"]
Goto(t, call) == calls' = [calls EXCEPT ![t] = call]
Resets == LET total[S \in SUBSET Scopes] ==
                IF S = {} THEN 0
                ELSE LET s == CHOOSE s \in S : TRUE IN lives[s] + total[S \ {s}]
          IN  total[Scopes]

-----------------------------------------------------------------------------
(* The store *)

Expired(clock) == {s \in DOMAIN states : states[s].expires_at <= clock}

\* states without the conversations in gone, a new life of which may begin
Without(gone) == [s \in DOMAIN states \ gone |-> states[s]]
Ended(gone) ==
    /\ lives' = [s \in Scopes |-> lives[s] + IF s \in gone THEN 1 ELSE 0]
    /\ trajectory' = [s \in Scopes |-> IF s \in gone THEN <<>> ELSE trajectory[s]]
    /\ revived' = revived \ gone

Version(s, stored) == IF s \in DOMAIN stored THEN stored[s].version ELSE 0

-----------------------------------------------------------------------------
(* assess *)

\* _event_finding passes
AssessBegin(t, event) ==
    /\ calls[t] = Idle
    /\ Goto(t, [op |-> "read", event |-> event, clock |-> now, tries |-> MaxRetries])
    /\ UNCHANGED <<now, states, trajectory, lives, revived>>

\* last turns only
Kept(turns) ==
    IF Len(turns) > MaxTurns THEN SubSeq(turns, Len(turns) - MaxTurns + 1, Len(turns)) ELSE turns

\* _action, and block is kept
Action(turns, last) ==
    IF last = "block" \/ Campaign \subseteq {turns[i].part : i \in DOMAIN turns}
    THEN "block" ELSE "allow"

\* _next_state after previous, which is the state that was read or none
NextState(previous, event, clock) ==
    LET turns == Kept(Append(previous.turns, event))
    IN  [version |-> previous.version + 1,
         next_sequence |-> event.sequence + 1,
         turns |-> turns,
         last_action |-> Action(turns, previous.last_action),
         expires_at |-> clock + Ttl]
NoState == [version |-> 0, next_sequence |-> 0, turns |-> <<>>, last_action |-> "allow"]

\* read, and _state_finding: replays and gaps are rejected
AssessRead(t) ==
    /\ calls[t].op = "read"
    /\ LET event == calls[t].event
           gone == Expired(calls[t].clock)
           left == Without(gone)
           state == IF event.scope \in DOMAIN left THEN left[event.scope] ELSE NoState
       IN  /\ states' = left
           /\ Ended(gone)
           /\ IF event.sequence = state.next_sequence
              THEN Goto(t, [op |-> "write", event |-> event, clock |-> calls[t].clock,
                            tries |-> calls[t].tries, version |-> state.version,
                            life |-> lives'[event.scope],
                            next |-> NextState(state, event, calls[t].clock)])
              ELSE Goto(t, Idle)
    /\ UNCHANGED now

\* Mutant: a conversation that is there is written whatever its version.
MatchesAny(s, version, stored) == version > 0 \/ Version(s, stored) = version

Matches(s, version, stored) == Version(s, stored) = version

\* compare_and_set; the call is over, or tries again when the version has changed
AssessWrite(t) ==
    /\ calls[t].op = "write"
    /\ LET call == calls[t]
           s == call.event.scope
           gone == Expired(call.clock)
           left == Without(gone)
       IN  IF ~Matches(s, call.version, left)
           THEN /\ states' = left
                /\ Ended(gone)
                /\ IF call.tries > 1
                   THEN Goto(t, [op |-> "read", event |-> call.event, clock |-> call.clock,
                                 tries |-> call.tries - 1])
                   ELSE Goto(t, Idle)
           ELSE IF s \notin DOMAIN left /\ Cardinality(DOMAIN left) >= MaxSessions
           THEN /\ states' = left
                /\ Ended(gone)
                /\ Goto(t, Idle)
           ELSE /\ states' = [x \in DOMAIN left \cup {s} |-> IF x = s THEN call.next ELSE left[x]]
                /\ lives' = [x \in Scopes |-> lives[x] + IF x \in gone THEN 1 ELSE 0]
                /\ trajectory' = [x \in Scopes |->
                    LET before == IF x \in gone THEN <<>> ELSE trajectory[x]
                    IN  IF x = s THEN Append(before, call.event) ELSE before]
                /\ revived' = (revived \ gone) \cup
                    IF call.version > 0 /\ call.life # lives'[s] THEN {s} ELSE {}
                /\ Goto(t, Idle)
    /\ UNCHANGED now

-----------------------------------------------------------------------------
\* reset_session: the application discarded the context
Reset(s) ==
    /\ Resets < MaxResets
    /\ s \in DOMAIN states
    /\ states' = Without({s})
    /\ Ended({s})
    /\ UNCHANGED <<now, calls>>

Tick == now < MaxNow /\ now' = now + 1 /\ UNCHANGED <<states, calls, trajectory, lives, revived>>

Init ==
    /\ now = 0
    /\ states = [s \in {} |-> NoState]
    /\ calls = [t \in Threads |-> Idle]
    /\ trajectory = [s \in Scopes |-> <<>>]
    /\ lives = [s \in Scopes |-> 0]
    /\ revived = {}

Next ==
    \/ \E t \in Threads, event \in Events : AssessBegin(t, event)
    \/ \E t \in Threads : AssessRead(t) \/ AssessWrite(t)
    \/ \E s \in Scopes : Reset(s)
    \/ Tick

Spec == Init /\ [][Next]_vars

-----------------------------------------------------------------------------
(* Properties *)

\* Type invariant of the store and the calls.
TypeOK ==
    /\ DOMAIN states \subseteq Scopes /\ Cardinality(DOMAIN states) <= MaxSessions
    /\ \A s \in DOMAIN states :
        /\ Len(states[s].turns) <= MaxTurns
        /\ states[s].last_action \in {"allow", "block"}
    /\ \A t \in Threads : calls[t].op \in {"idle", "read", "write"}
    /\ revived \subseteq Scopes

Parts(turns) == {turns[i].part : i \in DOMAIN turns}

\* No turn of a conversation is lost to a concurrent one: what is stored are the last turns
\* that were committed, in order, unless a slow call wrote over a later life.
TrajectoryKept ==
    \A s \in DOMAIN states \ revived : states[s].turns = Kept(trajectory[s])

\* "The decision remains sticky until reset" (docs/security/cross-turn-jailbreak-campaigns.md:
\* 122): once the turns within one window made up a campaign, the conversation is blocked,
\* though its turns leave the window and their calls overlap.
BlockSticky ==
    \A s \in DOMAIN states \ revived :
        (\E i \in DOMAIN trajectory[s] : Campaign \subseteq Parts(Kept(SubSeq(trajectory[s], 1, i))))
            => states[s].last_action = "block"
=============================================================================
