----------------------------- MODULE SingleUse ------------------------------
(***************************************************************************)
(* What the stores of grants, approvals, nonces and checkpoints promise:   *)
(* a token that was issued is used at most once, and not at all after it   *)
(* was revoked.  Components are shown to implement this specification.     *)
(***************************************************************************)
EXTENDS Naturals

CONSTANT Tokens

VARIABLES state, uses

Absent(x) == state[x] = "absent"

Init ==
    /\ state \in [Tokens -> {"absent", "live"}]
    /\ uses = [x \in Tokens |-> 0]

Issue(x) ==
    /\ Absent(x)
    /\ state' = [state EXCEPT ![x] = "live"]
    /\ UNCHANGED uses

Use(x) ==
    /\ state[x] = "live"
    /\ state' = [state EXCEPT ![x] = "spent"]
    /\ uses' = [uses EXCEPT ![x] = @ + 1]

\* several tokens are used together or none of them
UseAll(S) ==
    /\ \A x \in S : state[x] = "live"
    /\ state' = [x \in Tokens |-> IF x \in S THEN "spent" ELSE state[x]]
    /\ uses' = [x \in Tokens |-> IF x \in S THEN uses[x] + 1 ELSE uses[x]]

Revoke(S) ==
    /\ state' = [x \in Tokens |-> IF x \in S /\ ~Absent(x) THEN "revoked" ELSE state[x]]
    /\ UNCHANGED uses

Next ==
    \/ \E x \in Tokens : Issue(x) \/ Use(x)
    \/ \E S \in SUBSET Tokens : UseAll(S) \/ Revoke(S)

Spec == Init /\ [][Next]_<<state, uses>>

\* No token is used twice, and one used is spent or revoked ever after.
AtMostOnce == \A x \in Tokens : uses[x] <= (IF state[x] \in {"spent", "revoked"} THEN 1 ELSE 0)
=============================================================================
