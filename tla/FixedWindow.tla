----------------------------- MODULE FixedWindow -----------------------------
(***************************************************************************)
(* What FixedWindowRateLimiter promises (docs/guides/rate-limiting.md): the *)
(* first request on a key starts a window; every request of the window,    *)
(* blocked or not, is counted and none of them moves its end; a request at *)
(* the end of the window starts the next one.  No storage, no eviction, no *)
(* network.                                                                *)
(***************************************************************************)
EXTENDS Integers

CONSTANTS Keys, Window

VARIABLES now, open   \* open[k]: the end of k's window and the requests counted in it

Closed == [ends |-> 0, count |-> 0]
Running(k) == now < open[k].ends

\* A request on k is counted in the running window, or starts the next one.
Count(k) ==
    /\ open' = [open EXCEPT ![k] =
                  IF Running(k) THEN [ends |-> open[k].ends, count |-> open[k].count + 1]
                  ELSE [ends |-> now + Window, count |-> 1]]
    /\ UNCHANGED now

\* The windows of the keys in S are dropped: reset, clear.
Drop(S) ==
    /\ open' = [k \in Keys |-> IF k \in S THEN Closed ELSE open[k]]
    /\ UNCHANGED now

\* Time passes; a window that ended is closed.
Pass ==
    /\ now' = now + 1
    /\ open' = [k \in Keys |-> IF now' < open[k].ends THEN open[k] ELSE Closed]

Init == now = 0 /\ open = [k \in Keys |-> Closed]

Next ==
    \/ \E k \in Keys : Count(k)
    \/ \E S \in SUBSET Keys : Drop(S)
    \/ Pass

Spec == Init /\ [][Next]_<<now, open>>
=============================================================================
