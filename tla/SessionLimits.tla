---------------------------- MODULE SessionLimits ---------------------------
(***************************************************************************)
(* One AgentSession of src/trustrail/agents/session.py, and the rules of   *)
(* src/trustrail/rules/resource/limits.py that remember a session: the     *)
(* cumulative token budget and the rate of requests.                       *)
(*                                                                         *)
(* Tasks of the session share it on one event loop, and each step or tool  *)
(* call is counted and compared with the limits before the task awaits.    *)
(* The rules then run in a thread of their own for every check, and there  *)
(* is no lock.  The interpreter (CPython 3.11 or later, with its lock)     *)
(* switches threads after a call and at the end of a loop's round, nowhere *)
(* else inside of a function.  The budget adds to the total and reads it   *)
(* without either, so that is one step.  The rate rule copies its log      *)
(* without what is too old, stores the copy, appends to what is stored     *)
(* then, and counts, with calls and a loop; another thread may come in     *)
(* between.  An entry of the log, a time, is known by the check that made  *)
(* it.                                                                     *)
(***************************************************************************)
EXTENDS Integers, FiniteSets, Sequences

CONSTANTS
    Tasks,
    MaxSteps, MaxToolCalls, MaxDepth, MaxDuration,
    TokenBudget,      \* session_budget_tokens
    Sizes,            \* estimated tokens of what is checked
    MaxRequests,      \* max_requests of the rate rule
    Window,           \* window_seconds
    MaxChecks,        \* bound: steps and tool calls
    MaxNow            \* bound: clock

VARIABLES
    now,
    step_count, tool_call_count, recursion_depth,
    session_total,    \* _session_totals of the session
    request_log,      \* _request_log of the session: the checks in it
    calls,            \* where each task or its thread is
    checks            \* history: steps and tool calls, in order; clock: their time in the log

vars == <<now, step_count, tool_call_count, recursion_depth, session_total, request_log,
          calls, checks>>
Idle == [at |-> "idle"]

-----------------------------------------------------------------------------
(* AgentSession *)

\* check_limits
Exceeded(steps, tools) ==
    \/ steps > MaxSteps \/ tools > MaxToolCalls
    \/ recursion_depth > MaxDepth \/ now >= MaxDuration

\* step, or validate_tool_call, up to the check
Admit(t, kind, tokens) ==
    /\ calls[t] = Idle
    /\ Len(checks) < MaxChecks
    /\ step_count' = step_count + (IF kind = "step" THEN 1 ELSE 0)
    /\ tool_call_count' = tool_call_count + (IF kind = "tool" THEN 1 ELSE 0)
    /\ LET refused == Exceeded(step_count', tool_call_count')
       IN  /\ checks' = Append(checks,
                [kind |-> kind, at |-> now, tokens |-> tokens, depth |-> recursion_depth,
                 admitted |-> ~refused, in_budget |-> FALSE, in_rate |-> FALSE, clock |-> 0])
           /\ calls' = IF refused THEN calls
                       ELSE [calls EXCEPT ![t] = [at |-> "check", check |-> Len(checks) + 1]]
    /\ UNCHANGED <<now, recursion_depth, session_total, request_log>>

EnterRecursion ==
    /\ recursion_depth <= MaxDepth
    /\ recursion_depth' = recursion_depth + 1
    /\ UNCHANGED <<now, step_count, tool_call_count, session_total, request_log, calls, checks>>

ExitRecursion ==
    /\ recursion_depth' = IF recursion_depth > 0 THEN recursion_depth - 1 ELSE 0
    /\ UNCHANGED <<now, step_count, tool_call_count, session_total, request_log, calls, checks>>

-----------------------------------------------------------------------------
(* Rules that remember, each check in its thread *)

\* Mutant: the budget is compared before the request is added.
InBudgetBefore(tokens) == session_total <= TokenBudget

\* CumulativeTokenBudgetRule.evaluate
InBudget(tokens) == session_total + tokens <= TokenBudget

Charge(t) ==
    /\ calls[t].at = "check"
    /\ LET c == calls[t].check
       IN  /\ session_total' = session_total + checks[c].tokens
           /\ checks' = [checks EXCEPT ![c].in_budget = InBudget(checks[c].tokens)]
           /\ calls' = [calls EXCEPT ![t] = IF InBudget(checks[c].tokens)
                                            THEN [at |-> "rate", check |-> c] ELSE Idle]
    /\ UNCHANGED <<now, step_count, tool_call_count, recursion_depth, request_log>>

\* SessionRequestRateLimitRule.evaluate: the clock is read and the log copied
CopyLog(t) ==
    /\ calls[t].at = "rate"
    /\ calls' = [calls EXCEPT ![t] =
        [at |-> "copied", check |-> calls[t].check,
         log |-> {c \in request_log : checks[c].clock >= now - Window}]]
    /\ checks' = [checks EXCEPT ![calls[t].check].clock = now]
    /\ UNCHANGED <<now, step_count, tool_call_count, recursion_depth, session_total, request_log>>

StoreLog(t) ==
    /\ calls[t].at = "copied"
    /\ request_log' = calls[t].log
    /\ calls' = [calls EXCEPT ![t] = [at |-> "stored", check |-> calls[t].check]]
    /\ UNCHANGED <<now, step_count, tool_call_count, recursion_depth, session_total, checks>>

AppendLog(t) ==
    /\ calls[t].at = "stored"
    /\ request_log' = request_log \cup {calls[t].check}
    /\ calls' = [calls EXCEPT ![t] = [at |-> "appended", check |-> calls[t].check]]
    /\ UNCHANGED <<now, step_count, tool_call_count, recursion_depth, session_total, checks>>

CountLog(t) ==
    /\ calls[t].at = "appended"
    /\ checks' = [checks EXCEPT ![calls[t].check].in_rate = Cardinality(request_log) <= MaxRequests]
    /\ calls' = [calls EXCEPT ![t] = Idle]
    /\ UNCHANGED <<now, step_count, tool_call_count, recursion_depth, session_total, request_log>>

Tick ==
    /\ now < MaxNow
    /\ now' = now + 1
    /\ UNCHANGED <<step_count, tool_call_count, recursion_depth, session_total, request_log,
                   calls, checks>>

Init ==
    /\ now = 0 /\ step_count = 0 /\ tool_call_count = 0 /\ recursion_depth = 0
    /\ session_total = 0 /\ request_log = {} /\ checks = <<>>
    /\ calls = [t \in Tasks |-> Idle]

Next ==
    \/ \E t \in Tasks, kind \in {"step", "tool"}, tokens \in Sizes : Admit(t, kind, tokens)
    \/ EnterRecursion
    \/ ExitRecursion
    \/ \E t \in Tasks : Charge(t)
    \/ \E t \in Tasks : CopyLog(t)
    \/ \E t \in Tasks : StoreLog(t)
    \/ \E t \in Tasks : AppendLog(t)
    \/ \E t \in Tasks : CountLog(t)
    \/ Tick

Spec == Init /\ [][Next]_vars

-----------------------------------------------------------------------------
(* Properties *)

\* Type invariant of the session.
TypeOK ==
    /\ now \in 0..MaxNow
    /\ step_count + tool_call_count = Len(checks)
    /\ recursion_depth \in 0..(MaxDepth + 1)
    /\ request_log \subseteq DOMAIN checks

Admitted(kind) == {i \in DOMAIN checks : checks[i].admitted /\ checks[i].kind = kind}

\* However tasks overlap, no more steps and tool calls go ahead than the session may make, none
\* of them too deep or too late.
WithinSessionLimits ==
    /\ Cardinality(Admitted("step")) <= MaxSteps
    /\ Cardinality(Admitted("tool")) <= MaxToolCalls
    /\ \A i \in DOMAIN checks :
          checks[i].admitted => checks[i].depth <= MaxDepth /\ checks[i].at < MaxDuration

\* Tokens of the first checks that passed the budget rule, by the number of checks.
PassedTokens(log) ==
    LET passed[n \in 0..Len(log)] ==
            IF n = 0 THEN 0 ELSE passed[n - 1] + (IF log[n].in_budget THEN log[n].tokens ELSE 0)
    IN  passed

\* What passes the budget rule in all checks of a session together is within its budget,
\* whatever was refused in between.
TokensWithinBudget == PassedTokens(checks)[Len(checks)] <= TokenBudget

\* checks that passed the rate rule in the window from start
Rated(start) ==
    {i \in DOMAIN checks : checks[i].in_rate /\ checks[i].clock \in start..start + Window}

\* The rate rule lets no more requests through in any window of its clock than it should, as
\* long as the checks of the session do not overlap: two threads lose each other's requests.
RateHeld ==
    Cardinality(Tasks) = 1 => \A start \in 0..now : Cardinality(Rated(start)) <= MaxRequests
=============================================================================
