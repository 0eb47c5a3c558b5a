---------------------------- MODULE GuardPipeline ---------------------------
(***************************************************************************)
(* One evaluation by Guard of src/trustrail/guard.py: check, acheck and    *)
(* authorize_memory_write.                                                 *)
(*                                                                         *)
(* Content is the set of things in it that some check looks for.  Rules of *)
(* a stage are applied one after another in a thread, each to what the one *)
(* before left; async transformations and providers that redact follow,    *)
(* and then the independent checks, at the same time.  Any of them may     *)
(* raise, or never return.  Rules belong to a category, and sensitive_data *)
(* has a mode of its own; scores are those of the severities.              *)
(***************************************************************************)
EXTENDS Integers, FiniteSets, Sequences, FiniteSetTheorems, WellFoundedInduction, TLAPS

CONSTANTS
    Contents,         \* what is submitted: sets of things
    Rules,            \* synchronous rules of the stage, in order, of CheckType
    Transformers,     \* async transform rules and sensitive-data providers, in order
    Detectors,        \* independent async rules and providers, in order
    MaxConcurrency,   \* max_async_concurrency
    RedactMode,       \* sensitive_data_mode is REDACT, otherwise DEFAULT
    FailClosed,       \* fail_mode of the guard
    HasApproval,      \* an approval provider is configured
    BlockAt, WarnAt   \* thresholds of the score

\* what a check looks for and asks for; replaces: it offers the content without it, and with
\* what that reveals; closed: its own fail_mode; provider: an external one, not an async rule.
\* Independent providers offer no other content and find nothing sensitive.
CheckType == [item : STRING, action : STRING, score : Nat, sensitive : BOOLEAN,
              replaces : BOOLEAN, reveals : SUBSET STRING, closed : BOOLEAN, provider : BOOLEAN]

VARIABLES
    submitted,     \* the content
    phase,         \* where the evaluation is
    step,          \* the rule or transformer that runs
    state,         \* _EvaluationState: what is left of the content, risk, actions asked for
    running,       \* detectors: waiting, running or with their outcome
    failed,        \* history: a check that must not fail did
    answer         \* GuardResult, or what authorize_memory_write did

vars == <<submitted, phase, step, state, running, failed, answer>>
None == "none"
Critical == 100
High == 30

\* the actions, the one that prevails first
Precedence == <<"BLOCK", "QUARANTINE", "REQUIRE_APPROVAL", "RETRY", "WARN", "REDACT",
                "TRANSFORM", "ALLOW">>

-----------------------------------------------------------------------------
(* Decisions *)

\* _apply_sensitive_data_mode
ModeAction(check) ==
    IF check.sensitive /\ RedactMode
    THEN (IF check.replaces THEN "REDACT" ELSE "BLOCK")
    ELSE check.action

Handled(check) == check.sensitive /\ RedactMode /\ check.replaces

\* what a check answers about a content
Decision(check, content) ==
    IF check.item \in content
    THEN [action |-> ModeAction(check), score |-> check.score, handled |-> Handled(check),
          content |-> IF check.replaces THEN (content \ {check.item}) \cup check.reveals
                      ELSE content]
    ELSE [action |-> "ALLOW", score |-> 0, handled |-> FALSE, content |-> content]

\* _failure_outcome
Failure(closed, content) ==
    [action |-> IF closed THEN "BLOCK" ELSE "WARN", score |-> IF closed THEN High ELSE 0,
     handled |-> ~closed, content |-> content]

\* _merge_async_outcome
Merge(s, decision) ==
    [content |-> IF decision.action \in {"REDACT", "TRANSFORM"} THEN decision.content ELSE s.content,
     risk |-> s.risk + (IF decision.handled THEN 0 ELSE decision.score),
     worst |-> IF decision.handled \/ decision.score < s.worst THEN s.worst ELSE decision.score,
     actions |-> s.actions \cup ({decision.action} \ {"TRANSFORM"})]

\* _determine_action
Determine(s) ==
    LET asked == s.actions \cup {"ALLOW"}
                 \cup (IF s.worst >= Critical \/ s.risk >= BlockAt THEN {"BLOCK"} ELSE {})
                 \cup (IF s.worst >= High \/ s.risk >= WarnAt THEN {"WARN"} ELSE {})
        first == CHOOSE i \in DOMAIN Precedence :
                    Precedence[i] \in asked /\ \A j \in 1..(i - 1) : Precedence[j] \notin asked
    IN  Precedence[first]

Blocked(s) == Determine(s) = "BLOCK"

\* _finalize_evaluation_state
Result(s) == [action |-> Determine(s), content |-> s.content]

-----------------------------------------------------------------------------
(* Synchronous rules: _evaluate_rules_state *)

\* critical findings and resource limits end the evaluation
Ends(check, decision) ==
    \/ decision.score >= Critical /\ ~decision.handled
    \/ decision.action = "BLOCK" /\ check.item = "size"

\* the rule that runs returns, or raises
Rule(raises) ==
    /\ phase = "rules" /\ step <= Len(Rules)
    /\ LET check == Rules[step]
           decision == Decision(check, state.content)
       IN  IF raises
           THEN /\ state' = IF check.closed THEN Merge(state, Failure(TRUE, state.content)) ELSE state
                /\ failed' = (failed \/ check.closed)
                /\ step' = step + 1
           ELSE /\ state' = Merge(state, decision)
                /\ step' = IF Ends(check, decision) THEN Len(Rules) + 1 ELSE step + 1
                /\ UNCHANGED failed
    /\ UNCHANGED <<submitted, phase, running, answer>>

\* after the last rule; a stage without async checks is done
RulesDone ==
    /\ phase = "rules" /\ step > Len(Rules)
    /\ IF Blocked(state) \/ Transformers \o Detectors = <<>>
       THEN phase' = "audit" /\ answer' = Result(state)
       ELSE phase' = "transform" /\ UNCHANGED answer
    /\ step' = 1
    /\ UNCHANGED <<submitted, state, running, failed>>

-----------------------------------------------------------------------------
(* Async checks: _evaluate_async_pipeline *)

\* an async transform rule or a provider that redacts returns, or raises or runs out of time
Transform(fails) ==
    /\ phase = "transform" /\ step <= Len(Transformers)
    /\ LET check == Transformers[step]
           decision == IF fails THEN Failure(check.closed, state.content)
                       ELSE Decision(check, state.content)
           merged == Merge(state, decision)
       IN  /\ state' = merged
           /\ failed' = (failed \/ (fails /\ check.closed))
           /\ IF Blocked(merged)
              THEN phase' = "audit" /\ answer' = Result(merged)
              ELSE UNCHANGED <<phase, answer>>
    /\ step' = step + 1
    /\ UNCHANGED <<submitted, running>>

TransformsDone ==
    /\ phase = "transform" /\ step > Len(Transformers)
    /\ phase' = "detect"
    /\ UNCHANGED <<submitted, step, state, running, failed, answer>>

\* Mutant: the independent checks are given what was submitted.
SubmittedInput(s) == submitted

\* the independent checks are given what the transformations left
DetectorInput(s) == s.content

\* the semaphore admits the next detector
Start(d) ==
    /\ phase = "detect" /\ running[d] = "waiting"
    /\ \A e \in 1..(d - 1) : running[e] # "waiting"
    /\ Cardinality({e \in DOMAIN running : running[e] = "running"}) < MaxConcurrency
    /\ running' = [running EXCEPT ![d] = "running"]
    /\ UNCHANGED <<submitted, phase, step, state, failed, answer>>

\* _run_async_rule refuses an independent rule that wants to transform; _invoke_provider passes
\* on the action a provider is registered with, whatever it is
Refused(check) == ~check.provider /\ check.action \in {"REDACT", "TRANSFORM"}

\* a detector returns, or raises or runs out of time
Return(d, fails) ==
    /\ phase = "detect" /\ running[d] = "running"
    /\ LET fault == fails \/ (Detectors[d].item \in DetectorInput(state) /\ Refused(Detectors[d]))
       IN  /\ running' = [running EXCEPT ![d] = IF fault THEN "failed" ELSE "returned"]
           /\ failed' = (failed \/ (fault /\ Detectors[d].closed))
    /\ UNCHANGED <<submitted, phase, step, state, answer>>

\* gather: outcomes are merged in the order of registration
Outcome(d) ==
    IF running[d] = "failed" THEN Failure(Detectors[d].closed, DetectorInput(state))
    ELSE Decision(Detectors[d], DetectorInput(state))

\* what a state becomes as decisions are merged into it, by how many have been
Merging(s, decisions) ==
    LET merged[d \in 0..Len(decisions)] ==
            IF d = 0 THEN s ELSE Merge(merged[d - 1], decisions[d])
    IN  merged

MergeAll(s, decisions) == Merging(s, decisions)[Len(decisions)]

Gather ==
    /\ phase = "detect"
    /\ \A d \in DOMAIN running : running[d] \in {"returned", "failed"}
    /\ state' = MergeAll(state, [d \in 1..Len(Detectors) |-> Outcome(d)])
    /\ answer' = Result(state')
    /\ phase' = "audit"
    /\ UNCHANGED <<submitted, step, running, failed>>

-----------------------------------------------------------------------------
(* Deadline and answer *)

\* Mutant: the deadline is set when the async checks begin.
WatchedAsync == phase \in {"transform", "detect"}

\* timeout_seconds: the caller waits for the thread or the pipeline only so long
Watched == phase \in {"rules", "transform", "detect"}

\* _timeout_result: in open mode what was submitted is returned as it was
Deadline ==
    /\ Watched
    /\ answer' = [action |-> IF FailClosed THEN "BLOCK" ELSE "WARN", content |-> submitted]
    /\ failed' = (failed \/ FailClosed)
    /\ phase' = "audit"
    /\ UNCHANGED <<submitted, step, state, running>>

\* alerts and the audit sink, whose exceptions are dropped
Audited ==
    /\ phase = "audit"
    /\ phase' = IF answer.action = "REQUIRE_APPROVAL" THEN "approval" ELSE "answered"
    /\ UNCHANGED <<submitted, step, state, running, failed, answer>>

\* authorize_memory_write: without a provider, or when it raises or denies, nothing is written
Approval(approved) ==
    /\ phase = "approval"
    /\ phase' = "answered"
    /\ answer' = [action |-> IF approved /\ HasApproval THEN "ALLOW" ELSE "BLOCK",
                  content |-> answer.content]
    /\ UNCHANGED <<submitted, step, state, running, failed>>

Init ==
    /\ submitted \in Contents
    /\ phase = "rules" /\ step = 1
    /\ state = [content |-> submitted, risk |-> 0, worst |-> 0, actions |-> {}]
    /\ running = [d \in DOMAIN Detectors |-> "waiting"]
    /\ failed = FALSE
    /\ answer = [action |-> None, content |-> {}]

Next ==
    \/ \E raises \in BOOLEAN : Rule(raises)
    \/ RulesDone
    \/ \E fails \in BOOLEAN : Transform(fails)
    \/ TransformsDone
    \/ \E d \in DOMAIN running : Start(d)
    \/ \E d \in DOMAIN running, fails \in BOOLEAN : Return(d, fails)
    \/ Gather
    \/ Deadline
    \/ Audited
    \/ \E approved \in BOOLEAN : Approval(approved)

\* Rules and providers may never return; time passes, the event loop runs what is ready, and
\* alerts, the audit sink and the approval provider return.
Fairness ==
    /\ WF_vars(RulesDone) /\ WF_vars(TransformsDone) /\ WF_vars(Gather) /\ WF_vars(Deadline)
    /\ WF_vars(Audited) /\ WF_vars(\E approved \in BOOLEAN : Approval(approved))

Spec == Init /\ [][Next]_vars /\ Fairness

-----------------------------------------------------------------------------
(* Properties *)

Answered == phase = "answered"

\* what protect hands back
Released == Answered /\ answer.action \notin {"BLOCK", "REQUIRE_APPROVAL"}

\* Type invariant of the evaluation.
TypeOK ==
    /\ phase \in {"rules", "transform", "detect", "audit", "approval", "answered"}
    /\ step \in 1..(Len(Rules) + Len(Transformers) + 1)
    /\ running \in [DOMAIN Detectors -> {"waiting", "running", "returned", "failed"}]
    /\ Cardinality({d \in DOMAIN running : running[d] = "running"}) <= MaxConcurrency
    /\ Answered => answer.action \in {Precedence[i] : i \in DOMAIN Precedence}

\* a rule or transformer that blocks what it looks for, or takes it out
Removes(check) ==
    /\ check.closed
    /\ \/ ModeAction(check) = "BLOCK"
       \/ ModeAction(check) \in {"REDACT", "TRANSFORM"} /\ check.replaces

\* an independent check that blocks, or a rule that fails because it wants to transform; a
\* provider registered to redact is neither
Forbids(check) == check.closed /\ (ModeAction(check) = "BLOCK" \/ Refused(check))

RevealedSince(checks, i, item) ==
    \E j \in DOMAIN checks : i <= j /\ item \in checks[j].reveals

\* what the checks say about a content that came out of them
CleanOfRules(content) ==
    \A i \in DOMAIN Rules : Removes(Rules[i]) /\ Rules[i].item \in content =>
        \/ RevealedSince(Rules, i, Rules[i].item)
        \/ RevealedSince(Transformers, 1, Rules[i].item)
        \/ RevealedSince(Detectors, 1, Rules[i].item)

CleanOfTransformers(content) ==
    \A i \in DOMAIN Transformers : Removes(Transformers[i]) /\ Transformers[i].item \in content =>
        \/ RevealedSince(Transformers, i, Transformers[i].item)
        \/ RevealedSince(Detectors, 1, Transformers[i].item)

CleanOfDetectors(content) ==
    \A i \in DOMAIN Detectors : Forbids(Detectors[i]) /\ Detectors[i].item \in content =>
        RevealedSince(Detectors, 1, Detectors[i].item)

\* What a rule or a transformer blocks or takes out is not in what is released unless something
\* that ran later revealed it, and what an independent check forbids is not there even then,
\* but for what the independent checks themselves reveal.  What a provider asks to redact is
\* not forbidden: RedactingFails says what the documentation wants.
ReleasedClean ==
    Released /\ FailClosed =>
        /\ CleanOfRules(answer.content)
        /\ CleanOfTransformers(answer.content)
        /\ CleanOfDetectors(answer.content)

\* "Independent checks cannot return REDACT or TRANSFORM", and "FailMode.CLOSED turns a timeout,
\* invalid result, or exception into a blocking" finding (docs/integrations/
\* external-safety-providers.md:103, :116): nothing is released in which an independent check
\* that must not fail found what it wants to be redacted.
RedactingFails ==
    Released /\ FailClosed =>
        \A d \in DOMAIN Detectors :
            Detectors[d].closed /\ Detectors[d].action \in {"REDACT", "TRANSFORM"} =>
                Detectors[d].item \notin answer.content

\* A check that may not fail and does, in time or out of it, blocks whatever the others found.
FailureBlocks == Answered /\ failed => answer.action = "BLOCK"

\* Every check is answered, although rules and providers may never return.
EventuallyAnswered == <>Answered

-----------------------------------------------------------------------------
(* Proofs, for any rules, transformers and independent checks.  A check that  *)
(* asks to block dooms the evaluation, whatever is merged later; while it is  *)
(* not doomed, everything that ran before has left its mark on the content.   *)

\* The checks are configured as the guard wants them.
WellFormed ==
    /\ Rules \in Seq(CheckType)
    /\ Transformers \in Seq(CheckType)
    /\ Detectors \in Seq(CheckType)

\* whatever is merged into it, the state stays blocked
Doomed(s) == "BLOCK" \in s.actions \/ s.worst >= Critical

\* How the first action that was asked for is found (_determine_action).
LEMMA DoomedBlocks ==
    ASSUME NEW s, Doomed(s)
    PROVE  Determine(s) = "BLOCK"
<1> DEFINE asked == s.actions \cup {"ALLOW"}
                    \cup (IF s.worst >= Critical \/ s.risk >= BlockAt THEN {"BLOCK"} ELSE {})
                    \cup (IF s.worst >= High \/ s.risk >= WarnAt THEN {"WARN"} ELSE {})
           First(i) == Precedence[i] \in asked /\ \A j \in 1..(i - 1) : Precedence[j] \notin asked
<1>1. "BLOCK" \in asked
  BY DEF Doomed
<1>2. DOMAIN Precedence = 1..8 /\ Precedence[1] = "BLOCK"
  BY DEF Precedence
<1> HIDE DEF asked
<1>3. First(1)
  BY <1>1, <1>2
<1>4. \A i \in DOMAIN Precedence : First(i) => i = 1
  BY <1>1, <1>2
<1>5. (CHOOSE i \in DOMAIN Precedence : First(i)) = 1
  BY <1>2, <1>3, <1>4
<1> QED
  BY <1>2, <1>5 DEF Determine, asked

\* Merging never takes an action back and never lowers the worst severity.
LEMMA MergeKeepsDoom ==
    ASSUME NEW s, NEW d, s.worst \in Nat, d.score \in Nat
    PROVE  /\ Merge(s, d).worst \in Nat
           /\ Doomed(s) => Doomed(Merge(s, d))
           /\ d.action = "BLOCK" => Doomed(Merge(s, d))
           /\ d.score >= Critical /\ ~d.handled => Doomed(Merge(s, d))
BY DEF Merge, Doomed, Critical

\* Decisions, and failures, are decisions.
LEMMA Decided ==
    ASSUME NEW check \in CheckType, NEW content, NEW closed
    PROVE  /\ Decision(check, content).score \in Nat
           /\ Failure(closed, content).score \in Nat
           /\ closed => Failure(closed, content).action = "BLOCK"
           /\ Failure(closed, content).content = content
           /\ Decision(check, content).content \subseteq content \cup check.reveals
BY DEF Decision, Failure, CheckType, High

\* The least number outside of a set of numbers.
LEMMA LeastOutside ==
    ASSUME NEW N \in Nat, NEW S, (0..N) \ S # {}
    PROVE  \E n \in (0..N) \ S : \A m \in 0..(n - 1) : m \in S
<1> DEFINE T == (0..N) \ S
<1>1. T \in SUBSET Nat /\ T # {}
  OBVIOUS
<1> HIDE DEF T
<1>2. PICK n \in T : \A m \in T : ~ (<<m, n>> \in OpToRel(<, Nat))
  BY <1>1, NatLessThanWellFounded, WFMin, Zenon
<1>3. \A m \in T : ~ (m < n)
  <2>1. TAKE m \in T
  <2>2. m \in Nat /\ n \in Nat
    BY <1>1
  <2> QED
    BY <1>2, <2>2 DEF OpToRel
<1>4. n \in 0..N /\ n \notin S
  BY DEF T
<1>5. \A m \in 0..(n - 1) : m \in S
  <2>1. TAKE m \in 0..(n - 1)
  <2>2. m \in 0..N /\ m < n
    BY <1>4
  <2>3. m \notin T
    BY <1>3, <2>2
  <2> QED
    BY <2>2, <2>3 DEF T
<1> QED
  BY <1>4, <1>5

\* Merging, unfolded.  The recursive definition defines something: the states up to a number
\* of decisions exist, since no number is the least for which they do not.
LEMMA MergingUnfolds ==
    ASSUME NEW s, NEW decisions, Len(decisions) \in Nat
    PROVE  Merging(s, decisions) =
               [d \in 0..Len(decisions) |->
                   IF d = 0 THEN s ELSE Merge(Merging(s, decisions)[d - 1], decisions[d])]
<1> DEFINE N == Len(decisions)
           Body(f, n) == [d \in 0..n |-> IF d = 0 THEN s ELSE Merge(f[d - 1], decisions[d])]
<1>1. Merging(s, decisions) = CHOOSE f : f = Body(f, N)
  BY DEF Merging
<1>2. \E f : f = Body(f, N)
  <2> DEFINE Upto(f, n) == f = Body(f, n)
             S == {n \in 0..N : \E f : Upto(f, n)}
  <2>1. SUFFICES ASSUME (0..N) \ S # {} PROVE FALSE
    <3>1. N \in S
      BY <2>1
    <3> QED
      BY <3>1
  <2>2. PICK n \in (0..N) \ S : \A m \in 0..(n - 1) : m \in S
    <3> HIDE DEF S
    <3> QED
      BY <2>1, LeastOutside
  <2>3. n # 0
    <3>1. Upto([d \in 0..0 |-> s], 0)
      OBVIOUS
    <3> QED
      BY <3>1
  <2>4. n - 1 \in S
    BY <2>2, <2>3
  <2>5. PICK f : Upto(f, n - 1)
    BY <2>4
  <2> DEFINE g == [d \in 0..n |-> IF d = n THEN Merge(f[n - 1], decisions[n]) ELSE f[d]]
  <2>6. Upto(g, n)
    <3>1. \A d \in 0..n : g[d] = IF d = 0 THEN s ELSE Merge(g[d - 1], decisions[d])
      <4>1. TAKE d \in 0..n
      <4>2. CASE d = n
        <5>1. g[d - 1] = f[n - 1]
          BY <2>2, <2>3, <4>2
        <5> QED
          BY <4>2, <5>1, <2>3
      <4>3. CASE d # n
        <5>1. d \in 0..(n - 1)
          BY <2>2, <4>3
        <5>2. f[d] = IF d = 0 THEN s ELSE Merge(f[d - 1], decisions[d])
          BY <2>5, <5>1
        <5>3. d # 0 => g[d - 1] = f[d - 1]
          BY <4>3
        <5> QED
          BY <4>3, <5>2, <5>3
      <4> QED
        BY <4>2, <4>3
    <3> QED
      BY <3>1
  <2> QED
    BY <2>2, <2>6
<1> HIDE DEF Body
<1>3. Merging(s, decisions) = Body(Merging(s, decisions), N)
  BY <1>1, <1>2, Zenon
<1> QED
  BY <1>3 DEF Body

\* What merging decisions one after another comes to.
LEMMA MergedAll ==
    ASSUME NEW s, s.worst \in Nat, NEW decisions, Len(decisions) \in Nat,
           \A d \in 1..Len(decisions) : decisions[d].score \in Nat
    PROVE  /\ MergeAll(s, decisions).worst \in Nat
           /\ (\E d \in 1..Len(decisions) : decisions[d].action = "BLOCK") =>
                  Doomed(MergeAll(s, decisions))
           /\ \A x \in MergeAll(s, decisions).content :
                  x \in s.content \/ \E d \in 1..Len(decisions) : x \in decisions[d].content
<1> DEFINE N == Len(decisions)
           M == Merging(s, decisions)
           Good(n) == /\ M[n].worst \in Nat
                      /\ (\E d \in 1..n : decisions[d].action = "BLOCK") => Doomed(M[n])
                      /\ \A x \in M[n].content :
                             x \in s.content \/ \E d \in 1..n : x \in decisions[d].content
           S == {n \in 0..N : Good(n)}
<1>1. M[0] = s /\ \A n \in 1..N : M[n] = Merge(M[n - 1], decisions[n])
  BY MergingUnfolds
<1> HIDE DEF M
<1>2. Good(0)
  BY <1>1
<1>3. ASSUME NEW n \in 1..N, Good(n - 1)
      PROVE  Good(n)
  <2>1. M[n] = Merge(M[n - 1], decisions[n]) /\ decisions[n].score \in Nat
    BY <1>1
  <2>2. /\ M[n].worst \in Nat
        /\ Doomed(M[n - 1]) => Doomed(M[n])
        /\ decisions[n].action = "BLOCK" => Doomed(M[n])
    BY <1>3, <2>1, MergeKeepsDoom
  <2>3. M[n].content \in {M[n - 1].content, decisions[n].content}
    BY <2>1 DEF Merge
  <2>4. 1..n = 1..(n - 1) \cup {n}
    BY <1>3
  <2>5. (\E d \in 1..n : decisions[d].action = "BLOCK") => Doomed(M[n])
    BY <1>3, <2>2, <2>4
  <2>6. ASSUME NEW x \in M[n].content
        PROVE  x \in s.content \/ \E d \in 1..n : x \in decisions[d].content
    BY <1>3, <2>3, <2>4, <2>6
  <2> QED
    BY <2>2, <2>5, <2>6
<1> HIDE DEF Good
<1>4. (0..N) \ S = {}
  <2>1. SUFFICES ASSUME (0..N) \ S # {} PROVE FALSE
    OBVIOUS
  <2>2. PICK n \in (0..N) \ S : \A m \in 0..(n - 1) : m \in S
    <3> HIDE DEF S
    <3> QED
      BY <2>1, LeastOutside
  <2>3. n # 0
    BY <1>2, <2>2
  <2>4. n \in 1..N /\ Good(n - 1)
    BY <2>2, <2>3
  <2> QED
    BY <1>3, <2>2, <2>4
<1>5. Good(N)
  BY <1>4
<1> QED
  BY <1>5 DEF Good, M, MergeAll

-----------------------------------------------------------------------------
(* The invariant *)

\* the first n - 1 checks have left their mark on the content
Passed(checks, n, content) ==
    \A i \in DOMAIN checks :
        i < n /\ Removes(checks[i]) /\ checks[i].item \in content =>
            RevealedSince(checks, i, checks[i].item)

\* and so have all rules, while transformers reveal more
RulesKept(content) ==
    \A i \in DOMAIN Rules :
        Removes(Rules[i]) /\ Rules[i].item \in content =>
            \/ RevealedSince(Rules, i, Rules[i].item)
            \/ RevealedSince(Transformers, 1, Rules[i].item)

InRules ==
    phase = "rules" => /\ failed => Doomed(state)
                       /\ ~Doomed(state) => Passed(Rules, step, state.content)

InTransformers ==
    phase = "transform" => /\ ~failed
                           /\ RulesKept(state.content)
                           /\ Passed(Transformers, step, state.content)

InDetectors ==
    phase = "detect" =>
        /\ failed => \E d \in DOMAIN Detectors : Detectors[d].closed /\ running[d] = "failed"
        /\ RulesKept(state.content)
        /\ Passed(Transformers, Len(Transformers) + 1, state.content)
        /\ \A d \in DOMAIN Detectors :
              running[d] = "returned" /\ Refused(Detectors[d]) =>
                  Detectors[d].item \notin state.content

Clean(content) == CleanOfRules(content) /\ CleanOfTransformers(content) /\ CleanOfDetectors(content)

AfterChecks ==
    /\ phase \in {"audit", "approval", "answered"} =>
          /\ failed => answer.action = "BLOCK"
          /\ answer.action # "BLOCK" => Clean(answer.content)
    /\ phase = "approval" => answer.action # "BLOCK"

StateOK ==
    /\ phase \in {"rules", "transform", "detect", "audit", "approval", "answered"}
    /\ step \in Nat \ {0}
    /\ state.worst \in Nat
    /\ running \in [DOMAIN Detectors -> {"waiting", "running", "returned", "failed"}]
    /\ phase \in {"rules", "transform"} => \A d \in DOMAIN Detectors : running[d] = "waiting"

IInv == StateOK /\ InRules /\ InTransformers /\ InDetectors /\ AfterChecks

\* A check that removes something either dooms the evaluation or leaves the content without it.
LEMMA Applied ==
    ASSUME NEW check \in CheckType, NEW s, s.worst \in Nat, Removes(check),
           ~Doomed(Merge(s, Decision(check, s.content))),
           check.item \in Merge(s, Decision(check, s.content)).content
    PROVE  check.item \in check.reveals
BY DEF Removes, Doomed, Merge, Decision, CheckType, Critical

\* What a check merges into the content is what was there and what it reveals.
LEMMA MergedContent ==
    ASSUME NEW check \in CheckType, NEW s, NEW x,
           x \in Merge(s, Decision(check, s.content)).content
    PROVE  x \in s.content \/ x \in check.reveals
BY DEF Merge, Decision

\* A failure leaves the content as it is.
LEMMA FailedContent ==
    ASSUME NEW s, NEW closed
    PROVE  Merge(s, Failure(closed, s.content)).content = s.content
BY DEF Merge, Failure

\* A check more has passed.
LEMMA OneMorePassed ==
    ASSUME NEW checks \in Seq(CheckType), NEW n \in DOMAIN checks, NEW s, NEW merged, NEW fails \in BOOLEAN,
           s.worst \in Nat, ~Doomed(merged), Passed(checks, n, s.content),
           \/ ~fails /\ merged = Merge(s, Decision(checks[n], s.content))
           \/ fails /\ merged.content = s.content /\ ~checks[n].closed
    PROVE  /\ Passed(checks, n + 1, merged.content)
           /\ \A x \in merged.content : x \in s.content \/ x \in checks[n].reveals
<1>1. DOMAIN checks = 1..Len(checks) /\ Len(checks) \in Nat /\ checks[n] \in CheckType /\ n \in Nat
  OBVIOUS
<1>2. \A x \in merged.content : x \in s.content \/ x \in checks[n].reveals
  BY <1>1, MergedContent
<1>3. ASSUME NEW i \in DOMAIN checks, i < n + 1, Removes(checks[i]), checks[i].item \in merged.content
      PROVE  RevealedSince(checks, i, checks[i].item)
  <2>1. CASE i < n
    <3>1. CASE checks[i].item \in s.content
      BY <1>3, <2>1, <3>1 DEF Passed
    <3>2. CASE checks[i].item \in checks[n].reveals
      BY <1>1, <2>1, <3>2 DEF RevealedSince
    <3> QED
      BY <1>2, <1>3, <3>1, <3>2
  <2>2. CASE i = n
    <3>1. ~fails
      BY <1>3, <2>2 DEF Removes
    <3>2. checks[n].item \in checks[n].reveals
      BY <1>1, <1>3, <2>2, <3>1, Applied
    <3> QED
      BY <1>1, <2>2, <3>2 DEF RevealedSince
  <2> QED
    BY <1>1, <1>3, <2>1, <2>2
<1> QED
  BY <1>2, <1>3 DEF Passed

\* A configured check is in its type.
LEMMA CheckTyped ==
    ASSUME NEW checks \in Seq(CheckType)
    PROVE  /\ Len(checks) \in Nat /\ DOMAIN checks = 1..Len(checks)
           /\ \A i \in DOMAIN checks : checks[i] \in CheckType
OBVIOUS

LEMMA Initially == WellFormed /\ Init => IInv
<1> SUFFICES ASSUME WellFormed, Init PROVE IInv
  OBVIOUS
<1>1. /\ phase = "rules" /\ step = 1 /\ failed = FALSE
      /\ state.worst = 0 /\ running = [d \in DOMAIN Detectors |-> "waiting"]
  BY DEF Init
<1>2. DOMAIN Rules = 1..Len(Rules) /\ Len(Rules) \in Nat
  BY CheckTyped DEF WellFormed
<1>3. Passed(Rules, 1, state.content)
  BY <1>2 DEF Passed
<1> QED
  BY <1>1, <1>3 DEF IInv, StateOK, InRules, InTransformers, InDetectors, AfterChecks

\* A rule that raises or asks to block dooms the evaluation, any other has done its work
\* (_evaluate_rules_state).
LEMMA RuleKeeps ==
    ASSUME WellFormed, IInv, NEW raises \in BOOLEAN, Rule(raises)
    PROVE  IInv'
<1> DEFINE check == Rules[step]
           decision == Decision(check, state.content)
<1>1. /\ phase = "rules" /\ phase' = "rules" /\ step \in DOMAIN Rules /\ step \in Nat \ {0}
      /\ Rules \in Seq(CheckType) /\ check \in CheckType
      /\ UNCHANGED <<running, answer>>
      /\ state.worst \in Nat /\ Len(Rules) \in Nat
      /\ DOMAIN Rules = 1..Len(Rules)
  <2>1. /\ Rules \in Seq(CheckType) /\ Len(Rules) \in Nat /\ DOMAIN Rules = 1..Len(Rules)
        /\ phase = "rules" /\ phase' = "rules" /\ step <= Len(Rules) /\ step \in Nat \ {0}
        /\ state.worst \in Nat /\ UNCHANGED <<running, answer>>
    BY CheckTyped DEF Rule, WellFormed, IInv, StateOK
  <2>2. step \in DOMAIN Rules
    BY <2>1
  <2> QED
    BY <2>1, <2>2, CheckTyped
<1>2. decision.score \in Nat /\ Failure(TRUE, state.content).score \in Nat
      /\ Failure(TRUE, state.content).action = "BLOCK"
  BY <1>1, Decided
<1>3. /\ Doomed(state) => Doomed(state')
      /\ state'.worst \in Nat /\ step' \in Nat \ {0}
  <2>1. CASE raises
    <3>1. /\ state' = IF check.closed THEN Merge(state, Failure(TRUE, state.content)) ELSE state
          /\ step' = step + 1
      BY <2>1 DEF Rule
    <3>2. /\ Doomed(state) => Doomed(Merge(state, Failure(TRUE, state.content)))
          /\ Merge(state, Failure(TRUE, state.content)).worst \in Nat
      BY <1>1, <1>2, MergeKeepsDoom
    <3>3. (Doomed(state) => Doomed(state')) /\ state'.worst \in Nat
      BY <1>1, <3>1, <3>2
    <3>4. step' \in Nat \ {0}
      BY <1>1, <3>1
    <3> QED
      BY <3>3, <3>4
  <2>2. CASE ~raises
    <3>1. /\ state' = Merge(state, decision) /\ failed' = failed
          /\ step' \in {Len(Rules) + 1, step + 1}
      BY <2>2 DEF Rule
    <3>2. (Doomed(state) => Doomed(state')) /\ state'.worst \in Nat
      BY <1>1, <1>2, <3>1, MergeKeepsDoom
    <3> QED
      BY <1>1, <3>1, <3>2
  <2> QED
    BY <2>1, <2>2
<1>4. failed' => Doomed(state')
  <2>1. CASE raises /\ check.closed
    BY <1>1, <1>2, <2>1, MergeKeepsDoom DEF Rule
  <2>2. CASE ~(raises /\ check.closed)
    BY <1>1, <1>3, <2>2 DEF Rule, IInv, InRules
  <2> QED
    BY <2>1, <2>2
<1>5. ~Doomed(state') => Passed(Rules, step', state'.content)
  <2>1. SUFFICES ASSUME ~Doomed(state') PROVE Passed(Rules, step', state'.content)
    OBVIOUS
  <2>2. Passed(Rules, step, state.content)
    BY <1>1, <1>3, <2>1 DEF IInv, InRules
  <2>3. CASE raises
    <3>1. ~check.closed /\ state' = state /\ step' = step + 1
      BY <1>1, <1>2, <2>1, <2>3, MergeKeepsDoom DEF Rule
    <3> QED
      BY <1>1, <2>1, <2>2, <3>1, OneMorePassed
  <2>4. CASE ~raises
    <3>1. state' = Merge(state, decision)
      BY <2>4 DEF Rule
    <3>2. ~Ends(check, decision)
      BY <1>1, <1>2, <2>1, <3>1, MergeKeepsDoom DEF Ends
    <3>3. step' = step + 1
      BY <2>4, <3>2 DEF Rule
    <3> QED
      BY <1>1, <2>1, <2>2, <3>1, <3>3, OneMorePassed
  <2> QED
    BY <2>3, <2>4
<1> QED
  BY <1>1, <1>3, <1>4, <1>5
     DEF IInv, StateOK, InRules, InTransformers, InDetectors, AfterChecks

\* What is not blocked after the rules has passed them all.
LEMMA RulesDoneKeeps ==
    ASSUME WellFormed, IInv, RulesDone
    PROVE  IInv'
<1>1. /\ phase = "rules" /\ step \in Nat \ {0} /\ step > Len(Rules) /\ step' = 1
      /\ UNCHANGED <<state, running, failed>>
      /\ Rules \in Seq(CheckType) /\ Len(Rules) \in Nat /\ DOMAIN Rules = 1..Len(Rules)
  BY DEF RulesDone, WellFormed, IInv, StateOK
<1>2. failed => Determine(state) = "BLOCK"
  BY <1>1, DoomedBlocks DEF IInv, InRules
<1>3. Determine(state) # "BLOCK" => RulesKept(state.content)
  BY <1>1, DoomedBlocks DEF IInv, InRules, Passed, RulesKept
<1>4. CASE Blocked(state) \/ Transformers \o Detectors = <<>>
  <2>1. phase' = "audit" /\ answer' = Result(state)
    BY <1>4 DEF RulesDone
  <2>2. Determine(state) # "BLOCK" => Clean(state.content)
    <3>1. SUFFICES ASSUME Determine(state) # "BLOCK" PROVE Clean(state.content)
      OBVIOUS
    <3>2. Len(Transformers) + Len(Detectors) = 0 /\ Len(Transformers) \in Nat /\ Len(Detectors) \in Nat
      BY <1>4, <3>1 DEF Blocked, WellFormed
    <3>3. DOMAIN Transformers = {} /\ DOMAIN Detectors = {}
      BY <3>2 DEF WellFormed
    <3> QED
      BY <1>3, <3>1, <3>3 DEF Clean, CleanOfRules, CleanOfTransformers, CleanOfDetectors, RulesKept
  <2> QED
    BY <1>1, <1>2, <2>1, <2>2
       DEF IInv, StateOK, InRules, InTransformers, InDetectors, AfterChecks, Result
<1>5. CASE ~(Blocked(state) \/ Transformers \o Detectors = <<>>)
  <2>1. phase' = "transform" /\ answer' = answer
    BY <1>5 DEF RulesDone
  <2>2. ~failed /\ RulesKept(state.content)
    BY <1>2, <1>3, <1>5 DEF Blocked
  <2>3. Passed(Transformers, 1, state.content)
    BY DEF Passed, WellFormed
  <2> QED
    BY <1>1, <2>1, <2>2, <2>3
       DEF IInv, StateOK, InRules, InTransformers, InDetectors, AfterChecks
<1> QED
  BY <1>4, <1>5

\* Transformers see what the others left, and a blocked state ends the pipeline
\* (_evaluate_async_pipeline).
LEMMA TransformKeeps ==
    ASSUME WellFormed, IInv, NEW fails \in BOOLEAN, Transform(fails)
    PROVE  IInv'
<1> DEFINE check == Transformers[step]
           decision == IF fails THEN Failure(check.closed, state.content)
                       ELSE Decision(check, state.content)
           merged == Merge(state, decision)
<1>1. /\ phase = "transform" /\ step \in DOMAIN Transformers /\ step \in Nat \ {0}
      /\ Transformers \in Seq(CheckType) /\ check \in CheckType
      /\ UNCHANGED running /\ state' = merged /\ step' = step + 1
      /\ failed' = (failed \/ (fails /\ check.closed))
      /\ state.worst \in Nat /\ ~failed
  <2>1. /\ Transformers \in Seq(CheckType) /\ Len(Transformers) \in Nat
        /\ DOMAIN Transformers = 1..Len(Transformers)
        /\ phase = "transform" /\ step <= Len(Transformers) /\ step \in Nat \ {0}
        /\ state.worst \in Nat /\ ~failed
    BY CheckTyped DEF Transform, WellFormed, IInv, StateOK, InTransformers
  <2>2. step \in DOMAIN Transformers
    BY <2>1
  <2>3. /\ UNCHANGED running /\ state' = merged /\ step' = step + 1
        /\ failed' = (failed \/ (fails /\ check.closed))
    BY DEF Transform
  <2> QED
    BY <2>1, <2>2, <2>3, CheckTyped
<1>2. decision.score \in Nat /\ (fails /\ check.closed => decision.action = "BLOCK")
  BY <1>1, Decided
<1>3. merged.worst \in Nat /\ (fails /\ check.closed => Determine(merged) = "BLOCK")
  BY <1>1, <1>2, MergeKeepsDoom, DoomedBlocks
<1>4. CASE Blocked(merged)
  <2>1. phase' = "audit" /\ answer' = Result(merged)
    BY <1>4 DEF Transform
  <2> QED
    BY <1>1, <1>3, <1>4, <2>1
       DEF IInv, StateOK, InRules, InTransformers, InDetectors, AfterChecks, Result, Blocked
<1>5. CASE ~Blocked(merged)
  <2>1. phase' = "transform" /\ answer' = answer /\ ~failed'
    BY <1>1, <1>3, <1>5 DEF Transform, Blocked
  <2>2. ~Doomed(merged)
    BY <1>5, DoomedBlocks DEF Blocked
  <2>3. \/ ~fails /\ merged = Merge(state, Decision(check, state.content))
        \/ fails /\ merged.content = state.content /\ ~check.closed
    BY <1>1, <1>3, <1>5, FailedContent DEF Blocked
  <2>4. Passed(Transformers, step, state.content) /\ RulesKept(state.content)
    BY <1>1 DEF IInv, InTransformers
  <2>5. /\ Passed(Transformers, step + 1, merged.content)
        /\ \A x \in merged.content : x \in state.content \/ x \in check.reveals
    BY <1>1, <2>2, <2>3, <2>4, OneMorePassed
  <2>6. RulesKept(merged.content)
    BY <1>1, <2>4, <2>5 DEF RulesKept, RevealedSince
  <2> QED
    BY <1>1, <1>3, <2>1, <2>5, <2>6
       DEF IInv, StateOK, InRules, InTransformers, InDetectors, AfterChecks
<1> QED
  BY <1>4, <1>5

LEMMA TransformsDoneKeeps ==
    ASSUME WellFormed, IInv, TransformsDone
    PROVE  IInv'
<1>1. /\ phase = "transform" /\ phase' = "detect" /\ step \in Nat /\ step > Len(Transformers)
      /\ UNCHANGED <<step, state, running, failed, answer>>
      /\ DOMAIN Transformers = 1..Len(Transformers) /\ Len(Transformers) \in Nat
  BY CheckTyped DEF TransformsDone, WellFormed, IInv, StateOK
<1>2. /\ ~failed /\ RulesKept(state.content)
      /\ Passed(Transformers, Len(Transformers) + 1, state.content)
  BY <1>1 DEF IInv, InTransformers, Passed
<1>3. \A d \in DOMAIN Detectors : running[d] = "waiting"
  BY <1>1 DEF IInv, StateOK
<1> QED
  BY <1>1, <1>2, <1>3 DEF IInv, StateOK, InRules, InTransformers, InDetectors, AfterChecks

LEMMA StartKeeps ==
    ASSUME WellFormed, IInv, NEW d \in DOMAIN running, Start(d)
    PROVE  IInv'
<1>1. /\ phase = "detect" /\ running[d] = "waiting" /\ running' = [running EXCEPT ![d] = "running"]
      /\ UNCHANGED <<phase, step, state, failed, answer>>
      /\ running \in [DOMAIN Detectors -> {"waiting", "running", "returned", "failed"}]
  BY DEF Start, IInv, StateOK
<1>2. /\ running' \in [DOMAIN Detectors -> {"waiting", "running", "returned", "failed"}]
      /\ \A e \in DOMAIN Detectors : running[e] = "failed" => running'[e] = "failed"
      /\ \A e \in DOMAIN Detectors : running'[e] = "returned" => running[e] = "returned"
  BY <1>1
<1>3. InDetectors'
  BY <1>1, <1>2 DEF IInv, InDetectors
<1> QED
  BY <1>1, <1>2, <1>3 DEF IInv, StateOK, InRules, InTransformers, AfterChecks

\* An independent rule that asks for a transformation has failed (_run_async_rule).
LEMMA ReturnKeeps ==
    ASSUME WellFormed, IInv, NEW d \in DOMAIN running, NEW fails \in BOOLEAN, Return(d, fails)
    PROVE  IInv'
<1> DEFINE transforms == Detectors[d].item \in state.content /\ Refused(Detectors[d])
           fault == fails \/ transforms
<1>1. /\ phase = "detect" /\ running[d] = "running" /\ d \in DOMAIN Detectors
      /\ UNCHANGED <<phase, step, state, answer>>
      /\ running \in [DOMAIN Detectors -> {"waiting", "running", "returned", "failed"}]
  BY DEF Return, IInv, StateOK
<1>2. /\ running' = [running EXCEPT ![d] = IF fault THEN "failed" ELSE "returned"]
      /\ failed' = (failed \/ (fault /\ Detectors[d].closed))
  BY DEF Return, DetectorInput
<1> HIDE DEF transforms
<1>3. running' \in [DOMAIN Detectors -> {"waiting", "running", "returned", "failed"}]
  BY <1>1, <1>2
<1>4. failed' => \E e \in DOMAIN Detectors : Detectors[e].closed /\ running'[e] = "failed"
  <2>1. CASE failed
    <3>1. PICK e \in DOMAIN Detectors : Detectors[e].closed /\ running[e] = "failed"
      BY <1>1, <2>1 DEF IInv, InDetectors
    <3>2. running'[e] = "failed"
      BY <1>1, <1>2, <3>1
    <3> QED
      BY <3>1, <3>2
  <2>2. CASE fault /\ Detectors[d].closed
    BY <1>1, <1>2, <2>2
  <2> QED
    BY <1>2, <2>1, <2>2
<1>5. ASSUME NEW e \in DOMAIN Detectors, running'[e] = "returned", Refused(Detectors[e])
      PROVE  Detectors[e].item \notin state.content
  <2>1. CASE e = d
    BY <1>1, <1>2, <1>5, <2>1 DEF transforms
  <2>2. CASE e # d
    BY <1>1, <1>2, <1>5, <2>2 DEF IInv, InDetectors
  <2> QED
    BY <2>1, <2>2
<1>6. InDetectors'
  BY <1>1, <1>4, <1>5 DEF IInv, InDetectors
<1> QED
  BY <1>1, <1>3, <1>6 DEF IInv, StateOK, InRules, InTransformers, AfterChecks

\* What an independent check comes to when it has returned or failed.
LEMMA OutcomeOf ==
    ASSUME WellFormed, NEW d \in DOMAIN Detectors, running[d] \in {"returned", "failed"}
    PROVE  /\ Outcome(d).score \in Nat
           /\ \A x \in Outcome(d).content : x \in state.content \/ x \in Detectors[d].reveals
           /\ Detectors[d].closed /\ running[d] = "failed" => Outcome(d).action = "BLOCK"
           /\ /\ ModeAction(Detectors[d]) = "BLOCK" /\ Detectors[d].item \in state.content
              /\ running[d] = "returned"
              => Outcome(d).action = "BLOCK"
<1>1. Detectors[d] \in CheckType
  BY CheckTyped DEF WellFormed
<1>2. CASE running[d] = "failed"
  <2>1. Outcome(d) = Failure(Detectors[d].closed, state.content)
    BY <1>2 DEF Outcome, DetectorInput
  <2> QED
    BY <1>1, <1>2, <2>1, Decided
<1>3. CASE running[d] = "returned"
  <2>1. Outcome(d) = Decision(Detectors[d], state.content)
    BY <1>3 DEF Outcome, DetectorInput
  <2>2. ModeAction(Detectors[d]) = "BLOCK" /\ Detectors[d].item \in state.content =>
            Outcome(d).action = "BLOCK"
    BY <2>1 DEF Decision
  <2> QED
    BY <1>1, <1>3, <2>1, <2>2, Decided
<1> QED
  BY <1>2, <1>3

\* A failed check blocks, a check that found what it forbids blocks, and what the independent
\* checks put in place of the content was in it or is revealed by one of them.
LEMMA GatherKeeps ==
    ASSUME WellFormed, IInv, Gather
    PROVE  IInv'
<1> DEFINE N == Len(Detectors)
           outcomes == [d \in 1..N |-> Outcome(d)]
           merged == MergeAll(state, outcomes)
<1>1. /\ phase = "detect" /\ phase' = "audit" /\ UNCHANGED <<step, running, failed>>
      /\ state' = merged /\ answer' = Result(merged)
      /\ running \in [DOMAIN Detectors -> {"waiting", "running", "returned", "failed"}]
      /\ step \in Nat \ {0} /\ state.worst \in Nat
      /\ N \in Nat /\ DOMAIN Detectors = 1..N
  BY CheckTyped DEF Gather, IInv, StateOK, WellFormed
<1>2. \A d \in 1..N : running[d] \in {"returned", "failed"}
  BY <1>1 DEF Gather
<1>3. Len(outcomes) = N /\ \A d \in 1..N : outcomes[d] = Outcome(d)
  BY <1>1
<1> HIDE DEF outcomes
<1>4. \A d \in 1..N : outcomes[d].score \in Nat
  BY <1>1, <1>2, <1>3, OutcomeOf
<1>5. /\ merged.worst \in Nat
      /\ (\E d \in 1..N : outcomes[d].action = "BLOCK") => Doomed(merged)
      /\ \A x \in merged.content : x \in state.content \/ \E d \in 1..N : x \in outcomes[d].content
  BY <1>1, <1>3, <1>4, MergedAll
<1> HIDE DEF merged
<1>6. \A x \in merged.content : x \in state.content \/ RevealedSince(Detectors, 1, x)
  BY <1>1, <1>2, <1>3, <1>5, OutcomeOf DEF RevealedSince
<1>7. failed => Determine(merged) = "BLOCK"
  BY <1>1, <1>2, <1>3, <1>5, OutcomeOf, DoomedBlocks DEF IInv, InDetectors
<1>8. Determine(merged) # "BLOCK" => Clean(merged.content)
  <2>1. SUFFICES ASSUME Determine(merged) # "BLOCK" PROVE Clean(merged.content)
    OBVIOUS
  <2>2. \A d \in 1..N : Outcome(d).action # "BLOCK"
    BY <1>3, <1>5, <2>1, DoomedBlocks
  <2>3. CleanOfRules(merged.content)
    BY <1>1, <1>6 DEF IInv, InDetectors, RulesKept, CleanOfRules
  <2>4. CleanOfTransformers(merged.content)
    BY <1>1, <1>6, CheckTyped DEF IInv, InDetectors, Passed, CleanOfTransformers, WellFormed
  <2>5. ASSUME NEW d \in 1..N, Forbids(Detectors[d]), Detectors[d].item \in merged.content
        PROVE  RevealedSince(Detectors, 1, Detectors[d].item)
    <3>1. running[d] = "returned"
      BY <1>1, <1>2, <2>2, <2>5, OutcomeOf DEF Forbids
    <3>2. Detectors[d].item \notin state.content
      BY <1>1, <2>2, <2>5, <3>1, OutcomeOf DEF Forbids, IInv, InDetectors
    <3> QED
      BY <1>6, <2>5, <3>2
  <2> QED
    BY <1>1, <2>3, <2>4, <2>5 DEF Clean, CleanOfDetectors
<1> QED
  BY <1>1, <1>5, <1>7, <1>8
     DEF IInv, StateOK, InRules, InTransformers, InDetectors, AfterChecks, Result

\* In time or not, a closed guard answers BLOCK when it has no other answer (_timeout_result).
LEMMA DeadlineKeeps ==
    ASSUME WellFormed, FailClosed, IInv, Deadline
    PROVE  IInv'
BY DEF Deadline, IInv, StateOK, InRules, InTransformers, InDetectors, AfterChecks

LEMMA AuditedKeeps ==
    ASSUME WellFormed, IInv, Audited
    PROVE  IInv'
BY DEF Audited, IInv, StateOK, InRules, InTransformers, InDetectors, AfterChecks

\* Only what was not blocked is ever put to an approver, as it is (authorize_memory_write).
LEMMA ApprovalKeeps ==
    ASSUME WellFormed, IInv, NEW approved \in BOOLEAN, Approval(approved)
    PROVE  IInv'
<1>1. /\ phase = "approval" /\ phase' = "answered" /\ UNCHANGED <<step, state, running, failed>>
      /\ answer'.content = answer.content
      /\ ~failed /\ Clean(answer.content)
  BY DEF Approval, IInv, AfterChecks
<1> QED
  BY <1>1 DEF IInv, StateOK, InRules, InTransformers, InDetectors, AfterChecks

LEMMA NextKeeps ==
    ASSUME WellFormed, FailClosed, IInv, [Next]_vars
    PROVE  IInv'
<1>1. ASSUME NEW raises \in BOOLEAN, Rule(raises) PROVE IInv'
  BY <1>1, RuleKeeps
<1>2. ASSUME RulesDone PROVE IInv'
  BY <1>2, RulesDoneKeeps
<1>3. ASSUME NEW fails \in BOOLEAN, Transform(fails) PROVE IInv'
  BY <1>3, TransformKeeps
<1>4. ASSUME TransformsDone PROVE IInv'
  BY <1>4, TransformsDoneKeeps
<1>5. ASSUME NEW d \in DOMAIN running, Start(d) PROVE IInv'
  BY <1>5, StartKeeps
<1>6. ASSUME NEW d \in DOMAIN running, NEW fails \in BOOLEAN, Return(d, fails) PROVE IInv'
  BY <1>6, ReturnKeeps
<1>7. ASSUME Gather PROVE IInv'
  BY <1>7, GatherKeeps
<1>8. ASSUME Deadline \/ Audited PROVE IInv'
  BY <1>8, DeadlineKeeps, AuditedKeeps
<1>9. ASSUME NEW approved \in BOOLEAN, Approval(approved) PROVE IInv'
  BY <1>9, ApprovalKeeps
<1>10. ASSUME UNCHANGED vars PROVE IInv'
  BY <1>10 DEF vars, IInv, StateOK, InRules, InTransformers, InDetectors, AfterChecks
<1> QED
  BY <1>1, <1>2, <1>3, <1>4, <1>5, <1>6, <1>7, <1>8, <1>9, <1>10 DEF Next

\* The invariant of a guard that fails closed holds in every state.
THEOREM Inductive ==
    ASSUME WellFormed, FailClosed
    PROVE  Spec => []IInv
<1>1. Init => IInv
  BY Initially
<1>2. IInv /\ [Next]_vars => IInv'
  BY NextKeeps
<1> QED
  BY <1>1, <1>2, PTL DEF Spec

\* What is answered after all checks is what the two properties of the releases ask for.
LEMMA FollowsFromIInv == IInv => FailureBlocks /\ ReleasedClean
BY DEF IInv, AfterChecks, FailureBlocks, ReleasedClean, Released, Answered, Clean

\* Whatever rules, transformers and independent checks a guard that fails closed has, and
\* however they raise, run out of time or are overtaken by the deadline, the failure of one that
\* must not fail is answered with BLOCK.
THEOREM FailuresBlock ==
    ASSUME WellFormed, FailClosed
    PROVE  Spec => []FailureBlocks
<1>1. IInv => FailureBlocks
  BY FollowsFromIInv
<1> QED
  BY <1>1, Inductive, PTL

\* And what it releases, approved or not, is clean of what its checks remove or forbid.
THEOREM ReleasesClean ==
    ASSUME WellFormed, FailClosed
    PROVE  Spec => []ReleasedClean
<1>1. IInv => ReleasedClean
  BY FollowsFromIInv
<1> QED
  BY <1>1, Inductive, PTL

-----------------------------------------------------------------------------
(* Types, and the semaphore *)

Actions == {Precedence[i] : i \in DOMAIN Precedence}

\* Whatever is asked for, some action is the first of those that are.
LEMMA DetermineTyped ==
    ASSUME NEW s
    PROVE  Determine(s) \in Actions
<1> DEFINE asked == s.actions \cup {"ALLOW"}
                    \cup (IF s.worst >= Critical \/ s.risk >= BlockAt THEN {"BLOCK"} ELSE {})
                    \cup (IF s.worst >= High \/ s.risk >= WarnAt THEN {"WARN"} ELSE {})
           First(i) == Precedence[i] \in asked /\ \A j \in 1..(i - 1) : Precedence[j] \notin asked
           S == {0} \cup {i \in 1..8 : Precedence[i] \notin asked}
<1>1. DOMAIN Precedence = 1..8 /\ Precedence[8] = "ALLOW" /\ "ALLOW" \in asked
  BY DEF Precedence
<1> HIDE DEF asked
<1>2. 8 \in (0..8) \ S
  BY <1>1
<1>3. PICK n \in (0..8) \ S : \A m \in 0..(n - 1) : m \in S
  <2> HIDE DEF S
  <2> QED
    BY <1>2, LeastOutside
<1>4. n \in DOMAIN Precedence /\ First(n)
  BY <1>1, <1>3
<1>5. (CHOOSE i \in DOMAIN Precedence : First(i)) \in DOMAIN Precedence
  <2> HIDE DEF First
  <2> QED
    BY <1>4
<1> QED
  BY <1>5 DEF Determine, Actions, asked

Busy == {d \in DOMAIN running : running[d] = "running"}

TypeInv ==
    /\ phase \in {"rules", "transform", "detect", "audit", "approval", "answered"}
    /\ step \in 1..(Len(Rules) + Len(Transformers) + 1)
    /\ phase = "rules" => step <= Len(Rules) + 1
    /\ phase = "transform" => step <= Len(Transformers) + 1
    /\ running \in [DOMAIN Detectors -> {"waiting", "running", "returned", "failed"}]
    /\ Cardinality(Busy) <= MaxConcurrency
    /\ phase \in {"audit", "approval", "answered"} => answer.action \in Actions

\* A check starts when fewer than max_async_concurrency run, and none runs twice (the semaphore).
LEMMA BusyBounded ==
    ASSUME WellFormed, MaxConcurrency \in Nat, TypeInv, [Next]_vars
    PROVE  Cardinality(Busy') <= MaxConcurrency
<1>1. IsFiniteSet(DOMAIN Detectors) /\ DOMAIN running = DOMAIN Detectors
  <2>1. DOMAIN Detectors = 1..Len(Detectors) /\ Len(Detectors) \in Nat
    BY CheckTyped DEF WellFormed
  <2> QED
    BY <2>1, FS_Interval DEF TypeInv
<1>2. IsFiniteSet(Busy) /\ Cardinality(Busy) \in Nat
  BY <1>1, FS_Subset, FS_CardinalityType DEF Busy
<1>3. ASSUME NEW d \in DOMAIN running, Start(d) PROVE Cardinality(Busy') <= MaxConcurrency
  <2>1. Busy' = Busy \cup {d}
    BY <1>1, <1>3 DEF Start, Busy, TypeInv
  <2>2. Cardinality(Busy) < MaxConcurrency
    BY <1>3 DEF Start, Busy
  <2> QED
    BY <1>2, <2>1, <2>2, FS_AddElement
<1>4. ASSUME NEW d \in DOMAIN running, NEW fails \in BOOLEAN, Return(d, fails)
      PROVE  Cardinality(Busy') <= MaxConcurrency
  <2>1. Busy' \subseteq Busy
    BY <1>1, <1>4 DEF Return, Busy, TypeInv
  <2>2. Cardinality(Busy') <= Cardinality(Busy) /\ Cardinality(Busy') \in Nat
    BY <1>2, <2>1, FS_Subset, FS_CardinalityType
  <2> QED
    BY <1>2, <2>2 DEF TypeInv
<1>5. CASE running' = running
  BY <1>5 DEF Busy, TypeInv
<1>6. CASE UNCHANGED vars
  BY <1>5, <1>6 DEF vars
<1> QED
  BY <1>3, <1>4, <1>5, <1>6
     DEF Next, Rule, RulesDone, Transform, TransformsDone, Gather, Deadline, Audited, Approval

\* The lengths of the lists of checks.
LEMMA CheckCounts ==
    ASSUME WellFormed
    PROVE  Len(Rules) \in Nat /\ Len(Transformers) \in Nat
BY CheckTyped DEF WellFormed

\* No check runs at the start.
LEMMA TypeInit ==
    ASSUME WellFormed, MaxConcurrency \in Nat, Init
    PROVE  TypeInv
<1>1. running = [d \in DOMAIN Detectors |-> "waiting"] /\ Busy = {}
  BY DEF Init, Busy
<1>2. Cardinality(Busy) = 0
  BY <1>1, FS_EmptySet
<1> QED
  BY <1>1, <1>2, CheckCounts DEF Init, TypeInv

\* Every step of the evaluation stays among the checks and answers with one of the actions.
LEMMA TypeKeeps ==
    ASSUME WellFormed, MaxConcurrency \in Nat, TypeInv, [Next]_vars
    PROVE  TypeInv'
<1>1. Cardinality(Busy') <= MaxConcurrency
  BY BusyBounded
<1> USE <1>1, CheckCounts DEF TypeInv
<1>2. ASSUME NEW raises \in BOOLEAN, Rule(raises) PROVE TypeInv'
  <2>1. phase = "rules" /\ UNCHANGED <<phase, running, answer>> /\ step <= Len(Rules)
    BY <1>2 DEF Rule
  <2>2. step' \in {Len(Rules) + 1, step + 1}
    BY <1>2 DEF Rule
  <2> QED
    BY <2>1, <2>2
<1>3. ASSUME RulesDone PROVE TypeInv'
  BY <1>3, DetermineTyped DEF RulesDone, Result
<1>4. ASSUME NEW fails \in BOOLEAN, Transform(fails) PROVE TypeInv'
  BY <1>4, DetermineTyped DEF Transform, Result
<1>5. ASSUME TransformsDone PROVE TypeInv'
  BY <1>5 DEF TransformsDone
<1>6. ASSUME NEW d \in DOMAIN running, Start(d) PROVE TypeInv'
  BY <1>6 DEF Start
<1>7. ASSUME NEW d \in DOMAIN running, NEW fails \in BOOLEAN, Return(d, fails) PROVE TypeInv'
  BY <1>7 DEF Return
<1>8. ASSUME Gather PROVE TypeInv'
  BY <1>8, DetermineTyped DEF Gather, Result
<1>9. {"ALLOW", "BLOCK", "WARN"} \subseteq Actions
  BY DEF Actions, Precedence
<1>10. ASSUME Deadline PROVE TypeInv'
  BY <1>9, <1>10 DEF Deadline
<1>11. ASSUME Audited PROVE TypeInv'
  BY <1>11 DEF Audited
<1>12. ASSUME NEW approved \in BOOLEAN, Approval(approved) PROVE TypeInv'
  <2>1. phase' = "answered" /\ answer'.action \in {"ALLOW", "BLOCK"} /\ UNCHANGED <<step, running>>
    BY <1>12 DEF Approval
  <2> QED
    BY <1>9, <2>1 DEF Busy
<1>13. CASE UNCHANGED vars
  BY <1>13 DEF vars
<1> QED
  BY <1>2, <1>3, <1>4, <1>5, <1>6, <1>7, <1>8, <1>10, <1>11, <1>12, <1>13 DEF Next

\* The type invariant is a part of what is kept.
LEMMA TypeFollows == TypeInv => TypeOK
BY DEF TypeInv, TypeOK, Answered, Actions, Busy

\* Steps stay among the checks, and every answer is one of the actions; at most
\* max_async_concurrency checks run at a time, whatever returns, fails or is overtaken.
THEOREM TypeCorrect ==
    ASSUME WellFormed, MaxConcurrency \in Nat
    PROVE  Spec => []TypeOK
<1>1. Init => TypeInv
  BY TypeInit
<1>2. TypeInv /\ [Next]_vars => TypeInv'
  BY TypeKeeps
<1>3. TypeInv => TypeOK
  BY TypeFollows
<1> QED
  BY <1>1, <1>2, <1>3, PTL DEF Spec
=============================================================================
