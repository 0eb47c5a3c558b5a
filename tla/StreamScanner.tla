---------------------------- MODULE StreamScanner ---------------------------
(***************************************************************************)
(* StreamScanner of src/trustrail/streaming/scanner.py: which part of a    *)
(* stream is passed on while it arrives.                                   *)
(*                                                                         *)
(* Text is a sequence of symbols.  A normalization rule removes invisible  *)
(* ones from each chunk; every other rule looks for its pattern in the     *)
(* chunk together with the end of what was passed on before.  What has     *)
(* been passed on cannot be taken back.  A rule may raise.                 *)
(***************************************************************************)
EXTENDS Integers, FiniteSets, FiniteSetsExt, Sequences, SequencesExt

CONSTANTS
    Symbols,
    Invisible,        \* removed by the normalization rule
    Mask,             \* what a redacted pattern is replaced by
    Rules,            \* detection rules in order, of RuleType
    ChunkOverlap,     \* chunk_overlap
    BufferSize,       \* buffer_size
    FailClosed,       \* fail_mode
    BlockAt, WarnAt,  \* thresholds of the score
    MaxChunk,         \* bound: symbols of a chunk
    MaxTotal          \* bound: symbols of the stream

RuleType == [pattern : Seq(Symbols), action : {"BLOCK", "REDACT", "WARN", "REQUIRE_APPROVAL"}, score : Nat]

VARIABLES
    buffer,        \* _buffer
    risk,          \* score of the findings that were not handled
    terminal,      \* _terminal_action
    received,      \* history: the chunks of the stream, put together
    emitted        \* external: the chunks that were passed on

vars == <<buffer, risk, terminal, received, emitted>>
None == "none"

-----------------------------------------------------------------------------
(* Text *)

Suffix(s, n) == SubSeq(s, (IF Len(s) > n THEN Len(s) - n ELSE 0) + 1, Len(s))
HasPrefix(s, p) == Len(s) >= Len(p) /\ SubSeq(s, 1, Len(p)) = p

\* pattern is in s at i
At(s, i, pattern) == i + Len(pattern) - 1 <= Len(s) /\ SubSeq(s, i, i + Len(pattern) - 1) = pattern
Holds(s, pattern) == \E i \in DOMAIN s : At(s, i, pattern)

\* s with every pattern replaced, from the left
Replaced(s, pattern) ==
    LET from[i \in 1..(Len(s) + Len(pattern))] ==
            IF i > Len(s) THEN <<>>
            ELSE IF At(s, i, pattern)
            THEN LET rest == from[i + Len(pattern)] IN <<Mask>> \o rest
            ELSE LET rest == from[i + 1] IN <<s[i]>> \o rest
    IN  from[1]

Normalized(s) == SelectSeq(s, LAMBDA c : c \notin Invisible)

-----------------------------------------------------------------------------
(* process_chunk *)

\* Mutant: a chunk is looked at without what came before it.
NoLookbehind == <<>>

\* the end of what was passed on; [-0:] of a string is all of it
Lookbehind == IF ChunkOverlap = 0 THEN buffer ELSE Suffix(buffer, ChunkOverlap)

\* a replacement that changes what was passed on is no use
KeepsEmitted(text) == HasPrefix(text, Lookbehind)

\* what the rules before number n make of a chunk: the chunk, its risk, the action that ends it
Scan(chunk, failing) ==
    LET scan[n \in 0..Len(Rules)] ==
        IF n = 0 THEN [chunk |-> chunk, risk |-> 0, approval |-> FALSE, ends |-> None]
        ELSE LET before == scan[n - 1]
                 rule == Rules[n]
                 text == Lookbehind \o before.chunk
                 replaced == Replaced(text, rule.pattern)
             IN  IF before.ends # None THEN before
                 ELSE IF n = failing
                 THEN IF FailClosed THEN [before EXCEPT !.ends = "BLOCK"] ELSE before
                 ELSE IF ~Holds(text, rule.pattern) THEN before
                 ELSE CASE rule.action = "BLOCK" -> [before EXCEPT !.ends = "BLOCK"]
                        [] rule.action = "REDACT" /\ ~KeepsEmitted(replaced) ->
                              [before EXCEPT !.ends = "BLOCK"]
                        [] rule.action = "REDACT" /\ KeepsEmitted(replaced) ->
                              [before EXCEPT !.chunk = SubSeq(replaced, Len(Lookbehind) + 1, Len(replaced))]
                        [] rule.action = "WARN" -> [before EXCEPT !.risk = @ + rule.score]
                        [] rule.action = "REQUIRE_APPROVAL" ->
                              [before EXCEPT !.risk = @ + rule.score, !.approval = TRUE]
    IN  scan[Len(Rules)]

\* Mutant: a chunk is kept as it came.
RetainedRaw(chunk, safe) == chunk

\* what later chunks are looked at with
Retained(chunk, safe) == safe

\* _actionable_score: of all findings so far, which may be of the same text again
RiskSoFar(scanned) == risk + scanned.risk

\* a chunk; failing is the rule that raises, 0 if none does
ProcessChunk(chunk, failing) ==
    /\ terminal = None
    /\ Len(received) + Len(chunk) <= MaxTotal
    /\ received' = received \o chunk
    /\ LET scanned == Scan(Normalized(chunk), failing)
           blocks == scanned.ends # None \/ RiskSoFar(scanned) >= BlockAt
       IN  /\ risk' = RiskSoFar(scanned)
           /\ terminal' = IF blocks THEN "BLOCK"
                          ELSE IF scanned.approval THEN "REQUIRE_APPROVAL" ELSE None
           /\ buffer' = IF blocks THEN buffer
                        ELSE Suffix(buffer \o Retained(chunk, scanned.chunk), BufferSize)
           /\ emitted' = IF blocks \/ scanned.approval THEN emitted
                         ELSE Append(emitted, scanned.chunk)

\* reset: the scanner is used for another stream
Reset ==
    /\ buffer' = <<>> /\ risk' = 0 /\ terminal' = None
    /\ received' = <<>> /\ emitted' = <<>>

Init ==
    /\ buffer = <<>> /\ risk = 0 /\ terminal = None
    /\ received = <<>> /\ emitted = <<>>

Chunks == UNION {[1..n -> Symbols] : n \in 1..MaxChunk}

Next ==
    \/ \E chunk \in Chunks, failing \in 0..Len(Rules) : ProcessChunk(chunk, failing)
    \/ Reset

Spec == Init /\ [][Next]_vars

-----------------------------------------------------------------------------
(* Properties *)

Passed == FlattenSeq(emitted)

\* Patterns short enough for the text kept from one chunk to the next.
Covered(pattern) ==
    Len(pattern) <= BufferSize + 1 /\ (ChunkOverlap = 0 \/ Len(pattern) <= ChunkOverlap + 1)

\* Type invariant of the scanner; it keeps no more than its buffer, however long the stream is.
TypeOK ==
    /\ Len(buffer) <= BufferSize /\ \A i \in DOMAIN buffer : buffer[i] \notin Invisible
    /\ terminal \in {None, "BLOCK", "REQUIRE_APPROVAL"}
    /\ \A i \in DOMAIN Passed : Passed[i] \in (Symbols \cup {Mask}) \ Invisible

\* However a stream is cut, and whatever invisible symbols are put in between, what is passed
\* on holds no pattern that is to be blocked or replaced.
EmittedClean ==
    FailClosed =>
        \A n \in DOMAIN Rules :
            Rules[n].action \in {"BLOCK", "REDACT"} /\ Covered(Rules[n].pattern) =>
                ~Holds(Passed, Rules[n].pattern)

\* As long as a stream goes on, what was passed on is what replacing patterns in all of it would
\* have given: nothing is lost or repeated between chunks.
EmittedAsWhole ==
    terminal = None /\ FailClosed =>
        LET whole[n \in 0..Len(Rules)] ==
                IF n = 0 THEN Normalized(received)
                ELSE LET before == whole[n - 1]
                     IN  IF Rules[n].action = "REDACT" THEN Replaced(before, Rules[n].pattern)
                         ELSE before
        IN  Passed = whole[Len(Rules)]

\* Findings add up over the stream: chunks that are each below the threshold are not passed on
\* when together they are above it.
RiskAddsUp ==
    FailClosed =>
        LET warned(n) == {i \in DOMAIN emitted :
                            Rules[n].action = "WARN" /\ Holds(emitted[i], Rules[n].pattern)}
        IN  MapThenSumSet(LAMBDA n : Rules[n].score * Cardinality(warned(n)), DOMAIN Rules) < BlockAt
=============================================================================
