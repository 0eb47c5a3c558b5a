-------------------------- MODULE StructuredOutput --------------------------
(***************************************************************************)
(* StructuredOutputValidator and StructuredOutputRepairSession of          *)
(* src/trustrail/structured_output.py: one strict validation, then a gate  *)
(* at every use, and a bounded number of replacement responses.            *)
(*                                                                         *)
(* The audit sink is called inside of every operation and may raise, as    *)
(* may the validators of the model: a call then ends with nothing handed   *)
(* out, but a repair that was submitted is not undone.                     *)
(*                                                                         *)
(* A response is described by what the parser and the schema make of it.   *)
(* A validated object holds the text it came from and the live value, that *)
(* the host may change; a digest stands for the text it is computed from.  *)
(***************************************************************************)
EXTENDS Integers, FiniteSets, Sequences

CONSTANTS
    Responses,      \* responses of the model, of ResponseType
    Values,         \* values a response may hold
    AllUses,        \* StructuredOutputUse
    AllowedUses,    \* contract.allowed_uses
    Contexts,       \* downstream operations
    Threads,        \* threads that use the validator and the repair session
    MaxAttempts,    \* max_attempts of the repair session
    MaxObjects,     \* bound: validated objects
    MaxSubmissions  \* bound: responses submitted to the repair session

ResponseType == [value : Values, parses : BOOLEAN, fits : BOOLEAN, agrees : BOOLEAN]

VARIABLES
    current,        \* the contract's schema is still the one the validator was built with
    objects,        \* validated objects
    bindings,       \* bindings issued
    calls,          \* [Threads -> what the thread is in the middle of]
    session,        \* the repair session; its answers and escaped attempts are a history
    released        \* what authorize() handed to a downstream operation

vars == <<current, objects, bindings, calls, session, released>>

Idle == [phase |-> "idle"]

-----------------------------------------------------------------------------
(* validate_json *)

\* _parse_json, model_validate(strict) and the comparison of the two canonical forms
Valid(response) == response.parses /\ response.fits /\ response.agrees

\* A new validated object: canonical text, digest and a copy of the model
Store(response) ==
    objects' = Append(objects, [json |-> response.value, digest |-> response.value, value |-> response.value])

Validate(response) ==
    /\ current /\ Len(objects) < MaxObjects
    /\ Valid(response)
    /\ Store(response)
    /\ UNCHANGED <<current, bindings, calls, session, released>>

-----------------------------------------------------------------------------
(* bind and authorize *)

\* _verify_validated
Verified(i) == objects[i].digest = objects[i].json /\ objects[i].value = objects[i].json

Bind(i, use, context) ==
    /\ current /\ Verified(i)
    /\ use \in AllowedUses
    /\ bindings' = bindings \cup {[digest |-> objects[i].digest, use |-> use, context |-> context]}
    /\ UNCHANGED <<current, objects, calls, session, released>>

\* authorize() up to its last check; what it keeps is parsed anew from the text of the object
Verify(t, i, binding, use, context) ==
    /\ calls[t] = Idle
    /\ current /\ Verified(i)
    /\ binding.digest = objects[i].digest /\ binding.use = use /\ binding.context = context
    /\ use \in AllowedUses
    /\ calls' = [calls EXCEPT ![t] = [phase |-> "verified", object |-> i, use |-> use, context |-> context,
                                      value |-> objects[i].json]]
    /\ UNCHANGED <<current, objects, bindings, session, released>>

Release(t) ==
    /\ calls[t].phase = "verified"
    /\ released' = released \cup {[value |-> calls[t].value, use |-> calls[t].use, context |-> calls[t].context]}
    /\ calls' = [calls EXCEPT ![t] = Idle]
    /\ UNCHANGED <<current, objects, bindings, session>>

-----------------------------------------------------------------------------
(* StructuredOutputRepairSession.validate_json, under its lock *)

Submit(t, response) ==
    /\ calls[t] = Idle
    /\ \A u \in Threads : calls[u].phase # "repair"    \* _lock
    /\ ~session.closed
    /\ session.attempts < MaxSubmissions
    /\ session' = [session EXCEPT !.attempts = @ + 1]
    /\ calls' = [calls EXCEPT ![t] = [phase |-> "repair", response |-> response, attempt |-> session.attempts + 1]]
    /\ UNCHANGED <<current, objects, bindings, released>>

\* The response is valid: it is the answer and the session closes.
Repaired(t) ==
    /\ calls[t].phase = "repair"
    /\ current /\ Len(objects) < MaxObjects
    /\ Valid(calls[t].response)
    /\ Store(calls[t].response)
    /\ session' = [session EXCEPT !.closed = TRUE, !.answers = @ + 1]
    /\ calls' = [calls EXCEPT ![t] = Idle]
    /\ UNCHANGED <<current, bindings, released>>

\* Validation leaves by an exception that is not a StructuredOutputError, of the audit sink or of
\* a validator of the model: whatever the response was, the session stays as it is.
Escaped(t) ==
    /\ calls[t].phase = "repair"
    /\ session' = [session EXCEPT !.escaped = @ + 1]
    /\ calls' = [calls EXCEPT ![t] = Idle]
    /\ UNCHANGED <<current, objects, bindings, released>>

\* It is not valid: the session closes with the last attempt.
Rejected(t) ==
    /\ calls[t].phase = "repair"
    /\ ~current \/ ~Valid(calls[t].response)
    /\ session' = [session EXCEPT !.closed = @ \/ calls[t].attempt >= MaxAttempts]
    /\ calls' = [calls EXCEPT ![t] = Idle]
    /\ UNCHANGED <<current, objects, bindings, released>>

-----------------------------------------------------------------------------
(* The host *)

\* The host changes the value of an object it holds.
Change(i, value) ==
    /\ objects' = [objects EXCEPT ![i].value = value]
    /\ UNCHANGED <<current, bindings, calls, session, released>>

\* The contract's model is rebuilt with another schema.
ChangeSchema ==
    /\ current
    /\ current' = FALSE
    /\ UNCHANGED <<objects, bindings, calls, session, released>>

-----------------------------------------------------------------------------
Init ==
    /\ current = TRUE
    /\ objects = <<>> /\ bindings = {} /\ released = {}
    /\ calls = [t \in Threads |-> Idle]
    /\ session = [attempts |-> 0, closed |-> FALSE, answers |-> 0, escaped |-> 0]

Next ==
    \/ \E response \in Responses : Validate(response)
    \/ \E i \in DOMAIN objects :
        \/ \E value \in Values : Change(i, value)
        \/ \E use \in AllUses, context \in Contexts :
            \/ Bind(i, use, context)
            \/ \E t \in Threads, binding \in bindings : Verify(t, i, binding, use, context)
    \/ \E t \in Threads :
        \/ \E response \in Responses : Submit(t, response)
        \/ Release(t) \/ Repaired(t) \/ Escaped(t) \/ Rejected(t)
    \/ ChangeSchema

Spec == Init /\ [][Next]_vars

-----------------------------------------------------------------------------
(* Properties *)

TypeOK ==
    /\ current \in BOOLEAN
    /\ \A i \in DOMAIN objects : objects[i] \in [json : Values, digest : Values, value : Values]
    /\ bindings \subseteq [digest : Values, use : AllUses, context : Contexts]
    /\ \A t \in Threads : calls[t].phase \in {"idle", "verified", "repair"}
    /\ session.attempts \in Nat /\ session.escaped \in Nat /\ session.closed \in BOOLEAN
    /\ released \subseteq [value : Values, use : AllUses, context : Contexts]

\* What a downstream operation receives is the value of a response that passed the whole validation,
\* bound to that very use and context, whatever the host did to the object it holds in the meantime.
UsedAsBound ==
    \A r \in released :
        /\ [digest |-> r.value, use |-> r.use, context |-> r.context] \in bindings
        /\ \E response \in Responses :
            response.parses /\ response.fits /\ response.agrees /\ response.value = r.value

\* A repair session shared by threads judges at most max_attempts responses, whatever escaped in
\* between, answers at most once and is closed once it has answered.
RepairBounded ==
    /\ session.attempts <= MaxAttempts + session.escaped
    /\ session.answers <= 1 /\ (session.answers = 1 => session.closed)

\* "The configured maximum cannot be exceeded" (docs/security/structured-output.md:127): an audit
\* sink that raises leaves the session open, also after its last attempt.
AttemptsBounded == session.attempts <= MaxAttempts
=============================================================================
