------------------------- MODULE RedisStateBackend --------------------------
(***************************************************************************)
(* FixedWindowRateLimiter over RedisStateBackend (state/backends.py): the  *)
(* processes of an application share the counters of one Redis server.     *)
(*                                                                         *)
(* A check is not one step: the request travels, the server runs the Lua   *)
(* script atomically, the answer travels back.  Either message may be late *)
(* or lost (it then stays on the way forever), the caller may time out or  *)
(* be cancelled while its request is still on the way, and the redis       *)
(* client may send it again.  The server and the network are external and  *)
(* modelled from how the code uses them: a key is gone when its time to    *)
(* live is past, and PEXPIRE with 0 deletes it.                            *)
(***************************************************************************)
EXTENDS Integers, Sequences, FiniteSets, TLC, FiniteSetTheorems, TLAPS

CONSTANTS
    Processes, Keys,
    MaxRequests,      \* max_requests
    Window,           \* window_seconds, in ticks of the server's clock
    MaxNow,           \* bound: last clock value explored
    MaxCalls,         \* bound: calls started
    MaxResends        \* bound: commands the client library sends again

\* The checks of FixedWindowRateLimiter.__init__ and of increment_with_ttl.
ASSUME LimiterAssumption == MaxRequests \in Nat \ {0} /\ Window \in Nat \ {0}

VARIABLES
    now,        \* the server's clock
    db,         \* the server's counters, by key
    requests,   \* requests on the way to the server
    answers,    \* answers on the way back
    calls,      \* what each process is waiting for
    failMode,   \* _fail_mode of each process's backend
    closed,     \* _closed
    started,    \* number of calls started: the identity of a call
    resent,     \* number of commands sent again
    opened,     \* history: windows opened by the server
    grants      \* history: the checks that returned True, with the count that was answered

vars == <<now, db, requests, answers, calls, failMode, closed, started, resent, opened, grants>>

Idle == [op |-> "idle"]
Absent == [value |-> 0, when |-> -1, window |-> 0, born |-> 0]
Malformed == -1
Persistent == -1       \* when of an entry without expiry, PTTL's answer for it

-----------------------------------------------------------------------------
(* The server *)

Exists(k) == db[k] # Absent /\ (db[k].when = Persistent \/ now <= db[k].when)

\* PEXPIRE k ttl after SET: 0 deletes the key
Expiring(entry, ttl) == IF ttl = 0 THEN Absent ELSE [entry EXCEPT !.when = now + ttl]

\* Mutant: SET drops the time to live and nothing restores it.
ScriptDropsTtl(k) ==
    IF Exists(k)
    THEN [value |-> db[k].value + 1, when |-> Persistent, window |-> db[k].window, born |-> db[k].born]
    ELSE Expiring([value |-> 1, when |-> Persistent, window |-> opened + 1, born |-> now], Window)

\* _ATOMIC_INCREMENT_WITH_TTL_SCRIPT with delta 1 on a key that is well formed:
\* only creation initializes the expiry
Script(k) ==
    IF Exists(k)
    THEN LET counted == [db[k] EXCEPT !.value = @ + 1]
         IN  IF db[k].when = Persistent THEN counted
             ELSE Expiring(counted, db[k].when - now)
    ELSE Expiring([value |-> 1, when |-> Persistent, window |-> opened + 1, born |-> now], Window)

\* an answer travels only while its caller waits: a caller that gave up has
\* closed the connection
AnswersWith(a) == IF \E p \in Processes : calls[p] # Idle /\ calls[p].id = a.id
                  THEN answers \cup {a} ELSE answers
AnswersWithout(id) == {a \in answers : a.id # id}

ServeCheck(r) ==
    /\ r \in requests /\ r.op = "check"
    /\ requests' = requests \ {r}
    /\ IF Exists(r.key) /\ db[r.key].value = Malformed
       THEN /\ answers' = AnswersWith([id |-> r.id, error |-> TRUE])
            /\ UNCHANGED <<db, opened>>
       ELSE /\ answers' = AnswersWith(
                 [id |-> r.id, error |-> FALSE,
                  value |-> IF Exists(r.key) THEN db[r.key].value + 1 ELSE 1,
                  window |-> IF Exists(r.key) THEN db[r.key].window ELSE opened + 1])
            /\ db' = [db EXCEPT ![r.key] = Script(r.key)]
            /\ opened' = IF Exists(r.key) THEN opened ELSE opened + 1
    /\ UNCHANGED <<now, calls, failMode, closed, started, resent, grants>>

ServeDelete(r) ==
    /\ r \in requests /\ r.op = "reset"
    /\ requests' = requests \ {r}
    /\ answers' = AnswersWith([id |-> r.id, error |-> FALSE])
    /\ db' = [db EXCEPT ![r.key] = Absent]
    /\ UNCHANGED <<now, calls, failMode, closed, started, resent, opened, grants>>

\* another user of the namespace stores a value that is no counter, without expiry
Corrupt(k) ==
    /\ db[k] # Absent
    /\ db' = [db EXCEPT ![k] = [@ EXCEPT !.value = Malformed, !.when = Persistent]]
    /\ UNCHANGED <<now, requests, answers, calls, failMode, closed, started, resent, opened, grants>>

Tick ==
    /\ now < MaxNow
    /\ now' = now + 1
    /\ UNCHANGED <<db, requests, answers, calls, failMode, closed, started, resent, opened, grants>>

-----------------------------------------------------------------------------
(* The processes *)

Waiting(p) == calls[p] # Idle

\* check and reset up to the await; a closed backend raises and changes nothing
Send(p, op, k) ==
    /\ ~Waiting(p) /\ ~closed[p]
    /\ started < MaxCalls
    /\ calls' = [calls EXCEPT ![p] = [op |-> op, key |-> k, id |-> started]]
    /\ requests' = requests \cup {[id |-> started, op |-> op, key |-> k, copy |-> 0]}
    /\ started' = started + 1
    /\ UNCHANGED <<now, db, answers, failMode, closed, resent, opened, grants>>

\* the client library sends the command again on a new connection
Resend(p) ==
    /\ Waiting(p) /\ resent < MaxResends
    /\ requests' = requests \cup {[id |-> calls[p].id, op |-> calls[p].op, key |-> calls[p].key,
                                   copy |-> resent + 1]}
    /\ resent' = resent + 1
    /\ UNCHANGED <<now, db, answers, calls, failMode, closed, started, opened, grants>>

\* Mutant: the comparison admits one request too many.
ReturnOffByOne(p, a) ==
    /\ Waiting(p) /\ a \in answers /\ a.id = calls[p].id /\ ~a.error
    /\ answers' = AnswersWithout(a.id)
    /\ calls' = [calls EXCEPT ![p] = Idle]
    /\ grants' = IF calls[p].op = "check" /\ a.value <= MaxRequests + 1
                 THEN grants \cup {[id |-> a.id, by |-> p, key |-> calls[p].key, window |-> a.window,
                                 value |-> a.value]}
                 ELSE grants
    /\ UNCHANGED <<now, db, requests, failMode, closed, started, resent, opened>>

\* the answer arrives: check compares the count it carries
Return(p, a) ==
    /\ Waiting(p) /\ a \in answers /\ a.id = calls[p].id /\ ~a.error
    /\ answers' = AnswersWithout(a.id)
    /\ calls' = [calls EXCEPT ![p] = Idle]
    /\ grants' = IF calls[p].op = "check" /\ a.value <= MaxRequests
                 THEN grants \cup {[id |-> a.id, by |-> p, key |-> calls[p].key, window |-> a.window,
                                 value |-> a.value]}
                 ELSE grants
    /\ UNCHANGED <<now, db, requests, failMode, closed, started, resent, opened>>

\* A timeout, a connection error or an error answer: _handle_failure raises in
\* closed mode and falls back to delta = 1 in open mode.  The request may still
\* reach the server.
Fail(p) ==
    /\ Waiting(p)
    /\ calls' = [calls EXCEPT ![p] = Idle]
    /\ grants' = IF calls[p].op = "check" /\ failMode[p] = "open" /\ 1 <= MaxRequests
                 THEN grants \cup {[id |-> calls[p].id, by |-> p, key |-> calls[p].key, window |-> 0,
                                 value |-> 0]}
                 ELSE grants
    /\ answers' = AnswersWithout(calls[p].id)
    /\ UNCHANGED <<now, db, requests, failMode, closed, started, resent, opened>>

\* CancelledError propagates in both modes
Cancelled(p) ==
    /\ Waiting(p)
    /\ calls' = [calls EXCEPT ![p] = Idle]
    /\ answers' = AnswersWithout(calls[p].id)
    /\ UNCHANGED <<now, db, requests, failMode, closed, started, resent, opened, grants>>

\* aclose; a call under way fails like any other when its connection goes
Close(p) ==
    /\ ~closed[p]
    /\ closed' = [closed EXCEPT ![p] = TRUE]
    /\ UNCHANGED <<now, db, requests, answers, calls, failMode, started, resent, opened, grants>>

Init ==
    /\ now = 0
    /\ db = [k \in Keys |-> Absent]
    /\ requests = {} /\ answers = {}
    /\ calls = [p \in Processes |-> Idle]
    /\ failMode \in [Processes -> {"closed", "open"}]
    /\ closed = [p \in Processes |-> FALSE]
    /\ started = 0
    /\ resent = 0
    /\ opened = 0
    /\ grants = {}

Server == \/ \E r \in requests : ServeCheck(r) \/ ServeDelete(r)
          \/ \E k \in Keys : Corrupt(k)
Process == \E p \in Processes :
             \/ \E k \in Keys, op \in {"check", "reset"} : Send(p, op, k)
             \/ Resend(p)
             \/ \E a \in answers : Return(p, a)
             \/ Fail(p)
             \/ Cancelled(p)
             \/ Close(p)

Next == Server \/ Process \/ Tick

Spec == Init /\ [][Next]_vars

\* Processes that run the same code are interchangeable.
SameProcesses == Permutations(Processes)

-----------------------------------------------------------------------------
(* Properties *)

\* The processes share one limit: over all of them at most max_requests checks are
\* admitted in one window of the server, whatever was lost, sent twice, answered
\* late or given up.  Admissions without a window come from fail-open backends
\* only, which the documentation says may admit every request.
SharedLimit ==
    /\ \A g \in grants : g.window # 0 =>
         Cardinality({h \in grants : h.key = g.key /\ h.window = g.window}) <= MaxRequests
    /\ \A g \in grants : g.window = 0 => failMode[g.by] = "open"

\* No history of calls makes a counter immortal or moves the end of its window:
\* a counter the server holds expires one window after the request that made it.
CounterExpires ==
    \A k \in Keys : Exists(k) /\ db[k].value # Malformed => db[k].when = db[k].born + Window

-----------------------------------------------------------------------------
(***************************************************************************)
(* Proofs, for any number of processes, keys, calls and resends.  The      *)
(* limit rests on the numbers the server gives out: within one window no   *)
(* number is given twice, whoever still waits for it, and the counter is   *)
(* at least as high as each of them.                                       *)
(***************************************************************************)

EntryType ==
    [value : Nat \cup {Malformed}, when : Nat \cup {Persistent}, window : Nat, born : Nat]
CallType == [op : {"check", "reset"}, key : Keys, id : Nat]
RequestType == [id : Nat, op : {"check", "reset"}, key : Keys, copy : Nat]

\* Type invariant; answers differ in their fields and are typed where they count.
TypeOK ==
    /\ now \in Nat /\ started \in Nat /\ resent \in Nat /\ opened \in Nat
    /\ db \in [Keys -> EntryType]
    /\ requests \subseteq RequestType
    /\ calls \in [Processes -> CallType \cup {Idle}]
    /\ failMode \in [Processes -> {"closed", "open"}]

\* A call has an identity of its own; requests and answers belong to calls that were started.
CallsDistinct ==
    /\ \A p \in Processes : Waiting(p) => calls[p].id < started
    /\ \A p, q \in Processes :
          Waiting(p) /\ Waiting(q) /\ calls[p].id = calls[q].id => p = q
    /\ \A r \in requests :
          /\ r.id < started
          /\ \A p \in Processes : Waiting(p) /\ calls[p].id = r.id => calls[p].op = r.op
    /\ \A a \in answers : a.id \in 0 .. started - 1

\* The answer is one that a check may return with.
Counts(a) ==
    ~a.error /\ \E p \in Processes : Waiting(p) /\ calls[p].id = a.id /\ calls[p].op = "check"

\* Counters of different keys count different windows, and a counter that is one expires
\* one window after it was made.
WindowsDistinct ==
    /\ \A k \in Keys : db[k] # Absent =>
          /\ db[k].window \in 1 .. opened
          /\ db[k].value # Malformed => db[k].when = db[k].born + Window
    /\ \A k, l \in Keys :
          db[k] # Absent /\ db[l] # Absent /\ db[k].window = db[l].window => k = l

\* What was answered lies in a window that was opened, and no higher than its counter.
AnswersCounted ==
    \A a \in answers : Counts(a) =>
        /\ a.window \in 1 .. opened /\ a.value \in Nat \ {0}
        /\ \A k \in Keys :
              db[k] # Absent /\ db[k].value # Malformed /\ db[k].window = a.window
                => a.value <= db[k].value

GrantsCounted ==
    \A g \in grants :
        /\ g.window \in 0 .. opened
        /\ g.window = 0 => failMode[g.by] = "open"
        /\ g.window # 0 => g.value \in 1 .. MaxRequests
        /\ \A k \in Keys :
              db[k] # Absent /\ db[k].value # Malformed /\ db[k].window = g.window
                => g.value <= db[k].value

\* No number of a window is given out twice.
NumbersDistinct ==
    /\ \A a, b \in answers :
          Counts(a) /\ Counts(b) /\ a.window = b.window /\ a.value = b.value => a = b
    /\ \A a \in answers, g \in grants :
          Counts(a) => ~(a.window = g.window /\ a.value = g.value)
    /\ \A g, h \in grants :
          g.window # 0 /\ g.window = h.window /\ g.value = h.value => g = h

IInv ==
    /\ TypeOK /\ CallsDistinct /\ WindowsDistinct
    /\ AnswersCounted /\ GrantsCounted /\ NumbersDistinct
\* A backend whose server holds nothing yet satisfies the invariant.
LEMMA InitIInv == Init => IInv
  BY LimiterAssumption
     DEF Init, IInv, TypeOK, CallsDistinct, WindowsDistinct, AnswersCounted, GrantsCounted,
         NumbersDistinct, Waiting, Counts, EntryType, Absent, Malformed, Persistent

\* What AnswersWith and AnswersWithout leave on the way.
LEMMA AnswersKept ==
    /\ \A a : AnswersWith(a) \subseteq answers \cup {a}
    /\ \A id : AnswersWithout(id) = {a \in answers : a.id # id}
  BY DEF AnswersWith, AnswersWithout

\* Steps of the callers: no counter moves and no call comes to wait for an answer that is out.
LEMMA CallerStep ==
    ASSUME IInv,
           UNCHANGED <<now, db, opened, failMode>>,
           TypeOK', CallsDistinct',
           answers' \subseteq answers,
           \A a \in answers' : Counts(a)' => Counts(a),
           \/ grants' = grants
           \/ \E g : /\ grants' = grants \cup {g}
                     /\ g.window = 0 /\ failMode[g.by] = "open" /\ g.value = 0
           \/ \E a \in answers : \E g :
                 /\ Counts(a) /\ a \notin answers'
                 /\ grants' = grants \cup {g}
                 /\ g.window = a.window /\ g.value = a.value /\ a.value <= MaxRequests
    PROVE  IInv'
  <1> USE DEF IInv
  <1>1. WindowsDistinct'
    BY DEF WindowsDistinct
  <1>2. AnswersCounted'
    BY DEF AnswersCounted
  <1>3. CASE grants' = grants
    <2>1. GrantsCounted'
      BY <1>3 DEF GrantsCounted
    <2>2. NumbersDistinct'
      BY <1>3 DEF NumbersDistinct
    <2> QED
      BY <1>1, <1>2, <2>1, <2>2
  <1>4. ASSUME NEW g, grants' = grants \cup {g},
               g.window = 0, failMode[g.by] = "open", g.value = 0
        PROVE  IInv'
    <2>1. GrantsCounted'
      <3>1. \A k \in Keys : db[k] # Absent => db[k].window # 0
        BY DEF WindowsDistinct, TypeOK
      <3> QED
        BY <1>4, <3>1 DEF GrantsCounted, TypeOK
    <2>2. NumbersDistinct'
      <3>1. \A a \in answers' : Counts(a)' => a.window # 0
        BY DEF AnswersCounted, TypeOK
      <3> QED
        BY <1>4, <3>1 DEF NumbersDistinct
    <2> QED
      BY <1>1, <1>2, <2>1, <2>2
  <1>5. ASSUME NEW a \in answers, NEW g,
               Counts(a), a \notin answers', grants' = grants \cup {g},
               g.window = a.window, g.value = a.value, a.value <= MaxRequests
        PROVE  IInv'
    <2>0. a.window \in 1 .. opened /\ a.value \in 1 .. MaxRequests
      BY <1>5, LimiterAssumption DEF AnswersCounted
    <2>1. GrantsCounted'
      <3>1. \A k \in Keys :
               db[k] # Absent /\ db[k].value # Malformed /\ db[k].window = g.window
                 => g.value <= db[k].value
        BY <1>5 DEF AnswersCounted
      <3>2. g.window \in 0 .. opened /\ g.window # 0 /\ g.value \in 1 .. MaxRequests
        BY <1>5, <2>0 DEF TypeOK
      <3> QED
        BY <1>5, <3>1, <3>2 DEF GrantsCounted
    <2>2. NumbersDistinct'
      <3>1. \A b \in answers' : Counts(b)' => ~(b.window = g.window /\ b.value = g.value)
        BY <1>5 DEF NumbersDistinct
      <3>2. \A h \in grants : ~(h.window = g.window /\ h.value = g.value)
        BY <1>5 DEF NumbersDistinct
      <3>3. \A b \in answers', h \in grants : Counts(b)' => ~(b.window = h.window /\ b.value = h.value)
        BY DEF NumbersDistinct
      <3> QED
        BY <1>5, <3>1, <3>2, <3>3 DEF NumbersDistinct
    <2> QED
      BY <1>1, <1>2, <2>1, <2>2
  <1> QED
    BY <1>3, <1>4, <1>5

\* A counter that counted goes on under the window it has, until it expires.
LEMMA ExpiringKeeps ==
    ASSUME NEW entry, NEW ttl
    PROVE  Expiring(entry, ttl) \in {Absent, [entry EXCEPT !.when = now + ttl]}
  BY DEF Expiring

\* What the script leaves of the counter of k: nothing, or the number it answers.
LEMMA ScriptCounts ==
    ASSUME IInv, NEW k \in Keys, db[k].value # Malformed
    PROVE  /\ Script(k) \in EntryType
           /\ Script(k) # Absent =>
                /\ Script(k).value = (IF Exists(k) THEN db[k].value + 1 ELSE 1)
                /\ Script(k).window = (IF Exists(k) THEN db[k].window ELSE opened + 1)
                /\ Script(k).when = Script(k).born + Window
  <1>0. /\ db[k] \in EntryType /\ now \in Nat /\ opened \in Nat /\ Window \in Nat \ {0}
        /\ Window # 0
    BY LimiterAssumption DEF IInv, TypeOK
  <1>1. CASE ~Exists(k)
    <2>1. Script(k) = [value |-> 1, when |-> now + Window, window |-> opened + 1, born |-> now]
      BY <1>0, <1>1 DEF Script, Expiring
    <2> QED
      BY <1>0, <1>1, <2>1 DEF EntryType
  <1>2. CASE Exists(k)
    <2>1. db[k] # Absent /\ db[k].when = db[k].born + Window
      BY <1>2 DEF Exists, IInv, WindowsDistinct
    <2>2. db[k].when # Persistent /\ now <= db[k].when /\ db[k].when \in Nat
      BY <1>0, <1>2, <2>1 DEF Exists, EntryType, Persistent
    <2>3. Script(k) \in {Absent, [db[k] EXCEPT !.value = @ + 1]}
      <3>1. Script(k) = Expiring([db[k] EXCEPT !.value = @ + 1], db[k].when - now)
        BY <1>2, <2>2 DEF Script
      <3>2. [[db[k] EXCEPT !.value = @ + 1] EXCEPT !.when = now + (db[k].when - now)]
              = [db[k] EXCEPT !.value = @ + 1]
        <4> DEFINE e == [db[k] EXCEPT !.value = @ + 1]
                   n == now + (db[k].when - now)
        <4>1. n = db[k].when
          BY <1>0, <2>2
        <4>2. e.when = db[k].when /\ e \in [value : Int, when : Int, window : Nat, born : Nat]
          BY <1>0, <2>2 DEF EntryType, Malformed
        <4> HIDE DEF e, n
        <4>3. [e EXCEPT !.when = n] = e
          BY <4>1, <4>2
        <4> QED
          BY <4>3 DEF e, n
      <3> QED
        BY <3>1, <3>2 DEF Expiring
    <2>4. db[k].value \in Nat
      BY <1>0 DEF EntryType
    <2>5. [db[k] EXCEPT !.value = @ + 1] \in EntryType
      BY <1>0, <2>4 DEF EntryType
    <2>6. Absent \in EntryType
      BY DEF Absent, EntryType, Persistent
    <2> QED
      BY <1>0, <1>2, <2>1, <2>3, <2>4, <2>5, <2>6 DEF EntryType
  <1> QED
    BY <1>1, <1>2

\* Steps of the server that count nothing: a key is deleted or loses its value.
LEMMA UncountedStep ==
    ASSUME IInv, NEW k \in Keys, NEW entry \in EntryType,
           db' = [db EXCEPT ![k] = entry],
           entry # Absent =>
              db[k] # Absent /\ entry.value = Malformed /\ entry.window = db[k].window,
           UNCHANGED <<now, calls, failMode, started, resent, opened, grants>>,
           requests' \subseteq requests,
           \A a \in answers' : a.id \in 0 .. started - 1,
           \A a \in answers' : Counts(a)' => a \in answers /\ Counts(a)
    PROVE  IInv'
  <1> USE DEF IInv
  <1>1. TypeOK'
    BY DEF TypeOK
  <1>2. CallsDistinct'
    BY DEF CallsDistinct, Waiting
  <1>3. db \in [Keys -> EntryType]
    BY DEF TypeOK
  <1>4. /\ \A l \in Keys : db'[l] # Absent => db[l] # Absent /\ db'[l].window = db[l].window
        /\ \A l \in Keys : db'[l] # Absent /\ db'[l].value # Malformed => db'[l] = db[l]
    BY <1>3
  <1>5. WindowsDistinct'
    BY <1>4 DEF WindowsDistinct
  <1>6. AnswersCounted'
    BY <1>4 DEF AnswersCounted
  <1>7. GrantsCounted'
    BY <1>4 DEF GrantsCounted
  <1>8. NumbersDistinct'
    BY DEF NumbersDistinct
  <1> QED
    BY <1>1, <1>2, <1>5, <1>6, <1>7, <1>8

\* The script counts a request and answers with a number nobody has in that window.
LEMMA CountedStep ==
    ASSUME IInv, NEW r \in requests, ServeCheck(r), ~(Exists(r.key) /\ db[r.key].value = Malformed)
    PROVE  IInv'
  <1> USE DEF IInv
  <1> DEFINE k == r.key
             v == IF Exists(k) THEN db[k].value + 1 ELSE 1
             w == IF Exists(k) THEN db[k].window ELSE opened + 1
             x == [id |-> r.id, error |-> FALSE, value |-> v, window |-> w]
  <1>0. /\ r.id \in Nat /\ k \in Keys /\ db \in [Keys -> EntryType] /\ opened \in Nat
        /\ db[k] \in EntryType
    BY DEF TypeOK, RequestType
  <1>1. /\ requests' = requests \ {r}
        /\ answers' = AnswersWith(x)
        /\ db' = [db EXCEPT ![k] = Script(k)]
        /\ opened' = IF Exists(k) THEN opened ELSE opened + 1
        /\ UNCHANGED <<now, calls, failMode, closed, started, resent, grants>>
    BY DEF ServeCheck
  <1>2. answers' \subseteq answers \cup {x}
    BY <1>1, AnswersKept
  <1>3. v \in Nat \ {0} /\ w \in 1 .. opened' /\ opened' \in Nat /\ opened <= opened'
    BY <1>0, <1>1 DEF EntryType, Exists, WindowsDistinct, Malformed
  \* the numbers given out in window w are below v
  <1>4. /\ \A a \in answers : Counts(a) /\ a.window = w => a.value < v
        /\ \A g \in grants : g.window = w => g.value < v
    <2>1. CASE Exists(k)
      <3>1. db[k] # Absent /\ db[k].value # Malformed /\ db[k].window = w /\ db[k].value \in Nat
        BY <1>0, <2>1 DEF Exists, EntryType, ServeCheck
      <3>2. db[k].window # 0
        BY <3>1, <1>0 DEF WindowsDistinct
      <3>3. \A a \in answers : Counts(a) /\ a.window = w => a.value <= db[k].value /\ a.value \in Nat
        BY <3>1, <1>0 DEF AnswersCounted
      <3>4. \A g \in grants : g.window = w => g.value <= db[k].value /\ g.value \in Nat
        BY <3>1, <3>2, <1>0, LimiterAssumption DEF GrantsCounted
      <3> QED
        BY <2>1, <3>1, <3>3, <3>4
    <2>2. CASE ~Exists(k)
      <3>1. \A a \in answers : Counts(a) => a.window # w
        BY <1>0, <2>2 DEF AnswersCounted
      <3>2. \A g \in grants : g.window # w
        BY <1>0, <2>2 DEF GrantsCounted
      <3> QED
        BY <3>1, <3>2
    <2> QED
      BY <2>1, <2>2
  <1>5. Script(k) \in EntryType /\ db' \in [Keys -> EntryType]
    <2>1. CASE db[k].value # Malformed
      BY <1>0, <1>1, <2>1, ScriptCounts
    <2>2. CASE db[k].value = Malformed
      <3>1. ~Exists(k)
        BY <2>2
      <3>2. Script(k) = [value |-> 1, when |-> now + Window, window |-> opened + 1, born |-> now]
        BY <3>1, LimiterAssumption DEF Script, Expiring
      <3> QED
        BY <1>0, <1>1, <3>2, LimiterAssumption DEF EntryType, TypeOK
    <2> QED
      BY <2>1, <2>2
  <1>6. Script(k) # Absent =>
            Script(k).value = v /\ Script(k).window = w /\ Script(k).when = Script(k).born + Window
    <2>1. CASE db[k].value # Malformed
      BY <1>0, <2>1, ScriptCounts
    <2>2. CASE db[k].value = Malformed
      <3>1. ~Exists(k)
        BY <2>2
      <3>2. Script(k) = [value |-> 1, when |-> now + Window, window |-> opened + 1, born |-> now]
        BY <3>1, LimiterAssumption DEF Script, Expiring
      <3> QED
        BY <3>1, <3>2
    <2> QED
      BY <2>1, <2>2
  <1>7. x.id = r.id /\ x.value = v /\ x.window = w
    OBVIOUS
  <1>8. \A l \in Keys : l # k => db'[l] = db[l]
    BY <1>0, <1>1
  <1>9. db'[k] = Script(k)
    BY <1>0, <1>1
  <1>10. \A l \in Keys : l # k /\ db[l] # Absent => db[l].window # w
    BY <1>0 DEF WindowsDistinct, Exists
  <1> HIDE DEF k, v, w, x
  <1>11. TypeOK'
    BY <1>1, <1>3, <1>5 DEF TypeOK
  <1>12. CallsDistinct'
    <2>1. x.id \in 0 .. started - 1
      BY <1>0, <1>7 DEF CallsDistinct, TypeOK
    <2> QED
      BY <1>1, <1>2, <2>1 DEF CallsDistinct, Waiting
  <1>13. \A a : Counts(a)' <=> Counts(a)
    BY <1>1 DEF Counts, Waiting
  <1>14. WindowsDistinct'
    BY <1>0, <1>3, <1>5, <1>6, <1>8, <1>9, <1>10 DEF WindowsDistinct
  <1>15. AnswersCounted'
    <2> SUFFICES ASSUME NEW a \in answers', Counts(a)
                 PROVE  /\ a.window \in 1 .. opened' /\ a.value \in Nat \ {0}
                        /\ \A l \in Keys :
                              db'[l] # Absent /\ db'[l].value # Malformed /\ db'[l].window = a.window
                                => a.value <= db'[l].value
      BY <1>13 DEF AnswersCounted
    <2>1. CASE a = x
      BY <2>1, <1>3, <1>6, <1>7, <1>8, <1>9, <1>10
    <2>2. CASE a \in answers
      <3>1. a.window \in 1 .. opened' /\ a.value \in Nat \ {0}
        BY <2>2, <1>0, <1>3 DEF AnswersCounted
      <3>2. ASSUME NEW l \in Keys,
                   db'[l] # Absent, db'[l].value # Malformed, db'[l].window = a.window
            PROVE  a.value <= db'[l].value
        <4>1. CASE l = k
          BY <4>1, <3>1, <3>2, <2>2, <1>3, <1>4, <1>6, <1>9
        <4>2. CASE l # k
          BY <4>2, <3>2, <2>2, <1>8 DEF AnswersCounted
        <4> QED
          BY <4>1, <4>2
      <3> QED
        BY <3>1, <3>2
    <2> QED
      BY <2>1, <2>2, <1>2
  <1>16. GrantsCounted'
    <2> SUFFICES ASSUME NEW g \in grants
                 PROVE  /\ g.window \in 0 .. opened'
                        /\ g.window = 0 => failMode[g.by] = "open"
                        /\ g.window # 0 => g.value \in 1 .. MaxRequests
                        /\ \A l \in Keys :
                              db'[l] # Absent /\ db'[l].value # Malformed /\ db'[l].window = g.window
                                => g.value <= db'[l].value
      BY <1>1 DEF GrantsCounted
    <2>1. /\ g.window \in 0 .. opened
          /\ g.window = 0 => failMode[g.by] = "open"
          /\ g.window # 0 => g.value \in 1 .. MaxRequests
      BY DEF GrantsCounted
    <2>2. ASSUME NEW l \in Keys,
                 db'[l] # Absent, db'[l].value # Malformed, db'[l].window = g.window
          PROVE  g.value <= db'[l].value
      <3>1. CASE l = k
        <4>1. g.window = w /\ db'[l].value = v
          BY <3>1, <2>2, <1>6, <1>9
        <4>2. g.window # 0 /\ g.value \in Nat
          BY <4>1, <2>1, <1>3, LimiterAssumption
        <4> QED
          BY <4>1, <4>2, <1>3, <1>4
      <3>2. CASE l # k
        BY <3>2, <2>2, <1>8 DEF GrantsCounted
      <3> QED
        BY <3>1, <3>2
    <2> QED
      BY <2>1, <2>2, <1>0, <1>3
  <1>17. NumbersDistinct'
    <2>1. \A a \in answers : Counts(a) => ~(a.window = x.window /\ a.value = x.value)
      BY <1>3, <1>4, <1>7 DEF AnswersCounted
    <2>2. \A g \in grants : ~(x.window = g.window /\ x.value = g.value)
      <3> SUFFICES ASSUME NEW g \in grants, x.window = g.window, x.value = g.value PROVE FALSE
        OBVIOUS
      <3>1. g.value < v
        BY <1>4, <1>7
      <3> QED
        BY <3>1, <1>3, <1>7
    <2> QED
      BY <1>1, <1>2, <1>13, <2>1, <2>2 DEF NumbersDistinct
  <1> QED
    BY <1>11, <1>12, <1>14, <1>15, <1>16, <1>17

\* Every step keeps the invariant.
LEMMA NextIInv == IInv /\ [Next]_vars => IInv'
  <1> SUFFICES ASSUME IInv, [Next]_vars PROVE IInv'
    OBVIOUS
  <1> USE DEF IInv
  <1>1. ASSUME NEW r \in requests, ServeCheck(r)
        PROVE  IInv'
    <2>1. CASE Exists(r.key) /\ db[r.key].value = Malformed
      <3> DEFINE x == [id |-> r.id, error |-> TRUE]
      <3>1. /\ requests' = requests \ {r}
            /\ answers' \subseteq answers \cup {x}
            /\ UNCHANGED <<now, db, opened, calls, failMode, started, resent, grants>>
        BY <1>1, <2>1, AnswersKept DEF ServeCheck
      <3>2. x.error /\ x.id = r.id
        OBVIOUS
      <3> HIDE DEF x
      <3>3. \A a \in answers' : Counts(a)' => a \in answers /\ Counts(a)
        BY <3>1, <3>2 DEF Counts, Waiting
      <3>4. r.key \in Keys /\ db[r.key] \in EntryType /\ db' = [db EXCEPT ![r.key] = db[r.key]]
        BY <3>1 DEF TypeOK, RequestType
      <3>5. \A a \in answers' : a.id \in 0 .. started - 1
        <4>1. x.id \in 0 .. started - 1
          BY <3>2 DEF CallsDistinct, TypeOK, RequestType
        <4> QED
          BY <3>1, <4>1 DEF CallsDistinct
      <3> QED
        BY <2>1, <3>1, <3>3, <3>4, <3>5, UncountedStep
    <2>2. CASE ~(Exists(r.key) /\ db[r.key].value = Malformed)
      BY <1>1, <2>2, CountedStep
    <2> QED
      BY <2>1, <2>2
  <1>2. ASSUME NEW r \in requests, ServeDelete(r)
        PROVE  IInv'
    <2> DEFINE x == [id |-> r.id, error |-> FALSE]
    <2>1. /\ requests' = requests \ {r}
          /\ answers' \subseteq answers \cup {x}
          /\ db' = [db EXCEPT ![r.key] = Absent]
          /\ UNCHANGED <<now, opened, calls, failMode, started, resent, grants>>
      BY <1>2, AnswersKept DEF ServeDelete
    <2>2. x.id = r.id
      OBVIOUS
    <2> HIDE DEF x
    <2>3. \A a \in answers' : Counts(a)' => a \in answers /\ Counts(a)
      <3>1. r.op = "reset"
        BY <1>2 DEF ServeDelete
      <3>2. ~Counts(x)
        BY <2>2, <3>1 DEF Counts, CallsDistinct
      <3> QED
        BY <2>1, <3>2 DEF Counts, Waiting
    <2>4. \A a \in answers' : a.id \in 0 .. started - 1
      <3>1. x.id \in 0 .. started - 1
        BY <2>2 DEF CallsDistinct, TypeOK, RequestType
      <3> QED
        BY <2>1, <3>1 DEF CallsDistinct
    <2>5. r.key \in Keys /\ Absent \in EntryType
      BY DEF TypeOK, RequestType, Absent, EntryType, Persistent
    <2> QED
      BY <2>1, <2>3, <2>4, <2>5, UncountedStep
  <1>3. ASSUME NEW k \in Keys, Corrupt(k)
        PROVE  IInv'
    <2> DEFINE entry == [db[k] EXCEPT !.value = Malformed, !.when = Persistent]
    <2>1. db[k] \in EntryType
      BY DEF TypeOK
    <2>2. entry \in EntryType /\ entry.value = Malformed /\ entry.window = db[k].window
      BY <2>1 DEF EntryType
    <2>3. db[k] # Absent /\ db' = [db EXCEPT ![k] = entry]
      BY <1>3 DEF Corrupt
    <2> HIDE DEF entry
    <2>4. \A a \in answers' : Counts(a)' => a \in answers /\ Counts(a)
      BY <1>3 DEF Corrupt, Counts, Waiting
    <2>5. /\ UNCHANGED <<now, calls, failMode, started, resent, opened, grants>>
          /\ requests' \subseteq requests
          /\ \A a \in answers' : a.id \in 0 .. started - 1
      BY <1>3 DEF Corrupt, CallsDistinct
    <2> QED
      BY <2>2, <2>3, <2>4, <2>5, UncountedStep
  <1>4. ASSUME NEW p \in Processes, NEW k \in Keys, NEW op \in {"check", "reset"}, Send(p, op, k)
        PROVE  IInv'
    <2> DEFINE c == [op |-> op, key |-> k, id |-> started]
               r == [id |-> started, op |-> op, key |-> k, copy |-> 0]
    <2>1. /\ calls' = [calls EXCEPT ![p] = c]
          /\ requests' = requests \cup {r}
          /\ started' = started + 1
          /\ calls[p] = Idle
          /\ UNCHANGED <<now, db, answers, failMode, closed, resent, opened, grants>>
      BY <1>4 DEF Send, Waiting
    <2>2. c \in CallType /\ c # Idle /\ c.id = started /\ r \in RequestType /\ r.id = started
          /\ r.op = c.op
      BY DEF CallType, RequestType, TypeOK, Idle
    <2> HIDE DEF c, r
    <2>3. \A q \in Processes : calls'[q] = IF q = p THEN c ELSE calls[q]
      BY <2>1 DEF TypeOK
    <2>4. TypeOK'
      BY <2>1, <2>2, <2>3 DEF TypeOK
    <2>5. started \in Nat /\ \A q \in Processes : Waiting(q) => calls[q].id \in Nat
      BY DEF TypeOK, Waiting, CallType
    <2>6. CallsDistinct'
      <3>1. \A q \in Processes : Waiting(q)' => calls'[q].id < started'
        BY <2>1, <2>2, <2>3, <2>5 DEF CallsDistinct, Waiting
      <3>2. \A q, u \in Processes :
               Waiting(q)' /\ Waiting(u)' /\ calls'[q].id = calls'[u].id => q = u
        BY <2>2, <2>3, <2>5 DEF CallsDistinct, Waiting
      <3>3. \A s \in requests' :
               /\ s.id < started'
               /\ \A q \in Processes : Waiting(q)' /\ calls'[q].id = s.id => calls'[q].op = s.op
        <4> SUFFICES ASSUME NEW s \in requests'
                     PROVE  /\ s.id < started'
                            /\ \A q \in Processes :
                                  Waiting(q)' /\ calls'[q].id = s.id => calls'[q].op = s.op
          OBVIOUS
        <4>1. CASE s \in requests
          <5>1. s.id \in Nat /\ s.id < started
            BY <4>1 DEF TypeOK, RequestType, CallsDistinct
          <5> QED
            BY <4>1, <5>1, <2>1, <2>2, <2>3, <2>5 DEF CallsDistinct, Waiting
        <4>2. CASE s = r
          BY <4>2, <2>1, <2>2, <2>3, <2>5 DEF CallsDistinct, Waiting
        <4> QED
          BY <2>1, <4>1, <4>2
      <3>4. \A a \in answers' : a.id \in 0 .. started' - 1
        <4>1. \A a \in answers : a.id \in 0 .. started - 1
          BY DEF CallsDistinct
        <4> QED
          BY <4>1, <2>1, <2>5
      <3> QED
        BY <3>1, <3>2, <3>3, <3>4 DEF CallsDistinct
    <2>7. \A a \in answers' : Counts(a)' => Counts(a)
      BY <2>1, <2>2, <2>3, <2>5 DEF Counts, Waiting, CallsDistinct
    <2> QED
      BY <2>1, <2>4, <2>6, <2>7, CallerStep
  <1>5. ASSUME NEW p \in Processes, Resend(p)
        PROVE  IInv'
    <2> DEFINE r == [id |-> calls[p].id, op |-> calls[p].op, key |-> calls[p].key,
                     copy |-> resent + 1]
    <2>1. /\ Waiting(p)
          /\ requests' = requests \cup {r}
          /\ resent' = resent + 1
          /\ UNCHANGED <<now, db, answers, calls, failMode, closed, started, opened, grants>>
      BY <1>5 DEF Resend
    <2>2. r \in RequestType /\ r.id = calls[p].id /\ r.op = calls[p].op
      BY <2>1 DEF TypeOK, Waiting, CallType, RequestType
    <2> HIDE DEF r
    <2>3. TypeOK'
      BY <2>1, <2>2 DEF TypeOK
    <2>4. CallsDistinct'
      <3>1. r.id < started /\ \A q \in Processes : Waiting(q) /\ calls[q].id = r.id => q = p
        BY <2>1, <2>2 DEF CallsDistinct
      <3> QED
        BY <2>1, <2>2, <3>1 DEF CallsDistinct, Waiting
    <2>5. \A a \in answers' : Counts(a)' => Counts(a)
      BY <2>1 DEF Counts, Waiting
    <2> QED
      BY <2>1, <2>3, <2>4, <2>5, CallerStep
  <1>6. ASSUME NEW p \in Processes, calls' = [calls EXCEPT ![p] = Idle], Waiting(p),
               answers' = AnswersWithout(calls[p].id),
               UNCHANGED <<now, db, requests, failMode, closed, started, resent, opened>>,
               \/ grants' = grants
               \/ \E g : /\ grants' = grants \cup {g}
                         /\ g.window = 0 /\ failMode[g.by] = "open" /\ g.value = 0
               \/ \E a \in answers : \E g :
                     /\ Counts(a) /\ a.id = calls[p].id
                     /\ grants' = grants \cup {g}
                     /\ g.window = a.window /\ g.value = a.value /\ a.value <= MaxRequests
        PROVE  IInv'
    <2>1. \A q \in Processes : calls'[q] = IF q = p THEN Idle ELSE calls[q]
      BY <1>6 DEF TypeOK
    <2>2. \A q \in Processes : Waiting(q)' => q # p /\ Waiting(q) /\ calls'[q] = calls[q]
      BY <2>1 DEF Waiting
    <2>3. \A a \in answers' : a \in answers /\ a.id # calls[p].id
      BY <1>6, AnswersKept
    <2>4. TypeOK'
      BY <1>6 DEF TypeOK
    <2>5. CallsDistinct'
      BY <1>6, <2>2, <2>3 DEF CallsDistinct
    <2>6. \A a \in answers' : Counts(a)' => Counts(a)
      BY <2>2 DEF Counts
    <2>7. \/ grants' = grants
          \/ \E g : /\ grants' = grants \cup {g}
                    /\ g.window = 0 /\ failMode[g.by] = "open" /\ g.value = 0
          \/ \E a \in answers : \E g :
                /\ Counts(a) /\ a \notin answers'
                /\ grants' = grants \cup {g}
                /\ g.window = a.window /\ g.value = a.value /\ a.value <= MaxRequests
      BY <1>6, <2>3
    <2> QED
      BY <1>6, <2>3, <2>4, <2>5, <2>6, <2>7, CallerStep
  <1>7. ASSUME NEW p \in Processes, NEW a \in answers, Return(p, a)
        PROVE  IInv'
    <2> DEFINE g == [id |-> a.id, by |-> p, key |-> calls[p].key, window |-> a.window,
                     value |-> a.value]
    <2>1. g.window = a.window /\ g.value = a.value
      OBVIOUS
    <2>2. \/ grants' = grants
          \/ calls[p].op = "check" /\ a.value <= MaxRequests /\ grants' = grants \cup {g}
      BY <1>7 DEF Return
    <2>3. calls[p].op = "check" => Counts(a)
      BY <1>7 DEF Return, Counts
    <2> HIDE DEF g
    <2> QED
      BY <1>6, <1>7, <2>1, <2>2, <2>3 DEF Return
  <1>8. ASSUME NEW p \in Processes, Fail(p)
        PROVE  IInv'
    <2> DEFINE g == [id |-> calls[p].id, by |-> p, key |-> calls[p].key, window |-> 0, value |-> 0]
    <2>1. g.window = 0 /\ g.value = 0 /\ g.by = p
      OBVIOUS
    <2>2. \/ grants' = grants
          \/ failMode[p] = "open" /\ grants' = grants \cup {g}
      BY <1>8 DEF Fail
    <2> HIDE DEF g
    <2> QED
      BY <1>6, <1>8, <2>1, <2>2 DEF Fail
  <1>9. ASSUME NEW p \in Processes, Cancelled(p)
        PROVE  IInv'
    BY <1>6, <1>9 DEF Cancelled
  <1>10. CASE Tick \/ (\E p \in Processes : Close(p)) \/ UNCHANGED vars
    <2>1. /\ UNCHANGED <<db, requests, answers, calls, failMode, started, resent, opened, grants>>
          /\ now' \in Nat
      BY <1>10 DEF Tick, Close, vars, TypeOK
    <2> QED
      BY <2>1 DEF TypeOK, CallsDistinct, WindowsDistinct, AnswersCounted, GrantsCounted,
                  NumbersDistinct, Counts, Waiting
  <1> QED
    BY <1>1, <1>2, <1>3, <1>4, <1>5, <1>7, <1>8, <1>9, <1>10 DEF Next, Server, Process

\* The invariant holds in every reachable state.
THEOREM Inductive == Spec => []IInv
  BY InitIInv, NextIInv, PTL DEF Spec

\* The numbers of one window are distinct and none is above the limit, so no more checks are
\* admitted in it.
LEMMA DistinctNumbersBounded ==
    ASSUME NEW S, NEW n \in Nat,
           \A g \in S : g.value \in 1 .. n,
           \A g, h \in S : g.value = h.value => g = h
    PROVE  Cardinality(S) <= n
  <1> DEFINE f == [g \in S |-> g.value]
  <1>1. f \in Injection(S, 1 .. n)
    BY DEF Injection, IsInjective
  <1>2. IsFiniteSet(1 .. n) /\ Cardinality(1 .. n) = n
    BY FS_Interval
  <1> QED
    BY <1>1, <1>2, FS_Injection

\* The processes that share a Redis server share one limit (increment_with_ttl, check), whatever
\* is lost, sent twice, late or given up.
THEOREM LimitShared == Spec => []SharedLimit
  <1>1. IInv => SharedLimit
    <2> SUFFICES ASSUME IInv PROVE SharedLimit
      OBVIOUS
    <2>1. ASSUME NEW g \in grants, g.window # 0
          PROVE  Cardinality({h \in grants : h.key = g.key /\ h.window = g.window}) <= MaxRequests
      BY <2>1, DistinctNumbersBounded, LimiterAssumption DEF IInv, GrantsCounted, NumbersDistinct
    <2> QED
      BY <2>1 DEF IInv, GrantsCounted, SharedLimit
  <1> QED
    BY <1>1, Inductive, PTL

\* No call and no crash of a caller makes a counter immortal or moves the end of its window.
THEOREM CountersExpire == Spec => []CounterExpires
  <1>1. IInv => CounterExpires
    BY DEF IInv, WindowsDistinct, CounterExpires, Exists
  <1> QED
    BY <1>1, Inductive, PTL
=============================================================================
