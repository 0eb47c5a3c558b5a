------------------------- MODULE MemoryStateBackend -------------------------
(***************************************************************************)
(* MemoryStateBackend and the FixedWindowRateLimiter that counts in it,    *)
(* src/trustrail/state/backends.py.  The backend is shared: applications   *)
(* keep keys of their own in it, and the limiter's keys carry a prefix, so *)
(* that the two sets are disjoint.                                         *)
(*                                                                         *)
(* Every coroutine holds the backend's lock from its first to its last     *)
(* access and awaits nothing inside, so a call is one action.              *)
(***************************************************************************)
EXTENDS Integers, Sequences, FiniteSets, SequencesExt, FiniteSetTheorems, SequenceTheorems, TLAPS

CONSTANTS
    LimiterKeys, AppKeys,
    MaxKeys,          \* max_keys
    MaxRequests,      \* max_requests
    Window,           \* window_seconds
    TTLs,             \* the ttl_seconds applications pass
    MaxNow,           \* bound: last clock value explored
    MaxValue          \* bound: largest value stored or counted

Keys == LimiterKeys \cup AppKeys
NoExpiry == -1

VARIABLES
    now,       \* the clock
    store,     \* _store: entries from the least to the most recently used
    reply,     \* what the call that just returned gave its caller
    ends,      \* history: for each limiter key, when the window documented ends
    counted    \* history: and the requests the documentation counts in it

vars == <<now, store, reply, ends, counted>>
history == <<ends, counted>>

-----------------------------------------------------------------------------
(* The store *)

\* a dictionary: a key has at most one entry
Holds(s, key) == \E i \in DOMAIN s : s[i].key = key
Position(s, key) == CHOOSE i \in DOMAIN s : s[i].key = key
Entry(s, key) == s[Position(s, key)]

IsExpired(expires_at) == expires_at # NoExpiry /\ now >= expires_at
Live(key) == Holds(store, key) /\ ~IsExpired(Entry(store, key).expires_at)

Without(s, key) == IF Holds(s, key) THEN RemoveAt(s, Position(s, key)) ELSE s

\* popitem(last=False) while the store is at capacity
EvictIfNeeded(s) ==
    IF Len(s) < MaxKeys THEN s ELSE SubSeq(s, Len(s) - MaxKeys + 2, Len(s))

\* an assignment to the key followed by move_to_end
Put(s, key, value, expires_at) ==
    Append(Without(s, key), [key |-> key, value |-> value, expires_at |-> expires_at])

-----------------------------------------------------------------------------
(* The backend's operations *)

Get(key) ==
    /\ store' = IF Live(key) THEN Append(Without(store, key), Entry(store, key))
                ELSE Without(store, key)
    /\ reply' = IF Live(key) THEN [call |-> "get", key |-> key, value |-> Entry(store, key).value]
                ELSE [call |-> "get", key |-> key]
    /\ UNCHANGED <<now, history>>

\* ttl is NoExpiry when the caller passes none
Set(key, value, ttl) ==
    LET expires_at == IF ttl = NoExpiry THEN NoExpiry ELSE now + ttl
        room == IF Holds(store, key) THEN store ELSE EvictIfNeeded(store)
    IN  /\ store' = Put(room, key, value, expires_at)
        /\ reply' = [call |-> "set", key |-> key]
        /\ UNCHANGED <<now, history>>

\* increment never evicts, and an expired key starts over without expiry
Increment(key, delta) ==
    LET value == IF Live(key) THEN Entry(store, key).value + delta ELSE delta
        expires_at == IF Live(key) THEN Entry(store, key).expires_at ELSE NoExpiry
    IN  /\ value <= MaxValue
        /\ store' = Put(store, key, value, expires_at)
        /\ reply' = [call |-> "increment", key |-> key, value |-> value]
        /\ UNCHANGED <<now, history>>

\* Mutant: every increment renews the expiry.
IncrementedRenewed(key, delta, ttl) ==
    LET room == IF Holds(store, key) THEN store ELSE EvictIfNeeded(store)
        value == IF Live(key) THEN Entry(store, key).value + delta ELSE delta
    IN  [value |-> value, store |-> Put(room, key, value, now + ttl)]

\* increment_with_ttl: the value it returns and the store it leaves
Incremented(key, delta, ttl) ==
    LET room == IF Holds(store, key) THEN store ELSE EvictIfNeeded(store)
        value == IF Live(key) THEN Entry(store, key).value + delta ELSE delta
        expires_at == IF Live(key) THEN Entry(store, key).expires_at ELSE now + ttl
    IN  [value |-> value, store |-> Put(room, key, value, expires_at)]

IncrementWithTtl(key, delta, ttl) ==
    LET r == Incremented(key, delta, ttl)
    IN  /\ r.value <= MaxValue
        /\ store' = r.store
        /\ reply' = [call |-> "increment_with_ttl", key |-> key, value |-> r.value]
        /\ UNCHANGED <<now, history>>

Delete(key) ==
    /\ store' = Without(store, key)
    /\ reply' = [call |-> "delete", key |-> key]
    /\ UNCHANGED <<now, history>>

Clear ==
    /\ store' = <<>>
    /\ reply' = [call |-> "clear"]
    /\ ends' = [k \in LimiterKeys |-> 0]
    /\ counted' = [k \in LimiterKeys |-> 0]
    /\ UNCHANGED now

-----------------------------------------------------------------------------
(* The limiter *)

Check(key) ==
    LET r == Incremented(key, 1, Window)
    IN  /\ r.value <= MaxValue
        /\ store' = r.store
        /\ reply' = [call |-> "check", key |-> key, value |-> r.value,
                     allowed |-> r.value <= MaxRequests]
        /\ ends' = [ends EXCEPT ![key] = IF now < @ THEN @ ELSE now + Window]
        /\ counted' = [counted EXCEPT ![key] = IF now < ends[key] THEN @ + 1 ELSE 1]
        /\ counted'[key] <= MaxValue
        /\ UNCHANGED now

Reset(key) ==
    /\ store' = Without(store, key)
    /\ reply' = [call |-> "reset", key |-> key]
    /\ ends' = [ends EXCEPT ![key] = 0]
    /\ counted' = [counted EXCEPT ![key] = 0]
    /\ UNCHANGED now

Tick ==
    /\ now < MaxNow
    /\ now' = now + 1
    /\ reply' = [call |-> "none"]
    /\ UNCHANGED <<store, history>>

Init ==
    /\ now = 0
    /\ store = <<>>
    /\ reply = [call |-> "none"]
    /\ ends = [k \in LimiterKeys |-> 0]
    /\ counted = [k \in LimiterKeys |-> 0]

Limiter == \E k \in LimiterKeys : Check(k) \/ Reset(k)

Application ==
    \E k \in AppKeys :
        \/ Get(k)
        \/ \E ttl \in TTLs \cup {NoExpiry} : Set(k, 1, ttl)
        \/ Increment(k, 1)
        \/ \E ttl \in TTLs : IncrementWithTtl(k, 1, ttl)
        \/ Delete(k)

Next == Limiter \/ Application \/ Clear \/ Tick

Spec == Init /\ [][Next]_vars

-----------------------------------------------------------------------------
(* Properties *)

EntryType == [key : Keys, value : Nat, expires_at : Nat \cup {NoExpiry}]

OneEntryPerKey(s) == \A i, j \in DOMAIN s : s[i].key = s[j].key => i = j

\* Type invariant; a key has at most one entry.
TypeOK ==
    /\ now \in Nat
    /\ store \in Seq(EntryType)
    /\ OneEntryPerKey(store)
    /\ ends \in [LimiterKeys -> Nat]
    /\ counted \in [LimiterKeys -> Nat]

\* "In-memory state backend with bounded capacity" (backends.py:152): however
\* applications and the limiter mix their calls, the store never outgrows max_keys.
BoundedCapacity == Len(store) <= MaxKeys

\* "subsequent requests increment the same counter without changing its expiry"
\* (docs/guides/rate-limiting.md:4): check decides on exactly the requests that
\* were counted since the first request of the window, expired entries that were
\* not purged yet and calls of other users of the store notwithstanding.
CountsEveryRequest ==
    reply.call = "check" =>
        /\ reply.value = counted[reply.key]
        /\ Entry(store, reply.key).expires_at = ends[reply.key]

\* The limiter's entries, an expired one read as none, are the windows that
\* FixedWindow promises.
OpenWindow(k) ==
    IF Live(k) THEN [ends |-> Entry(store, k).expires_at, count |-> Entry(store, k).value]
    ELSE [ends |-> 0, count |-> 0]

Promise == INSTANCE FixedWindow WITH Keys <- LimiterKeys,
                                     open <- [k \in LimiterKeys |-> OpenWindow(k)]

\* With room for every key the backend implements the fixed window: no step moves
\* the end of a running window or loses one of its requests.
ImplementsFixedWindow == Promise!Spec

-----------------------------------------------------------------------------
(* The store as a dictionary: what the list operations do to lookups *)

\* Looking k up in t gives what it gives in s.
Same(s, t, k) ==
    /\ Holds(t, k) <=> Holds(s, k)
    /\ Holds(s, k) => Entry(t, k) = Entry(s, k)

LEMMA Found ==
    ASSUME NEW s, OneEntryPerKey(s), NEW i \in DOMAIN s
    PROVE  Holds(s, s[i].key) /\ Entry(s, s[i].key) = s[i]
<1>1. Holds(s, s[i].key)
  BY DEF Holds
<1>2. Position(s, s[i].key) \in DOMAIN s /\ s[Position(s, s[i].key)].key = s[i].key
  BY <1>1 DEF Holds, Position
<1>3. Position(s, s[i].key) = i
  BY <1>2 DEF OneEntryPerKey
<1> QED
  BY <1>1, <1>3 DEF Entry

LEMMA Removed ==
    ASSUME NEW s \in Seq(EntryType), NEW i \in DOMAIN s
    PROVE  /\ RemoveAt(s, i) \in Seq(EntryType)
           /\ Len(RemoveAt(s, i)) = Len(s) - 1
           /\ \A j \in 1 .. Len(s) - 1 : RemoveAt(s, i)[j] = IF j < i THEN s[j] ELSE s[j + 1]
<1> DEFINE front == SubSeq(s, 1, i - 1)
           back == SubSeq(s, i + 1, Len(s))
<1>1. Len(s) \in Nat /\ i \in 1 .. Len(s) /\ \A j \in 1 .. Len(s) : s[j] \in EntryType
  OBVIOUS
<1>2. /\ front \in Seq(EntryType) /\ Len(front) = i - 1
      /\ \A j \in 1 .. i - 1 : front[j] = s[j]
  <2>1. \A j \in 1 .. i - 1 : s[j] \in EntryType
    BY <1>1
  <2> QED
    BY <1>1, <2>1, SubSeqProperties
<1>3. /\ back \in Seq(EntryType) /\ Len(back) = Len(s) - i
      /\ \A j \in 1 .. Len(s) - i : back[j] = s[i + j]
  <2>1. \A j \in i + 1 .. Len(s) : s[j] \in EntryType
    BY <1>1
  <2> QED
    BY <1>1, <2>1, SubSeqProperties
<1>4. RemoveAt(s, i) = front \o back
  BY DEF RemoveAt
<1> HIDE DEF front, back
<1>5. /\ front \o back \in Seq(EntryType)
      /\ Len(front \o back) = Len(front) + Len(back)
      /\ \A j \in 1 .. Len(front) + Len(back) :
           (front \o back)[j] = IF j <= Len(front) THEN front[j] ELSE back[j - Len(front)]
  BY <1>2, <1>3, ConcatProperties
<1>6. ASSUME NEW j \in 1 .. Len(s) - 1
      PROVE  (front \o back)[j] = IF j < i THEN s[j] ELSE s[j + 1]
  <2>1. (front \o back)[j] = IF j <= i - 1 THEN front[j] ELSE back[j - (i - 1)]
    <3>1. Len(front) + Len(back) = Len(s) - 1
      BY <1>1, <1>2, <1>3
    <3>2. \A m \in 1 .. Len(s) - 1 :
            (front \o back)[m] = IF m <= i - 1 THEN front[m] ELSE back[m - (i - 1)]
      BY <3>1, <1>2, <1>5
    <3> QED
      BY <3>2
  <2>2. CASE j < i
    BY <1>1, <1>2, <2>1, <2>2
  <2>3. CASE ~(j < i)
    <3>1. j - (i - 1) \in 1 .. Len(s) - i /\ i + (j - (i - 1)) = j + 1
      BY <1>1, <2>3
    <3> QED
      BY <1>1, <1>3, <2>1, <2>3, <3>1
  <2> QED
    BY <2>2, <2>3
<1>7. Len(front \o back) = Len(s) - 1
  BY <1>1, <1>2, <1>3, <1>5
<1> QED
  BY <1>4, <1>5, <1>6, <1>7

LEMMA WithoutKey ==
    ASSUME NEW s \in Seq(EntryType), OneEntryPerKey(s), NEW key
    PROVE  /\ Without(s, key) \in Seq(EntryType)
           /\ OneEntryPerKey(Without(s, key))
           /\ ~Holds(Without(s, key), key)
           /\ \A k : k # key => Same(s, Without(s, key), k)
<1>1. CASE ~Holds(s, key)
  BY <1>1 DEF Without, Same
<1>2. CASE Holds(s, key)
  <2> DEFINE i == Position(s, key)
             t == RemoveAt(s, i)
  <2>1. i \in DOMAIN s /\ s[i].key = key
    BY <1>2 DEF Holds, Position
  <2>2. Without(s, key) = t
    BY <1>2 DEF Without
  <2> HIDE DEF i
  <2>3. /\ t \in Seq(EntryType) /\ Len(t) = Len(s) - 1
        /\ \A j \in 1 .. Len(s) - 1 : t[j] = IF j < i THEN s[j] ELSE s[j + 1]
    BY <2>1, Removed
  <2>4. Len(s) \in Nat /\ DOMAIN s = 1 .. Len(s) /\ DOMAIN t = 1 .. Len(s) - 1
    BY <2>3
  <2> HIDE DEF t
  <2>5. ASSUME NEW j \in DOMAIN t
        PROVE  \E m \in DOMAIN s : m # i /\ t[j] = s[m] /\ m = IF j < i THEN j ELSE j + 1
    BY <2>1, <2>3, <2>4
  <2>6. ASSUME NEW m \in DOMAIN s, m # i
        PROVE  \E j \in DOMAIN t : t[j] = s[m]
    <3>1. CASE m < i
      BY <2>1, <2>3, <2>4, <3>1
    <3>2. CASE i < m
      <4>1. m - 1 \in DOMAIN t /\ ~(m - 1 < i) /\ (m - 1) + 1 = m
        BY <2>1, <2>4, <3>2
      <4> QED
        BY <2>3, <2>4, <4>1
    <3> QED
      BY <2>1, <2>4, <2>6, <3>1, <3>2
  <2>7. OneEntryPerKey(t)
    <3>1. ASSUME NEW j \in DOMAIN t, NEW h \in DOMAIN t, t[j].key = t[h].key
          PROVE  j = h
      <4>1. PICK m \in DOMAIN s : m # i /\ t[j] = s[m] /\ m = IF j < i THEN j ELSE j + 1
        BY <2>5
      <4>2. PICK n \in DOMAIN s : n # i /\ t[h] = s[n] /\ n = IF h < i THEN h ELSE h + 1
        BY <2>5
      <4>3. m = n
        BY <3>1, <4>1, <4>2 DEF OneEntryPerKey
      <4> QED
        BY <2>1, <2>4, <4>1, <4>2, <4>3
    <3> QED
      BY <3>1 DEF OneEntryPerKey
  <2>8. ~Holds(t, key)
    <3> SUFFICES ASSUME NEW j \in DOMAIN t, t[j].key = key PROVE FALSE
      BY DEF Holds
    <3>1. PICK m \in DOMAIN s : m # i /\ t[j] = s[m]
      BY <2>5
    <3> QED
      BY <2>1, <3>1 DEF OneEntryPerKey
  <2>9. ASSUME NEW k, k # key PROVE Same(s, t, k)
    <3>1. ASSUME Holds(s, k) PROVE Holds(t, k) /\ Entry(t, k) = Entry(s, k)
      <4>1. PICK m \in DOMAIN s : s[m].key = k
        BY <3>1 DEF Holds
      <4>2. m # i
        BY <2>1, <2>9, <4>1
      <4>3. PICK j \in DOMAIN t : t[j] = s[m]
        BY <2>6, <4>2
      <4>4. Entry(s, k) = s[m]
        BY <4>1, Found
      <4>5. Holds(t, k) /\ Entry(t, k) = t[j]
        BY <2>7, <4>1, <4>3, Found
      <4> QED
        BY <4>3, <4>4, <4>5
    <3>2. ASSUME Holds(t, k) PROVE Holds(s, k)
      BY <2>5, <3>2 DEF Holds
    <3> QED
      BY <3>1, <3>2 DEF Same
  <2> QED
    BY <2>2, <2>3, <2>7, <2>8, <2>9
<1> QED
  BY <1>1, <1>2

LEMMA AppendedEntry ==
    ASSUME NEW s \in Seq(EntryType), OneEntryPerKey(s), NEW e \in EntryType, ~Holds(s, e.key)
    PROVE  /\ Append(s, e) \in Seq(EntryType)
           /\ OneEntryPerKey(Append(s, e))
           /\ Holds(Append(s, e), e.key) /\ Entry(Append(s, e), e.key) = e
           /\ \A k : k # e.key => Same(s, Append(s, e), k)
<1> DEFINE t == Append(s, e)
           n == Len(s) + 1
<1>1. /\ t \in Seq(EntryType) /\ DOMAIN t = DOMAIN s \cup {n}
      /\ n \notin DOMAIN s /\ t[n] = e /\ \A i \in DOMAIN s : t[i] = s[i]
  OBVIOUS
<1> HIDE DEF t, n
<1>2. \A i \in DOMAIN s : s[i].key # e.key
  BY DEF Holds
<1>3. OneEntryPerKey(t)
  BY <1>1, <1>2 DEF OneEntryPerKey
<1>4. Holds(t, e.key) /\ Entry(t, e.key) = e
  BY <1>1, <1>3, Found
<1>5. ASSUME NEW k, k # e.key PROVE Same(s, t, k)
  <2>1. ASSUME Holds(s, k) PROVE Holds(t, k) /\ Entry(t, k) = Entry(s, k)
    <3>1. PICK m \in DOMAIN s : s[m].key = k
      BY <2>1 DEF Holds
    <3>2. Entry(s, k) = s[m]
      BY <3>1, Found
    <3>3. Holds(t, k) /\ Entry(t, k) = t[m]
      BY <1>1, <1>3, <3>1, Found
    <3> QED
      BY <1>1, <3>2, <3>3
  <2>2. ASSUME Holds(t, k) PROVE Holds(s, k)
    BY <1>1, <1>5, <2>2 DEF Holds
  <2> QED
    BY <2>1, <2>2 DEF Same
<1> QED
  BY <1>1, <1>3, <1>4, <1>5 DEF t

LEMMA PutKey ==
    ASSUME NEW s \in Seq(EntryType), OneEntryPerKey(s),
           NEW key \in Keys, NEW value \in Nat, NEW expires_at \in Nat \cup {NoExpiry}
    PROVE  LET t == Put(s, key, value, expires_at)
           IN  /\ t \in Seq(EntryType)
               /\ OneEntryPerKey(t)
               /\ Holds(t, key)
               /\ Entry(t, key) = [key |-> key, value |-> value, expires_at |-> expires_at]
               /\ \A k : k # key => Same(s, t, k)
<1> DEFINE e == [key |-> key, value |-> value, expires_at |-> expires_at]
           rest == Without(s, key)
<1>1. e \in EntryType /\ e.key = key
  BY DEF EntryType
<1>2. /\ rest \in Seq(EntryType) /\ OneEntryPerKey(rest) /\ ~Holds(rest, key)
      /\ \A k : k # key => Same(s, rest, k)
  BY WithoutKey
<1>3. Put(s, key, value, expires_at) = Append(rest, e)
  BY DEF Put
<1> HIDE DEF e, rest
<1>4. /\ Append(rest, e) \in Seq(EntryType)
      /\ OneEntryPerKey(Append(rest, e))
      /\ Holds(Append(rest, e), key) /\ Entry(Append(rest, e), key) = e
      /\ \A k : k # key => Same(rest, Append(rest, e), k)
  BY <1>1, <1>2, AppendedEntry
<1> QED
  BY <1>2, <1>3, <1>4 DEF Same, e

-----------------------------------------------------------------------------
(* The limiter implements FixedWindow where the store has room for every    *)
(* key.  Without room an eviction drops a running window, which the run     *)
(* memory_capacity and the README discuss; the rest is what the backend and *)
(* the limiter require of their parameters.                                 *)

RoomForAll ==
    /\ IsFiniteSet(Keys) /\ LimiterKeys \cap AppKeys = {}
    /\ MaxKeys \in Nat /\ Cardinality(Keys) <= MaxKeys
    /\ Window \in Nat /\ Window >= 1
    /\ TTLs \subseteq Nat

\* An entry of the limiter expires, and is live exactly while its window runs.
WindowsExact ==
    \A k \in LimiterKeys :
        /\ Holds(store, k) => Entry(store, k).expires_at # NoExpiry
        /\ IF now < ends[k]
           THEN /\ Live(k)
                /\ Entry(store, k).expires_at = ends[k]
                /\ Entry(store, k).value = counted[k]
           ELSE ~Live(k)

IInv == TypeOK /\ WindowsExact /\ CountsEveryRequest

LEMMA EntryTyped ==
    ASSUME NEW s \in Seq(EntryType), NEW k, Holds(s, k)
    PROVE  Entry(s, k) \in EntryType
<1>1. Position(s, k) \in DOMAIN s
  BY DEF Holds, Position
<1> QED
  BY <1>1 DEF Entry

\* With room for a key that has no entry nothing is evicted: the keys of the entries are
\* distinct, and one more is left.
LEMMA NothingEvicted ==
    ASSUME RoomForAll, NEW s \in Seq(EntryType), OneEntryPerKey(s), NEW key \in Keys, ~Holds(s, key)
    PROVE  EvictIfNeeded(s) = s
<1> DEFINE T == Keys \ {key}
           f == [i \in 1 .. Len(s) |-> s[i].key]
<1>1. Len(s) \in Nat /\ DOMAIN s = 1 .. Len(s) /\ \A i \in 1 .. Len(s) : s[i] \in EntryType
  OBVIOUS
<1>2. \A i \in 1 .. Len(s) : s[i].key \in T
  BY <1>1 DEF EntryType, Holds
<1>3. \A i, j \in 1 .. Len(s) : s[i].key = s[j].key => i = j
  BY <1>1 DEF OneEntryPerKey
<1>4. f \in Injection(1 .. Len(s), T)
  BY <1>2, <1>3 DEF Injection, IsInjective
<1>5. IsFiniteSet(T) /\ Cardinality(T) = Cardinality(Keys) - 1
  BY FS_RemoveElement DEF RoomForAll
<1> HIDE DEF f, T
<1>6. Cardinality(1 .. Len(s)) <= Cardinality(T)
  BY <1>4, <1>5, FS_Injection
<1>7. Cardinality(1 .. Len(s)) = Len(s)
  <2>1. ASSUME NEW n \in Nat PROVE Cardinality(1 .. n) = n
    BY FS_Interval
  <2> QED
    BY <1>1, <2>1
<1>8. Cardinality(Keys) \in Nat /\ Cardinality(Keys) <= MaxKeys /\ MaxKeys \in Nat
  BY FS_CardinalityType DEF RoomForAll
<1>9. Len(s) < MaxKeys
  BY <1>1, <1>5, <1>6, <1>7, <1>8
<1> QED
  BY <1>9 DEF EvictIfNeeded

\* What increment_with_ttl leaves: the counter of the key, and every other entry as it was.
LEMMA IncrementedKey ==
    ASSUME RoomForAll, TypeOK, NEW key \in Keys, NEW ttl \in Nat
    PROVE  LET r == Incremented(key, 1, ttl)
           IN  /\ r.value = IF Live(key) THEN Entry(store, key).value + 1 ELSE 1
               /\ r.store \in Seq(EntryType) /\ OneEntryPerKey(r.store)
               /\ Holds(r.store, key)
               /\ Entry(r.store, key).value = r.value
               /\ Entry(r.store, key).expires_at
                    = IF Live(key) THEN Entry(store, key).expires_at ELSE now + ttl
               /\ \A k : k # key => Same(store, r.store, k)
<1> DEFINE value == IF Live(key) THEN Entry(store, key).value + 1 ELSE 1
           expires_at == IF Live(key) THEN Entry(store, key).expires_at ELSE now + ttl
           r == Incremented(key, 1, ttl)
<1>1. store \in Seq(EntryType) /\ OneEntryPerKey(store) /\ now \in Nat
  BY DEF TypeOK
<1>2. (IF Holds(store, key) THEN store ELSE EvictIfNeeded(store)) = store
  BY <1>1, NothingEvicted
<1>3. r.value = value /\ r.store = Put(store, key, value, expires_at)
  BY <1>2 DEF Incremented
<1>4. value \in Nat /\ expires_at \in Nat \cup {NoExpiry}
  <2>1. CASE Live(key)
    <3>1. Entry(store, key) \in EntryType
      BY <1>1, <2>1, EntryTyped DEF Live
    <3> QED
      BY <2>1, <3>1 DEF EntryType
  <2>2. CASE ~Live(key)
    BY <1>1, <2>2
  <2> QED
    BY <2>1, <2>2
<1> HIDE DEF value, expires_at, r
<1> DEFINE t == Put(store, key, value, expires_at)
<1>5. /\ t \in Seq(EntryType)
      /\ OneEntryPerKey(t)
      /\ Holds(t, key)
      /\ Entry(t, key) = [key |-> key, value |-> value, expires_at |-> expires_at]
      /\ \A k : k # key => Same(store, t, k)
  BY <1>1, <1>4, PutKey
<1> HIDE DEF t
<1>6. Entry(t, key).value = value /\ Entry(t, key).expires_at = expires_at
  BY <1>5
<1>7. r.value = value /\ r.store = t
  BY <1>3 DEF t
<1> QED
  BY <1>5, <1>6, <1>7 DEF r, value, expires_at

\* A call of an application changes no entry of the limiter.
LEMMA ApplicationStep ==
    ASSUME RoomForAll, IInv, Application
    PROVE  /\ store' \in Seq(EntryType) /\ OneEntryPerKey(store')
           /\ \A k \in LimiterKeys : Same(store, store', k)
           /\ reply'.call # "check"
           /\ UNCHANGED <<now, ends, counted>>
<1> USE DEF history
<1>1. PICK a \in AppKeys : \/ Get(a)
                           \/ \E ttl \in TTLs \cup {NoExpiry} : Set(a, 1, ttl)
                           \/ Increment(a, 1)
                           \/ \E ttl \in TTLs : IncrementWithTtl(a, 1, ttl)
                           \/ Delete(a)
  BY DEF Application
<1>2. a \in Keys /\ (\A k \in LimiterKeys : k # a) /\ TypeOK
  BY DEF Keys, RoomForAll, IInv
<1>3. store \in Seq(EntryType) /\ OneEntryPerKey(store) /\ now \in Nat
  BY <1>2 DEF TypeOK
<1>4. /\ Without(store, a) \in Seq(EntryType) /\ OneEntryPerKey(Without(store, a))
      /\ ~Holds(Without(store, a), a)
      /\ \A k : k # a => Same(store, Without(store, a), k)
  BY <1>3, WithoutKey
<1>5. CASE Get(a)
  <2>1. CASE Live(a)
    <3>1. Entry(store, a) \in EntryType /\ Entry(store, a).key = a
      <4>1. Position(store, a) \in DOMAIN store /\ store[Position(store, a)].key = a
        BY <2>1 DEF Live, Holds, Position
      <4> QED
        BY <1>3, <4>1 DEF Entry
    <3>2. store' = Append(Without(store, a), Entry(store, a))
      BY <1>5, <2>1 DEF Get
    <3>3. /\ store' \in Seq(EntryType) /\ OneEntryPerKey(store')
          /\ \A k : k # a => Same(Without(store, a), store', k)
      BY <1>4, <3>1, <3>2, AppendedEntry
    <3> QED
      BY <1>2, <1>4, <1>5, <3>3 DEF Get, Same
  <2>2. CASE ~Live(a)
    BY <1>2, <1>4, <1>5, <2>2 DEF Get
  <2> QED
    BY <2>1, <2>2
<1>6. ASSUME NEW ttl \in TTLs \cup {NoExpiry}, Set(a, 1, ttl)
      PROVE  /\ store' \in Seq(EntryType) /\ OneEntryPerKey(store')
             /\ \A k \in LimiterKeys : Same(store, store', k)
             /\ reply'.call # "check"
             /\ UNCHANGED <<now, ends, counted>>
  <2> DEFINE expires_at == IF ttl = NoExpiry THEN NoExpiry ELSE now + ttl
  <2>1. expires_at \in Nat \cup {NoExpiry}
    BY <1>3 DEF RoomForAll
  <2>2. (IF Holds(store, a) THEN store ELSE EvictIfNeeded(store)) = store
    BY <1>2, <1>3, NothingEvicted
  <2>3. store' = Put(store, a, 1, expires_at) /\ reply'.call = "set" /\ UNCHANGED <<now, ends, counted>>
    BY <1>6, <2>2 DEF Set
  <2> HIDE DEF expires_at
  <2> QED
    BY <1>2, <1>3, <2>1, <2>3, PutKey
<1>7. CASE Increment(a, 1)
  <2> DEFINE value == IF Live(a) THEN Entry(store, a).value + 1 ELSE 1
             expires_at == IF Live(a) THEN Entry(store, a).expires_at ELSE NoExpiry
  <2>1. value \in Nat /\ expires_at \in Nat \cup {NoExpiry}
    <3>1. CASE Live(a)
      <4>1. Entry(store, a) \in EntryType
        BY <1>3, <3>1, EntryTyped DEF Live
      <4> QED
        BY <3>1, <4>1 DEF EntryType
    <3>2. CASE ~Live(a)
      BY <3>2
    <3> QED
      BY <3>1, <3>2
  <2>2. store' = Put(store, a, value, expires_at) /\ reply'.call = "increment"
        /\ UNCHANGED <<now, ends, counted>>
    BY <1>7 DEF Increment
  <2> HIDE DEF value, expires_at
  <2> QED
    BY <1>2, <1>3, <2>1, <2>2, PutKey
<1>8. ASSUME NEW ttl \in TTLs, IncrementWithTtl(a, 1, ttl)
      PROVE  /\ store' \in Seq(EntryType) /\ OneEntryPerKey(store')
             /\ \A k \in LimiterKeys : Same(store, store', k)
             /\ reply'.call # "check"
             /\ UNCHANGED <<now, ends, counted>>
  <2>1. ttl \in Nat
    BY DEF RoomForAll
  <2>2. store' = Incremented(a, 1, ttl).store /\ reply'.call = "increment_with_ttl"
        /\ UNCHANGED <<now, ends, counted>>
    BY <1>8 DEF IncrementWithTtl
  <2> QED
    BY <1>2, <2>1, <2>2, IncrementedKey
<1>9. CASE Delete(a)
  BY <1>2, <1>4, <1>9 DEF Delete
<1> QED
  BY <1>1, <1>5, <1>6, <1>7, <1>8, <1>9

LEMMA InitIInv == Init => IInv
<1> SUFFICES ASSUME Init PROVE IInv
  OBVIOUS
<1>1. store = <<>> /\ store \in Seq(EntryType) /\ DOMAIN store = {}
  BY EmptySeq DEF Init
<1>2. \A k : ~Holds(store, k)
  BY <1>1 DEF Holds
<1>3. TypeOK
  BY <1>1 DEF Init, TypeOK, OneEntryPerKey
<1>4. WindowsExact
  BY <1>2 DEF Init, WindowsExact, Live
<1>5. CountsEveryRequest
  BY DEF Init, CountsEveryRequest
<1> QED
  BY <1>3, <1>4, <1>5 DEF IInv

\* The windows of the limiter, as FixedWindow sees them.
Windows == [k \in LimiterKeys |-> OpenWindow(k)]

\* A check counts its request in the running window, or starts the next one.
LEMMA CheckStep ==
    ASSUME RoomForAll, IInv, NEW key \in LimiterKeys, Check(key)
    PROVE  IInv' /\ Promise!Count(key)
<1> DEFINE r == Incremented(key, 1, Window)
<1>1. /\ TypeOK /\ WindowsExact /\ now \in Nat /\ Window \in Nat /\ Window >= 1 /\ key \in Keys
      /\ ends \in [LimiterKeys -> Nat] /\ counted \in [LimiterKeys -> Nat]
  BY DEF IInv, TypeOK, RoomForAll, Keys
<1>2. /\ r.value = IF Live(key) THEN Entry(store, key).value + 1 ELSE 1
      /\ r.store \in Seq(EntryType) /\ OneEntryPerKey(r.store)
      /\ Holds(r.store, key)
      /\ Entry(r.store, key).value = r.value
      /\ Entry(r.store, key).expires_at
           = IF Live(key) THEN Entry(store, key).expires_at ELSE now + Window
      /\ \A k : k # key => Same(store, r.store, k)
  BY <1>1, IncrementedKey
<1> HIDE DEF r
<1>3. /\ store' = r.store
      /\ reply' = [call |-> "check", key |-> key, value |-> r.value, allowed |-> r.value <= MaxRequests]
      /\ ends' = [ends EXCEPT ![key] = IF now < @ THEN @ ELSE now + Window]
      /\ counted' = [counted EXCEPT ![key] = IF now < ends[key] THEN @ + 1 ELSE 1]
      /\ UNCHANGED now
  BY DEF Check, r
\* the counter of the key
<1>4. /\ Live(key) <=> now < ends[key]
      /\ Live(key) => Entry(store, key).expires_at = ends[key] /\ Entry(store, key).value = counted[key]
  BY <1>1 DEF WindowsExact
<1>5. /\ ends'[key] = IF now < ends[key] THEN ends[key] ELSE now + Window
      /\ counted'[key] = IF now < ends[key] THEN counted[key] + 1 ELSE 1
      /\ ends'[key] \in Nat /\ counted'[key] \in Nat /\ now < ends'[key]
      /\ \A k \in LimiterKeys : k # key => ends'[k] = ends[k] /\ counted'[k] = counted[k]
  BY <1>1, <1>3
<1>6. /\ Holds(store', key)
      /\ Entry(store', key).expires_at = ends'[key]
      /\ Entry(store', key).value = counted'[key]
      /\ r.value = counted'[key]
  BY <1>2, <1>3, <1>4, <1>5
<1>7. Entry(store', key).expires_at # NoExpiry /\ Live(key)'
  BY <1>1, <1>3, <1>5, <1>6 DEF Live, IsExpired, NoExpiry
\* the others
<1>8. ASSUME NEW k \in LimiterKeys, k # key
      PROVE  /\ Holds(store', k) <=> Holds(store, k)
             /\ Holds(store, k) => Entry(store', k) = Entry(store, k)
             /\ Live(k)' <=> Live(k)
  <2>1. Same(store, store', k)
    BY <1>2, <1>3, <1>8
  <2> QED
    BY <1>3, <2>1 DEF Same, Live, IsExpired
<1>9. TypeOK'
  BY <1>1, <1>2, <1>3, <1>5 DEF TypeOK
<1>10. WindowsExact'
  <2>1. ASSUME NEW k \in LimiterKeys
        PROVE  /\ Holds(store', k) => Entry(store', k).expires_at # NoExpiry
               /\ IF now' < ends'[k]
                  THEN /\ Live(k)'
                       /\ Entry(store', k).expires_at = ends'[k]
                       /\ Entry(store', k).value = counted'[k]
                  ELSE ~Live(k)'
    <3>1. CASE k = key
      BY <3>1, <1>3, <1>5, <1>6, <1>7
    <3>2. CASE k # key
      <4>1. /\ Holds(store, k) => Entry(store, k).expires_at # NoExpiry
            /\ IF now < ends[k]
               THEN Live(k) /\ Entry(store, k).expires_at = ends[k] /\ Entry(store, k).value = counted[k]
               ELSE ~Live(k)
        BY <1>1 DEF WindowsExact
      <4>2. Live(k) => Holds(store, k)
        BY DEF Live
      <4> QED
        BY <3>2, <4>1, <4>2, <1>3, <1>5, <1>8
    <3> QED
      BY <3>1, <3>2
  <2> QED
    BY <2>1 DEF WindowsExact
<1>11. CountsEveryRequest'
  BY <1>3, <1>6 DEF CountsEveryRequest
<1>12. Promise!Count(key)
  <2>1. OpenWindow(key)' = [ends |-> ends'[key], count |-> counted'[key]]
    BY <1>6, <1>7 DEF OpenWindow
  <2>2. \A k \in LimiterKeys : k # key => OpenWindow(k)' = OpenWindow(k)
    BY <1>8 DEF OpenWindow, Live
  <2>3. OpenWindow(key) = IF now < ends[key] THEN [ends |-> ends[key], count |-> counted[key]]
                          ELSE [ends |-> 0, count |-> 0]
    BY <1>4 DEF OpenWindow
  <2>4. Promise!Running(key) <=> now < ends[key]
    BY <1>1, <2>3 DEF Promise!Running
  <2>5. Windows' = [Windows EXCEPT ![key] =
                      IF now < ends[key]
                      THEN [ends |-> Windows[key].ends, count |-> Windows[key].count + 1]
                      ELSE [ends |-> now + Window, count |-> 1]]
    <3>1. Windows' = [k \in LimiterKeys |-> IF k = key THEN [ends |-> ends'[key], count |-> counted'[key]]
                                            ELSE OpenWindow(k)]
      BY <2>1, <2>2 DEF Windows
    <3>2. [ends |-> ends'[key], count |-> counted'[key]]
            = IF now < ends[key]
              THEN [ends |-> OpenWindow(key).ends, count |-> OpenWindow(key).count + 1]
              ELSE [ends |-> now + Window, count |-> 1]
      BY <1>5, <2>3
    <3> QED
      BY <3>1, <3>2 DEF Windows
  <2> QED
    BY <1>3, <2>4, <2>5 DEF Promise!Count, Windows
<1> QED
  BY <1>9, <1>10, <1>11, <1>12 DEF IInv

\* Steps after which the limiter's entries of D are gone and its other entries are as they were.
LEMMA DroppedStep ==
    ASSUME IInv, NEW D \in SUBSET LimiterKeys,
           store' \in Seq(EntryType), OneEntryPerKey(store'),
           \A k \in D : ~Holds(store', k),
           \A k \in LimiterKeys \ D : Same(store, store', k),
           reply'.call # "check",
           now' = now,
           ends' = [k \in LimiterKeys |-> IF k \in D THEN 0 ELSE ends[k]],
           counted' = [k \in LimiterKeys |-> IF k \in D THEN 0 ELSE counted[k]]
    PROVE  IInv' /\ Promise!Drop(D)
<1>1. /\ TypeOK /\ WindowsExact /\ now \in Nat
      /\ ends \in [LimiterKeys -> Nat] /\ counted \in [LimiterKeys -> Nat]
  BY DEF IInv, TypeOK
<1>2. ASSUME NEW k \in LimiterKeys \ D
      PROVE  /\ Holds(store', k) <=> Holds(store, k)
             /\ Holds(store, k) => Entry(store', k) = Entry(store, k)
             /\ Live(k)' <=> Live(k)
  <2>1. Same(store, store', k)
    OBVIOUS
  <2> QED
    BY <2>1 DEF Same, Live, IsExpired
<1>3. \A k \in D : ~Live(k)'
  BY DEF Live
<1>4. TypeOK'
  BY <1>1 DEF TypeOK
<1>5. WindowsExact'
  <2>1. ASSUME NEW k \in LimiterKeys
        PROVE  /\ Holds(store', k) => Entry(store', k).expires_at # NoExpiry
               /\ IF now' < ends'[k]
                  THEN /\ Live(k)'
                       /\ Entry(store', k).expires_at = ends'[k]
                       /\ Entry(store', k).value = counted'[k]
                  ELSE ~Live(k)'
    <3>1. CASE k \in D
      BY <3>1, <1>1, <1>3
    <3>2. CASE k \notin D
      <4>1. /\ Holds(store, k) => Entry(store, k).expires_at # NoExpiry
            /\ IF now < ends[k]
               THEN Live(k) /\ Entry(store, k).expires_at = ends[k] /\ Entry(store, k).value = counted[k]
               ELSE ~Live(k)
        BY <1>1 DEF WindowsExact
      <4>2. Live(k) => Holds(store, k)
        BY DEF Live
      <4>3. ends'[k] = ends[k] /\ counted'[k] = counted[k]
        BY <3>2
      <4> QED
        BY <3>2, <4>1, <4>2, <4>3, <1>2
    <3> QED
      BY <3>1, <3>2
  <2> QED
    BY <2>1 DEF WindowsExact
<1>6. CountsEveryRequest'
  BY DEF CountsEveryRequest
<1>7. Promise!Drop(D)
  <2>1. \A k \in D : OpenWindow(k)' = [ends |-> 0, count |-> 0]
    BY <1>3 DEF OpenWindow
  <2>2. \A k \in LimiterKeys \ D : OpenWindow(k)' = OpenWindow(k)
    BY <1>2 DEF OpenWindow, Live
  <2>3. Windows' = [k \in LimiterKeys |-> IF k \in D THEN [ends |-> 0, count |-> 0] ELSE Windows[k]]
    BY <2>1, <2>2 DEF Windows
  <2> QED
    BY <2>3 DEF Promise!Drop, Promise!Closed, Windows
<1> QED
  BY <1>4, <1>5, <1>6, <1>7 DEF IInv

\* The clock closes the windows that end.
LEMMA TickStep ==
    ASSUME IInv, Tick
    PROVE  IInv' /\ Promise!Pass
<1>1. /\ TypeOK /\ WindowsExact /\ now \in Nat
      /\ ends \in [LimiterKeys -> Nat] /\ counted \in [LimiterKeys -> Nat]
      /\ now' = now + 1 /\ UNCHANGED <<store, ends, counted>> /\ reply'.call # "check"
  BY DEF IInv, TypeOK, Tick, history
<1>2. ASSUME NEW k \in LimiterKeys
      PROVE  Live(k)' <=> now' < ends[k]
  <2>1. /\ Holds(store, k) => Entry(store, k).expires_at # NoExpiry
        /\ now < ends[k] => Live(k) /\ Entry(store, k).expires_at = ends[k]
        /\ Live(k) => now < ends[k]
        /\ ends[k] \in Nat
    BY <1>1 DEF WindowsExact
  <2>2. Holds(store, k) => Entry(store, k).expires_at \in Nat \cup {NoExpiry}
    <3>1. ASSUME Holds(store, k) PROVE Entry(store, k) \in EntryType
      BY <1>1, <3>1, EntryTyped DEF TypeOK
    <3> QED
      BY <3>1 DEF EntryType
  <2>3. CASE now < ends[k]
    BY <1>1, <2>1, <2>2, <2>3 DEF Live, IsExpired
  <2>4. CASE ~(now < ends[k])
    <3>1. ~Live(k) /\ ~(now' < ends[k])
      BY <1>1, <2>1, <2>4
    <3>2. ~Live(k)'
      BY <1>1, <2>1, <2>2, <3>1 DEF Live, IsExpired
    <3> QED
      BY <3>1, <3>2
  <2> QED
    BY <2>3, <2>4
<1>3. TypeOK'
  BY <1>1 DEF TypeOK
<1>4. WindowsExact'
  <2>1. ASSUME NEW k \in LimiterKeys
        PROVE  /\ Holds(store', k) => Entry(store', k).expires_at # NoExpiry
               /\ IF now' < ends'[k]
                  THEN /\ Live(k)'
                       /\ Entry(store', k).expires_at = ends'[k]
                       /\ Entry(store', k).value = counted'[k]
                  ELSE ~Live(k)'
    <3>1. now' < ends[k] => now < ends[k]
      BY <1>1
    <3>2. /\ Holds(store, k) => Entry(store, k).expires_at # NoExpiry
          /\ now < ends[k] => /\ Entry(store, k).expires_at = ends[k]
                              /\ Entry(store, k).value = counted[k]
      BY <1>1 DEF WindowsExact
    <3> QED
      BY <1>1, <1>2, <3>1, <3>2
  <2> QED
    BY <2>1 DEF WindowsExact
<1>5. CountsEveryRequest'
  BY <1>1 DEF CountsEveryRequest
<1>6. Promise!Pass
  <2>1. ASSUME NEW k \in LimiterKeys
        PROVE  OpenWindow(k)' = IF now' < OpenWindow(k).ends THEN OpenWindow(k)
                                ELSE [ends |-> 0, count |-> 0]
    <3>1. /\ IF now < ends[k] THEN Live(k) /\ Entry(store, k).expires_at = ends[k] ELSE ~Live(k)
          /\ ends[k] \in Nat
      BY <1>1 DEF WindowsExact
    <3>2. OpenWindow(k).ends = IF now < ends[k] THEN ends[k] ELSE 0
      BY <3>1 DEF OpenWindow
    <3>3. now' < OpenWindow(k).ends <=> now' < ends[k]
      BY <1>1, <3>1, <3>2
    <3>4. now' < ends[k] => Live(k)
      BY <1>1, <3>1
    <3>5. OpenWindow(k)' = IF Live(k)' THEN [ends |-> Entry(store, k).expires_at, count |-> Entry(store, k).value]
                           ELSE [ends |-> 0, count |-> 0]
      BY <1>1 DEF OpenWindow
    <3> QED
      BY <1>2, <3>3, <3>4, <3>5 DEF OpenWindow
  <2>2. Windows' = [k \in LimiterKeys |-> IF now' < Windows[k].ends THEN Windows[k]
                                          ELSE [ends |-> 0, count |-> 0]]
    BY <2>1 DEF Windows
  <2> QED
    BY <1>1, <2>2 DEF Promise!Pass, Promise!Closed, Windows
<1> QED
  BY <1>3, <1>4, <1>5, <1>6 DEF IInv

LEMMA NextImplements ==
    ASSUME RoomForAll
    PROVE  IInv /\ [Next]_vars => IInv' /\ [Promise!Next]_<<now, Windows>>
<1> SUFFICES ASSUME IInv, [Next]_vars
             PROVE  IInv' /\ [Promise!Next]_<<now, Windows>>
  OBVIOUS
<1> USE DEF history
<1>1. /\ TypeOK /\ store \in Seq(EntryType) /\ OneEntryPerKey(store)
      /\ ends \in [LimiterKeys -> Nat] /\ counted \in [LimiterKeys -> Nat]
  BY DEF IInv, TypeOK
<1>2. ASSUME NEW key \in LimiterKeys, Check(key)
      PROVE  IInv' /\ Promise!Next
  BY <1>2, CheckStep DEF Promise!Next
<1>3. ASSUME NEW key \in LimiterKeys, Reset(key)
      PROVE  IInv' /\ Promise!Next
  <2>1. /\ store' = Without(store, key)
        /\ store' \in Seq(EntryType) /\ OneEntryPerKey(store')
        /\ ~Holds(store', key)
        /\ \A k \in LimiterKeys \ {key} : Same(store, store', k)
    BY <1>1, <1>3, WithoutKey DEF Reset
  <2>2. /\ ends' = [k \in LimiterKeys |-> IF k \in {key} THEN 0 ELSE ends[k]]
        /\ counted' = [k \in LimiterKeys |-> IF k \in {key} THEN 0 ELSE counted[k]]
        /\ now' = now /\ reply'.call # "check"
    BY <1>1, <1>3 DEF Reset
  <2>3. IInv' /\ Promise!Drop({key})
    BY <2>1, <2>2, DroppedStep
  <2> QED
    BY <2>3 DEF Promise!Next
<1>4. CASE Clear
  <2>1. store' = <<>> /\ store' \in Seq(EntryType) /\ DOMAIN store' = {}
    BY <1>4, EmptySeq DEF Clear
  <2>2. OneEntryPerKey(store') /\ \A k : ~Holds(store', k)
    BY <2>1 DEF OneEntryPerKey, Holds
  <2>3. /\ ends' = [k \in LimiterKeys |-> IF k \in LimiterKeys THEN 0 ELSE ends[k]]
        /\ counted' = [k \in LimiterKeys |-> IF k \in LimiterKeys THEN 0 ELSE counted[k]]
        /\ now' = now /\ reply'.call # "check"
    BY <1>4 DEF Clear
  <2>4. IInv' /\ Promise!Drop(LimiterKeys)
    BY <2>1, <2>2, <2>3, DroppedStep
  <2> QED
    BY <2>4 DEF Promise!Next
<1>5. CASE Application
  <2>1. /\ store' \in Seq(EntryType) /\ OneEntryPerKey(store')
        /\ \A k \in LimiterKeys : Same(store, store', k)
        /\ reply'.call # "check"
        /\ UNCHANGED <<now, ends, counted>>
    BY <1>5, ApplicationStep
  <2>2. /\ ends' = [k \in LimiterKeys |-> IF k \in {} THEN 0 ELSE ends[k]]
        /\ counted' = [k \in LimiterKeys |-> IF k \in {} THEN 0 ELSE counted[k]]
    BY <1>1, <2>1
  <2>3. IInv' /\ Promise!Drop({})
    BY <2>1, <2>2, DroppedStep
  <2> QED
    BY <2>3 DEF Promise!Next
<1>6. CASE Tick
  BY <1>6, TickStep DEF Promise!Next
<1>7. CASE UNCHANGED vars
  BY <1>7 DEF vars, IInv, TypeOK, WindowsExact, CountsEveryRequest, Live, IsExpired, Windows, OpenWindow
<1> QED
  BY <1>2, <1>3, <1>4, <1>5, <1>6, <1>7 DEF Next, Limiter

-----------------------------------------------------------------------------
(* Theorems *)

\* Where the store has room for every key the limiter is a fixed window: no call of anybody
\* moves the end of a running window or loses one of its requests.
THEOREM FixedWindowImplemented == ASSUME RoomForAll PROVE Spec => ImplementsFixedWindow
<1>1. Init => Promise!Init
  <2> SUFFICES ASSUME Init PROVE Promise!Init
    OBVIOUS
  <2>1. \A k \in LimiterKeys : ~Live(k)
    BY DEF Init, Live, Holds
  <2>2. Windows = [k \in LimiterKeys |-> [ends |-> 0, count |-> 0]]
    BY <2>1 DEF Windows, OpenWindow
  <2> QED
    BY <2>2 DEF Init, Promise!Init, Promise!Closed, Windows
<1> QED
  BY <1>1, InitIInv, NextImplements, PTL DEF Spec, ImplementsFixedWindow, Promise!Spec, Windows

\* check decides on exactly the requests of the window it is in.
THEOREM RequestsCounted == ASSUME RoomForAll PROVE Spec => []CountsEveryRequest
<1>1. IInv => CountsEveryRequest
  BY DEF IInv
<1> QED
  BY <1>1, InitIInv, NextImplements, PTL DEF Spec
=============================================================================
