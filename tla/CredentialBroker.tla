-------------------------- MODULE CredentialBroker --------------------------
(***************************************************************************)
(* CredentialBroker and MemoryCredentialCapabilityStore of                 *)
(* src/trustrail/credentials.py: single-use capabilities that stand for a  *)
(* secret until a connector resolves them, against rotation and revocation *)
(* of the secret.                                                          *)
(*                                                                         *)
(* The broker is used by several threads.  Its lock and the store's lock   *)
(* are never held together, and calls of the verifier, of the vault and of *)
(* the store lie between: issue is four steps, resolve three, revoke and   *)
(* rotate two, and the steps of different calls interleave.  The time of a *)
(* call is read once, at its start.  The vault and the execution verifier  *)
(* belong to the application and are external; a digest or signature is    *)
(* genuine or not.  A call that is blocked before it wrote anything is no  *)
(* step.                                                                   *)
(***************************************************************************)
EXTENDS Integers

CONSTANTS
    Threads,
    References,        \* references the policy binds
    Active,            \* the bindings that are active
    MaximumTtl,        \* maximum_ttl_seconds of the bindings
    Executions,        \* the execution records connectors present
    MaxCapabilities,   \* max_capabilities of the store
    MaxNow,            \* bound: last clock value explored
    MaxVersion,        \* bound: last version the vault commits
    MaxCalls           \* bound: calls of revoke and rotate, by reference

\* scope names the reference an execution is authorized for; verified is the
\* verdict of the execution verifier
ExecutionType ==
    [scope : References, issued_at : Nat, expires_at : Nat, genuine : BOOLEAN, verified : BOOLEAN]

ASSUME BrokerAssumption ==
    /\ Active \subseteq References
    /\ Executions \subseteq ExecutionType
    /\ \A x \in Executions : x.issued_at < x.expires_at
    /\ MaximumTtl \in Nat \ {0} /\ MaxCapabilities \in Nat \ {0}
    /\ MaxNow \in Nat /\ MaxVersion \in Nat /\ MaxCalls \in Nat

VARIABLES
    now,
    versions,      \* _versions
    revoked,       \* _revoked_references
    vault,         \* version the vault holds, by reference
    size,          \* len(_items) of the store; capabilities are numbered as registered
    items,         \* _items: state of each capability
    capabilities,  \* the capability registered under each number
    calls,         \* the call each thread is in
    marks,         \* history: revocations and rotations recorded, by reference
    swept,         \* history: latest of them that went through the store
    consumed,      \* history: value of swept when each capability was consumed
    releases       \* history: how often each capability gave out material

vars == <<now, versions, revoked, vault, size, items, capabilities, calls, marks, swept,
          consumed, releases>>
broker == <<versions, revoked>>
store == <<size, items, capabilities>>
history == <<marks, swept, consumed, releases>>

Ids == 1 .. MaxCapabilities
Idle == [op |-> "idle"]
NoCapability == [op |-> "none"]
IsIdle(t) == calls[t].op = "idle"
Goto(t, call) == calls' = [calls EXCEPT ![t] = call]
Finish(t) == Goto(t, Idle)

-----------------------------------------------------------------------------
(* issue *)

ExecutionCurrent(x) == x.issued_at <= now /\ now < x.expires_at

\* _binding_findings, the execution verifier and the check of the lifetime
MayIssue(r, x, ttl) ==
    /\ r \in Active
    /\ x.scope = r /\ x.genuine /\ x.verified
    /\ ExecutionCurrent(x)
    /\ ttl \in 1 .. MaximumTtl

Smaller(a, b) == IF a <= b THEN a ELSE b

IssueBegin(t, r, x, ttl) ==
    /\ IsIdle(t)
    /\ MayIssue(r, x, ttl)
    /\ Goto(t, [op |-> "read", reference |-> r, execution |-> x, issued_at |-> now,
                expires_at |-> Smaller(now + ttl, x.expires_at)])
    /\ UNCHANGED <<now, broker, vault, store, history>>

\* the version and the revocation are read under the broker's lock
IssueRead(t) ==
    LET r == calls[t].reference
    IN  /\ calls[t].op = "read"
        /\ IF r \in revoked THEN Finish(t)
           ELSE Goto(t, [op |-> "vault",
                         capability |-> [reference |-> r, execution |-> calls[t].execution,
                                         version |-> versions[r],
                                         issued_at |-> calls[t].issued_at,
                                         expires_at |-> calls[t].expires_at,
                                         decided |-> marks[r]]])
        /\ UNCHANGED <<now, broker, vault, store, history>>

\* issue blocks when the vault holds another version or raises
IssueVault(t) ==
    LET c == calls[t].capability
    IN  /\ calls[t].op = "vault"
        /\ \/ /\ vault[c.reference] = c.version
              /\ Goto(t, [op |-> "register", capability |-> c])
           \/ Finish(t)
        /\ UNCHANGED <<now, broker, vault, store, history>>

\* register of the store under a fresh identifier
Registered(c) ==
    /\ size' = size + 1
    /\ items' = [items EXCEPT ![size + 1] = "stored"]
    /\ capabilities' = [capabilities EXCEPT ![size + 1] = c]

\* Nothing ever leaves the store: a full one refuses.  A store that raises is taken
\* for one that refused.
IssueRegister(t) ==
    /\ calls[t].op = "register"
    /\ \/ size < MaxCapabilities /\ Registered(calls[t].capability)
       \/ UNCHANGED store
    /\ Finish(t)
    /\ UNCHANGED <<now, broker, vault, history>>

-----------------------------------------------------------------------------
(* resolve *)

\* Mutant: the revocation is not looked at.
MayResolveRevoked(c, x) ==
    /\ c.execution = x /\ x.genuine /\ x.verified
    /\ c.issued_at <= now /\ now < c.expires_at
    /\ ExecutionCurrent(x)
    /\ versions[c.reference] = c.version

\* _resolution_findings and the execution verifier
MayResolve(c, x) ==
    /\ c.execution = x /\ x.genuine /\ x.verified
    /\ c.issued_at <= now /\ now < c.expires_at
    /\ ExecutionCurrent(x)
    /\ c.reference \notin revoked
    /\ versions[c.reference] = c.version

ResolveBegin(t, id, x) ==
    /\ IsIdle(t)
    /\ MayResolve(capabilities[id], x)
    /\ Goto(t, [op |-> "consume", id |-> id, time |-> now,
                seen |-> marks[capabilities[id].reference]])
    /\ UNCHANGED <<now, broker, vault, store, history>>

Usable(id, time) ==
    items[id] \notin {"revoked", "consumed"} /\ time < capabilities[id].expires_at

\* Mutant: the state of a capability is read and not written.
ConsumedNot(id, time) == items[id]

\* consume of the store: the state the capability is left in
Consumed(id, time) ==
    IF items[id] \in {"revoked", "consumed"} THEN items[id]
    ELSE IF time >= capabilities[id].expires_at THEN "expired"
    ELSE "consumed"

\* Only a capability consumed here goes on to the vault; a store that raises ends
\* the call.
ResolveConsume(t) ==
    LET id == calls[t].id
    IN  /\ calls[t].op = "consume"
        /\ \/ /\ items' = [items EXCEPT ![id] = Consumed(id, calls[t].time)]
              /\ IF Usable(id, calls[t].time)
                 THEN /\ Goto(t, [calls[t] EXCEPT !.op = "release"])
                      /\ consumed' = [consumed EXCEPT ![id] = swept[capabilities[id].reference]]
                 ELSE Finish(t) /\ UNCHANGED consumed
           \/ Finish(t) /\ UNCHANGED <<items, consumed>>
        /\ UNCHANGED <<now, broker, vault, size, capabilities, marks, swept, releases>>

\* The capability is spent whether or not the vault gives out the version it is for.
ResolveVault(t) ==
    LET id == calls[t].id
        c == capabilities[id]
    IN  /\ calls[t].op = "release"
        /\ \/ /\ vault[c.reference] = c.version
              /\ releases' = [releases EXCEPT ![id] = @ + 1]
           \/ UNCHANGED releases
        /\ Finish(t)
        /\ UNCHANGED <<now, broker, vault, store, marks, swept, consumed>>

-----------------------------------------------------------------------------
(* revoke and rotate *)

Marked(t, r) ==
    /\ IsIdle(t)
    /\ marks' = [marks EXCEPT ![r] = @ + 1]
    /\ Goto(t, [op |-> "sweep", reference |-> r, mark |-> marks[r] + 1])
    /\ UNCHANGED <<now, vault, store, swept, consumed, releases>>

RevokeMark(t, r) ==
    /\ Marked(t, r)
    /\ revoked' = revoked \cup {r}
    /\ UNCHANGED versions

RotateMark(t, r, version) ==
    /\ Marked(t, r)
    /\ versions' = [versions EXCEPT ![r] = version]
    /\ revoked' = revoked \ {r}

\* Mutant: outstanding capabilities stay as they are.
SweptNothing(r) == items

\* revoke_reference of the store
Swept(r) ==
    [i \in Ids |->
        IF items[i] = "stored" /\ capabilities[i].reference = r THEN "revoked" ELSE items[i]]

\* a store that raises is taken for one that revoked nothing
Sweep(t) ==
    LET r == calls[t].reference
    IN  /\ calls[t].op = "sweep"
        /\ \/ /\ items' = Swept(r)
              /\ swept' = [swept EXCEPT ![r] = IF @ < calls[t].mark THEN calls[t].mark ELSE @]
           \/ UNCHANGED <<items, swept>>
        /\ Finish(t)
        /\ UNCHANGED <<now, broker, vault, size, capabilities, marks, consumed, releases>>

\* the vault commits a new version
VaultRotate(r) ==
    /\ vault[r] < MaxVersion
    /\ vault' = [vault EXCEPT ![r] = @ + 1]
    /\ UNCHANGED <<now, broker, store, calls, history>>

Tick ==
    /\ now < MaxNow
    /\ now' = now + 1
    /\ UNCHANGED <<broker, vault, store, calls, history>>

Init ==
    /\ now = 0
    /\ versions = [r \in References |-> 1]
    /\ revoked = {}
    /\ vault = [r \in References |-> 1]
    /\ size = 0
    /\ items = [i \in Ids |-> "absent"]
    /\ capabilities = [i \in Ids |-> NoCapability]
    /\ calls = [t \in Threads |-> Idle]
    /\ marks = [r \in References |-> 0]
    /\ swept = [r \in References |-> 0]
    /\ consumed = [i \in Ids |-> 0]
    /\ releases = [i \in Ids |-> 0]

Issue(t) ==
    \/ \E r \in References, x \in Executions, ttl \in 1 .. MaximumTtl : IssueBegin(t, r, x, ttl)
    \/ IssueRead(t)
    \/ IssueVault(t)
    \/ IssueRegister(t)

Resolve(t) ==
    \/ \E id \in 1 .. size, x \in Executions : ResolveBegin(t, id, x)
    \/ ResolveConsume(t)
    \/ ResolveVault(t)

\* "After the external vault has committed a new version, call `rotate()` with that
\* version" (docs/security/credential-brokering.md:179-180): rotate takes any identifier;
\* its callers name a version the broker has not used before.
NewVersions(r) == {version \in 1 .. MaxVersion : versions[r] < version /\ version <= vault[r]}

Administer(t) ==
    \/ \E r \in References : marks[r] < MaxCalls /\ RevokeMark(t, r)
    \/ \E r \in References : \E version \in NewVersions(r) :
         marks[r] < MaxCalls /\ RotateMark(t, r, version)
    \/ Sweep(t)

Next ==
    \/ \E t \in Threads : Issue(t) \/ Resolve(t) \/ Administer(t)
    \/ \E r \in References : VaultRotate(r)
    \/ Tick

Spec == Init /\ [][Next]_vars

-----------------------------------------------------------------------------
(* Properties *)

CapabilityType ==
    [reference : References, execution : Executions, version : Nat, issued_at : Nat,
     expires_at : Nat, decided : Nat]

ReadType ==
    [op : {"read"}, reference : References, execution : Executions, issued_at : Nat,
     expires_at : Nat]
DraftType == [op : {"vault", "register"}, capability : CapabilityType]
ResolveType == [op : {"consume", "release"}, id : Ids, time : Nat, seen : Nat]
SweepType == [op : {"sweep"}, reference : References, mark : Nat]

\* Type invariant; the store stays within max_capabilities, and what it holds are
\* capabilities.
TypeOK ==
    /\ now \in Nat
    /\ versions \in [References -> Nat] /\ vault \in [References -> Nat]
    /\ revoked \subseteq References
    /\ size \in 0 .. MaxCapabilities
    /\ items \in [Ids -> {"absent", "stored", "consumed", "revoked", "expired"}]
    /\ capabilities \in [Ids -> CapabilityType \cup {NoCapability}]
    /\ \A i \in Ids : /\ i <= size => capabilities[i] \in CapabilityType
                      /\ i <= size <=> items[i] # "absent"
    /\ calls \in [Threads -> {Idle} \cup ReadType \cup DraftType \cup ResolveType \cup SweepType]
    /\ \A t \in Threads : calls[t].op \in {"consume", "release"} => calls[t].id <= size
    /\ marks \in [References -> Nat] /\ swept \in [References -> Nat]
    /\ consumed \in [Ids -> Nat] /\ releases \in [Ids -> Nat]

\* "Opaque, short-lived authority to resolve one credential exactly once"
\* (models/credentials.py:252): however many threads present a capability at the
\* same time, and whatever the vault and the store answer, it gives out material
\* at most once.
ReleasedOnce == \A id \in Ids : releases[id] <= 1

\* "Rotation invalidates all outstanding capabilities" (credential-brokering.md:180):
\* once revoke or rotate has gone through the store, no capability decided before the
\* call is consumed for material any more, not even one that was still being
\* registered, or whose resolution was already checked, while the call ran.
NoReleaseAcrossSweep ==
    \A id \in 1 .. size : releases[id] > 0 => consumed[id] <= capabilities[id].decided

\* "A revoked reference cannot issue or resolve capabilities until an explicit rotation
\* activates a new version" (credential-brokering.md:181-183), even when the store
\* raised and nothing was swept: a resolution that starts after revoke or rotate gets
\* nothing for a capability decided before it.
NoResolveAfterMark ==
    \A t \in Threads : calls[t].op = "release" => calls[t].seen <= capabilities[calls[t].id].decided

\* The capability of an issue or of the store that a later revoke or rotate overtook
\* shows it: its version is behind or its reference is revoked.
Outdated(c) ==
    c.decided < marks[c.reference] => c.version < versions[c.reference] \/ c.reference \in revoked

\* What the capability of an issue under way, or of the store, says of its reference.
Sound(c) ==
    /\ c.version <= versions[c.reference]
    /\ c.decided <= marks[c.reference]
    /\ Outdated(c)

\* A call agrees with the broker, with the store and with the other calls.
CallConsistent(t) ==
    /\ calls[t].op = "sweep" => calls[t].mark <= marks[calls[t].reference]
    /\ calls[t].op \in {"vault", "register"} => Sound(calls[t].capability)
    /\ calls[t].op \in {"consume", "release"} =>
         /\ calls[t].seen <= capabilities[calls[t].id].decided
         /\ calls[t].time < capabilities[calls[t].id].expires_at
    /\ calls[t].op = "consume" /\ items[calls[t].id] = "stored" =>
         swept[capabilities[calls[t].id].reference] <= capabilities[calls[t].id].decided
    /\ calls[t].op = "release" =>
         /\ items[calls[t].id] = "consumed"
         /\ releases[calls[t].id] = 0
         /\ consumed[calls[t].id] <= capabilities[calls[t].id].decided
         /\ \A u \in Threads : calls[u].op = "release" /\ calls[u].id = calls[t].id => u = t

\* A capability of the store gave out material only after it was consumed.
ItemConsistent(id) ==
    /\ items[id] # "expired"
    /\ Sound(capabilities[id])
    /\ releases[id] > 0 => items[id] = "consumed"

Consistent ==
    /\ \A r \in References : swept[r] <= marks[r]
    /\ \A t \in Threads : CallConsistent(t)
    /\ \A id \in 1 .. size : ItemConsistent(id)
    /\ \A id \in Ids : id > size => releases[id] = 0

\* the inductive invariant
IInv == TypeOK /\ Consistent /\ ReleasedOnce /\ NoReleaseAcrossSweep
=============================================================================
