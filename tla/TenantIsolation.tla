--------------------------- MODULE TenantIsolation --------------------------
(***************************************************************************)
(* TenantIsolationGuard of src/trustrail/tenant_isolation.py: permits to   *)
(* write, read and batch state that belongs to tenants.                    *)
(*                                                                         *)
(* The guard keeps one thing, the owner who claimed each storage key.  It  *)
(* gives a signed binding with every write, and wants to see the binding   *)
(* stored beside a value before the value is used.  The store is external  *)
(* and may return the wrong value with the wrong binding.  Storage keys    *)
(* are digests: two owners may get the same one, however unlikely.         *)
(***************************************************************************)
EXTENDS Integers, FiniteSets, Sequences

CONSTANTS
    Contexts,         \* signed TenantSecurityContext, of ContextType
    Owners,           \* what is stored, of OwnerType
    StorageKey,       \* storage key of each owner
    Dedicated,        \* kinds whose rule wants a deployment dedicated to the tenant
    Attestations,     \* of AttestationType
    Ttls,             \* lifetimes asked for
    MaxTtl,           \* maximum_ttl_seconds
    MaxPermits,       \* bound: permits
    MaxNow            \* bound: clock

ContextType == [tenant : STRING, kinds : SUBSET STRING, issued_at : Nat, expires_at : Nat]
OwnerType == [tenant : STRING, kind : STRING, artifact : STRING]
AttestationType == [tenant : STRING, kinds : SUBSET STRING, issued_at : Nat, expires_at : Nat]
NoAttestation == [tenant |-> "none", kinds |-> {}, issued_at |-> 0, expires_at |-> 0]

VARIABLES
    now,
    claims,           \* _owners of the claim store: key -> owner
    bindings,         \* external: TenantStateBinding given out
    permits           \* history: permits, in order

vars == <<now, claims, bindings, permits>>

-----------------------------------------------------------------------------
(* What all operations check *)

\* TenantContextVerifier.findings
ContextValid(c, kind) == c.issued_at <= now /\ now < c.expires_at /\ kind \in c.kinds

\* DeploymentAttestationVerifier.findings
AttestationValid(a, kind, tenant) ==
    /\ a.issued_at <= now /\ now < a.expires_at
    /\ kind \in a.kinds
    /\ kind \in Dedicated => a.tenant = tenant

\* _attestation_findings
DeploymentIsolated(a, kind, tenant) ==
    IF a = NoAttestation THEN kind \notin Dedicated ELSE AttestationValid(a, kind, tenant)

-----------------------------------------------------------------------------
(* authorize_state *)

\* claim
Claimable(owner) == StorageKey[owner] \in DOMAIN claims => claims[StorageKey[owner]] = owner

\* a write; the key presented was built for this tenant and artifact
Write(c, owner, a, ttl) ==
    /\ Len(permits) < MaxPermits
    /\ owner.tenant = c.tenant
    /\ ContextValid(c, owner.kind)
    /\ DeploymentIsolated(a, owner.kind, c.tenant)
    /\ ttl > 0 /\ ttl <= MaxTtl
    /\ Claimable(owner)
    /\ claims' = [k \in DOMAIN claims \cup {StorageKey[owner]} |->
                    IF k = StorageKey[owner] THEN owner ELSE claims[k]]
    /\ bindings' = bindings \cup {[owner |-> owner, expires_at |-> now + ttl]}
    /\ permits' = Append(permits, [op |-> "write", owner |-> owner, at |-> now, expires_at |-> now + ttl])
    /\ UNCHANGED now

\* Mutant: it is enough that the value lies under the key.
BindingOfKey(binding, owner) ==
    now < binding.expires_at /\ StorageKey[binding.owner] = StorageKey[owner]

\* _observed_binding_findings
BindingValid(binding, owner) == now < binding.expires_at /\ binding.owner = owner

\* any other operation, with the binding that came with the value
Read(c, owner, a, binding) ==
    /\ Len(permits) < MaxPermits
    /\ owner.tenant = c.tenant
    /\ ContextValid(c, owner.kind)
    /\ DeploymentIsolated(a, owner.kind, c.tenant)
    /\ BindingValid(binding, owner)
    /\ permits' = Append(permits,
        [op |-> "read", owner |-> owner, at |-> now, binding |-> binding])
    /\ UNCHANGED <<now, claims, bindings>>

-----------------------------------------------------------------------------
(* authorize_batch *)

OneTenant(contexts) == \A c, d \in contexts : c.tenant = d.tenant

\* the deployment is checked for the tenant of the first context
Batch(contexts, first, kind, a) ==
    /\ Len(permits) < MaxPermits
    /\ first \in contexts
    /\ \A c \in contexts : ContextValid(c, kind)
    /\ OneTenant(contexts)
    /\ DeploymentIsolated(a, kind, first.tenant)
    /\ permits' = Append(permits, [op |-> "batch", contexts |-> contexts, kind |-> kind, attestation |-> a])
    /\ UNCHANGED <<now, claims, bindings>>

Tick ==
    /\ now < MaxNow
    /\ now' = now + 1
    /\ UNCHANGED <<claims, bindings, permits>>

Init ==
    /\ now = 0
    /\ claims = [k \in {} |-> {}]
    /\ bindings = {}
    /\ permits = <<>>

Next ==
    \/ \E c \in Contexts, owner \in Owners, a \in Attestations \cup {NoAttestation}, ttl \in Ttls :
            Write(c, owner, a, ttl)
    \/ \E c \in Contexts, owner \in Owners, a \in Attestations \cup {NoAttestation},
            binding \in bindings : Read(c, owner, a, binding)
    \/ \E contexts \in SUBSET Contexts, kind \in {o.kind : o \in Owners},
            a \in Attestations \cup {NoAttestation} :
            \E first \in contexts : Batch(contexts, first, kind, a)
    \/ Tick

Spec == Init /\ [][Next]_vars

-----------------------------------------------------------------------------
(* Properties *)

\* Type invariant of the claims and of the bindings given out.
TypeOK ==
    /\ now \in 0..MaxNow
    /\ DOMAIN claims \subseteq {StorageKey[o] : o \in Owners}
    /\ \A k \in DOMAIN claims : claims[k] \in Owners /\ StorageKey[claims[k]] = k
    /\ \A binding \in bindings : binding.owner \in Owners

\* A tenant uses only what was written for it, as the same kind of state, and only while that
\* may be kept, although the store returns whatever it likes.
UsesOwnState ==
    \A i \in DOMAIN permits :
        permits[i].op = "read" =>
            \E j \in 1..(i - 1) :
                /\ permits[j].op = "write"
                /\ permits[j].owner = permits[i].owner
                /\ permits[j].owner = permits[i].binding.owner
                /\ permits[i].at < permits[j].expires_at

\* Where digests collide the first owner keeps the key: nobody is told to overwrite it.
KeysNotShared ==
    \A i, j \in DOMAIN permits :
        /\ permits[i].op = "write" /\ permits[j].op = "write"
        /\ StorageKey[permits[i].owner] = StorageKey[permits[j].owner]
        => permits[i].owner = permits[j].owner

\* All requests of a batch belong to the tenant its deployment is dedicated to.
BatchesDedicated ==
    \A i \in DOMAIN permits :
        permits[i].op = "batch" /\ permits[i].kind \in Dedicated =>
            \A c \in permits[i].contexts : c.tenant = permits[i].attestation.tenant
=============================================================================
