--------------------------- MODULE MCPOnboarding ---------------------------
(***************************************************************************)
(* MCPServerOnboardingGuard of src/trustrail/mcp_onboarding.py: consent    *)
(* to a server and its capabilities, installation permit, connections.     *)
(*                                                                         *)
(* The guard remembers the consent grants that are used up; prompts,       *)
(* grants, permits and sandbox evidence are records the application and    *)
(* its hooks hold.  authorize reads its clock, asks the hooks and then     *)
(* takes the lock; verify_connection changes nothing and is one step.      *)
(* The manifest of a server changes while all this goes on; each of its    *)
(* versions keeps within the inventory or not.  Hooks may refuse anything. *)
(***************************************************************************)
EXTENDS Integers, FiniteSets, Sequences

CONSTANTS
    Threads,
    Manifests,        \* names of the versions of the manifest of a server
    ManifestOf,       \* their contents, by record of ManifestType
    Approved,         \* capabilities the inventory allows
    Evidences,        \* sandbox attestations: manifest, issued_at, expires_at
    ConsentTtl,       \* consent_ttl_seconds of MCPServerOnboardingPolicy
    GrantTtl,         \* external: time a grant may be used
    PermitTtl,        \* permit_ttl_seconds
    MaxPrompts, MaxGrants, MaxPermits, MaxConnections,   \* bounds
    MaxNow            \* bound: clock

\* MCPServerEffectiveCapabilities: filesystem, network, environment and tools together
CapabilitySets == SUBSET STRING

\* known: the inventory knows publisher, source and artifact; launchable: it allows command
\* and transport; local: the command runs here
ManifestType ==
    [capabilities : CapabilitySets, known : BOOLEAN, launchable : BOOLEAN, local : BOOLEAN]

NoEvidence == [manifest |-> "none", issued_at |-> 0, expires_at |-> MaxNow]

VARIABLES
    now,
    prompts,          \* external: consent prompts shown
    grants,           \* external: consent given by the user, in order
    used,             \* _used_consent_refs
    calls,            \* authorize of each thread, before the lock
    permits,          \* external: permits issued, in order
    connections       \* history: connections allowed

vars == <<now, prompts, grants, used, calls, permits, connections>>

\* MCPServerConsentPrompt: the capabilities and the digest of one manifest, valid for a while
PromptType ==
    {prompt \in [manifest : Manifests, issued_at : 0..MaxNow, expires_at : 0..(MaxNow + ConsentTtl)] :
        prompt.expires_at > prompt.issued_at}

\* MCPServerInstallationPermit: bound to a manifest, a grant and the evidence
PermitType ==
    {permit \in [manifest : Manifests, grant : 1..MaxGrants, evidence : Evidences \cup {NoEvidence},
                 issued_at : 0..MaxNow, expires_at : 0..(MaxNow + PermitTtl)] :
        permit.expires_at > permit.issued_at}

Idle == [grant |-> 0]

-----------------------------------------------------------------------------
(* What all operations check *)

\* _identity_findings
IdentityAllowed(m) == ManifestOf[m].known

\* _command_and_transport_findings
CommandAllowed(m) == ManifestOf[m].launchable

\* _capability_findings
CapabilitiesAllowed(m) == ManifestOf[m].capabilities \subseteq Approved

\* _manifest_findings
ManifestAllowed(m) == IdentityAllowed(m) /\ CommandAllowed(m) /\ CapabilitiesAllowed(m)

\* _attestation_findings: a local server needs evidence for exactly this manifest
EvidenceValid(e, m) ==
    IF e = NoEvidence THEN ~ManifestOf[m].local
    ELSE e.manifest = m /\ e.issued_at <= now /\ now <= e.expires_at

-----------------------------------------------------------------------------
(* Consent and permit *)

\* prepare_consent
PrepareConsent(m) ==
    /\ Cardinality(prompts) < MaxPrompts
    /\ ManifestAllowed(m)
    /\ prompts' = prompts \cup
        {[manifest |-> m, issued_at |-> now, expires_at |-> now + ConsentTtl]}
    /\ UNCHANGED <<now, grants, used, calls, permits, connections>>

\* the user answers a prompt, late perhaps
Grant(prompt) ==
    /\ Len(grants) < MaxGrants
    /\ grants' = Append(grants,
        [prompt |-> prompt, approved_at |-> now, expires_at |-> now + GrantTtl])
    /\ UNCHANGED <<now, prompts, used, calls, permits, connections>>

\* _consent_findings: the prompt shows this manifest, is valid, and was answered in time
ConsentValid(grant, m) ==
    /\ grant.prompt.manifest = m
    /\ now <= grant.prompt.expires_at
    /\ grant.approved_at <= grant.prompt.expires_at
    /\ now <= grant.expires_at

\* authorize up to the lock
AuthorizeBegin(t, g, m, e) ==
    /\ calls[t] = Idle
    /\ ManifestAllowed(m)
    /\ ConsentValid(grants[g], m)
    /\ EvidenceValid(e, m)
    /\ calls' = [calls EXCEPT ![t] = [grant |-> g, manifest |-> m, evidence |-> e, clock |-> now]]
    /\ UNCHANGED <<now, prompts, grants, used, permits, connections>>

Fresh(g) == g \notin used

\* authorize from the lock on
AuthorizeEnd(t) ==
    LET call == calls[t]
    IN  /\ call # Idle
        /\ IF Fresh(call.grant)
           THEN /\ Len(permits) < MaxPermits
                /\ used' = used \cup {call.grant}
                /\ permits' = Append(permits,
                    [manifest |-> call.manifest, grant |-> call.grant, evidence |-> call.evidence,
                     issued_at |-> call.clock, expires_at |-> call.clock + PermitTtl])
           ELSE UNCHANGED <<used, permits>>
        /\ calls' = [calls EXCEPT ![t] = Idle]
        /\ UNCHANGED <<now, prompts, grants, connections>>

-----------------------------------------------------------------------------
(* Connections *)

\* _permit_findings
PermitValid(permit, m, e) ==
    /\ permit.manifest = m
    /\ permit.issued_at <= now /\ now <= permit.expires_at
    /\ permit.evidence = e

\* verify_connection
Connect(p, m, e) ==
    /\ Len(connections) < MaxConnections
    /\ ManifestAllowed(m)
    /\ PermitValid(permits[p], m, e)
    /\ EvidenceValid(e, m)
    /\ connections' = Append(connections, [permit |-> p, manifest |-> m, evidence |-> e, at |-> now])
    /\ UNCHANGED <<now, prompts, grants, used, calls, permits>>

Tick ==
    /\ now < MaxNow
    /\ now' = now + 1
    /\ UNCHANGED <<prompts, grants, used, calls, permits, connections>>

Init ==
    /\ now = 0
    /\ prompts = {}
    /\ grants = <<>>
    /\ used = {}
    /\ calls = [t \in Threads |-> Idle]
    /\ permits = <<>>
    /\ connections = <<>>

Next ==
    \/ \E m \in Manifests : PrepareConsent(m)
    \/ \E prompt \in prompts : Grant(prompt)
    \/ \E t \in Threads, g \in DOMAIN grants, m \in Manifests, e \in Evidences \cup {NoEvidence} :
            AuthorizeBegin(t, g, m, e)
    \/ \E t \in Threads : AuthorizeEnd(t)
    \/ \E p \in DOMAIN permits, m \in Manifests, e \in Evidences \cup {NoEvidence} : Connect(p, m, e)
    \/ Tick

Spec == Init /\ [][Next]_vars

-----------------------------------------------------------------------------
(* Properties *)

\* Type invariant of the guard and of the records that are out.
TypeOK ==
    /\ now \in 0..MaxNow
    /\ ManifestOf \in [Manifests -> ManifestType]
    /\ used \subseteq DOMAIN grants
    /\ prompts \subseteq PromptType
    /\ \A g \in DOMAIN grants : grants[g].prompt \in prompts
    /\ \A p \in DOMAIN permits : permits[p] \in PermitType /\ permits[p].grant \in DOMAIN grants
    /\ \A c \in DOMAIN connections : connections[c].permit \in DOMAIN permits

\* The user is asked again for every installation: one answer makes one permit, although the
\* same answer is submitted by two calls at once.
UsedOnce ==
    \A p, q \in DOMAIN permits : p # q => permits[p].grant # permits[q].grant

\* A server connects with no capability but those the user was shown and approved in time,
\* however its manifest has changed since.
ConnectedAsConsented ==
    \A c \in DOMAIN connections :
        LET grant == grants[permits[connections[c].permit].grant]
            connected == ManifestOf[connections[c].manifest]
        IN  /\ connected.capabilities \subseteq ManifestOf[grant.prompt.manifest].capabilities
            /\ grant.approved_at <= grant.prompt.expires_at

\* A local server connects only while its sandbox is attested, by the evidence its permit
\* rests on, though the permit may live longer than the evidence.
ConnectedAttested ==
    \A c \in DOMAIN connections :
        ManifestOf[connections[c].manifest].local =>
            /\ connections[c].evidence = permits[connections[c].permit].evidence
            /\ connections[c].at <= connections[c].evidence.expires_at
=============================================================================
