------------------------- MODULE ConnectorAdmission -------------------------
(***************************************************************************)
(* IngestionConnectorSigner and IngestionConnectorGuard of                 *)
(* src/trustrail/ingestion_connector.py: the chain of evidence from the    *)
(* manifest of a connector to a document: manifest, evidence, admission,   *)
(* observed state, authorization, provenance, each of them signed and      *)
(* limited in time.                                                        *)
(*                                                                         *)
(* The host hands in whichever of the signed objects it has, in any        *)
(* combination; the connector that runs may be reconfigured at any time.   *)
(* An object is known by its position: its digest covers every field.  One *)
(* connector; its lineage and what derives from documents are in           *)
(* IngestionConnector.                                                     *)
(***************************************************************************)
EXTENDS Integers, Sequences, FiniteSetsExt

CONSTANTS
    Sources, Parsers, Controls,
    Configurations,    \* effective configurations: records of ConfigurationType
    Documents, Syncs,
    ManifestKeyEnd, EvidenceKeyEnd,    \* expires_at of the trusted keys
    MaxManifestAge, MaxEvidenceAge, AdmissionTtl, AuthorizationTtl, ScheduleSkew, Skew, RequiredControls,
    MaxDocuments,      \* max_documents_per_sync
    ManifestLifetimes, EvidenceLifetimes,
    MaxManifests, MaxEvidence, MaxAdmissions, MaxAuthorizations, MaxNow    \* bounds

VARIABLES
    now,
    running,           \* external: the configuration of the connector as it runs
    observed,          \* the last observation of it
    manifests, evidence, admissions, authorizations,    \* signed, in order
    active,            \* _active and _document_counts: documents accepted, by authorization
    documents,         \* provenance recorded, by document
    quarantined        \* documents quarantined

signed == <<manifests, evidence, admissions, authorizations>>
vars == <<now, running, observed, signed, active, documents, quarantined>>

NoDocument == [sync |-> "none"]

ConfigurationType == [sources : SUBSET Sources, parser : Parsers]
ManifestType ==
    [configuration : Configurations, status : {"active", "revoked", "compromised"},
     issued_at : 0..MaxNow, expires_at : Nat]
EvidenceType ==
    [manifest : DOMAIN manifests, configuration : Configurations, controls : SUBSET Controls,
     owned : SUBSET Sources, issued_at : 0..MaxNow, expires_at : Nat]
AdmissionType ==
    [manifest : DOMAIN manifests, evidence : DOMAIN evidence, issued_at : 0..MaxNow, expires_at : Nat]
StateType == [configuration : Configurations, observed_at : 0..MaxNow]
AuthorizationType ==
    [manifest : DOMAIN manifests, admission : DOMAIN admissions, state : StateType, sync : Syncs,
     sources : SUBSET Sources, parser : Parsers, issued_at : 0..MaxNow, expires_at : Nat]
ProvenanceType ==
    [manifest : DOMAIN manifests, authorization : DOMAIN authorizations, sync : Syncs, source : Sources,
     parser : Parsers, produced_at : 0..MaxNow]

-----------------------------------------------------------------------------
(* Signers, and the connector as it runs *)

SignManifest(configuration, status, lifetime) ==
    /\ Len(manifests) < MaxManifests
    /\ manifests' = Append(manifests, [configuration |-> configuration, status |-> status,
                                       issued_at |-> now, expires_at |-> now + lifetime])
    /\ UNCHANGED <<now, running, observed, evidence, admissions, authorizations, active, documents, quarantined>>

SignEvidence(manifest, configuration, controls, owned, lifetime) ==
    /\ Len(evidence) < MaxEvidence
    /\ evidence' = Append(evidence, [manifest |-> manifest, configuration |-> configuration, controls |-> controls,
                                     owned |-> owned, issued_at |-> now, expires_at |-> now + lifetime])
    /\ UNCHANGED <<now, running, observed, manifests, admissions, authorizations, active, documents, quarantined>>

Observe ==
    /\ observed' = [configuration |-> running, observed_at |-> now]
    /\ UNCHANGED <<now, running, signed, active, documents, quarantined>>

Reconfigure(configuration) ==
    /\ running' = configuration
    /\ UNCHANGED <<now, observed, signed, active, documents, quarantined>>

Tick ==
    /\ now < MaxNow /\ now' = now + 1
    /\ UNCHANGED <<running, observed, signed, active, documents, quarantined>>

-----------------------------------------------------------------------------
(* Findings *)

Disabled(m) == now < ManifestKeyEnd /\ manifests[m].status # "active"

ManifestValid(m) ==
    /\ now < ManifestKeyEnd
    /\ manifests[m].issued_at <= now + Skew
    /\ manifests[m].expires_at >= now - Skew
    /\ now - manifests[m].issued_at <= MaxManifestAge
    /\ manifests[m].status = "active"

SourcesOwned(e, m) == manifests[m].configuration.sources \subseteq evidence[e].owned

EvidenceValid(e, m) ==
    /\ now < EvidenceKeyEnd
    /\ evidence[e].issued_at <= now + Skew
    /\ evidence[e].expires_at >= now - Skew
    /\ now - evidence[e].issued_at <= MaxEvidenceAge
    /\ evidence[e].manifest = m /\ evidence[e].configuration = manifests[m].configuration
    /\ RequiredControls \subseteq evidence[e].controls
    /\ SourcesOwned(e, m)

AdmissionValid(a, m) == admissions[a].manifest = m /\ now <= admissions[a].expires_at

\* _sync_request_findings of a request with the state observed last and the evidence it names
RequestValid(a, m, named, sources, scheduled) ==
    /\ named = admissions[a].evidence
    /\ observed.configuration = manifests[m].configuration
    /\ observed.observed_at <= now + Skew
    /\ now - observed.observed_at <= MaxEvidenceAge
    /\ sources \subseteq manifests[m].configuration.sources
    /\ now - scheduled <= ScheduleSkew /\ scheduled - now <= ScheduleSkew

AuthorizationValid(s, m) == authorizations[s].manifest = m /\ now <= authorizations[s].expires_at

\* _document_findings; bytes, digest and candidates of a document pass or do not
DocumentValid(s, source, parser) ==
    source \in authorizations[s].sources /\ parser = authorizations[s].parser

\* _quarantine: what is recorded of the synchronization, or all of it
Quarantined(sync, m) ==
    quarantined \cup
        {d \in Documents : documents[d] # NoDocument /\ (documents[d].sync = sync \/ Disabled(m))}

-----------------------------------------------------------------------------
(* IngestionConnectorGuard *)

\* Mutant: an admission ends with its manifest.
AdmissionEndUnbound(m, e) == Min({manifests[m].expires_at, now + AdmissionTtl})

AdmissionEnd(m, e) == Min({manifests[m].expires_at, evidence[e].expires_at, now + AdmissionTtl})

\* an admission that would have ended already is refused by its model
Admit(m, e) ==
    /\ IF e # 0 /\ ManifestValid(m) /\ EvidenceValid(e, m)
       THEN /\ AdmissionEnd(m, e) > now
            /\ Len(admissions) < MaxAdmissions
            /\ admissions' = Append(admissions, [manifest |-> m, evidence |-> e, issued_at |-> now,
                                                 expires_at |-> AdmissionEnd(m, e)])
            /\ UNCHANGED quarantined
       ELSE quarantined' = (IF Disabled(m) THEN Quarantined("none", m) ELSE quarantined) /\ UNCHANGED admissions
    /\ UNCHANGED <<now, running, observed, manifests, evidence, authorizations, active, documents>>

AuthorizationEnd(m, a) == Min({manifests[m].expires_at, admissions[a].expires_at, now + AuthorizationTtl})

AuthorizeSync(m, a, named, sync, sources, scheduled) ==
    /\ IF ManifestValid(m) /\ AdmissionValid(a, m) /\ RequestValid(a, m, named, sources, scheduled)
       THEN /\ AuthorizationEnd(m, a) > now
            /\ Len(authorizations) < MaxAuthorizations
            /\ authorizations' = Append(authorizations,
                    [manifest |-> m, admission |-> a, state |-> observed, sync |-> sync, sources |-> sources,
                     parser |-> manifests[m].configuration.parser, issued_at |-> now,
                     expires_at |-> AuthorizationEnd(m, a)])
            /\ active' = Append(active, 0)
            /\ UNCHANGED quarantined
       ELSE quarantined' = Quarantined(sync, m) /\ UNCHANGED <<authorizations, active>>
    /\ UNCHANGED <<now, running, observed, manifests, evidence, admissions, documents>>

Provenance(m, s, source) ==
    [manifest |-> m, authorization |-> s, sync |-> authorizations[s].sync, source |-> source,
     parser |-> authorizations[s].parser, produced_at |-> now]

\* a reference that is bound to other provenance is not recorded, and nothing is quarantined
VerifyDocument(m, s, d, source, parser) ==
    /\ IF /\ ManifestValid(m) /\ AuthorizationValid(s, m)
          /\ active[s] >= 0 /\ active[s] < MaxDocuments
          /\ DocumentValid(s, source, parser)
       THEN /\ documents[d] \in {NoDocument, Provenance(m, s, source)}
            /\ documents' = [documents EXCEPT ![d] = Provenance(m, s, source)]
            /\ active' = [active EXCEPT ![s] = @ + 1]
            /\ UNCHANGED quarantined
       ELSE quarantined' = Quarantined(authorizations[s].sync, m) /\ UNCHANGED <<documents, active>>
    /\ UNCHANGED <<now, running, observed, signed>>

\* complete_sync: what the report counts is what was accepted and what was expected
CompleteSync(m, s, expected, processed, failures) ==
    /\ active' = [active EXCEPT ![s] = -1]
    /\ quarantined' =
        IF /\ ManifestValid(m) /\ AuthorizationValid(s, m) /\ active[s] >= 0
           /\ processed = active[s] /\ expected = processed /\ failures = 0 /\ expected <= MaxDocuments
        THEN quarantined
        ELSE Quarantined(authorizations[s].sync, m)
    /\ UNCHANGED <<now, running, observed, signed, documents>>

\* verify_downstream finds nothing
Usable(m, d) ==
    /\ ManifestValid(m)
    /\ documents[d] # NoDocument /\ d \notin quarantined
    /\ documents[d].manifest = m /\ documents[d].parser = manifests[m].configuration.parser

VerifyDownstream(m, d) ==
    /\ ~Usable(m, d) /\ Disabled(m)
    /\ quarantined' = Quarantined("none", m)
    /\ UNCHANGED <<now, running, observed, signed, active, documents>>

-----------------------------------------------------------------------------
Init ==
    /\ now = 0 /\ running \in Configurations
    /\ observed = [configuration |-> running, observed_at |-> 0]
    /\ manifests = <<>> /\ evidence = <<>> /\ admissions = <<>> /\ authorizations = <<>> /\ active = <<>>
    /\ documents = [d \in Documents |-> NoDocument]
    /\ quarantined = {}

Next ==
    \/ \E c \in Configurations, status \in {"active", "compromised"}, lifetime \in ManifestLifetimes :
        SignManifest(c, status, lifetime)
    \/ \E m \in DOMAIN manifests, c \in Configurations, lifetime \in EvidenceLifetimes,
          controls \in {RequiredControls, {}}, owned \in {k.sources : k \in Configurations} :
        SignEvidence(m, c, controls, owned, lifetime)
    \/ Observe
    \/ \E c \in Configurations : Reconfigure(c)
    \/ \E m \in DOMAIN manifests :
        \/ \E e \in 0..Len(evidence) : Admit(m, e)
        \/ \E a \in DOMAIN admissions, named \in DOMAIN evidence, sync \in Syncs,
              sources \in {k.sources : k \in Configurations}, scheduled \in {now, now + ScheduleSkew + 1} :
            AuthorizeSync(m, a, named, sync, sources, scheduled)
        \/ \E s \in DOMAIN authorizations :
            \/ \E d \in Documents, source \in Sources, parser \in Parsers : VerifyDocument(m, s, d, source, parser)
            \/ \E expected, processed \in 0..MaxDocuments, failures \in 0..1 :
                CompleteSync(m, s, expected, processed, failures)
        \/ \E d \in Documents : VerifyDownstream(m, d)
    \/ Tick

Spec == Init /\ [][Next]_vars

-----------------------------------------------------------------------------
(* Properties *)

\* Type invariant of what was signed, observed and recorded.
TypeOK ==
    /\ Configurations \subseteq ConfigurationType
    /\ running \in Configurations /\ observed \in StateType
    /\ \A m \in DOMAIN manifests : manifests[m] \in ManifestType
    /\ \A e \in DOMAIN evidence : evidence[e] \in EvidenceType
    /\ \A a \in DOMAIN admissions : admissions[a] \in AdmissionType
    /\ \A s \in DOMAIN authorizations : authorizations[s] \in AuthorizationType /\ active[s] \in -1..MaxDocuments
    /\ \A d \in Documents : documents[d] = NoDocument \/ documents[d] \in ProvenanceType
    /\ quarantined \subseteq {d \in Documents : documents[d] # NoDocument}

Recorded == {d \in Documents : documents[d] # NoDocument}
AdmissionOf(d) == admissions[authorizations[documents[d].authorization].admission]
EvidenceOf(d) == evidence[AdmissionOf(d).evidence]

\* Every document that was accepted came from a source that independent evidence says is owned, and
\* through the parser the evidence was given for, with every control that is required, whichever
\* manifests, evidence and admissions the host combined on the way (admit, authorize_sync,
\* verify_document).
DocumentAttested ==
    \A d \in Recorded :
        /\ documents[d].source \in EvidenceOf(d).owned
        /\ documents[d].source \in EvidenceOf(d).configuration.sources
        /\ documents[d].parser = EvidenceOf(d).configuration.parser
        /\ RequiredControls \subseteq EvidenceOf(d).controls

\* An accepted document is no later than the manifest and the evidence behind it, and the connector
\* was seen to run that configuration no longer ago than evidence and an authorization may live.
FreshlyObserved ==
    \A d \in Recorded :
        LET p == documents[d]
            state == authorizations[p.authorization].state
        IN  /\ p.produced_at <= EvidenceOf(d).expires_at /\ p.produced_at <= manifests[p.manifest].expires_at
            /\ state.configuration = manifests[p.manifest].configuration
            /\ p.produced_at - state.observed_at <= MaxEvidenceAge + AuthorizationTtl

=============================================================================
