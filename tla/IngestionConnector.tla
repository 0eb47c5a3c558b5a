------------------------- MODULE IngestionConnector -------------------------
(***************************************************************************)
(* IngestionConnectorGuard and MemoryConnectorLineageStore of              *)
(* src/trustrail/ingestion_connector.py: synchronizations that bring in    *)
(* documents, artifacts derived from them, and quarantine along lineage.   *)
(*                                                                         *)
(* verify_document and complete_sync hold the guard's lock, the store its  *)
(* own; derived artifacts are registered and quarantines happen between    *)
(* them.  A signed manifest, an admission, a request, a document and a     *)
(* report either pass their checks or not: any of them may fail.  One      *)
(* connector.                                                              *)
(*                                                                         *)
(* Several authorizations may name one synchronization.  What one of them  *)
(* records another may record again when the provenance is the very same,  *)
(* its time included; otherwise nothing is recorded or quarantined.        *)
(***************************************************************************)
EXTENDS Integers, FiniteSets

CONSTANTS
    Syncs,          \* sync_id of requests
    Authorizations, \* authorization_id, a new one each time
    SyncOf,         \* the synchronization each authorization is for
    Documents,
    Derived,        \* derived artifacts
    Upstream,       \* what each of them derives from
    MaxDocuments,   \* max_documents of an authorization
    MaxArtifacts,   \* max_artifacts of the lineage store
    ResultLimit     \* limit of quarantine: artifacts named in its answer

VARIABLES
    active,         \* _active and _document_counts: documents accepted, -1 when not active
    issued,         \* history: authorizations issued
    lineage,        \* _parents: what is recorded
    synced,         \* _sync: the synchronization of each recorded document
    quarantined,    \* _quarantined
    brought,        \* history: the authorizations each document was accepted under
    rejected        \* history: authorizations whose completion was refused

vars == <<active, issued, lineage, synced, quarantined, brought, rejected>>
Artifacts == Documents \cup Derived

-----------------------------------------------------------------------------
(* The lineage store *)

Room(reference) == reference \in lineage \/ Cardinality(lineage) < MaxArtifacts

Children(references) == {x \in lineage \cap Derived : Upstream[x] \cap references # {}}

\* the loop of quarantine: seeds and their recorded descendants
Reached(seeds) ==
    LET affected[n \in 0..Cardinality(Derived)] ==
            IF n = 0 THEN seeds
            ELSE LET found == affected[n - 1] IN found \cup Children(found)
    IN  affected[Cardinality(Derived)]

OfSync(s) == {d \in Documents \cap lineage : synced[d] = s}

\* _quarantine, of one synchronization or of the whole connector when it is disabled
Quarantine(s) ==
    \E seeds \in {OfSync(s), Documents \cap lineage} :
        quarantined' = quarantined \cup Reached(seeds)

-----------------------------------------------------------------------------
(* Synchronization *)

\* authorize_sync: an authorization of its own, whatever became of earlier ones for the same sync_id
AuthorizeSync(a) ==
    /\ a \notin issued
    /\ issued' = issued \cup {a}
    /\ active' = [active EXCEPT ![a] = 0]
    /\ UNCHANGED <<lineage, synced, quarantined, brought, rejected>>

\* authorize_sync, refused; verify_document or complete_sync with an authorization never issued
RefuseSync(s) ==
    /\ Quarantine(s)
    /\ UNCHANGED <<active, issued, lineage, synced, brought, rejected>>

\* verify_document: accepted and recorded; recorded before with the same provenance or not;
\* or refused
VerifyDocument(a, d) ==
    \/ /\ active[a] >= 0 /\ active[a] < MaxDocuments
       /\ d \in lineage => synced[d] = SyncOf[a]
       /\ Room(d)
       /\ lineage' = lineage \cup {d}
       /\ synced' = [synced EXCEPT ![d] = SyncOf[a]]
       /\ brought' = [brought EXCEPT ![d] = @ \cup {a}]
       /\ active' = [active EXCEPT ![a] = @ + 1]
       /\ UNCHANGED <<issued, quarantined, rejected>>
    \/ RefuseSync(SyncOf[a])

\* complete_sync takes the authorization out whatever the report says
Consumed(a, accepted) == [active EXCEPT ![a] = -1]

\* complete_sync: accepted when active, complete and consistent; otherwise quarantined
CompleteSync(a) ==
    /\ a \in issued
    /\ \E accepted \in BOOLEAN :
        /\ accepted => active[a] >= 0
        /\ active' = Consumed(a, accepted)
        /\ IF accepted
           THEN UNCHANGED <<quarantined, rejected>>
           ELSE Quarantine(SyncOf[a]) /\ rejected' = rejected \cup {a}
    /\ UNCHANGED <<issued, lineage, synced, brought>>

\* Mutant: what is registered late stays outside the quarantine.
JoinsNever(x) == {}

\* what derives from something quarantined is quarantined when it is registered
Joins(x) == IF Upstream[x] \cap quarantined # {} THEN {x} ELSE {}

\* register_downstream_artifact: record_artifact, again with the same references or new
RegisterDownstream(x) ==
    /\ Upstream[x] \subseteq lineage
    /\ Room(x)
    /\ lineage' = lineage \cup {x}
    /\ quarantined' = quarantined \cup Joins(x)
    /\ UNCHANGED <<active, issued, synced, brought, rejected>>

\* quarantine_connector
QuarantineConnector ==
    /\ quarantined' = quarantined \cup Reached(Documents \cap lineage)
    /\ UNCHANGED <<active, issued, lineage, synced, brought, rejected>>

\* verify_downstream finds nothing
Usable(d) == d \in lineage \ quarantined

Init ==
    /\ active = [a \in Authorizations |-> -1]
    /\ issued = {}
    /\ lineage = {}
    /\ synced = [d \in Documents |-> "none"]
    /\ quarantined = {}
    /\ brought = [d \in Documents |-> {}]
    /\ rejected = {}

Next ==
    \/ \E a \in Authorizations : AuthorizeSync(a) \/ CompleteSync(a)
    \/ \E a \in Authorizations, d \in Documents : VerifyDocument(a, d)
    \/ \E s \in Syncs : RefuseSync(s)
    \/ \E x \in Derived : RegisterDownstream(x)
    \/ QuarantineConnector

Spec == Init /\ [][Next]_vars

-----------------------------------------------------------------------------
(* Properties *)

\* Type invariant of the guard and the lineage store.
TypeOK ==
    /\ active \in [Authorizations -> -1..MaxDocuments]
    /\ lineage \subseteq Artifacts /\ Cardinality(lineage) <= MaxArtifacts
    /\ synced \in [Documents -> Syncs \cup {"none"}]
    /\ quarantined \subseteq lineage

\* "Partial, failed, inconsistent, or replayed reports quarantine every recorded document
\* and registered descendant" (docs/security/ingestion-connector-security.md): once an
\* authorization ended badly nothing accepted under it is usable, not even what other calls
\* were recording meanwhile or what a later authorization of the same synchronization
\* accepts again.
RejectedSyncUnusable ==
    \A a \in rejected, d \in Documents : a \in brought[d] => ~Usable(d)

\* Nothing that derives from a quarantined artifact is outside the quarantine, in whatever
\* order artifacts were registered and quarantines came, with answers cut at their limit.
QuarantineClosed == \A x \in lineage \cap Derived :
    Upstream[x] \cap quarantined # {} => x \in quarantined
=============================================================================
