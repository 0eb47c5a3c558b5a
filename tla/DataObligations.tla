--------------------------- MODULE DataObligations ---------------------------
(***************************************************************************)
(* The labels of DataLifecycleManager (src/trustrail/data_lifecycle.py):   *)
(* what an artifact may be used for, where, until when, and who may ask    *)
(* for its deletion; what a derived artifact must keep of its sources, and *)
(* what a use or a deletion plan makes of the labels.                      *)
(*                                                                         *)
(* DataLifecycle has these as one set of restrictions and follows          *)
(* deletions through the stores; here all artifacts stay active.  register *)
(* and derive hold the lock; authorize_use and plan_deletion change        *)
(* nothing.  One tenant; digests are current or the call is refused.       *)
(***************************************************************************)
EXTENDS Integers, FiniteSetsExt

CONSTANTS
    Artifacts,
    Sources,            \* sources of each artifact, {} for an original one
    CreatedAt,          \* [Artifacts -> created_at]
    Residency,          \* [Artifacts -> residencies of its copies]
    Labels,             \* labels that are proposed: records of LabelsType
    Purposes, Residencies, TrainingClasses,    \* of the policy
    MaxRetention,       \* retention_rules of the policy, by classification
    MaxArtifacts, MaxSources, MaxDepth,
    Holds, Subjects, Times

VARIABLES records       \* _records, by artifact

vars == <<records>>

Classes == 0..3         \* _CLASSIFICATION_RANK, public to restricted
ConsentRank == [granted |-> 0, denied |-> 1, not_applicable |-> 1, withdrawn |-> 2]
NoRecord == [depth |-> -1]

LabelsType ==
    [classification : Classes, purposes : SUBSET Purposes, residencies : SUBSET Residencies,
     retention : Times, consent : DOMAIN ConsentRank, holds : SUBSET Holds, subjects : SUBSET Subjects]
RecordType == [labels : LabelsType, depth : 0..MaxDepth]

Registered == {a \in Artifacts : records[a] # NoRecord}

-----------------------------------------------------------------------------
(* Findings *)

\* the storage locations of an artifact are where its labels let it be
Located(a, labels) == Residency[a] \subseteq labels.residencies

\* validate_record
WellFormed(a, labels) ==
    /\ Located(a, labels)
    /\ a \notin Sources[a]
    /\ CreatedAt[a] < labels.retention

\* the retention rule of the policy for the classification
WithinRetention(a, labels) ==
    labels.retention - CreatedAt[a] <= MaxRetention[labels.classification]

\* _record_findings
Permitted(a, labels) ==
    /\ labels.purposes \subseteq Purposes /\ labels.residencies \subseteq Residencies
    /\ WithinRetention(a, labels)
    /\ labels.consent = "granted" => labels.classification \in TrainingClasses

CommonPurposes(sources) == {p \in Purposes : \A s \in sources : p \in records[s].labels.purposes}

EarliestRetention(sources) == Min({records[s].labels.retention : s \in sources})

AllSubjects(sources) == UNION {records[s].labels.subjects : s \in sources}

\* _propagation_findings
Preserved(labels, sources) ==
    /\ \A s \in sources :
        /\ records[s].labels.classification <= labels.classification
        /\ labels.residencies \subseteq records[s].labels.residencies
        /\ ConsentRank[records[s].labels.consent] <= ConsentRank[labels.consent]
        /\ records[s].labels.holds \subseteq labels.holds
    /\ labels.purposes \subseteq CommonPurposes(sources)
    /\ labels.retention <= EarliestRetention(sources)
    /\ AllSubjects(sources) \subseteq labels.subjects

-----------------------------------------------------------------------------
(* DataLifecycleManager *)

Enter(a, labels, depth) ==
    /\ a \notin Registered /\ Cardinality(Registered) < MaxArtifacts
    /\ WellFormed(a, labels) /\ Permitted(a, labels)
    /\ records' = [records EXCEPT ![a] = [labels |-> labels, depth |-> depth]]

Register(a, labels) == Sources[a] = {} /\ Enter(a, labels, 0)

Derive(a, labels) ==
    /\ Sources[a] # {} /\ Sources[a] \subseteq Registered
    /\ Cardinality(Sources[a]) <= MaxSources
    /\ Preserved(labels, Sources[a])
    /\ LET depth == Max({records[s].depth : s \in Sources[a]}) + 1
       IN  depth <= MaxDepth /\ Enter(a, labels, depth)

\* authorize_use
Usable(a, purpose, residency, training, at) ==
    LET labels == records[a].labels
    IN  /\ purpose \in labels.purposes /\ residency \in labels.residencies
        /\ at < labels.retention
        /\ training => labels.consent = "granted" /\ labels.classification \in TrainingClasses

\* plan_deletion: the artifacts asked for, those about the subjects, and what derives from them
Selected(artifacts, subjects, cascade) ==
    LET named == artifacts \cup {a \in Registered : records[a].labels.subjects \cap subjects # {}}
        reached[n \in 0..Cardinality(Artifacts)] ==
            IF n = 0 THEN named
            ELSE LET before == reached[n - 1] IN before \cup {a \in Registered : Sources[a] \cap before # {}}
    IN  IF cascade THEN reached[Cardinality(Artifacts)] ELSE named

\* a plan because retention has ended takes nothing that may still be kept
Plannable(selected, expiry, at) ==
    selected # {} /\ (expiry => \A a \in selected : records[a].labels.retention <= at)

Init == records = [a \in Artifacts |-> NoRecord]

Next == \E a \in Artifacts, labels \in Labels : Register(a, labels) \/ Derive(a, labels)

Spec == Init /\ [][Next]_vars

-----------------------------------------------------------------------------
(* Properties *)

\* Type invariant of the records.
TypeOK == Labels \subseteq LabelsType /\ \A a \in Registered : records[a] \in RecordType

Origins(a) ==
    LET reached[n \in 0..Cardinality(Artifacts)] ==
            IF n = 0 THEN {a} ELSE LET before == reached[n - 1] IN before \cup UNION {Sources[x] : x \in before}
    IN  reached[Cardinality(Artifacts)]

\* Whatever may be done with derived data, at whatever time, may be done with every origin it has:
\* derive looks at direct sources, authorize_use at the artifact alone.
UseCoveredByOrigins ==
    \A a \in Registered, p \in Purposes, r \in Residencies, training \in BOOLEAN, at \in Times :
        Usable(a, p, r, training, at) => \A o \in Origins(a) : Usable(o, p, r, training, at)

\* Everything that derives from the data of a person is found by a request of that person, also
\* one that does not ask for derived data (plan_deletion).
SubjectFindsAll ==
    \A a \in Registered, o \in Artifacts :
        o \in Origins(a) => \A x \in records[o].labels.subjects : a \in Selected({}, {x}, FALSE)

\* Data whose retention has ended can be deleted with all that derives from it: nothing in the cascade
\* may be kept longer and so refuse the plan.
ExpiredIsDeletable ==
    \A a \in Registered, at \in Times :
        records[a].labels.retention <= at => Plannable(Selected({a}, {}, TRUE), TRUE, at)

=============================================================================
