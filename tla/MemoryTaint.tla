---------------------------- MODULE MemoryTaint ----------------------------
(***************************************************************************)
(* MemoryTaintManager of src/trustrail/memory.py: two-phase writes of      *)
(* derived memories, quarantine and invalidation along their lineage,      *)
(* revalidation, and retrieval.  Every call holds the manager's lock, so   *)
(* it is one action; a call that is denied and changes nothing is no       *)
(* action.  Between authorize_write and commit_write the application       *)
(* stores the bytes, and anything may happen.                              *)
(*                                                                         *)
(* A record digest covers status, version and signals, so a record stands  *)
(* for its own digest.  Identity, tenant, purpose, provenance and split    *)
(* history of a write only refuse it, as does the end of an authorization: *)
(* any write may stay unauthorized and any authorization uncommitted.      *)
(***************************************************************************)
EXTENDS Integers

CONSTANTS
    Memories,
    Write,         \* the proposal for each memory, of WriteType
    Composed,      \* sets of memories whose contents form a split instruction
    Approvals,     \* approval identifiers, each bound to the request of one memory
    MaxVersion     \* bound: revisions of one memory

Signals == {"privileged", "inherited"}

\* parents: dependencies; declared: signals of the proposed record; detected: signals of
\* its content; persistent: signals of its source and scope
WriteType == [parents : SUBSET Memories, declared : SUBSET Signals,
              detected : SUBSET Signals, persistent : SUBSET Signals]

ASSUME TaintAssumption ==
    /\ Write \in [Memories -> WriteType]
    /\ MaxVersion \in Nat \ {0}

VARIABLES
    catalog,       \* _catalog
    pending,       \* _pending and _pending_memory_ids: the reserved record
    used,          \* _used_approval_ids
    late           \* history: memories committed after a dependency had changed

vars == <<catalog, pending, used, late>>

Statuses == {"clean", "reviewed", "quarantined", "invalidated"}
Safe == {"clean", "reviewed"}
Revisions == [status : Statuses, version : 1..MaxVersion, signals : SUBSET Signals]
Absent == [status |-> "absent"]

\* the record of a memory: its revision and the revisions of its parents it depends on
Revision(record) ==
    [status |-> record.status, version |-> record.version, signals |-> record.signals]
Current(m) == IF m \in DOMAIN catalog THEN Revision(catalog[m]) ELSE Absent

-----------------------------------------------------------------------------
(* Lineage *)

\* whatever was derived from something in memories is there too
DerivedClosed(memories) ==
    \A x \in DOMAIN catalog : DOMAIN catalog[x].dependencies \cap memories # {} => x \in memories

\* the loop of _trace over committed dependents: a root and all that derives from it
Affected(m) ==
    {x \in DOMAIN catalog \cup {m} :
        \A memories \in SUBSET (DOMAIN catalog \cup {m}) :
            m \in memories /\ DerivedClosed(memories) => x \in memories}

\* record.transition
Marked(record, status, signals) ==
    [record EXCEPT !.status = status, !.signals = record.signals \cup signals]

\* _transition_affected for each of roots in turn: the root keeps its signals
Transitioned(roots, status) ==
    LET heirs == UNION {Affected(r) \ {r} : r \in roots}
    IN  [m \in DOMAIN catalog |->
            IF m \in heirs THEN Marked(catalog[m], status, {"inherited"})
            ELSE IF m \in roots THEN Marked(catalog[m], status, {})
            ELSE catalog[m]]

\* every direct dependency is there, unchanged and safe
DependenciesSafe(record) ==
    \A p \in DOMAIN record.dependencies :
        Current(p) = record.dependencies[p] /\ Current(p).status \in Safe

-----------------------------------------------------------------------------
(* Writes *)

\* signals a write ends up with, and those of its parents
Found(m) == Write[m].declared \cup Write[m].detected \cup Write[m].persistent
Inherited(m) == UNION {catalog[p].signals : p \in Write[m].parents}

\* no hard failure and no signal that cannot be overridden; the proposal names the
\* revisions its parents have now, an older name is refused
Writable(m) ==
    /\ m \notin DOMAIN catalog \cup DOMAIN pending
    /\ Write[m].parents \subseteq DOMAIN catalog
    /\ Inherited(m) \subseteq Write[m].declared
    /\ "inherited" \notin Found(m) \cup Inherited(m)
    /\ \A p \in Write[m].parents : catalog[p].status \in Safe

\* a dictionary of records with one more entry
Stored(records, m, record) ==
    [x \in DOMAIN records \cup {m} |-> IF x = m THEN record ELSE records[x]]

EffectiveRecord(m, status) ==
    [status |-> status, version |-> 1, signals |-> Found(m),
     dependencies |-> [p \in Write[m].parents |-> Current(p)]]

\* _approval_findings: issued for this request and not used
Approved(m, approval) == approval.memory = m /\ approval \notin used

\* authorize_write: privileged signals need an approval
AuthorizeWrite(m) ==
    /\ Writable(m)
    /\ \/ /\ "privileged" \notin Found(m)
          /\ pending' = Stored(pending, m, EffectiveRecord(m, "clean"))
          /\ UNCHANGED used
       \/ /\ "privileged" \in Found(m)
          /\ \E a \in Approvals : Approved(m, a) /\ used' = used \cup {a}
          /\ pending' = Stored(pending, m, EffectiveRecord(m, "reviewed"))
    /\ UNCHANGED <<catalog, late>>

\* Mutant: a commit keeps the reservation.
Reserved(m) == pending

Unreserved(m) == [x \in DOMAIN pending \ {m} |-> pending[x]]

\* commit_write: the bytes were stored as authorized
CommitWrite(m) ==
    /\ m \in DOMAIN pending
    /\ catalog' = Stored(catalog, m, pending[m])
    /\ pending' = Unreserved(m)
    /\ late' = IF DependenciesSafe(pending[m]) THEN late ELSE late \cup {m}
    /\ UNCHANGED used

\* abandon_write: the approval stays used
AbandonWrite(m) ==
    /\ m \in DOMAIN pending
    /\ pending' = Unreserved(m)
    /\ UNCHANGED <<catalog, used, late>>

-----------------------------------------------------------------------------
(* Retrieval, remediation and revalidation *)

\* _read_record_findings finds nothing
Readable(m) ==
    /\ m \in DOMAIN catalog
    /\ catalog[m].status \in Safe
    /\ DependenciesSafe(catalog[m])

\* authorize_retrieval of ms whose bytes changed for some of them: these are quarantined,
\* and all of ms when the others compose
Tainted(ms, changed) == changed \cup
    IF \E c \in Composed : c \subseteq ms \ changed THEN ms ELSE {}

AuthorizeRetrieval(ms, changed) ==
    /\ Tainted(ms, changed) # {}
    /\ catalog' = Transitioned(Tainted(ms, changed), "quarantined")
    /\ UNCHANGED <<pending, used, late>>

\* quarantine and invalidate: _remediate
Remediate(m, status) ==
    /\ m \in DOMAIN catalog
    /\ catalog' = Transitioned({m}, status)
    /\ UNCHANGED <<pending, used, late>>

\* _revalidation_findings: the content is clean now and all it depends on is safe
Revalidatable(m) ==
    /\ catalog[m].status = "quarantined"
    /\ Write[m].detected = {}
    /\ DependenciesSafe(catalog[m])

\* the next revision, with the signals that stay
Revised(record, signals) ==
    [record EXCEPT !.status = IF signals = {} THEN "clean" ELSE "reviewed",
                   !.version = record.version + 1, !.signals = signals]

\* revalidate: a grant for exactly this revision; a grant is used up by the revision it makes
Revalidate(m) ==
    /\ m \in DOMAIN catalog
    /\ Revalidatable(m)
    /\ catalog[m].version < MaxVersion
    /\ catalog' = [catalog EXCEPT ![m] = Revised(catalog[m], Write[m].persistent)]
    /\ UNCHANGED <<pending, used, late>>

Init ==
    /\ catalog = <<>>
    /\ pending = <<>>
    /\ used = {}
    /\ late = {}

Next ==
    \/ \E m \in Memories : AuthorizeWrite(m) \/ CommitWrite(m) \/ AbandonWrite(m) \/ Revalidate(m)
    \/ \E ms \in SUBSET DOMAIN catalog : \E changed \in SUBSET ms : AuthorizeRetrieval(ms, changed)
    \/ \E m \in Memories, status \in {"quarantined", "invalidated"} : Remediate(m, status)

Spec == Init /\ [][Next]_vars

-----------------------------------------------------------------------------
(* Properties *)

\* Records of a memory, which depend on the parents of its proposal.
Records(m) ==
    [status : Statuses, version : 1..MaxVersion, signals : SUBSET Signals,
     dependencies : [Write[m].parents -> Revisions]]

\* Type invariant of the catalog and the reservations; a memory is never both, and what
\* either depends on has been committed.
TypeOK ==
    /\ DOMAIN catalog \subseteq Memories /\ \A m \in DOMAIN catalog : catalog[m] \in Records(m)
    /\ DOMAIN pending \subseteq Memories /\ \A m \in DOMAIN pending : pending[m] \in Records(m)
    /\ DOMAIN catalog \cap DOMAIN pending = {}
    /\ \A m \in DOMAIN catalog \cup DOMAIN pending : Write[m].parents \subseteq DOMAIN catalog
    /\ used \subseteq Approvals
    /\ late \subseteq DOMAIN catalog

ParentsClosed(memories) ==
    \A x \in memories : DOMAIN catalog[x].dependencies \subseteq memories

\* the loop of _trace over dependencies
Ancestors(m) ==
    {a \in DOMAIN catalog :
        \A memories \in SUBSET DOMAIN catalog :
            m \in memories /\ ParentsClosed(memories) => a \in memories} \ {m}

\* A memory that can be retrieved derives from no quarantined or invalidated memory at any
\* distance, whatever was remediated and revalidated in between, unless its lineage holds
\* a write committed after its parents had changed: retrieval checks direct parents only
\* and relies on _transition_affected to reach the rest.
LineageSafe ==
    \A m \in DOMAIN catalog :
        (Readable(m) /\ ({m} \cup Ancestors(m)) \cap late = {}) =>
            \A a \in Ancestors(m) : catalog[a].status \in Safe
=============================================================================
