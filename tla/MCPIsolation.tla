---------------------------- MODULE MCPIsolation ----------------------------
(***************************************************************************)
(* MCPServerIsolationGateway of src/trustrail/mcp_isolation.py: results of *)
(* tools of one server become inputs of tools of another.                  *)
(*                                                                         *)
(* A call is checked and its inputs mediated without a lock, with hooks    *)
(* that redact inputs and verify the approval; the lock is taken to use    *)
(* the approval up.  Servers stand for their tools, routes, principals and *)
(* credentials, which only refuse a call.  Redactor and verifier are       *)
(* external: the former may return anything, the latter may refuse.        *)
(***************************************************************************)
EXTENDS Integers, FiniteSets, Sequences

CONSTANTS
    Threads,
    Servers,
    Labels,
    Results,         \* MCPToolResultEnvelope, of ResultType
    Requests,        \* MCPGatewayRequest, of RequestType
    Edges,           \* data_flow_edges, of EdgeType; at most one from server to server
    Approvals,       \* MCPDataFlowApproval, of ApprovalType
    Credential,      \* the label of credentials
    MaxCalls         \* bound: calls

ResultType == [id : STRING, source : Servers, labels : SUBSET Labels]
RequestType == [id : STRING, destination : Servers, inputs : SUBSET Results]
EdgeType == [source : Servers, destination : Servers, allowed : SUBSET Labels,
             redact : SUBSET Labels, approval : SUBSET Labels]
ApprovalType == [id : STRING, request : STRING, labels : SUBSET Labels]

VARIABLES
    used,            \* _used_approval_ids
    calls,           \* the call each thread is in
    delivered        \* history: calls authorized, with the inputs as they were delivered

vars == <<used, calls, delivered>>
Idle == [op |-> "idle"]
NoApproval == [id |-> "none", request |-> "none", labels |-> {}]

-----------------------------------------------------------------------------
(* _mediate_input *)

Foreign(result, request) == result.source # request.destination
EdgesFor(result, request) ==
    {e \in Edges : e.source = result.source /\ e.destination = request.destination}

\* an edge that knows all labels of a result that carries no credential
Flows(result, request) ==
    /\ Credential \notin result.labels
    /\ \E e \in EdgesFor(result, request) : result.labels \subseteq e.allowed \cup e.redact \cup e.approval

\* labels an edge wants an approval for
ApprovalLabels(result, request) ==
    UNION {result.labels \cap e.approval : e \in EdgesFor(result, request)}

\* _valid_redaction
ValidRedaction(transformed, e, removed) ==
    /\ transformed.labels \cap removed = {}
    /\ transformed.labels \subseteq e.allowed
    /\ Credential \notin transformed.labels

\* what one input may be delivered as: itself, or what the redactor makes of it
Mediated(result, request) ==
    IF ~Foreign(result, request) THEN {result}
    ELSE UNION {LET removed == result.labels \cap e.redact
                IN  IF removed = {} THEN {result}
                    ELSE {[result EXCEPT !.labels = made] : made \in
                            {kept \in SUBSET Labels :
                                ValidRedaction([result EXCEPT !.labels = kept], e, removed)}}
                : e \in EdgesFor(result, request)}

-----------------------------------------------------------------------------
(* authorize *)

Required(request) ==
    UNION {ApprovalLabels(r, request) : r \in {i \in request.inputs : Foreign(i, request)}}

\* _approval_finding up to the lock: bound to this request and exactly these labels
Approves(approval, request) ==
    approval.request = request.id /\ approval.labels = Required(request)

\* authorize up to the lock; without labels to approve the call is authorized at once
AuthorizeBegin(t, request, approval, inputs) ==
    /\ calls[t] = Idle
    /\ Len(delivered) < MaxCalls
    /\ \A r \in request.inputs : Foreign(r, request) => Flows(r, request)
    /\ inputs \in [request.inputs -> UNION {Mediated(r, request) : r \in request.inputs}]
    /\ \A r \in request.inputs : inputs[r] \in Mediated(r, request)
    /\ IF Required(request) = {}
       THEN /\ delivered' = Append(delivered,
                [request |-> request, inputs |-> inputs, approval |-> NoApproval])
            /\ UNCHANGED calls
       ELSE /\ Approves(approval, request)
            /\ calls' = [calls EXCEPT ![t] =
                [op |-> "approved", request |-> request, inputs |-> inputs, approval |-> approval]]
            /\ UNCHANGED delivered
    /\ UNCHANGED used

Unused(approval) == approval.id \notin used

\* the lock of _approval_finding, and authorize to its end
AuthorizeEnd(t) ==
    /\ calls[t].op = "approved"
    /\ LET call == calls[t]
       IN  IF Unused(call.approval)
           THEN /\ used' = used \cup {call.approval.id}
                /\ delivered' = Append(delivered,
                    [request |-> call.request, inputs |-> call.inputs, approval |-> call.approval])
           ELSE UNCHANGED <<used, delivered>>
    /\ calls' = [calls EXCEPT ![t] = Idle]

Init ==
    /\ used = {}
    /\ calls = [t \in Threads |-> Idle]
    /\ delivered = <<>>

Next ==
    \/ \E t \in Threads, request \in Requests, approval \in Approvals :
        \E inputs \in [request.inputs -> UNION {Mediated(r, request) : r \in request.inputs}] :
            AuthorizeBegin(t, request, approval, inputs)
    \/ \E t \in Threads : AuthorizeEnd(t)

Spec == Init /\ [][Next]_vars

-----------------------------------------------------------------------------
(* Properties *)

\* Type invariant of the gateway.
TypeOK ==
    /\ used \subseteq {approval.id : approval \in Approvals}
    /\ \A t \in Threads : calls[t].op \in {"idle", "approved"}
    /\ \A i \in DOMAIN delivered : delivered[i].request \in Requests

\* An approval serves one call, although the verifier is asked by several at once.
UsedOnce ==
    \A i, j \in DOMAIN delivered :
        i # j /\ delivered[i].approval.id = delivered[j].approval.id
            => delivered[i].approval = NoApproval

\* Whatever the redactor returns and with whatever else it is delivered, data reaches another
\* server with no label but those the edge between them allows, or that the approval of this
\* call names.
NoLabelSlips ==
    \A i \in DOMAIN delivered :
        LET d == delivered[i]
        IN  \A r \in d.request.inputs :
                Foreign(r, d.request) =>
                    \E e \in EdgesFor(r, d.request) :
                        /\ d.inputs[r].labels \subseteq e.allowed \cup (e.approval \cap d.approval.labels)
                        /\ Credential \notin d.inputs[r].labels
=============================================================================
