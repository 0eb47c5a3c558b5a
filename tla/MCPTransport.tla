---------------------------- MODULE MCPTransport ----------------------------
(***************************************************************************)
(* MCPTransportGuard of src/trustrail/mcp_transport.py: which connections  *)
(* may carry messages.                                                     *)
(*                                                                         *)
(* The guard keeps nothing.  It judges what the application observed while *)
(* it connected: two answers of DNS, the address connected to, the peer,   *)
(* forwarding headers, and the versions that were negotiated.  DNS may     *)
(* answer differently every time, whoever is in between may drop versions. *)
(* Endpoint, TLS, host, origin, content, limits and timeouts of a request  *)
(* are proper or not.                                                      *)
(***************************************************************************)
EXTENDS Integers, FiniteSets, Sequences

CONSTANTS
    Addresses,
    Public,           \* addresses _is_public_address finds global
    Proxies,          \* addresses in trusted_proxy_networks
    Versions,         \* protocol versions, ordered
    AllowedVersions,  \* allowed_protocol_versions
    MinVersion,       \* minimum_protocol_version
    MaxAllowed        \* bound: connections

VARIABLES
    answer,           \* external: what DNS answers now
    attempt,          \* external: the connection that is being made
    allowed           \* history: connections authorized

vars == <<answer, attempt, allowed>>
None == [phase |-> "none"]

-----------------------------------------------------------------------------
(* The network *)

\* DNS changes its answer
DnsChanges(addresses) ==
    /\ addresses # {}
    /\ answer' = addresses
    /\ UNCHANGED <<attempt, allowed>>

\* the application resolves the host
Resolve ==
    /\ attempt = None
    /\ Len(allowed) < MaxAllowed
    /\ attempt' = [phase |-> "resolved", resolved |-> answer]
    /\ UNCHANGED <<answer, allowed>>

\* the socket is connected: to an address of its own resolution, directly or by a proxy
ConnectTo(address, peer) ==
    /\ attempt.phase = "resolved"
    /\ address \in answer \cup attempt.resolved
    /\ attempt' = [phase |-> "connected", resolved |-> attempt.resolved,
                   address |-> address, peer |-> peer]
    /\ UNCHANGED <<answer, allowed>>

-----------------------------------------------------------------------------
(* validate_http *)

\* endpoint, TLS, peer identity, host and origin: validate_http itself
EndpointProper(request) == request.endpoint

\* _append_dns_findings: both answers are public, and the address is in both
DnsPinned(request) ==
    /\ request.resolved \cup request.revalidated \subseteq Public
    /\ request.address \in request.resolved
    /\ request.address \in request.revalidated

\* _append_dns_findings and _append_proxy_findings: the peer is the address, or a proxy we trust
PeerExpected(request) ==
    IF request.forwarded THEN request.peer \in Proxies ELSE request.peer = request.address

\* _append_negotiation_findings: the newest version that both sides and the policy know
Negotiated(request) ==
    LET common == request.client \cap request.server \cap AllowedVersions
    IN  /\ request.version \in common
        /\ request.version >= MinVersion
        /\ \A v \in common : v <= request.version

\* _append_resource_findings
WithinLimits(request) == request.bounded

\* DNS is asked again, versions are negotiated, and the request is judged
ValidateHttp(forwarded, client, server, version, endpoint, bounded) ==
    LET request == [resolved |-> attempt.resolved, revalidated |-> answer,
                    address |-> attempt.address, peer |-> attempt.peer, forwarded |-> forwarded,
                    client |-> client, server |-> server, version |-> version,
                    endpoint |-> endpoint, bounded |-> bounded]
    IN  /\ attempt.phase = "connected"
        /\ allowed' = IF /\ EndpointProper(request) /\ DnsPinned(request)
                         /\ PeerExpected(request) /\ Negotiated(request)
                         /\ WithinLimits(request)
                      THEN Append(allowed, request)
                      ELSE allowed
        /\ attempt' = None
        /\ UNCHANGED answer

Init ==
    /\ answer \in SUBSET Addresses \ {{}}
    /\ attempt = None
    /\ allowed = <<>>

Next ==
    \/ \E addresses \in SUBSET Addresses : DnsChanges(addresses)
    \/ Resolve
    \/ \E address \in Addresses, peer \in Addresses \cup Proxies : ConnectTo(address, peer)
    \/ \E forwarded, endpoint, bounded \in BOOLEAN, client, server \in SUBSET Versions,
            version \in Versions :
            ValidateHttp(forwarded, client, server, version, endpoint, bounded)

Spec == Init /\ [][Next]_vars

-----------------------------------------------------------------------------
(* Properties *)

\* Type invariant of the connections.
TypeOK ==
    /\ answer \in SUBSET Addresses
    /\ attempt.phase \in {"none", "resolved", "connected"}
    /\ \A i \in DOMAIN allowed : allowed[i].version \in Versions

\* A host whose name is rebound to an internal address between lookups is not spoken to, not
\* even when the address that was connected to is a public one.
RebindingCaught ==
    \A i \in DOMAIN allowed :
        /\ allowed[i].address \in Public
        /\ allowed[i].resolved \subseteq Public /\ allowed[i].revalidated \subseteq Public
        /\ allowed[i].address \in allowed[i].resolved \cap allowed[i].revalidated

\* The version of a connection is not older than it has to be: neither side is talked into a
\* version below the minimum, nor below one that both of them still offer.
NotDowngraded ==
    \A i \in DOMAIN allowed :
        LET r == allowed[i]
        IN  /\ r.version >= MinVersion
            /\ ~\E v \in (r.client \cap r.server) \ {r.version} :
                    v \in AllowedVersions /\ v > r.version
=============================================================================
