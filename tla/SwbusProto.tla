----------------------------- MODULE SwbusProto -----------------------------
(***************************************************************************)
(* The swbus wire types: service paths, the message envelope and the      *)
(* response constructor.  The crate that defines them (swbus-proto) is not *)
(* part of this excerpt; they are written from spec.md sections 3, 4.A,    *)
(* 4.B and 6.                                                              *)
(*                                                                         *)
(* A service path keeps the three parts the core tells apart: the node    *)
(* (region.cluster.node collapsed to one daemon), the service type and the *)
(* instance below it.  An empty service type ("") addresses the daemon     *)
(* itself.                                                                 *)
(***************************************************************************)
EXTENDS Naturals, Sequences

CONSTANTS
    Node,          \* the daemons (one swbusd per node)
    SvcType,       \* service types hosted on a node, e.g. "hamgrd"
    Inst,          \* instance ids below a service type, e.g. actor names
    DefaultTTL     \* SwbusMessageHeader default ttl (63 in the code)

ASSUME DefaultTTL \in Nat \ {0}

ServicePath == [node : Node, svc : SvcType \cup {""}, inst : Inst \cup {""}]

\* The daemon's own service path: service type and id empty.
DaemonSP(n) == [node |-> n, svc |-> "", inst |-> ""]

IsDaemonSP(sp) == sp.svc = ""

\* Message bodies (swbus_message::Body).  "None" is a message whose body
\* field is absent, which the protobuf envelope allows.
Bodies == {"Data", "Ping", "Trace", "Mgmt", "Resp", "None"}

\* ManagementRequestType as decoded by try_from: the one type the daemon
\* serves, a valid type it does not serve, and an integer that is not a
\* ManagementRequestType at all.
MgmtTypes == {"GetRoutes", "OtherType", "Undecodable"}

ErrorCodes == {"Ok", "InvalidArgs", "NoRoute", "Unreachable", "ResourceExhausted"}

\* Message ids are per generator: <<who generated it, counter>>.
\* Ids made by a daemon's generate_message_id are kept as n = 0: no property
\* tells two of them apart, and keeping their counter would make every
\* message loop an infinite state space.
MuxId(d) == <<DaemonSP(d), 0>>
NoId == <<>>    \* request_id of a message that is not a response

Ids == ServicePath \X Nat

Msg == [id : Ids, src : ServicePath, dst : ServicePath,
        ttl : Nat, body : Bodies, mgmt : MgmtTypes \cup {"none"},
        reqId : Ids \cup {NoId},
        code : ErrorCodes \cup {"none"},
        by : ServicePath]    \* ghost: who built the message

IsResponse(m) == m.body = "Resp"

\* SwbusMessage::new with SwbusMessageHeader::new(source, destination, id):
\* the header gets the default ttl.
NewRequest(src, dst, id, body, mgmt) ==
    [id |-> id, src |-> src, dst |-> dst, ttl |-> DefaultTTL, body |-> body,
     mgmt |-> mgmt, reqId |-> NoId, code |-> "none", by |-> src]

\* SwbusMessage::new_response(request, responder, code, text, id, body):
\* the source is the responder, or the request's destination when there is
\* none (responder is <<>> or <<sp>>); the destination is the request's source; the ttl is reset.
NewResponse(request, responder, code, id, by) ==
    [id |-> id,
     src |-> IF responder = <<>> THEN request.dst ELSE responder[1],
     dst |-> request.src, ttl |-> DefaultTTL, body |-> "Resp",
     mgmt |-> "none", reqId |-> request.id, code |-> code, by |-> by]
=============================================================================
