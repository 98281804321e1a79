------------------------------- MODULE NextHop -------------------------------
(***************************************************************************)
(* SwbusNextHop (swbus-core/src/mux/nexthop.rs): the forwarding decision   *)
(* for one message once the multiplexer has resolved its destination.      *)
(*                                                                         *)
(* queue_message is a pure function of the next hop, the message, the     *)
(* daemon that owns the multiplexer (its service path and its id           *)
(* generator) and whether the connection's send queue is full; the module *)
(* that owns the queues applies the outcome.  An outcome is one of         *)
(*   "fwd"   the (ttl-decremented) message is put on the connection queue, *)
(*   "resp"  Ok(Some(response)): the caller must route the response,       *)
(*   "drop"  Ok(None) without forwarding,                                  *)
(*   "err"   Err(_) from try_queue (QueueFull),                            *)
(*   "panic" an unwrap() on an Err inside the handler.                     *)
(***************************************************************************)
EXTENDS SwbusProto

CONSTANTS
    TTLWidth,        \* bits of header.ttl (u32 in the code; fewer for TLC)
    OverflowChecks   \* whether the build panics on integer overflow

ASSUME TTLWidth \in Nat \ {0} /\ 2^TTLWidth > DefaultTTL /\ OverflowChecks \in BOOLEAN

\* NextHopType and the two constructors.  A remote next hop carries the
\* connection it forwards on, as the pair <<this daemon, peer daemon>>.
NewLocal == [nh_type |-> "Local", conn |-> <<>>, hop_count |-> 0]
NewRemote(conn, hop_count) ==
    [nh_type |-> "Remote", conn |-> conn, hop_count |-> hop_count]

Outcome(kind, m) == [kind |-> kind, msg |-> m]

\* process_ping_request: an Ok response with a fresh id, source = the
\* request's destination.
ProcessPingRequest(d, m) ==
    Outcome("resp", NewResponse(m, <<>>, "Ok", MuxId(d), DaemonSP(d)))

\* process_mgmt_request, followed by the .unwrap() of its caller (line 116):
\* SwbusdGetRoutes answers Ok with export_routes(None) (the route list is
\* not kept in the message); any other type, or an integer try_from cannot
\* decode, is an Err(InvalidArgs) and the unwrap panics.
ProcessMgmtRequest(d, m) ==
    IF m.mgmt = "GetRoutes"
    THEN Outcome("resp", NewResponse(m, <<>>, "Ok", MuxId(d), DaemonSP(d)))
    ELSE Outcome("panic", m)

\* A faulty variant of ProcessLocalMessage (below) used to check the
\* correlation property: NoRoute answered from the daemon's own path.
ProcessLocalMessageDaemonSource(d, m) ==
    IF m.dst.svc # ""
    THEN Outcome("resp", NewResponse(m, <<DaemonSP(d)>>, "NoRoute", MuxId(d), DaemonSP(d)))
    ELSE CASE m.body = "Ping" -> ProcessPingRequest(d, m)
           [] m.body = "Mgmt" -> ProcessMgmtRequest(d, m)
           [] OTHER           -> Outcome("drop", m)

\* process_local_message: a destination with a service type means the route
\* fell back to the daemon although no handler hosts that service: NoRoute.
\* Otherwise the message is for the daemon: ping, management, or dropped.
ProcessLocalMessage(d, m) ==
    IF m.dst.svc # ""
    THEN Outcome("resp", NewResponse(m, <<>>, "NoRoute", MuxId(d), DaemonSP(d)))
    ELSE CASE m.body = "Ping" -> ProcessPingRequest(d, m)
           [] m.body = "Mgmt" -> ProcessMgmtRequest(d, m)
           [] OTHER           -> Outcome("drop", m)

\* header.ttl -= 1 on the unsigned ttl: from 0 it underflows, which panics
\* in a build with overflow checks and wraps to the largest value otherwise.
TTLDecrement(t) == (t + 2^TTLWidth - 1) % 2^TTLWidth

\* The Remote arm of queue_message: decrement ttl; at zero answer
\* Unreachable from the daemon's own service path; otherwise try_queue on
\* the connection proxy, which fails when the send queue is full.
RemoteQueueMessage(d, m, full) ==
    LET fwd == [m EXCEPT !.ttl = TTLDecrement(m.ttl)]
    IN  IF m.ttl = 0 /\ OverflowChecks THEN Outcome("panic", m)
        ELSE IF fwd.ttl = 0
        THEN Outcome("resp", NewResponse(fwd, <<DaemonSP(d)>>, "Unreachable",
                                         MuxId(d), DaemonSP(d)))
        ELSE IF full THEN Outcome("err", fwd) ELSE Outcome("fwd", fwd)

\* SwbusNextHop::queue_message(mux, message) run by daemon d.
QueueMessage(nh, d, m, full) ==
    IF nh.nh_type = "Local"
    THEN ProcessLocalMessage(d, m)
    ELSE RemoteQueueMessage(d, m, full)
=============================================================================
