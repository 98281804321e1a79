----------------------------- MODULE SimpleClient -----------------------------
(***************************************************************************)
(* SimpleSwbusEdgeClient (swbus-edge/src/simple_client.rs): the façade an   *)
(* actor uses.  The decisions it takes on a received message and the      *)
(* envelope it builds for an outgoing one are pure; the module that owns   *)
(* mailboxes and id counters applies them.                                 *)
(*                                                                         *)
(* A result of handle_received_message is one of                           *)
(*   "actor"   HandleReceivedMessage::PassToActor: recv() returns it,      *)
(*   "respond" HandleReceivedMessage::Respond: recv() sends the message    *)
(*             with rt.send(msg).await.unwrap() and keeps looping,         *)
(*   "ignore"  HandleReceivedMessage::Ignore,                              *)
(*   "panic"   msg.body.unwrap() on a message without a body (line 74).    *)
(***************************************************************************)
EXTENDS SwbusProto

Handled(kind, m) == [kind |-> kind, msg |-> m]

\* RequestResponse::ok(id) / infra_error(id, code, text) in a message built
\* with SwbusMessageHeader::new(source, destination, id).
ClientResponse(src, request, code, id) ==
    [id |-> id, src |-> src, dst |-> request.src, ttl |-> DefaultTTL,
     body |-> "Resp", mgmt |-> "none", reqId |-> request.id, code |-> code,
     by |-> src]

\* Faulty variants of HandleReceivedMessage (below): the sink puts its new
\* id where the request id belongs, or drops strays without answering.
HandleReceivedMessageSinkIdSwap(self, sink, m, newId) ==
    CASE m.body = "None" -> Handled("panic", m)
      [] sink /\ m.dst # self ->
            Handled("respond", [ClientResponse(self, m, "NoRoute", newId)
                                    EXCEPT !.reqId = newId])
      [] m.body \in {"Data", "Resp"} -> Handled("actor", m)
      [] m.body \in {"Ping", "Trace"} ->
            Handled("respond", ClientResponse(m.dst, m, "Ok", newId))
      [] m.body = "Mgmt" ->
            IF m.mgmt = "Undecodable" THEN Handled("ignore", m)
                                      ELSE Handled("actor", m)

HandleReceivedMessageSinkSilent(self, sink, m, newId) ==
    CASE m.body = "None" -> Handled("panic", m)
      [] sink /\ m.dst # self -> Handled("ignore", m)
      [] m.body \in {"Data", "Resp"} -> Handled("actor", m)
      [] m.body \in {"Ping", "Trace"} ->
            Handled("respond", ClientResponse(m.dst, m, "Ok", newId))
      [] m.body = "Mgmt" ->
            IF m.mgmt = "Undecodable" THEN Handled("ignore", m)
                                      ELSE Handled("actor", m)

\* handle_received_message for the client at service path self, in sink
\* mode or not; newId is what self.id_generator.generate() returns if the
\* branch calls it.
HandleReceivedMessage(self, sink, m, newId) ==
    CASE m.body = "None" -> Handled("panic", m)
      [] sink /\ m.dst # self ->
            Handled("respond", ClientResponse(self, m, "NoRoute", newId))
      [] m.body \in {"Data", "Resp"} -> Handled("actor", m)
      [] m.body \in {"Ping", "Trace"} ->
            Handled("respond", ClientResponse(m.dst, m, "Ok", newId))
      [] m.body = "Mgmt" ->
            IF m.mgmt = "Undecodable" THEN Handled("ignore", m)
                                      ELSE Handled("actor", m)

\* An OutgoingMessage: its destination and its MessageBody, a
\* Request{payload} or a Response{request_id, error_code}.
DataRequest(dst) == [dst |-> dst, body |-> "Data", reqId |-> NoId, code |-> "none"]
ResponseTo(q, code) == [dst |-> q.src, body |-> "Resp", reqId |-> q.id, code |-> code]

\* A faulty variant of OutgoingToSwbusMessage (below): a Response is
\* built with the fresh id where the request_id belongs.
OutgoingToSwbusMessageIdSwap(self, out, id) ==
    [NewRequest(self, out.dst, id, out.body, "none")
        EXCEPT !.reqId = IF out.body = "Resp" THEN id ELSE out.reqId, !.code = out.code]

\* outgoing_message_to_swbus_message: a fresh id from the client's own
\* generator, the client's service path as source, the default ttl.  A
\* MessageBody::ManagementRequest hits unimplemented!(); no actor builds one.
OutgoingToSwbusMessage(self, out, id) ==
    [NewRequest(self, out.dst, id, out.body, "none")
        EXCEPT !.reqId = out.reqId, !.code = out.code]
=============================================================================
