----------------------------- MODULE NextHopTests -----------------------------
(***************************************************************************)
(* The unit tests of nexthop.rs (mod tests), stated over the model's       *)
(* next hop.  Each test builds a next hop and a message and asserts what   *)
(* new_remote, new_local or queue_message returns; here each is a Boolean *)
(* over the model's service paths, for every choice of nodes, service     *)
(* types and instances, so the tests' concrete addresses are instances.   *)
(* A test whose mux is SwbusMultiplexer::default() runs queue_message at  *)
(* the daemon of the message's destination node.                           *)
(***************************************************************************)
EXTENDS NextHop

SPOf(n, s, i) == [node |-> n, svc |-> s, inst |-> i]

\* test_new_remote: a remote next hop keeps its type, connection and hop
\* count (5).
TestNewRemote(conn) ==
    LET nh == NewRemote(conn, 5)
    IN  nh.nh_type = "Remote" /\ nh.conn = conn /\ nh.hop_count = 5

\* test_new_local: no connection, hop count 0.
TestNewLocal == NewLocal.nh_type = "Local" /\ NewLocal.conn = <<>> /\ NewLocal.hop_count = 0

\* test_queue_message_drop: a bodiless message from daemon a to daemon b
\* (id 1) at a local next hop returns Ok(None).
TestQueueMessageDrop(a, b) ==
    LET m == NewRequest(DaemonSP(a), DaemonSP(b), <<DaemonSP(a), 1>>, "None", "none")
    IN  QueueMessage(NewLocal, b, m, FALSE).kind = "drop"

\* test_queue_message_local_ping: a ping from a/s/i to b's local-mgmt/0 at
\* a local next hop of b returns a response addressed to the ping's source.
\* local-mgmt/0 is a resource type and id: the service type is empty, so
\* the destination is the daemon itself and the ping is answered Ok.
TestQueueMessageLocalPing(a, b, s, i) ==
    LET q == NewRequest(SPOf(a, s, i), DaemonSP(b), <<SPOf(a, s, i), 0>>, "Ping", "none")
        o == QueueMessage(NewLocal, b, q, FALSE)
    IN  o.kind = "resp" /\ o.msg.dst = q.src /\ o.msg.code = "Ok"

\* test_queue_message_remote_ttl_expired: a ping with ttl 1 to c's
\* local-mgmt/0 at a remote next hop (hop count 5) of b toward c returns an
\* Unreachable response and queues nothing.
TestQueueMessageRemoteTTLExpired(a, b, c, s, i) ==
    LET q == [NewRequest(SPOf(a, s, i), DaemonSP(c), <<SPOf(a, s, i), 0>>, "Ping", "none")
                 EXCEPT !.ttl = 1]
        o == QueueMessage(NewRemote(<<b, c>>, 5), b, q, FALSE)
    IN  o.kind = "resp" /\ o.msg.body = "Resp" /\ o.msg.code = "Unreachable"

\* mod tests: every test passes, for every instance of its addresses.
NextHopTests ==
    /\ TestNewLocal
    /\ \A a, b \in Node :
         /\ TestNewRemote(<<a, b>>)
         /\ TestQueueMessageDrop(a, b)
         /\ \A s \in SvcType, i \in Inst :
              /\ TestQueueMessageLocalPing(a, b, s, i)
              /\ \A c \in Node : TestQueueMessageRemoteTTLExpired(a, b, c, s, i)
=============================================================================
