-------------------------------- MODULE Swbus --------------------------------
(***************************************************************************)
(* The bus: one swbusd multiplexer per node, FIFO connection queues        *)
(* between daemons, and edge handlers (simple clients, a sink, and a raw   *)
(* management tool) with their mailboxes.                                  *)
(*                                                                         *)
(* SwbusNextHop::queue_message (NextHop) and the simple client's receive   *)
(* and send paths (SimpleClient) are translated from the source.  Route    *)
(* resolution, handler dispatch and the handling of queue_message's result *)
(* belong to SwbusMultiplexer and SwbusEdgeRuntime, which are not in this  *)
(* excerpt; they follow spec.md 4.E, 4.F and 7.                            *)
(***************************************************************************)
EXTENDS NextHop, SimpleClient, FiniteSets

CONSTANTS
    Clients,       \* service paths of SimpleSwbusEdgeClients
    Sinks,         \* the clients created with sink = true
    Cli,           \* service path of a raw-envelope tool (swbus-cli)
    CliSends,      \* [dst, body, mgmt, ttl] records the tool may send
    Senders,       \* the actors that send data requests
    Resenders,     \* the senders that resend a request with send_raw
    Repliers,      \* the actors that answer the data requests they get
    ClientDests,   \* destinations the actors send data requests to
    RouteTables,   \* possible initial route tables: [Node -> [Node -> RouteEntry]]
    Closable,      \* connections that may close, as <<d, p>> (either end)
    Announcements, \* [at, node, peer, hops]: routes a daemon may learn
    NoHop,         \* model value: no route installed for a node
    QueueSize,     \* capacity of a connection send queue
    MailboxSize,   \* SWBUS_RECV_QUEUE_SIZE, capacity of a handler mailbox
    MaxId          \* bound on the requests each actor and the tool send

Handlers == Clients \cup {Cli}
Actors == Clients \ Sinks
Requesters == Actors \cup {Cli}
ConnKeys == {p \in Node \X Node : p[1] # p[2]}

ASSUME /\ Sinks \subseteq Clients /\ Cli \notin Clients /\ Senders \subseteq Clients \ Sinks
       /\ Resenders \subseteq Senders /\ Repliers \subseteq Clients \ Sinks
       /\ \A s \in Sinks : s.inst = ""
       /\ \A x \in CliSends : x.ttl <= DefaultTTL
       /\ Closable \subseteq ConnKeys
       /\ \A a \in Announcements : <<a.at, a.peer>> \in ConnKeys /\ a.node # a.at /\ a.hops \in Nat \ {0}

VARIABLES
    routes,       \* routes[d][n]: where daemon d forwards node n, and how far
    conn,         \* conn[<<d, p>>]: send queue of d's connection to p
    mbox,         \* mbox[h]: the mailbox of handler h
    nextId,       \* nextId[h]: next value of h's MessageIdGenerator
    deadReader,   \* connections whose inbound task at the receiver panicked
    deadClient,   \* handlers whose task panicked
    sent,         \* ghost: sent[h] the requests h handed to the bus
    got,          \* ghost: got[h] the messages h's actor received
    resent,       \* resent[h]: ids of the requests h has sent again
    replied,      \* replied[h]: ids of the data requests h's actor answered
    closed,       \* the connection queues whose connection has closed
    dropped       \* ghost: messages that vanished without producing anything

vars == <<routes, conn, mbox, nextId, deadReader, deadClient, sent, got, resent, replied,
          closed, dropped>>

-----------------------------------------------------------------------------
(* Multiplexer and edge runtime (spec.md 4.E, 4.F).                        *)

\* A route table entry: the peer a node's traffic goes to and the hop count
\* advertised for it; Unrouted when the table has no route for the node.
RouteEntry == [peer : Node \cup {NoHop}, hops : Nat]
Via(p, h) == [peer |-> p, hops |-> h]
Unrouted == Via(NoHop, 0)

Reverse(k) == <<k[2], k[1]>>
\* The one element of a singleton.  Step and SendEffect write their result
\* as {e : x \in {v}} so that v is computed once and e reads its value.
The(S) == CHOOSE x \in S : TRUE
Elems(s) == {s[i] : i \in DOMAIN s}

\* The handler an exact service path reaches, else the sink registered at
\* its service-type prefix: <<h>>, or <<>> when none.
HandlerFor(sp) ==
    IF sp \in Handlers THEN <<sp>>
    ELSE LET cover == {s \in Sinks : s.node = sp.node /\ s.svc = sp.svc}
         IN  IF cover = {} THEN <<>> ELSE <<CHOOSE s \in cover : TRUE>>

\* mux.route: a handler of this node, else the route to the destination
\* node, else the synthetic local next hop.
Resolve(d, m) ==
    IF m.dst.node = d
    THEN IF HandlerFor(m.dst) # <<>> THEN [to |-> "mbox", h |-> HandlerFor(m.dst)[1]]
                                    ELSE [to |-> "nh", nh |-> NewLocal]
    ELSE LET e == routes[d][m.dst.node] IN
         IF e.peer = NoHop
         THEN [to |-> "nh", nh |-> NewLocal]
         ELSE [to |-> "nh", nh |-> NewRemote(<<d, e.peer>>, e.hops)]

\* One resolution of m at daemon d and what comes of it:
\* [kind, key, msg] with kind "fwd"/"mbox" (put msg on conn/mbox key),
\* "full" (the handler's mailbox is full) or a queue_message outcome.
\* A faulty variant of Step (below): a closed connection's queue still
\* accepts messages.
StepIgnoresClosed(d, m) ==
    The({IF r.to = "mbox"
         THEN IF Len(mbox[r.h]) >= MailboxSize
              THEN [kind |-> "full", key |-> r.h, msg |-> m]
              ELSE [kind |-> "mbox", key |-> r.h, msg |-> m]
         ELSE LET full == r.nh.nh_type = "Remote" /\ Len(conn[r.nh.conn]) >= QueueSize
                  o == QueueMessage(r.nh, d, m, full)
              IN  [kind |-> o.kind, key |-> r.nh.conn, msg |-> o.msg]
         : r \in {Resolve(d, m)}})

\* try_queue on a remote next hop fails when its connection's send queue is
\* full or closed (spec.md 4.D "queue closed").
Step(d, m) ==
    The({IF r.to = "mbox"
         THEN IF Len(mbox[r.h]) >= MailboxSize
              THEN [kind |-> "full", key |-> r.h, msg |-> m]
              ELSE [kind |-> "mbox", key |-> r.h, msg |-> m]
         ELSE LET full == r.nh.nh_type = "Remote" /\
                          (Len(conn[r.nh.conn]) >= QueueSize \/ r.nh.conn \in closed)
                  o == QueueMessage(r.nh, d, m, full)
              IN  [kind |-> o.kind, key |-> r.nh.conn, msg |-> o.msg]
         : r \in {Resolve(d, m)}})

\* A response the daemon built is routed exactly once: what it produces in
\* turn is dropped (responses never beget responses, spec.md 4.F).
RouteOnce(d, r) ==
    LET o == Step(d, r) IN IF o.kind \in {"fwd", "mbox"} THEN <<o>> ELSE <<>>

ResourceExhausted(d, m) ==
    NewResponse(m, <<DaemonSP(d)>>, "ResourceExhausted", MuxId(d), DaemonSP(d))

\* send(msg) at daemon d: the puts it makes (at most one), its status and
\* the messages that vanish.  inbound: d handles a message read from a
\* connection, where a queue failure becomes a ResourceExhausted answer
\* (spec.md 7) and the message is dropped when that answer fails too; a
\* local sender gets Err instead, and a response it could not send is gone.
SendEffect(d, m, inbound) ==
    LET exhausted == IF IsResponse(m) THEN <<>> ELSE RouteOnce(d, ResourceExhausted(d, m))
    IN  The({LET answer == RouteOnce(d, o.msg) IN
             CASE o.kind \in {"fwd", "mbox"} -> [put |-> <<o>>, status |-> "ok", lost |-> {}]
               [] o.kind = "resp"  -> [put |-> answer, status |-> "ok",
                                       lost |-> IF answer = <<>> THEN {o.msg} ELSE {}]
               [] o.kind = "drop"  -> [put |-> <<>>, status |-> "ok", lost |-> {m}]
               [] o.kind = "panic" -> [put |-> <<>>, status |-> "panic", lost |-> {m}]
               [] o.kind = "full" \/ (o.kind = "err" /\ inbound) ->
                                      [put |-> exhausted, status |-> "ok",
                                       lost |-> IF exhausted = <<>> THEN {m} ELSE {}]
               [] o.kind = "err"   -> [put |-> <<>>, status |-> "err",
                                       lost |-> IF IsResponse(m) THEN {m} ELSE {}]
             : o \in {Step(d, m)}})

-----------------------------------------------------------------------------
Init ==
    /\ routes \in RouteTables
    /\ conn = [k \in ConnKeys |-> <<>>]
    /\ mbox = [h \in Handlers |-> <<>>]
    /\ nextId = [h \in Handlers |-> 1]
    /\ deadReader = {}
    /\ deadClient = {}
    /\ sent = [h \in Handlers |-> {}]
    /\ got = [h \in Handlers |-> {}]
    /\ resent = [h \in Handlers |-> {}]
    /\ replied = [h \in Handlers |-> {}]
    /\ closed = {}
    /\ dropped = {}

\* Apply a send effect to the connection queues q and mailboxes mb: its put,
\* if any, is appended to the queue it names; what it lost is recorded.
\* (The effect is bound to eff once, so that it is computed once.)
Deliver(e, q, mb) ==
    \E eff \in {e} :
        LET Put(f, kind) == IF eff.put # <<>> /\ eff.put[1].kind = kind
                            THEN [f EXCEPT ![eff.put[1].key] = Append(@, eff.put[1].msg)]
                            ELSE f
        IN  /\ conn' = Put(q, "fwd")
            /\ mbox' = Put(mb, "mbox")
            /\ dropped' = dropped \cup eff.lost
            /\ UNCHANGED closed

\* SimpleSwbusEdgeClient::send(out): outgoing_message_to_swbus_message
\* stamps a fresh id and the client's source, then send_raw, i.e. rt.send.
\* An Err is returned to the actor and the message is not on the bus.
SendMessage(c, out) ==
    /\ c \in Clients \ deadClient
    /\ nextId[c] <= MaxId
    /\ LET m == OutgoingToSwbusMessage(c, out, <<c, nextId[c]>>)
           e == SendEffect(c.node, m, FALSE)
       IN  /\ Deliver(e, conn, mbox)
           /\ nextId' = [nextId EXCEPT ![c] = @ + 1]
           /\ sent' = IF e.status = "ok" /\ ~IsResponse(m)
                      THEN [sent EXCEPT ![c] = @ \cup {m}] ELSE sent
    /\ UNCHANGED <<routes, deadReader, deadClient, got>>

\* An actor sends a data request.
Send(c, dst) ==
    /\ c \in Senders
    /\ SendMessage(c, DataRequest(dst))
    /\ UNCHANGED <<resent, replied>>

\* An actor answers a data request it received, with send(Response{Ok}).
ActorReply(c, q) ==
    /\ c \in Repliers
    /\ q \in got[c] /\ q.body = "Data" /\ q.id \notin replied[c]
    /\ SendMessage(c, ResponseTo(q, "Ok"))
    /\ replied' = [replied EXCEPT ![c] = @ \cup {q.id}]
    /\ UNCHANGED resent

\* SimpleSwbusEdgeClient::send_raw(msg): an actor that timed out waiting
\* resends a request it sent, with the same id (once per request here).
\* The answer to the first copy may still be on its way.
SendRaw(c, m) ==
    /\ c \in Resenders \ deadClient
    /\ m \in sent[c] /\ m.id \notin resent[c]
    /\ Deliver(SendEffect(c.node, m, FALSE), conn, mbox)
    /\ resent' = [resent EXCEPT ![c] = @ \cup {m.id}]
    /\ UNCHANGED <<routes, nextId, deadReader, deadClient, sent, got, replied>>

\* The management tool sends a raw envelope; swbusd's task serving the
\* tool's connection runs queue_message, and a panic there ends it.
CliSend(x) ==
    /\ Cli \notin deadClient
    /\ nextId[Cli] <= MaxId
    /\ LET m == [NewRequest(Cli, x.dst, <<Cli, nextId[Cli]>>, x.body, x.mgmt)
                    EXCEPT !.ttl = x.ttl]
           e == SendEffect(Cli.node, m, FALSE)
       IN  /\ Deliver(e, conn, mbox)
           /\ nextId' = [nextId EXCEPT ![Cli] = @ + 1]
           /\ sent' = IF e.status = "ok" THEN [sent EXCEPT ![Cli] = @ \cup {m}] ELSE sent
           /\ deadClient' = IF e.status = "panic" THEN deadClient \cup {Cli} ELSE deadClient
    /\ UNCHANGED <<routes, deadReader, got, resent, replied>>

\* Daemon d's task for its connection from peer p reads the next message
\* and routes it (spec.md 4.F inbound dispatch).
DaemonRecv(p, d) ==
    /\ <<p, d>> \in ConnKeys \ (deadReader \cup closed)
    /\ conn[<<p, d>>] # <<>>
    /\ LET m == Head(conn[<<p, d>>])
           rest == [conn EXCEPT ![<<p, d>>] = Tail(@)]
           e == SendEffect(d, m, TRUE)
       IN  /\ Deliver(e, rest, mbox)
           /\ deadReader' = IF e.status = "panic" THEN deadReader \cup {<<p, d>>}
                                                  ELSE deadReader
    /\ UNCHANGED <<routes, nextId, deadClient, sent, got, resent, replied>>

\* SimpleSwbusEdgeClient::recv, one turn of its loop: take the next message
\* from the mailbox and handle it.  Respond sends with .unwrap(), so an Err
\* from rt.send ends the task.  The sink's actor is main's drain loop.
Recv(c) ==
    /\ c \in Clients \ deadClient
    /\ mbox[c] # <<>>
    /\ LET m == Head(mbox[c])
           rest == [mbox EXCEPT ![c] = Tail(@)]
           r == HandleReceivedMessage(c, c \in Sinks, m, <<c, nextId[c]>>)
       IN  CASE r.kind = "panic" ->
                  /\ mbox' = rest
                  /\ deadClient' = deadClient \cup {c}
                  /\ UNCHANGED <<conn, nextId, got, closed, dropped>>
             [] r.kind = "actor" ->
                  /\ mbox' = rest
                  /\ got' = [got EXCEPT ![c] = @ \cup {m}]
                  /\ UNCHANGED <<conn, nextId, deadClient, closed, dropped>>
             [] r.kind = "ignore" ->
                  /\ mbox' = rest
                  /\ UNCHANGED <<conn, nextId, deadClient, got, closed, dropped>>
             [] r.kind = "respond" ->
                  LET e == SendEffect(c.node, r.msg, FALSE) IN
                  /\ Deliver(e, conn, rest)
                  /\ nextId' = [nextId EXCEPT ![c] = @ + 1]
                  /\ deadClient' = IF e.status = "err" THEN deadClient \cup {c}
                                                       ELSE deadClient
                  /\ UNCHANGED got
    /\ UNCHANGED <<routes, deadReader, sent, resent, replied>>

\* The tool reads the answers it gets.
CliRecv ==
    /\ mbox[Cli] # <<>>
    /\ mbox' = [mbox EXCEPT ![Cli] = Tail(@)]
    /\ got' = [got EXCEPT ![Cli] = @ \cup {Head(mbox[Cli])}]
    /\ UNCHANGED <<routes, conn, nextId, deadReader, deadClient, sent, resent, replied,
                   closed, dropped>>

\* A connection closes: a peer disconnected or its I/O failed (spec.md
\* 4.C).  Both directions' send queues close and what they held is dropped
\* with no response synthesized (spec.md 7, cancellation).
Close(k) ==
    /\ k \notin closed
    /\ closed' = closed \cup {k, Reverse(k)}
    /\ dropped' = dropped \cup Elems(conn[k]) \cup Elems(conn[Reverse(k)])
    /\ conn' = [conn EXCEPT ![k] = <<>>, ![Reverse(k)] = <<>>]
    /\ UNCHANGED <<routes, mbox, nextId, deadReader, deadClient, sent, got, resent, replied>>

\* Daemon d's side of its closed connection to p runs
\* unregister_routes_for_conn: every route whose next hop is that
\* connection goes (spec.md 4.E).  Until then d still resolves to it.
Purge(d, p) ==
    /\ <<d, p>> \in closed
    /\ \E n \in Node : routes[d][n].peer = p
    /\ routes' = [routes EXCEPT ![d] = [n \in Node |-> IF @[n].peer = p THEN Unrouted ELSE @[n]]]
    /\ UNCHANGED <<conn, mbox, nextId, deadReader, deadClient, sent, got, resent, replied,
                   closed, dropped>>

\* Daemon a.at learns over its live connection to a.peer that a.node is
\* a.hops away: register_route installs it when no route exists or it is
\* shorter; on a tie the existing route is kept (spec.md 4.E).
RegisterRoute(a) ==
    /\ <<a.at, a.peer>> \notin closed
    /\ LET cur == routes[a.at][a.node]
       IN  cur.peer = NoHop \/ a.hops < cur.hops
    /\ routes' = [routes EXCEPT ![a.at][a.node] = Via(a.peer, a.hops)]
    /\ UNCHANGED <<conn, mbox, nextId, deadReader, deadClient, sent, got, resent, replied,
                   closed, dropped>>

Next ==
    \/ \E c \in Senders, dst \in ClientDests : Send(c, dst)
    \/ \E c \in Repliers : \E q \in got[c] : ActorReply(c, q)
    \/ \E c \in Resenders : \E m \in sent[c] : SendRaw(c, m)
    \/ \E x \in CliSends : CliSend(x)
    \/ \E k \in ConnKeys : DaemonRecv(k[1], k[2])
    \/ \E c \in Clients : Recv(c)
    \/ CliRecv
    \/ \E k \in Closable : Close(k)
    \/ \E k \in ConnKeys : Purge(k[1], k[2])
    \/ \E a \in Announcements : RegisterRoute(a)

\* Every connection task, every client's recv loop and the tool's reader
\* keep running while they have input: each is a tokio task looping on its
\* queue.  Senders are not obliged to send.
Fairness ==
    /\ \A k \in ConnKeys : WF_vars(DaemonRecv(k[1], k[2]))
    /\ \A c \in Clients : WF_vars(Recv(c))
    /\ WF_vars(CliRecv)
    /\ \A k \in ConnKeys : WF_vars(Purge(k[1], k[2]))

Spec == Init /\ [][Next]_vars /\ Fairness

-----------------------------------------------------------------------------
(* Properties.                                                             *)

TypeOK ==
    /\ routes \in [Node -> [Node -> RouteEntry]]
    /\ conn \in [ConnKeys -> Seq(Msg)]
    /\ mbox \in [Handlers -> Seq(Msg)]
    /\ nextId \in [Handlers -> Nat \ {0}]
    /\ deadReader \subseteq ConnKeys
    /\ deadClient \subseteq Handlers
    /\ DOMAIN sent = Handlers /\ \A h \in Handlers : sent[h] \subseteq Msg
    /\ DOMAIN got = Handlers /\ \A h \in Handlers : got[h] \subseteq Msg
    /\ DOMAIN resent = Handlers /\ \A h \in Handlers : resent[h] \subseteq Ids
    /\ DOMAIN replied = Handlers /\ \A h \in Handlers : replied[h] \subseteq Ids
    /\ closed \subseteq ConnKeys /\ dropped \subseteq Msg

InFlight == UNION {Elems(conn[k]) : k \in ConnKeys} \cup UNION {Elems(mbox[h]) : h \in Handlers}

\* Whether sink s catches traffic for service path sp.
Covers(s, sp) == s \in Sinks /\ s.node = sp.node /\ s.svc = sp.svc

\* r is an answer to request q: it carries q's id as request_id and comes
\* from q's destination, from a daemon reporting a forwarding failure, or
\* from the sink standing in for q's destination.
Answers(r, q) ==
    /\ r.reqId = q.id
    /\ \/ r.src = q.dst
       \/ r.code \in {"Unreachable", "ResourceExhausted"} /\ IsDaemonSP(r.src)
       \/ r.code = "NoRoute" /\ Covers(r.src, q.dst)

\* Request/response correlation (spec.md 8, "Response uniqueness"): every
\* response an actor or the tool receives answers a request that receiver
\* sent, across the next hops' TTL and NoRoute answers, the sink's NoRoute
\* answers and the clients' ping/traceroute auto-responses.
ResponsesAnswerOwnRequests ==
    \A h \in Requesters : \A r \in got[h] :
        IsResponse(r) => \E q \in sent[h] : Answers(r, q)

\* A request the daemon drops by design: a body other than ping or
\* management addressed to the daemon itself (nexthop.rs, "drop all other
\* messages").
DroppedByDesign(q) == IsDaemonSP(q.dst) /\ q.body \notin {"Ping", "Mgmt"}

Resolved(h, q) ==
    \/ \E r \in got[h] : IsResponse(r) /\ Answers(r, q)
    \/ \E a \in Handlers : \E m \in got[a] : m.id = q.id /\ ~IsResponse(m)

\* Every request an actor or the tool puts on the bus is eventually received
\* by the actor it addresses or answered back to its sender: by the target,
\* by a daemon (NoRoute, TTL expiry, queue exhaustion) or by a sink.  This is
\* what TTL decrement, NoRoute synthesis and the auto-responses are for.
RequestsResolved ==
    \A h \in Requesters : \A i \in 1..MaxId :
        (\E q \in sent[h] : q.id = <<h, i>> /\ ~DroppedByDesign(q))
            ~> (\E q \in sent[h] : q.id = <<h, i>> /\ Resolved(h, q))

\* The bus drains: eventually no message is queued anywhere (spec.md 7,
\* "Responses never beget responses: ... else loops are possible").
Quiescence == <>[](InFlight = {})

\* No task of swbusd panics on a message it receives (spec.md 4.D: an
\* unknown management request is answered with InvalidArgs).
NoDaemonPanic == deadReader = {} /\ Cli \notin deadClient

\* An Ok response whose source is a daemon was built by that daemon: a
\* ping to a daemon is answered by that daemon only (spec.md 4.E: the
\* synthetic local next hop for an unmatched destination only produces
\* NoRoute).
DaemonAnswersOnlyForItself ==
    \A r \in InFlight \cup UNION {got[h] : h \in Handlers} :
        IsResponse(r) /\ r.code = "Ok" /\ IsDaemonSP(r.src) => r.by = r.src

\* The refinement mapping to BusAbstract: a request is issued once its
\* sender's rt.send accepted it, resolved once it is resolved or is one the
\* daemon drops by design.
RequestIds == {<<h, i>> : h \in Requesters, i \in 1..MaxId}
IssuedIds == {q.id : q \in UNION {sent[h] : h \in Requesters}}
ResolvedIds ==
    {q.id : q \in UNION {{q \in sent[h] : Resolved(h, q) \/ DroppedByDesign(q)} : h \in Requesters}}
\* A request is lost once it is unresolved and a copy of it, or an answer
\* to it, vanished: dropped by a closing connection, by a failed answer or
\* with a task that panicked.
LostIds ==
    {q.id : q \in UNION {{q \in sent[h] :
                  /\ ~Resolved(h, q) /\ ~DroppedByDesign(q)
                  /\ \E m \in dropped : IF IsResponse(m) THEN Answers(m, q) ELSE m.id = q.id}
                : h \in Requesters}}

Bus == INSTANCE BusAbstract WITH Request <- RequestIds, issued <- IssuedIds,
                                 resolved <- ResolvedIds, lost <- LostIds

\* The bus as the swbusd next hops, the edge runtime and the simple clients
\* build it implements BusAbstract: every step of the daemons' forwarding,
\* the clients' auto-responses and the sink's NoRoute answers either leaves
\* the requesters' view unchanged or resolves exactly one accepted request
\* (never un-resolves one, never resolves one that was not sent), and
\* under the tasks' fairness every accepted request gets resolved.
BusRefinement == Bus!Spec

\* TTL termination (spec.md 8): a message that entered the bus with ttl T
\* makes at most T remote hops.  No sender sets a ttl above DefaultTTL, so
\* a queued message whose ttl is above it has more hops left than it
\* entered with: the next hop's header.ttl -= 1 went below zero.
TTLNeverRaised == \A m \in InFlight : m.ttl <= DefaultTTL

\* Clients survive what they receive (spec.md 7, input errors "never
\* propagated as a local failure"; spec.md 9: a missing required field is
\* an InvalidArgs response): no client's recv loop ends.
ClientsAlive == deadClient \cap Clients = {}
=============================================================================
