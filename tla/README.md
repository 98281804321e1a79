# TLA+ models of the swbus message core (sonic-dash-ha)

This directory holds TLA+ models of the swbus message bus. They cover the
swbusd next hop, the multiplexer and edge runtime around it, and the simple
client that hamgrd's actors and its sink use. The models are checked with TLC.
The repository excerpt contains three source files:

| file | what it is |
|------|------------|
| `src/crates/swbus-core/src/mux/nexthop.rs` | `SwbusNextHop`: the forwarding decision for one message |
| `src/crates/swbus-edge/src/simple_client.rs` | `SimpleSwbusEdgeClient`: the actor-facing façade |
| `src/crates/hamgrd/src/main.rs` | hamgrd bootstrap: edge runtime, producer bridges, sink, actor creators |

The excerpt does not include the multiplexer, connections, edge runtime or
wire types. Those parts are modelled from `spec.md`, and their map entries are
marked `spec_modelled` in `PROJECT.json`.

## 1. Inventory

### Components, their state and operations

- **Service path, message envelope (spec.md 3, 4.A, 4.B).**
  - State: none. These are values.
  - Operations: `SwbusMessageHeader::new` (default ttl) and
    `SwbusMessage::new_response`. `new_response` takes its source from the
    responder, or else from the request's destination. Its destination is the
    request's source. It sets `request_id` to the request's id and resets the
    ttl.
- **Next hop (`nexthop.rs`).**
  - State: `Local`, or `Remote` with a connection proxy and a hop count.
  - Operation: `queue_message(mux, msg)`.
  - Local arm:
    - A destination with a service type gets NoRoute.
    - Otherwise a ping gets Ok.
    - `SwbusdGetRoutes` gets Ok with the route export.
    - Any other management type gets Err. The caller unwraps that Err, so the
      task panics.
    - Any other body is dropped.
  - Remote arm: `ttl -= 1`. At zero the hop answers Unreachable from the
    daemon's own path. Otherwise it calls `try_queue`, which fails with
    QueueFull when the send queue is full.
- **Connection / proxy (spec.md 4.C).**
  - State: a bounded FIFO send queue drained by a writer task. At the peer, a
    reader task hands each message to the multiplexer.
  - Lifecycle: created on accept or connect. When it closes, every route that
    points at it is purged.
- **Multiplexer (spec.md 4.E).**
  - State: the route table (prefix → next hop), the message-id generator, the
    daemon's own path and "my routes".
  - Operations: `route`, `generate_message_id`, `register_route`,
    `unregister_routes_for_conn`, `set_my_routes`, `export_routes`.
  - `route` uses longest-prefix match. If nothing matches, it returns a
    synthetic local next hop.
- **Edge runtime (spec.md 4.F).**
  - State: the handler registry (path → mailbox sender; public or private).
  - `send(msg)`:
    1. Resolve the destination.
    2. Call `queue_message`.
    3. If that returns an answer, route the answer once.
  - Inbound dispatch: a message goes to the mailbox of the matching handler.
    When the mailbox is full, the sender gets a ResourceExhausted answer.
- **Simple client (`simple_client.rs`).**
  - State: the mailbox receiver, its own id generator, its source path and the
    sink flag.
  - `new`: registers the handler.
  - `recv`: loops over `handle_received_message` and does one of:
    - passes the message to the actor;
    - responds with `rt.send(..).unwrap()`;
    - ignores the message.
  - `handle_received_message`:
    - A sink answers NoRoute to every message not addressed to itself.
    - A ping or traceroute gets an Ok answer.
    - A management request whose type does not decode is ignored.
    - A message without a body panics the task.
  - `send`: gives the message a fresh id and the client's own source.
  - `send_raw`: re-sends an envelope unchanged, for retries.
- **hamgrd bootstrap (`main.rs`).**
  - Order of startup:
    1. Set the slot id.
    2. Read the configuration.
    3. Set the service path to `…/hamgrd/0`.
    4. Start the edge runtime.
    5. Spawn the producer bridges.
    6. Register a public sink and start its drain loop.
    7. Start the actor creators, which are private handlers.
    8. Wait for Ctrl-C.
- **HA actors, DB bridges, zmq producer bridge.** Out of scope (spec.md 1)
  and not in the excerpt.

### How they interact

- Actors call the simple client. The simple client calls the edge runtime's
  `send`. In the model, the edge runtime and swbusd are collapsed into one
  daemon per node.
- `send` calls `mux.route` and then `queue_message`.
- A remote next hop puts the message on a connection queue. The peer's reader
  task routes it again there. Responses travel back along the same path.
- Daemons, connection tasks and client tasks all run concurrently on tokio.
  Messages interleave freely across senders. Each queue is FIFO.

### What is hard

- **Loops.**
  - Routing loops must end through the ttl.
  - Answers can themselves be answered (NoRoute, Unreachable), so answer
    loops between daemons are possible.
- **Panics.** Several `unwrap()` calls end a task on input from the network:
  - an unknown management type (`nexthop.rs:116`);
  - a message without a body (`simple_client.rs:74`);
  - a failed auto-response (`simple_client.rs:63`).
- **Bounded queues.** `try_queue` fails when a send queue is full, and a full
  mailbox triggers a ResourceExhausted answer. Both must still answer the
  right requester.
- **Stale routes.** A missing route falls back to the local next hop. The
  local next hop answers for paths that are not its own.
- **Ordering.** At startup, the sink is registered before the actor creators.
  `send_raw` retries reuse ids.

### What makes each component correct

| component | property |
|-----------|----------|
| next hop | A request in a routing loop ends in exactly one Unreachable answer. NoRoute comes from the destination's path. No input panics the daemon. A daemon answers pings only for itself. |
| multiplexer / runtime | Every request is delivered or answered. Answers are routed at most once and never answered again. |
| simple client | Every answer an actor sees correlates to one of its own requests. The sink answers strays. The client's task survives its input. |
| hamgrd | The DPU databases the bridges open belong to the slot the actors see. |

The full hazard list, one entry per source line, is in `PROJECT.json`
(`hazards`).

## 2. Plan

Modules, in the order they are built. The most important behaviour comes
first.

1. **`SwbusProto`** (done): wire values and constructors, from the spec.
2. **`NextHop`** (done): `queue_message` as a pure outcome operator, from
   `nexthop.rs`.
3. **`SimpleClient`** (done): `handle_received_message` and
   `outgoing_message_to_swbus_message`, from `simple_client.rs`.
4. **`Swbus`** (done): the composed bus. It has daemons with route tables,
   connection queues, handler mailboxes, actors sending data, a raw
   management tool, client receive loops, and the multiplexer and edge
   runtime from the spec. `MCSwbus` instantiates it.
5. **`send_raw` retries and actor replies** (done): `SendRaw`, `ActorReply`
   and the client's `SendMessage` in `Swbus`; checked in run `stress`.
6. **Raw ttl** (done): the tool chooses the ttl, and the decrement keeps its
   unsigned wrap-around; run `ttl_zero`.
7. **`Hamgrd`** (done): main's startup order with traffic arriving at every
   step, the sink's drain loop and its unwrap panic, the runtime-env reads;
   run `hamgrd`.
8. **`BusAbstract`** (done): the abstract bus; `Swbus` implements it, checked
   as `BusRefinement` in the failover run.
9. **Route changes and connection lifecycle** (done): routes carry a hop
   count; `Close` (a connection closes and what it queued is lost),
   `Purge` (`unregister_routes_for_conn`) and `RegisterRoute` (with the
   hop-count tie-break); `BusAbstract` gained lost requests; run `failover`.
10. **`NextHopTests`** (done): the unit tests of `nexthop.rs` stated over the
    model, checked as an `ASSUME` of `MCSwbus` before every run of it.
11. **The DPU slot id** (done): `DPU_SLOT_ID`, its u8 cast, `db_named`'s
    read of it and `RuntimeData`'s u32 slot in `Hamgrd`; runs `hamgrd` and
    `hamgrd_slot`.
12. **Composing `Hamgrd` with `Swbus`** (not done): see section 5.

## 3. Modules and how they map to the code

- **`SwbusProto.tla`**
  - A service path is `[node, svc, inst]`. An empty `svc` is the daemon
    itself.
  - A message is a record with these fields: `id`, `src`, `dst`, `ttl`,
    `body`, `mgmt`, `reqId`, `code`, and a ghost field `by` (who built it).
  - An id is `<<generator, counter>>`.
  - Ids made by the multiplexer are kept as `<<daemon, 0>>`. No property tells
    them apart, and counting them would make every answer loop an infinite
    state space.
- **`NextHop.tla`**
  - `QueueMessage(nh, d, m, full)` returns an outcome: `fwd`, `resp`, `drop`,
    `err` or `panic`.
  - `ProcessLocalMessage`, `ProcessPingRequest`, `ProcessMgmtRequest` and
    `RemoteQueueMessage` translate the functions with the same names, in the
    same order of checks.
- **`SimpleClient.tla`**
  - `HandleReceivedMessage(self, sink, m, newId)` returns `actor`, `respond`,
    `ignore` or `panic`. The unwrap of a missing body comes first, then the
    sink check, as in the code.
  - `OutgoingToSwbusMessage(self, out, id)` builds the envelope of an
    `OutgoingMessage` (`DataRequest(dst)` or `ResponseTo(q, code)`): a fresh
    id, the client's path as source, the request id of a response.
- **`NextHop.tla`** also keeps the width of `header.ttl`: `TTLDecrement`
  wraps modulo `2^TTLWidth`, and with `OverflowChecks` a ttl of 0 panics the
  task instead (a debug build).
- **`NextHopTests.tla`**: the five tests of `nexthop.rs`'s `mod tests`
  (`test_new_remote`, `test_new_local`, `test_queue_message_drop`,
  `test_queue_message_local_ping`, `test_queue_message_remote_ttl_expired`)
  as Boolean operators over `NewLocal`, `NewRemote` and `QueueMessage`,
  quantified over every choice of the tests' addresses. `local-mgmt/0` in
  the tests is a resource type and id, so their destinations are daemon
  paths (empty service type). The tests read no variable, so their
  conjunction `NextHopTests` is an `ASSUME` of `MCSwbus`, which TLC
  evaluates before each run.
- **`Swbus.tla`**. Its variables:
  - `routes`: the per-daemon node route table; an entry is `Via(peer,
    hops)`, the next hop's connection and hop count, or `Unrouted`;
  - `conn`: the send queue per ordered daemon pair;
  - `mbox`: the handler mailboxes;
  - `nextId`: each client's id generator;
  - `deadReader` / `deadClient`: tasks that panicked;
  - ghosts `sent` / `got`: requests sent, and messages received by actors;
  - `resent` / `replied`: the requests each actor has resent, and the data
    requests it has answered (each at most once);
  - `closed`: the connection queues whose connection has closed;
  - ghost `dropped`: messages that vanished without producing anything (a
    closed connection's queue, an answer that could not be routed, the
    message a task panicked on).

  Its actions:

  | action | code |
  |--------|------|
  | `SendMessage(c, out)` | `SimpleSwbusEdgeClient::send`, used by the two below |
  | `Send(c, dst)` | an actor sends a data request |
  | `ActorReply(c, q)` | an actor answers a data request it received (`Repliers`) |
  | `SendRaw(c, m)` | `send_raw`: an actor resends a request with its id (`Resenders`) |
  | `CliSend(x)` | a raw envelope from a management tool |
  | `DaemonRecv(p, d)` | the reader task of d's connection from p |
  | `Recv(c)` | one turn of `SimpleSwbusEdgeClient::recv`; for the sink, main's drain loop |
  | `CliRecv` | the tool reads its answers |
  | `Close(k)` | a connection closes (spec.md 4.C); both directions' queues are dropped (spec.md 7) |
  | `Purge(d, p)` | `unregister_routes_for_conn` at d's end of its closed connection to p |
  | `RegisterRoute(a)` | `register_route`: a shorter route, or one where none exists, is installed; a tie keeps the existing route |

  `SendEffect` is the edge runtime's `send`. It resolves the destination,
  calls `QueueMessage`, and routes the answer exactly once. A failed enqueue
  is answered with ResourceExhausted when handling inbound traffic, or
  returned as Err to a local sender. `try_queue` fails on a full queue and
  on a closed one. `SendEffect` also names what the step lost.
- **`BusAbstract.tla`**: what a requester can rely on. `issued`,
  `resolved` and `lost` are sets of request ids; `Issue`, `Discard` (a
  request the daemon drops by design), `Resolve` and `Lose` are its
  actions. Weak fairness holds on each `Resolve` of a request that is not
  lost. `Swbus` maps `issued` to the ids of the requests in `sent`,
  `resolved` to those delivered, answered or dropped by design, and `lost`
  to the unresolved ones of which a copy, or an answer, is in `dropped`
  (`Bus == INSTANCE BusAbstract WITH ...`); `BusRefinement == Bus!Spec`.
- **`Hamgrd.tla`**: one hamgrd process. Its variables:
  - `pc`: the step of `main` (config, edge, bridges, sink, creators,
    running, exited);
  - `env`: the edge runtime's runtime env, `<<>>` until `set_runtime_env`,
    then `<<RuntimeDataNew(SlotId)>>` with the u32 slot id;
  - `dpuSlot`: `DPU_SLOT_ID`, 0 at start (the `lazy_static`);
  - `bridgeSlot`: ghost, the slot of the `dpu<N>` container whose databases
    the producer bridges opened;
  - `creators`: creators registered;
  - `actors`: actors instantiated; `mbox`: the sink's mailbox;
  - `sinkDead`: the sink's drain task panicked (the `unwrap` of `rt.send`
    at `simple_client.rs:63`);
  - ghosts `arrived`, `delivered`, `answered`.

  Its actions:

  | action | code |
  |--------|------|
  | `Configure` | lines 42-61: `set_dpu_slot_id(SlotId as u8)` (`AsSlotWidth`, `SetDpuSlotId`), then the reads that may exit |
  | `StartEdge` | lines 63-72: runtime, `set_runtime_env`, `start`; may fail |
  | `SpawnBridges` | line 75, `spawn_producer_bridges`, `db_named` naming `dpu<get_dpu_slot_id()>`; may fail |
  | `StartSink` | lines 77-78 |
  | `StartCreator` | line 86, `start_actor_creators`, one creator per step; may fail |
  | `Arrive(i)` | a peer's request for actor `i`: the daemon answers NoRoute before the edge runtime runs; else actor, creator (which creates the actor and reads the env) or sink, as the edge runtime dispatches |
  | `SinkRecv` | one turn of the drain loop (lines 79-84) with `HandleReceivedMessage`; the answer's `rt.send` may fail, which panics the drain task |
- **`MCHamgrd.tla`**: hamgrd on n1 with the four creators main starts (DPU,
  VDPU, HA set, HA scope), and requests from n2 for a DPU actor, an HA-scope
  actor and an address no creator serves. The slot id is 3 in `MCHamgrd.cfg`
  and 259 in `MCHamgrd_slot.cfg`; `SlotWidth = 8` is the u8, and
  `ArgWidth = 10` stands for the u32 (TLC's integers cannot hold 2^32).
  `spawn_producer_bridges` does not call `db_named` in this excerpt; the
  bridge code that does is outside it, so the link from the bridges to
  `dpu<DPU_SLOT_ID>` is inferred from `db_named`'s `is_dpu` branch and the
  DPU tables the bridges serve.
- **`MCSwbus.tla`**
  - Daemons `n1 n2 n3` are model values.
  - Handlers: hamgrd actors on n1 and n3, hamgrd's sink on n2, and the
    management tool on n1.
  - Destinations that do not exist: `n2/hamgrd/a2`, which the sink covers,
    and `n3/gnmi`, which has no handler.
  - Route tables:

    | table | routes |
    |-------|--------|
    | `Direct` | every daemon reaches every node directly |
    | `Looping` | n1 and n2 send n3's traffic to each other |
    | `HalfBroken` | n3 reaches n1 via n2, and n2 has no route to n1 |
    | `NoRouteN3` | n1 has no route to n3 |
    | `Failover` | as `Direct`, but n1 reaches n2 through n3 (2 hops) |

    The failover run lets the n1-n3 connection close, and lets n1 learn n3
    and n2 through n2, n3 learn n1 through n2, and n3 re-announce itself to
    n1 with the hop count of the direct route (a tie).

## 4. Runs

| run | cfg | expect | what it shows |
|-----|-----|--------|---------------|
| looping | `MCSwbus_looping.cfg` | pass | In a routing loop, with n1's actor resending, the ttl ends the loop. It runs out at n1, the sender's own daemon, and the Unreachable answer reaches the sender. Every answer correlates to an own request. |
| stress | `MCSwbus_stress.cfg` | pass | One-slot queues, malformed tool traffic, actors that resend with `send_raw` (the first answer may be in flight) and answer the data requests they get. Tasks panic and queues overflow, and every answer still correlates. |
| failover | `MCSwbus_failover.cfg` | pass | The n1-n3 connection closes with traffic queued while it also carries n1's route to n2. The bus implements `BusAbstract`: every request not lost with it is still resolved, over the routes learned afterwards. No route through it survives. |
| hamgrd | `MCHamgrd.cfg` | pass | At whatever startup step hamgrd is, or fails in, with requests arriving throughout and a sink that may die, the state stays well-typed: the creator loop registers exactly the four creators. |
| pingpong | `MCSwbus_pingpong.cfg` | violation | `Quiescence` fails: n2 and n3 keep answering each other's NoRoute answers. |
| mgmt_panic | `MCSwbus_mgmt_panic.cfg` | violation | `NoDaemonPanic` fails: a management type the daemon does not serve hits the `unwrap()` at `nexthop.rs:116`. |
| impostor | `MCSwbus_impostor.cfg` | violation | `DaemonAnswersOnlyForItself` fails: n1 answers a ping to n3 with Ok in n3's name. |
| ttl_zero | `MCSwbus_ttl_zero.cfg` | violation | `TTLNeverRaised` fails: a ttl-0 envelope leaves n1 with ttl 7 (the wrap of a 3-bit ttl). |
| no_body | `MCSwbus_no_body.cfg` | violation | `ClientsAlive` fails: a bodiless envelope ends n3's actor's task. |
| sink_dies | `MCSwbus_sink_dies.cfg` | violation | `RequestsResolved` fails: the sink's answer meets a full queue, its task panics, and n1's actor's stray is never answered. |
| hamgrd_slot | `MCHamgrd_slot.cfg` | violation | `SlotViewsAgree` fails: with slot id 259, `DPU_SLOT_ID` is 3 and the bridges open dpu3's databases while the actors' runtime env says 259. |

The properties are:

- **`ResponsesAnswerOwnRequests`** (safety). An answer that an actor or the
  tool receives carries the id of one of its own requests. It comes from that
  request's destination, from a daemon (for Unreachable or ResourceExhausted),
  or from the sink that covers the destination.
- **`RequestsResolved`** (liveness). Every request is eventually received by
  an actor or answered to its sender. The one exception is a request the
  daemon drops by design: a body other than ping or management addressed to a
  daemon.
- **`BusRefinement`** (refinement). `Swbus` implements `BusAbstract`: no step
  un-resolves a request or resolves one that was not sent, and, under the
  tasks' fairness, every accepted request is resolved.
- **`TypeOK`** of `Hamgrd`, in the hamgrd run.
- **`SlotViewsAgree`** (safety). The `dpu<N>` container whose databases the
  producer bridges open (`db_named`, from `DPU_SLOT_ID`) is the slot that
  `RuntimeData` hands the actors (`get_slot_id`), both from `args.slot_id`.
  Checked only in the `hamgrd_slot` run, with a slot id the u8 cast changes.

Each property of a passing run has a mutant in `PROJECT.json`: a faulty
variant of a mapped operator that TLC must reject. The mutants:

- the sink drops strays silently (breaks `RequestsResolved`);
- the sink puts its new id in `request_id`;
- an actor's reply carries its own new id as `request_id`;
- `try_queue` accepts messages on a closed connection (they are never read);
- hamgrd's creator loop stops one step late.

A change to the ttl handling of `queue_message` (no decrement, no zero
check) fails `test_queue_message_remote_ttl_expired`. The `ASSUME` then
stops every `MCSwbus` run before any property is checked.

### Findings

1. **`nexthop.rs:99`.** NoRoute is built for responses too. spec.md 7 says
   "responses never beget responses". With a lost route, two daemons exchange
   NoRoute answers forever, and each answer carries a fresh ttl.
2. **`nexthop.rs:116`.** The spec says an unknown management request gets
   InvalidArgs. The code unwraps the Err and panics the task that serves the
   connection.
3. **`nexthop.rs:114`, against spec.md 4.E.** The synthetic local next hop
   answers a ping to any daemon path with Ok, so an unreachable daemon looks
   alive.
4. **`nexthop.rs:68`.** The u32 `ttl -= 1` runs before the zero check. A
   message arriving with ttl 0 (which the header allows) is forwarded with
   the largest ttl in a release build, against spec.md 8's TTL termination.
   A debug build panics the task instead.
5. **`simple_client.rs:74`.** A message without a body ends the client's
   task. spec.md 7 and 9 say a missing field is an InvalidArgs answer.
6. **`simple_client.rs:63`.** An auto-response whose `rt.send` fails (full
   queue) panics the client's task. For hamgrd's sink this ends the drain
   loop, and later strays are never answered.
7. **`main.rs:47`.** `set_dpu_slot_id(args.slot_id as u8)` keeps the low 8
   bits of the u32 slot id. The db containers are named from it, while the
   swbusd configuration, the DPU row and `RuntimeData` use the full id. A
   slot id of 256 or more reads one DPU's configuration and opens another
   DPU's databases.

A request resent with `send_raw` while its first copy is in flight gets two
answers with one `request_id`. spec.md 8 promises one response per request,
so requesters that retry must deduplicate. This is recorded as a hazard.

### Bounds and why they are enough

- **Three daemons.** This is the smallest number for a loop through a third
  node and for a route lost at an intermediate daemon.
- **`DefaultTTL = 3`.** In the loop, n1's request goes n1 → n2 → n1, and
  its third remote step, at n1, takes the ttl to 0. The Unreachable answer
  therefore comes from the sender's own daemon, after a full round of the
  loop.
- **`MaxId`.** Each actor and the tool sends one request per run (two in
  `failover`, where only n1's actor sends: one before the close and one
  after it).
- **Queue sizes.**
  - 3 in the runs where a full queue must not hide a liveness failure.
  - 1 in `stress`, so that ResourceExhausted answers, Err returns and the
    panics of auto-responses all happen.
- **`TTLWidth = 3`.** The ttl wraps to 7, above `DefaultTTL` as 2^32-1 is
  above 63. `OverflowChecks = FALSE` is a release build.
- **Retries and replies.** Each actor resends and answers each request at
  most once. That is enough for a second copy to race the first copy's
  answer. They are off in the liveness runs, which stay small; `stress`
  checks them with both actors.
- **Failover.** One closable connection, the one that carries two of n1's
  routes; the announcements give every purged route a replacement, one
  longer and one a tie. n3's actor answers n1's data requests, so answers
  cross the closed connection too.
- **hamgrd.** Four creators in code order and three addresses (two of
  created types, one stray). Each request arrives once, at any step of
  startup. Slot 3 fits a u8 and is not the initial 0, so a lost
  `set_dpu_slot_id` shows. Slot 259 = 256 + 3 is the smallest kind of id
  the cast changes.
- **Tool traffic.** In each run, the tool's messages cover every branch of
  `process_local_message` and of `handle_received_message` that the run is
  about.

### Fairness

The following have weak fairness:

- each connection's reader task;
- each client's receive loop;
- the tool's reader;
- each end's purge of a closed connection's routes.

Each of these is a tokio task that loops forever on its queue, so it runs
whenever it has input. Senders get no fairness, because actors are never
obliged to send. The purge is the connection task's last act on close.
Closing a connection and learning a route get no fairness: neither is
bound to happen.

In `Hamgrd`, main's startup steps get weak fairness as one action: each
await either completes or fails, and the model offers both outcomes. The
sink's drain loop, a spawned task, also gets weak fairness.

`CHECK_DEADLOCK FALSE` is set in every run. The bus really does go idle once
everyone has sent, and an idle bus is a normal state.

## 5. Not modelled (yet)

- **Not modelled at all:**
  - service-path parsing and formatting;
  - payloads and the route export's contents (only the answer is modelled);
  - longest-prefix matching: a route is per node, so `register_route`'s
    tie-break is between routes to one node;
  - `set_my_routes` and `export_routes` (the local routes are the
    handlers of a node, and `export_routes` only reads);
  - connection setup: every connection exists from the start, and a closed
    one is not reopened;
  - the separate hop from hamgrd's edge runtime to swbusd, which is collapsed
    into the daemon.
- **hamgrd's drain loop ignores `recv()`'s `None`.** A closed channel would
  make it spin. In `main` the edge runtime keeps the sink's sender for the
  life of the process, so the channel never closes.
- **Ctrl+C shutdown** of hamgrd and the creators' actors' own logic.
- **Composing hamgrd with the bus.** `Hamgrd` keeps its own one-daemon
  view of dispatch, and `Swbus` models hamgrd's sink as a handler of n2.
  Composing them adds nothing the two runs don't already check: the sink's
  death (`sink_dies`).
- **The rest of the code.** The edge runtime's dispatch, the multiplexer's
  route table and the connection tasks are not in the excerpt. They are
  modelled from spec.md where the excerpt calls them. The remaining
  unmapped lines are:
  - imports and type definitions;
  - logging and `common_bridge_sp`, which only formats a path;
  - the `test_db_for_table` test, which needs a Redis.
