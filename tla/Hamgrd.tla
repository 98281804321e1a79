-------------------------------- MODULE Hamgrd --------------------------------
(***************************************************************************)
(* One hamgrd process (hamgrd/src/main.rs) from its start to its wait for  *)
(* Ctrl+C, with the data requests a peer sends to its actors meanwhile.    *)
(*                                                                         *)
(* main runs one step after the other: read the configuration, start the  *)
(* edge runtime with the runtime env set, spawn the producer bridges,      *)
(* register the sink and spawn its drain loop, then start the actor        *)
(* creators one by one.  Every step but the sink can fail (unwrap, the     *)
(* exit(1) when no cluster route is configured), which ends the process.  *)
(* A request for an actor is dispatched by the edge runtime to the actor,  *)
(* else to the creator of its kind (which creates the actor, reading the   *)
(* runtime env, and hands it the request), else to the sink, which answers *)
(* NoRoute.  Dispatch by prefix belongs to the edge runtime, which is not  *)
(* in this excerpt; it follows spec.md 4.F and 4.G.                        *)
(***************************************************************************)
EXTENDS SimpleClient, FiniteSets, Integers

CONSTANTS
    Self,          \* swbus_sp: <node, "hamgrd", ""> (service id "0")
    Peer,          \* the service path of an actor elsewhere that sends requests
    ActorInsts,    \* addresses of actors below Self
    ActorKind,     \* ActorKind[i]: the actor type address i belongs to
    CreatorOrder,  \* the actor types start_actor_creators starts, in order
    ReqNo,         \* ReqNo[i]: the peer's id counter for its request to i
    SlotId,        \* args.slot_id, the -s argument hamgrd is started with
    SlotWidth,     \* the bits of DPU_SLOT_ID (a u8: 8)
    ArgWidth       \* the bits of args.slot_id (a u32: 32; less for TLC's integers)

\* Lines 31-38, struct Args: the slot id is parsed as a u32.
U32 == 0..(2^ArgWidth - 1)

ASSUME ReqNo \in [ActorInsts -> Nat] /\ \A i, j \in ActorInsts : ReqNo[i] = ReqNo[j] => i = j
ASSUME ArgWidth \in 1..30 /\ SlotWidth \in 1..ArgWidth /\ SlotId \in U32

Stages == {"config", "edge", "bridges", "sink", "creators", "running", "exited"}

ActorSP(i) == [Self EXCEPT !.inst = i]
Request(i) == NewRequest(Peer, ActorSP(i), <<Peer, ReqNo[i]>>, "Data", "none")
SinkId == <<Self, 0>>    \* the sink's generated ids, collapsed

NoEnv == <<>>            \* get_runtime_env(): None, or <<RuntimeData>>
NoSlot == -1             \* no DPU database opened yet

\* Lines 183-206: RuntimeData::new keeps the slot id as the u32 it is given.
RuntimeDataNew(dpu_id) == [dpu_id |-> dpu_id]

\* Lines 28-30: the lazy_static DPU_SLOT_ID, a Mutex<u8> holding 0.
DpuSlotIdInit == 0

\* Line 47, `args.slot_id as u8`: a cast that keeps the low SlotWidth bits.
AsSlotWidth(x) == x % 2^SlotWidth

VARIABLES
    pc,          \* the step main is at
    env,         \* the edge runtime's runtime env: NoEnv or a RuntimeData
    dpuSlot,     \* DPU_SLOT_ID
    bridgeSlot,  \* ghost: the slot of the dpu<N> container the bridges opened
    creators,    \* how many actor creators are registered
    actors,      \* the actor addresses instantiated by creators
    mbox,        \* the sink's mailbox
    arrived,     \* ghost: addresses the peer's request reached
    delivered,   \* ghost: addresses whose actor received the request
    answered,    \* ghost: the responses the peer received
    sinkDead     \* whether the sink's drain task panicked

vars == <<pc, env, dpuSlot, bridgeSlot, creators, actors, mbox, arrived, delivered, answered, sinkDead>>

Init ==
    /\ pc = "config" /\ env = NoEnv /\ creators = 0 /\ actors = {}
    /\ dpuSlot = DpuSlotIdInit /\ bridgeSlot = NoSlot
    /\ mbox = <<>> /\ arrived = {} /\ delivered = {} /\ answered = {}
    /\ sinkDead = FALSE

\* Lines 92-95: set_dpu_slot_id stores its u8 under the mutex.
SetDpuSlotId(slot_id) == dpuSlot' = slot_id

\* Lines 97-100: get_dpu_slot_id reads it back.
GetDpuSlotId == dpuSlot

\* Lines 42-61: parse args, set DPU_SLOT_ID to the slot id cast to u8, load
\* the db and swbusd configuration for the u32 slot id (unwrap), exit(1)
\* without a cluster route, read the DPU row of the u32 slot id.
Configure ==
    /\ pc = "config"
    /\ SetDpuSlotId(AsSlotWidth(SlotId))
    /\ \E ok \in BOOLEAN : pc' = IF ok THEN "edge" ELSE "exited"
    /\ UNCHANGED <<env, bridgeSlot, creators, actors, mbox, arrived, delivered, answered, sinkDead>>

\* Lines 63-72: build RuntimeData, SwbusEdgeRuntime::new, set_runtime_env,
\* start().await.unwrap(), the global actor runtime.  RuntimeData gets the
\* u32 slot id.
StartEdge ==
    /\ pc = "edge"
    /\ \E ok \in BOOLEAN : pc' = IF ok THEN "bridges" ELSE "exited"
    /\ env' = <<RuntimeDataNew(SlotId)>>
    /\ UNCHANGED <<dpuSlot, bridgeSlot, creators, actors, mbox, arrived, delivered, answered, sinkDead>>

\* Line 75 with spawn_producer_bridges and db_named: three bridges, each
\* after a connection to a DPU table's db in container dpu<get_dpu_slot_id()>
\* that may time out (5 s); `?` then unwrap.
SpawnBridges ==
    /\ pc = "bridges"
    /\ \E ok \in BOOLEAN :
         /\ pc' = IF ok THEN "sink" ELSE "exited"
         /\ bridgeSlot' = IF ok THEN GetDpuSlotId ELSE bridgeSlot
    /\ UNCHANGED <<env, dpuSlot, creators, actors, mbox, arrived, delivered, answered, sinkDead>>

\* Lines 77-84: SimpleSwbusEdgeClient::new(.., swbus_sp, public, sink)
\* registers the handler, and the drain loop is spawned.
StartSink ==
    /\ pc = "sink"
    /\ pc' = "creators"
    /\ UNCHANGED <<env, dpuSlot, bridgeSlot, creators, actors, mbox, arrived, delivered, answered, sinkDead>>

\* A faulty variant of StartCreator (below): the loop over the creators
\* stops one step late.
StartCreatorOffByOne ==
    /\ pc = "creators"
    /\ \E ok \in BOOLEAN :
         IF ok
         THEN /\ creators' = creators + 1
              /\ pc' = IF creators = Len(CreatorOrder) THEN "running" ELSE "creators"
         ELSE /\ pc' = "exited" /\ UNCHANGED creators
    /\ UNCHANGED <<env, dpuSlot, bridgeSlot, actors, mbox, arrived, delivered, answered, sinkDead>>

\* Line 86 and start_actor_creators: each creator is awaited in turn; the
\* first Err ends the process through unwrap.
StartCreator ==
    /\ pc = "creators"
    /\ \E ok \in BOOLEAN :
         IF ok
         THEN /\ creators' = creators + 1
              /\ pc' = IF creators + 1 = Len(CreatorOrder) THEN "running" ELSE "creators"
         ELSE /\ pc' = "exited" /\ UNCHANGED creators
    /\ UNCHANGED <<env, dpuSlot, bridgeSlot, actors, mbox, arrived, delivered, answered, sinkDead>>

SinkUp == pc \in {"creators", "running"}
EdgeUp == pc \in {"bridges", "sink", "creators", "running"}
HasCreator(i) == \E k \in 1..creators : CreatorOrder[k] = ActorKind[i]

\* get_slot_id / get_npu_ipv4 / get_npu_ipv6 as a new actor calls them:
\* runtime_env.as_ref().unwrap() panics while no env is set.
RuntimeEnvReadable == env # NoEnv

\* The peer's request for address i reaches the node.  Without a running
\* edge runtime the daemon has no route to hamgrd and answers NoRoute.
Arrive(i) ==
    /\ i \notin arrived
    /\ arrived' = arrived \cup {i}
    /\ LET q == Request(i)
           noRoute == ClientResponse(DaemonSP(Self.node), q, "NoRoute", <<DaemonSP(Self.node), 0>>)
       IN  CASE ~EdgeUp ->
                  /\ answered' = answered \cup {noRoute}
                  /\ UNCHANGED <<actors, mbox, delivered, sinkDead>>
             [] i \in actors ->
                  /\ delivered' = delivered \cup {i}
                  /\ UNCHANGED <<actors, mbox, answered, sinkDead>>
             [] HasCreator(i) ->
                  /\ actors' = IF RuntimeEnvReadable THEN actors \cup {i} ELSE actors
                  /\ delivered' = IF RuntimeEnvReadable THEN delivered \cup {i} ELSE delivered
                  /\ UNCHANGED <<mbox, answered, sinkDead>>
             [] SinkUp ->
                  /\ mbox' = Append(mbox, q)
                  /\ UNCHANGED <<actors, delivered, answered, sinkDead>>
             [] OTHER ->
                  /\ answered' = answered \cup {noRoute}
                  /\ UNCHANGED <<actors, mbox, delivered, sinkDead>>
    /\ UNCHANGED <<pc, env, dpuSlot, bridgeSlot, creators>>

\* One turn of the drain loop: sink.recv() answers a request for an address
\* other than its own with NoRoute (simple_client.rs handle_received_message)
\* through rt.send(..).await.unwrap() (simple_client.rs line 63).  The send
\* fails when the queue toward the requester is full or closed, which this
\* model does not see: either outcome may happen, and a failure panics the
\* drain task while the process lives on.
SinkRecv ==
    /\ SinkUp /\ ~sinkDead /\ mbox # <<>>
    /\ \E r \in {HandleReceivedMessage(Self, TRUE, Head(mbox), SinkId)}, sendOk \in BOOLEAN :
         IF r.kind = "respond" /\ ~sendOk
         THEN sinkDead' = TRUE /\ UNCHANGED answered
         ELSE /\ answered' = IF r.kind = "respond" THEN answered \cup {r.msg} ELSE answered
              /\ UNCHANGED sinkDead
    /\ mbox' = Tail(mbox)
    /\ UNCHANGED <<pc, env, dpuSlot, bridgeSlot, creators, actors, arrived, delivered>>

Startup == Configure \/ StartEdge \/ SpawnBridges \/ StartSink \/ StartCreator

Next == Startup \/ (\E i \in ActorInsts : Arrive(i)) \/ SinkRecv

\* main's awaits complete or fail, and the drain loop is a task of its own.
Spec == Init /\ [][Next]_vars /\ WF_vars(Startup) /\ WF_vars(SinkRecv)

-----------------------------------------------------------------------------
TypeOK ==
    /\ pc \in Stages /\ env \in {NoEnv} \cup {<<r>> : r \in [dpu_id : U32]} /\ creators \in 0..Len(CreatorOrder)
    /\ actors \subseteq ActorInsts /\ mbox \in Seq(Msg)
    /\ arrived \subseteq ActorInsts /\ delivered \subseteq arrived
    /\ answered \subseteq Msg /\ sinkDead \in BOOLEAN
    /\ dpuSlot \in 0..(2^SlotWidth - 1) /\ bridgeSlot \in {NoSlot} \cup 0..(2^SlotWidth - 1)

\* The producer bridges open the databases of the DPU hamgrd serves: the
\* container dpu<N> that db_named names from DPU_SLOT_ID (line 104) is the
\* slot whose configuration main read and whose id the actors get from the
\* runtime env (get_slot_id, line 165), both the u32 args.slot_id.
SlotViewsAgree ==
    bridgeSlot # NoSlot => RuntimeEnvReadable /\ bridgeSlot = env[1].dpu_id
=============================================================================
