------------------------------- MODULE MCSwbus -------------------------------
(***************************************************************************)
(* Instances of Swbus for TLC: three daemons n1, n2, n3; a hamgrd actor on *)
(* n1 and on n3; hamgrd's sink on n2 (as main.rs registers it); the        *)
(* management tool on n1.                                                  *)
(***************************************************************************)
EXTENDS Swbus, NextHopTests, TLC

CONSTANTS n1, n2, n3

MCNode == {n1, n2, n3}
MCSvcType == {"hamgrd", "gnmi", "cli"}
MCInst == {"a1", "a2"}

SP(n, s, i) == [node |-> n, svc |-> s, inst |-> i]

ActorN1 == SP(n1, "hamgrd", "a1")
ActorN3 == SP(n3, "hamgrd", "a1")
SinkN2  == SP(n2, "hamgrd", "")
MCCli   == SP(n1, "cli", "")

MCClients == {ActorN1, ActorN3, SinkN2}
MCSinks == {SinkN2}
MCActors == {ActorN1, ActorN3}
\* Under the looping table only n1's actor sends: answers to n3 would
\* circle between n1 and n2 themselves.
MCSendersN1 == {ActorN1}
MCRepliersN3 == {ActorN3}

\* An actor on n2 that does not exist (the sink answers for it) and a
\* service on n3 that has no handler (n3's local next hop answers).
Absent2 == SP(n2, "hamgrd", "a2")
Absent3 == SP(n3, "gnmi", "")

MCClientDests == {ActorN3, Absent2, Absent3}

Req(dst, body, mgmt) == [dst |-> dst, body |-> body, mgmt |-> mgmt, ttl |-> DefaultTTL]

\* Tool traffic every daemon serves.
CliServed ==
    { Req(DaemonSP(n2), "Ping", "none"), Req(DaemonSP(n3), "Mgmt", "GetRoutes"),
      Req(ActorN3, "Trace", "none"), Req(Absent2, "Ping", "none") }

\* Tool traffic that reaches the daemons' and clients' error paths: a
\* management type the daemon does not serve, one that does not decode,
\* and messages without a body.
CliMalformed ==
    { Req(DaemonSP(n2), "Mgmt", "OtherType"), Req(ActorN3, "Mgmt", "Undecodable"),
      Req(ActorN3, "None", "none"), Req(DaemonSP(n3), "Data", "none") }

CliAll == CliServed \cup CliMalformed
CliMgmtOther == {Req(DaemonSP(n2), "Mgmt", "OtherType")}
CliPingN3 == {Req(DaemonSP(n3), "Ping", "none")}
\* A raw envelope whose ttl is 0 (the header allows ttl >= 0).
CliPingTTLZero == {[Req(DaemonSP(n3), "Ping", "none") EXCEPT !.ttl = 0]}
\* A raw envelope without a body for n3's actor.
CliNoBody == {Req(ActorN3, "None", "none")}
\* A ping to an actor of n2 that does not exist: n2's sink answers it.
CliPingAbsent2 == {Req(Absent2, "Ping", "none")}
MCAbsent2 == {Absent2}

\* Route tables.  Direct: every daemon reaches every node over its own
\* connection.  Looping: n1 and n2 each send n3's traffic to the other.
\* HalfBroken: n3 reaches n1 through n2, and n2 has lost its route to n1.
Direct == [d \in MCNode |-> [n \in MCNode |-> Via(n, 1)]]
Looping == [Direct EXCEPT ![n1][n3] = Via(n2, 2), ![n2][n3] = Via(n1, 2)]
HalfBroken == [Direct EXCEPT ![n3][n1] = Via(n2, 2), ![n2][n1] = Unrouted]
\* NoRouteN3: n1 has no route to n3.
NoRouteN3 == [Direct EXCEPT ![n1][n3] = Unrouted]

\* Failover: n1 reaches n2 through n3 as well, so the connection between
\* n1 and n3 carries two of n1's routes.  When it closes, n1 and n3 may
\* learn the longer way round through n2; n3 re-announcing itself to n1
\* ties with the direct route.
Failover == [Direct EXCEPT ![n1][n2] = Via(n3, 2)]
MCClosable == {<<n1, n3>>}
Announce(at, n, p, h) == [at |-> at, node |-> n, peer |-> p, hops |-> h]
MCAnnouncements ==
    { Announce(n1, n3, n2, 2), Announce(n3, n1, n2, 2), Announce(n1, n2, n2, 1),
      Announce(n1, n3, n3, 1) }
MCRouteTablesFailover == {Failover}

MCRouteTablesDirect == {Direct}
MCRouteTablesLooping == {Looping}
MCRouteTablesHalfBroken == {HalfBroken}
MCRouteTablesNoRouteN3 == {NoRouteN3}
\* queue_message passes the unit tests of nexthop.rs (mod tests) for every
\* choice of the tests' addresses among the model's nodes, service types and
\* instances.  The tests depend on no variable, so TLC checks them once, as
\* an assumption, before every run of this module.
ASSUME NextHopTests
=============================================================================
