\* Strays for n2 from n1 (an actor and the tool), one-slot connection queues:
\* the sink answers them with rt.send(..).unwrap().
CONSTANTS
    n1 = n1
    n2 = n2
    n3 = n3
    NoHop = NoHop
    Node <- MCNode
    SvcType <- MCSvcType
    Inst <- MCInst
    DefaultTTL = 3
    TTLWidth = 3
    OverflowChecks = FALSE
    Clients <- MCClients
    Sinks <- MCSinks
    Cli <- MCCli
    CliSends <- CliPingAbsent2
    Senders <- MCSendersN1
    Resenders = {}
    Repliers = {}
    ClientDests <- MCAbsent2
    RouteTables <- MCRouteTablesDirect
    Closable = {}
    Announcements = {}
    QueueSize = 1
    MailboxSize = 2
    MaxId = 1
SPECIFICATION Spec
PROPERTY RequestsResolved
CHECK_DEADLOCK FALSE
