\* n1 and n2 forward n3 traffic to each other: TTL expiry must answer.
CONSTANTS
    n1 = n1
    n2 = n2
    n3 = n3
    NoHop = NoHop
    Node <- MCNode
    SvcType <- MCSvcType
    Inst <- MCInst
    DefaultTTL = 3
    TTLWidth = 3
    OverflowChecks = FALSE
    Clients <- MCClients
    Sinks <- MCSinks
    Cli <- MCCli
    CliSends <- CliServed
    Senders <- MCSendersN1
    Resenders <- MCSendersN1
    Repliers <- MCActors
    ClientDests <- MCClientDests
    RouteTables <- MCRouteTablesLooping
    Closable = {}
    Announcements = {}
    QueueSize = 3
    MailboxSize = 3
    MaxId = 1
SPECIFICATION Spec
INVARIANT ResponsesAnswerOwnRequests
PROPERTY RequestsResolved
CHECK_DEADLOCK FALSE
