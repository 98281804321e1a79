\* A connection closes with traffic queued on it, routes are purged and
\* learned again the long way round: what is not lost still resolves.
CONSTANTS
    n1 = n1
    n2 = n2
    n3 = n3
    NoHop = NoHop
    Node <- MCNode
    SvcType <- MCSvcType
    Inst <- MCInst
    DefaultTTL = 3
    TTLWidth = 3
    OverflowChecks = FALSE
    Clients <- MCClients
    Sinks <- MCSinks
    Cli <- MCCli
    CliSends = {}
    Senders <- MCSendersN1
    Resenders = {}
    Repliers <- MCRepliersN3
    ClientDests <- MCClientDests
    RouteTables <- MCRouteTablesFailover
    Closable <- MCClosable
    Announcements <- MCAnnouncements
    QueueSize = 3
    MailboxSize = 3
    MaxId = 2
SPECIFICATION Spec

PROPERTY BusRefinement
CHECK_DEADLOCK FALSE
