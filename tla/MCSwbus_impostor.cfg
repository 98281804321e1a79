\* n1 has no route to n3 and the tool pings n3.
CONSTANTS
    n1 = n1
    n2 = n2
    n3 = n3
    NoHop = NoHop
    Node <- MCNode
    SvcType <- MCSvcType
    Inst <- MCInst
    DefaultTTL = 3
    TTLWidth = 3
    OverflowChecks = FALSE
    Clients <- MCClients
    Sinks <- MCSinks
    Cli <- MCCli
    CliSends <- CliPingN3
    Senders <- MCActors
    Resenders = {}
    Repliers = {}
    ClientDests <- MCClientDests
    RouteTables <- MCRouteTablesNoRouteN3
    Closable = {}
    Announcements = {}
    QueueSize = 3
    MailboxSize = 3
    MaxId = 1
SPECIFICATION Spec
INVARIANT DaemonAnswersOnlyForItself
CHECK_DEADLOCK FALSE
