\* n2 lost its route to n1: NoRoute answers to answers circulate forever.
CONSTANTS
    n1 = n1
    n2 = n2
    n3 = n3
    NoHop = NoHop
    Node <- MCNode
    SvcType <- MCSvcType
    Inst <- MCInst
    DefaultTTL = 3
    TTLWidth = 3
    OverflowChecks = FALSE
    Clients <- MCClients
    Sinks <- MCSinks
    Cli <- MCCli
    CliSends <- CliServed
    Senders <- MCActors
    Resenders = {}
    Repliers = {}
    ClientDests <- MCClientDests
    RouteTables <- MCRouteTablesHalfBroken
    Closable = {}
    Announcements = {}
    QueueSize = 3
    MailboxSize = 3
    MaxId = 1
SPECIFICATION Spec
PROPERTY Quiescence
CHECK_DEADLOCK FALSE
