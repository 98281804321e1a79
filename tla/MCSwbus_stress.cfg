\* Queues of one slot, malformed tool traffic, actors that resend requests and
\* answer the data requests they get: tasks panic, answers stay correct.
CONSTANTS
    n1 = n1
    n2 = n2
    n3 = n3
    NoHop = NoHop
    Node <- MCNode
    SvcType <- MCSvcType
    Inst <- MCInst
    DefaultTTL = 3
    TTLWidth = 3
    OverflowChecks = FALSE
    Clients <- MCClients
    Sinks <- MCSinks
    Cli <- MCCli
    CliSends <- CliAll
    Senders <- MCActors
    Resenders <- MCActors
    Repliers <- MCActors
    ClientDests <- MCClientDests
    RouteTables <- MCRouteTablesDirect
    Closable = {}
    Announcements = {}
    QueueSize = 1
    MailboxSize = 1
    MaxId = 1
SPECIFICATION Spec
INVARIANT ResponsesAnswerOwnRequests
CHECK_DEADLOCK FALSE
