\* The tool sends a ping with ttl 0 to n3 over n1 (release build, no
\* overflow checks): the ttl wraps instead of expiring.
CONSTANTS
    n1 = n1
    n2 = n2
    n3 = n3
    NoHop = NoHop
    Node <- MCNode
    SvcType <- MCSvcType
    Inst <- MCInst
    DefaultTTL = 3
    TTLWidth = 3
    OverflowChecks = FALSE
    Clients <- MCClients
    Sinks <- MCSinks
    Cli <- MCCli
    CliSends <- CliPingTTLZero
    Senders <- MCActors
    Resenders = {}
    Repliers = {}
    ClientDests <- MCClientDests
    RouteTables <- MCRouteTablesDirect
    Closable = {}
    Announcements = {}
    QueueSize = 3
    MailboxSize = 3
    MaxId = 1
SPECIFICATION Spec
INVARIANT TTLNeverRaised
CHECK_DEADLOCK FALSE
