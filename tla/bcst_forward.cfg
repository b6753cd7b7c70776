SPECIFICATION Spec
CONSTANTS
    c1 = c1
    c2 = c2
    c3 = c3
    p = p
    q = q
    f = f
    Conns = {c1, c2, c3}
    Peers = {p, q}
    PeerOf <- MCPeerOf
    Hosts = {p, q, f}
    NoHost = NoHost
    ReportsOf <- MCReportsOf
    Lives <- MCLives
    MaxKnown = 1
    QueueLen = 1
    MaxChanges <- MCMaxChanges
INVARIANT BcstInv
PROPERTY StatsConverge
CHECK_DEADLOCK FALSE
