\* A federate peer removed by DisconnectNode keeps its federateServers entry
\* until its done message is served; the replenishment loop rejects its
\* address as a duplicate again and again and serves neither that message
\* nor a query until a Stop sets s.shutdown, which the loop tests.
CONSTANTS
    a1 = a1
    a2 = a2
    i1 = i1
    bad = bad
    h1 = h1
    h2 = h2
    g1 = g1
    g2 = g2
    Addrs = {a1, a2, i1}
    InboundAddrs = {i1}
    BadAddrs = {bad}
    HostOf <- MCHostOf
    GroupOf <- MCGroupOf
    KnownAddrs = {a2}
    DefaultPortAddrs = {a1, i1}
    ConnectPeers <- MCConnectPeers
    AddPeers <- MCAddPeers
    MaxPeers = 3
    DefaultMaxOutbound = 2
    MaxTries = 3
    RecentTries = 1
    PortTries = 2
    MaxObjs = 2
SPECIFICATION LiveSpec
PROPERTY ReplenishReturns
