\* Three peer objects and room for one peer: the peer maps, the group
\* counts and the MaxPeers limit on every path that adds a peer (inbound,
\* ConnectNode, replenishment, persistent reconnect).
CONSTANTS
    a1 = a1
    a2 = a2
    i1 = i1
    bad = bad
    h1 = h1
    h2 = h2
    g1 = g1
    g2 = g2
    Addrs = {a1, a2, i1}
    InboundAddrs = {i1}
    BadAddrs = {bad}
    HostOf <- MCHostOf
    GroupOf <- MCGroupOf
    KnownAddrs = {a2}
    DefaultPortAddrs = {a1, i1}
    ConnectPeers <- MCConnectPeers
    AddPeers <- MCAddPeers
    MaxPeers = 1
    DefaultMaxOutbound = 2
    MaxTries = 3
    RecentTries = 1
    PortTries = 2
    MaxObjs = 3
SPECIFICATION Spec
INVARIANT TypeOK
INVARIANT GroupsConsistent
INVARIANT NoDeadEntries
INVARIANT CountBounded
