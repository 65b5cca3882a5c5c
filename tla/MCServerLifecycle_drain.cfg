\* One connection more than the newPeers buffer holds: a listener blocked
\* in AddPeer after peerHandler has taken the quit case never returns.
\* The process ends when main returns, so a final state is not a deadlock.
CONSTANTS
    l1 = l1
    l2 = l2
    ListenOrder <- MCListenOrder
    UseNAT = TRUE
    MaxPeers = 1
    MaxConns = 2
    CloseFails = TRUE
SPECIFICATION Spec
PROPERTY QuitEndsTasks
CHECK_DEADLOCK FALSE
