\* Two listeners, UPnP on, a newPeers buffer of two and at most two
\* connections, so that a listener is never blocked on a full buffer;
\* listener.Close() may fail.  The process ends when main returns, so a
\* final state is not a deadlock.
CONSTANTS
    l1 = l1
    l2 = l2
    ListenOrder <- MCListenOrder
    UseNAT = TRUE
    MaxPeers = 2
    MaxConns = 2
    CloseFails = TRUE
SPECIFICATION Spec
INVARIANT TypeOK
INVARIANT QuitClosedOnce
PROPERTY QuitEndsTasks
CHECK_DEADLOCK FALSE
