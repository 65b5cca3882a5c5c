\* As the lifecycle run: no listener is ever blocked on newPeers, but a
\* listener.Close() may fail.  Stop then returns its error before close(s.quit),
\* and the gate turns the scheduler's later Stop into a no-op.
\* The process ends when main returns, so a final state is not a deadlock.
CONSTANTS
    l1 = l1
    l2 = l2
    ListenOrder <- MCListenOrder
    UseNAT = TRUE
    MaxPeers = 2
    MaxConns = 2
    CloseFails = TRUE
SPECIFICATION Spec
PROPERTY StopEndsServer
CHECK_DEADLOCK FALSE
