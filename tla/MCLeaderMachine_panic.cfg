\* As the crash run: one crash, no lockstep, four blocks.  A leader whose
\* peerHandler has decided to replace a lost leader-elect ends its term in
\* nextLeaderHandler before the call is made.
CONSTANTS
    A = A
    B = B
    C = C
    Nil = Nil
    Node <- MCNode
    JoinOrder <- MCJoinOrder
    StartTime <- MCStartTime
    InitLeader = A
    Candidates = {}
    Term = 2
    NotifyDBHeight = 1
    MaxHeight = 4
    MaxCrashes = 1
    Lockstep = FALSE
CHECK_DEADLOCK FALSE
SPECIFICATION Spec
INVARIANT PolicyAtDoneCall
