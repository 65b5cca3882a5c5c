\* Three servers, one of which may crash at any point; blocks sealed in
\* lockstep; A, the first leader, never crashes.  Does block production go
\* on up to MaxHeight?  It stops when
\* the notified next leader crashes before its term: the leader's own
\* roster never marked it LeaderElect.  Deadlock is not checked, since the
\* network can be left with no leader for good.
CONSTANTS
    A = A
    B = B
    C = C
    Nil = Nil
    Node <- MCNode
    JoinOrder <- MCJoinOrder
    StartTime <- MCStartTime
    InitLeader = A
    Candidates = {}
    Term = 2
    NotifyDBHeight = 1
    MaxHeight = 6
    MaxCrashes = 1
    Lockstep = TRUE
CHECK_DEADLOCK FALSE
CONSTRAINT InitLeaderUp
SPECIFICATION Spec
PROPERTY Progress
