\* Three servers, one of which may crash at any point; blocks sealed as
\* soon as a server believes it leads, with heights and messages still in
\* flight (no lockstep).  The code can leave the network without a live
\* leader for good, and then no block is sealed: deadlock is not checked.
CONSTANTS
    A = A
    B = B
    C = C
    Nil = Nil
    Node <- MCNode
    JoinOrder <- MCJoinOrder
    StartTime <- MCStartTime
    InitLeader = A
    Candidates = {}
    Term = 2
    NotifyDBHeight = 1
    MaxHeight = 4
    MaxCrashes = 1
    Lockstep = FALSE
CHECK_DEADLOCK FALSE
SPECIFICATION Spec
INVARIANT UniqueLeaderAndElect
INVARIANT RoleHasPolicy
