\* Three servers, one of which may crash at any point; blocks sealed in
\* lockstep.  The code can leave the network without a live leader for
\* good (the survivors demote each other after a double claim, or no
\* survivor takes over), and then no block is sealed: deadlock is not
\* checked.
CONSTANTS
    A = A
    B = B
    C = C
    Nil = Nil
    Node <- MCNode
    JoinOrder <- MCJoinOrder
    StartTime <- MCStartTime
    InitLeader = A
    Candidates = {}
    Term = 2
    NotifyDBHeight = 1
    MaxHeight = 6
    MaxCrashes = 1
    Lockstep = TRUE
CHECK_DEADLOCK FALSE
SPECIFICATION Spec
INVARIANT NoOverlappingTerms
