\* Three servers, no crashes, and a block may be sealed before the role
\* messages of the previous one have arrived everywhere.
CONSTANTS
    A = A
    B = B
    C = C
    Nil = Nil
    Node <- MCNode
    JoinOrder <- MCJoinOrder
    StartTime <- MCStartTime
    InitLeader = A
    Candidates = {}
    Term = 2
    NotifyDBHeight = 1
    MaxHeight = 7
    MaxCrashes = 0
    Lockstep = FALSE
\* The network stalls when the hand-off is missed; Handoff reports it.
CHECK_DEADLOCK FALSE
SPECIFICATION Spec
PROPERTY Handoff
