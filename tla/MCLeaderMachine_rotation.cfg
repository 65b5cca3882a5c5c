\* Three servers, no crashes, blocks sealed in lockstep: the scheduled
\* round-robin hand-off A -> B -> C -> A.
CONSTANTS
    A = A
    B = B
    C = C
    Nil = Nil
    Node <- MCNode
    JoinOrder <- MCJoinOrder
    StartTime <- MCStartTime
    InitLeader = A
    Candidates = {}
    Term = 2
    NotifyDBHeight = 1
    MaxHeight = 7
    MaxCrashes = 0
    Lockstep = TRUE
SPECIFICATION Spec
INVARIANT TypeOK
INVARIANT UniqueLeaderAndElect
INVARIANT RoleHasPolicy
INVARIANT NoOverlappingTerms
INVARIANT AgreedLeader
PROPERTY Handoff
PROPERTY ImplementsRotation
