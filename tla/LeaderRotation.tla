--------------------------- MODULE LeaderRotation ---------------------------
(***************************************************************************)
(* What the leader machine promises a federation without failures (spec,   *)
(* section on the LeaderMachine): one leader at a time seals blocks; its    *)
(* term is Term blocks long; when its term ends the leadership passes to   *)
(* the next federate server in round-robin order, and the new leader's     *)
(* term starts at the next height.  The first leader's term starts at      *)
(* FirstStart and also covers the heights before it.                       *)
(***************************************************************************)
EXTENDS Naturals, Sequences

CONSTANTS Node,         \* the federate servers
          Ring,         \* the round-robin order, a sequence of Node
          InitLeader,   \* the first leader
          FirstStart,   \* the first height of InitLeader's term
          Term,         \* blocks per term
          MaxHeight     \* bound on the sealed height

VARIABLES leader,       \* the server that seals the next block
          start,        \* the first height of leader's term
          tip           \* the last sealed height

vars == <<leader, start, tip>>

\* position of n in Ring, and the server after it, cyclically
Pos(n)    == CHOOSE i \in DOMAIN Ring : Ring[i] = n
NextOf(n) == Ring[(Pos(n) % Len(Ring)) + 1]

TermEnd == start + Term - 1

Init == /\ leader = InitLeader
        /\ start = FirstStart
        /\ tip = 0

\* The leader seals a block of its term.
Seal == /\ tip < MaxHeight
        /\ tip < TermEnd
        /\ tip' = tip + 1
        /\ UNCHANGED <<leader, start>>

\* After the last block of the term the next server takes over.
Handover == /\ tip = TermEnd
            /\ leader' = NextOf(leader)
            /\ start' = start + Term
            /\ UNCHANGED tip

Next == Seal \/ Handover

Spec == Init /\ [][Next]_vars /\ WF_vars(Seal) /\ WF_vars(Handover)
=============================================================================
