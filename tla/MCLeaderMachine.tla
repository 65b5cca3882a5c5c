--------------------------- MODULE MCLeaderMachine ---------------------------
(***************************************************************************)
(* Instantiates LeaderMachine for TLC with three federate servers A, B, C. *)
(* Every server joined the others in the order A, B, C; A is InitLeader.  *)
(***************************************************************************)
EXTENDS LeaderMachine

CONSTANTS A, B, C

MCNode == {A, B, C}
MCJoinOrder == [n \in MCNode |-> <<A, B, C>>]

\* Distinct start times, C the oldest of the servers that do not lead.
MCStartTime == [n \in MCNode |-> IF n = A THEN 1 ELSE IF n = B THEN 3 ELSE 2]

\* State constraint: the first leader never crashes, so any crash is of a
\* server that does not lead yet.
InitLeaderUp == A \in alive

=============================================================================
