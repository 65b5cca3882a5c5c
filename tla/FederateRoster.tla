--------------------------- MODULE FederateRoster ---------------------------
(***************************************************************************)
(* The federate-server roster of ONE server (server.federateServers in     *)
(* server.go, part of src/common/cchain.go) and the role queries and role  *)
(* mutators the server runs over it.                                       *)
(*                                                                         *)
(* A view r is a function from the federate servers this server knows to   *)
(* the nodeState of the peer object it holds for each of them.  The slice  *)
(* order matters to GetPeer, which returns the FIRST holder of a role, and *)
(* to the stable sorts: newServer appends the server's own entry first,    *)
(* and the others follow in the order they joined, JoinOrder[self].        *)
(***************************************************************************)
EXTENDS Naturals, Sequences, FiniteSets

CONSTANTS
    Node,       \* federate server ids (nodeID)
    JoinOrder,  \* JoinOrder[n]: order in which the other servers joined n
    Nil         \* the nil *peer / the empty nodeID ""

ASSUME JoinOrder \in [Node -> Seq(Node)]

\* wire.NodeState values.
Candidate   == "Candidate"
Follower    == "Follower"
LeaderElect == "LeaderElect"
Leader      == "Leader"
LeaderPrev  == "LeaderPrev"
Roles == {Candidate, Follower, LeaderElect, Leader, LeaderPrev}

\* s.federateServers of server n whose view is r, as a sequence of ids.
RosterSeq(n, r) ==
    <<n>> \o SelectSeq(JoinOrder[n], LAMBDA m : m # n /\ m \in DOMAIN r)

\* GetPeer(ns): the first federate server in roster order holding role ns.
GetPeer(n, r, ns) ==
    LET holders == SelectSeq(RosterSeq(n, r), LAMBDA m : r[m] = ns)
    IN  IF holders = <<>> THEN Nil ELSE Head(holders)

\* Demotes the first holder of role ns (if any) to role to.
LOCAL Demote(n, r, ns, to) ==
    LET p == GetPeer(n, r, ns)
    IN  IF p = Nil THEN r ELSE [r EXCEPT ![p] = to]

\* Gives role ns to pid when GetPeerByID finds it, else leaves r alone.
LOCAL Assign(r, pid, ns) ==
    IF pid \in DOMAIN r THEN [r EXCEPT ![pid] = ns] ELSE r

\* SetLeaderPeer(p): the current leader becomes LeaderPrev, p the leader.
\* The LeaderPrev already there, if any, keeps its role.
SetLeaderPeer(n, r, p) ==
    [Demote(n, r, Leader, LeaderPrev) EXCEPT ![p] = Leader]

\* Mutant: assigns Leader without demoting the current holder.
SetLeaderPeerByIDKeepLeader(n, r, pid) == Assign(r, pid, Leader)

\* SetLeaderPeerByID(pid): as SetLeaderPeer, for an id that may be absent.
SetLeaderPeerByID(n, r, pid) ==
    Assign(Demote(n, r, Leader, LeaderPrev), pid, Leader)

\* setLeaderElectByID(pid): the current leader-elect becomes a Follower.
setLeaderElectByID(n, r, pid) ==
    Assign(Demote(n, r, LeaderElect, Follower), pid, LeaderElect)

\* SetPrevLeaderByID(pid): the current previous leader becomes a Follower.
SetPrevLeaderByID(n, r, pid) ==
    Assign(Demote(n, r, LeaderPrev, Follower), pid, LeaderPrev)

\* nonCandidateServers: the roster minus the servers still Candidate.
nonCandidateServers(r) == {m \in DOMAIN r : r[m] # Candidate}

\* sort.Sort(By...(S)) followed by taking the first element: the member of
\* S with the least key, equal keys in roster order.  sort.Sort runs a
\* plain insertion sort on slices this short, and that is stable.
SortedHead(n, r, S, key) ==
    Head(SelectSeq(RosterSeq(n, r),
                   LAMBDA m : m \in S /\ \A o \in S : key[m] <= key[o]))

=============================================================================
