---------------------------- MODULE LeaderMachine ----------------------------
(***************************************************************************)
(* The leader-policy state machine of a federation of servers (server.go,  *)
(* part of src/common/cchain.go): every server runs handleNextLeader on    *)
(* each sealed directory-block height, and on the loss of a federate peer  *)
(* handleDonePeerMsg re-elects the leader-elect or the leader.  Servers    *)
(* tell each other about role changes with NextLeader and CurrentLeader    *)
(* messages, broadcast to the peers they are connected to.                 *)
(*                                                                         *)
(* Each server n has its own roster view role[n] (FederateRoster), its own *)
(* LeaderLast figures leaderLast[n], its myLeaderPolicy policy[n], and its *)
(* global leaderCrashed flag.  Three steps belong to code that is not      *)
(* under src/ (the processor and the message dispatch) and are modelled    *)
(* from the spec: sealing a block, and receiving the two messages.         *)
(***************************************************************************)
EXTENDS FederateRoster

CONSTANTS
    InitLeader,      \* the server started with App.InitLeader
    Candidates,      \* servers still Candidate (not yet synced)
    StartTime,       \* StartTime[n]: federateServer.StartTime of n
    Term,            \* defaultLeaderTerm
    NotifyDBHeight,  \* defaultNotifyDBHeight
    MaxHeight,       \* bound on the sealed height
    MaxCrashes,      \* bound on the number of servers that crash
    Lockstep         \* TRUE: a block is sealed only once every live
                     \* server has handled the previous one and every
                     \* role message has arrived

ASSUME /\ InitLeader \in Node
       /\ Candidates \subseteq Node \ {InitLeader}
       /\ StartTime \in [Node -> Nat]
       /\ Term \in Nat \ {0} /\ NotifyDBHeight \in Nat \ {0}
       /\ MaxHeight \in Nat /\ MaxCrashes \in Nat /\ Lockstep \in BOOLEAN

VARIABLES
    alive,          \* servers that are running
    role,           \* role[n]: n's roster, federate server -> nodeState
    leaderLast,     \* leaderLast[n][m]: LeaderLast of m's entry at n
    policy,         \* policy[n]: n's myLeaderPolicy, or Nil
    leaderCrashed,  \* leaderCrashed[n]: the package flag of server n
    height,         \* height[n]: last height n's nextLeaderHandler took
    tip,            \* height of the last sealed directory block
    msgs,           \* NextLeader / CurrentLeader messages in flight
    doneCall        \* doneCall[n]: the call n's handleDonePeerMsg has
                    \* decided on and not yet made, or NoCall

vars == <<alive, role, leaderLast, policy, leaderCrashed, height, tip, msgs,
          doneCall>>

Heights == 0..MaxHeight + Term + 3
Policies == [StartDBHeight : Heights]
NoCall == [call |-> "none"]
DoneCalls == {NoCall} \cup
             [call : {"selectNextLeader", "selectNextLeader:led",
                      "selectCurrentleader"}, h : Heights]

NextLeaderMsgs ==
    [type : {"NextLeader"}, to : Node, cur : Node, next : Node, h : Heights]
CurrentLeaderMsgs ==
    [type : {"CurrentLeader"}, to : Node, dead : Node \cup {Nil},
     new : Node, h : Heights]

IsLeader(n)      == role[n][n] = Leader
IsLeaderElect(n) == role[n][n] = LeaderElect

\* isSingleServerMode: FederateServerCount() = 1.
isSingleServerMode(n) == DOMAIN role[n] = {n}

\* BroadcastMessage: one copy for every peer in n's roster but n itself.
Broadcast(n, r, m) == {[m EXCEPT !.to = d] : d \in DOMAIN r \ {n}}

NextLeaderMsg(cur, next, h) ==
    [type |-> "NextLeader", to |-> cur, cur |-> cur, next |-> next, h |-> h]
CurrentLeaderMsg(dead, new, h) ==
    [type |-> "CurrentLeader", to |-> new, dead |-> dead, new |-> new, h |-> h]

(***************************************************************************)
(* Server state at newServer, after the federation has formed: every       *)
(* server knows every other; InitLeader leads with LeaderLast h+1 and a    *)
(* policy starting at h+2; newestHeight h is 0.                            *)
(***************************************************************************)
Init ==
    /\ alive = Node
    /\ role = [n \in Node |-> [m \in Node |->
                 IF m = InitLeader THEN Leader
                 ELSE IF m \in Candidates THEN Candidate ELSE Follower]]
    /\ leaderLast = [n \in Node |-> [m \in Node |->
                       IF n = InitLeader /\ m = InitLeader THEN 1 ELSE 0]]
    /\ policy = [n \in Node |->
                   IF n = InitLeader THEN [StartDBHeight |-> 2] ELSE Nil]
    /\ leaderCrashed = [n \in Node |-> FALSE]
    /\ height = [n \in Node |-> 0]
    /\ tip = 0
    /\ msgs = {}
    /\ doneCall = [n \in Node |-> NoCall]

\* Mutant: takes the leadership without broadcasting CurrentLeader.
sendCurrentLeaderMsgSilent(n, r, dead, h) ==
    /\ role' = [role EXCEPT ![n] = SetLeaderPeerByID(n, r, n)]
    /\ policy' = [policy EXCEPT ![n] = [StartDBHeight |-> h]]
    /\ UNCHANGED msgs

(***************************************************************************)
(* sendCurrentLeaderMsg(dead, n, n, h) run by n on view r: n becomes the   *)
(* leader, installs a fresh policy starting at h, and broadcasts.          *)
(* resetLeaderState, called when leaderCrashed, is the processor's.        *)
(***************************************************************************)
sendCurrentLeaderMsg(n, r, dead, h) ==
    /\ role' = [role EXCEPT ![n] = SetLeaderPeerByID(n, r, n)]
    /\ policy' = [policy EXCEPT ![n] = [StartDBHeight |-> h]]
    /\ msgs' = msgs \cup Broadcast(n, r, CurrentLeaderMsg(dead, n, h))

\* Mutant: names a next term that starts one block too early.
selectNextLeaderEarlyTerm(n, r, h) ==
    \/ /\ nonCandidateServers(r) = {n}
       /\ policy' = [policy EXCEPT ![n].StartDBHeight = h + 3]
       /\ UNCHANGED msgs
    \/ /\ nonCandidateServers(r) # {n}
       /\ LET next == SortedHead(n, r, nonCandidateServers(r) \ {n}, leaderLast[n])
          IN  msgs' = msgs \cup Broadcast(n, r,
                 NextLeaderMsg(n, next, policy[n].StartDBHeight + Term - 1))
       /\ UNCHANGED policy

\* Mutant: names the next leader by StartTime instead of LeaderLast.
selectNextLeaderByStartTime(n, r, h) ==
    \/ /\ nonCandidateServers(r) = {n}
       /\ policy' = [policy EXCEPT ![n].StartDBHeight = h + 3]
       /\ UNCHANGED msgs
    \/ /\ nonCandidateServers(r) # {n}
       /\ LET next == SortedHead(n, r, nonCandidateServers(r) \ {n}, StartTime)
          IN  msgs' = msgs \cup Broadcast(n, r,
                 NextLeaderMsg(n, next, policy[n].StartDBHeight + Term))
       /\ UNCHANGED policy

(***************************************************************************)
(* selectNextLeader(h) run by the leader n on view r, past its IsLeader   *)
(* test (made by the caller, see SelectNextLeaderTest).  With no other     *)
(* non-candidate it extends its own term; otherwise it names the non-     *)
(* candidate that led least recently and broadcasts NextLeader for the     *)
(* height at which its own term ends.  The caller sets role'.              *)
(***************************************************************************)
selectNextLeader(n, r, h) ==
    LET nonCandidates == nonCandidateServers(r)
    IN  \/ /\ nonCandidates = {n}
           /\ policy' = [policy EXCEPT ![n].StartDBHeight = h + 3]
           /\ UNCHANGED msgs
        \/ /\ nonCandidates # {n}
           /\ LET next == SortedHead(n, r, nonCandidates \ {n}, leaderLast[n])
              IN  msgs' = msgs \cup Broadcast(n, r,
                     NextLeaderMsg(n, next, policy[n].StartDBHeight + Term))
           /\ UNCHANGED policy

(***************************************************************************)
(* selectCurrentleader(h) run by n on view r after the leader was removed. *)
(* n claims the leadership when it is the leader-elect or the only non-    *)
(* candidate; or, with no leader-elect in view, when it is the first       *)
(* LeaderPrev in view; or, with neither in view, when it heads the non-    *)
(* candidates sorted by StartTime.  The caller sets leaderCrashed.         *)
(***************************************************************************)
selectCurrentleader(n, r, h) ==
    LET nonCandidates == nonCandidateServers(r)
        onlyFollower  == r[n] # Candidate /\ nonCandidates = {n}
        elect         == GetPeer(n, r, LeaderElect)
        prev          == GetPeer(n, r, LeaderPrev)
        asElect == r[n] = LeaderElect \/ onlyFollower
        asPrev  == elect = Nil /\ prev = n /\ r[n] # Candidate
        asFirst == elect = Nil /\ prev = Nil
                   /\ SortedHead(n, r, nonCandidates, StartTime) = n
    IN  \/ /\ r[n] # Leader /\ nonCandidates # {}
           /\ asElect \/ asPrev \/ asFirst
           /\ sendCurrentLeaderMsg(n, r,
                 IF asPrev /\ ~asElect THEN n ELSE GetPeer(n, r, Leader), h + 1)
        \/ /\ \/ r[n] = Leader \/ nonCandidates = {}
              \/ ~(asElect \/ asPrev \/ asFirst)
           /\ role' = [role EXCEPT ![n] = r]
           /\ UNCHANGED <<policy, msgs>>

\* Mutant: the elect takes over at StartDBHeight instead of one before.
ElectStepLate(n, h) ==
    LET l == GetPeer(n, role[n], Leader)
    IN  \/ /\ h = policy[n].StartDBHeight
           /\ leaderLast' = IF l = Nil THEN leaderLast
                            ELSE [leaderLast EXCEPT ![n][l] = h]
           /\ sendCurrentLeaderMsg(n, role[n], l, h + 1)
        \/ /\ h # policy[n].StartDBHeight
           /\ UNCHANGED <<role, leaderLast, policy, msgs>>

(***************************************************************************)
(* handleNextLeader(h) for a leader-elect n that is not alone: at its      *)
(* policy's start height minus one it records the leader's LeaderLast and  *)
(* takes over.  A height past the start height is stale and ignored.       *)
(***************************************************************************)
ElectStep(n, h) ==
    LET l == GetPeer(n, role[n], Leader)
    IN  \/ /\ h = policy[n].StartDBHeight - 1
           /\ leaderLast' = IF l = Nil THEN leaderLast
                            ELSE [leaderLast EXCEPT ![n][l] = h]
           /\ sendCurrentLeaderMsg(n, role[n], l, h + 1)
        \/ /\ h # policy[n].StartDBHeight - 1
           /\ UNCHANGED <<role, leaderLast, policy, msgs>>

\* Mutant: at the end of its term the leader drops its policy but forgets
\* SetPrevLeaderByID, so it keeps its Leader entry.
LeaderStepKeepRole(n, h) ==
    LET P == policy[n]
        e == GetPeer(n, role[n], LeaderElect)
    IN  \/ /\ h <= P.StartDBHeight + Term /\ h = P.StartDBHeight + NotifyDBHeight - 1
           /\ selectNextLeader(n, role[n], h)
           /\ UNCHANGED <<role, leaderLast>>
        \/ /\ h <= P.StartDBHeight + Term /\ h # P.StartDBHeight + NotifyDBHeight - 1
           /\ h = P.StartDBHeight + Term - 1
           /\ role' = [role EXCEPT ![n] = IF e = Nil THEN role[n]
                                           ELSE [role[n] EXCEPT ![e] = Leader]]
           /\ policy' = [policy EXCEPT ![n] = Nil]
           /\ leaderLast' = [leaderLast EXCEPT ![n][n] = h]
           /\ UNCHANGED msgs
        \/ /\ \/ h > P.StartDBHeight + Term
              \/ /\ h # P.StartDBHeight + NotifyDBHeight - 1
                 /\ h # P.StartDBHeight + Term - 1
           /\ UNCHANGED <<role, leaderLast, policy, msgs>>

(***************************************************************************)
(* handleNextLeader(h) for a leader n that is not alone: NotifyDBHeight    *)
(* blocks into its term it selects the next leader; at the last block of   *)
(* its term it becomes LeaderPrev, promotes the leader-elect in its view,  *)
(* drops its policy and records its own LeaderLast.                        *)
(***************************************************************************)
LeaderStep(n, h) ==
    LET P == policy[n]
        notifyAt == P.StartDBHeight + NotifyDBHeight - 1
        endAt    == P.StartDBHeight + Term - 1
        r1 == SetPrevLeaderByID(n, role[n], n)
        e  == GetPeer(n, r1, LeaderElect)
    IN  \/ /\ h <= P.StartDBHeight + Term /\ h = notifyAt
           /\ selectNextLeader(n, role[n], h)
           /\ UNCHANGED <<role, leaderLast>>
        \/ /\ h <= P.StartDBHeight + Term /\ h # notifyAt /\ h = endAt
           /\ role' = [role EXCEPT ![n] = IF e = Nil THEN r1
                                           ELSE SetLeaderPeer(n, r1, e)]
           /\ policy' = [policy EXCEPT ![n] = Nil]
           /\ leaderLast' = [leaderLast EXCEPT ![n][n] = h]
           /\ UNCHANGED msgs
        \/ /\ h > P.StartDBHeight + Term \/ (h # notifyAt /\ h # endAt)
           /\ UNCHANGED <<role, leaderLast, policy, msgs>>

(***************************************************************************)
(* handleNextLeader(h) at server n.                                        *)
(***************************************************************************)
handleNextLeader(n, h) ==
    /\ height' = [height EXCEPT ![n] = h]
    /\ \/ /\ ~IsLeader(n) /\ ~IsLeaderElect(n)
          /\ UNCHANGED <<role, leaderLast, policy, msgs>>
       \/ /\ IsLeader(n) \/ IsLeaderElect(n)
          /\ isSingleServerMode(n)
          /\ policy' = [policy EXCEPT ![n].StartDBHeight = h + 1]
          /\ UNCHANGED <<role, leaderLast, msgs>>
       \/ /\ IsLeaderElect(n) /\ ~isSingleServerMode(n)
          /\ ElectStep(n, h)
       \/ /\ IsLeader(n) /\ ~isSingleServerMode(n)
          /\ LeaderStep(n, h)
    /\ UNCHANGED <<alive, leaderCrashed, tip, doneCall>>

\* Mutant: the handler takes heights the processor has not sealed yet.
HandleNextLeaderAhead(n) ==
    /\ n \in alive /\ height[n] <= MaxHeight
    /\ handleNextLeader(n, height[n] + 1)

(***************************************************************************)
(* nextLeaderHandler of n takes the next sealed height from the processor *)
(* (the channel send happens after the block is saved) and runs            *)
(* handleNextLeader on it.                                                 *)
(***************************************************************************)
HandleNextLeader(n) ==
    /\ n \in alive /\ height[n] < tip
    /\ handleNextLeader(n, height[n] + 1)

(***************************************************************************)
(* handleDonePeerMsg at n for the federate peer m, once m has gone: m's    *)
(* entry leaves the roster and newestHeight h is read from the database;   *)
(* if n leads and m was the leader-elect, n will call selectNextLeader;    *)
(* if m was the leader, n sets leaderCrashed and will call                 *)
(* selectCurrentleader.  h is at least the height n's nextLeaderHandler    *)
(* took and at most the tip: the processor saves a block before it hands   *)
(* its height over.  peerHandler takes no lock, so nextLeaderHandler's     *)
(* handleNextLeader may run between these checks and the call (DoneCall).  *)
(***************************************************************************)
HandleDonePeer(n, m) ==
    LET r == [k \in DOMAIN role[n] \ {m} |-> role[n][k]]
        electGone  == r[n] = Leader /\ role[n][m] = LeaderElect
        leaderGone == ~electGone /\ role[n][m] = Leader
    IN  /\ n \in alive /\ m \in DOMAIN role[n] \ alive
        /\ doneCall[n] = NoCall
        /\ role' = [role EXCEPT ![n] = r]
        /\ \E h \in height[n]..tip :
           \/ /\ electGone
              /\ doneCall' = [doneCall EXCEPT ![n] =
                                [call |-> "selectNextLeader", h |-> h]]
              /\ UNCHANGED leaderCrashed
           \/ /\ leaderGone
              /\ leaderCrashed' = [leaderCrashed EXCEPT ![n] = TRUE]
              /\ doneCall' = [doneCall EXCEPT ![n] =
                                [call |-> "selectCurrentleader", h |-> h]]
           \/ /\ ~electGone /\ ~leaderGone
              /\ UNCHANGED <<doneCall, leaderCrashed>>
        /\ UNCHANGED <<alive, leaderLast, policy, height, tip, msgs>>

(***************************************************************************)
(* The top of selectNextLeader, called from handleDonePeerMsg at n: it     *)
(* returns unless n is (still) the leader in its own entry.  A term end    *)
(* in nextLeaderHandler since the check of handleDonePeerMsg has made n    *)
(* LeaderPrev, and the call returns here.                                  *)
(***************************************************************************)
SelectNextLeaderTest(n) ==
    /\ n \in alive /\ doneCall[n].call = "selectNextLeader"
    /\ doneCall' = [doneCall EXCEPT ![n] =
                      IF IsLeader(n) THEN [@ EXCEPT !.call = "selectNextLeader:led"]
                      ELSE NoCall]
    /\ UNCHANGED <<alive, role, leaderLast, policy, leaderCrashed, height, tip,
                   msgs>>

(***************************************************************************)
(* The rest of handleDonePeerMsg at n: the call it decided on, made on n's *)
(* roster and policy as they are now.  Past its IsLeader test,             *)
(* selectNextLeader dereferences myLeaderPolicy; if nextLeaderHandler has  *)
(* ended the term and set it to nil in between, the runtime panic ends    *)
(* the server process.                                                     *)
(***************************************************************************)
DoneCall(n) ==
    LET c == doneCall[n]
    IN  /\ n \in alive /\ c.call \in {"selectNextLeader:led", "selectCurrentleader"}
        /\ doneCall' = [doneCall EXCEPT ![n] = NoCall]
        /\ \/ /\ c.call = "selectNextLeader:led" /\ policy[n] # Nil
              /\ selectNextLeader(n, role[n], c.h)
              /\ UNCHANGED <<alive, role>>
           \/ /\ c.call = "selectNextLeader:led" /\ policy[n] = Nil
              /\ alive' = alive \ {n}
              /\ UNCHANGED <<role, policy, msgs>>
           \/ /\ c.call = "selectCurrentleader"
              /\ selectCurrentleader(n, role[n], c.h)
              /\ UNCHANGED alive
        /\ UNCHANGED <<leaderLast, leaderCrashed, height, tip>>

(***************************************************************************)
(* Steps of code not under src/, modelled from the spec.                   *)
(***************************************************************************)

\* Everything the last block caused has happened at every live server.
Quiescent ==
    \A n \in alive : /\ height[n] = tip
                     /\ DOMAIN role[n] \subseteq alive
                     /\ doneCall[n] = NoCall
                     /\ \A m \in msgs : m.to # n

\* The processor of a server that believes it leads seals the next block.
SealBlock ==
    /\ tip < MaxHeight
    /\ \E n \in alive : IsLeader(n)
    /\ Lockstep => Quiescent
    /\ tip' = tip + 1
    /\ UNCHANGED <<alive, role, leaderLast, policy, leaderCrashed, height, msgs,
                   doneCall>>

\* NextLeader(cur, next, h) at server m.to: next becomes its leader-elect,
\* and next itself takes a policy whose term starts at h.
ReceiveNextLeader(m) ==
    /\ m.type = "NextLeader" /\ m.to \in alive
    /\ role' = [role EXCEPT ![m.to] = setLeaderElectByID(m.to, role[m.to], m.next)]
    /\ policy' = IF m.to = m.next
                 THEN [policy EXCEPT ![m.to] = [StartDBHeight |-> m.h]]
                 ELSE policy
    /\ msgs' = msgs \ {m}
    /\ UNCHANGED <<alive, leaderLast, leaderCrashed, height, tip, doneCall>>

\* CurrentLeader(dead, new, source, h) at server m.to: new becomes its leader.
ReceiveCurrentLeader(m) ==
    /\ m.type = "CurrentLeader" /\ m.to \in alive
    /\ role' = [role EXCEPT ![m.to] = SetLeaderPeerByID(m.to, role[m.to], m.new)]
    /\ msgs' = msgs \ {m}
    /\ UNCHANGED <<alive, leaderLast, policy, leaderCrashed, height, tip,
                   doneCall>>

\* A server process stops; its peers see the connection end.
Crash(n) ==
    /\ n \in alive /\ Cardinality(Node \ alive) < MaxCrashes
    /\ alive' = alive \ {n}
    /\ UNCHANGED <<role, leaderLast, policy, leaderCrashed, height, tip, msgs,
                   doneCall>>

\* The height bound is reached and nothing is left to do.
Finished ==
    /\ tip = MaxHeight /\ Quiescent
    /\ UNCHANGED vars

Next ==
    \/ \E n \in Node : HandleNextLeader(n)
    \/ \E n, m \in Node : HandleDonePeer(n, m)
    \/ \E n \in Node : SelectNextLeaderTest(n)
    \/ \E n \in Node : DoneCall(n)
    \/ \E m \in msgs : ReceiveNextLeader(m) \/ ReceiveCurrentLeader(m)
    \/ SealBlock
    \/ \E n \in Node : Crash(n)
    \/ Finished

(***************************************************************************)
(* Every goroutine involved runs whenever it has work: nextLeaderHandler,  *)
(* peerHandler, the peers' receive loops, and the leader's block timer.    *)
(* Crashes are never forced.                                               *)
(***************************************************************************)
Fairness ==
    /\ \A n \in Node : WF_vars(HandleNextLeader(n))
    /\ \A n, m \in Node : WF_vars(HandleDonePeer(n, m))
    /\ \A n \in Node : WF_vars(SelectNextLeaderTest(n))
    /\ \A n \in Node : WF_vars(DoneCall(n))
    /\ WF_vars(\E m \in msgs : ReceiveNextLeader(m) \/ ReceiveCurrentLeader(m))
    /\ WF_vars(SealBlock)

Spec == Init /\ [][Next]_vars /\ Fairness

(***************************************************************************)
(* Properties.                                                             *)
(***************************************************************************)

TypeOK ==
    /\ alive \subseteq Node
    /\ \A n \in Node : /\ n \in DOMAIN role[n]
                       /\ DOMAIN role[n] \subseteq Node
                       /\ \A m \in DOMAIN role[n] : role[n][m] \in Roles
    /\ leaderLast \in [Node -> [Node -> Heights]]
    /\ policy \in [Node -> Policies \cup {Nil}]
    /\ leaderCrashed \in [Node -> BOOLEAN]
    /\ height \in [Node -> 0..MaxHeight] /\ tip \in 0..MaxHeight
    /\ msgs \subseteq NextLeaderMsgs \cup CurrentLeaderMsgs
    /\ doneCall \in [Node -> DoneCalls]

Holders(n, ns) == {m \in DOMAIN role[n] : role[n][m] = ns}

\* In every server's roster at most one peer is Leader and at most one is
\* LeaderElect: the role mutators demote the old holder before assigning,
\* whichever goroutine or message drives them.
UniqueLeaderAndElect ==
    \A n \in Node : /\ Cardinality(Holders(n, Leader)) <= 1
                   /\ Cardinality(Holders(n, LeaderElect)) <= 1

\* A server that is Leader or LeaderElect in its own entry has a policy:
\* handleNextLeader and selectNextLeader dereference myLeaderPolicy
\* for both roles, so a nil one would panic the nextLeaderHandler.
RoleHasPolicy ==
    \A n \in Node : role[n][n] \in {Leader, LeaderElect} => policy[n] # Nil

\* Once selectNextLeader, called by peerHandler's handleDonePeerMsg after
\* the leader-elect has gone, has passed its IsLeader test, the server
\* still has a policy when it dereferences it: a term end in
\* nextLeaderHandler in between sets myLeaderPolicy to nil, and the
\* dereference would then panic the server.
PolicyAtDoneCall ==
    \A n \in alive : doneCall[n].call = "selectNextLeader:led" => policy[n] # Nil

TermOf(n) == policy[n].StartDBHeight .. policy[n].StartDBHeight + Term - 1

\* Two live servers that each believe they lead hold policies whose terms
\* (the heights from StartDBHeight for Term blocks) are disjoint: a
\* hand-off or re-election never yields two leaders for the same height.
NoOverlappingTerms ==
    \A n, m \in alive :
        (n # m /\ IsLeader(n) /\ IsLeader(m)) => TermOf(n) \cap TermOf(m) = {}

\* Once every message and height has been handled and some live server is
\* not a candidate, one live server leads and every live server's roster
\* names it as the leader.
AgreedLeader ==
    (Quiescent /\ \E n \in alive : role[n][n] # Candidate) =>
        \E l \in alive : /\ IsLeader(l)
                        /\ \A n \in alive : GetPeer(n, role[n], Leader) = l

\* A server named leader-elect eventually takes over (unless it crashes or
\* the height bound is reached first).
Handoff ==
    \A n \in Node :
        IsLeaderElect(n) ~> (IsLeader(n) \/ n \notin alive \/ tip = MaxHeight)


\* Block production survives the loss of one server (spec: the leader
\* machine recovers when the leader or the leader-elect disappears):
\* blocks keep being sealed up to the bound.
Progress == <>(tip = MaxHeight)

(***************************************************************************)
(* Refinement of LeaderRotation.  The server that seals the next block is  *)
(* the Leader or LeaderElect (in its own entry) whose policy starts first: *)
(* the outgoing leader steps down at the last block of its term (or is     *)
(* demoted by its successor's CurrentLeader, and then keeps a stale        *)
(* policy), and its successor got a policy from the NextLeader message and *)
(* keeps it when it takes over.  InitLeader's policy starts at 2           *)
(* (newServer: newestHeight + 2).                                          *)
(***************************************************************************)
PolicyHolders ==
    {n \in Node : policy[n] # Nil /\ role[n][n] \in {Leader, LeaderElect}}

Sealer == CHOOSE n \in PolicyHolders :
              \A m \in PolicyHolders : policy[n].StartDBHeight <= policy[m].StartDBHeight

Rotation == INSTANCE LeaderRotation
                WITH Ring <- JoinOrder[InitLeader], FirstStart <- 2,
                     leader <- Sealer, start <- policy[Sealer].StartDBHeight

\* Without failures and with blocks sealed in lockstep, the federation
\* behaves as LeaderRotation: terms of Term blocks, led in round-robin
\* order, handed over right after the last block of a term, and every
\* height up to the bound sealed (selectNextLeader's LeaderLast order,
\* the elect's take-over at StartDBHeight-1, the leader's step-down).
ImplementsRotation == Rotation!Spec
=============================================================================
