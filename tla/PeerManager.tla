----------------------------- MODULE PeerManager -----------------------------
(***************************************************************************)
(* The peer manager of one server (server.go, part of src/common/          *)
(* cchain.go): the peerHandler goroutine, sole owner of peerState, serving *)
(* its channels one event at a time and, after each event, running the    *)
(* outbound replenishment loop.                                            *)
(*                                                                         *)
(* A peer object is an id in DOMAIN obj with its addr, direction,          *)
(* persistent flag and retryCount; two connections from one address are   *)
(* two objects, as two *peer pointers are.  Channels are sets of pending   *)
(* peer ids (newPeers, donePeers, banPeers); select picks any ready one.   *)
(* The replenishment loop is a sequence of steps of peerHandler (pc =      *)
(* "loop"), because it can run for as long as its exit conditions allow.   *)
(* Time appears only as a ban running out (BanExpire).                     *)
(***************************************************************************)
EXTENDS Naturals, FiniteSets, Sequences, TLC

CONSTANTS
    Addrs,             \* network addresses "host:port" that parse
    InboundAddrs,      \* remote addresses of inbound connections
    BadAddrs,          \* addresses net.SplitHostPort rejects
    HostOf,            \* HostOf[a]: host part of a
    GroupOf,           \* GroupOf[a]: addrmgr.GroupKey of a
    KnownAddrs,        \* addresses the address manager can return
    DefaultPortAddrs,  \* addresses on activeNetParams.DefaultPort
    ConnectPeers,      \* cfg.ConnectPeers (sequence)
    AddPeers,          \* cfg.AddPeers (sequence)
    MaxPeers,          \* cfg.MaxPeers
    DefaultMaxOutbound,\* defaultMaxOutbound
    MaxTries,          \* the 100 bad tries after which replenishment stops
    RecentTries,       \* the 30 tries before stale addresses are allowed
    PortTries,         \* the 50 tries before non-default ports are allowed
    MaxObjs            \* bound on the number of peer objects created

ASSUME /\ Addrs \cap BadAddrs = {} /\ InboundAddrs \subseteq Addrs
       /\ KnownAddrs \subseteq Addrs /\ DefaultPortAddrs \subseteq Addrs
       /\ ConnectPeers \in Seq(Addrs) /\ AddPeers \in Seq(Addrs)
       /\ MaxPeers \in Nat \ {0} /\ DefaultMaxOutbound \in Nat \ {0}
       /\ RecentTries <= PortTries /\ PortTries <= MaxTries

VARIABLES
    obj,              \* obj[id]: the peer object id
    peers,            \* state.peers (inbound)
    outboundPeers,    \* state.outboundPeers
    persistentPeers,  \* state.persistentPeers
    banned,           \* state.banned: host -> "none" | "active" | "expired"
    outboundGroups,   \* state.outboundGroups
    fed,              \* peer objects in s.federateServers
    newQ, doneQ, banQ,\* pending sends on newPeers, donePeers, banPeers
    live,             \* started peer objects whose connection is up
    wakeupArmed,      \* a time.AfterFunc wakeup is pending
    shutdown,         \* s.shutdown != 0
    quit,             \* s.quit is closed
    pc,               \* peerHandler: "select", "loop" or "done"
    tries             \* the replenishment loop's tries counter

vars == <<obj, peers, outboundPeers, persistentPeers, banned, outboundGroups,
          fed, newQ, doneQ, banQ, live, wakeupArmed, shutdown, quit, pc, tries>>

Hosts  == {HostOf[a] : a \in Addrs}
Groups == {GroupOf[a] : a \in Addrs}

NewPeer(a, inbound, persistent, retry) ==
    [addr |-> a, inbound |-> inbound, persistent |-> persistent, retry |-> retry]

\* The id the next newInboundPeer / newOutboundPeer gets.
FreshId == Cardinality(DOMAIN obj) + 1

\* A persistent connection whose done is pending gets a new object.
Reserved == Cardinality(DOMAIN obj)
            + Cardinality({d \in doneQ : obj[d].persistent})
CanCreate == Reserved < MaxObjs

maxOutboundPeers ==
    IF MaxPeers < DefaultMaxOutbound THEN MaxPeers ELSE DefaultMaxOutbound

\* peerState.Count, OutboundCount, NeedMoreOutbound.
Count == Cardinality(peers) + Cardinality(outboundPeers)
         + Cardinality(persistentPeers)
OutboundCount == Cardinality(outboundPeers) + Cardinality(persistentPeers)
NeedMoreOutbound == OutboundCount < maxOutboundPeers /\ Count < MaxPeers

permanentPeers == IF ConnectPeers # <<>> THEN ConnectPeers ELSE AddPeers

(***************************************************************************)
(* handleAddPeerMsg(p) for the object id: ignored while shutting down,     *)
(* for a federate duplicate by address, an address that does not split,    *)
(* a host banned until later, or a full peer set; an expired ban is        *)
(* deleted on the way.  An accepted inbound peer joins peers, an outbound  *)
(* one counts in its group and joins persistentPeers or outboundPeers.     *)
(* A rejected object is shut down and never reaches peerState.             *)
(***************************************************************************)
Passes(p) ==
    /\ ~shutdown
    /\ ~\E f \in fed : obj[f].addr = p.addr
    /\ p.addr \notin BadAddrs
    /\ banned[HostOf[p.addr]] # "active"

\* Mutant: the MaxPeers check left out.
AcceptsNoLimit(p) == Passes(p)

Accepts(p) == Passes(p) /\ Count < MaxPeers

handleAddPeerMsg(id, p) ==
    /\ banned' = IF Passes(p) /\ banned[HostOf[p.addr]] = "expired"
                 THEN [banned EXCEPT ![HostOf[p.addr]] = "none"] ELSE banned
    /\ \/ /\ Accepts(p)
          /\ obj' = IF id \in DOMAIN obj THEN obj ELSE obj @@ (id :> p)
          /\ live' = live \cup {id}
          /\ peers' = IF p.inbound THEN peers \cup {id} ELSE peers
          /\ persistentPeers' = IF ~p.inbound /\ p.persistent
                                THEN persistentPeers \cup {id} ELSE persistentPeers
          /\ outboundPeers' = IF ~p.inbound /\ ~p.persistent
                              THEN outboundPeers \cup {id} ELSE outboundPeers
          /\ outboundGroups' = IF p.inbound THEN outboundGroups
                               ELSE [outboundGroups EXCEPT ![GroupOf[p.addr]] = @ + 1]
       \/ /\ ~Accepts(p)
          /\ UNCHANGED <<obj, live, peers, persistentPeers, outboundPeers, outboundGroups>>

(***************************************************************************)
(* peerHandler start-up: every permanent peer goes through                 *)
(* handleAddPeerMsg while nothing is banned, no federate server is known   *)
(* and the set is empty; the 10-second wakeup is armed.                    *)
(***************************************************************************)
Init ==
    /\ obj = [i \in 1..Len(permanentPeers) |-> NewPeer(permanentPeers[i], FALSE, TRUE, 0)]
    /\ peers = {} /\ outboundPeers = {}
    /\ persistentPeers = {i \in DOMAIN obj : i <= MaxPeers}
    /\ outboundGroups = [g \in Groups |->
          Cardinality({i \in persistentPeers : GroupOf[obj[i].addr] = g})]
    /\ banned = [h \in Hosts |-> "none"]
    /\ fed = {} /\ newQ = {} /\ doneQ = {} /\ banQ = {}
    /\ live = persistentPeers
    /\ wakeupArmed = TRUE /\ shutdown = FALSE /\ quit = FALSE
    /\ pc = "select" /\ tries = 0

\* After every event peerHandler enters the replenishment loop unless the
\* set is full enough, ConnectPeers is configured, or it is shutting down.
AfterEvent ==
    /\ pc' = IF ConnectPeers = <<>> /\ ~shutdown /\ NeedMoreOutbound'
             THEN "loop" ELSE "select"
    /\ tries' = 0

InPeerState == peers \cup outboundPeers \cup persistentPeers

(***************************************************************************)
(* handleDonePeerMsg(p): p leaves the list its flags name.  A persistent   *)
(* outbound peer is replaced, unless shutting down, by a fresh outbound    *)
(* object for its address with retryCount+1 that does not go through      *)
(* handleAddPeerMsg; any other outbound peer gives back its group count.   *)
(* A federate server's entry leaves federateServers (the role changes that *)
(* follow are LeaderMachine's HandleDonePeer).                             *)
(***************************************************************************)
\* Mutant: the reconnect adds the new object but keeps the old one.
handleDonePeerMsgKeepOld(id) ==
    LET p == obj[id]
    IN  /\ fed' = fed \ {id}
        /\ ~p.inbound /\ p.persistent /\ ~shutdown /\ id \in persistentPeers
        /\ obj' = obj @@ (FreshId :> NewPeer(p.addr, FALSE, TRUE, p.retry + 1))
        /\ persistentPeers' = persistentPeers \cup {FreshId}
        /\ live' = live \cup {FreshId}
        /\ UNCHANGED <<peers, outboundPeers, outboundGroups>>

\* Mutant: an outbound peer gives back its group count even when a query
\* has already removed it (no lookup in the list).
handleDonePeerMsgNoLookup(id) ==
    LET p == obj[id]
        list == IF p.persistent THEN persistentPeers
                ELSE IF p.inbound THEN peers ELSE outboundPeers
        rest == list \ {id}
    IN  /\ fed' = fed \ {id}
        /\ \/ /\ ~p.inbound /\ p.persistent /\ ~shutdown
              /\ obj' = obj @@ (FreshId :> NewPeer(p.addr, FALSE, TRUE, p.retry + 1))
              /\ persistentPeers' = rest \cup {FreshId}
              /\ live' = live \cup {FreshId}
              /\ UNCHANGED <<peers, outboundPeers, outboundGroups>>
           \/ /\ ~(~p.inbound /\ p.persistent /\ ~shutdown)
              /\ peers' = IF p.inbound /\ ~p.persistent THEN rest ELSE peers
              /\ outboundPeers' = IF ~p.inbound /\ ~p.persistent THEN rest ELSE outboundPeers
              /\ persistentPeers' = IF p.persistent THEN rest ELSE persistentPeers
              /\ outboundGroups' = IF p.inbound THEN outboundGroups
                                   ELSE [outboundGroups EXCEPT ![GroupOf[p.addr]] = @ - 1]
              /\ UNCHANGED <<obj, live>>

handleDonePeerMsg(id) ==
    LET p == obj[id]
        list == IF p.persistent THEN persistentPeers
                ELSE IF p.inbound THEN peers ELSE outboundPeers
        rest == list \ {id}
    IN  /\ fed' = fed \ {id}
        /\ \/ /\ id \notin list
              /\ UNCHANGED <<obj, live, peers, outboundPeers, persistentPeers, outboundGroups>>
           \/ /\ id \in list /\ ~p.inbound /\ p.persistent /\ ~shutdown
              /\ obj' = obj @@ (FreshId :> NewPeer(p.addr, FALSE, TRUE, p.retry + 1))
              /\ persistentPeers' = rest \cup {FreshId}
              /\ live' = live \cup {FreshId}
              /\ UNCHANGED <<peers, outboundPeers, outboundGroups>>
           \/ /\ id \in list /\ ~(~p.inbound /\ p.persistent /\ ~shutdown)
              /\ peers' = IF p.inbound /\ ~p.persistent THEN rest ELSE peers
              /\ outboundPeers' = IF ~p.inbound /\ ~p.persistent THEN rest ELSE outboundPeers
              /\ persistentPeers' = IF p.persistent THEN rest ELSE persistentPeers
              /\ outboundGroups' = IF p.inbound THEN outboundGroups
                                   ELSE [outboundGroups EXCEPT ![GroupOf[p.addr]] = @ - 1]
              /\ UNCHANGED <<obj, live>>

\* handleBanPeerMsg(p): the host of p is banned for cfg.BanDuration.
handleBanPeerMsg(id) ==
    /\ \/ /\ obj[id].addr \in BadAddrs
          /\ UNCHANGED banned
       \/ /\ obj[id].addr \notin BadAddrs
          /\ banned' = [banned EXCEPT ![HostOf[obj[id].addr]] = "active"]

(***************************************************************************)
(* handleQuery.  A query names its targets by address (the ...ByAddr       *)
(* calls) or by peer id (the ...ByID calls).                               *)
(***************************************************************************)
Selectors == [by : {"addr"}, v : Addrs] \cup [by : {"id"}, v : 1..MaxObjs]

Matches(sel, S) ==
    {q \in S : IF sel.by = "addr" THEN obj[q].addr = sel.v ELSE q = sel.v}

\* connectNodeMsg: refused for an address already persistent, otherwise
\* handleAddPeerMsg(newOutboundPeer(addr, permanent, 0)).
connectNode(a, permanent) ==
    \/ /\ \E q \in persistentPeers : obj[q].addr = a
       /\ UNCHANGED <<obj, live, peers, outboundPeers, persistentPeers, outboundGroups, banned>>
    \/ /\ ~\E q \in persistentPeers : obj[q].addr = a
       /\ handleAddPeerMsg(FreshId, NewPeer(a, FALSE, permanent, 0))

\* removeNodeMsg: disconnectPeer over persistentPeers, one match, with its
\* group count given back.
removeNode(sel) ==
    /\ \/ /\ Matches(sel, persistentPeers) = {}
          /\ UNCHANGED <<persistentPeers, outboundGroups>>
       \/ \E q \in Matches(sel, persistentPeers) :
             /\ persistentPeers' = persistentPeers \ {q}
             /\ outboundGroups' = [outboundGroups EXCEPT ![GroupOf[obj[q].addr]] = @ - 1]
    /\ UNCHANGED <<obj, live, peers, outboundPeers, banned>>

\* Mutant: the outbound peers are removed without the whenFound callback.
disconnectNodeNoGroups(sel) ==
    /\ \/ \E q \in Matches(sel, peers) :
             /\ peers' = peers \ {q}
             /\ UNCHANGED outboundPeers
       \/ /\ Matches(sel, peers) = {}
          /\ peers' = peers
          /\ outboundPeers' = outboundPeers \ Matches(sel, outboundPeers)
    /\ UNCHANGED <<obj, live, persistentPeers, banned, outboundGroups>>

\* disconnectNodeMsg: one matching inbound peer; failing that, every
\* matching outbound peer, each giving back its group count.
disconnectNode(sel) ==
    LET out == Matches(sel, outboundPeers)
    IN  /\ \/ \E q \in Matches(sel, peers) :
                 /\ peers' = peers \ {q}
                 /\ UNCHANGED <<outboundPeers, outboundGroups>>
           \/ /\ Matches(sel, peers) = {}
              /\ peers' = peers
              /\ outboundPeers' = outboundPeers \ out
              /\ outboundGroups' = [g \in Groups |-> outboundGroups[g]
                     - Cardinality({q \in out : GroupOf[obj[q].addr] = g})]
        /\ UNCHANGED <<obj, live, persistentPeers, banned>>

(***************************************************************************)
(* One pass of the outbound replenishment loop of peerHandler.  While more *)
(* outbound peers are needed and the server is not shutting down it asks   *)
(* the address manager for an address; it stops on none, on an address    *)
(* whose group already has an outbound peer, or after MaxTries tries; it   *)
(* skips (continue) an address last tried long ago while tries <           *)
(* RecentTries, or on a non-default port while tries < PortTries; else it  *)
(* resets tries and hands newOutboundPeer(addr) to handleAddPeerMsg.  On   *)
(* leaving the loop it arms a wakeup if more peers are still needed.       *)
(* Whether an address was last tried long ago is not modelled: both        *)
(* outcomes are possible.  When the bound on peer objects leaves no room  *)
(* for a peer that would be accepted, the model leaves the loop.           *)
(***************************************************************************)
LeaveLoop ==
    /\ pc' = "select"
    /\ wakeupArmed' = (wakeupArmed \/ NeedMoreOutbound)
    /\ UNCHANGED <<obj, live, peers, outboundPeers, persistentPeers,
                   outboundGroups, banned, tries>>

ReplenishStep ==
    /\ pc = "loop"
    /\ \/ /\ ~(NeedMoreOutbound /\ ~shutdown)
          /\ LeaveLoop
       \/ /\ NeedMoreOutbound /\ ~shutdown /\ KnownAddrs = {}
          /\ LeaveLoop
       \/ /\ NeedMoreOutbound /\ ~shutdown
          /\ \E a \in KnownAddrs :
                \/ /\ outboundGroups[GroupOf[a]] # 0 \/ tries + 1 > MaxTries
                   /\ LeaveLoop
                \/ /\ outboundGroups[GroupOf[a]] = 0 /\ tries + 1 <= MaxTries
                   /\ \/ tries + 1 < RecentTries
                      \/ a \notin DefaultPortAddrs /\ tries + 1 < PortTries
                   /\ tries' = tries + 1
                   /\ UNCHANGED <<obj, live, peers, outboundPeers, persistentPeers,
                                  outboundGroups, banned, pc, wakeupArmed>>
                \/ /\ outboundGroups[GroupOf[a]] = 0 /\ tries + 1 <= MaxTries
                   /\ ~(a \notin DefaultPortAddrs /\ tries + 1 < PortTries)
                   /\ Accepts(NewPeer(a, FALSE, FALSE, 0)) => CanCreate
                   /\ tries' = 0
                   /\ handleAddPeerMsg(FreshId, NewPeer(a, FALSE, FALSE, 0))
                   /\ UNCHANGED <<pc, wakeupArmed>>
                \/ /\ Accepts(NewPeer(a, FALSE, FALSE, 0)) /\ ~CanCreate
                   /\ LeaveLoop
    /\ UNCHANGED <<fed, newQ, doneQ, banQ, shutdown, quit>>

(***************************************************************************)
(* The events of peerHandler's select, each followed by AfterEvent.        *)
(***************************************************************************)
HandleNewPeer(id) ==
    /\ pc = "select" /\ id \in newQ
    /\ newQ' = newQ \ {id}
    /\ handleAddPeerMsg(id, obj[id])
    /\ UNCHANGED <<fed, doneQ, banQ, wakeupArmed, shutdown, quit>>
    /\ AfterEvent

HandleDonePeer(id) ==
    /\ pc = "select" /\ id \in doneQ
    /\ doneQ' = doneQ \ {id}
    /\ handleDonePeerMsg(id)
    /\ UNCHANGED <<banned, newQ, banQ, wakeupArmed, shutdown, quit>>
    /\ AfterEvent

HandleBanPeer(id) ==
    /\ pc = "select" /\ id \in banQ
    /\ banQ' = banQ \ {id}
    /\ handleBanPeerMsg(id)
    /\ UNCHANGED <<obj, peers, outboundPeers, persistentPeers, outboundGroups,
                   fed, newQ, doneQ, live, wakeupArmed, shutdown, quit>>
    /\ AfterEvent

HandleWakeup ==
    /\ pc = "select" /\ wakeupArmed
    /\ wakeupArmed' = FALSE
    /\ UNCHANGED <<obj, peers, outboundPeers, persistentPeers, outboundGroups,
                   banned, fed, newQ, doneQ, banQ, live, shutdown, quit>>
    /\ AfterEvent

\* A ConnectNode, RemoveNodeBy... or DisconnectNodeBy... call from the RPC
\* server, answered on its reply channel.
HandleQuery ==
    /\ pc = "select"
    /\ \/ \E a \in Addrs \cup BadAddrs, permanent \in BOOLEAN :
             /\ Accepts(NewPeer(a, FALSE, permanent, 0)) => CanCreate
             /\ connectNode(a, permanent)
       \/ \E sel \in Selectors : removeNode(sel)
       \/ \E sel \in Selectors : disconnectNode(sel)
    /\ UNCHANGED <<fed, newQ, doneQ, banQ, wakeupArmed, shutdown, quit>>
    /\ AfterEvent

\* s.quit is closed: peerHandler shuts every peer down and returns.
HandleQuit ==
    /\ pc = "select" /\ quit
    /\ pc' = "done"
    /\ UNCHANGED <<obj, peers, outboundPeers, persistentPeers, outboundGroups,
                   banned, fed, newQ, doneQ, banQ, live, wakeupArmed,
                   shutdown, quit, tries>>

(***************************************************************************)
(* The rest of the server and the network.                                 *)
(***************************************************************************)

\* listenHandler accepts a connection from a and sends the new inbound
\* peer on newPeers (AddPeer).
Listen(a) ==
    /\ ~shutdown /\ CanCreate
    /\ obj' = obj @@ (FreshId :> NewPeer(a, TRUE, FALSE, 0))
    /\ newQ' = newQ \cup {FreshId}
    /\ UNCHANGED <<peers, outboundPeers, persistentPeers, banned, outboundGroups,
                   fed, doneQ, banQ, live, wakeupArmed, shutdown, quit, pc, tries>>

\* The connection of a started peer ends and the peer sends itself on
\* donePeers.  A persistent one keeps an object free for its replacement.
Drop(id) ==
    /\ id \in live
    /\ obj[id].persistent => CanCreate
    /\ live' = live \ {id}
    /\ doneQ' = doneQ \cup {id}
    /\ UNCHANGED <<obj, peers, outboundPeers, persistentPeers, banned,
                   outboundGroups, fed, newQ, banQ, wakeupArmed, shutdown,
                   quit, pc, tries>>

\* A live peer misbehaves and is handed to BanPeer.
Misbehave(id) ==
    /\ id \in live
    /\ banQ' = banQ \cup {id}
    /\ UNCHANGED <<obj, peers, outboundPeers, persistentPeers, banned,
                   outboundGroups, fed, newQ, doneQ, live, wakeupArmed,
                   shutdown, quit, pc, tries>>

\* cfg.BanDuration has passed for host h.
BanExpire(h) ==
    /\ banned[h] = "active"
    /\ banned' = [banned EXCEPT ![h] = "expired"]
    /\ UNCHANGED <<obj, peers, outboundPeers, persistentPeers, outboundGroups,
                   fed, newQ, doneQ, banQ, live, wakeupArmed, shutdown,
                   quit, pc, tries>>

\* A connected peer completes the federate-server handshake and enters
\* federateServers (code outside src/, modelled from the spec).
FederateJoin(id) ==
    /\ id \in (InPeerState \cap live) \ fed
    /\ fed' = fed \cup {id}
    /\ UNCHANGED <<obj, peers, outboundPeers, persistentPeers, banned,
                   outboundGroups, newQ, doneQ, banQ, live, wakeupArmed,
                   shutdown, quit, pc, tries>>

\* Stop: the shutdown flag is set, then s.quit is closed.
StopFlag ==
    /\ ~shutdown
    /\ shutdown' = TRUE
    /\ UNCHANGED <<obj, peers, outboundPeers, persistentPeers, banned,
                   outboundGroups, fed, newQ, doneQ, banQ, live, wakeupArmed,
                   quit, pc, tries>>

StopQuit ==
    /\ shutdown /\ ~quit
    /\ quit' = TRUE
    /\ UNCHANGED <<obj, peers, outboundPeers, persistentPeers, banned,
                   outboundGroups, fed, newQ, doneQ, banQ, live, wakeupArmed,
                   shutdown, pc, tries>>

\* peerHandler has returned: the server has stopped.
Terminated ==
    /\ pc = "done"
    /\ UNCHANGED vars

Next ==
    \/ \E id \in DOMAIN obj : HandleNewPeer(id) \/ HandleDonePeer(id)
                              \/ HandleBanPeer(id)
    \/ HandleWakeup \/ HandleQuery \/ HandleQuit \/ ReplenishStep
    \/ \E a \in InboundAddrs : Listen(a)
    \/ \E id \in DOMAIN obj : Drop(id) \/ Misbehave(id) \/ FederateJoin(id)
    \/ \E h \in Hosts : BanExpire(h)
    \/ StopFlag \/ StopQuit
    \/ Terminated

\* peerHandler runs its loop whenever it is in it.  Go's select picks
\* uniformly among the ready cases, so a case that is ready again and
\* again is eventually taken: strong fairness per case (stated for the
\* cases the properties below rely on).  Nothing forces the network, the
\* RPC caller, a ban or a shutdown.
Fairness ==
    /\ WF_vars(ReplenishStep)
    /\ \A id \in 1..MaxObjs : SF_vars(HandleDonePeer(id))
    /\ SF_vars(HandleQuit)

Spec == Init /\ [][Next]_vars /\ Fairness

\* Time passes: a ban always runs out after cfg.BanDuration.
LiveSpec == Spec /\ \A h \in Hosts : WF_vars(BanExpire(h))

-----------------------------------------------------------------------------
(* Properties *)

TypeOK ==
    /\ \E n \in 0..MaxObjs :
          obj \in [1..n -> [addr : Addrs \cup BadAddrs, inbound : BOOLEAN,
                            persistent : BOOLEAN, retry : 0..MaxObjs]]
    /\ InPeerState \cup fed \cup newQ \cup doneQ \cup banQ \cup live
          \subseteq DOMAIN obj
    /\ banned \in [Hosts -> {"none", "active", "expired"}]
    /\ outboundGroups \in [Groups -> 0..MaxObjs]
    /\ pc \in {"select", "loop", "done"} /\ tries \in 0..MaxTries
    /\ wakeupArmed \in BOOLEAN /\ shutdown \in BOOLEAN /\ quit \in BOOLEAN

\* state.outboundGroups counts, per address group, the outbound and
\* persistent peers in peerState: handleAddPeerMsg, the done handler, the
\* persistent reconnect and the RemoveNode/DisconnectNode queries each keep
\* the count in step with the maps.  The replenishment loop trusts a zero
\* count to mean "no peer in this group".
GroupsConsistent ==
    \A g \in Groups :
        outboundGroups[g] =
            Cardinality({q \in outboundPeers \cup persistentPeers :
                            GroupOf[obj[q].addr] = g})

\* No entry of peerState or of federateServers is a dead peer whose done
\* message has already been handled: every such entry is running or its
\* done message is still queued.  A handler that forgets a map, or a
\* reconnect that leaves the old peer behind, leaves a peer that is
\* counted, relayed to and broadcast to forever.
NoDeadEntries ==
    \A id \in InPeerState \cup fed : id \in live \cup doneQ

\* The spec's limit on connections: peerState.Count() never exceeds
\* cfg.MaxPeers, whichever path (inbound, replenishment, ConnectNode,
\* persistent reconnect) adds the peer.
CountBounded == Count <= MaxPeers

\* peerHandler always leaves the replenishment loop and goes back to
\* serving its channels (donePeers, query, quit, ...).
ReplenishReturns == pc = "loop" ~> pc # "loop"


====
