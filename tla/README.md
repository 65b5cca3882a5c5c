# TLA+ models of FactomCode's server and leader machine

This directory holds TLA+ models of the Go sources in `src/`. It has a
module for each modelled component, an MC module that instantiates them for
TLC, the TLC configurations, and `PROJECT.json`. `PROJECT.json` lists the
components, the runs, the mutants, the map from definitions to source lines,
the findings and the hazards.

## The system

`src/common/cchain.go` holds two programs in one file:

* **Lines 1–705: the credit-block codec.** `CChain`, `CBlock`, `CBInfo`,
  `CBlockHeader` and the three entry types, each with `MarshalBinary` and
  `UnmarshalBinary`.
* **Lines 705–2777: `server.go`.** This is the peer-to-peer server of a
  Factom federate server. It has these parts:
  * **Peer manager.** The `peerHandler` goroutine owns `peerState`: the
    inbound, outbound and persistent peer maps, the banned set and the
    outbound groups. It serves `newPeers`, `donePeers`, `banPeers`,
    `relayInv`, `broadcast`, `query` and `peerHeightsUpdate`, and it
    replenishes outbound connections.
  * **Rebroadcast queue.** `rebroadcastHandler` keeps the inventory that is
    rebroadcast until it appears in a block.
  * **Lifecycle.** `Start`, `Stop`, `ScheduleShutdown` and `WaitForShutdown`.
  * **Federate roster.** `server.federateServers` is the list of federate
    servers this server knows. Each entry has a `*peer` whose `nodeState` is
    one of Candidate, Follower, LeaderElect, Leader and LeaderPrev. The role
    setters and queries work on this list.
  * **Leader machine.** It has two entry points:
    * `nextLeaderHandler` receives each newly sealed directory-block height
      from the processor and runs `handleNextLeader`. NotifyDBHeight blocks
      into its term, the leader picks the next leader (`selectNextLeader`,
      round robin by `LeaderLast`) and broadcasts a NextLeader message. At the
      last block of its term, the leader steps down to LeaderPrev. At height
      `StartDBHeight-1`, the elect takes over and broadcasts CurrentLeader
      (`sendCurrentLeaderMsg`).
    * `handleDonePeerMsg`, on `peerHandler`, removes a lost federate server
      from the roster. If the lost server was the elect, the leader picks
      another one. If the lost server was the leader, every survivor runs
      `selectCurrentleader`, which claims leadership in this order: for the
      elect or the only follower; else for the first LeaderPrev; else for the
      earliest StartTime.

`src/unnamed/part_000` is a small REST admin front end (`serveRESTfulHTTP`,
`post`, `marshal`).

The processor (block sealing, `resetLeaderState`) and the `wire` message
handlers that apply NextLeader and CurrentLeader at a receiving server are
not under `src/`. They are modelled from `spec.md` and marked
`spec_modelled` in the map.

## Modules

| Module | Models | Kind |
|---|---|---|
| `FederateRoster` | roster order and the role setters/queries of one server | operators only |
| `LeaderMachine` | a federation of servers running the leader machine | state machine |
| `MCLeaderMachine` | three servers A, B, C for TLC | MC module |
| `LeaderRotation` | what the leader machine promises: round-robin terms of `Term` blocks | abstract spec |
| `PeerManager` | one server's `peerHandler`, `peerState`, listener, `Stop` | state machine |
| `MCPeerManager` | addresses, hosts and groups for TLC | MC module |
| `CreditCodec` | the credit-block codec (lines 1–705) | operators only |
| `RandomNumber` | `randomUint16Number`'s rejection sampling | operators only |
| `MCPure` | bounded inputs for the codec and `randomUint16Number`; the spec's byte layout; an instance of `CreditChain` | MC module |
| `CreditChain` | `CreateCBlock`, `AddCBEntry` and the cached block hashes | state machine |
| `ServerLifecycle` | `Start`, `Stop`, `ScheduleShutdown`, `WaitForShutdown`, the goroutines' wait-group registration, the listener loop and `newPeers` | state machine |
| `MCServerLifecycle` | two listeners for TLC | MC module |
| `ShutdownSchedule` | `dynamicTickDuration` and the warning loop of `ScheduleShutdown` | operators only |

### FederateRoster

A roster view `r` is a function from the ids a server knows to the
`nodeState` of its peer object.

* **Roster order** (`RosterSeq`) is the server's own entry first, because
  `newServer` appends it, followed by the others in join order (the constant
  `JoinOrder`).
* **`GetPeer`** returns the first holder of a role in that order.
* **`SetLeaderPeer`, `SetLeaderPeerByID`, `setLeaderElectByID` and
  `SetPrevLeaderByID`** are translated line by line: demote the current
  holder of the role, then assign the role.
* **`SortedHead`** models `sort.Sort(ByLeaderLast(...))` and
  `sort.Sort(ByStartTime(...))` followed by taking the first element. It
  returns the member with the least key, with ties broken by roster order.
  Go sorts slices this short with an insertion sort, which is stable.

### LeaderMachine

**State.** Per server `n`:

* `role[n]`: its roster view;
* `leaderLast[n]`: the LeaderLast fields of its roster;
* `policy[n]`: `myLeaderPolicy`, modelled by its StartDBHeight, or `Nil`;
* `leaderCrashed[n]`;
* `height[n]`: the last height its `nextLeaderHandler` took.

Global state:

* `alive`: the servers that are running;
* `tip`: the sealed height;
* `msgs`: the NextLeader and CurrentLeader messages in flight.

**Actions.**

| Action | Code |
|---|---|
| `HandleNextLeader(n)` = guard + `handleNextLeader(n,h)` (`ElectStep`, `LeaderStep`) | `nextLeaderHandler`, `handleNextLeader` |
| `HandleDonePeer(n,m)` | federate part of `handleDonePeerMsg` up to its call: roster removal, newestHeight, the role checks, `leaderCrashed` |
| `SealBlock` | processor (spec): a server that believes it leads seals the next block |
| `ReceiveNextLeader(m)` | wire handler (spec): `setLeaderElectByID(next)`; `next` installs a policy at `h` |
| `ReceiveCurrentLeader(m)` | wire handler (spec): `SetLeaderPeerByID(new)` |
| `SelectNextLeaderTest(n)` | the top of `selectNextLeader` called from `handleDonePeerMsg`: return unless the server is still the leader in its own entry (line 2614) |
| `DoneCall(n)` | the rest of `handleDonePeerMsg`: `selectNextLeader` past its test, or the `selectCurrentleader` call, made on the roster and policy as they are now; a nil policy at `selectNextLeader`'s dereference (line 2649) panics the server |
| `Crash(n)` | a server process stops; peers see its connection end |
| `Finished` | stuttering at the height bound |

Each handler is one atomic step, except `handleDonePeerMsg`. A step
includes every call it makes: the broadcast, the policy update and the
LeaderLast update. `handleDonePeerMsg` is up to three steps: its checks;
for `selectNextLeader`, the call's `IsLeader` test; then the rest of the
call. `nextLeaderHandler` takes no lock, so `handleNextLeader` can run
between any two of them (`doneCall[n]` holds the decided call and how far
it has got). `sendCurrentLeaderMsg` and each roster setter are one step,
so the window inside `sendCurrentLeaderMsg` (the server is Leader at line
2730 but gets its new policy only at 2739) is not explored.

* **newestHeight.** `handleDonePeerMsg` reads newestHeight from the
  database. The model chooses it nondeterministically between the height the
  server's handler took and the tip. The processor saves a block before it
  passes the block's height to `nextLeaderHandler`, so the database can be
  ahead of the handler.
* **Broadcasts.** A broadcast reaches every peer in the sender's roster
  except the sender. A server never receives its own broadcast.

**Lockstep.** The constant `Lockstep` decides when `SealBlock` may fire.
With `TRUE`, a block is sealed only once every live server has handled the
previous height and has no message waiting (`Quiescent`). With `FALSE`,
blocks may be sealed while messages are still in flight, which is the real
timing.

### LeaderRotation and the refinement

`LeaderRotation` states what the leader machine promises a federation
without failures. It has one `leader`, the first height `start` of its term
and the sealed height `tip`. `Seal` adds a block within the term; `Handover`
passes the leadership to the next server of the ring right after the last
block of the term. Both are weakly fair.

`LeaderMachine` maps onto it as follows (`Rotation == INSTANCE
LeaderRotation WITH ...`):

* `leader` is `Sealer`: of the servers that are Leader or LeaderElect in
  their own roster entry and hold a policy, the one whose policy starts
  first;
* `start` is that server's `StartDBHeight`; `tip` is `tip`;
* the ring is the join order, and the first term starts at 2
  (`newServer` sets `newestHeight + 2`).

A server demoted to LeaderPrev by its successor's CurrentLeader before it
handles its own last height keeps its policy, because `handleNextLeader`
returns early for a server that is neither Leader nor LeaderElect. That is
why the mapping reads the server's own role and not only its policy.

### PeerManager

**State.** A peer object is an id in `DOMAIN obj`. Each object records its
address, its direction, its persistent flag and its retryCount. Two
connections from one address are two objects, as two `*peer` pointers are.
The model keeps:

* `peers`, `outboundPeers`, `persistentPeers`: the three maps of
  `peerState`, as sets of ids;
* `banned[host]`: `"none"`, `"active"` (ban end in the future) or
  `"expired"` (ban end passed, entry not yet deleted);
* `outboundGroups[group]`;
* `fed`: the peer objects named by `federateServers`, which is what the
  duplicate check reads;
* `newQ`, `doneQ`, `banQ`: the sends pending on `newPeers`, `donePeers`
  and `banPeers`;
* `live`: the peers whose goroutines run (started and connection up);
* `wakeupArmed`, `shutdown`, `quit`;
* `pc`, `tries`: where `peerHandler` is (`"select"`, `"loop"`, `"done"`)
  and the replenishment loop's counter.

**Actions.**

| Action | Code |
|---|---|
| `HandleNewPeer`, `HandleDonePeer`, `HandleBanPeer`, `HandleWakeup`, `HandleQuery`, `HandleQuit` | the cases of `peerHandler`'s select with `handleAddPeerMsg`, `handleDonePeerMsg` (peer lists and persistent reconnect), `handleBanPeerMsg`, `handleQuery` (`connectNode`, `removeNode`, `disconnectNode`) |
| `ReplenishStep` | one pass of the replenishment loop (group test, 100-try bound, stale and port skips, `tries = 0`, `handleAddPeerMsg`); `LeaveLoop` re-arms the wakeup |
| `Listen(a)` | `listenHandler` + `AddPeer` |
| `Misbehave(id)` | `BanPeer` |
| `StopFlag`, `StopQuit` | `Stop`: the shutdown counter, then `close(quit)` |
| `Drop(id)` | a peer's connection ends and it sends itself on `donePeers` (peer code, spec) |
| `FederateJoin(id)` | a connected peer enters `federateServers` (spec) |
| `BanExpire(h)` | `cfg.BanDuration` runs out (time) |

Every event ends with `AfterEvent`, which enters the loop only when more
outbound peers are needed, `ConnectPeers` is empty and no shutdown is under
way. This matches the `continue` before the loop.

Some things are abstracted:

* A rejected peer object never reaches `peerState` and costs no id.
* Whether an address was last tried more than ten minutes ago is a free
  choice.
* Pending wakeup timers are one flag.
* Channel capacities are not modelled.
* `MaxObjs` bounds the number of objects. A persistent peer may drop only
  when an id is free for its replacement. The loop is left when no id is
  free for a peer that would be accepted.

### ServerLifecycle

This module models how the server's goroutines start and stop, and nothing
of what they do in between. Its state is:

* `mainPc`: where main is. It is in `Start` before its 3 s sleep, after
  that sleep, blocked in `WaitForShutdown`'s `wg.Wait`, or returned.
* `task[t]`: where each goroutine is. The goroutines are the listeners,
  `peerHandler`, `nextLeaderHandler` and `upnpUpdateThread` (when NAT is on).
  A goroutine can be launched by a `go` statement but not yet registered in
  `s.wg`, in a listener's check/accept/send step, in its select, or exited.
* `wg`: the wait-group counter.
* `shutdown`, `stopPc`, `nextClose`, `open`: `s.shutdown`, the two callers
  of `Stop`, and how far `Stop`'s loop over `s.listeners` has got.
* `quit`: how often `close(s.quit)` ran.
* `newQ`: the peers buffered in `newPeers`, whose capacity is `MaxPeers`.
* `conns`: the connections accepted so far, bounded by `MaxConns`.
* `sched`: `ScheduleShutdown`'s goroutine.

| Action | Code |
|---|---|
| `StartLaunch`, `StartFinish` | `Start` before and after its `time.Sleep(3s)`. `StartFinish` is also main calling `WaitForShutdown` |
| `WaitForShutdown` | `wg.Wait()` returning |
| `TaskAdd(t)` | a goroutine's own first statement `s.wg.Add(1)`, with `peerHandler`'s setup before its loop |
| `ListenCheck`, `ListenAccept`, `ListenAcceptErr`, `ListenSend` | `listenHandler`'s loop: the `shutdown == 0` test (or `wg.Done`), `Accept`, `Accept`'s error once the listener is closed, and `AddPeer` blocking on a full `newPeers` |
| `PeerNew` | `peerHandler`'s `newPeers` case (what it does with the peer is `PeerManager`'s) |
| `TaskQuit(t)` | the quit case of `peerHandler`, `upnpUpdateThread` and `nextLeaderHandler`, then `wg.Done` |
| `ScheduleShutdown` | the `shutdownSched` gate and the goroutine; its ticks only log |
| `StopGate(c)`, `StopClose(c)`, `StopQuit(c)` | `Stop` called by `c`: the once-only gate, one `listener.Close()` (an error returns at once), `close(s.quit)` |

There is no time in this model. A sleep is a step that may come arbitrarily
late. `StartProcessor`, which Start also launches with `&s.wg`, is outside
`src/` and is left out.

### ShutdownSchedule

`ScheduleShutdown`'s goroutine warns on every tick of a ticker. It keeps
its own count of the remaining time by subtracting the current tick. It
skips a warning when less than a second is left, and it re-makes the
ticker when `dynamicTickDuration` of the new remaining time differs.
`Ticks` is that loop as a recursive operator. Times are integers in
quarter seconds, so the under-a-second skip happens. Real time (`at`) is
kept apart from the loop's count (`remaining`). A tick that falls exactly
on the deadline races the done timer in Go's select; `Ticks` takes the
tick first, which is the case with more warnings.

### CreditCodec

Each `MarshalBinary`, `MarshalledSize` and `UnmarshalBinary` of
`CBlockHeader`, the three entry types, `CBlock`, `CBInfo` and `CChain` is an
operator of the same name prefix (`HeaderMarshalBinary`,
`BuyUnmarshalBinary`, ...). A byte string is a sequence of 0..255.

* `PutInt(v, w)` is `binary.Write` of a w-byte integer: big-endian, two's
  complement for negative values. `GetUint` is `binary.BigEndian.UintN`;
  `GetInt` is `binary.Read` into a signed field.
* The decoders read each field at the offset the previous ones leave, as the
  Go code re-slices `data`. `Slice(d, off, n)` is `d[off:off+n]`.
* `EntryUnmarshalBinary` is the type-byte dispatch of
  `CBlock.UnmarshalBinary`. Any other byte leaves the entry nil, and the
  call on it panics; the operator then yields `Panic`.
* The `Hash` type is outside `src/`. Its codec is the 33-byte field of the
  spec's layout (`HashSize = 33`).

`MCPure` has one variable, the input under test. Its initial states
are all the bounded inputs. For the codec they are headers, each entry kind, blocks of up to two
entries of mixed kinds, CBInfo and CChain values. A reference layout,
`SpecLayout`, is written from the spec's section on the on-disk format, not
from the code.

### RandomNumber

`randomUint16Number(max)` draws w-bit integers (w = 16 in the code; the
constant `Width` here) until one is below `LimitRange(max) = (MaxUint /
max) * max`, and returns its remainder mod max. The random source is
abstracted to the set of draws, each equally likely. The result is uniform
exactly when each remainder in 0..max-1 comes from as many accepted draws as
every other, which `MCPure` counts for every max of 8-bit draws.

### CreditChain

State: `blocks` (each with `Header`, `CBEntries` and the cached `CBHash`
and `MerkleRoot`), `nextBlockID` (`chain.NextBlockID`) and `result` (the
error of the last `CreateCBlock`).

| Action | Code |
|---|---|
| `CreateCBlock(prev)` | `CreateCBlock`: both argument checks, then the parent's `MerkleRoot` and `CBHash` built if nil and copied into the new header |
| `AddCBEntry(i, e)` | `CBlock.AddCBEntry` |
| `BuildCBHash(i)`, `BuildMerkleRoot(i)` | the exported builders |
| `AdvanceHeight` | the producer moving `NextBlockID` on (spec) |

`Sha` and the Merkle root are injective functions of what they hash.
`MCPure`'s `RoundTrip` shows that `MarshalBinary` is injective, so
hashing the pair `<<Header, CBEntries>>` stands for hashing its bytes. No
code under `src/` calls these functions or advances `NextBlockID`. The
producer is taken from the spec: it builds on the tip (or passes nil),
adds entries to the tip only, and advances `NextBlockID` after each block.
The module's steps run in `MCPure`, but no property is checked of them.
With this producer, the laws that hold (block i at height i-1, zero links
only at the origin) restate single lines of `CreateCBlock`, and a caller
that forgets to advance `NextBlockID` is outside `src/`.

## Runs

All runs use the following setup:

* three servers A, B and C, each joined in the order A, B, C;
* StartTime A=1, C=2, B=3;
* A is the initial leader;
* Term = 2 and NotifyDBHeight = 1, so that a hand-off happens every two
  blocks.

| Run | Cfg | Expect | What it shows |
|---|---|---|---|
| rotation | `MCLeaderMachine_rotation.cfg` | pass (317 states) | No crashes, lockstep, 7 blocks, so the hand-offs A→B→C→A happen. The run checks: at most one Leader and one LeaderElect per roster; a server holding either role has a policy; two live leaders never have overlapping terms; at quiescence every live roster names the same live leader; and every elect eventually leads. The federation also implements `LeaderRotation` (`ImplementsRotation`). |
| crash | `MCLeaderMachine_crash.cfg` | pass (2.1M states) | One crash at any point, no lockstep, 4 blocks. The per-roster role uniqueness and the role/policy link survive every interleaving of crash, heights, messages and the two halves of `handleDonePeerMsg`. |
| twoleaders | `MCLeaderMachine_twoleaders.cfg` | violation of `NoOverlappingTerms` | A leader crash yields two leaders for the same heights. |
| async | `MCLeaderMachine_async.cfg` | violation of `Handoff` | A late NextLeader loses the hand-off and block production stops. |
| electloss | `MCLeaderMachine_electloss.cfg` | violation of `Progress` | One crash, never of the first leader A (state constraint `InitLeaderUp`, which rules out the double claim of finding 1), lockstep, 6 blocks. The next leader crashes before its term, nobody replaces it, and no block is sealed after the leader's term; see finding 4. |
| panic | `MCLeaderMachine_panic.cfg` | violation of `PolicyAtDoneCall` | As `crash`. A lagging leader ends its term after `selectNextLeader`, called from `handleDonePeerMsg`, has passed its `IsLeader` test and before it dereferences the policy; see finding 5. |

The PeerManager runs use one server with these settings:

* `AddPeers = <<a1>>`;
* the address manager knows `a2`, which is not on the default port;
* inbound connections come from `i1`, which shares host and group with
  `a1`;
* one address does not parse;
* MaxPeers 3 (1 in `peers`), maxOutboundPeers 2;
* MaxTries 3, RecentTries 1, PortTries 2 in place of 100, 30 and 50.

| Run | Cfg | Expect | What it shows |
|---|---|---|---|
| peers | `MCPeerManager_capacity.cfg` | pass (506k states) | MaxPeers 1, up to 3 peer objects. Over every interleaving of connections, drops, bans, queries, replenishment and shutdown, `outboundGroups` matches the maps. No peer whose done message was handled stays in `peerState` or `federateServers`. No path adds a peer beyond MaxPeers: inbound, ConnectNode, replenishment and persistent reconnect all respect it. |
| livelock | `MCPeerManager_livelock.cfg` | violation of `ReplenishReturns` | The federate-duplicate livelock; see finding 3. |

The runs of the pure operators and the credit chain:

| Run | Cfg | Expect | What it shows |
|---|---|---|---|
| pure | `MCPure.cfg` | pass (4.1k states) | Every header and entry is written in the spec's byte layout. Every header, entry, block, CBInfo and CChain decodes back to itself. `MarshalledSize` is the length written, which the block decoder relies on to step from entry to entry. `randomUint16Number(max)` can return, returns only values below max, and is uniform, for every max from 1 to 255 with 8-bit draws. Under the input `BuildBlocks` the credit chain builds three blocks with one entry each, with no property of its own (see CreditChain). `ScheduleShutdown`'s warnings always state the time really left, and they are spaced by the spec's shortening tick (the largest of 1 h, 15 min, 5 min, 1 min, 15 s, 5 s, 1 s below the time left). This holds for every quarter second up to 2 min, around the 5 min, 15 min and 1 h boundaries, and every 15 s up to 1 h 2 min. (4.1k states: 1.4k inputs plus 2.7k chain states.) |

The lifecycle runs use two listeners closed in the order l1, l2, UPnP on,
and a `listener.Close()` that may fail.

| Run | Cfg | Expect | What it shows |
|---|---|---|---|
| lifecycle | `MCServerLifecycle.cfg` | pass (68k states) | `newPeers` holds 2 and at most 2 connections arrive. The operator and the scheduler race to `Stop`, goroutines register late, and listeners accept up to the moment they are closed. Through all of this, `s.quit` is closed at most once and the wait-group counter never goes negative. Once `s.quit` is closed, every registered goroutine exits and `WaitForShutdown` returns. |
| drain | `MCServerLifecycle_drain.cfg` | violation of `QuitEndsTasks` | `newPeers` holds 1 and 2 connections arrive. A listener blocked in `AddPeer` after `peerHandler` has quit is never released; see finding 6. |
| stopfail | `MCServerLifecycle_stopfail.cfg` | violation of `StopEndsServer` | As `lifecycle`. The scheduler's `Stop` passes the gate, the operator's returns nil at it, and the second `listener.Close()` fails: `s.quit` is never closed; see finding 7. |

**Deadlock checking.** The lifecycle runs turn it off because the process
ends when main returns. `crash`, `panic` and `twoleaders` turn off deadlock checking
because the code can end with no live leader (see the findings), and then
nothing can happen; so does `electloss`. `async` turns it off so that `Handoff` reports the stall
as a temporal violation.

**Codec bounds.** TLC's integers are 32-bit. Signed 4-byte fields take
the int32 edges -2^31, -1, 0, 1 and 2^31-1. The 8-byte and unsigned fields
take values that fit in 31 bits: -1 for the sign extension of a 64-bit
field, 0, and a large value. Hashes are the zero hash and one with every
byte different. Signatures and names have lengths 0, 1 and 2, so the
length prefixes and the step to the next entry are exercised. The draws of
`randomUint16Number` are 8-bit, so every max from 1 to 255 is checked,
powers of two among them (there 255 rather than 256 makes the code reject
one more block of max draws than the spec's rule). With 16-bit draws the
count per remainder for max = 1800 alone costs over 10^8 set operations.

The doc comment of `randomUint16Number` says that passing 1800 gives values
from 0 to 1800. The code returns values from 0 to 1799, as the spec says.

**Bounds.** Three servers are the fewest for which a survivor must choose
between the elect, the previous leader and the StartTime order. Seven blocks
with Term 2 cover three hand-offs, including the return to A. In `crash`
four blocks cover A's whole term and the start of B's, so a crash can hit
every phase of a hand-off, and without lockstep a server can lag the tip
by two heights. Two crashes or a fifth block without lockstep take TLC
about ten minutes.

### Mutants

Each property of a passing run is broken by a mutant of the code it is
about:

* dropping the `height < tip` wait in `nextLeaderHandler` breaks `TypeOK`;
* `SetLeaderPeerByID` without the demotion breaks `UniqueLeaderAndElect`;
* a term end that forgets `SetPrevLeaderByID` breaks `RoleHasPolicy`;
* a NextLeader height one block early breaks `NoOverlappingTerms`;
* a `sendCurrentLeaderMsg` that does not broadcast breaks `AgreedLeader`;
* an elect that takes over at `StartDBHeight` breaks `Handoff`;
* a done handler that gives back a group count without finding the peer in
  its list breaks `TypeOK` of PeerManager;
* a DisconnectNode without the `whenFound` callback breaks
  `GroupsConsistent`;
* a persistent reconnect that keeps the old object breaks `NoDeadEntries`;
* dropping the MaxPeers check from `handleAddPeerMsg` breaks
  `CountBounded`;
* a little-endian `binary.Write` breaks `MatchesSpecLayout`;
* a PayEntry decoder that reads the signature from its length field breaks
  `RoundTrip`;
* a PayChain size without the 4-byte signature length breaks
  `SizeMatches`;
* a sampling limit one past the multiple of max breaks `Uniform`;
* a quit case that calls `wg.Done` and then again in its defer breaks
  `TypeOK` of ServerLifecycle;
* a `Stop` without its once-only gate breaks `QuitClosedOnce`;
* a listener loop with no shutdown test breaks `QuitEndsTasks`;
* a shutdown loop that records the new tick but does not re-make the
  ticker breaks `ShutdownWarnings`;
* a `selectNextLeader` that picks by StartTime instead of LeaderLast
  breaks `ImplementsRotation` (the rotation is no longer round-robin).

## Findings

1. **Two leaders for the same heights (code bug).** Each server detects the
   leader's crash on its own connection. C sees it first and claims by
   StartTime, then names B as elect. When B later sees the same crash, it
   claims again. Both now lead for the same heights. When each receives the
   other's CurrentLeader, it demotes itself. The federation can end with no
   leader.
2. **Lost hand-off (code bug).** The elect acts only at exactly
   `StartDBHeight-1`. A NextLeader message that arrives after the elect's
   handler took that height is ignored, and block production stops.

3. **Replenishment livelock (code bug).** DisconnectNode removes an outbound
   federate peer from `outboundPeers`, so its group count drops to 0. Its
   `federateServers` entry stays until its done message is served. The
   loop then gets the same address again. `handleAddPeerMsg` rejects it as
   a duplicate federate and `tries` goes back to 0, so the loop does not
   end until a `Stop` sets `s.shutdown`, which the loop tests (line 1581).
   Until then the done message, the queries and new peers are not served.
   A banned host gives the same spin until the ban runs out (24 h by
   default).

4. **Lost leader-elect not replaced (code bug).** `selectNextLeader`
   broadcasts NextLeader but does not mark the chosen server LeaderElect in
   the leader's own roster. The leader's emergency branch in
   `handleDonePeerMsg` (`s.IsLeader() && p.IsLeaderElect()`, line 1125)
   is therefore not taken when that server crashes before its term. The
   leader steps down at its last height and nobody leads. The spec says the
   leader calls `selectNextLeader` when the leader-elect is removed.
5. **Nil policy in selectNextLeader (code bug).** `handleDonePeerMsg` runs
   on `peerHandler`. It checks `s.IsLeader() && p.IsLeaderElect()` and then
   calls `selectNextLeader`. That tests `s.IsLeader()` again (line 2614)
   and then dereferences `myLeaderPolicy` (line 2649). `nextLeaderHandler`
   runs `handleNextLeader` on another goroutine with no lock. At the last
   height of the term it makes the server LeaderPrev (line 2600) and sets
   `myLeaderPolicy = nil` (line 2605). In TLC's trace, leader A is two
   heights behind the tip. It has learnt from B's NextLeader that C is the
   elect. C crashes, A's `peerHandler` decides to replace C, and the call
   passes its `IsLeader` test. A's `nextLeaderHandler` then ends A's term
   before the dereference, which panics the server. A term end before the
   test is harmless: the call returns. The spec says role transitions on the two
   tasks exclude each other under a roster lock.
6. **A listener left blocked on newPeers (spec divergence).** `Stop`
   increments `s.shutdown` before it closes the listeners. A listener
   already inside `Accept` can still take a connection in between and call
   `AddPeer`. `peerHandler`'s quit case shuts its peers down and returns
   without draining `newPeers`. If the buffer is full at that moment, the
   listener stays blocked in `s.newPeers <- p` forever. Its `wg.Done`
   never runs, so `WaitForShutdown` never returns. The spec says each task
   drains the channels it owns during exit, to avoid deadlocking senders.
   When the buffer has room, the send succeeds, and that peer is never
   started or shut down.
7. **A failed listener.Close leaves the server running (spec
   divergence).** `Stop` sets `s.shutdown` to 1 and then closes the
   listeners. It returns the first `listener.Close()` error before it
   closes the rest and `s.quit`. Every later `Stop`, the operator's or the
   scheduler's, returns nil at the once-only gate. So `s.quit` is never
   closed: `peerHandler`, `nextLeaderHandler` and `upnpUpdateThread` stay
   in their select and `WaitForShutdown` never returns. The spec says
   `close(quit)` broadcasts termination to all tasks, which are registered
   in a wait group so that shutdown is observable.

Observations that no run checks, because a unit test of a few calls shows
each of them as well:

* `SetLeaderPeerByID` and `SetLeaderPeer` never demote the existing
  LeaderPrev. Two successive hand-offs leave two of them in one roster.
  The spec says a roster has one.
* `CreateCBlock` takes `prev.CBHash` as the new block's PrevHash whenever
  it is already set. `AddCBEntry` appends without clearing `CBHash` or
  `MerkleRoot`. So `BuildCBHash` on the tip, one more `AddCBEntry` on the
  tip and then `CreateCBlock` link the new block to the hash of the old
  content. The spec says `blocks[i+1].previousHash == hash(blocks[i])`.
* Each goroutine calls `s.wg.Add(1)` itself, not `Start` before the `go`
  statement. In the model, `wg.Wait` can return before
  `nextLeaderHandler` (launched last, after Start's sleep) has registered.
  In the code only the two sleeps order them.

ConnectNode and the permanent peers reach `handleAddPeerMsg`, which checks
only the total against MaxPeers, not `maxOutboundPeers`. So a ConnectNode
query with `maxOutboundPeers` outbound peers connected adds one more, where
the spec's PeerSet invariant says it never does. No run checks this:
one query shows it, and a unit test reaches it as easily.

The spec says the loop skips addresses tried in the last ten minutes until
30 tries have failed. The code skips the addresses *not* tried in the last
ten minutes. The model makes this choice freely, so no run depends on it.

## Fairness

Weak fairness is assumed for:

* each server's `HandleNextLeader`: a goroutine blocked on a channel with
  data gets to run;
* each `HandleDonePeer`, `SelectNextLeaderTest` and `DoneCall`:
  peerHandler serves `donePeers` and finishes the handler it is in;
* message receipt;
* `SealBlock`: the leader's block timer fires.

`LeaderRotation` has weak fairness on `Seal` and `Handover`: a federation
without failures keeps sealing and hands over at each term end. The
rotation run checks that the detailed fairness above implies it.

Crashes are never forced.

In PeerManager:

* `ReplenishStep` is weakly fair: the loop runs while `peerHandler` is in
  it.
* Each `HandleDonePeer(id)` and `HandleQuit` is strongly fair. Go's select
  picks uniformly among the ready cases, so a case that is ready again and
  again is eventually taken.
* `LiveSpec` adds weak fairness on `BanExpire`, because a ban always runs
  out.
* Connections, drops, queries and `Stop` are never forced.

In ServerLifecycle:

* Every step of main and of each goroutine that stays enabled is weakly
  fair, once `Stop` has been entered included: a runnable goroutine runs.
* `PeerNew` and each `TaskQuit(t)` are strongly fair, for the same reason
  as in PeerManager. `peerHandler` selects at random between `newPeers`
  and `quit`.
* Accepting a connection, the operator's `Stop` and `ScheduleShutdown`
  are never forced.

## Not modelled (yet)

These are not modelled yet. They make up the plan for the next sittings,
in this order:

1. **Leader machine, continued.**
   * `handleNextLeader` is still one step, and so are `selectCurrentleader`,
     `sendCurrentLeaderMsg` and each roster setter. The window in
     `sendCurrentLeaderMsg` between `SetLeaderPeerByID` (line 2730) and
     the new policy (line 2739) is the one where `nextLeaderHandler` would
     dereference a nil policy at line 2589. Their own reads and writes could interleave with
     `peerHandler` at a finer grain than the split of `handleDonePeerMsg`.
   * Rejoin of a crashed server.
   * A StartTime tie.
   * A property on `leaderCrashed`.
2. **PeerManager, continued.** `relayInv`, `broadcast` and
   `peerHeightsUpdate` only send to peers. The read-only queries change
   nothing. The bounded `broadcast` channel is needed for the self-send
   deadlock hazard.
3. **Lifecycle, continued.** The wakeup timers that `peerHandler` arms
   send on the unbuffered `wakeup` channel, and one that fires after
   `peerHandler` has quit blocks forever. That needs ServerLifecycle and
   PeerManager composed, which the run budget does not yet allow.
   `rebroadcastHandler` is dead code in `src/`. `Start` never launches
   it, and nothing calls `AddRebroadcastInventory` or
   `RemoveRebroadcastInventory`, so there is nothing to model.
4. **Codec robustness.** The codec runs feed the decoders only what the
   encoders write. Corrupt input (an unknown type byte, a short buffer)
   makes the Go code panic; the code never rejects it gracefully, so no
   property is stated.
5. **REST admin dispatch.**

`listenHandler`'s loop and UPnP's quit case are in ServerLifecycle. The
rest of the network I/O (DNS seeding, `parseListeners`, the port
mapping, the byte counters) and logging are left out. They have no
protocol state worth a model.
