--------------------------- MODULE ServerLifecycle ---------------------------
(***************************************************************************)
(* The lifecycle of one server (server.go, part of src/common/cchain.go):  *)
(* Start launches the long-lived goroutines, each of which registers in    *)
(* s.wg itself (wg.Add(1) as its first statement); Stop, gated by the      *)
(* atomic s.shutdown, closes the listeners and then s.quit; WaitForShutdown*)
(* blocks in wg.Wait.  Stop has two callers: the operator (an interrupt,   *)
(* outside src/) and the goroutine that ScheduleShutdown arms.             *)
(*                                                                         *)
(* A listener goroutine loops "check shutdown, Accept, AddPeer"; AddPeer   *)
(* sends on s.newPeers, buffered at cfg.MaxPeers, which only peerHandler   *)
(* receives from.  A peer is a count in that buffer: what peerHandler does *)
(* with it is PeerManager's business.  upnpUpdateThread and               *)
(* nextLeaderHandler matter here only through their quit case.  Time (the *)
(* sleeps and tickers) is left out: a sleep is a step that may be          *)
(* arbitrarily late, as it may under load.                                 *)
(***************************************************************************)
EXTENDS Naturals, FiniteSets, Sequences

CONSTANTS
    ListenOrder,   \* s.listeners, in slice order (model values)
    UseNAT,        \* s.nat != nil
    MaxPeers,      \* cfg.MaxPeers: capacity of s.newPeers
    MaxConns,      \* bound on connections the listeners accept
    CloseFails     \* listener.Close() may return an error

Listeners == {ListenOrder[i] : i \in DOMAIN ListenOrder}
Callers   == {"op", "sched"}       \* who calls Stop
Tasks     == Listeners \cup {"peer", "leader"} \cup (IF UseNAT THEN {"upnp"} ELSE {})

ASSUME /\ MaxPeers \in Nat \ {0} /\ MaxConns \in Nat
       /\ UseNAT \in BOOLEAN /\ CloseFails \in BOOLEAN
       /\ Cardinality(Listeners) = Len(ListenOrder)

VARIABLES
    mainPc,     \* main: "start", "sleep" (Start's 3 s sleep), "wait", "returned"
    task,       \* task[t]: "none", "launched" (go done, wg.Add not yet),
                \*   a listener's "check"/"accept"/"send", the others' "select",
                \*   or "exited"
    shutdown,   \* s.shutdown, incremented by every Stop call
    stopPc,     \* stopPc[c]: "idle", "closing" or "returned"
    nextClose,  \* index in ListenOrder of the next listener Stop closes
    open,       \* listeners not yet closed
    quit,       \* number of close(s.quit) calls (a second one panics)
    newQ,       \* peers buffered in s.newPeers
    conns,      \* connections accepted so far
    sched,      \* ScheduleShutdown's goroutine: "none", "armed", "fired"
    wg          \* the counter of s.wg

vars == <<mainPc, task, shutdown, stopPc, nextClose, open, quit, newQ, conns,
          sched, wg>>

Init ==
    /\ mainPc = "start"
    /\ task = [t \in Tasks |-> "none"]
    /\ shutdown = 0
    /\ stopPc = [c \in Callers |-> "idle"]
    /\ nextClose = 1
    /\ open = Listeners
    /\ quit = 0
    /\ newQ = 0
    /\ conns = 0
    /\ sched = "none"
    /\ wg = 0

Launch(T) == [t \in Tasks |-> IF t \in T THEN "launched" ELSE task[t]]

(***************************************************************************)
(* main: Start, then WaitForShutdown.                                      *)
(***************************************************************************)

\* Start up to its sleep: the started gate passes (main calls Start once),
\* and the listeners, peerHandler and upnpUpdateThread are launched.
StartLaunch ==
    /\ mainPc = "start"
    /\ task' = Launch(Listeners \cup {"peer"} \cup
                      (IF UseNAT THEN {"upnp"} ELSE {}))
    /\ mainPc' = "sleep"
    /\ UNCHANGED <<shutdown, stopPc, nextClose, open, quit, newQ, conns, sched,
                   wg>>

\* After time.Sleep(3s): go nextLeaderHandler(), Start returns, main calls
\* WaitForShutdown, which sleeps and then blocks in wg.Wait.
StartFinish ==
    /\ mainPc = "sleep"
    /\ task' = Launch({"leader"})
    /\ mainPc' = "wait"
    /\ UNCHANGED <<shutdown, stopPc, nextClose, open, quit, newQ, conns, sched,
                   wg>>

\* wg.Wait returns when the counter is zero.
WaitForShutdown ==
    /\ mainPc = "wait" /\ wg = 0
    /\ mainPc' = "returned"
    /\ UNCHANGED <<task, shutdown, stopPc, nextClose, open, quit, newQ, conns,
                   sched, wg>>

(***************************************************************************)
(* The goroutines.                                                         *)
(***************************************************************************)

\* The goroutine's first statement: s.wg.Add(1).
TaskAdd(t) ==
    /\ task[t] = "launched"
    /\ task' = [task EXCEPT ![t] = IF t \in Listeners THEN "check" ELSE "select"]
    /\ wg' = wg + 1
    /\ UNCHANGED <<mainPc, shutdown, stopPc, nextClose, open, quit, newQ, conns,
                   sched>>

\* Mutant: the loop is "for {" with no shutdown check.
ListenCheckForever(l) ==
    /\ task[l] = "check"
    /\ task' = [task EXCEPT ![l] = "accept"]
    /\ UNCHANGED <<mainPc, shutdown, stopPc, nextClose, open, quit, newQ, conns,
                   sched, wg>>

\* listenHandler's loop condition: shutdown == 0, or return (wg.Done).
ListenCheck(l) ==
    /\ task[l] = "check"
    /\ task' = [task EXCEPT ![l] = IF shutdown = 0 THEN "accept" ELSE "exited"]
    /\ wg' = IF shutdown = 0 THEN wg ELSE wg - 1
    /\ UNCHANGED <<mainPc, shutdown, stopPc, nextClose, open, quit, newQ, conns,
                   sched>>

\* Accept returns a connection on an open listener.
ListenAccept(l) ==
    /\ task[l] = "accept" /\ l \in open /\ conns < MaxConns
    /\ conns' = conns + 1
    /\ task' = [task EXCEPT ![l] = "send"]
    /\ UNCHANGED <<mainPc, shutdown, stopPc, nextClose, open, quit, newQ, sched,
                   wg>>

\* Accept on a closed listener returns an error: continue.
ListenAcceptErr(l) ==
    /\ task[l] = "accept" /\ l \notin open
    /\ task' = [task EXCEPT ![l] = "check"]
    /\ UNCHANGED <<mainPc, shutdown, stopPc, nextClose, open, quit, newQ, conns,
                   sched, wg>>

\* s.AddPeer(newInboundPeer(...)): s.newPeers <- p blocks while it is full.
ListenSend(l) ==
    /\ task[l] = "send" /\ newQ < MaxPeers
    /\ newQ' = newQ + 1
    /\ task' = [task EXCEPT ![l] = "check"]
    /\ UNCHANGED <<mainPc, shutdown, stopPc, nextClose, open, quit, conns, sched,
                   wg>>

\* peerHandler's select, case p := <-s.newPeers.
PeerNew ==
    /\ task["peer"] = "select" /\ newQ > 0
    /\ newQ' = newQ - 1
    /\ UNCHANGED <<mainPc, task, shutdown, stopPc, nextClose, open, quit, conns,
                   sched, wg>>

\* Mutant: wg.Done() called on the way out and again by the defer.
TaskQuitDoubleDone(t) ==
    /\ t \in {"peer", "leader", "upnp"} \cap Tasks
    /\ task[t] = "select" /\ quit > 0
    /\ task' = [task EXCEPT ![t] = "exited"]
    /\ wg' = wg - 2
    /\ UNCHANGED <<mainPc, shutdown, stopPc, nextClose, open, quit, newQ, conns,
                   sched>>

\* Case <-s.quit of the select of peerHandler, upnpUpdateThread or
\* nextLeaderHandler: break out, clean up, wg.Done.  peerHandler leaves
\* whatever is still in s.newPeers where it is.
TaskQuit(t) ==
    /\ t \in {"peer", "leader", "upnp"} \cap Tasks
    /\ task[t] = "select" /\ quit > 0
    /\ task' = [task EXCEPT ![t] = "exited"]
    /\ wg' = wg - 1
    /\ UNCHANGED <<mainPc, shutdown, stopPc, nextClose, open, quit, newQ, conns,
                   sched>>

(***************************************************************************)
(* Stop and its callers.                                                   *)
(***************************************************************************)

\* ScheduleShutdown: the shutdownSched gate passes once and the goroutine is
\* armed; its ticker only logs warnings.
ScheduleShutdown ==
    /\ sched = "none"
    /\ sched' = "armed"
    /\ UNCHANGED <<mainPc, task, shutdown, stopPc, nextClose, open, quit, newQ,
                   conns, wg>>

\* Mutant: no once-only gate; every caller goes on to close.
StopGateNoOnce(c) ==
    /\ stopPc[c] = "idle"
    /\ c = "sched" => sched = "armed"
    /\ shutdown' = shutdown + 1
    /\ stopPc' = [stopPc EXCEPT ![c] = "closing"]
    /\ sched' = IF c = "sched" THEN "fired" ELSE sched
    /\ UNCHANGED <<mainPc, task, nextClose, open, quit, newQ, conns, wg>>

\* Stop's gate: atomic.AddInt32(&s.shutdown, 1) != 1 returns nil at once.
\* The scheduler calls Stop when its done timer fires.
StopGate(c) ==
    /\ stopPc[c] = "idle"
    /\ c = "sched" => sched = "armed"
    /\ shutdown' = shutdown + 1
    /\ stopPc' = [stopPc EXCEPT ![c] = IF shutdown' = 1 THEN "closing"
                                                        ELSE "returned"]
    /\ sched' = IF c = "sched" THEN "fired" ELSE sched
    /\ UNCHANGED <<mainPc, task, nextClose, open, quit, newQ, conns, wg>>

\* One iteration of the loop over s.listeners: listener.Close(), and on an
\* error return it, leaving the rest open and s.quit unclosed.
StopClose(c) ==
    /\ stopPc[c] = "closing" /\ nextClose <= Len(ListenOrder)
    /\ \/ /\ open' = open \ {ListenOrder[nextClose]}
          /\ nextClose' = nextClose + 1
          /\ UNCHANGED stopPc
       \/ /\ CloseFails
          /\ stopPc' = [stopPc EXCEPT ![c] = "returned"]
          /\ UNCHANGED <<open, nextClose>>
    /\ UNCHANGED <<mainPc, task, shutdown, quit, newQ, conns, sched, wg>>

\* close(s.quit); return nil.
StopQuit(c) ==
    /\ stopPc[c] = "closing" /\ nextClose > Len(ListenOrder)
    /\ quit' = quit + 1
    /\ stopPc' = [stopPc EXCEPT ![c] = "returned"]
    /\ UNCHANGED <<mainPc, task, shutdown, nextClose, open, newQ, conns, sched,
                   wg>>

Next ==
    \/ StartLaunch \/ StartFinish \/ WaitForShutdown
    \/ \E t \in Tasks : TaskAdd(t) \/ TaskQuit(t)
    \/ \E l \in Listeners :
          ListenCheck(l) \/ ListenAccept(l) \/ ListenAcceptErr(l) \/ ListenSend(l)
    \/ PeerNew
    \/ ScheduleShutdown
    \/ \E c \in Callers : StopGate(c) \/ StopClose(c) \/ StopQuit(c)

(***************************************************************************)
(* Every goroutine that can run keeps running; a select that is ready only *)
(* now and then (peerHandler's, next to newPeers) is strongly fair because *)
(* Go picks among ready cases at random.  Connections, the operator's Stop *)
(* and ScheduleShutdown are never forced; once Stop has been entered it    *)
(* runs to its return.                                                     *)
(***************************************************************************)
Fairness ==
    /\ WF_vars(StartLaunch) /\ WF_vars(StartFinish) /\ WF_vars(WaitForShutdown)
    /\ \A t \in Tasks : WF_vars(TaskAdd(t)) /\ SF_vars(TaskQuit(t))
    /\ \A l \in Listeners : WF_vars(ListenCheck(l)) /\ WF_vars(ListenAcceptErr(l))
                            /\ WF_vars(ListenSend(l))
    /\ SF_vars(PeerNew)
    /\ \A c \in Callers : WF_vars(StopClose(c)) /\ WF_vars(StopQuit(c))

Spec == Init /\ [][Next]_vars /\ Fairness

-----------------------------------------------------------------------------
TypeOK ==
    /\ mainPc \in {"start", "sleep", "wait", "returned"}
    /\ task \in [Tasks -> {"none", "launched", "check", "accept", "send",
                           "select", "exited"}]
    /\ shutdown \in 0..2
    /\ stopPc \in [Callers -> {"idle", "closing", "returned"}]
    /\ nextClose \in 1..Len(ListenOrder) + 1
    /\ open \subseteq Listeners
    /\ quit \in 0..2
    /\ newQ \in 0..MaxPeers
    /\ conns \in 0..MaxConns
    /\ sched \in {"none", "armed", "fired"}
    /\ wg \in 0..Cardinality(Tasks)     \* a negative counter panics

\* The operator and the scheduler may both call Stop; s.quit is closed at
\* most once (a second close(s.quit) panics).
QuitClosedOnce == quit <= 1

\* Once Stop has closed s.quit, every goroutine registered in s.wg returns
\* and WaitForShutdown returns: no sender is left blocked on a channel whose
\* receiver has quit.
QuitEndsTasks == quit > 0 ~> mainPc = "returned"

\* A Stop call that has passed the once-only gate ends the server: every
\* later Stop returns nil at the gate, so this call alone must close
\* s.quit, and WaitForShutdown then returns (spec: close(quit) broadcasts
\* termination to all tasks, registered in a wait group).  Stop returns
\* early when a listener.Close() fails.
StopEndsServer ==
    (\E c \in Callers : stopPc[c] = "closing") ~> mainPc = "returned"
====
