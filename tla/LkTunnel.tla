------------------------------ MODULE LkTunnel ------------------------------
(***************************************************************************)
(* The life of one tunnel (lktunnel/src/lib.rs): the connect task dials the  *)
(* room, waits for the peer and watches the session; any thread may attach a *)
(* data plane, disconnect or drop the last handle; the QUIC client is warmed *)
(* and kept up in the background.                                            *)
(*                                                                           *)
(* Aborting a tokio task takes effect at its next await: a task that is      *)
(* being polled runs on until then.  Sending on a tokio watch channel leaves *)
(* the value alone while nobody holds a receiver; the constructor's own      *)
(* receiver is gone before the first reply from the network.                 *)
(***************************************************************************)
EXTENDS Integers, Sequences

CONSTANTS Users,         \* threads that call into the tunnel
          Quic,          \* whether QUIC handshakes can succeed
          Subscribers,   \* whether anybody calls state()
          MaxCalls       \* bound on disconnect() calls

Dropper == "drop"        \* whoever drops the last Arc runs Drop
Actors == Users \cup {Dropper}

VARIABLES
    state,               \* the value of the watch channel
    connected,           \* the lifecycle flag
    task, aborted,       \* the connect task
    engine, slot,        \* the engine, and whether LkTunnel.engine holds it
    roster,              \* the engine's set of peers: "none" so far, "here", "left"
    sender,              \* the sender task; "closed" once its queue is
    planes,              \* the data planes installed: "nat", "tun"
    quic,                \* the QUIC client and its keeper
    events,              \* the event stream, as sent
    handles,             \* Arcs held outside the tunnel (0 or 1)
    pc, done,            \* teardown: program counter and already_done, per actor
    want,                \* the plane an actor is attaching
    entries, calls       \* teardowns that passed the guard; disconnect() calls

life == <<state, connected, task, aborted, roster, events>>
gear == <<engine, slot, sender, planes, quic>>
hands == <<handles, pc, done, want, entries, calls>>
vars == <<life, gear, hands>>

\* Where the connect task can be cancelled, and where it holds a strong Arc.
Awaiting == {"dialing", "peer_wait", "main"}
Holding == {"stow", "spawn", "release"}
TaskSteps == Awaiting \cup Holding
               \cup {"dial_failed", "dialed", "dropping", "joined", "publish", "announce", "warm", "exit", "done"}
TeardownSteps == {"borrow", "mark", "emit", "flag", "abort", "planes", "engine", "fields"}

\* Who keeps the tunnel alive.  The client in quic_client holds an endpoint whose
\* socket holds an Arc<LkTunnel>; a dial in progress holds one too.
Pinned(q) == q \in {"warming", "installing", "up", "stale", "redial"}
Alive == handles > 0 \/ task \in Holding \/ Pinned(quic)

Init ==
    /\ state = "Connecting"
    /\ connected = FALSE
    /\ task = "dialing" /\ aborted = FALSE
    /\ engine = "none" /\ slot = FALSE
    /\ roster \in {"none", "here"}
    /\ sender = "none"
    /\ planes = {}
    /\ quic = "none"
    /\ events = <<>>
    /\ handles = 1
    /\ pc = [a \in Actors |-> "idle"]
    /\ done = [a \in Actors |-> FALSE]
    /\ want = [a \in Actors |-> "nat"]
    /\ entries = 0 /\ calls = 0

\* state_tx.send
Publish(v) == state' = IF Subscribers THEN v ELSE state
\* state_tx.send from the task, which holds a Weak.
PublishIfAlive(v) == state' = IF Subscribers /\ Alive THEN v ELSE state
Emit(kind) == events' = Append(events, kind)

-----------------------------------------------------------------------------
(* The engine's roster, as the SFU's join reply and updates make it.         *)

PeerComes ==
    /\ roster # "here"
    /\ roster' = "here"
    /\ UNCHANGED <<state, connected, task, aborted, events, gear, hands>>

PeerGoes ==
    /\ roster = "here"
    /\ roster' = "left"
    /\ UNCHANGED <<state, connected, task, aborted, events, gear, hands>>

-----------------------------------------------------------------------------
(* run_connect_task                                                          *)

\* Engine::connect fails.
DialFails ==
    /\ task = "dialing"
    /\ PublishIfAlive("Failed")
    /\ Emit("Error")
    /\ task' = "dial_failed"
    /\ UNCHANGED <<connected, aborted, roster, gear, hands>>

DialFailed ==
    /\ task = "dial_failed"
    /\ Emit("Disconnected")
    /\ task' = "done"
    /\ UNCHANGED <<state, connected, aborted, roster, gear, hands>>

DialOk ==
    /\ task = "dialing"
    /\ engine' = "open"
    /\ task' = "dialed"
    /\ UNCHANGED <<state, connected, aborted, roster, events, slot, sender, planes, quic, hands>>

\* weak.upgrade(): without a tunnel the engine is closed, or dropped when the
\* task is cancelled inside close().
Upgrade ==
    /\ task = "dialed"
    /\ IF Alive
         THEN task' = "stow" /\ UNCHANGED engine
         ELSE task' = "done" /\ engine' \in IF aborted THEN {"closed", "dropped"} ELSE {"closed"}
    /\ UNCHANGED <<state, connected, aborted, roster, events, slot, sender, planes, quic, hands>>

Stow ==
    /\ task = "stow"
    /\ slot' = TRUE
    /\ task' = "spawn"
    /\ UNCHANGED <<state, connected, aborted, roster, events, engine, sender, planes, quic, hands>>

SpawnSender ==
    /\ task = "spawn"
    /\ sender' = "running"
    /\ task' = "release"
    /\ UNCHANGED <<state, connected, aborted, roster, events, engine, slot, planes, quic, hands>>

\* drop(inner); when that was the last Arc, Drop runs here and now.
Release ==
    /\ task = "release"
    /\ IF handles > 0 \/ Pinned(quic)
         THEN task' = "peer_wait" /\ UNCHANGED pc
         ELSE task' = "dropping" /\ pc' = [pc EXCEPT ![Dropper] = "borrow"]
    /\ UNCHANGED <<state, connected, aborted, roster, events, gear, handles, done, want, entries, calls>>

Dropped ==
    /\ task = "dropping" /\ pc[Dropper] = "finished"
    /\ task' = "peer_wait"
    /\ UNCHANGED <<state, connected, aborted, roster, events, gear, hands>>

-----------------------------------------------------------------------------
(* run_tunnel_loop                                                           *)

\* The task's own Arc of the engine goes; the engine with it unless it is stowed.
LetGo(e) == IF e = "open" /\ ~slot THEN "dropped" ELSE e

\* The first PeerJoined is still in the channel when that peer has left again.
PeerWaitJoined ==
    /\ task = "peer_wait" /\ roster # "none"
    /\ task' = "joined"
    /\ UNCHANGED <<state, connected, aborted, roster, events, gear, hands>>

PeerWaitDisconnected ==
    /\ task = "peer_wait"
    /\ PublishIfAlive("Failed")
    /\ Emit("Disconnected")
    /\ task' = "done"
    /\ engine' = LetGo(engine)
    /\ UNCHANGED <<connected, aborted, roster, slot, sender, planes, quic, hands>>

\* The deadline passes, or the engine's event channel closes.
PeerWaitTimeout ==
    /\ task = "peer_wait"
    /\ PublishIfAlive("Failed")
    /\ Emit("Error")
    /\ task' = "done"
    /\ engine' = "closed"
    /\ UNCHANGED <<connected, aborted, roster, slot, sender, planes, quic, hands>>

Joined ==
    /\ task = "joined"
    /\ connected' = TRUE
    /\ task' = "publish"
    /\ UNCHANGED <<state, aborted, roster, events, gear, hands>>

PublishConnected ==
    /\ task = "publish"
    /\ PublishIfAlive("Connected")
    /\ task' = "announce"
    /\ UNCHANGED <<connected, aborted, roster, events, gear, hands>>

AnnounceConnected ==
    /\ task = "announce"
    /\ Emit("Connected")
    /\ task' = "warm"
    /\ UNCHANGED <<state, connected, aborted, roster, gear, hands>>

\* The warm-up task is spawned with an Arc of its own.
AutoWarm ==
    /\ task = "warm"
    /\ quic' = IF Alive THEN "warming" ELSE quic
    /\ task' = "main"
    /\ UNCHANGED <<state, connected, aborted, roster, events, engine, slot, sender, planes, hands>>

MainDisconnected ==
    /\ task = "main"
    /\ Emit("Disconnected")
    /\ task' = "exit"
    /\ UNCHANGED <<state, connected, aborted, roster, gear, hands>>

\* The engine's event channel closes: the loop ends without an event.
MainEnds ==
    /\ task = "main" /\ engine # "open"
    /\ task' = "exit"
    /\ UNCHANGED <<state, connected, aborted, roster, events, gear, hands>>

\* Slip: an empty room sends the task back to waiting for a peer.
MainProbe_Rewaits ==
    /\ task = "main" /\ roster # "here"
    /\ task' = "peer_wait"
    /\ UNCHANGED <<state, connected, aborted, roster, events, gear, hands>>

\* Slip: no probe of the roster, only the SFU's own Disconnected.
MainProbe_Absent == FALSE /\ UNCHANGED vars

MainProbe ==
    /\ task = "main" /\ roster # "here"
    /\ engine' = "closed"
    /\ Emit("Disconnected")
    /\ task' = "exit"
    /\ UNCHANGED <<state, connected, aborted, roster, slot, sender, planes, quic, hands>>

Exit ==
    /\ task = "exit"
    /\ connected' = FALSE
    /\ PublishIfAlive("Disconnected")
    /\ task' = "done"
    /\ engine' = LetGo(engine)
    /\ UNCHANGED <<aborted, roster, events, slot, sender, planes, quic, hands>>

\* The abort takes effect.
Cancel ==
    /\ aborted /\ task \in Awaiting
    /\ task' = "done"
    /\ engine' = LetGo(engine)
    /\ UNCHANGED <<state, connected, aborted, roster, events, slot, sender, planes, quic, hands>>

\* What the task does by itself, and what needs word from the SFU.
TaskStep ==
    \/ DialFails \/ DialFailed \/ DialOk \/ Upgrade \/ Stow \/ SpawnSender \/ Release \/ Dropped
    \/ PeerWaitTimeout \/ Joined \/ PublishConnected \/ AnnounceConnected \/ AutoWarm
    \/ MainEnds \/ MainProbe \/ Exit \/ Cancel
SfuStep == PeerWaitJoined \/ PeerWaitDisconnected \/ MainDisconnected

-----------------------------------------------------------------------------
(* The QUIC client: ensure_quic_client and keeper_task.                      *)

\* The last Arc goes with a QUIC task or endpoint: Drop runs.
UnpinTo(q) ==
    /\ quic' = q
    /\ pc' = IF handles = 0 /\ task \notin Holding /\ pc[Dropper] = "idle"
               THEN [pc EXCEPT ![Dropper] = "borrow"] ELSE pc

\* The retry loop gives up once the tunnel is down.
WarmGivesUp ==
    /\ quic = "warming" /\ ~connected
    /\ UnpinTo("none")
    /\ UNCHANGED <<life, engine, slot, sender, planes, handles, done, want, entries, calls>>

WarmHandshake ==
    /\ Quic
    /\ quic = "warming"
    /\ quic' = "installing"
    /\ UNCHANGED <<life, engine, slot, sender, planes, hands>>

\* The client goes into quic_client and the keeper starts.
WarmInstalls ==
    /\ quic = "installing"
    /\ quic' = "up"
    /\ UNCHANGED <<life, engine, slot, sender, planes, hands>>

\* The keeper sees the connection close: it leaves when the tunnel is down and
\* leaves quic_client as it is, otherwise it clears the slot and dials again.
KeeperClosed ==
    /\ quic = "up"
    /\ quic' = IF connected THEN "redial" ELSE "stale"
    /\ UNCHANGED <<life, engine, slot, sender, planes, hands>>

KeeperRedial ==
    /\ quic = "redial"
    /\ \/ ~connected /\ UnpinTo("none")
       \/ UnpinTo("resting")
       \/ Quic /\ quic' = "up" /\ UNCHANGED pc
    /\ UNCHANGED <<life, engine, slot, sender, planes, handles, done, want, entries, calls>>

KeeperWakes ==
    /\ quic = "resting"
    /\ quic' = IF Alive /\ connected THEN "redial" ELSE "none"
    /\ UNCHANGED <<life, engine, slot, sender, planes, hands>>

QuicStep == WarmGivesUp \/ WarmHandshake \/ WarmInstalls \/ KeeperClosed \/ KeeperRedial \/ KeeperWakes

-----------------------------------------------------------------------------
(* Calls into the tunnel.                                                    *)

Disconnect(u) ==
    /\ handles = 1 /\ pc[u] = "idle"
    /\ calls < MaxCalls
    /\ calls' = calls + 1
    /\ pc' = [pc EXCEPT ![u] = "borrow"]
    /\ UNCHANGED <<life, gear, handles, done, want, entries>>

\* The last handle goes, with no call in progress.
DropLast ==
    /\ handles = 1 /\ \A u \in Users : pc[u] = "idle"
    /\ handles' = 0
    /\ pc' = IF task \in Holding \/ Pinned(quic) THEN pc ELSE [pc EXCEPT ![Dropper] = "borrow"]
    /\ UNCHANGED <<life, gear, done, want, entries, calls>>

\* start_server and attach_tun_with_format: the checks before the locks ...
Attach(u, p) ==
    /\ handles = 1 /\ pc[u] = "idle"
    /\ connected
    /\ planes = {}
    /\ pc' = [pc EXCEPT ![u] = "attach"]
    /\ want' = [want EXCEPT ![u] = p]
    /\ UNCHANGED <<life, gear, handles, done, entries, calls>>

\* Slip: the checks are not repeated under the lock.
Install_Unchecked(u) ==
    /\ pc[u] = "attach"
    /\ pc' = [pc EXCEPT ![u] = "idle"]
    /\ planes' = planes \cup {want[u]}
    /\ UNCHANGED <<life, engine, slot, sender, quic, handles, done, want, entries, calls>>

\* ... and the same checks again under the nat lock.
Install(u) ==
    /\ pc[u] = "attach"
    /\ pc' = [pc EXCEPT ![u] = "idle"]
    /\ planes' = IF planes = {} THEN {want[u]} ELSE planes
    /\ UNCHANGED <<life, engine, slot, sender, quic, handles, done, want, entries, calls>>

Detach(u) ==
    /\ handles = 1 /\ pc[u] = "idle"
    /\ "tun" \in planes
    /\ planes' = planes \ {"tun"}
    /\ UNCHANGED <<life, engine, slot, sender, quic, hands>>

-----------------------------------------------------------------------------
(* teardown(), by disconnect() or by Drop.                                   *)

Borrow(a) ==
    /\ pc[a] = "borrow"
    /\ done' = [done EXCEPT ![a] = state \in {"Disconnected", "Failed"}]
    /\ pc' = [pc EXCEPT ![a] = "mark"]
    /\ UNCHANGED <<life, gear, handles, want, entries, calls>>

\* Where an actor goes when its teardown is over; after a Drop the fields go.
After(a) == IF a = Dropper THEN "fields" ELSE "idle"

Mark(a) ==
    /\ pc[a] = "mark"
    /\ Publish("Disconnected")
    /\ pc' = [pc EXCEPT ![a] = IF done[a] THEN After(a) ELSE "emit"]
    /\ entries' = IF done[a] THEN entries ELSE entries + 1
    /\ UNCHANGED <<connected, task, aborted, roster, events, gear, handles, done, want, calls>>

EmitEnd(a) ==
    /\ pc[a] = "emit"
    /\ Emit("Disconnected")
    /\ pc' = [pc EXCEPT ![a] = "flag"]
    /\ UNCHANGED <<state, connected, task, aborted, roster, gear, handles, done, want, entries, calls>>

LowerFlag(a) ==
    /\ pc[a] = "flag"
    /\ connected' = FALSE
    /\ pc' = [pc EXCEPT ![a] = "abort"]
    /\ UNCHANGED <<state, task, aborted, roster, events, gear, handles, done, want, entries, calls>>

\* The connect task and the sender task, as far as they are registered.
Abort(a) ==
    /\ pc[a] = "abort"
    /\ aborted' = TRUE
    /\ sender' = IF sender = "running" THEN "aborted" ELSE sender
    /\ pc' = [pc EXCEPT ![a] = "planes"]
    /\ UNCHANGED <<state, connected, task, roster, events, engine, slot, planes, quic, handles, done, want, entries, calls>>

\* The QUIC client in the slot, NAT and TUN.
TakePlanes(a) ==
    /\ pc[a] = "planes"
    /\ quic' = IF quic \in {"up", "stale"} THEN "none" ELSE quic
    /\ planes' = {}
    /\ pc' = [pc EXCEPT ![a] = "engine"]
    /\ UNCHANGED <<life, engine, slot, sender, handles, done, want, entries, calls>>

TakeEngine(a) ==
    /\ pc[a] = "engine"
    /\ slot' = FALSE
    /\ engine' = IF slot THEN "closed" ELSE engine
    /\ pc' = [pc EXCEPT ![a] = After(a)]
    /\ UNCHANGED <<life, sender, planes, quic, handles, done, want, entries, calls>>

\* After drop() the fields go: the sending end of the queue the sender task lives on, the
\* data planes, and an Arc of the engine, the last one when the connect task is over.
DropFields(a) ==
    /\ pc[a] = "fields"
    /\ sender' = IF sender = "running" THEN "closed" ELSE sender
    /\ planes' = {}
    /\ slot' = FALSE
    /\ engine' = IF slot /\ engine = "open" /\ task = "done" THEN "dropped" ELSE engine
    /\ pc' = [pc EXCEPT ![a] = "finished"]
    /\ UNCHANGED <<life, quic, handles, done, want, entries, calls>>

Teardown(a) ==
    \/ Borrow(a) \/ Mark(a) \/ EmitEnd(a) \/ LowerFlag(a) \/ Abort(a) \/ TakePlanes(a) \/ TakeEngine(a)
    \/ DropFields(a)

UserStep(u) == Disconnect(u) \/ Install(u) \/ Detach(u) \/ \E p \in {"nat", "tun"} : Attach(u, p)

Next ==
    \/ PeerComes \/ PeerGoes \/ TaskStep \/ SfuStep \/ QuicStep \/ DropLast
    \/ \E a \in Actors : Teardown(a)
    \/ \E u \in Users : UserStep(u)

\* Tasks run, timers fire (the probe, the peer-wait deadline, the keeper's backoff)
\* and a teardown that has begun is finished; the SFU, the peer and the callers owe
\* nothing.
Fairness ==
    /\ WF_vars(TaskStep)
    /\ WF_vars(WarmGivesUp) /\ WF_vars(KeeperClosed) /\ WF_vars(KeeperRedial) /\ WF_vars(KeeperWakes)
    /\ \A a \in Actors : WF_vars(Teardown(a))

Spec == Init /\ [][Next]_vars
FairSpec == Spec /\ Fairness

-----------------------------------------------------------------------------
(* Properties.                                                               *)

\* The lifecycle stays within its states; in particular the event stream of a
\* tunnel is finite: at most four events of the task, one per teardown.
TypeOK ==
    /\ state \in {"Connecting", "Connected", "Disconnected", "Failed"}
    /\ task \in TaskSteps
    /\ pc \in [Actors -> TeardownSteps \cup {"idle", "attach", "finished"}]
    /\ engine \in {"none", "open", "closed", "dropped"}
    /\ quic \in {"none", "warming", "installing", "up", "stale", "redial", "resting"}
    /\ planes \subseteq {"nat", "tun"}
    /\ entries \in 0 .. MaxCalls + 1
    /\ Len(events) <= MaxCalls + 4

\* start_server and attach_tun never both succeed, whatever threads they come from:
\* inbound packets have one destination.
ModesExclude == \A p, q \in planes : p = q

\* Nothing outlives the tunnel: once Drop has run and the connect task is over, the
\* engine is closed or gone, the sender is not running, no data plane is installed.
Released ==
    /\ engine # "open"
    /\ sender # "running"
    /\ planes = {}
DropReleases == (pc[Dropper] = "finished" /\ task = "done") => Released

\* At no time are two data planes installed, and after the Drop there is neither a plane
\* nor an open engine nor a running sender (lib.rs: Install under the lock, teardown).
HoldsNoMore == ModesExclude /\ DropReleases

\* An announced session does not outlive its peer: when the roster stays empty the
\* connect task ends, without any further event (PeerLeft alone ends nothing).
EmptyRoomEnds == (<>[](roster # "here")) => <>(task = "done")

\* To its watcher a tunnel is a TunnelStream: what the managers rely on is all they get.
Stream == INSTANCE TunnelStream
StreamsAsPromised == Stream!Spec

\* "a second entry sees `Disconnected` and exits" (teardown).
TeardownOnce == entries <= 1

\* "`true` until [`Self::disconnect`] or the LK peer drops" (is_connected): a call of
\* disconnect() that has returned leaves the flag down for good.
FlagFollowsDisconnect ==
    (entries > 0 /\ task = "done" /\ \A a \in Actors : pc[a] \notin TeardownSteps) => ~connected

\* "Surface Failed so the consumer can clean up" (spawn_server_watcher) relies on every
\* ended tunnel putting Disconnected on the stream.
EndAnnounced == task = "done" => \/ "Disconnected" \in Stream!Said(events)
                                 \/ \E a \in Actors : pc[a] \in TeardownSteps

\* "Also fires automatically when the last clone of this handle drops" (disconnect).
DropTearsDown == (handles = 0) ~> (pc[Dropper] = "finished")
=============================================================================
