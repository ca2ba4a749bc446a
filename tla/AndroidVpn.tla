----------------------------- MODULE AndroidVpn -----------------------------
(***************************************************************************)
(* The Android VPN client: BaleVpnService (the dial coroutine startVpn, the  *)
(* collector of the manager's events it launches, stopVpn, the service       *)
(* callbacks), the flow of ClientTunnelManager.kt it listens to, and the     *)
(* handle table of the native side.                                          *)
(*                                                                           *)
(* The main thread is a queue of callbacks; record is the service Android    *)
(* takes to be running.  A dial checks for cancellation only where it        *)
(* suspends.  The native manager is kept to its current call and what its    *)
(* watchers emit; module ClientManager has it in full.                       *)
(***************************************************************************)
EXTENDS Integers, Sequences

CONSTANTS Peers,
          Budgets   \* how many starts, stops, switches of the mode, failures

ASSUME BudgetsAssumption ==
    Budgets \subseteq [starts : Nat, stops : Nat, switches : Nat, failures : Nat]

MaxOf(field) == CHOOSE n \in {b[field] : b \in Budgets} : \A b \in Budgets : b[field] <= n
Dials == 1 .. MaxOf("starts")
Instances == 1 .. MaxOf("starts") + MaxOf("stops") + MaxOf("switches")
Managers == 1 .. MaxOf("switches") + 1
None == 0
Open == 0
Failed == -1
AnyPeer == CHOOSE p \in Peers : TRUE

VARIABLES
    budget,         \* what is left of it
    record,         \* the instance Android holds started, or None
    born,           \* instances created so far
    main,           \* callbacks waiting for the main thread
    instance, isRunning, isConnected, liveTransport,   \* the companion object
    stopped, transport, sessionsJob, wakeLock,                     \* per instance
    stopping,       \* per instance: where stopVpn is
    teardown,       \* per instance: a stopVpn launched on teardownScope
    dial,           \* per dial: its instance, peer, manager, where it is, cancelled
    collector,      \* per dial: "none", "starting", "on", "gone"
    dropped,        \* dials whose collector has been cancelled
    inbox,          \* per dial: events its collector has not handled
    connected,      \* per dial: the deferred: Open, Failed or the dial whose tunnel it is
    line,           \* per dial: what placeCall does: "idle", "ringing", "ok", "rejected", "failed"
    tunFd,          \* per dial: "none", "held", "native", "lost", "closed"
    mgr,            \* the client manager's generation, None in server mode
    managers,       \* managers made so far
    current,        \* per manager: its current call, or None
    lk,             \* per dial: its tunnel: "none", "dialing", "up", "down"
    watch,          \* per dial: its watcher: "none", "idle", "entered", "over"
    handle          \* dials whose tunnel is in the handle table

android == <<record, born, main>>
statics == <<instance, isRunning, isConnected, liveTransport>>
service == <<stopped, transport, sessionsJob, wakeLock, stopping, teardown>>
listening == <<collector, dropped, inbox, connected>>
native == <<mgr, managers, current, lk, watch, handle>>
vars == <<budget, android, statics, service, dial, listening, line, tunFd, native>>

NoDial == [inst |-> None, peer |-> AnyPeer, mgr |-> None, at |-> "none", cancelled |-> FALSE]

Init ==
    /\ budget \in Budgets
    /\ record = None /\ born = 0 /\ main = <<>>
    /\ instance = None /\ isRunning = FALSE /\ isConnected = FALSE
    /\ liveTransport = None
    /\ stopped = [i \in Instances |-> FALSE] /\ transport = [i \in Instances |-> None]
    /\ sessionsJob = [i \in Instances |-> None] /\ wakeLock = [i \in Instances |-> FALSE]
    /\ stopping = [i \in Instances |-> "no"] /\ teardown = [i \in Instances |-> FALSE]
    /\ dial = [d \in Dials |-> NoDial]
    /\ collector = [d \in Dials |-> "none"] /\ dropped = {}
    /\ inbox = [d \in Dials |-> <<>>] /\ connected = [d \in Dials |-> Open]
    /\ line = [d \in Dials |-> "idle"] /\ tunFd = [d \in Dials |-> "none"]
    /\ mgr = 1 /\ managers = 1 /\ current = [m \in Managers |-> None]
    /\ lk = [d \in Dials |-> "none"] /\ watch = [d \in Dials |-> "none"]
    /\ handle = {}

Goto(d, at) == dial' = [dial EXCEPT ![d].at = at]
Of(i) == {d \in Dials : dial[d].inst = i}
Cancelled(D) == [d \in Dials |-> IF d \in D THEN [dial[d] EXCEPT !.cancelled = TRUE] ELSE dial[d]]
Hung(T) == [d \in Dials |-> IF d \in T /\ lk[d] # "none" THEN "down" ELSE lk[d]]

\* A closed tunnel closes the TUN fd of its bridge.
Freed(T) == [d \in Dials |-> IF connected[d] \in T /\ tunFd[d] = "native" THEN "closed" ELSE tunFd[d]]

Spend(field) == budget[field] > 0 /\ budget' = [budget EXCEPT ![field] = @ - 1]

-----------------------------------------------------------------------------
(* Android: starting and stopping the service                               *)

Msg(m, i, p) == [msg |-> m, inst |-> i, peer |-> p]

\* startService: a new instance unless one is on record.
StartService(m, p) ==
    IF record = None
    THEN /\ born' = born + 1 /\ record' = born + 1
         /\ main' = Append(main, Msg(m, born + 1, p))
    ELSE main' = Append(main, Msg(m, record, p)) /\ UNCHANGED <<born, record>>

StopSelf(i, queue) ==
    /\ record' = IF record = i THEN None ELSE record
    /\ main' = IF record = i THEN Append(queue, Msg("destroy", i, AnyPeer)) ELSE queue

\* The screen offers Start while the VPN is not running, Stop while it is.
TapStart(p) ==
    /\ ~isRunning /\ mgr # None /\ Spend("starts")
    /\ StartService("start", p)
    /\ UNCHANGED <<statics, service, dial, listening, line, tunFd, native>>

TapStop ==
    /\ isRunning /\ Spend("stops")
    /\ StartService("stop", AnyPeer)
    /\ UNCHANGED <<statics, service, dial, listening, line, tunFd, native>>

\* switchToMode and setMode: a running VPN is told to stop, and the client manager
\* is closed at once.  Its current call is hung up when the last reference to it goes,
\* which a place_call in flight still has.
Ringing(m) == {d \in Dials : dial[d].mgr = m /\ line[d] = "ringing"}

ToServer ==
    /\ mgr # None /\ Spend("switches")
    /\ IF isRunning THEN StartService("stop", AnyPeer) ELSE UNCHANGED android
    /\ mgr' = None
    /\ IF Ringing(mgr) # {} THEN UNCHANGED <<current, lk, tunFd>>
       ELSE /\ current' = [current EXCEPT ![mgr] = None]
            /\ lk' = Hung({current[mgr]}) /\ tunFd' = Freed({current[mgr]})
    /\ UNCHANGED <<statics, service, dial, listening, line, managers, watch, handle>>

ToClient ==
    /\ mgr = None
    /\ managers' = managers + 1 /\ mgr' = managers + 1
    /\ UNCHANGED <<budget, android, statics, service, dial, listening, line, tunFd,
                   current, lk, watch, handle>>

-----------------------------------------------------------------------------
(* Callbacks on the main thread                                              *)

AtHead(m) == main # <<>> /\ Head(main).msg = m

NextDial == CHOOSE d \in Dials : dial[d].at = "none" /\ \A e \in 1 .. d - 1 : dial[e].at # "none"

\* onCreate, if this is the instance's first command, and onStartCommand.
onStartCommand ==
    /\ AtHead("start")
    /\ LET m == Head(main) IN
       /\ wakeLock' = [wakeLock EXCEPT ![m.inst] = TRUE]
       /\ dial' = [dial EXCEPT ![NextDial] =
                       [NoDial EXCEPT !.inst = m.inst, !.peer = m.peer, !.at = "ensure"]]
    /\ isRunning' = TRUE /\ instance' = Head(main).inst
    /\ main' = Tail(main)
    /\ UNCHANGED <<budget, record, born, isConnected, liveTransport, stopped,
                   transport, sessionsJob, stopping, teardown, listening, line, tunFd, native>>

onStopCommand ==
    /\ AtHead("stop")
    /\ isRunning' = FALSE /\ isConnected' = FALSE /\ instance' = Head(main).inst
    /\ teardown' = [teardown EXCEPT ![Head(main).inst] = TRUE]
    /\ StopSelf(Head(main).inst, Tail(main))
    /\ UNCHANGED <<budget, born, liveTransport, stopped, transport,
                   sessionsJob, wakeLock, stopping, dial, listening, line, tunFd, native>>

\* onDestroy: after its own stopVpn, or the one it waited for.
onDestroy ==
    /\ AtHead("destroy")
    /\ LET i == Head(main).inst IN
       /\ stopping[i] = "done"
       /\ dial' = Cancelled(Of(i)) /\ dropped' = dropped \cup Of(i)
       /\ teardown' = [teardown EXCEPT ![i] = FALSE]
    /\ instance' = None
    /\ main' = Tail(main)
    /\ UNCHANGED <<budget, record, born, isRunning, isConnected, liveTransport, stopped,
                   transport, sessionsJob, wakeLock, stopping, collector, inbox, connected,
                   line, tunFd, native>>

-----------------------------------------------------------------------------
(* stopVpn, under the monitor of its instance                                *)

WantsStop(i) ==
    \/ teardown[i]
    \/ \E d \in Of(i) : dial[d].at = "finally"
    \/ AtHead("destroy") /\ Head(main).inst = i

stopVpn(i) ==
    /\ WantsStop(i) /\ ~stopped[i]
    /\ stopped' = [stopped EXCEPT ![i] = TRUE]
    /\ stopping' = [stopping EXCEPT ![i] = "close"]
    /\ teardown' = [teardown EXCEPT ![i] = FALSE]
    /\ isRunning' = FALSE /\ isConnected' = FALSE
    /\ wakeLock' = [wakeLock EXCEPT ![i] = FALSE]
    /\ dropped' = dropped \cup ({sessionsJob[i]} \ {None})
    /\ sessionsJob' = [sessionsJob EXCEPT ![i] = None]
    /\ UNCHANGED <<budget, android, instance, liveTransport, transport, dial,
                   collector, inbox, connected, line, tunFd, native>>

\* transport?.disconnect(): the handle leaves the table, the tunnel is closed; a
\* descriptor still held is closed; the children of the scope are cancelled.
StopCloses(i) ==
    /\ stopping[i] = "close"
    /\ LET T == {transport[i]} \cap handle IN
       /\ handle' = handle \ T /\ lk' = Hung(T)
       /\ tunFd' = [d \in Dials |-> IF d \in Of(i) /\ tunFd[d] = "held" THEN "closed" ELSE Freed(T)[d]]
    /\ transport' = [transport EXCEPT ![i] = None]
    /\ liveTransport' = None
    /\ dial' = Cancelled(Of(i)) /\ dropped' = dropped \cup Of(i)
    /\ StopSelf(i, main)
    /\ stopping' = [stopping EXCEPT ![i] = "done"]
    /\ UNCHANGED <<budget, born, instance, isRunning, isConnected, stopped, sessionsJob, wakeLock, teardown,
                   collector, inbox, connected, line, mgr, managers, current, watch>>

\* A launched stopVpn that finds the instance stopped returns.
StopReturns(i) ==
    /\ teardown[i] /\ stopping[i] = "done"
    /\ teardown' = [teardown EXCEPT ![i] = FALSE]
    /\ UNCHANGED <<budget, android, statics, stopped, transport, sessionsJob, wakeLock, stopping,
                   dial, listening, line, tunFd, native>>

-----------------------------------------------------------------------------
(* onPermanentDisconnect, the collector and the dial coroutine               *)

onPermanentDisconnect(i) ==
    /\ isRunning' = FALSE /\ isConnected' = FALSE
    /\ teardown' = [teardown EXCEPT ![i] = TRUE]

Subscribe(d) ==
    /\ collector[d] = "starting"
    /\ collector' = [collector EXCEPT ![d] = IF d \in dropped THEN "gone" ELSE "on"]
    /\ UNCHANGED <<budget, android, statics, service, dial, dropped, inbox, connected, line, tunFd, native>>

CollectorEnds(d) ==
    /\ collector[d] = "on" /\ d \in dropped
    /\ collector' = [collector EXCEPT ![d] = "gone"]
    /\ inbox' = [inbox EXCEPT ![d] = <<>>]
    /\ UNCHANGED <<budget, android, statics, service, dial, dropped, connected, line, tunFd, native>>


Collect(d) ==
    /\ collector[d] = "on" /\ inbox[d] # <<>>
    /\ LET ev == Head(inbox[d]) IN
       /\ IF ev.peer # dial[d].peer \/ connected[d] # Open THEN UNCHANGED connected
          ELSE connected' = [connected EXCEPT ![d] =
                   CASE ev.kind = "Connected" -> ev.dial [] ev.kind = "Failed" -> Failed [] OTHER -> @]
       /\ IF ev.peer = dial[d].peer /\ ev.kind # "Connected"
          THEN onPermanentDisconnect(dial[d].inst) ELSE UNCHANGED <<isRunning, isConnected, teardown>>
    /\ inbox' = [inbox EXCEPT ![d] = Tail(@)]
    /\ UNCHANGED <<budget, android, instance, liveTransport, stopped, transport, sessionsJob,
                   wakeLock, stopping, dial, collector, dropped, line, tunFd, native>>

\* Where startVpn suspends, a cancelled dial goes to its finally block.
Suspended(d, at) == dial[d].at = at /\ ~dial[d].cancelled

DialCancelled(d) ==
    /\ dial[d].cancelled /\ dial[d].at \in {"ensure", "latch", "place", "await", "park"}
    /\ Goto(d, "finally")
    /\ UNCHANGED <<budget, android, statics, service, listening, line, tunFd, native>>

\* ensureWsUp, then the manager; without either the dial returns.
ensureWsUp(d) ==
    /\ Suspended(d, "ensure")
    /\ \/ /\ mgr # None
          /\ dial' = [dial EXCEPT ![d].at = "latch", ![d].mgr = mgr]
          /\ collector' = [collector EXCEPT ![d] = "starting"] /\ UNCHANGED budget
       \/ mgr = None /\ Goto(d, "finally") /\ UNCHANGED <<budget, collector>>
       \/ Spend("failures") /\ Goto(d, "finally") /\ UNCHANGED collector
    /\ UNCHANGED <<android, statics, service, dropped, inbox, connected, line, tunFd, native>>

\* Slip: placeCall does not wait for the subscription.
Latched_Unlatched(d) ==
    /\ Suspended(d, "latch")
    /\ Goto(d, "place") /\ line' = [line EXCEPT ![d] = "ringing"]
    /\ UNCHANGED <<budget, android, statics, service, listening, tunFd, native>>

\* subscribed.await(), then nativePlaceCall; a closed manager is a bad handle.
Latched(d) ==
    /\ Suspended(d, "latch") /\ collector[d] = "on"
    /\ Goto(d, "place")
    /\ line' = [line EXCEPT ![d] = IF mgr = dial[d].mgr THEN "ringing" ELSE "failed"]
    /\ UNCHANGED <<budget, android, statics, service, listening, tunFd, native>>

Placed(d) ==
    /\ Suspended(d, "place") /\ line[d] \in {"ok", "rejected", "failed"}
    /\ IF line[d] = "ok"
       THEN Goto(d, "await") /\ UNCHANGED <<isRunning, isConnected, teardown>>
       ELSE Goto(d, "finally") /\ onPermanentDisconnect(dial[d].inst)
    /\ UNCHANGED <<budget, android, instance, liveTransport, stopped, transport, sessionsJob,
                   wakeLock, stopping, listening, line, tunFd, native>>

Awaited(d) ==
    /\ Suspended(d, "await") /\ connected[d] # Open
    /\ Goto(d, IF connected[d] = Failed THEN "finally" ELSE "adopt")
    /\ UNCHANGED <<budget, android, statics, service, listening, line, tunFd, native>>

\* From here to the park nothing suspends, and nothing checks whether stopVpn has run.
Adopt(d) ==
    /\ dial[d].at = "adopt"
    /\ transport' = [transport EXCEPT ![dial[d].inst] = connected[d]]
    /\ sessionsJob' = [sessionsJob EXCEPT ![dial[d].inst] = d]
    /\ isConnected' = TRUE /\ liveTransport' = connected[d]
    /\ Goto(d, "tun")
    /\ UNCHANGED <<budget, android, instance, isRunning, stopped, wakeLock,
                   stopping, teardown, listening, line, tunFd, native>>

\* The TUN is switched off, or establish() fails, or it gives the descriptor.
EstablishTun(d) ==
    /\ dial[d].at = "tun"
    /\ \/ Goto(d, "park") /\ UNCHANGED <<budget, tunFd>>
       \/ Spend("failures") /\ Goto(d, "finally") /\ UNCHANGED tunFd
       \/ Goto(d, "attach") /\ tunFd' = [tunFd EXCEPT ![d] = "held"] /\ UNCHANGED budget
    /\ UNCHANGED <<android, statics, service, listening, line, native>>

\* detachFd, then nativeAttachTun: with no handle, no live tunnel or a bridge there
\* already, nobody has the descriptor any more.
Attachable(t) ==
    /\ t \in handle /\ lk[t] = "up"
    /\ \A e \in Dials : connected[e] = t => tunFd[e] # "native"

AttachTun(d) ==
    /\ dial[d].at = "attach"
    /\ IF tunFd[d] = "closed" THEN Goto(d, "finally") /\ UNCHANGED tunFd
       ELSE /\ Goto(d, "park")
            /\ tunFd' = [tunFd EXCEPT ![d] =
                   IF Attachable(connected[d]) THEN "native" ELSE "lost"]
    /\ UNCHANGED <<budget, android, statics, service, listening, line, native>>

\* The finally block: its stopVpn, or a wait for the one that runs.
Finally(d) ==
    /\ dial[d].at = "finally" /\ stopping[dial[d].inst] = "done"
    /\ Goto(d, "done")
    /\ UNCHANGED <<budget, android, statics, service, listening, line, tunFd, native>>

-----------------------------------------------------------------------------
(* The native side: the call, the tunnel, its watcher, the forwarding task   *)

\* place_call: the new call replaces the current one, which is hung up.  If the manager
\* was closed meanwhile, this was its last reference: the new call is hung up with it.
PlaceOk(d) ==
    /\ line[d] = "ringing"
    /\ LET m == dial[d].mgr
           last == mgr # m /\ Ringing(m) = {d} IN
       /\ current' = [current EXCEPT ![m] = IF last THEN None ELSE d]
       /\ lk' = [Hung({current[m]}) EXCEPT ![d] = IF last THEN "down" ELSE "dialing"]
       /\ tunFd' = Freed({current[m]})
    /\ watch' = [watch EXCEPT ![d] = "idle"]
    /\ line' = [line EXCEPT ![d] = "ok"]
    /\ UNCHANGED <<budget, android, statics, service, dial, listening, mgr, managers, handle>>

PlaceFails(d) ==
    /\ line[d] = "ringing"
    /\ Spend("failures")
    /\ \E r \in {"rejected", "failed"} : line' = [line EXCEPT ![d] = r]
    /\ LET m == dial[d].mgr
           T == IF mgr # m /\ Ringing(m) = {d} THEN {current[m]} ELSE {} IN
       /\ current' = IF T = {} THEN current ELSE [current EXCEPT ![m] = None]
       /\ lk' = Hung(T) /\ tunFd' = Freed(T)
    /\ UNCHANGED <<android, statics, service, dial, listening, mgr, managers, watch, handle>>

\* The peer leaves, the room is lost, or CallEnded comes before the room is up.
TunnelDown(d) ==
    /\ lk[d] \in {"dialing", "up"} /\ Spend("failures")
    /\ lk' = Hung({d}) /\ tunFd' = Freed({d})
    /\ UNCHANGED <<android, statics, service, dial, listening, line,
                   mgr, managers, current, watch, handle>>

StillCurrent(d) == current[dial[d].mgr] = d

\* fire_session_event: a Connected puts the tunnel in the handle table; tryEmit hands the
\* event to the collectors that are subscribed to the manager's flow, replay = 0.
Emit(kind, d) ==
    LET ev == [kind |-> kind, peer |-> dial[d].peer, dial |-> d] IN
    inbox' = [e \in Dials |-> IF collector[e] = "on" /\ dial[e].mgr = dial[d].mgr
                              THEN Append(inbox[e], ev) ELSE inbox[e]]

\* The room is joined, and the watcher of the tunnel announces it.
TunnelUp(d) ==
    /\ lk[d] = "dialing"
    /\ lk' = [lk EXCEPT ![d] = "up"]
    /\ watch' = [watch EXCEPT ![d] = "entered"]
    /\ Emit("Connected", d) /\ handle' = handle \cup {d}
    /\ UNCHANGED <<budget, android, statics, service, dial, collector, dropped, connected, line, tunFd,
                   mgr, managers, current>>

\* The tunnel is down: the watcher announces it, unless a later call has replaced it.
WatchDisconnected(d) ==
    /\ lk[d] = "down" /\ watch[d] \in {"idle", "entered"}
    /\ watch' = [watch EXCEPT ![d] = "over"]
    /\ IF StillCurrent(d)
       THEN /\ current' = [current EXCEPT ![dial[d].mgr] = None]
            /\ Emit(IF watch[d] = "entered" THEN "Disconnected" ELSE "Failed", d)
       ELSE UNCHANGED <<current, inbox>>
    /\ UNCHANGED <<budget, android, statics, service, dial, collector, dropped, connected, line, tunFd,
                   mgr, managers, lk, handle>>

\* The finalizer of an LkTunnel nothing refers to any more.
Adopting == {"adopt", "tun", "attach", "park"}

Finalize(t) ==
    /\ t \in handle /\ liveTransport # t
    /\ \E d \in Dials : connected[d] = t /\ dial[d].at \in {"finally", "done"} /\ sessionsJob[dial[d].inst] = d
    /\ \A i \in Instances : transport[i] = t => instance # i
    /\ \A d \in Dials : connected[d] = t => dial[d].at \notin Adopting
    /\ handle' = handle \ {t} /\ lk' = Hung({t}) /\ tunFd' = Freed({t})
    /\ UNCHANGED <<budget, android, statics, service, dial, listening, line, mgr, managers, current, watch>>

-----------------------------------------------------------------------------
Stop(i) == stopVpn(i) \/ StopCloses(i) \/ StopReturns(i)

Main == onStartCommand \/ onStopCommand \/ onDestroy

Collector(d) == Subscribe(d) \/ CollectorEnds(d) \/ Collect(d)

startVpn(d) ==
    \/ DialCancelled(d) \/ ensureWsUp(d) \/ Latched(d) \/ Placed(d) \/ Awaited(d)
    \/ Adopt(d) \/ EstablishTun(d) \/ AttachTun(d) \/ Finally(d)

Place(d) == PlaceOk(d) \/ PlaceFails(d)

\* What goes on by itself: the threads, the tasks, a call that is answered, a room that
\* is being joined.
Work ==
    \/ Main
    \/ \E i \in Instances : Stop(i)
    \/ \E d \in Dials : startVpn(d) \/ Collector(d) \/ Place(d) \/ WatchDisconnected(d) \/ TunnelUp(d)

Next ==
    \/ \E p \in Peers : TapStart(p)
    \/ TapStop \/ ToServer \/ ToClient
    \/ Work
    \/ \E d \in Dials : TunnelDown(d) \/ Finalize(d)

Spec == Init /\ [][Next]_vars

-----------------------------------------------------------------------------
\* Every variable keeps its type (BaleVpnService's fields and its companion object).
TypeOK ==
    /\ record \in Instances \cup {None} /\ instance \in Instances \cup {None}
    /\ isRunning \in BOOLEAN /\ isConnected \in BOOLEAN
    /\ liveTransport \in Dials \cup {None} /\ transport \in [Instances -> Dials \cup {None}]
    /\ stopping \in [Instances -> {"no", "close", "done"}]
    /\ collector \in [Dials -> {"none", "starting", "on", "gone"}]
    /\ \A d \in Dials : connected[d] \in Dials \cup {Open, Failed}
    /\ lk \in [Dials -> {"none", "dialing", "up", "down"}]
    /\ tunFd \in [Dials -> {"none", "held", "native", "lost", "closed"}]

\* A dial whose tunnel was announced as Connected has heard it or will: the latch puts
\* the subscription before the call, so the flow (replay = 0) cannot drop the event a
\* dial is going to wait for (startVpn, subscribed.await()).
DialHears ==
    \A d \in Dials :
        dial[d].at \in {"place", "await"} /\ ~dial[d].cancelled /\ d \in handle
            => \/ connected[d] # Open
               \/ \E k \in DOMAIN inbox[d] : inbox[d][k].kind = "Connected"


\* Stale events of an old tunnel do not wake a new collector: at rest, a dial that is
\* parked is parked on a call that is up.
ParkedIsUp ==
    ~ENABLED Work => \A d \in Dials : dial[d].at = "park" => lk[connected[d]] = "up"

Quiet ==
    /\ record = None /\ main = <<>>
    /\ \A d \in Dials : dial[d].at \in {"none", "done"} /\ line[d] # "ringing"
    /\ \A i \in Instances : stopping[i] \in {"no", "done"} /\ ~teardown[i]

\* With the service gone, no TUN descriptor is left open.
TunReleased == Quiet => \A d \in Dials : tunFd[d] \in {"none", "closed"}

\* stopVpn: "we only release the per-session tunnel here. `transport.disconnect()` is
\* enough": with the service gone, no call is left up.
CallEnds == Quiet => \A d \in Dials : lk[d] # "up"

\* With the service gone, the screen shows it as not running and not connected.
FlagsSettle == Quiet => ~isRunning /\ ~isConnected /\ liveTransport = None

=============================================================================
