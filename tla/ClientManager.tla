--------------------------- MODULE ClientManager ---------------------------
(***************************************************************************)
(* ClientTunnelManager and its per-call watchers (lktunnel/src/manager.rs):  *)
(* one outgoing call at a time, re-dialling replaces the call in `current`,  *)
(* a watcher per tunnel turns the tunnel's event stream into session events  *)
(* and counts live sessions for the activation driver.  Managers come and go *)
(* with the application's mode; watchers and the driver outlive them.        *)
(***************************************************************************)
EXTENDS Integers, Sequences, FiniteSets

CONSTANTS Callers,      \* threads that place calls
          Peers,
          MaxTunnels,   \* bound on calls placed
          MaxManagers,  \* bound on managers constructed
          MaxStream     \* bound on events per tunnel

ASSUME BoundsAssumption == MaxTunnels \in Nat /\ MaxManagers \in Nat /\ MaxStream \in Nat

Tunnels == 1 .. MaxTunnels
Managers == 1 .. MaxManagers
None == 0

VARIABLES
    manager,       \* the manager in use (None: dropped)
    managers,      \* managers constructed so far
    current,       \* per manager: the tunnel in its slot
    active,        \* ActivationDriver's session counter
    made,          \* tunnels made so far
    owner, peer,   \* per tunnel: its manager and its peer
    live,          \* per tunnel: "dialing", "up", "down"
    stream,        \* per tunnel: events not yet read by the watcher
    said,          \* per tunnel: kinds sent so far
    entered,       \* per tunnel: the flag the watcher and the manager share
    watcher,       \* per tunnel: the watcher's program counter
    was_current,   \* per tunnel: the result of clear_if_current
    caller,        \* per caller: place_call's program counter and locals
    emitted        \* session events given to the consumers, in order

tunnels == <<made, owner, peer, live, stream, said>>
watching == <<entered, watcher, was_current>>
vars == <<manager, managers, current, active, tunnels, watching, caller, emitted>>

Call(at, new, old) == [at |-> at, new |-> new, old |-> old]
Idle == Call("idle", None, None)

Init ==
    /\ manager = None /\ managers = 0
    /\ current = [m \in Managers |-> None]
    /\ active = 0
    /\ made = 0
    /\ owner = [t \in Tunnels |-> None]
    /\ peer \in [Tunnels -> Peers]
    /\ live = [t \in Tunnels |-> "none"]
    /\ stream = [t \in Tunnels |-> <<>>]
    /\ said = [t \in Tunnels |-> {}]
    /\ entered = [t \in Tunnels |-> FALSE]
    /\ watcher = [t \in Tunnels |-> "none"]
    /\ was_current = [t \in Tunnels |-> FALSE]
    /\ caller = [c \in Callers |-> Idle]
    /\ emitted = <<>>

-----------------------------------------------------------------------------
(* The tunnels, as TunnelStream describes them.                              *)

\* A watcher that is gone has dropped the receiver.
Sent(t, kind) ==
    /\ stream' = [stream EXCEPT ![t] = IF watcher[t] = "gone" THEN @ ELSE Append(@, kind)]
    /\ said' = [said EXCEPT ![t] = @ \cup {kind}]

TunnelUp(t) ==
    /\ live[t] = "dialing"
    /\ Sent(t, "Connected")
    /\ live' = [live EXCEPT ![t] = "up"]
    /\ UNCHANGED <<manager, managers, current, active, made, owner, peer, watching, caller, emitted>>

\* The connect task had got as far as the peer when disconnect() overtook it.
TunnelUpLate(t) ==
    /\ live[t] = "down"
    /\ {"Connected", "Error"} \cap said[t] = {}
    /\ Sent(t, "Connected")
    /\ UNCHANGED <<manager, managers, current, active, made, owner, peer, live, watching, caller, emitted>>

TunnelEnds(t) ==
    /\ live[t] \in {"dialing", "up"}
    /\ Sent(t, "Disconnected")
    /\ live' = [live EXCEPT ![t] = "down"]
    /\ UNCHANGED <<manager, managers, current, active, made, owner, peer, watching, caller, emitted>>

\* No peer within the deadline.
TunnelTimesOut(t) ==
    /\ live[t] = "dialing"
    /\ Sent(t, "Error")
    /\ live' = [live EXCEPT ![t] = "down"]
    /\ UNCHANGED <<manager, managers, current, active, made, owner, peer, watching, caller, emitted>>

\* LkTunnel::disconnect: announces the end whatever the tunnel's state.
DisconnectTunnel(t) ==
    /\ live' = [live EXCEPT ![t] = "down"]
    /\ Sent(t, "Disconnected")

NoDisconnect == UNCHANGED <<live, stream, said>>

\* The application hangs up the tunnel it was given.
HangUp(t) ==
    /\ live[t] = "up"
    /\ \E i \in DOMAIN emitted : emitted[i] = [kind |-> "Connected", tunnel |-> t]
    /\ DisconnectTunnel(t)
    /\ UNCHANGED <<manager, managers, current, active, made, owner, peer, watching, caller, emitted>>

-----------------------------------------------------------------------------
(* ClientTunnelManager                                                       *)

\* new: set_mode(Client) resets the driver's counter.
NewManager ==
    /\ manager = None
    /\ managers < MaxManagers
    /\ managers' = managers + 1
    /\ manager' = managers + 1
    /\ active' = 0
    /\ UNCHANGED <<current, tunnels, watching, caller, emitted>>

\* Drop: hang up; calls still waiting for the signaling die with their future.
DropManager ==
    /\ manager # None
    /\ \A c \in Callers : caller[c].at \in {"idle", "signaling"}
    /\ manager' = None
    /\ current' = [current EXCEPT ![manager] = None]
    /\ IF current[manager] = None THEN NoDisconnect ELSE DisconnectTunnel(current[manager])
    /\ caller' = [c \in Callers |-> Idle]
    /\ UNCHANGED <<managers, active, made, owner, peer, watching, emitted>>

\* place_call: ask the signaling for a room.
PlaceCall(c) ==
    /\ manager # None
    /\ caller[c].at = "idle"
    /\ caller' = [caller EXCEPT ![c] = Call("signaling", None, None)]
    /\ UNCHANGED <<manager, managers, current, active, tunnels, watching, emitted>>

SignalingRefuses(c) ==
    /\ caller[c].at = "signaling"
    /\ caller' = [caller EXCEPT ![c] = Idle]
    /\ UNCHANGED <<manager, managers, current, active, tunnels, watching, emitted>>

\* The room is there: LkTunnel::connect.
ConnectTunnel(c) ==
    /\ caller[c].at = "signaling"
    /\ made < MaxTunnels
    /\ made' = made + 1
    /\ owner' = [owner EXCEPT ![made + 1] = manager]
    /\ live' = [live EXCEPT ![made + 1] = "dialing"]
    /\ caller' = [caller EXCEPT ![c] = Call("replace", made + 1, None)]
    /\ UNCHANGED <<manager, managers, current, active, peer, stream, said, watching, emitted>>

ReplaceCurrent(c) ==
    /\ caller[c].at = "replace"
    /\ current' = [current EXCEPT ![manager] = caller[c].new]
    /\ caller' = [caller EXCEPT ![c] = Call("hang_up_old", @.new, current[manager])]
    /\ UNCHANGED <<manager, managers, active, tunnels, watching, emitted>>

\* Slip: the old call is left to its reference count.
HangUpOld_Forgotten(c) ==
    /\ caller[c].at = "hang_up_old"
    /\ NoDisconnect
    /\ caller' = [caller EXCEPT ![c] = Call("watch", @.new, None)]
    /\ UNCHANGED <<manager, managers, current, active, made, owner, peer, watching, emitted>>

HangUpOld(c) ==
    /\ caller[c].at = "hang_up_old"
    /\ IF caller[c].old = None THEN NoDisconnect ELSE DisconnectTunnel(caller[c].old)
    /\ caller' = [caller EXCEPT ![c] = Call("watch", @.new, None)]
    /\ UNCHANGED <<manager, managers, current, active, made, owner, peer, watching, emitted>>

SpawnWatcher(c) ==
    /\ caller[c].at = "watch"
    /\ watcher' = [watcher EXCEPT ![caller[c].new] = "recv"]
    /\ caller' = [caller EXCEPT ![c] = Idle]
    /\ UNCHANGED <<manager, managers, current, active, tunnels, entered, was_current, emitted>>

\* on_ws_call_ended, under the lock of `current`.
CallEnded(p) ==
    /\ manager # None
    /\ current[manager] # None
    /\ peer[current[manager]] = p
    /\ ~entered[current[manager]]
    /\ Len(stream[current[manager]]) < MaxStream
    /\ DisconnectTunnel(current[manager])
    /\ UNCHANGED <<manager, managers, current, active, made, owner, peer, watching, caller, emitted>>

-----------------------------------------------------------------------------
(* spawn_client_watcher                                                      *)

Goto(t, at) == watcher' = [watcher EXCEPT ![t] = at]
StillCurrent(t) == owner[t] # None /\ current[owner[t]] = t
\* Arcs other than the slot's: a caller's, or the one a consumer got with Connected.
Held(t) ==
    \/ StillCurrent(t)
    \/ \E c \in Callers : t \in {caller[c].new, caller[c].old}
    \/ \E i \in DOMAIN emitted : emitted[i] = [kind |-> "Connected", tunnel |-> t]

Next1(t) == Head(stream[t])
Read(t) == stream' = [stream EXCEPT ![t] = Tail(@)]

\* Events of other kinds are skipped.
WatchSkips(t) ==
    /\ watcher[t] = "recv" /\ stream[t] # <<>>
    /\ Next1(t) = "Error"
    /\ Read(t)
    /\ UNCHANGED <<manager, managers, current, active, made, owner, peer, live, said, watching, caller, emitted>>

WatchConnected(t) ==
    /\ watcher[t] = "recv" /\ stream[t] # <<>>
    /\ Next1(t) = "Connected"
    /\ Read(t)
    /\ entered' = [entered EXCEPT ![t] = TRUE]
    /\ Goto(t, "check")
    /\ UNCHANGED <<manager, managers, current, active, made, owner, peer, live, said, was_current, caller, emitted>>

WatchCurrent(t) ==
    /\ watcher[t] = "check"
    /\ StillCurrent(t)
    /\ Goto(t, "bump")
    /\ UNCHANGED <<manager, managers, current, active, tunnels, entered, was_current, caller, emitted>>

\* Slip: a superseded watcher disconnects its tunnel and reads on.
WatchSuperseded_ReadsOn(t) ==
    /\ watcher[t] = "check"
    /\ ~StillCurrent(t)
    /\ Len(stream[t]) < MaxStream
    /\ DisconnectTunnel(t)
    /\ Goto(t, "recv")
    /\ UNCHANGED <<manager, managers, current, active, made, owner, peer, entered, was_current, caller, emitted>>

WatchSuperseded(t) ==
    /\ watcher[t] = "check"
    /\ ~StillCurrent(t)
    /\ live' = [live EXCEPT ![t] = "down"]
    /\ said' = [said EXCEPT ![t] = @ \cup {"Disconnected"}]
    /\ stream' = [stream EXCEPT ![t] = <<>>]
    /\ Goto(t, "gone")
    /\ UNCHANGED <<manager, managers, current, active, made, owner, peer, entered, was_current, caller, emitted>>

\* bump_session
Bumped(count, delta) == IF count + delta < 0 THEN 0 ELSE count + delta

WatchBump(t) ==
    /\ watcher[t] = "bump"
    /\ active' = Bumped(active, 1)
    /\ Goto(t, "emit")
    /\ UNCHANGED <<manager, managers, current, tunnels, entered, was_current, caller, emitted>>

WatchEmitConnected(t) ==
    /\ watcher[t] = "emit"
    /\ emitted' = Append(emitted, [kind |-> "Connected", tunnel |-> t])
    /\ Goto(t, "recv")
    /\ UNCHANGED <<manager, managers, current, active, tunnels, entered, was_current, caller>>

\* weak.upgrade() fails: the tunnel was replaced and dropped after the check.
WatchUpgradeFails(t) ==
    /\ watcher[t] = "emit"
    /\ ~Held(t)
    /\ stream' = [stream EXCEPT ![t] = <<>>]
    /\ Goto(t, "gone")
    /\ UNCHANGED <<manager, managers, current, active, made, owner, peer, live, said, entered, was_current, caller, emitted>>

\* clear_if_current
WatchDisconnected(t) ==
    /\ watcher[t] = "recv" /\ stream[t] # <<>>
    /\ Next1(t) = "Disconnected"
    /\ Read(t)
    /\ was_current' = [was_current EXCEPT ![t] = StillCurrent(t)]
    /\ current' = [current EXCEPT ![owner[t]] = IF StillCurrent(t) THEN None ELSE @]
    /\ Goto(t, "rebalance")
    /\ UNCHANGED <<manager, managers, active, made, owner, peer, live, said, entered, caller, emitted>>

WatchRebalance(t) ==
    /\ watcher[t] = "rebalance"
    /\ active' = IF entered[t] THEN Bumped(active, -1) ELSE active
    /\ Goto(t, "report")
    /\ UNCHANGED <<manager, managers, current, tunnels, entered, was_current, caller, emitted>>

WatchReport(t) ==
    /\ watcher[t] = "report"
    /\ emitted' = IF ~was_current[t] THEN emitted
                  ELSE Append(emitted, [kind |-> IF entered[t] THEN "Disconnected" ELSE "Failed", tunnel |-> t])
    /\ stream' = [stream EXCEPT ![t] = <<>>]
    /\ Goto(t, "gone")
    /\ UNCHANGED <<manager, managers, current, active, made, owner, peer, live, said, entered, was_current, caller>>

Watch(t) ==
    \/ WatchSkips(t) \/ WatchConnected(t) \/ WatchCurrent(t) \/ WatchSuperseded(t) \/ WatchBump(t)
    \/ WatchEmitConnected(t) \/ WatchUpgradeFails(t) \/ WatchDisconnected(t) \/ WatchRebalance(t) \/ WatchReport(t)

Tunnel(t) == TunnelUp(t) \/ TunnelUpLate(t) \/ TunnelEnds(t) \/ TunnelTimesOut(t) \/ HangUp(t)

Place(c) ==
    \/ PlaceCall(c) \/ SignalingRefuses(c) \/ ConnectTunnel(c) \/ ReplaceCurrent(c) \/ HangUpOld(c) \/ SpawnWatcher(c)

Next ==
    \/ NewManager \/ DropManager
    \/ \E c \in Callers : Place(c)
    \/ \E p \in Peers : CallEnded(p)
    \/ \E t \in Tunnels : Tunnel(t) \/ Watch(t)

\* Spawned tasks and calls in progress run on; tunnels and users owe nothing.
Fairness ==
    /\ \A t \in Tunnels : WF_vars(Watch(t))
    /\ \A c \in Callers : WF_vars(ReplaceCurrent(c) \/ HangUpOld(c) \/ SpawnWatcher(c))

Spec == Init /\ [][Next]_vars
FairSpec == Spec /\ Fairness

-----------------------------------------------------------------------------
(* Properties.                                                               *)

\* The driver's counter stays between zero and the number of calls.
TypeOK ==
    /\ active \in 0 .. MaxTunnels
    /\ current \in [Managers -> 0 .. made]
    /\ live \in [Tunnels -> {"none", "dialing", "up", "down"}]
    /\ \A t \in Tunnels : Len(stream[t]) <= MaxStream + MaxTunnels + 1

\* Announced and not yet over for its watcher.
InSession(t) ==
    /\ watcher[t] = "recv"
    /\ entered[t]

\* While a session that the consumer was told of lasts, the driver counts at least one:
\* the WebSocket gate is not opened by a re-dial racing the end of another call.  Under
\* one manager only, since set_mode of the next one resets the counter.
GateShutDuringSession == (managers = 1 /\ \E t \in Tunnels : InSession(t)) => active >= 1

\* "Re-calling `place_call` tears down the previous session": a tunnel out of the slot
\* is down, unless the call that replaced it is about to hang it up.
SupersededIsDown ==
    \A t \in Tunnels : (watcher[t] # "none" /\ ~StillCurrent(t) /\ live[t] # "down")
                          => \E c \in Callers : caller[c].old = t

\* A call that has ended leaves the slot, whatever else was placed meanwhile.
EndFreesSlot ==
    \A t \in Tunnels : ("Disconnected" \in said[t] /\ watcher[t] # "none") ~> ~StillCurrent(t)

\* The end of a call does not take a newer call out of the slot.
KeepsNewCall ==
    \A m \in Managers : (current[m] # None /\ current'[m] = None)
        => live[current[m]] = "down" \/ manager' = None

\* "Always rebalance the gate if we previously bumped up": with every watcher at rest the
\* counter is the number of sessions it was told of.
Quiet == \A t \in Tunnels : watcher[t] = "gone" \/ (watcher[t] \in {"recv", "none"} /\ stream[t] = <<>>)
CountSettles == (Quiet /\ active # 0) => \E t \in Tunnels : InSession(t)

\* "lingering watcher pushes from the previous mode don't affect the new mode's decision":
\* across a change of manager the counter still covers every session in progress.
CountSurvivesSwap == (\E t \in Tunnels : InSession(t)) => active >= 1

\* "stale events from the old tunnel must not wake the new collector".
NoStaleEmit ==
    [][emitted' # emitted => LET t == emitted'[Len(emitted')].tunnel IN current[owner[t]] \in {None, t}]_vars

\* "a transient WS hiccup must not drop a live session".
CallEndedSparesSession ==
    [][(\E p \in Peers : CallEnded(p)) => \A t \in Tunnels : live[t] = "up" => live'[t] = "up"]_vars
=============================================================================
