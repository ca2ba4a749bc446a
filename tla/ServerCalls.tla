---------------------------- MODULE ServerCalls ----------------------------
(***************************************************************************)
(* Incoming calls on a server: BaleSignaling::on_incoming_call and its       *)
(* callEnded bookkeeping (bale-signaling/src/signaling.rs) together with     *)
(* ServerTunnelManager, its admission handler, its three tasks and its       *)
(* per-tunnel watchers (lktunnel/src/manager.rs).                            *)
(***************************************************************************)
EXTENDS Integers, Sequences, FiniteSets

CONSTANTS Calls, Peers,
          MaxTasks,     \* bound on callReceived deliveries
          MaxTunnels,   \* bound on accepted sessions
          MaxEnds       \* bound on callEnded deliveries

Tasks == 1 .. MaxTasks
Tunnels == 1 .. MaxTunnels
None == 0
Decisions == {"Accept", "Reject", "SilentlyIgnore"}

VARIABLES
    caller,        \* who places each call
    managed,       \* "before", "up" or "dropped": the manager's life
    handler,       \* the incoming handler: "none", "manager", "noop"
    admission,     \* set_admission has been called
    in_flight, active_peers,
    task,          \* per delivery: where on_incoming_call is, its call, its decision
    pending,       \* per peer: the task whose cancel sender the map holds
    accepted,      \* transports offered and not yet drained, by peer
    ended, ends,   \* CallEnded events not yet read by the manager; how many there were
    ender,         \* the CallEnded task: the peer it is handling
    torn,          \* the teardown counter has changed since the manager looked
    drain,         \* the accepted-sessions task
    sessions,      \* per peer: the registered tunnel
    made, tpeer, live, stream,
    watcher, entered, told

calls == <<caller, in_flight, active_peers, task, pending>>
manager == <<managed, handler, admission>>
events == <<ended, ends, ender, torn>>
tunnels == <<made, tpeer, live, stream>>
watching == <<watcher, entered, told>>
vars == <<calls, manager, accepted, events, drain, sessions, tunnels, watching>>

At(at, c, d) == [at |-> at, call |-> c, decision |-> d]
Drain(at, t, old) == [at |-> at, tunnel |-> t, old |-> old]
PeerOf(k) == caller[task[k].call]
Goto(k, at) == task' = [task EXCEPT ![k].at = at]

Init ==
    /\ caller \in [Calls -> Peers]
    /\ managed = "before" /\ handler = "none" /\ admission = FALSE
    /\ in_flight = {} /\ active_peers = {}
    /\ task = [k \in Tasks |-> At("unborn", CHOOSE c \in Calls : TRUE, "SilentlyIgnore")]
    /\ pending = [p \in Peers |-> None]
    /\ accepted = <<>>
    /\ ended = <<>> /\ ends = 0 /\ ender = {}
    /\ torn = FALSE
    /\ drain = Drain("recv", None, None)
    /\ sessions = [p \in Peers |-> None]
    /\ made = 0
    /\ tpeer = [t \in Tunnels |-> CHOOSE p \in Peers : TRUE]
    /\ live = [t \in Tunnels |-> "unborn"]
    /\ stream = [t \in Tunnels |-> <<>>]
    /\ watcher = [t \in Tunnels |-> "unborn"]
    /\ entered = [t \in Tunnels |-> FALSE]
    /\ told = [t \in Tunnels |-> "nothing"]

-----------------------------------------------------------------------------
(* The tunnels.  Nobody reads past Disconnected, so nothing is kept after it.*)

Sent(t, kind) == IF "Disconnected" \in {stream[t][i] : i \in DOMAIN stream[t]} \/ watcher[t] \notin {"unborn", "recv"}
                 THEN stream[t] ELSE Append(stream[t], kind)

TunnelSays(t, kind, to) ==
    /\ stream' = [stream EXCEPT ![t] = Sent(t, kind)]
    /\ live' = [live EXCEPT ![t] = to]
    /\ UNCHANGED <<calls, manager, accepted, events, drain, sessions, made, tpeer, watching>>

TunnelUp(t) == live[t] = "dialing" /\ TunnelSays(t, "Connected", "up")
TunnelEnds(t) == live[t] \in {"dialing", "up"} /\ TunnelSays(t, "Disconnected", "down")
TunnelTimesOut(t) == live[t] = "dialing" /\ TunnelSays(t, "Error", "down")

\* LkTunnel::disconnect on each of a set of tunnels.
Disconnect(T) ==
    /\ live' = [t \in Tunnels |-> IF t \in T THEN "down" ELSE live[t]]
    /\ stream' = [t \in Tunnels |-> IF t \in T THEN Sent(t, "Disconnected") ELSE stream[t]]

Registered == {sessions[p] : p \in Peers} \ {None}

-----------------------------------------------------------------------------
(* ServerTunnelManager                                                       *)

NewManager ==
    /\ managed = "before"
    /\ managed' = "up" /\ handler' = "manager"
    /\ UNCHANGED <<calls, admission, accepted, events, drain, sessions, tunnels, watching>>

SetAdmission ==
    /\ managed = "up" /\ ~admission
    /\ admission' = TRUE
    /\ UNCHANGED <<calls, managed, handler, accepted, events, drain, sessions, tunnels, watching>>

\* Drop; its tasks and the installed handler stay.
DropManager ==
    /\ managed = "up"
    /\ managed' = "dropped"
    /\ ended' = <<>> /\ ender' = {}
    /\ Disconnect(Registered)
    /\ UNCHANGED <<calls, handler, admission, accepted, ends, torn, drain, sessions, made, tpeer, watching>>

\* The daemon's teardown_mode, after the manager is gone.
InstallNoop ==
    /\ managed = "dropped" /\ handler = "manager"
    /\ handler' = "noop"
    /\ UNCHANGED <<calls, managed, admission, accepted, events, drain, sessions, tunnels, watching>>

Kick(p) ==
    /\ managed = "up" /\ sessions[p] # None
    /\ Disconnect({sessions[p]})
    /\ UNCHANGED <<calls, manager, accepted, events, drain, sessions, made, tpeer, watching>>

DisconnectAll ==
    /\ managed = "up" /\ Registered # {}
    /\ Disconnect(Registered)
    /\ UNCHANGED <<calls, manager, accepted, events, drain, sessions, made, tpeer, watching>>

\* sign_out and disconnect of the signaling; the teardown task reacts.
UserTeardown ==
    /\ managed # "before" /\ ~torn
    /\ torn' = TRUE
    /\ UNCHANGED <<calls, manager, accepted, ended, ends, ender, drain, sessions, tunnels, watching>>

TeardownTask ==
    /\ torn
    /\ torn' = FALSE
    /\ Disconnect(Registered)
    /\ UNCHANGED <<calls, manager, accepted, ended, ends, ender, drain, sessions, made, tpeer, watching>>

-----------------------------------------------------------------------------
(* on_incoming_call, one task per delivery                                   *)

Born(k) == task[k].at = "unborn" /\ \A j \in 1 .. k - 1 : task[j].at # "unborn"

\* Slip: no dedup.
Deliver_Twice(k, c) ==
    /\ Born(k)
    /\ in_flight' = in_flight \cup {c}
    /\ task' = [task EXCEPT ![k] = At("handler", c, "SilentlyIgnore")]
    /\ UNCHANGED <<caller, active_peers, pending, manager, accepted, events, drain, sessions, tunnels, watching>>

\* callReceived, any number of times per call; a duplicate of one in flight returns.
Deliver(k, c) ==
    /\ Born(k)
    /\ c \notin in_flight
    /\ in_flight' = in_flight \cup {c}
    /\ task' = [task EXCEPT ![k] = At("handler", c, "SilentlyIgnore")]
    /\ UNCHANGED <<caller, active_peers, pending, manager, accepted, events, drain, sessions, tunnels, watching>>

\* The task returns and its InFlightGuard drops.
Return(k) ==
    /\ in_flight' = in_flight \ {task[k].call}
    /\ Goto(k, "done")

\* The handler and, within InternalHandler::decide, the decider are looked up.
NoHandler(k) ==
    /\ task[k].at = "handler"
    /\ handler \in {"none", "noop"} \/ ~admission
    /\ Return(k)
    /\ UNCHANGED <<caller, active_peers, pending, manager, accepted, events, drain, sessions, tunnels, watching>>

\* A re-call's sender replaces the previous one.
Register(k) ==
    /\ task[k].at = "handler"
    /\ handler = "manager" /\ admission
    /\ pending' = [pending EXCEPT ![PeerOf(k)] = k]
    /\ Goto(k, "deciding")
    /\ UNCHANGED <<caller, in_flight, active_peers, manager, accepted, events, drain, sessions, tunnels, watching>>

\* The application decides ...
Decided(k, d) ==
    /\ task[k].at = "deciding"
    /\ task' = [task EXCEPT ![k].at = "clear", ![k].decision = d]
    /\ UNCHANGED <<caller, in_flight, active_peers, pending, manager, accepted, events, drain, sessions, tunnels, watching>>

\* Slip: the cancel arm waits for a message and takes a dropped sender for none.
DecideCancelled_Deaf(k) ==
    /\ task[k].at = "deciding"
    /\ FALSE
    /\ UNCHANGED vars

\* ... or the sender is gone, replaced by a re-call or removed by CallEnded.
DecideCancelled(k) ==
    /\ task[k].at = "deciding"
    /\ pending[PeerOf(k)] # k
    /\ task' = [task EXCEPT ![k].at = "clear", ![k].decision = "SilentlyIgnore"]
    /\ UNCHANGED <<caller, in_flight, active_peers, pending, manager, accepted, events, drain, sessions, tunnels, watching>>

\* The entry of the peer is removed, whosever it is.
ClearSlot(k) ==
    /\ task[k].at = "clear"
    /\ pending' = [pending EXCEPT ![PeerOf(k)] = None]
    /\ Goto(k, "act")
    /\ UNCHANGED <<caller, in_flight, active_peers, manager, accepted, events, drain, sessions, tunnels, watching>>

\* Ignored; or rejected, once discard_call returns; or accept_call gives no credentials.
NoSession(k) ==
    /\ task[k].at = "act"
    /\ Return(k)
    /\ UNCHANGED <<caller, active_peers, pending, manager, accepted, events, drain, sessions, tunnels, watching>>

\* accept_call gives a room: the call is tracked for callEnded ...
Track(k) ==
    /\ task[k].at = "act"
    /\ task[k].decision = "Accept"
    /\ active_peers' = active_peers \cup {task[k].call}
    /\ Goto(k, "offer")
    /\ UNCHANGED <<caller, in_flight, pending, manager, accepted, events, drain, sessions, tunnels, watching>>

\* ... and the transport goes to the manager's drain.
Offer(k) ==
    /\ task[k].at = "offer"
    /\ accepted' = Append(accepted, PeerOf(k))
    /\ Return(k)
    /\ UNCHANGED <<caller, active_peers, pending, manager, events, drain, sessions, tunnels, watching>>

Incoming(k) ==
    \/ NoHandler(k) \/ Register(k) \/ DecideCancelled(k) \/ ClearSlot(k)
    \/ NoSession(k) \/ Track(k) \/ Offer(k)

-----------------------------------------------------------------------------
(* callEnded                                                                 *)

\* on_call_ended_internal; an untracked call is dropped with a log line.
CallEnded(c) ==
    /\ ends < MaxEnds
    /\ ends' = ends + 1
    /\ active_peers' = active_peers \ {c}
    /\ ended' = IF c \in active_peers /\ managed = "up" THEN Append(ended, caller[c]) ELSE ended
    /\ UNCHANGED <<caller, in_flight, task, pending, manager, accepted, ender, torn, drain, sessions, tunnels, watching>>

\* on_ws_call_ended: a peer with a session is left alone.
EnderLooks ==
    /\ ender = {} /\ ended # <<>>
    /\ ended' = Tail(ended)
    /\ ender' = IF sessions[Head(ended)] # None THEN {} ELSE {Head(ended)}
    /\ UNCHANGED <<calls, manager, accepted, ends, torn, drain, sessions, tunnels, watching>>

\* Otherwise a pending decision of the peer is cancelled.
EnderCancels ==
    /\ ender # {}
    /\ pending' = [p \in Peers |-> IF p \in ender THEN None ELSE pending[p]]
    /\ ender' = {}
    /\ UNCHANGED <<caller, in_flight, active_peers, task, manager, accepted, ended, ends, torn, drain, sessions, tunnels, watching>>

-----------------------------------------------------------------------------
(* The accepted-sessions task                                                *)

DrainConnect ==
    /\ drain.at = "recv" /\ accepted # <<>>
    /\ made < MaxTunnels
    /\ accepted' = Tail(accepted)
    /\ made' = made + 1
    /\ tpeer' = [tpeer EXCEPT ![made + 1] = Head(accepted)]
    /\ live' = [live EXCEPT ![made + 1] = "dialing"]
    /\ drain' = Drain("insert", made + 1, None)
    /\ UNCHANGED <<calls, manager, events, sessions, stream, watching>>

DrainInsert ==
    /\ drain.at = "insert"
    /\ sessions' = [sessions EXCEPT ![tpeer[drain.tunnel]] = drain.tunnel]
    /\ drain' = Drain("hang_up_old", drain.tunnel, sessions[tpeer[drain.tunnel]])
    /\ UNCHANGED <<calls, manager, accepted, events, tunnels, watching>>

DrainHangUpOld ==
    /\ drain.at = "hang_up_old"
    /\ Disconnect({drain.old} \ {None})
    /\ drain' = Drain("watch", drain.tunnel, None)
    /\ UNCHANGED <<calls, manager, accepted, events, sessions, made, tpeer, watching>>

DrainWatch ==
    /\ drain.at = "watch"
    /\ watcher' = [watcher EXCEPT ![drain.tunnel] = "recv"]
    /\ drain' = Drain("recv", None, None)
    /\ UNCHANGED <<calls, manager, accepted, events, sessions, tunnels, entered, told>>

DrainStep == DrainConnect \/ DrainInsert \/ DrainHangUpOld \/ DrainWatch

-----------------------------------------------------------------------------
(* spawn_server_watcher                                                      *)

Hears(t, kind) == watcher[t] = "recv" /\ stream[t] # <<>> /\ Head(stream[t]) = kind
Read(t) == stream' = [stream EXCEPT ![t] = Tail(@)]
Listed(t) == sessions[tpeer[t]] = t

WatchSkips(t) ==
    /\ Hears(t, "Error")
    /\ Read(t)
    /\ UNCHANGED <<calls, manager, accepted, events, drain, sessions, made, tpeer, live, watching>>

WatchConnected(t) ==
    /\ Hears(t, "Connected")
    /\ Read(t)
    /\ entered' = [entered EXCEPT ![t] = TRUE]
    /\ told' = [told EXCEPT ![t] = "Connected"]
    /\ UNCHANGED <<calls, manager, accepted, events, drain, sessions, made, tpeer, live, watcher>>

\* Slip: the peer's entry is removed without looking whose it is.
WatchDisconnected_RemovesAny(t) ==
    /\ Hears(t, "Disconnected")
    /\ Read(t)
    /\ sessions' = [sessions EXCEPT ![tpeer[t]] = None]
    /\ watcher' = [watcher EXCEPT ![t] = "report"]
    /\ UNCHANGED <<calls, manager, accepted, events, drain, made, tpeer, live, entered, told>>

WatchDisconnected(t) ==
    /\ Hears(t, "Disconnected")
    /\ Read(t)
    /\ sessions' = IF Listed(t) THEN [sessions EXCEPT ![tpeer[t]] = None] ELSE sessions
    /\ watcher' = [watcher EXCEPT ![t] = "report"]
    /\ UNCHANGED <<calls, manager, accepted, events, drain, made, tpeer, live, entered, told>>

WatchReport(t) ==
    /\ watcher[t] = "report"
    /\ told' = [told EXCEPT ![t] = IF entered[t] THEN "Disconnected" ELSE "Failed"]
    /\ watcher' = [watcher EXCEPT ![t] = "gone"]
    /\ UNCHANGED <<calls, manager, accepted, events, drain, sessions, tunnels, entered>>

Watch(t) == WatchSkips(t) \/ WatchConnected(t) \/ WatchDisconnected(t) \/ WatchReport(t)

-----------------------------------------------------------------------------
Next ==
    \/ NewManager \/ SetAdmission \/ DropManager \/ InstallNoop
    \/ DisconnectAll \/ UserTeardown \/ TeardownTask
    \/ \E p \in Peers : Kick(p)
    \/ \E k \in Tasks, c \in Calls : Deliver(k, c)
    \/ \E k \in Tasks : Incoming(k) \/ \E d \in Decisions : Decided(k, d)
    \/ \E c \in Calls : CallEnded(c)
    \/ EnderLooks \/ EnderCancels \/ DrainStep
    \/ \E t \in Tunnels : TunnelUp(t) \/ TunnelEnds(t) \/ TunnelTimesOut(t) \/ Watch(t)

\* Spawned tasks run on; the network, the user and the application's decider owe nothing.
Fairness ==
    /\ WF_vars(TeardownTask) /\ WF_vars(EnderLooks \/ EnderCancels) /\ WF_vars(DrainStep)
    /\ \A k \in Tasks : WF_vars(Incoming(k))
    /\ \A t \in Tunnels : WF_vars(Watch(t))

Spec == Init /\ [][Next]_vars
FairSpec == Spec /\ Fairness

-----------------------------------------------------------------------------
(* Properties.                                                               *)

TaskPlaces == {"unborn", "handler", "deciding", "clear", "act", "offer", "done"}

\* Every variable keeps its type, and in_flight_calls holds exactly the calls being
\* processed: no return path of on_incoming_call leaks or loses its entry.
TypeOK ==
    /\ \A k \in Tasks : task[k].at \in TaskPlaces /\ task[k].decision \in Decisions
    /\ pending \in [Peers -> 0 .. MaxTasks]
    /\ sessions \in [Peers -> 0 .. made]
    /\ in_flight = {task[k].call : k \in {j \in Tasks : task[j].at \notin {"unborn", "done"}}}

\* A re-delivered callReceived never gives one call two decisions at a time.
OneDecision ==
    \A j, k \in Tasks : (j # k /\ {task[j].at, task[k].at} \cap {"unborn", "done"} = {})
                           => task[j].call # task[k].call

\* An entry of `pending` belongs to a decision in progress for that peer: re-calls that
\* replace or remove each other's entries leave none behind.
PendingBacked ==
    \A p \in Peers : pending[p] # None => task[pending[p]].at \in {"deciding", "clear"} /\ PeerOf(pending[p]) = p

\* Decisions and their cancel entries stay matched: one decision per call, and no
\* entry without its decision.
DecisionsBacked == OneDecision /\ PendingBacked

\* A tunnel that is up or dialing is registered, or the drain is about to register it
\* or to hang it up: accepting a peer again never leaves two tunnels up.
SupersededIsDown ==
    \A t \in Tunnels : live[t] \in {"dialing", "up"} => Listed(t) \/ t \in {drain.tunnel, drain.old}

\* A session leaves the registry only when it is down: the end of a replaced tunnel
\* does not evict its successor.
KeepsNewSession ==
    \A p \in Peers : (sessions[p] # None /\ sessions'[p] = None) => live[sessions[p]] = "down"

\* A decision whose cancel sender is gone is abandoned, whatever the decider does.
CancelledLeaves == \A k \in Tasks : (task[k].at = "deciding" /\ pending[PeerOf(k)] # k) ~> (task[k].at # "deciding")

\* "peer with in-flight admission decision -> cancel the decision": a callEnded for a
\* call under decision is followed by the end of the decision.  Stated as: it never
\* happens that such a callEnded tells the manager nothing.
EndReachesDecision ==
    [][\A c \in Calls : (CallEnded(c) /\ managed = "up" /\ \E k \in Tasks : task[k].at = "deciding" /\ task[k].call = c)
                           => ended' # ended]_vars

\* "a stray incoming call between modes isn't accepted against stale state": once the
\* manager is gone and the no-op handler is in, no tunnel is built.
NothingAfterDrop == [][(managed = "dropped" /\ handler = "noop") => made' = made]_vars
=============================================================================
