----------------------------- MODULE ServerApp -----------------------------
(***************************************************************************)
(* The desktop server: the daemon's server mode (bale-vpn/src/daemon.rs:     *)
(* run_server, handle_server_session, AdmissionDecider, teardown_mode), the  *)
(* state it shares with the HTTP interface (server.rs: lists, pending rows,  *)
(* clients, kernel slots) and the HTTP handlers that change it (ui.rs).      *)
(*                                                                           *)
(* The tunnel manager below it is kept to what the daemon sees: the cancel   *)
(* map of its admission handler, the registry, the watchers' events.  Module *)
(* ServerCalls has it in full.                                               *)
(***************************************************************************)
EXTENDS Integers, Sequences, FiniteSets

CONSTANTS Peers, Slots,
          MaxCalls,     \* bound on incoming calls
          Requests,     \* HTTP requests, each made at most once
          Caps,         \* values max_clients is given
          KernelNat     \* --nat-mode kernel

ASSUME BoundsAssumption == MaxCalls \in Nat /\ Caps \subseteq Nat \ {0} /\ KernelNat \in BOOLEAN

Calls == 1 .. MaxCalls
None == 0

ASSUME NamesAssumption == Peers # {} /\ None \notin Slots /\ "nobody" \notin Requests

VARIABLES
    admission, blacklist, max_clients,
    disk,          \* the lists and the cap in the config file
    pending,       \* per peer: the call whose decider waits behind the UI's row
    clients,       \* per peer: the installed tunnel and its slot
    kernel_slots,  \* the free slots
    lost,          \* slots of entries that install_client overwrote
    clearing,      \* entries clear_all has taken and not yet let go
    clearer,       \* who is inside clear_all: "nobody", "clients", "rows"
    mode,          \* "server", "dropped" (the manager), "cleared", "noop" (the handler)
    call,          \* per call: its peer, where its decision is, the answer
    cancel,        \* the manager: per peer, the call whose cancel sender it holds
    sessions,      \* the manager: per peer, the registered tunnel
    tunnel,        \* per call: "none", "dialing", "up", "down"
    told,          \* per call: what its watcher has emitted
    events,        \* the manager's events, not yet read by the daemon
    done,          \* the events loop: per peer, the call whose sender it holds
    signalled,     \* calls whose sender has fired or been dropped
    resolving,     \* per peer: spawned clean-ups of a pending row
    session,       \* per call: where handle_server_session is, its slot
    device,        \* per slot: the call that has bale<K> open
    request        \* per request: where it is, its list, its snapshot

state == <<admission, blacklist, max_clients, disk, pending>>
slots == <<clients, kernel_slots, lost, clearing, clearer>>
manager == <<cancel, sessions, tunnel, told>>
loop == <<events, done, signalled, resolving>>
vars == <<state, slots, mode, call, manager, loop, session, device, request>>

Entry(c, k) == [tunnel |-> c, slot |-> k]
NoEntry == Entry(None, None)
SlotOrNone == Slots \cup {None}

Init ==
    /\ admission \in SUBSET Peers /\ blacklist = {} /\ max_clients \in Caps
    /\ disk = [admission |-> admission, blacklist |-> blacklist, max_clients |-> max_clients]
    /\ pending = [p \in Peers |-> None]
    /\ clients = [p \in Peers |-> NoEntry]
    /\ kernel_slots = Slots /\ lost = {}
    /\ clearing = {} /\ clearer = "nobody"
    /\ mode = "server"
    /\ call = [c \in Calls |-> [peer |-> CHOOSE p \in Peers : TRUE, at |-> "unborn", answer |-> "none"]]
    /\ cancel = [p \in Peers |-> None] /\ sessions = [p \in Peers |-> None]
    /\ tunnel = [c \in Calls |-> "none"] /\ told = [c \in Calls |-> "nothing"]
    /\ events = <<>>
    /\ done = [p \in Peers |-> None] /\ signalled = {}
    /\ resolving = [p \in Peers |-> 0]
    /\ session = [c \in Calls |-> [at |-> "none", slot |-> None]]
    /\ device = [k \in Slots |-> None]
    /\ request = [r \in Requests |-> [at |-> "new", list |-> "none", snap |-> {}]]

PeerOf(c) == call[c].peer
Emit(kind, p, c) == events' = Append(events, [kind |-> kind, peer |-> p, call |-> c])
Goto(c, at) == session' = [session EXCEPT ![c].at = at]
Disconnected(T) == [c \in Calls |-> IF c \in T \ {None} THEN "down" ELSE tunnel[c]]
Release(K) == kernel_slots' = kernel_slots \cup (K \ {None})

-----------------------------------------------------------------------------
(* The admission decision                                                    *)

Deciding == {"blacklist", "capacity", "allow", "park", "wait", "expired"}
Step(c, at) == call' = [call EXCEPT ![c].at = at]
Answer(c, a) == call' = [call EXCEPT ![c].at = "answered", ![c].answer = a]

\* InternalHandler::decide: a newer call of a peer takes its cancel entry.
IncomingCall(c, p) ==
    /\ mode # "noop" /\ call[c].at = "unborn"
    /\ \A b \in 1 .. c - 1 : call[b].at # "unborn"
    /\ call' = [call EXCEPT ![c].peer = p, ![c].at = "blacklist"]
    /\ cancel' = [cancel EXCEPT ![p] = c]
    /\ UNCHANGED <<state, slots, mode, sessions, tunnel, told, loop, session, device, request>>

Client_count == Cardinality({p \in Peers : clients[p] # NoEntry})

DecideBlacklist(c) ==
    /\ call[c].at = "blacklist"
    /\ IF PeerOf(c) \in blacklist THEN Answer(c, "Reject") ELSE Step(c, "capacity")
    /\ UNCHANGED <<state, slots, mode, manager, loop, session, device, request>>

DecideCapacity(c) ==
    /\ call[c].at = "capacity"
    /\ IF Client_count >= max_clients THEN Answer(c, "SilentlyIgnore") ELSE Step(c, "allow")
    /\ UNCHANGED <<state, slots, mode, manager, loop, session, device, request>>

DecideAllow(c) ==
    /\ call[c].at = "allow"
    /\ IF PeerOf(c) \in admission THEN Answer(c, "Accept") ELSE Step(c, "park")
    /\ UNCHANGED <<state, slots, mode, manager, loop, session, device, request>>

\* A row that is overwritten or removed drops its sender: the decider waiting
\* behind it answers SilentlyIgnore, unless it was sent an answer first.
Sent(c, a) == IF c # None /\ call[c].at = "wait"
              THEN [call EXCEPT ![c].at = "answered", ![c].answer = a] ELSE call

pending_park(c) ==
    /\ call[c].at = "park"
    /\ call' = [Sent(pending[PeerOf(c)], "SilentlyIgnore") EXCEPT ![c].at = "wait"]
    /\ pending' = [pending EXCEPT ![PeerOf(c)] = c]
    /\ UNCHANGED <<admission, blacklist, max_clients, disk, slots, mode, manager, loop, session, device, request>>

pending_resolve(p, a) ==
    /\ call' = Sent(pending[p], a)
    /\ pending' = [pending EXCEPT ![p] = None]

\* The 60 s are over, and then the peer's row is cleared, whosever it is by then.
DecideTimeout(c) ==
    /\ call[c].at = "wait"
    /\ Step(c, "expired")
    /\ UNCHANGED <<state, slots, mode, manager, loop, session, device, request>>

ClearExpired(c) ==
    /\ call[c].at = "expired"
    /\ call' = [Sent(pending[PeerOf(c)], "SilentlyIgnore") EXCEPT
                    ![c].at = "answered", ![c].answer = "SilentlyIgnore"]
    /\ pending' = [pending EXCEPT ![PeerOf(c)] = None]
    /\ UNCHANGED <<admission, blacklist, max_clients, disk, slots, mode, manager, loop, session, device, request>>

\* The select! of InternalHandler::decide: the decider is dropped where it is.
Cancelled(c) ==
    /\ call[c].at \in Deciding /\ cancel[PeerOf(c)] # c
    /\ Answer(c, "SilentlyIgnore")
    /\ UNCHANGED <<state, slots, mode, manager, loop, session, device, request>>

\* Whatever entry the peer has in the cancel map is removed, a newer call's too.
DecideReturns(c) ==
    /\ call[c].at = "answered"
    /\ call' = [call EXCEPT ![c].at = IF call[c].answer = "Accept" THEN "accepting" ELSE "over", ![c].answer = "none"]
    /\ cancel' = [cancel EXCEPT ![PeerOf(c)] = None]
    /\ UNCHANGED <<state, slots, mode, sessions, tunnel, told, loop, session, device, request>>

-----------------------------------------------------------------------------
(* The manager and its tunnels, as the daemon sees them                      *)

\* accept_call fails or brings no credentials.
AcceptFails(c) ==
    /\ call[c].at = "accepting"
    /\ Step(c, "over")
    /\ UNCHANGED <<state, slots, mode, manager, loop, session, device, request>>

\* The accepted-sessions task registers the tunnel and puts down the one it replaces.
Join(c) ==
    /\ call[c].at = "accepting"
    /\ Step(c, "over")
    /\ sessions' = [sessions EXCEPT ![PeerOf(c)] = c]
    /\ tunnel' = [Disconnected({sessions[PeerOf(c)]}) EXCEPT ![c] = "dialing"]
    /\ UNCHANGED <<state, slots, mode, cancel, told, loop, session, device, request>>

TunnelUp(c) ==
    /\ tunnel[c] = "dialing"
    /\ tunnel' = [tunnel EXCEPT ![c] = "up"]
    /\ told' = [told EXCEPT ![c] = "heard"]
    /\ UNCHANGED <<state, slots, mode, call, cancel, sessions, loop, session, device, request>>

TunnelEnds(c) ==
    /\ tunnel[c] \in {"dialing", "up"}
    /\ tunnel' = Disconnected({c})
    /\ UNCHANGED <<state, slots, mode, call, cancel, sessions, told, loop, session, device, request>>

\* No peer within the deadline: an Error nobody reads, so the registry keeps it.
TunnelTimesOut(c) ==
    /\ tunnel[c] = "dialing"
    /\ tunnel' = Disconnected({c})
    /\ told' = [told EXCEPT ![c] = "over"]
    /\ UNCHANGED <<state, slots, mode, call, cancel, sessions, loop, session, device, request>>

\* The watcher reads Connected; a tunnel nobody holds any more is passed over.
WatchConnected(c) ==
    /\ told[c] = "heard"
    /\ \/ told' = [told EXCEPT ![c] = "Connected"] /\ Emit("Connected", PeerOf(c), c)
       \/ sessions[PeerOf(c)] # c /\ told' = [told EXCEPT ![c] = "over"] /\ UNCHANGED events
    /\ UNCHANGED <<state, slots, mode, call, cancel, sessions, tunnel, done, signalled, resolving, session, device, request>>

WatchDisconnected(c) ==
    /\ tunnel[c] = "down" /\ told[c] \in {"nothing", "Connected"}
    /\ told' = [told EXCEPT ![c] = "over"]
    /\ sessions' = [sessions EXCEPT ![PeerOf(c)] = IF @ = c THEN None ELSE @]
    /\ Emit(IF told[c] = "Connected" THEN "Disconnected" ELSE "Failed", PeerOf(c), c)
    /\ UNCHANGED <<state, slots, mode, call, cancel, tunnel, done, signalled, resolving, session, device, request>>

\* callEnded of an earlier call of the peer reaches the manager while a later
\* one is being decided.
CallEnded(p) ==
    /\ mode = "server" /\ sessions[p] = None /\ cancel[p] # None
    /\ \E c \in Calls : PeerOf(c) = p /\ told[c] = "over" /\ told' = [told EXCEPT ![c] = "ended"]
    /\ cancel' = [cancel EXCEPT ![p] = None]
    /\ Emit("Failed", p, cancel[p])
    /\ UNCHANGED <<state, slots, mode, call, sessions, tunnel, done, signalled, resolving, session, device, request>>

-----------------------------------------------------------------------------
(* The events loop of run_server                                             *)

\* Slip: a sender that is dropped does not end the session that waits for it.
Drops_Silently(d) == IF Head(events).kind = "Connected"
                     THEN signalled ELSE signalled \cup ({d} \ {None})

Drops(d) == IF d = None THEN signalled ELSE signalled \cup {d}

OnEvent ==
    /\ events # <<>>
    /\ events' = Tail(events)
    /\ LET ev == Head(events) p == ev.peer IN
       \/ /\ ev.kind = "Connected"
          /\ done' = [done EXCEPT ![p] = ev.call] /\ signalled' = Drops(done[p])
          /\ Goto(ev.call, "name")
          /\ UNCHANGED resolving
       \/ /\ ev.kind = "Disconnected"
          /\ done' = [done EXCEPT ![p] = None] /\ signalled' = Drops(done[p])
          /\ UNCHANGED <<resolving, session>>
       \/ /\ ev.kind = "Failed"
          /\ resolving' = [resolving EXCEPT ![p] = @ + 1]
          /\ UNCHANGED <<done, signalled, session>>
    /\ UNCHANGED <<state, slots, mode, call, manager, device, request>>

Resolve(p) ==
    /\ resolving[p] > 0
    /\ resolving' = [resolving EXCEPT ![p] = @ - 1]
    /\ pending_resolve(p, "SilentlyIgnore")
    /\ UNCHANGED <<admission, blacklist, max_clients, disk, slots, mode, manager, events, done, signalled, session, device, request>>

-----------------------------------------------------------------------------
(* handle_server_session                                                     *)

SetSession(c, at, k) == session' = [session EXCEPT ![c] = [at |-> at, slot |-> k]]

\* Slip: the slot is read, not taken.
alloc_kernel_slot_Peek(c) ==
    /\ session[c].at = "name"
    /\ \/ KernelNat /\ \E k \in kernel_slots : SetSession(c, "open", k)
       \/ (~KernelNat \/ kernel_slots = {}) /\ SetSession(c, "start", None)
    /\ UNCHANGED <<state, slots, mode, call, manager, loop, device, request>>

\* After fetch_display_name: a slot in kernel mode, if one is free.
alloc_kernel_slot(c) ==
    /\ session[c].at = "name"
    /\ \/ /\ KernelNat
          /\ \E k \in kernel_slots : kernel_slots' = kernel_slots \ {k} /\ SetSession(c, "open", k)
       \/ /\ ~KernelNat \/ kernel_slots = {}
          /\ SetSession(c, "start", None)
          /\ UNCHANGED kernel_slots
    /\ UNCHANGED <<state, clients, lost, clearing, clearer, mode, call, manager, loop, device, request>>

open_server_tun(c) ==
    /\ session[c].at = "open"
    /\ LET k == session[c].slot IN
       \/ /\ device[k] = None
          /\ device' = [device EXCEPT ![k] = c]
          /\ Goto(c, "attach")
          /\ UNCHANGED kernel_slots
       \/ /\ Release({k}) /\ SetSession(c, "start", None)
          /\ UNCHANGED device
    /\ UNCHANGED <<state, clients, lost, clearing, clearer, mode, call, manager, loop, request>>

attach_tun(c) ==
    /\ session[c].at = "attach"
    /\ LET k == session[c].slot IN
       \/ /\ tunnel[c] = "up"
          /\ Goto(c, "install")
          /\ UNCHANGED <<kernel_slots, device>>
       \/ /\ tunnel[c] = "down"
          /\ Release({k}) /\ SetSession(c, "start", None)
          /\ device' = [device EXCEPT ![k] = None]
    /\ UNCHANGED <<state, clients, lost, clearing, clearer, mode, call, manager, loop, request>>

start_server(c) ==
    /\ session[c].at = "start"
    /\ \/ tunnel[c] = "up" /\ Goto(c, "install")
       \/ tunnel[c] = "down" /\ Goto(c, "over")
    /\ UNCHANGED <<state, slots, mode, call, manager, loop, device, request>>

install_client(c) ==
    /\ session[c].at = "install"
    /\ clients' = [clients EXCEPT ![PeerOf(c)] = Entry(c, session[c].slot)]
    /\ lost' = lost \cup ({clients[PeerOf(c)].slot} \ {None})
    /\ SetSession(c, "done", None)
    /\ UNCHANGED <<state, kernel_slots, clearing, clearer, mode, call, manager, loop, device, request>>

\* remove_client: the peer's entry, whichever tunnel it is for.
remove_client(p) ==
    /\ clients' = [clients EXCEPT ![p] = NoEntry]
    /\ tunnel' = Disconnected({clients[p].tunnel})
    /\ Release({clients[p].slot})

SessionOver(c) ==
    /\ session[c].at = "done" /\ c \in signalled
    /\ remove_client(PeerOf(c))
    /\ Goto(c, "over") /\ signalled' = signalled \ {c}
    /\ UNCHANGED <<state, lost, clearing, clearer, mode, call, cancel, sessions, told, events, done, resolving, device, request>>

\* The dispatcher thread drops the bridge of a tunnel that is down.
CloseDevice(k) ==
    /\ device[k] # None /\ tunnel[device[k]] = "down" /\ session[device[k]].at \notin {"attach"}
    /\ device' = [device EXCEPT ![k] = None]
    /\ UNCHANGED <<state, slots, mode, call, manager, loop, session, request>>

-----------------------------------------------------------------------------
(* clear_all, for the daemon leaving the mode or for POST /disconnect        *)

ClearTake(owner) ==
    /\ clearer = "nobody"
    /\ clearer' = owner
    /\ clearing' = {clients[p] : p \in Peers} \ {NoEntry}
    /\ clients' = [p \in Peers |-> NoEntry]
    /\ UNCHANGED <<kernel_slots, lost>>

ClearOne(e) ==
    /\ clearing' = clearing \ {e}
    /\ tunnel' = Disconnected({e.tunnel})
    /\ Release({e.slot})
    /\ UNCHANGED <<state, clients, lost, clearer, mode, call, cancel, sessions, told, loop, session, device, request>>

ClearRows ==
    /\ clearer # "nobody" /\ clearing = {}
    /\ clearer' = "nobody"
    /\ pending' = [p \in Peers |-> None]
    /\ call' = [c \in Calls |-> IF \E p \in Peers : pending[p] = c THEN Sent(c, "SilentlyIgnore")[c] ELSE call[c]]
    /\ mode' = IF clearer = "mode" THEN "cleared" ELSE mode
    /\ request' = [r \in Requests |-> IF clearer = r THEN [request[r] EXCEPT !.at = "teardown"] ELSE request[r]]
    /\ UNCHANGED <<admission, blacklist, max_clients, disk, clients, kernel_slots, lost, clearing, manager, loop, session, device>>

TeardownMode ==
    \/ /\ mode = "dropped" /\ ClearTake("mode")
       /\ mode' = "clearing"
    \/ /\ mode = "cleared"
       /\ mode' = "noop"
       /\ UNCHANGED slots

Teardown == TeardownMode /\ UNCHANGED <<state, call, manager, loop, session, device, request>>

-----------------------------------------------------------------------------
(* The HTTP handlers                                                         *)

Lists == {"admission", "blacklist"}
Edited(L, p, how) == IF how = "add" THEN L \cup {p} ELSE L \ {p}

Edit(l, p, how) ==
    /\ admission' = IF l = "admission" THEN Edited(admission, p, how) ELSE admission
    /\ blacklist' = IF l = "blacklist" THEN Edited(blacklist, p, how) ELSE blacklist

SetRequest(r, at, l, snap) == request' = [request EXCEPT ![r] = [at |-> at, list |-> l, snap |-> snap]]

\* add_admission, remove_admission, add_blacklist, remove_blacklist
EditList(r, l, p, how) ==
    /\ request[r].at = "new"
    /\ Edit(l, p, how)
    /\ SetRequest(r, "snapshot", l, {})
    /\ UNCHANGED <<max_clients, disk, pending, slots, mode, call, manager, loop, session, device>>

\* accept_pending (once, or with addToList) and reject_pending, which always blocks
AnswerRow(r, p, a, l) ==
    /\ request[r].at = "new"
    /\ pending_resolve(p, a)
    /\ SetRequest(r, IF l = "none" THEN "over" ELSE "add", l, {p})
    /\ UNCHANGED <<admission, blacklist, max_clients, disk, slots, mode, manager, loop, session, device>>

AddAnswered(r) ==
    /\ request[r].at = "add"
    /\ \E p \in request[r].snap : Edit(request[r].list, p, "add")
    /\ SetRequest(r, "snapshot", request[r].list, {})
    /\ UNCHANGED <<max_clients, disk, pending, slots, mode, call, manager, loop, session, device>>

Current == [admission |-> admission, blacklist |-> blacklist, max_clients |-> max_clients]

Snapshot(r) ==
    /\ request[r].at = "snapshot"
    /\ SetRequest(r, "save", request[r].list, Current[request[r].list])
    /\ UNCHANGED <<state, slots, mode, call, manager, loop, session, device>>

\* ConfigFile::update with the snapshot
Save(r) ==
    /\ request[r].at = "save"
    /\ disk' = [disk EXCEPT ![request[r].list] = request[r].snap]
    /\ SetRequest(r, "over", "none", {})
    /\ UNCHANGED <<admission, blacklist, max_clients, pending, slots, mode, call, manager, loop, session, device>>

set_max_clients(r, n) ==
    /\ request[r].at = "new"
    /\ max_clients' = n
    /\ SetRequest(r, "snapshot", "max_clients", {})
    /\ UNCHANGED <<admission, blacklist, disk, pending, slots, mode, call, manager, loop, session, device>>

tunnel_client_disconnect(r, p) ==
    /\ request[r].at = "new" /\ clients[p] # NoEntry
    /\ remove_client(p)
    /\ SetRequest(r, "over", "none", {})
    /\ UNCHANGED <<state, lost, clearing, clearer, mode, call, cancel, sessions, told, loop, session, device>>

\* set_config with another mode: run_mode drops run_server's future, and the
\* manager with it.
set_config(r) ==
    /\ request[r].at = "new" /\ mode = "server"
    /\ mode' = "dropped"
    /\ tunnel' = Disconnected({sessions[p] : p \in Peers})
    /\ SetRequest(r, "over", "none", {})
    /\ UNCHANGED <<state, slots, call, cancel, sessions, told, loop, session, device>>

\* POST /disconnect: clear_all, then the signaling's teardown ends every session.
Disconnect(r) ==
    \/ /\ request[r].at = "new" /\ ClearTake(r)
       /\ SetRequest(r, "clear", "none", {})
       /\ UNCHANGED tunnel
    \/ /\ request[r].at = "teardown"
       /\ tunnel' = Disconnected({sessions[p] : p \in Peers})
       /\ SetRequest(r, "over", "none", {})
       /\ UNCHANGED slots

disconnect(r) == Disconnect(r) /\ UNCHANGED <<state, mode, call, cancel, sessions, told, loop, session, device>>

-----------------------------------------------------------------------------
Decide(c) ==
    \/ DecideBlacklist(c) \/ DecideCapacity(c) \/ DecideAllow(c) \/ pending_park(c)
    \/ ClearExpired(c) \/ Cancelled(c) \/ DecideReturns(c)

HandleSession(c) ==
    \/ alloc_kernel_slot(c) \/ open_server_tun(c) \/ attach_tun(c) \/ start_server(c)
    \/ install_client(c) \/ SessionOver(c)

Watch(c) == WatchConnected(c) \/ WatchDisconnected(c)

Clear == (\E e \in clearing : ClearOne(e)) \/ ClearRows

Continue(r) ==
    AddAnswered(r) \/ Snapshot(r) \/ Save(r) \/ (request[r].at = "teardown" /\ disconnect(r))

HttpRequest(r) ==
    \/ \E p \in Peers :
          \/ \E l \in Lists, how \in {"add", "remove"} : EditList(r, l, p, how)
          \/ AnswerRow(r, p, "Accept", "none")
          \/ AnswerRow(r, p, "Accept", "admission")
          \/ AnswerRow(r, p, "Reject", "blacklist")
          \/ tunnel_client_disconnect(r, p)
    \/ \E n \in Caps : set_max_clients(r, n)
    \/ disconnect(r) \/ set_config(r)

Next ==
    \/ \E c \in Calls :
          \/ \E p \in Peers : IncomingCall(c, p)
          \/ Decide(c) \/ DecideTimeout(c)
          \/ Join(c) \/ AcceptFails(c) \/ TunnelUp(c) \/ TunnelEnds(c) \/ TunnelTimesOut(c)
          \/ Watch(c) \/ HandleSession(c)
    \/ \E p \in Peers : CallEnded(p) \/ Resolve(p)
    \/ \E k \in Slots : CloseDevice(k)
    \/ \E r \in Requests : HttpRequest(r) \/ Continue(r)
    \/ OnEvent \/ Clear \/ Teardown

\* Spawned tasks and the dispatcher keep running; callers, users, tunnels and
\* the HTTP interface owe nothing.
Fairness ==
    /\ \A c \in Calls : WF_vars(Watch(c)) /\ WF_vars(HandleSession(c))
    /\ WF_vars(OnEvent) /\ WF_vars(Clear) /\ WF_vars(Teardown)
    /\ \A p \in Peers : WF_vars(Resolve(p))

Spec == Init /\ [][Next]_vars /\ Fairness

-----------------------------------------------------------------------------
TypeOK ==
    /\ admission \subseteq Peers /\ blacklist \subseteq Peers /\ max_clients \in Caps
    /\ disk \in [admission : SUBSET Peers, blacklist : SUBSET Peers, max_clients : Caps]
    /\ pending \in [Peers -> Calls \cup {None}]
    /\ clients \in [Peers -> [tunnel : Calls \cup {None}, slot : SlotOrNone]]
    /\ kernel_slots \subseteq Slots /\ lost \subseteq Slots
    /\ clearing \subseteq [tunnel : Calls, slot : SlotOrNone]
    /\ clearer \in Requests \cup {"nobody", "mode"}
    /\ mode \in {"server", "dropped", "clearing", "cleared", "noop"}
    /\ cancel \in [Peers -> Calls \cup {None}] /\ sessions \in [Peers -> Calls \cup {None}]
    /\ tunnel \in [Calls -> {"none", "dialing", "up", "down"}]
    /\ told \in [Calls -> {"nothing", "heard", "Connected", "over", "ended"}]
    /\ done \in [Peers -> Calls \cup {None}] /\ signalled \subseteq Calls
    /\ resolving \in [Peers -> Nat]
    /\ session \in [Calls -> [at : {"none", "name", "open", "attach", "start", "install", "done", "over"}, slot : SlotOrNone]]
    /\ device \in [Slots -> Calls \cup {None}]

\* Who holds slot k: handlers on their way to install, installed clients,
\* entries being cleared.
Holders(k) ==
    {<<"session", c>> : c \in {d \in Calls : session[d].slot = k}}
    \cup {<<"client", p>> : p \in {q \in Peers : clients[q].slot = k}}
    \cup {<<"clearing", e>> : e \in {f \in clearing : f.slot = k}}

\* A kernel slot (bale<K>, 10.8.<K>.0/24) is never given to two sessions, and a
\* slot somebody holds is not in the free pool: every path of
\* handle_server_session, remove_client and clear_all returns it at most once.
SlotsApart ==
    \A k \in Slots :
        /\ \A g, h \in Holders(k) : g = h
        /\ Holders(k) # {} => k \notin kernel_slots
        /\ k \in lost => Holders(k) = {} /\ k \notin kernel_slots

\* No slot disappears on a failure path: it is free, held, or was on an entry
\* that install_client overwrote.
SlotsAccounted == \A k \in Slots : k \in kernel_slots \/ k \in lost \/ Holders(k) # {}

\* Slots are returned to the pool on remove: none is ever out of reach of it.
SlotsReturned == \A k \in Slots : k \in kernel_slots \/ Holders(k) # {}

\* A client installed on slot k has the device of that slot as long as its
\* tunnel is up: packets of its subnet are not another session's.
OwnDevice ==
    \A p \in Peers : clients[p].slot # None /\ tunnel[clients[p].tunnel] = "up"
        => device[clients[p].slot] = clients[p].tunnel

\* Sessions do not share a slot, none disappears on a failure path, and an installed
\* client has its slot's device: what alloc_kernel_slot, open_server_tun and the returns
\* of a slot keep between them.
SlotsOwned == SlotsApart /\ SlotsAccounted /\ OwnDevice

\* max_clients caps the connected callers.
WithinCap == Client_count <= max_clients \/ \E r \in Requests : request[r].at # "new"

\* Once the list handlers are through, the file has the lists of the server.
ListsSaved ==
    (\A r \in Requests : request[r].at \notin {"add", "snapshot", "save"})
        => disk = Current

\* A tunnel that is down does not stay among the clients, whatever order its
\* events, a mode switch, a kick and a second call of the peer come in.
Listed(c) == \E p \in Peers : clients[p].tunnel = c
EndedLeave == \A c \in Calls : [](tunnel[c] = "down" => <>[]~Listed(c))
=============================================================================
