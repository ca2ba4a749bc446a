---------------------------- MODULE AndroidServer ----------------------------
(***************************************************************************)
(* The Android server: BaleServerService (its start and stop commands, the   *)
(* collector of the manager's events, the coroutines it launches, the sweep  *)
(* of pending decisions and the buttons of its notification), from its       *)
(* creation to its destruction, with the ServerTunnelManager it subscribes   *)
(* to and the JNI decider that runs decideIncoming on a thread per call.     *)
(*                                                                           *)
(* The rows, counts and notifications the service shows are left out: they   *)
(* mirror pendingDecisions and clients.                                      *)
(***************************************************************************)
EXTENDS Integers, Sequences, FiniteSets

CONSTANTS Peers, MaxClients,
          MaxCalls,    \* bound on incoming calls
          MaxStarts    \* bound on start commands and presses of buttons, together

Calls == 1 .. MaxCalls
Starts == 1 .. MaxStarts
None == 0

VARIABLES
    scope,        \* the service's CoroutineScope: which one it is, and whether it is active
    service,      \* instance is set, loopsStarted, destroyed, and the start commands so far
    stopping,     \* where stopServer is
    manager,      \* BaleConnection.serverMgr: which one it is, and whether it is still open
    admitting,    \* the managers that have been given the decider
    collectors,   \* per collector launched: its scope, its manager, where it is, its inbox
    ringing,      \* per call: its peer, the manager that was asked, and that of its session
    thread,       \* per call: where the decider's thread is, or what it answered
    session,      \* per call: what became of it natively
    pendingDecisions,  \* per peer: the call whose deferred the map holds
    clients,      \* per peer: the call whose tunnel is the client
    jobs,         \* coroutines launched and not finished
    expired,      \* what the sweep found too old and has not yet removed
    allowed, blocked,  \* AdmissionStore and BlacklistStore
    presses,
    taken, missed, installed  \* per call: how often Connected was handled, whether it
                              \* reached no collector, whether its tunnel was up as a client

lifecycle == <<scope, service, stopping>>
native == <<manager, admitting, ringing, session>>
deciding == <<thread, pendingDecisions, expired>>
stores == <<allowed, blocked>>
history == <<taken, missed, installed>>
vars == <<lifecycle, native, collectors, deciding, clients, jobs, stores, presses, history>>

Init ==
    /\ scope = [n |-> 1, active |-> TRUE]
    /\ service = [instance |-> FALSE, loops |-> FALSE, destroyed |-> FALSE, starts |-> 0]
    /\ stopping = "no"
    /\ manager = [n |-> 0, open |-> FALSE] /\ admitting = {}
    /\ collectors = <<>>
    /\ ringing = [c \in Calls |-> [peer |-> CHOOSE p \in Peers : TRUE, asked |-> 0, by |-> 0]]
    /\ thread = [c \in Calls |-> "unborn"]
    /\ session = [c \in Calls |-> "unborn"]
    /\ pendingDecisions = [p \in Peers |-> None]
    /\ clients = [p \in Peers |-> None]
    /\ jobs = {} /\ expired = {}
    /\ allowed \in SUBSET Peers /\ blocked \in SUBSET (Peers \ allowed)
    /\ presses = 0
    /\ taken = [c \in Calls |-> 0] /\ missed = {} /\ installed = {}

-----------------------------------------------------------------------------
(* The manager and its sessions, as the service sees them                    *)

Alive(n) == scope.active /\ scope.n = n

\* A listener's tryEmit: it reaches the collectors that are subscribed, and nobody else.
Hears(k, m) == collectors[k].mgr = m /\ collectors[k].at = "on"
Emit(m, kind, c) ==
    collectors' = [k \in DOMAIN collectors |->
        IF Hears(k, m) THEN [collectors[k] EXCEPT !.inbox = Append(@, [kind |-> kind, call |-> c])]
        ELSE collectors[k]]

Torn(at) == CASE at = "dialing" -> "failing" [] at = "up" -> "ending" [] OTHER -> at
Disconnect(C) == session' = [c \in Calls |-> IF c \in C THEN Torn(session[c]) ELSE session[c]]
Registered(m, p) == {c \in Calls : /\ ringing[c].peer = p /\ ringing[c].by = m
                                   /\ session[c] \in {"dialing", "up", "failing", "ending"}}
Deciding(p) == {c \in Calls : session[c] = "deciding" /\ ringing[c].peer = p}

\* InternalHandler::decide of the handler installed last: a re-call takes the place of
\* a decision of the same peer, which is cancelled, and the decider's thread starts.
Ring(c, p) ==
    /\ session[c] = "unborn" /\ \A d \in 1 .. c - 1 : session[d] # "unborn"
    /\ manager.n \in admitting
    /\ ringing' = [ringing EXCEPT ![c] = [peer |-> p, asked |-> manager.n, by |-> 0]]
    /\ session' = [d \in Calls |-> IF d = c THEN "deciding"
                                   ELSE IF d \in Deciding(p) THEN "cancelled" ELSE session[d]]
    /\ thread' = [thread EXCEPT ![c] = "start"]
    /\ UNCHANGED <<lifecycle, manager, admitting, collectors, pendingDecisions, expired,
                   clients, jobs, stores, presses, history>>

\* on_ws_call_ended for a peer that has no session: its decision is cancelled.
CallEnded(p) ==
    /\ manager.open /\ Registered(manager.n, p) = {}
    /\ \E c \in Deciding(p) :
        /\ session' = [session EXCEPT ![c] = "cancelled"]
        /\ Emit(manager.n, "Failed", c)
    /\ UNCHANGED <<lifecycle, manager, admitting, ringing, deciding, clients, jobs, stores, presses, history>>

\* The cancelled decide clears the peer's entry, which may by now be a newer decision's.
Cancelled(c) ==
    /\ session[c] = "cancelled"
    /\ session' = [d \in Calls |-> IF d = c THEN "dropped"
                                   ELSE IF d \in Deciding(ringing[c].peer) THEN "cancelled" ELSE session[d]]
    /\ UNCHANGED <<lifecycle, manager, admitting, ringing, collectors, deciding, clients, jobs, stores, presses, history>>

Answers == {"accept", "reject", "ignore"}

\* The decider's answer, if the manager still waits for it.  An accepted call becomes a
\* session of the manager made last, which drops the peer's earlier one.
Answered(c) ==
    /\ session[c] = "deciding" /\ thread[c] \in Answers
    /\ session' = [d \in Calls |->
          IF d = c THEN (IF thread[c] = "accept" THEN "dialing" ELSE "dropped")
          ELSE IF thread[c] = "accept" /\ d \in Registered(manager.n, ringing[c].peer)
               THEN Torn(session[d]) ELSE session[d]]
    /\ ringing' = [ringing EXCEPT ![c].by = manager.n]
    /\ UNCHANGED <<lifecycle, manager, admitting, collectors, deciding, clients, jobs, stores, presses, history>>

\* The watcher's Connected.
TunnelUp(c) ==
    /\ session[c] = "dialing"
    /\ session' = [session EXCEPT ![c] = "up"]
    /\ Emit(ringing[c].by, "Connected", c)
    /\ missed' = IF \E k \in DOMAIN collectors : Hears(k, ringing[c].by)
                    \/ ~manager.open \/ ringing[c].asked # manager.n THEN missed ELSE missed \cup {c}
    /\ UNCHANGED <<lifecycle, manager, admitting, ringing, deciding, clients, jobs, stores, presses, taken, installed>>

TunnelEnds(c) ==
    /\ session[c] \in {"dialing", "up"}
    /\ Disconnect({c})
    /\ UNCHANGED <<lifecycle, manager, admitting, ringing, collectors, deciding, clients, jobs, stores, presses, history>>

\* The watcher's Disconnected, or Failed when it never saw Connected.
TunnelEnded(c) ==
    /\ session[c] \in {"failing", "ending"}
    /\ session' = [session EXCEPT ![c] = "down"]
    /\ Emit(ringing[c].by, IF session[c] = "ending" THEN "Disconnected" ELSE "Failed", c)
    /\ UNCHANGED <<lifecycle, manager, admitting, ringing, deciding, clients, jobs, stores, presses, history>>

-----------------------------------------------------------------------------
(* onStartCommand                                                            *)

Collector(n, m) == [scope |-> n, mgr |-> m, at |-> "launched", inbox |-> <<>>]

StartWith(unguarded) ==
    /\ stopping = "no" /\ ~service.destroyed /\ service.starts + presses < MaxStarts
    /\ scope' = IF scope.active THEN scope ELSE [n |-> scope.n + 1, active |-> TRUE]
    /\ manager' = IF manager.open THEN manager ELSE [n |-> manager.n + 1, open |-> TRUE]
    /\ collectors' = IF service.loops /\ scope.active /\ ~unguarded THEN collectors
                     ELSE Append(collectors, Collector(scope'.n, manager'.n))
    /\ service' = [service EXCEPT !.instance = TRUE, !.loops = TRUE, !.starts = @ + 1]
    /\ UNCHANGED <<stopping, admitting, ringing, session, deciding, clients, jobs, stores, presses, history>>

\* Slip: every start command launches its collector.
onStartCommand_Unguarded == StartWith(TRUE)
onStartCommand == StartWith(FALSE)

Subscribe(k) ==
    /\ k \in DOMAIN collectors /\ collectors[k].at = "launched" /\ Alive(collectors[k].scope)
    /\ collectors' = [collectors EXCEPT ![k].at = "on"]
    /\ UNCHANGED <<lifecycle, native, deciding, clients, jobs, stores, presses, history>>

\* The second coroutine: subscribed.await(), then setAdmission on a manager that is still registered.
SetAdmission(k) ==
    /\ k \in DOMAIN collectors /\ collectors[k].at = "on" /\ Alive(collectors[k].scope)
    /\ manager.open /\ manager.n = collectors[k].mgr /\ manager.n \notin admitting
    /\ admitting' = admitting \cup {manager.n}
    /\ UNCHANGED <<lifecycle, manager, ringing, session, collectors, deciding, clients, jobs, stores, presses, history>>

-----------------------------------------------------------------------------
(* The decider's thread: decideIncoming                                      *)

Complete(C, d) == thread' = [c \in Calls |-> IF c \in C /\ thread[c] = "await" THEN d ELSE thread[c]]
Connected == {p \in Peers : clients[p] # None}
Waiting == {pendingDecisions[p] : p \in Peers} \ {None}

Verdict(p) ==
    CASE ~service.instance \/ ~scope.active -> "ignore"
      [] p \in blocked -> "reject"
      [] Cardinality(Connected) >= MaxClients -> "ignore"
      [] p \in allowed -> "accept"
      [] OTHER -> "enter"

decideIncoming(c) ==
    /\ thread[c] = "start"
    /\ thread' = [thread EXCEPT ![c] = Verdict(ringing[c].peer)]
    /\ UNCHANGED <<lifecycle, native, collectors, pendingDecisions, expired, clients, jobs, stores, presses, history>>

\* A decision of the same caller that is still open is completed first ...
DropEarlier(c) ==
    /\ thread[c] = "enter"
    /\ pendingDecisions' = [pendingDecisions EXCEPT ![ringing[c].peer] = None]
    /\ thread' = [d \in Calls |-> IF d = c THEN "put"
                                  ELSE IF d = pendingDecisions[ringing[c].peer] /\ thread[d] = "await"
                                       THEN "ignore" ELSE thread[d]]
    /\ UNCHANGED <<lifecycle, native, collectors, expired, clients, jobs, stores, presses, history>>

\* ... and this one takes its place, and waits.
EnterPending(c) ==
    /\ thread[c] = "put"
    /\ pendingDecisions' = [pendingDecisions EXCEPT ![ringing[c].peer] = c]
    /\ thread' = [thread EXCEPT ![c] = "await"]
    /\ UNCHANGED <<lifecycle, native, collectors, expired, clients, jobs, stores, presses, history>>

-----------------------------------------------------------------------------
(* The collector and the coroutines it launches                              *)

Job(kind, n, p, c) == [kind |-> kind, scope |-> n, peer |-> p, call |-> c]
Launched(kind, p, c) == IF scope.active THEN {Job(kind, scope.n, p, c)} ELSE {}
JobAlive(j) == j.scope = 0 \/ Alive(j.scope)

Collects(k, kinds) ==
    /\ k \in DOMAIN collectors /\ collectors[k].at = "on" /\ collectors[k].inbox # <<>>
    /\ Head(collectors[k].inbox).kind \in kinds
    /\ collectors' = [collectors EXCEPT ![k].inbox = Tail(@)]
    /\ UNCHANGED <<lifecycle, native, expired, clients, stores, presses, missed, installed>>

\* The peer's decision is forgotten, whichever call it is of, without an answer.
handleSession(k) ==
    /\ Collects(k, {"Connected"})
    /\ LET c == Head(collectors[k].inbox).call
           p == ringing[c].peer
       IN /\ pendingDecisions' = [pendingDecisions EXCEPT ![p] = None]
          /\ jobs' = jobs \cup Launched("open", p, c)
          /\ taken' = [taken EXCEPT ![c] = @ + 1]
    /\ UNCHANGED thread

EndedWith(k, disconnects) ==
    /\ Collects(k, {"Disconnected", "Failed"})
    /\ LET p == ringing[Head(collectors[k].inbox).call].peer
       IN /\ jobs' = IF clients[p] # None /\ disconnects THEN jobs \cup Launched("disconnect", p, None) ELSE jobs
          /\ Complete({pendingDecisions[p]}, "ignore")
          /\ pendingDecisions' = [pendingDecisions EXCEPT ![p] = None]
    /\ UNCHANGED taken

handleSessionEnded(k) == EndedWith(k, TRUE)

\* fetchDisplayName returns; up to here the coroutine can be cancelled.
NameFetched(j) ==
    /\ j.kind = "open" /\ JobAlive(j)
    /\ jobs' = (jobs \ {j}) \cup {[j EXCEPT !.kind = "install"]}
    /\ UNCHANGED <<lifecycle, native, collectors, deciding, clients, stores, presses, history>>

InstallClient(j) ==
    /\ j.kind = "install"
    /\ jobs' = jobs \ {j}
    /\ clients' = [clients EXCEPT ![j.peer] = j.call]
    /\ installed' = IF session[j.call] = "up" THEN installed \cup {j.call} ELSE installed
    /\ UNCHANGED <<lifecycle, native, collectors, deciding, stores, presses, taken, missed>>

doDisconnect(j) ==
    /\ j.kind = "disconnect" /\ JobAlive(j)
    /\ jobs' = jobs \ {j}
    /\ Disconnect({clients[j.peer]})
    /\ clients' = [clients EXCEPT ![j.peer] = None]
    /\ UNCHANGED <<lifecycle, manager, admitting, ringing, collectors, deciding, stores, presses, history>>

-----------------------------------------------------------------------------
(* The sweep                                                                 *)

Sweep ==
    /\ expired = {} /\ \E k \in DOMAIN collectors : Alive(collectors[k].scope)
    /\ \E E \in SUBSET Waiting \ {{}} : expired' = E
    /\ UNCHANGED <<lifecycle, native, collectors, thread, pendingDecisions, clients, jobs, stores, presses, history>>

Swept(c) ==
    /\ c \in expired
    /\ expired' = expired \ {c}
    /\ pendingDecisions' = [pendingDecisions EXCEPT ![ringing[c].peer] = None]
    /\ Complete({c}, "ignore")
    /\ UNCHANGED <<lifecycle, native, collectors, clients, jobs, stores, presses, history>>

-----------------------------------------------------------------------------
(* The user: the companion's functions, and the coroutines they launch       *)

Pressed == service.starts + presses < MaxStarts /\ presses' = presses + 1
Launch(J) == jobs' = jobs \cup J

acceptPending(p) ==
    /\ Pressed /\ service.instance
    /\ \E kind \in {"accept", "allow"} : Launch(Launched(kind, p, None))
    /\ UNCHANGED <<lifecycle, native, collectors, deciding, clients, stores, history>>

rejectPending(p) ==
    /\ Pressed /\ service.instance
    /\ Launch(Launched("reject", p, None))
    /\ UNCHANGED <<lifecycle, native, collectors, deciding, clients, stores, history>>

disconnectClient(p) ==
    /\ Pressed /\ service.instance
    /\ Launch(Launched("disconnect", p, None))
    /\ UNCHANGED <<lifecycle, native, collectors, deciding, clients, stores, history>>

blockClient(p) ==
    /\ Pressed
    /\ allowed' = allowed \ {p}
    /\ jobs' = IF service.instance THEN jobs \cup Launched("disconnect", p, None) ELSE jobs
    /\ UNCHANGED <<lifecycle, native, collectors, deciding, clients, blocked, history>>

\* In the caller's own scope: every client, and once they are gone what is pending.
disconnectAllClients ==
    /\ Pressed /\ service.instance
    /\ Launch({Job("disconnect", 0, p, None) : p \in Connected} \cup {Job("rest", 0, CHOOSE p \in Peers : TRUE, None)})
    /\ UNCHANGED <<lifecycle, native, collectors, deciding, clients, stores, history>>

RejectRest(j) ==
    /\ j.kind = "rest" /\ \A i \in jobs : i.scope = 0 => i.kind = "rest"
    /\ jobs' = jobs \ {j}
    /\ Complete(Waiting, "ignore")
    /\ pendingDecisions' = [p \in Peers |-> None]
    /\ UNCHANGED <<lifecycle, native, collectors, expired, clients, stores, presses, history>>

\* The deferred is taken out of the map, and completed; the capacity is checked again.
doAcceptPending(j) ==
    /\ j.kind \in {"accept", "allow"} /\ JobAlive(j)
    /\ jobs' = jobs \ {j}
    /\ pendingDecisions' = [pendingDecisions EXCEPT ![j.peer] = None]
    /\ LET c == pendingDecisions[j.peer]
           room == Cardinality(Connected) < MaxClients
           add == c # None /\ room /\ j.kind = "allow"
       IN /\ Complete({c}, IF room THEN "accept" ELSE "ignore")
          /\ allowed' = IF add THEN allowed \cup {j.peer} ELSE allowed
          /\ blocked' = IF add THEN blocked \ {j.peer} ELSE blocked
    /\ UNCHANGED <<lifecycle, native, collectors, expired, clients, presses, history>>

doRejectPending(j) ==
    /\ j.kind = "reject" /\ JobAlive(j)
    /\ jobs' = jobs \ {j}
    /\ pendingDecisions' = [pendingDecisions EXCEPT ![j.peer] = None]
    /\ LET c == pendingDecisions[j.peer]
       IN /\ Complete({c}, "reject")
          /\ blocked' = IF c # None THEN blocked \cup {j.peer} ELSE blocked
          /\ allowed' = IF c # None THEN allowed \ {j.peer} ELSE allowed
    /\ UNCHANGED <<lifecycle, native, collectors, expired, clients, presses, history>>

-----------------------------------------------------------------------------
(* stopServer, of the stop command and of onDestroy                          *)

\* The activity sends the stop command only while isRunning, which follows instance.
stopServer(destroy) ==
    /\ stopping = "no" /\ ~service.destroyed /\ service.starts > 0
    /\ destroy \/ service.instance
    /\ manager' = [manager EXCEPT !.open = FALSE]
    /\ Disconnect(IF manager.open THEN {c \in Calls : ringing[c].by = manager.n} ELSE {})
    /\ service' = [service EXCEPT !.instance = FALSE, !.loops = FALSE, !.destroyed = destroy]
    /\ stopping' = "complete"
    /\ UNCHANGED <<scope, admitting, ringing, collectors, deciding, clients, jobs, stores, presses, history>>

StopStep(from, to) == stopping = from /\ stopping' = to /\ UNCHANGED <<service, manager, admitting, ringing, stores, presses, history>>

StopCompletes ==
    /\ StopStep("complete", "clear")
    /\ Complete(Waiting, "ignore")
    /\ UNCHANGED <<scope, session, collectors, pendingDecisions, expired, clients, jobs>>

StopClearsDecisions ==
    /\ StopStep("clear", "disconnect")
    /\ pendingDecisions' = [p \in Peers |-> None]
    /\ UNCHANGED <<scope, session, collectors, thread, expired, clients, jobs>>

StopDisconnects ==
    /\ StopStep("disconnect", "empty")
    /\ Disconnect({clients[p] : p \in Peers})
    /\ UNCHANGED <<scope, collectors, deciding, clients, jobs>>

StopClearsClients ==
    /\ StopStep("empty", "cancel")
    /\ clients' = [p \in Peers |-> None]
    /\ UNCHANGED <<scope, session, collectors, deciding, jobs>>

StopCancels ==
    /\ StopStep("cancel", "no")
    /\ scope' = [scope EXCEPT !.active = FALSE]
    /\ collectors' = [k \in DOMAIN collectors |->
           IF collectors[k].scope = scope.n THEN [collectors[k] EXCEPT !.at = "gone", !.inbox = <<>>] ELSE collectors[k]]
    /\ jobs' = {j \in jobs : j.scope # scope.n \/ j.kind = "install"}
    /\ UNCHANGED <<session, deciding, clients>>

-----------------------------------------------------------------------------
Stop == StopCompletes \/ StopClearsDecisions \/ StopDisconnects \/ StopClearsClients \/ StopCancels
Decider(c) == decideIncoming(c) \/ DropEarlier(c) \/ EnterPending(c) \/ Answered(c) \/ Cancelled(c)
Tunnel(c) == TunnelUp(c) \/ TunnelEnded(c)
Collect(k) == Subscribe(k) \/ SetAdmission(k) \/ handleSession(k) \/ handleSessionEnded(k)
Run(j) == NameFetched(j) \/ InstallClient(j) \/ doDisconnect(j) \/ RejectRest(j) \/ doAcceptPending(j) \/ doRejectPending(j)
User(p) == acceptPending(p) \/ rejectPending(p) \/ disconnectClient(p) \/ blockClient(p)

Work ==
    \/ Stop \/ Sweep
    \/ \E c \in Calls : Decider(c) \/ Tunnel(c) \/ Swept(c)
    \/ \E k \in Starts : Collect(k)
    \/ \E j \in jobs : Run(j)

Next ==
    \/ Work
    \/ onStartCommand \/ \E d \in BOOLEAN : stopServer(d)
    \/ \E p \in Peers : User(p) \/ CallEnded(p) \/ \E c \in Calls : Ring(c, p)
    \/ disconnectAllClients
    \/ \E c \in Calls : TunnelEnds(c)

Spec == Init /\ [][Next]_vars

-----------------------------------------------------------------------------
TypeOK ==
    /\ scope.n \in 1 .. MaxStarts /\ manager.n \in 0 .. MaxStarts
    /\ stopping \in {"no", "complete", "clear", "disconnect", "empty", "cancel"}
    /\ \A c \in Calls : /\ thread[c] \in Answers \cup {"unborn", "start", "enter", "put", "await"}
                        /\ session[c] \in {"unborn", "deciding", "cancelled", "dropped", "dialing", "up", "failing", "ending", "down"}

\* Every Connected of a session this manager was asked about is handled, and handled
\* once, however often Android repeats the start command and however the service is
\* stopped and started (loopsStarted; setAdmission only after the subscription).
TakenOnce == missed = {} /\ \A c \in Calls : taken[c] <= 1

\* The client of p was installed while its tunnel was up, and the tunnel is down.
EndedClient(p) ==
    /\ manager.open /\ clients[p] \in installed
    /\ ringing[clients[p]].by = manager.n /\ session[clients[p]] # "up"

\* Call c, the only one of its caller, waits for a decision.
LoneCall(c) ==
    /\ manager.open /\ thread[c] = "await" /\ ringing[c].asked = manager.n
    /\ \A d \in Calls \ {c} : thread[d] # "unborn" => ringing[d].peer # ringing[c].peer


\* What handleSession says of its cleanup: the manager's Disconnected removes the client,
\* so a running service with nothing left to do has no client whose tunnel is gone.
NoGhostClients ==
    ~ENABLED Work /\ manager.open =>
        \A p \in Peers : clients[p] # None /\ ringing[clients[p]].by = manager.n
                        => session[clients[p]] = "up"

\* What PendingDecision says: a button, the sweep or the end of the call completes the
\* deferred, and the decider resumes.
DecisionsAnswered ==
    ~ENABLED Work /\ manager.open =>
        \A c \in Calls : thread[c] = "await" => ringing[c].asked # manager.n
=============================================================================
