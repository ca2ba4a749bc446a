------------------------------ MODULE WsClient ------------------------------
(***************************************************************************)
(* The Bale WebSocket client (bale-signaling/src/ws.rs): the rule engine    *)
(* that starts and stops the run loop, the run loop itself, and the RPC     *)
(* plumbing that rides on it; with the operations of BaleSignaling          *)
(* (signaling.rs) that push the rule's inputs.                              *)
(*                                                                          *)
(* Setters are application threads.  A setter stores its input and, when    *)
(* the value changed, runs evaluate.  Loops are run_loop tasks: evaluate    *)
(* spawns one and aborts it.  A tokio abort takes effect at the task's next *)
(* await, so an aborted loop that is being polled still runs to that point. *)
(* Callers are rpc_call invocations.                                        *)
(***************************************************************************)
EXTENDS Integers, Sequences

CONSTANTS Setters, Loops, Callers,
          Tokens, NoToken, NoLoop, NoLock,
          AttemptCap,    \* bound on the reconnect counter
          MaxConns,      \* bound on connections opened
          MaxOps         \* bound on the application's calls

ASSUME ActorsAssumption ==
    /\ Setters \cap Loops = {}
    /\ NoLoop \notin Loops
    /\ NoLock \notin Setters \cup Loops
    /\ NoToken \notin Tokens
ASSUME BoundsAssumption == AttemptCap \in Nat /\ MaxConns \in Nat /\ MaxOps \in Nat

VARIABLES
    access_token, user_disconnect, manager_active,   \* the rule's inputs
    stored_token,          \* the token store
    ready, running,
    runloop_handle,        \* the handle slot: a loop or NoLoop
    handle_lock,           \* who holds the slot's mutex
    send_tx,               \* the connection whose sender is installed, 0 for None
    pending,               \* callers with an entry in the pending map
    pc, todo,              \* setters and loops: place, setter calls still to make
    aborted, token, attempt, outcome, conn, greeted,   \* each loop's locals
    rpc, sender,           \* callers: place, the cloned sender
    conns,                 \* history: connections opened so far
    late_conns,            \* history: connections opened by an aborted loop
    ops                    \* history: application calls made so far

inputs == <<access_token, user_disconnect, manager_active, stored_token>>
loopvars == <<aborted, token, attempt, outcome, conn, greeted>>
rpcvars == <<rpc, sender>>
vars == <<inputs, ready, running, runloop_handle, handle_lock, send_tx, pending, pc, todo,
          loopvars, rpcvars, conns, late_conns, ops>>

Actors == Setters \cup Loops
TokenOrNone == Tokens \cup {NoToken}
Outcomes == {"Disconnected", "TokenExpired", "VersionMismatch"}

\* Inside evaluate, holding the handle lock.
Locked == {"reap", "want_token", "want_user", "want_manager", "spawn", "stop"}
\* Between storing a changed input and the end of evaluate's critical section.
Evaluating == {"evaluate"} \cup Locked
\* evaluate's cleanup after it released the lock.
Cleanup == {"clear_sender", "drain_pending"}
\* A loop parked at an await: only here does an abort take effect.
Awaiting == {"start", "connecting", "session", "sleeping"}
\* The loop's own clean-up after a session.
Ending == {"tail_ready", "tail_sender", "tail_drain", "tail_outcome"}
LoopPlaces == Awaiting \cup Ending \cup {"none", "finished", "connected", "handshake"}
Places == {"idle", "call"} \cup Evaluating \cup Cleanup \cup LoopPlaces

\* One setter call: which input, and the value stored.
Set(input, v) == [input |-> input, v |-> v]

\* The rule (ws.rs:877-881).
DesiredUp == access_token # NoToken /\ ~user_disconnect /\ manager_active

Connected(n) == n # 0 /\ \E l \in Loops : conn[l] = n

Init ==
    /\ access_token = NoToken
    /\ stored_token \in TokenOrNone
    /\ user_disconnect = FALSE
    /\ manager_active = TRUE
    /\ ready = FALSE
    /\ running = FALSE
    /\ runloop_handle = NoLoop
    /\ handle_lock = NoLock
    /\ send_tx = 0
    /\ pending = {}
    /\ pc = [a \in Actors |-> IF a \in Loops THEN "none" ELSE "idle"]
    /\ todo = [a \in Actors |-> <<>>]
    /\ aborted = [l \in Loops |-> FALSE]
    /\ token = [l \in Loops |-> NoToken]
    /\ attempt = [l \in Loops |-> 0]
    /\ outcome = [l \in Loops |-> "Disconnected"]
    /\ conn = [l \in Loops |-> 0]
    /\ greeted = [l \in Loops |-> FALSE]
    /\ rpc = [c \in Callers |-> "idle"]
    /\ sender = [c \in Callers |-> 0]
    /\ conns = 0
    /\ late_conns = {}
    /\ ops = 0

Goto(a, place) == pc' = [pc EXCEPT ![a] = place]

\* Where an actor stands once the setter calls `rest` remain: the callback of a
\* terminated loop ends the loop.
Return(a, rest) == IF rest # <<>> THEN "call" ELSE IF a \in Loops THEN "finished" ELSE "idle"

(***************************************************************************)
(* BaleSignaling's lifecycle operations, as the setter calls they make      *)
(***************************************************************************)
AppCall(s, calls) ==
    /\ ops < MaxOps
    /\ ops' = ops + 1
    /\ pc[s] = "idle"
    /\ todo' = [todo EXCEPT ![s] = calls]
    /\ Goto(s, "call")
    /\ UNCHANGED <<inputs, ready, running, runloop_handle, handle_lock, send_tx, pending,
                   loopvars, rpcvars, conns, late_conns>>

\* connect, which starts by loading the stored token.
Connect(s) == AppCall(s, <<Set("connect", NoToken)>>)

\* A sign-in saves the access token it obtained and connects (ui.rs).
SignIn(s, t) == AppCall(s, <<Set("store", t), Set("connect", NoToken)>>)

Disconnect(s) == AppCall(s, <<Set("user_disconnect", TRUE)>>)

SignOut(s) == AppCall(s, <<Set("token", NoToken), Set("store", NoToken)>>)

\* activate / deactivate, pushed by the activation driver.
SetManagerActive(s, active) == AppCall(s, <<Set("manager_active", active)>>)

(***************************************************************************)
(* The setters: store, and evaluate when the value changed                  *)
(***************************************************************************)
Stored(c) ==
    CASE c.input = "token"           -> access_token
      [] c.input = "user_disconnect" -> user_disconnect
      [] c.input = "manager_active"  -> manager_active
      [] c.input = "store"           -> stored_token

Store(c) ==
    /\ access_token'    = IF c.input = "token" THEN c.v ELSE access_token
    /\ user_disconnect' = IF c.input = "user_disconnect" THEN c.v ELSE user_disconnect
    /\ manager_active'  = IF c.input = "manager_active" THEN c.v ELSE manager_active
    /\ stored_token'    = IF c.input = "store" THEN c.v ELSE stored_token

\* Slip: a new token does not re-evaluate the rule.
CallSetter_TokenSilent(a) ==
    /\ pc[a] = "call"
    /\ Head(todo[a]).input # "connect"
    /\ LET c == Head(todo[a])
           evaluates == c.input \notin {"store", "token"} /\ Stored(c) # c.v
       IN  /\ Store(c)
           /\ todo' = [todo EXCEPT ![a] = Tail(@)]
           /\ Goto(a, IF evaluates THEN "evaluate" ELSE Return(a, Tail(todo[a])))
    /\ UNCHANGED <<ready, running, runloop_handle, handle_lock, send_tx, pending,
                   loopvars, rpcvars, conns, late_conns, ops>>

CallSetter(a) ==
    /\ pc[a] = "call"
    /\ Head(todo[a]).input # "connect"
    /\ LET c == Head(todo[a])
           evaluates == c.input # "store" /\ Stored(c) # c.v
       IN  /\ Store(c)
           /\ todo' = [todo EXCEPT ![a] = Tail(@)]
           /\ Goto(a, IF evaluates THEN "evaluate" ELSE Return(a, Tail(todo[a])))
    /\ UNCHANGED <<ready, running, runloop_handle, handle_lock, send_tx, pending,
                   loopvars, rpcvars, conns, late_conns, ops>>

\* connect: NotAuthenticated without a stored token, else two setter calls.
LoadStored(a) ==
    /\ pc[a] = "call"
    /\ Head(todo[a]).input = "connect"
    /\ LET calls == IF stored_token = NoToken THEN <<>>
                    ELSE <<Set("user_disconnect", FALSE), Set("token", stored_token)>>
       IN  todo' = [todo EXCEPT ![a] = calls] /\ Goto(a, Return(a, calls))
    /\ UNCHANGED <<inputs, ready, running, runloop_handle, handle_lock, send_tx, pending,
                   loopvars, rpcvars, conns, late_conns, ops>>

(***************************************************************************)
(* evaluate                                                                 *)
(***************************************************************************)
\* Slip: evaluate without the handle lock.
Lock_Unguarded(a) ==
    /\ pc[a] = "evaluate"
    /\ Goto(a, "reap")
    /\ UNCHANGED <<inputs, ready, running, runloop_handle, handle_lock, send_tx, pending, todo,
                   loopvars, rpcvars, conns, late_conns, ops>>

Lock(a) ==
    /\ pc[a] = "evaluate"
    /\ handle_lock = NoLock
    /\ handle_lock' = a
    /\ Goto(a, "reap")
    /\ UNCHANGED <<inputs, ready, running, runloop_handle, send_tx, pending, todo,
                   loopvars, rpcvars, conns, late_conns, ops>>

\* A finished handle is taken out of the slot.
Reap(a) ==
    /\ pc[a] = "reap"
    /\ IF runloop_handle # NoLoop /\ pc[runloop_handle] = "finished"
       THEN runloop_handle' = NoLoop /\ running' = FALSE /\ ready' = FALSE
       ELSE UNCHANGED <<runloop_handle, running, ready>>
    /\ Goto(a, "want_token")
    /\ UNCHANGED <<inputs, handle_lock, send_tx, pending, todo, loopvars, rpcvars,
                   conns, late_conns, ops>>

\* The rule is settled: start, stop, or release the lock with nothing to do.
Settle(a, want) ==
    \/ want /\ runloop_handle = NoLoop /\ Goto(a, "spawn") /\ UNCHANGED handle_lock
    \/ ~want /\ runloop_handle # NoLoop /\ Goto(a, "stop") /\ UNCHANGED handle_lock
    \/ /\ want = (runloop_handle # NoLoop)
       /\ handle_lock' = NoLock
       /\ Goto(a, Return(a, todo[a]))

\* desired_up: three loads, each after the one before it allowed it.
ReadInput(a, place, holds, next) ==
    /\ pc[a] = place
    /\ \/ ~holds /\ Settle(a, FALSE)
       \/ holds /\ next = "settle" /\ Settle(a, TRUE)
       \/ holds /\ next # "settle" /\ Goto(a, next) /\ UNCHANGED handle_lock
    /\ UNCHANGED <<inputs, ready, running, runloop_handle, send_tx, pending, todo,
                   loopvars, rpcvars, conns, late_conns, ops>>

WantToken(a)   == ReadInput(a, "want_token", access_token # NoToken, "want_user")
WantUser(a)    == ReadInput(a, "want_user", ~user_disconnect, "want_manager")
WantManager(a) == ReadInput(a, "want_manager", manager_active, "settle")

\* (true, false): the token is read again, and copied into the new loop.
Spawn(a) ==
    /\ pc[a] = "spawn"
    /\ \E l \in Loops :
          /\ pc[l] \in {"none", "finished"}
          /\ pc' = [pc EXCEPT ![a] = Return(a, todo[a]), ![l] = "start"]
          /\ token' = [token EXCEPT ![l] = access_token]
          /\ aborted' = [aborted EXCEPT ![l] = FALSE]
          /\ attempt' = [attempt EXCEPT ![l] = 0]
          /\ outcome' = [outcome EXCEPT ![l] = "Disconnected"]
          /\ greeted' = [greeted EXCEPT ![l] = FALSE]
          /\ runloop_handle' = l
    /\ running' = TRUE
    /\ handle_lock' = NoLock
    /\ UNCHANGED <<inputs, ready, send_tx, pending, todo, conn, rpcvars, conns,
                   late_conns, ops>>

\* (false, true): flags down, the handle taken and aborted, the lock released.
Stop(a) ==
    /\ pc[a] = "stop"
    /\ running' = FALSE
    /\ ready' = FALSE
    /\ aborted' = [aborted EXCEPT ![runloop_handle] = TRUE]
    /\ runloop_handle' = NoLoop
    /\ handle_lock' = NoLock
    /\ Goto(a, "clear_sender")
    /\ UNCHANGED <<inputs, send_tx, pending, todo, token, attempt, outcome, conn, greeted,
                   rpcvars, conns, late_conns, ops>>

\* Slip: the dead sender stays installed while pending is drained.
ClearSender_Forgotten(a) ==
    /\ pc[a] = "clear_sender"
    /\ Goto(a, "drain_pending")
    /\ UNCHANGED <<inputs, ready, running, runloop_handle, handle_lock, send_tx, pending, todo,
                   loopvars, rpcvars, conns, late_conns, ops>>

ClearSender(a) ==
    /\ pc[a] = "clear_sender"
    /\ send_tx' = 0
    /\ Goto(a, "drain_pending")
    /\ UNCHANGED <<inputs, ready, running, runloop_handle, handle_lock, pending, todo,
                   loopvars, rpcvars, conns, late_conns, ops>>

DrainPending(a) ==
    /\ pc[a] = "drain_pending"
    /\ pending' = {}
    /\ Goto(a, Return(a, todo[a]))
    /\ UNCHANGED <<inputs, ready, running, runloop_handle, handle_lock, send_tx, todo,
                   loopvars, rpcvars, conns, late_conns, ops>>

Evaluate(a) ==
    \/ LoadStored(a) \/ CallSetter(a) \/ Lock(a) \/ Reap(a) \/ WantToken(a) \/ WantUser(a) \/ WantManager(a)
    \/ Spawn(a) \/ Stop(a) \/ ClearSender(a) \/ DrainPending(a)

(***************************************************************************)
(* run_loop and attempt_session                                             *)
(***************************************************************************)
\* The test at the head of the loop: a new attempt, or the end.
Again(l) == Goto(l, IF running THEN "connecting" ELSE "finished")

Start(l) ==
    /\ pc[l] \in {"start", "sleeping"}
    /\ ~aborted[l]
    /\ Again(l)
    /\ greeted' = [greeted EXCEPT ![l] = FALSE]
    /\ outcome' = [outcome EXCEPT ![l] = "Disconnected"]
    /\ UNCHANGED <<inputs, ready, running, runloop_handle, handle_lock, send_tx, pending, todo,
                   aborted, token, attempt, conn, rpcvars, conns, late_conns, ops>>

\* The connection could not be opened, or an open one came to its end.  Leaving
\* attempt_session aborts its writer, liveness and keepalive tasks.
EndSession(l, why) ==
    /\ pc[l] \in {"connecting", "session"}
    /\ ~aborted[l]
    /\ why = "VersionMismatch" => pc[l] = "session"
    /\ outcome' = [outcome EXCEPT ![l] = why]
    /\ conn' = [conn EXCEPT ![l] = 0]
    /\ Goto(l, "tail_ready")
    /\ UNCHANGED <<inputs, ready, running, runloop_handle, handle_lock, send_tx, pending, todo,
                   aborted, token, attempt, greeted, rpcvars, conns, late_conns, ops>>

ConnectOk(l) ==
    /\ pc[l] = "connecting"
    /\ ~aborted[l]
    /\ conns < MaxConns
    /\ conns' = conns + 1
    /\ conn' = [conn EXCEPT ![l] = conns + 1]
    /\ Goto(l, "connected")
    /\ UNCHANGED <<inputs, ready, running, runloop_handle, handle_lock, send_tx, pending, todo,
                   aborted, token, attempt, outcome, greeted, rpcvars, late_conns, ops>>

InstallSender(l) ==
    /\ pc[l] = "connected"
    /\ send_tx' = conn[l]
    /\ late_conns' = IF aborted[l] THEN late_conns \cup {conn[l]} ELSE late_conns
    /\ Goto(l, "session")
    /\ UNCHANGED <<inputs, ready, running, runloop_handle, handle_lock, pending, todo,
                   loopvars, rpcvars, conns, ops>>

\* The server's handshake frame arrives; its handler then raises `ready`.
HandshakeFrame(l) ==
    /\ pc[l] = "session"
    /\ ~aborted[l]
    /\ ~greeted[l]
    /\ Goto(l, "handshake")
    /\ UNCHANGED <<inputs, ready, running, runloop_handle, handle_lock, send_tx, pending, todo,
                   loopvars, rpcvars, conns, late_conns, ops>>

SetReady(l) ==
    /\ pc[l] = "handshake"
    /\ ready' = TRUE
    /\ greeted' = [greeted EXCEPT ![l] = TRUE]
    /\ Goto(l, "session")
    /\ UNCHANGED <<inputs, running, runloop_handle, handle_lock, send_tx, pending, todo,
                   aborted, token, attempt, outcome, conn, rpcvars, conns, late_conns, ops>>

\* dispatch_rpc_response: the entry is removed and its caller completed.
RpcResponse(l, c) ==
    /\ pc[l] = "session"
    /\ ~aborted[l]
    /\ rpc[c] = "wait" /\ sender[c] = conn[l] /\ c \in pending
    /\ pending' = pending \ {c}
    /\ UNCHANGED <<inputs, ready, running, runloop_handle, handle_lock, send_tx, pc, todo,
                   loopvars, rpcvars, conns, late_conns, ops>>

\* After attempt_session: ready down, sender out, pending drained, in this order.
TailReady(l) ==
    /\ pc[l] = "tail_ready"
    /\ ready' = FALSE
    /\ Goto(l, "tail_sender")
    /\ UNCHANGED <<inputs, running, runloop_handle, handle_lock, send_tx, pending, todo,
                   loopvars, rpcvars, conns, late_conns, ops>>

TailSender(l) ==
    /\ pc[l] = "tail_sender"
    /\ send_tx' = 0
    /\ Goto(l, "tail_drain")
    /\ UNCHANGED <<inputs, ready, running, runloop_handle, handle_lock, pending, todo,
                   loopvars, rpcvars, conns, late_conns, ops>>

TailDrain(l) ==
    /\ pc[l] = "tail_drain"
    /\ pending' = {}
    /\ Goto(l, "tail_outcome")
    /\ UNCHANGED <<inputs, ready, running, runloop_handle, handle_lock, send_tx, todo,
                   loopvars, rpcvars, conns, late_conns, ops>>

Capped(n) == IF n < AttemptCap THEN n + 1 ELSE n

\* The token-expired callback clears the store and then the token, on this
\* task; a version mismatch ends the loop; anything else sleeps and retries.
TailOutcome(l) ==
    /\ pc[l] = "tail_outcome"
    /\ \/ /\ outcome[l] = "TokenExpired"
          /\ todo' = [todo EXCEPT ![l] = <<Set("store", NoToken), Set("token", NoToken)>>]
          /\ Goto(l, "call")
          /\ UNCHANGED attempt
       \/ /\ outcome[l] = "VersionMismatch" \/ (outcome[l] = "Disconnected" /\ ~running)
          /\ Goto(l, "finished")
          /\ UNCHANGED <<todo, attempt>>
       \/ /\ outcome[l] = "Disconnected" /\ running
          /\ attempt' = [attempt EXCEPT ![l] = Capped(@)]
          /\ Goto(l, "sleeping")
          /\ UNCHANGED todo
    /\ UNCHANGED <<inputs, ready, running, runloop_handle, handle_lock, send_tx, pending,
                   aborted, token, outcome, conn, greeted, rpcvars, conns, late_conns, ops>>

\* An aborted loop at an await: the future and its connection are dropped.
Cancel(l) ==
    /\ pc[l] \in Awaiting
    /\ aborted[l]
    /\ conn' = [conn EXCEPT ![l] = 0]
    /\ Goto(l, "finished")
    /\ UNCHANGED <<inputs, ready, running, runloop_handle, handle_lock, send_tx, pending, todo,
                   aborted, token, attempt, outcome, greeted, rpcvars, conns, late_conns, ops>>

\* Steps a polled loop takes without waiting for the network.
Polled(l) ==
    \/ InstallSender(l) \/ SetReady(l)
    \/ TailReady(l) \/ TailSender(l) \/ TailDrain(l) \/ TailOutcome(l)

(***************************************************************************)
(* rpc_call                                                                 *)
(***************************************************************************)
RpcGoto(c, place) == rpc' = [rpc EXCEPT ![c] = place]

RpcInsert(c) ==
    /\ rpc[c] = "idle"
    /\ pending' = pending \cup {c}
    /\ RpcGoto(c, "clone")
    /\ UNCHANGED <<inputs, ready, running, runloop_handle, handle_lock, send_tx, pc, todo,
                   loopvars, sender, conns, late_conns, ops>>

\* The call returns: its entry is removed on every path.
RpcReturn(c) ==
    /\ pending' = pending \ {c}
    /\ sender' = [sender EXCEPT ![c] = 0]
    /\ RpcGoto(c, "idle")

\* The installed sender is cloned; without one the call is NotConnected.
RpcClone(c) ==
    /\ rpc[c] = "clone"
    /\ \/ /\ send_tx # 0
          /\ sender' = [sender EXCEPT ![c] = send_tx]
          /\ RpcGoto(c, "send")
          /\ UNCHANGED pending
       \/ send_tx = 0 /\ RpcReturn(c)
    /\ UNCHANGED <<inputs, ready, running, runloop_handle, handle_lock, send_tx, pc, todo,
                   loopvars, conns, late_conns, ops>>

\* A sender whose connection is gone refuses the frame: NotConnected.
RpcSend(c) ==
    /\ rpc[c] = "send"
    /\ \/ Connected(sender[c]) /\ RpcGoto(c, "wait") /\ UNCHANGED <<pending, sender>>
       \/ ~Connected(sender[c]) /\ RpcReturn(c)
    /\ UNCHANGED <<inputs, ready, running, runloop_handle, handle_lock, send_tx, pc, todo,
                   loopvars, conns, late_conns, ops>>

\* The oneshot completed, was dropped by a drain, or timed out.
RpcFinish(c) ==
    /\ rpc[c] = "wait"
    /\ RpcReturn(c)
    /\ UNCHANGED <<inputs, ready, running, runloop_handle, handle_lock, send_tx, pc, todo,
                   loopvars, conns, late_conns, ops>>

Next ==
    \/ \E s \in Setters :
          \/ \E t \in Tokens : SignIn(s, t)
          \/ Connect(s)
          \/ Disconnect(s)
          \/ SignOut(s)
          \/ \E active \in BOOLEAN : SetManagerActive(s, active)
    \/ \E a \in Actors : Evaluate(a)
    \/ \E l \in Loops :
          \/ Start(l) \/ ConnectOk(l) \/ HandshakeFrame(l) \/ Polled(l) \/ Cancel(l)
          \/ \E why \in Outcomes : EndSession(l, why)
          \/ \E c \in Callers : RpcResponse(l, c)
    \/ \E c \in Callers : RpcInsert(c) \/ RpcClone(c) \/ RpcSend(c) \/ RpcFinish(c)

\* A call that has begun runs to its end, a polled task to its next await, and
\* an aborted task is dropped.  Nothing is promised of the network, of the
\* application or of RPC replies.
Fairness ==
    /\ \A a \in Actors : WF_vars(Evaluate(a))
    /\ \A l \in Loops : WF_vars(Polled(l)) /\ WF_vars(Cancel(l))

Spec == Init /\ [][Next]_vars /\ Fairness

-----------------------------------------------------------------------------
(***************************************************************************)
(* Properties                                                               *)
(***************************************************************************)
\* Every variable keeps its type (WsClient, ws.rs:548-622, and the locals of
\* run_loop, rpc_call and evaluate).
TypeOK ==
    /\ access_token \in TokenOrNone
    /\ stored_token \in TokenOrNone
    /\ user_disconnect \in BOOLEAN
    /\ manager_active \in BOOLEAN
    /\ ready \in BOOLEAN
    /\ running \in BOOLEAN
    /\ runloop_handle \in Loops \cup {NoLoop}
    /\ handle_lock \in Actors \cup {NoLock}
    /\ send_tx \in 0 .. MaxConns
    /\ pending \subseteq Callers
    /\ pc \in [Actors -> Places]
    /\ aborted \in [Loops -> BOOLEAN]
    /\ token \in [Loops -> TokenOrNone]
    /\ attempt \in [Loops -> 0 .. AttemptCap]
    /\ outcome \in [Loops -> Outcomes]
    /\ conn \in [Loops -> 0 .. MaxConns]
    /\ greeted \in [Loops -> BOOLEAN]
    /\ rpc \in [Callers -> {"idle", "clone", "send", "wait"}]
    /\ sender \in [Callers -> 0 .. MaxConns]

\* No thread stands between storing an input and the end of its evaluate.
NoneEvaluating == \A a \in Actors : pc[a] \notin Evaluating

Live(l) == pc[l] \notin {"none", "finished"}

\* Whatever the interleaving of setters, the latest inputs win: with no evaluate
\* under way a run loop is in the slot exactly when the rule wants one.  This is
\* the claim of evaluate's lock discipline (ws.rs:886-892).
RuleWins == NoneEvaluating => ((runloop_handle # NoLoop) <=> DesiredUp)

\* There is never a run loop the rule engine has lost: every loop that is neither
\* finished nor told to stop is the one in the slot (ws.rs:900-941).
NoStrayLoop == \A l \in Loops : Live(l) /\ ~aborted[l] => runloop_handle = l

\* The run loop is the rule's: wanted when it runs, running when it is wanted, and the
\* only one.  evaluate holds its lock over reading the rule and acting on it.
LoopIsTheRules == RuleWins /\ NoStrayLoop

\* An RPC whose frame went out never stays in the pending map of a connection
\* that is gone with no clean-up on its way: clearing the sender before draining
\* the map leaves no gap (ws.rs:1306-1309, 935-937).  Connections a loop opened
\* after its abort are excluded here, see PromptError.
DrainCovers ==
    \A c \in Callers :
       rpc[c] = "wait" /\ c \in pending /\ sender[c] \notin late_conns =>
          \/ Connected(sender[c])
          \/ \E a \in Actors : pc[a] \in Cleanup \cup {"tail_ready", "tail_sender", "tail_drain"}

\* Once the application stops calling, the engine comes to rest in the state the
\* rule asks for, and every loop it stopped is gone.
Settles ==
    <>[](/\ NoneEvaluating
         /\ (runloop_handle # NoLoop) <=> DesiredUp
         /\ \A l \in Loops : Live(l) => runloop_handle = l)

(***************************************************************************)
(* Claims of the comments that the code does not keep                       *)
(***************************************************************************)
\* drain_pending: callers on a dropped WS "get a prompt error instead of waiting
\* for their 30 s timeout" (ws.rs:734-737).
PromptError ==
    \A c \in Callers :
       rpc[c] = "wait" /\ c \in pending =>
          \/ Connected(sender[c])
          \/ \E a \in Actors : pc[a] \in Cleanup \cup {"tail_ready", "tail_sender", "tail_drain"}

\* is_connected "Reflects the WS handshake-completed state" (signaling.rs:399-401):
\* with nothing in progress, ready implies that there is a loop at all.
ReadyMeansUp ==
    NoneEvaluating /\ (\A a \in Actors : pc[a] \notin Cleanup \cup Ending) /\ ready
       => runloop_handle # NoLoop

\* "Without reaping here, a subsequent re-auth would see (want=true, slot=Some)
\* and treat the dead loop as alive - no new loop spawns, WS stays down forever"
\* (ws.rs:894-899): at rest, a loop that ended on an expired token is not what
\* the slot holds while the rule wants the WebSocket up.
ReauthRevives ==
    NoneEvaluating /\ runloop_handle # NoLoop /\ pc[runloop_handle] = "finished"
       => outcome[runloop_handle] # "TokenExpired"

\* is_attempting_connect is "True while the run loop is spawned (active connect
\* attempt or retry-backoff in flight)" (ws.rs:808-813): never once the loop is gone.
AttemptingMeansLoop ==
    NoneEvaluating /\ running /\ ~ready => \E l \in Loops : Live(l)

\* "the run loop can read [the latest access token] on reconnect" (ws.rs:618-620):
\* an attempt that starts while a token is set uses that token.
ReconnectsWithLatestToken ==
    [][\A l \in Loops :
          pc[l] = "sleeping" /\ pc'[l] = "connecting" /\ access_token # NoToken
             => token[l] = access_token]_vars

\* "Reset to 0 on successful handshake" (ws.rs:1330-1331): the sleep after a
\* session that completed its handshake is the first step of the backoff.
BackoffResets ==
    \A l \in Loops : pc[l] = "sleeping" /\ greeted[l] => attempt[l] = 1
=============================================================================
