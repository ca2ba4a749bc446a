----------------------------- MODULE DaemonMode -----------------------------
(***************************************************************************)
(* The desktop daemon's mode loop: run_mode, run_client with the manager, the*)
(* call and the watcher it makes, teardown_mode, and the HTTP handlers that  *)
(* race them: /config, /tunnel/disconnect, /logout, sign-in, /connect and    *)
(* /disconnect.                                                              *)
(* Server mode is one parked place here; module ServerApp has it in full.    *)
(*                                                                           *)
(* A handler is a sequence of steps, and run_client can be dropped wherever  *)
(* it awaits.                                                                *)
(***************************************************************************)
EXTENDS Integers

CONSTANTS Requests,   \* HTTP requests, one handler each
          Servers,    \* peers the user can select
          None,
          MaxEnds     \* bound on calls that end by themselves

Modes == {"client", "server"}

VARIABLES
    token,            \* the token store holds one
    user_disconnect,  \* WsClient's sticky flag
    cfg,              \* Resolved.mode and Resolved.peer_id
    pinned,           \* --mode was given
    changed,          \* mode_rx has not seen the last send
    loop,             \* where run_mode is, and the mode it has picked
    client,           \* where run_client is, and the peer it read
    call,             \* the manager's call: "none", "dialing", "up", "over"
    heard,            \* run_client's or its watcher's unread event of the call
    lk_done,          \* the watcher has fired
    published,        \* ClientState holds the tunnel
    handler,          \* per request: what it is, where it is
    ends,
    connects, failed  \* history: peers the user selected; dials that ended in an error

http == <<handler, connects>>
session == <<call, heard, lk_done, ends>>
vars == <<token, user_disconnect, cfg, pinned, changed, loop, client, session, published, http, failed>>

NoHandler == [at |-> "unborn", kind |-> "none", mode |-> None, peer |-> None]

Init ==
    /\ token \in BOOLEAN /\ user_disconnect = FALSE
    /\ pinned \in BOOLEAN
    /\ cfg \in [mode : Modes \cup {None}, peer : {None}]
    /\ pinned => cfg.mode # None
    /\ changed = FALSE
    /\ loop = [at |-> "auth", mode |-> None]
    /\ client = [at |-> "off", peer |-> None]
    /\ call = "none" /\ heard = "nothing" /\ lk_done = FALSE /\ ends = 0
    /\ published = FALSE
    /\ handler = [r \in Requests |-> NoHandler]
    /\ connects = 0 /\ failed = 0

-----------------------------------------------------------------------------
(* run_mode                                                                  *)

Loop(from, to) == loop.at = from /\ loop' = [loop EXCEPT !.at = to]

\* is_authenticated, polled.
Authenticated ==
    /\ Loop("auth", "connect") /\ token
    /\ UNCHANGED <<token, user_disconnect, cfg, pinned, changed, client, session, published, http, failed>>

\* signaling.connect(): without a token it is an error and the loop starts over; with
\* one the WebSocket is asked for, and waited for only so long.
ConnectWs ==
    /\ loop.at = "connect"
    /\ loop' = [loop EXCEPT !.at = IF token THEN "choose" ELSE "auth"]
    /\ user_disconnect' = (user_disconnect /\ ~token)
    /\ UNCHANGED <<token, cfg, pinned, changed, client, session, published, http, failed>>

ChooseMode ==
    /\ loop.at = "choose"
    /\ loop' = IF cfg.mode = None THEN [at |-> "wait", mode |-> None] ELSE [at |-> "run", mode |-> cfg.mode]
    /\ client' = IF cfg.mode = "client" THEN [client EXCEPT !.at = "start"] ELSE client
    /\ UNCHANGED <<token, user_disconnect, cfg, pinned, changed, session, published, http, failed>>

ModePicked ==
    /\ Loop("wait", "auth") /\ changed
    /\ changed' = FALSE
    /\ UNCHANGED <<token, user_disconnect, cfg, pinned, client, session, published, http, failed>>

\* Dropping the manager hangs its call up.
HungUp == IF call \in {"dialing", "up"} THEN "over" ELSE call

\* The select!: mode_rx.changed() drops run_one_mode wherever it awaits.
Awaits == {"start", "parked", "resolve", "place", "recv", "socks5", "done"}
ModeChanged ==
    /\ Loop("run", "teardown") /\ changed
    /\ loop.mode = "client" => client.at \in Awaits
    /\ changed' = FALSE
    /\ client' = [at |-> "off", peer |-> None]
    /\ call' = HungUp /\ heard' = "nothing" /\ lk_done' = FALSE
    /\ UNCHANGED <<token, user_disconnect, cfg, pinned, ends, published, http, failed>>

\* run_client has returned; after an error the peer is cleared.
ClientEndedWith(peer) ==
    /\ Loop("run", "teardown") /\ client.at \in {"ok", "error"}
    /\ cfg' = [cfg EXCEPT !.peer = IF client.at = "error" THEN peer ELSE @]
    /\ failed' = IF client.at = "error" THEN failed + 1 ELSE failed
    /\ client' = [at |-> "off", peer |-> None]
    /\ call' = HungUp /\ heard' = "nothing" /\ lk_done' = FALSE
    /\ UNCHANGED <<token, user_disconnect, pinned, changed, ends, published, http>>

\* Slip: the peer stays configured.
ClientEnded_KeepsPeer == ClientEndedWith(cfg.peer)
ClientEnded == ClientEndedWith(None)

teardown_mode ==
    /\ Loop("teardown", "auth")
    /\ published' = FALSE
    /\ call' = "none"
    /\ UNCHANGED <<token, user_disconnect, cfg, pinned, changed, client, heard, lk_done, ends, http, failed>>

-----------------------------------------------------------------------------
(* run_client                                                                *)

Client(from, to) == client.at = from /\ client' = [client EXCEPT !.at = to]

ReadPeer ==
    /\ client.at = "start"
    /\ client' = [at |-> IF cfg.peer = None THEN "parked" ELSE "resolve", peer |-> cfg.peer]
    /\ UNCHANGED <<token, user_disconnect, cfg, pinned, changed, loop, session, published, http, failed>>

resolve_peer ==
    /\ \/ Client("resolve", "place")
       \/ Client("resolve", "error")
    /\ UNCHANGED <<token, user_disconnect, cfg, pinned, changed, loop, session, published, http, failed>>

\* The manager is made and subscribed to first; every PlaceCallError is an error.
place_call ==
    /\ \/ Client("place", "recv") /\ call' = "dialing"
       \/ Client("place", "error") /\ UNCHANGED call
    /\ UNCHANGED <<token, user_disconnect, cfg, pinned, changed, loop, heard, lk_done, ends, published, http, failed>>

\* The manager's events for this peer, one unread at a time: Connected is read before the
\* end of the call can matter, and an end that comes first is the only event.
CallUp ==
    /\ call = "dialing" /\ call' = "up"
    /\ UNCHANGED <<token, user_disconnect, cfg, pinned, changed, loop, client, heard, lk_done, ends, published, http, failed>>

CallOver ==
    /\ call \in {"dialing", "up"} /\ ends < MaxEnds
    /\ call' = "over" /\ ends' = ends + 1
    /\ heard' = IF call = "up" /\ client.at = "recv" THEN "both" ELSE "end"
    /\ UNCHANGED <<token, user_disconnect, cfg, pinned, changed, loop, client, lk_done, published, http, failed>>

Recv ==
    /\ client.at = "recv"
    /\ \/ call = "up" /\ client' = [client EXCEPT !.at = "socks5"] /\ UNCHANGED heard
       \/ heard = "both" /\ client' = [client EXCEPT !.at = "socks5"] /\ heard' = "end"
       \/ heard = "end" /\ client' = [client EXCEPT !.at = "error"] /\ heard' = "nothing"
    /\ UNCHANGED <<token, user_disconnect, cfg, pinned, changed, loop, call, lk_done, ends, published, http, failed>>

\* The watcher, spawned before the listener is enabled.
WatcherFires ==
    /\ client.at \in {"socks5", "publish", "done"} /\ heard = "end"
    /\ heard' = "nothing" /\ lk_done' = TRUE
    /\ UNCHANGED <<token, user_disconnect, cfg, pinned, changed, loop, client, call, ends, published, http, failed>>

EnableSocks5 ==
    /\ \/ Client("socks5", "publish")
       \/ Client("socks5", "error")
    /\ UNCHANGED <<token, user_disconnect, cfg, pinned, changed, loop, session, published, http, failed>>

\* The TUN device, whose failure is only logged, and set_tunnel.
SetTunnel ==
    /\ Client("publish", "done")
    /\ published' = TRUE
    /\ UNCHANGED <<token, user_disconnect, cfg, pinned, changed, loop, session, http, failed>>

LkDone ==
    /\ Client("done", "ok") /\ lk_done
    /\ published' = FALSE
    /\ UNCHANGED <<token, user_disconnect, cfg, pinned, changed, loop, session, http, failed>>

run_client ==
    \/ ReadPeer \/ resolve_peer \/ place_call \/ Recv \/ WatcherFires \/ EnableSocks5 \/ SetTunnel \/ LkDone

-----------------------------------------------------------------------------
(* The HTTP handlers                                                         *)

Handler(kind, m, p) == [at |-> "cfg", kind |-> kind, mode |-> m, peer |-> p]
Bodies == {Handler("config", m, p) : m \in Modes \cup {None}, p \in Servers \cup {None}}
Others == {Handler(k, None, None) : k \in {"end_call", "logout", "login", "connect", "disconnect"}}

Arrives(r) ==
    /\ handler[r] = NoHandler
    /\ \E h \in Bodies \cup Others : handler' = [handler EXCEPT ![r] = h]
    /\ UNCHANGED <<token, user_disconnect, cfg, pinned, changed, loop, client, session, published, connects, failed>>

Goes(r, kind, to) ==
    /\ handler[r].at = "cfg" /\ handler[r].kind = kind
    /\ handler' = [handler EXCEPT ![r].at = to]

\* What it names is stored; the loop is told only of what is new.
SetConfigWith(r, tells) ==
    LET m == handler[r].mode
        p == handler[r].peer
        new == (m # None /\ m # cfg.mode) \/ (p # None /\ p # cfg.peer)
    IN /\ Goes(r, "config", IF new /\ tells THEN "send" ELSE "done")
       /\ cfg' = [mode |-> IF m = None THEN cfg.mode ELSE m, peer |-> IF p = None THEN cfg.peer ELSE p]
       /\ connects' = IF p = None THEN connects ELSE connects + 1
       /\ UNCHANGED <<token, user_disconnect, pinned, changed, loop, client, session, published, failed>>

set_config(r) == SetConfigWith(r, TRUE)

tunnel_disconnect(r) ==
    /\ Goes(r, "end_call", "send")
    /\ cfg' = [cfg EXCEPT !.peer = None]
    /\ UNCHANGED <<token, user_disconnect, pinned, changed, loop, client, session, published, connects, failed>>

\* sign_out, and then the mode, unless the command line fixed it.
logout(r) ==
    /\ Goes(r, "logout", "mode")
    /\ token' = FALSE
    /\ UNCHANGED <<user_disconnect, cfg, pinned, changed, loop, client, session, published, connects, failed>>

LogoutMode(r) ==
    /\ handler[r].at = "mode"
    /\ handler' = [handler EXCEPT ![r].at = "send"]
    /\ cfg' = [cfg EXCEPT !.mode = IF pinned THEN @ ELSE None]
    /\ UNCHANGED <<token, user_disconnect, pinned, changed, loop, client, session, published, connects, failed>>

SendMode(r) ==
    /\ handler[r].at = "send"
    /\ handler' = [handler EXCEPT ![r].at = "done"]
    /\ changed' = TRUE
    /\ UNCHANGED <<token, user_disconnect, cfg, pinned, loop, client, session, published, connects, failed>>

persist_outcome(r) ==
    /\ Goes(r, "login", "done")
    /\ token' = TRUE /\ user_disconnect' = FALSE
    /\ UNCHANGED <<cfg, pinned, changed, loop, client, session, published, connects, failed>>

\* /connect without a pasted token; with one it is a sign-in.
connect(r) ==
    /\ Goes(r, "connect", "done")
    /\ user_disconnect' = (user_disconnect /\ ~token)
    /\ UNCHANGED <<token, cfg, pinned, changed, loop, client, session, published, connects, failed>>

disconnect(r) ==
    /\ Goes(r, "disconnect", "done")
    /\ user_disconnect' = TRUE
    /\ UNCHANGED <<token, cfg, pinned, changed, loop, client, session, published, connects, failed>>

-----------------------------------------------------------------------------
run_mode == Authenticated \/ ConnectWs \/ ChooseMode \/ ModePicked \/ ModeChanged \/ ClientEnded \/ teardown_mode

Handles(r) ==
    set_config(r) \/ tunnel_disconnect(r) \/ logout(r) \/ LogoutMode(r) \/ SendMode(r) \/ persist_outcome(r) \/ connect(r) \/ disconnect(r)

\* What goes on by itself.
Work == run_mode \/ run_client \/ CallUp \/ \E r \in Requests : Handles(r)

Next == Work \/ CallOver \/ \E r \in Requests : Arrives(r)

Spec == Init /\ [][Next]_vars

-----------------------------------------------------------------------------
TypeOK ==
    /\ loop.at \in {"auth", "connect", "choose", "wait", "run", "teardown"} /\ loop.mode \in Modes \cup {None}
    /\ client.at \in Awaits \cup {"off", "publish", "ok", "error"}
    /\ call \in {"none", "dialing", "up", "over"} /\ heard \in {"nothing", "both", "end"}

\* A peer that cannot be reached is not dialled over and over: however handlers and the
\* loop interleave, every dial that fails has a selection of the user of its own
\* (run_mode clears the peer after an error; nothing is dialled at start).
NoTightLoop == failed <= connects


\* "Sticky 'user disconnected'": the flag stays until somebody asks for a connection.
StickyDisconnect ==
    [][user_disconnect /\ ~user_disconnect' => \E r \in Requests : persist_outcome(r) \/ connect(r)]_vars
=============================================================================
