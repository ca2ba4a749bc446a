--------------------------- MODULE WsSubscription ---------------------------
(***************************************************************************)
(* The update subscription of the Bale WebSocket (ws.rs): the run loop       *)
(* subscribes after each handshake, re-subscribes when the server rotates    *)
(* the stream, and after a failure re-subscribes from a detached task that   *)
(* sleeps first.  A reply belongs to the subscription only when it carries   *)
(* subscribe_idx, the index of the latest SubscribeToUpdates.                *)
(***************************************************************************)
EXTENDS Integers, Sequences, FiniteSets

CONSTANTS MaxConns,     \* bound on connections
          MaxIdx,       \* bound on RPC indices
          MaxInbox      \* bound on frames in flight

VARIABLES
    conn, conns,       \* the connection that is up (0: none); connections so far
    greeted,           \* this connection has completed its handshake
    rpc_idx,           \* the shared index counter
    subscribe_idx,
    subscribe_backoff, \* seconds
    streams,           \* streams the server keeps open for this connection
    inbox,             \* frames on their way to the reader, in order
    resubs             \* detached re-subscribe tasks

vars == <<conn, conns, greeted, rpc_idx, subscribe_idx, subscribe_backoff, streams, inbox, resubs>>

Kinds == {"rotation", "push", "failed"}
Frame(i, kind) == [idx |-> i, kind |-> kind]

\* A task sleeps, then takes an index, then publishes and sends it; idx 0: asleep.
Task(c, i, delay) == [conn |-> c, idx |-> i, delay |-> delay]

\* First failure 1 s, then doubled up to 30 s.
NextBackoff(prev) == IF prev = 0 THEN 1 ELSE IF 2 * prev < 30 THEN 2 * prev ELSE 30

Init ==
    /\ conn = 0 /\ conns = 0
    /\ greeted = FALSE
    /\ rpc_idx = 1
    /\ subscribe_idx = -1
    /\ subscribe_backoff = 0
    /\ streams = {}
    /\ inbox = <<>>
    /\ resubs = {}

\* attempt_session: the backoff starts afresh with the connection.
Open ==
    /\ conn = 0
    /\ conns < MaxConns
    /\ conn' = conns + 1
    /\ conns' = conns + 1
    /\ subscribe_backoff' = 0
    /\ UNCHANGED <<greeted, rpc_idx, subscribe_idx, streams, inbox, resubs>>

\* The connection is lost; the detached tasks are not.
Close ==
    /\ conn # 0
    /\ conn' = 0
    /\ greeted' = FALSE
    /\ streams' = {}
    /\ inbox' = <<>>
    /\ UNCHANGED <<conns, rpc_idx, subscribe_idx, subscribe_backoff, resubs>>

\* SubscribeToUpdates from the reader: a fresh index, published, sent.
Subscribe ==
    /\ rpc_idx <= MaxIdx
    /\ rpc_idx' = rpc_idx + 1
    /\ subscribe_idx' = rpc_idx
    /\ streams' = streams \cup {rpc_idx}

Handshake ==
    /\ conn # 0
    /\ ~greeted
    /\ greeted' = TRUE
    /\ Subscribe
    /\ UNCHANGED <<conn, conns, subscribe_backoff, inbox, resubs>>

\* The server pushes on a stream or ends it, with code 4 or with an error.
ServerFrame(i, kind) ==
    /\ i \in streams
    /\ Len(inbox) < MaxInbox
    /\ inbox' = Append(inbox, Frame(i, kind))
    /\ streams' = IF kind = "push" THEN streams ELSE streams \ {i}
    /\ UNCHANGED <<conn, conns, greeted, rpc_idx, subscribe_idx, subscribe_backoff, resubs>>

\* dispatch_rpc_response: is the frame at the head the subscription's?
Recognised == Head(inbox).idx = subscribe_idx

DropFrame ==
    /\ inbox # <<>>
    /\ ~Recognised
    /\ inbox' = Tail(inbox)
    /\ UNCHANGED <<conn, conns, greeted, rpc_idx, subscribe_idx, subscribe_backoff, streams, resubs>>

Rotation ==
    /\ inbox # <<>>
    /\ Recognised
    /\ Head(inbox).kind = "rotation"
    /\ inbox' = Tail(inbox)
    /\ Subscribe
    /\ UNCHANGED <<conn, conns, greeted, subscribe_backoff, resubs>>

Push ==
    /\ inbox # <<>>
    /\ Recognised
    /\ Head(inbox).kind = "push"
    /\ inbox' = Tail(inbox)
    /\ subscribe_backoff' = 0
    /\ UNCHANGED <<conn, conns, greeted, rpc_idx, subscribe_idx, streams, resubs>>

Failed ==
    /\ inbox # <<>>
    /\ Recognised
    /\ Head(inbox).kind = "failed"
    /\ inbox' = Tail(inbox)
    /\ subscribe_backoff' = NextBackoff(subscribe_backoff)
    /\ resubs' = resubs \cup {Task(conn, 0, NextBackoff(subscribe_backoff))}
    /\ UNCHANGED <<conn, conns, greeted, rpc_idx, subscribe_idx, streams>>

\* The detached task: woken, it takes an index ...
ResubWake(t) ==
    /\ t \in resubs /\ t.idx = 0
    /\ rpc_idx <= MaxIdx
    /\ rpc_idx' = rpc_idx + 1
    /\ resubs' = (resubs \ {t}) \cup {Task(t.conn, rpc_idx, t.delay)}
    /\ UNCHANGED <<conn, conns, greeted, subscribe_idx, subscribe_backoff, streams, inbox>>

\* Slip: the task sends its request without publishing the index.
ResubSend_Unpublished(t) ==
    /\ t \in resubs /\ t.idx # 0
    /\ resubs' = resubs \ {t}
    /\ streams' = IF t.conn = conn THEN streams \cup {t.idx} ELSE streams
    /\ UNCHANGED <<conn, conns, greeted, rpc_idx, subscribe_idx, subscribe_backoff, inbox>>

\* ... publishes it, and sends on the connection it was spawned for, if any.
ResubSend(t) ==
    /\ t \in resubs /\ t.idx # 0
    /\ resubs' = resubs \ {t}
    /\ subscribe_idx' = t.idx
    /\ streams' = IF t.conn = conn THEN streams \cup {t.idx} ELSE streams
    /\ UNCHANGED <<conn, conns, greeted, rpc_idx, subscribe_backoff, inbox>>

Reader == DropFrame \/ Rotation \/ Push \/ Failed

Next ==
    \/ Open \/ Close \/ Handshake \/ Reader
    \/ \E i \in streams, kind \in Kinds : ServerFrame(i, kind)
    \/ \E t \in resubs : ResubWake(t) \/ ResubSend(t)

\* The reader consumes what arrives and timers fire; the network and the server
\* may do as they please.
Fairness ==
    /\ WF_vars(Reader)
    /\ WF_vars(\E t \in resubs : ResubWake(t) \/ ResubSend(t))

Spec == Init /\ [][Next]_vars /\ Fairness

-----------------------------------------------------------------------------
\* Every variable keeps its type; the backoff takes only the values its doubling
\* with a ceiling of 30 s yields (ws.rs:1564-1567).
TypeOK ==
    /\ conn \in 0 .. MaxConns /\ conns \in 0 .. MaxConns
    /\ greeted \in BOOLEAN
    /\ rpc_idx \in 1 .. MaxIdx + 1
    /\ subscribe_idx \in {-1} \cup 1 .. MaxIdx
    /\ subscribe_backoff \in {0, 1, 2, 4, 8, 16, 30}
    /\ streams \subseteq 1 .. MaxIdx
    /\ \A k \in DOMAIN inbox : inbox[k].idx \in 1 .. MaxIdx /\ inbox[k].kind \in Kinds

\* Re-subscription under way or about to be noticed on this connection.
Recovering ==
    \/ \E k \in DOMAIN inbox : inbox[k].idx = subscribe_idx /\ inbox[k].kind # "push"
    \/ \E t \in resubs : t.conn = conn

\* A handshaken connection is never deaf: it listens on a stream the server holds
\* open, or the end of that stream is on its way, or a re-subscribe is scheduled
\* (ws.rs:586-589, 1543-1582).
NeverDeaf == greeted => subscribe_idx \in streams \/ Recovering

\* The same while no timer of an earlier connection can be about, which is as far as
\* the code keeps it: the routine rotation, failures and the detached task never lose
\* the subscription of the first connection.
NeverDeafAtFirst == conn = 1 => NeverDeaf

\* Failures do not multiply the re-subscribe tasks of a connection: there is at
\* most one per connection (the storm of ws.rs:590-596 cannot come from here).
OneResub == \A c \in 1 .. MaxConns : Cardinality({t \in resubs : t.conn = c}) <= 1

\* The first connection is down, or listening on an open stream, or out of indices.
Listening == ~(conn = 1 /\ greeted) \/ subscribe_idx \in streams \/ rpc_idx > MaxIdx

\* The subscription of a connection heals: its re-subscribe tasks neither stop nor
\* multiply, and a first connection that stays up is listening again after every failure
\* (the failure arm and the detached task, ws.rs:1543-1582).
Resubscribes == [](NeverDeafAtFirst /\ OneResub /\ <>Listening)
=============================================================================
