------------------------------ MODULE Reactor ------------------------------
(***************************************************************************)
(* The dispatcher thread (lktunnel/src/dispatcher.rs) and what it drives:    *)
(* tasks posted by other threads, the inbound queue of a tunnel (on_ip in    *)
(* lib.rs) and the sockets of the NAT's sessions, whose handlers it calls    *)
(* through raw pointers.  A handler, a task other than the drain loop, and   *)
(* the sweep run without interruption; other threads interleave between.     *)
(***************************************************************************)
EXTENDS Integers, Sequences, FiniteSets

CONSTANTS Carriers,      \* threads that deliver inbound packets (on_ip)
          Closer,        \* the thread that tears the tunnel down
          InboundCap,    \* INBOUND_QUEUE_CAP
          MaxTokens,     \* bound: tokens ever allocated
          MaxTasks       \* bound: tasks waiting in QUEUE when a packet arrives

Posters == Carriers \cup {Closer}
Tokens == 1 .. MaxTokens
Waker == 0

ASSUME BoundsAssumption == InboundCap \in Nat \ {0} /\ MaxTokens \in Nat /\ MaxTasks \in Nat
ASSUME CloserAssumption == Closer \notin Carriers

VARIABLES
    pc,              \* per poster: "idle", "post", "wake"; the closer ends in "done"
    inbound,         \* packets in the tunnel's inbound queue
    queue,           \* QUEUE: tasks posted
    woken,           \* the waker is ready
    ready,           \* tokens whose socket is ready
    at,              \* the dispatcher thread
    batch,           \* events of this poll not yet handled
    running,         \* tasks taken out of QUEUE
    handlers,        \* HANDLERS: tokens with a handler
    pending_remove,  \* PENDING_REMOVE
    next_token,      \* NEXT_TOKEN
    session,         \* per token: its session
    nat              \* the tunnel still has its NAT

posting == <<pc, inbound, queue, woken>>
table == <<handlers, pending_remove, next_token, session, nat>>
vars == <<posting, ready, at, batch, running, table>>

Init ==
    /\ pc = [p \in Posters |-> "idle"]
    /\ inbound = 0
    /\ queue = <<>> /\ woken = FALSE
    /\ ready = {}
    /\ at = "poll" /\ batch = <<>> /\ running = <<>>
    /\ handlers = {} /\ pending_remove = {} /\ next_token = 1
    /\ session = [t \in Tokens |-> "none"]
    /\ nat = TRUE

-----------------------------------------------------------------------------
(* Other threads                                                             *)

\* on_ip: queue the packet, the oldest dropped when full; post a drain if it was empty.
Arrive(c) ==
    /\ pc[c] = "idle" /\ Len(queue) < MaxTasks
    /\ inbound' = IF inbound < InboundCap THEN inbound + 1 ELSE inbound
    /\ pc' = [pc EXCEPT ![c] = IF inbound = 0 THEN "post" ELSE "idle"]
    /\ UNCHANGED <<queue, woken, ready, at, batch, running, table>>

\* teardown: the NAT's box is taken out to be dropped on the dispatcher thread.
Teardown ==
    /\ pc[Closer] = "idle"
    /\ pc' = [pc EXCEPT ![Closer] = "post"]
    /\ UNCHANGED <<inbound, queue, woken, ready, at, batch, running, table>>

TaskOf(p) == IF p = Closer THEN "teardown" ELSE "drain"

Post(p) ==
    /\ pc[p] = "post"
    /\ queue' = Append(queue, TaskOf(p))
    /\ pc' = [pc EXCEPT ![p] = "wake"]
    /\ UNCHANGED <<inbound, woken, ready, at, batch, running, table>>

Wake(p) ==
    /\ pc[p] = "wake"
    /\ woken' = TRUE
    /\ pc' = [pc EXCEPT ![p] = IF p = Closer THEN "done" ELSE "idle"]
    /\ UNCHANGED <<inbound, queue, ready, at, batch, running, table>>

\* The kernel: a registered socket becomes ready.
SocketReady(t) ==
    /\ session[t] = "live"
    /\ ready' = ready \cup {t}
    /\ UNCHANGED <<posting, at, batch, running, table>>

-----------------------------------------------------------------------------
(* The sessions' side of the reactor: register_source and deregister_source  *)

Register ==
    /\ next_token <= MaxTokens
    /\ session' = [session EXCEPT ![next_token] = "live"]
    /\ handlers' = handlers \cup {next_token}
    /\ next_token' = next_token + 1
    /\ UNCHANGED <<ready, pending_remove, nat>>

Live == {t \in Tokens : session[t] = "live"}
Owned == {t \in Tokens : session[t] \in {"live", "closed"}}

\* Sessions of T close their sockets; those of F are dropped, which closes theirs.
CloseAndDrop(T, F) ==
    /\ session' = [t \in Tokens |-> IF t \in F THEN "dropped" ELSE IF t \in T THEN "closed" ELSE session[t]]
    /\ pending_remove' = pending_remove \cup ((T \cup F) \cap Live)
    /\ ready' = ready \ (T \cup F)
    /\ UNCHANGED <<handlers, next_token>>

-----------------------------------------------------------------------------
(* The dispatcher thread: thread_main                                        *)

\* The orders in which one poll may report the sources of S.
Orders(S) == {s \in [1 .. Cardinality(S) -> S] : \A x \in S : \E i \in DOMAIN s : s[i] = x}

\* poll: every ready source, in any order, or nothing after 250 ms.
PollReturns ==
    /\ at = "poll"
    /\ batch' \in Orders(ready \cup (IF woken THEN {Waker} ELSE {}))
    /\ ready' = {} /\ woken' = FALSE
    /\ at' = "event"
    /\ UNCHANGED <<pc, inbound, queue, running, table>>

\* drain_queue: take all the tasks.
TakeTasks ==
    /\ at = "event" /\ batch # <<>> /\ Head(batch) = Waker
    /\ running' = queue /\ queue' = <<>>
    /\ at' = "tasks"
    /\ UNCHANGED <<pc, inbound, woken, ready, batch, table>>

DrainRemoves == handlers' = handlers \ pending_remove /\ pending_remove' = {}

\* No handler under this token any more.
SkipEvent ==
    /\ at = "event" /\ batch # <<>> /\ Head(batch) # Waker
    /\ Head(batch) \notin handlers
    /\ batch' = Tail(batch)
    /\ DrainRemoves
    /\ UNCHANGED <<posting, ready, at, running, next_token, session, nat>>

CallHandler ==
    /\ at = "event" /\ batch # <<>> /\ Head(batch) # Waker
    /\ Head(batch) \in handlers
    /\ at' = "call"
    /\ UNCHANGED <<posting, ready, batch, running, table>>

\* on_event of a session; it may close its own socket.
HandlerRuns ==
    /\ at = "call"
    /\ \E T \in {{}, {Head(batch)} \cap Live} :
          /\ session' = [t \in Tokens |-> IF t \in T THEN "closed" ELSE session[t]]
          /\ ready' = ready \ T
          /\ handlers' = handlers \ (pending_remove \cup T)
          /\ pending_remove' = {}
    /\ batch' = Tail(batch)
    /\ at' = "event"
    /\ UNCHANGED <<posting, running, next_token, nat>>

StartDrain ==
    /\ at = "tasks" /\ running # <<>> /\ Head(running) = "drain"
    /\ at' = "draining"
    /\ UNCHANGED <<posting, ready, batch, running, table>>

\* One turn of the drain loop: pop a packet and process it.  The NAT may open a session
\* for it, or a session may close its socket or end; without a NAT it is dropped.
DrainPacket ==
    /\ at = "draining" /\ inbound > 0
    /\ inbound' = inbound - 1
    /\ \/ UNCHANGED <<ready, table>>
       \/ nat /\ Register
       \/ \E t \in Owned :
             /\ nat /\ UNCHANGED nat
             /\ CloseAndDrop({t}, {}) \/ CloseAndDrop({}, {t})
    /\ UNCHANGED <<pc, queue, woken, at, batch, running>>

\* Slip: one packet per posted drain.
DrainEnds_AfterOne ==
    /\ at = "draining"
    /\ at' = "tasks" /\ running' = Tail(running)
    /\ UNCHANGED <<posting, ready, batch, table>>

DrainEnds ==
    /\ at = "draining" /\ inbound = 0
    /\ at' = "tasks" /\ running' = Tail(running)
    /\ UNCHANGED <<posting, ready, batch, table>>

\* The NAT's box is dropped, and every session with it.
RunTeardown ==
    /\ at = "tasks" /\ running # <<>> /\ Head(running) = "teardown"
    /\ nat' = FALSE
    /\ CloseAndDrop({}, Owned)
    /\ running' = Tail(running)
    /\ UNCHANGED <<posting, at, batch>>

\* Slip: the removals that the tasks asked for are left to the next event.
TasksDone_RemovesLater ==
    /\ at = "tasks" /\ running = <<>>
    /\ batch' = Tail(batch)
    /\ at' = "event"
    /\ UNCHANGED <<posting, ready, running, table>>

\* Slip: the wake-up is acknowledged once its tasks have run.
TasksDone_ResetsWaker ==
    /\ at = "tasks" /\ running = <<>>
    /\ woken' = FALSE
    /\ DrainRemoves
    /\ batch' = Tail(batch)
    /\ at' = "event"
    /\ UNCHANGED <<pc, inbound, queue, ready, running, next_token, session, nat>>

TasksDone ==
    /\ at = "tasks" /\ running = <<>>
    /\ DrainRemoves
    /\ batch' = Tail(batch)
    /\ at' = "event"
    /\ UNCHANGED <<posting, ready, running, next_token, session, nat>>

\* The tick: sweep_idle drops the sessions that are idle or have ended.
Sweep ==
    /\ at = "event" /\ batch = <<>>
    /\ \E F \in SUBSET Owned : CloseAndDrop({}, F)
    /\ at' = "poll"
    /\ UNCHANGED <<posting, batch, running, nat>>

-----------------------------------------------------------------------------
Dispatch ==
    \/ PollReturns \/ TakeTasks \/ SkipEvent \/ CallHandler \/ HandlerRuns
    \/ StartDrain \/ DrainPacket \/ DrainEnds \/ RunTeardown \/ TasksDone \/ Sweep

Next ==
    \/ \E c \in Carriers : Arrive(c)
    \/ Teardown
    \/ \E p \in Posters : Post(p) \/ Wake(p)
    \/ \E t \in Tokens : SocketReady(t)
    \/ Dispatch

\* The dispatcher thread runs, and a thread that is posting finishes.
Fairness ==
    /\ WF_vars(Dispatch)
    /\ \A p \in Posters : WF_vars(Post(p) \/ Wake(p))

Spec == Init /\ [][Next]_vars
FairSpec == Spec /\ Fairness

-----------------------------------------------------------------------------
(* Properties.                                                               *)

\* Every variable keeps its type.
TypeOK ==
    /\ pc \in [Posters -> {"idle", "post", "wake", "done"}]
    /\ inbound \in 0 .. InboundCap
    /\ queue \in Seq({"drain", "teardown"}) /\ running \in Seq({"drain", "teardown"})
    /\ woken \in BOOLEAN /\ nat \in BOOLEAN
    /\ ready \subseteq Tokens
    /\ at \in {"poll", "event", "call", "tasks", "draining"}
    /\ batch \in Seq(Tokens \cup {Waker})
    /\ handlers \subseteq Tokens /\ pending_remove \subseteq Tokens
    /\ next_token \in 1 .. MaxTokens + 1
    /\ session \in [Tokens -> {"none", "live", "closed", "dropped"}]

\* The handler that the reactor calls belongs to a session that still exists and has its
\* socket: events left in the batch for a session that an earlier event, task or sweep
\* dropped are skipped (the raw pointer in the handler is good).
NoStaleCall == at = "call" => session[Head(batch)] = "live"

Has(s, x) == \E i \in DOMAIN s : s[i] = x

\* A posted task is not forgotten: as long as tasks wait, a wake-up is pending, about to
\* be given, or in the batch being handled.
TasksAreWoken ==
    queue # <<>> =>
        \/ woken
        \/ \E p \in Posters : pc[p] = "wake"
        \/ at \in {"event", "call"} /\ Has(batch, Waker)

\* on_ip posts a drain only for the first packet, and still every queued packet has a
\* drain to come: posted, about to be, or running.
InboundIsDrained ==
    inbound > 0 =>
        \/ \E c \in Carriers : pc[c] = "post"
        \/ Has(queue, "drain")
        \/ Has(running, "drain")

\* Posted tasks run: whoever waits for one (attach_tun, detach_tun) is answered, unless
\* packets come in for ever, since the drain loop only ends on an empty queue.
PostedRuns == (queue # <<>> ~> queue = <<>>) \/ []<><<\E c \in Carriers : Arrive(c)>>_vars
=============================================================================
