---------------------------- MODULE Socks5Proxy ----------------------------
(***************************************************************************)
(* The SOCKS5 / HTTP-CONNECT proxy over QUIC (lktunnel/src/socks5_quic.rs): *)
(* the listener and its toggle, one task per accepted connection on the      *)
(* client, one task per QUIC stream on the server, and the two copies each   *)
(* of them runs.                                                             *)
(*                                                                           *)
(* Every step of a task ends at an await, so an aborted task may stop        *)
(* between any two of its steps.  A QUIC stream half that is dropped counts  *)
(* as finished when it sends and as stopped when it receives.  The QUIC      *)
(* client's slot is filled and emptied as the keeper does it; the end of the *)
(* whole tunnel is in LkTunnel.                                              *)
(***************************************************************************)
EXTENDS Integers, Sequences, FiniteSets

CONSTANTS Apps,          \* connections that applications make to the proxy
          ProtoOf,       \* the dialect an application speaks: "socks5", "http"
          Addrs,         \* the addresses that targets name
          TargetOf,      \* the target it asks for: a kind and the addresses behind it
          RequestsOf, EndingsOf, \* the requests and endings an application may make
          UpLen, DownLen,\* the units an application and its destination have to send
          DialErrors,    \* the ways a dial may fail, as io_err_to_socks5_rep names them
          Blocked,       \* the addresses is_blocked_dst refuses
          Callers,       \* threads that toggle the proxy
          Ports, AppPort,\* the ports callers ask for, the one applications know
          Listeners, None,
          MAX_NAME,      \* the longest name the envelope can hold
          MAX_STREAMS,   \* streams a QUIC connection may have open (quinn's default)
          MaxConns,      \* bound on QUIC connections
          MaxFaults      \* bound on disruptions: lost connections, resets, fatal accept
                         \* errors, toggling off, a second enable

ASSUME BoundsAssumption ==
    /\ MAX_NAME \in Nat \ {0} /\ MAX_STREAMS \in Nat \ {0} /\ MaxConns \in Nat /\ MaxFaults \in Nat
\* A name has one address or more, an address is its own.
ASSUME TargetsAssumption ==
    /\ None \notin Addrs
    /\ \A a \in Apps : /\ TargetOf[a].addrs \in Seq(Addrs) /\ Len(TargetOf[a].addrs) > 0
                       /\ TargetOf[a].kind = "ip" => Len(TargetOf[a].addrs) = 1

VARIABLES
    handle,              \* socks5_handle: the listener, or None
    lis,                 \* per listener: its task, its port, its conn_aborts
    caller,              \* enable_socks5_server and disable_socks5_server in progress
    client,              \* quic_client: a connection, or 0
    open, made,          \* the QUIC connections that are up; how many there have been
    task,                \* the connection tasks
    app, host,           \* the two ends' sockets
    wire,                \* the QUIC streams, one per application
    sv,                  \* the server's stream tasks
    faults               \* how many things have gone wrong

toggle == <<handle, lis, caller>>
quic == <<client, open, made>>
ends == <<app, host>>
vars == <<toggle, quic, task, ends, wire, sv, faults>>

Statuses == {"Succeeded", "General", "Blocked", "Network", "Host", "Refused"}
Codes == {"200", "403", "502", "504"}
ASSUME NamesAssumption == None \notin Apps \cup Statuses \cup Codes
\* io_err_to_socks5_rep: an error the system reports as a permission denied is named like
\* a refusal by the filter; no error is named a success.
ASSUME DialAssumption == DialErrors \subseteq Statuses \ {"Succeeded"}

OffStages == {"none", "backlog", "gone"}

Idle == [at |-> "idle", port |-> None, mine |-> None]

Init ==
    /\ handle = None
    /\ lis = [l \in Listeners |-> [at |-> "unbound", port |-> None, aborted |-> FALSE, conns |-> {}, fresh |-> None]]
    /\ caller = [u \in Callers |-> Idle]
    /\ client = 0 /\ open = {} /\ made = 0
    /\ task = [a \in Apps |-> [at |-> "none", lis |-> None, conn |-> 0, aborted |-> FALSE, up |-> FALSE, down |-> FALSE]]
    /\ app = [a \in Apps |-> [req |-> "none", sent |-> 0, end |-> "no", reply |-> None, got |-> 0, eof |-> FALSE]]
    /\ host = [a \in Apps |-> [got |-> 0, eof |-> FALSE, sent |-> 0, end |-> "no"]]
    /\ wire = [a \in Apps |-> [on |-> FALSE, up |-> 0, upFin |-> FALSE, upStop |-> FALSE,
                               status |-> None, down |-> 0, downFin |-> FALSE, downStop |-> FALSE]]
    /\ sv = [a \in Apps |-> [at |-> "none", addr |-> None, verdict |-> None, up |-> FALSE, down |-> FALSE]]
    /\ faults = 0

Fault == faults < MaxFaults /\ faults' = faults + 1
Running(a) == task[a].at \notin OffStages
Linked(a) == task[a].conn \in open
InUse(c) == {a \in Apps : wire[a].on /\ task[a].conn = c /\ sv[a].at # "gone"}

-----------------------------------------------------------------------------
(* quic_client, as ensure_quic_client and the keeper change it.              *)

QuicUp ==
    /\ client = 0 /\ made < MaxConns
    /\ made' = made + 1
    /\ client' = made + 1
    /\ open' = open \cup {made + 1}
    /\ UNCHANGED <<toggle, task, ends, wire, sv, faults>>

\* Idle timeout, peer restart, loss of the path.
ConnLost(c) ==
    /\ c \in open
    /\ Fault
    /\ open' = open \ {c}
    /\ UNCHANGED <<toggle, client, made, task, ends, wire, sv>>

KeeperClears ==
    /\ client # 0 /\ client \notin open
    /\ client' = 0
    /\ UNCHANGED <<toggle, open, made, task, ends, wire, sv, faults>>

-----------------------------------------------------------------------------
(* enable_socks5_server, disable_socks5_server                               *)

\* The first call is free, any other toggling counts as a disruption.
Untouched == /\ \A l \in Listeners : lis[l].at = "unbound"
             /\ \A u \in Callers : caller[u].at = "idle"

\* With a listener installed it returns at once, with its address or AlreadyEnabled.
Enable(u, p) ==
    /\ caller[u].at = "idle"
    /\ handle = None
    /\ IF Untouched THEN UNCHANGED faults ELSE Fault
    /\ caller' = [caller EXCEPT ![u].at = "bind", ![u].port = p]
    /\ UNCHANGED <<handle, lis, quic, task, ends, wire, sv>>

PortBusy(p) == \E l \in Listeners : lis[l].port = p /\ lis[l].at \notin {"unbound", "dead"}

\* enable_listener: a port that another listener has is an error.
Bind(u) ==
    /\ caller[u].at = "bind"
    /\ \/ /\ PortBusy(caller[u].port)
          /\ caller' = [caller EXCEPT ![u] = Idle]
          /\ UNCHANGED lis
       \/ \E l \in Listeners :
             /\ lis[l].at = "unbound" /\ ~PortBusy(caller[u].port)
             /\ lis' = [lis EXCEPT ![l].at = "parked", ![l].port = caller[u].port]
             /\ caller' = [caller EXCEPT ![u].at = "install", ![u].mine = l]
    /\ UNCHANGED <<handle, quic, task, ends, wire, sv, faults>>

\* The loser of a race discards its own listener.
Install(u) ==
    /\ caller[u].at = "install"
    /\ \/ /\ handle = None
          /\ handle' = caller[u].mine
          /\ caller' = [caller EXCEPT ![u] = Idle]
          /\ UNCHANGED lis
       \/ /\ handle # None
          /\ lis' = [lis EXCEPT ![caller[u].mine].aborted = TRUE]
          /\ caller' = [caller EXCEPT ![u].at = "drain"]
          /\ UNCHANGED handle
    /\ UNCHANGED <<quic, task, ends, wire, sv, faults>>

Disable(u) ==
    /\ caller[u].at = "idle"
    /\ handle # None
    /\ Fault
    /\ handle' = None
    /\ lis' = [lis EXCEPT ![handle].aborted = TRUE]
    /\ caller' = [caller EXCEPT ![u].at = "drain", ![u].mine = handle]
    /\ UNCHANGED <<quic, task, ends, wire, sv>>

abort_all_conns(u) ==
    /\ caller[u].at = "drain"
    /\ task' = [a \in Apps |-> IF a \in lis[caller[u].mine].conns THEN [task[a] EXCEPT !.aborted = TRUE] ELSE task[a]]
    /\ lis' = [lis EXCEPT ![caller[u].mine].conns = {}]
    /\ caller' = [caller EXCEPT ![u] = Idle]
    /\ UNCHANGED <<handle, quic, ends, wire, sv, faults>>

-----------------------------------------------------------------------------
(* The accept loop.  While it is being polled an abort does not stop it.     *)

Backlog(l) == {a \in Apps : task[a].at = "backlog" /\ task[a].lis = l}

Accept(l, a) ==
    /\ a \in Backlog(l)
    /\ lis[l].at = "polling" \/ (lis[l].at = "parked" /\ ~lis[l].aborted)
    /\ task' = [task EXCEPT ![a].at = "wait"]
    /\ lis' = [lis EXCEPT ![l].at = "spawned", ![l].fresh = a]
    /\ UNCHANGED <<handle, caller, quic, ends, wire, sv, faults>>

\* Slip: the finished entries are the ones that are kept.
Register_Inverted(l) ==
    /\ lis[l].at = "spawned"
    /\ lis' = [lis EXCEPT ![l].at = IF Backlog(l) = {} THEN "parked" ELSE "polling", ![l].fresh = None,
                          ![l].conns = {a \in @ : task[a].at = "gone"} \cup {lis[l].fresh}]
    /\ UNCHANGED <<handle, caller, quic, task, ends, wire, sv, faults>>

\* retain(not finished), push.  The loop goes on to the next connection, or waits.
Register(l) ==
    /\ lis[l].at = "spawned"
    /\ lis' = [lis EXCEPT ![l].at = IF Backlog(l) = {} THEN "parked" ELSE "polling", ![l].fresh = None,
                          ![l].conns = {a \in @ : task[a].at # "gone"} \cup {lis[l].fresh}]
    /\ UNCHANGED <<handle, caller, quic, task, ends, wire, sv, faults>>

\* The task is cancelled, or a fatal accept error ends it: the socket closes, and with
\* it the connections nobody accepted.
ListenerEnds(l) ==
    /\ \/ lis[l].aborted /\ lis[l].at = "parked" /\ UNCHANGED faults
       \/ lis[l].at \in {"parked", "polling"} /\ Fault
    /\ lis' = [lis EXCEPT ![l].at = "dead", ![l].port = None]
    /\ task' = [a \in Apps |-> IF a \in Backlog(l) THEN [task[a] EXCEPT !.at = "gone"] ELSE task[a]]
    /\ app' = [a \in Apps |-> IF a \in Backlog(l) THEN [app[a] EXCEPT !.eof = TRUE] ELSE app[a]]
    /\ UNCHANGED <<handle, caller, quic, host, wire, sv>>

-----------------------------------------------------------------------------
(* The applications and their destinations.                                  *)

Connect(a) ==
    /\ task[a].at = "none"
    /\ \E l \in Listeners :
          /\ lis[l].port = AppPort /\ lis[l].at \in {"parked", "polling", "spawned"}
          /\ task' = [task EXCEPT ![a].at = "backlog", ![a].lis = l]
    /\ UNCHANGED <<toggle, quic, ends, wire, sv, faults>>

\* The request, well-formed or not; its payload may follow at once.
AppRequests(a, r) ==
    /\ task[a].at # "none" /\ app[a].req = "none" /\ app[a].end = "no"
    /\ app' = [app EXCEPT ![a].req = r]
    /\ UNCHANGED <<toggle, quic, task, host, wire, sv, faults>>

AppSends(a) ==
    /\ app[a].req = "good" /\ app[a].end = "no" /\ app[a].sent < UpLen[a]
    /\ app' = [app EXCEPT ![a].sent = @ + 1]
    /\ UNCHANGED <<toggle, quic, task, host, wire, sv, faults>>

\* A half-close, or a reset.
AppEnds(a, how) ==
    /\ task[a].at # "none" /\ app[a].end = "no"
    /\ IF how = "rst" THEN Fault ELSE UNCHANGED faults
    /\ app' = [app EXCEPT ![a].end = how]
    /\ UNCHANGED <<toggle, quic, task, host, wire, sv>>

HostSends(a) ==
    /\ sv[a].at = "copy" /\ host[a].end = "no" /\ host[a].sent < DownLen[a]
    /\ host' = [host EXCEPT ![a].sent = @ + 1]
    /\ UNCHANGED <<toggle, quic, task, app, wire, sv, faults>>

HostEnds(a, how) ==
    /\ sv[a].at = "copy" /\ host[a].end = "no"
    /\ IF how = "rst" THEN Fault ELSE UNCHANGED faults
    /\ host' = [host EXCEPT ![a].end = how]
    /\ UNCHANGED <<toggle, quic, task, app, wire, sv>>

-----------------------------------------------------------------------------
(* The connection task on the client.                                        *)

\* Everything the task holds is dropped.
Leaves(a) ==
    /\ task' = [task EXCEPT ![a].at = "gone"]
    /\ app' = [app EXCEPT ![a].eof = TRUE]
    /\ wire' = [wire EXCEPT ![a].upFin = wire[a].on, ![a].downStop = wire[a].on]
    /\ UNCHANGED <<toggle, quic, host, sv, faults>>

GoesTo(a, s) ==
    /\ task' = [task EXCEPT ![a].at = s]
    /\ UNCHANGED <<toggle, quic, ends, wire, sv, faults>>

\* FrontProto::reply and http_connect_reply.
HttpReply(s) ==
    CASE s = "Succeeded" -> "200"
      [] s = "Blocked" -> "403"
      [] s \in {"Network", "Host"} -> "504"
      [] OTHER -> "502"
Reply(a, s) == IF ProtoOf[a] = "socks5" THEN s ELSE HttpReply(s)

Cancelled(a) ==
    /\ Running(a) /\ task[a].aborted
    /\ Leaves(a)

\* The connection is taken from the slot as it is, alive or not.
Snapshot(a) ==
    /\ task[a].at = "wait" /\ client # 0
    /\ task' = [task EXCEPT ![a].at = "peek", ![a].conn = client]
    /\ UNCHANGED <<toggle, quic, ends, wire, sv, faults>>

\* A hundred looks found the slot empty.
Refuse(a) ==
    /\ task[a].at = "wait" /\ client = 0
    /\ Leaves(a)

\* pump_conn
Peek(a) ==
    /\ task[a].at = "peek"
    /\ \/ app[a].req # "none" /\ app[a].end # "rst" /\ GoesTo(a, "read")
       \/ app[a].req = "none" /\ app[a].end = "fin" /\ Leaves(a)
       \/ app[a].end = "rst" /\ Leaves(a)

\* The request is consumed to the byte.  What cannot be served is answered and dropped.
Rejects(a) ==
    /\ task' = [task EXCEPT ![a].at = "gone"]
    /\ app' = [app EXCEPT ![a].reply = "Rejected", ![a].eof = TRUE]
    /\ UNCHANGED <<toggle, quic, host, wire, sv, faults>>

read_socks5_request(a) ==
    /\ task[a].at = "read" /\ ProtoOf[a] = "socks5"
    /\ IF app[a].req = "good" /\ app[a].end # "rst" THEN GoesTo(a, "open") ELSE Rejects(a)

\* The length of the name in a request.  A SOCKS5 request cannot hold a long one, an
\* HTTP request can.
NameLen(r) == IF r = "long" THEN MAX_NAME + 1 ELSE 1

\* parse_authority refuses a name that the envelope has no room for.
ParsesAuthority(r) == r # "bad" /\ NameLen(r) <= MAX_NAME

read_http_connect_request(a) ==
    /\ task[a].at = "read" /\ ProtoOf[a] = "http"
    /\ IF ParsesAuthority(app[a].req) /\ app[a].end # "rst" THEN GoesTo(a, "open") ELSE Rejects(a)

\* open_bi and the target envelope.
OpenStream(a) ==
    /\ task[a].at = "open"
    /\ \/ ~Linked(a) /\ Leaves(a)
       \/ /\ Linked(a) /\ Cardinality(InUse(task[a].conn)) < MAX_STREAMS
          /\ task' = [task EXCEPT ![a].at = "status"]
          /\ wire' = [wire EXCEPT ![a].on = TRUE]
          /\ UNCHANGED <<toggle, quic, ends, sv, faults>>

\* The status is passed on; only a success starts the copies.
Answer(a, s) ==
    /\ task' = [task EXCEPT ![a].at = IF s = "Succeeded" /\ app[a].end # "rst" THEN "copy" ELSE "gone"]
    /\ app' = [app EXCEPT ![a].reply = Reply(a, s), ![a].eof = (task'[a].at = "gone")]
    /\ wire' = [wire EXCEPT ![a].upFin = (task'[a].at = "gone"), ![a].downStop = (task'[a].at = "gone")]
    /\ UNCHANGED <<toggle, quic, host, sv, faults>>

\* Slip: the end of the stream is not taken for an answer.
ReadStatus_Patient(a) ==
    /\ task[a].at = "status"
    /\ wire[a].status # None /\ Linked(a)
    /\ Answer(a, wire[a].status)

\* A stream that ends without a status is a general failure.
ReadStatus(a) ==
    /\ task[a].at = "status"
    /\ \/ wire[a].status # None /\ Linked(a) /\ Answer(a, wire[a].status)
       \/ ~Linked(a) /\ Answer(a, "General")

-----------------------------------------------------------------------------
(* dispatch_target's two copies.                                             *)

\* join!: the task ends with the second copy.
HalfDone(a, up, down) ==
    task' = [task EXCEPT ![a].up = up, ![a].down = down,
                         ![a].at = IF up /\ down THEN "gone" ELSE @]

CopyUp(a) ==
    /\ task[a].at = "copy" /\ ~task[a].up
    /\ app[a].end # "rst" /\ wire[a].up < app[a].sent
    /\ Linked(a) /\ ~wire[a].upStop
    /\ wire' = [wire EXCEPT ![a].up = @ + 1]
    /\ UNCHANGED <<toggle, quic, task, ends, sv, faults>>

\* End of file, a read error and a write error all finish the stream.
CopyUpEnds(a) ==
    /\ task[a].at = "copy" /\ ~task[a].up
    /\ \/ app[a].end = "fin" /\ wire[a].up = app[a].sent
       \/ app[a].end = "rst"
       \/ wire[a].up < app[a].sent /\ (~Linked(a) \/ wire[a].upStop)
    /\ HalfDone(a, TRUE, task[a].down)
    /\ wire' = [wire EXCEPT ![a].upFin = TRUE, ![a].downStop = @ \/ task'[a].at = "gone"]
    /\ app' = [app EXCEPT ![a].eof = @ \/ task'[a].at = "gone"]
    /\ UNCHANGED <<toggle, quic, host, sv, faults>>

CopyDown(a) ==
    /\ task[a].at = "copy" /\ ~task[a].down
    /\ Linked(a) /\ app[a].got < wire[a].down /\ app[a].end # "rst"
    /\ app' = [app EXCEPT ![a].got = @ + 1]
    /\ UNCHANGED <<toggle, quic, task, host, wire, sv, faults>>

\* The end of the stream, its loss and a write error all shut the socket down.
CopyDownEnds(a) ==
    /\ task[a].at = "copy" /\ ~task[a].down
    /\ \/ wire[a].downFin /\ app[a].got = wire[a].down
       \/ ~Linked(a)
       \/ app[a].got < wire[a].down /\ app[a].end = "rst"
    /\ HalfDone(a, task[a].up, TRUE)
    /\ wire' = [wire EXCEPT ![a].downStop = TRUE, ![a].upFin = @ \/ task'[a].at = "gone"]
    /\ app' = [app EXCEPT ![a].eof = TRUE]
    /\ UNCHANGED <<toggle, quic, host, sv, faults>>

-----------------------------------------------------------------------------
(* handle_quic_stream, on the server.                                        *)

\* Slip: the first address of a name is taken before the filter.
PickAddr_First(t) == {t.addrs[1]}

\* The length of a name is one byte of the envelope: a longer name arrives as another
\* target, about which nothing is known.
encode_target(r) == NameLen(r) % (MAX_NAME + 1)
read_target(a) ==
    IF encode_target(app[a].req) = NameLen(app[a].req)
      THEN TargetOf[a] ELSE [kind |-> "name", addrs |-> <<None>>]

\* An address stands for itself; of a name's, the first that is not blocked, if any.
Allowed(x) == x \notin Blocked
FirstAllowed(s) == {i \in DOMAIN s : Allowed(s[i]) /\ \A j \in 1 .. i - 1 : ~Allowed(s[j])}
PickAddr(t) == IF t.kind = "ip" THEN {t.addrs[1]} ELSE {t.addrs[i] : i \in FirstAllowed(t.addrs)}

\* The failure is reported, the stream finished, the task over.
Fails(a, s) ==
    /\ sv' = [sv EXCEPT ![a].at = "gone", ![a].verdict = s]
    /\ wire' = [wire EXCEPT ![a].status = s, ![a].downFin = TRUE, ![a].upStop = TRUE]
    /\ UNCHANGED <<toggle, quic, task, ends, faults>>

\* accept_bi, read_target, lookup_host.  A stream of a lost connection is never accepted.
Resolve(a) ==
    /\ wire[a].on /\ sv[a].at = "none" /\ Linked(a)
    /\ LET picked == PickAddr(read_target(a)) IN
       \/ read_target(a).kind = "name" /\ Fails(a, "Host")
       \/ picked \subseteq Blocked /\ Fails(a, "Blocked")
       \/ /\ \E x \in picked \ Blocked : sv' = [sv EXCEPT ![a].at = "dial", ![a].addr = x]
          /\ UNCHANGED <<toggle, quic, task, ends, wire, faults>>

\* io_err_to_socks5_rep names the error; a success that cannot be reported drops the
\* socket again.
Dial(a) ==
    /\ sv[a].at = "dial"
    /\ \/ \E s \in DialErrors : Fails(a, s)
       \/ /\ sv' = [sv EXCEPT ![a].at = IF Linked(a) THEN "copy" ELSE "gone", ![a].verdict = "Succeeded"]
          /\ wire' = [wire EXCEPT ![a].status = IF Linked(a) THEN "Succeeded" ELSE @]
          /\ UNCHANGED <<toggle, quic, task, ends, faults>>

ServerHalfDone(a, up, down) ==
    sv' = [sv EXCEPT ![a].up = up, ![a].down = down, ![a].at = IF up /\ down THEN "gone" ELSE @]

ToHost(a) ==
    /\ sv[a].at = "copy" /\ ~sv[a].up
    /\ Linked(a) /\ host[a].got < wire[a].up /\ host[a].end # "rst"
    /\ host' = [host EXCEPT ![a].got = @ + 1]
    /\ UNCHANGED <<toggle, quic, task, app, wire, sv, faults>>

ToHostEnds(a) ==
    /\ sv[a].at = "copy" /\ ~sv[a].up
    /\ \/ wire[a].upFin /\ host[a].got = wire[a].up
       \/ ~Linked(a)
       \/ host[a].got < wire[a].up /\ host[a].end = "rst"
    /\ ServerHalfDone(a, TRUE, sv[a].down)
    /\ host' = [host EXCEPT ![a].eof = TRUE]
    /\ wire' = [wire EXCEPT ![a].upStop = TRUE]
    /\ UNCHANGED <<toggle, quic, task, app, faults>>

FromHost(a) ==
    /\ sv[a].at = "copy" /\ ~sv[a].down
    /\ host[a].end # "rst" /\ wire[a].down < host[a].sent
    /\ Linked(a) /\ ~wire[a].downStop
    /\ wire' = [wire EXCEPT ![a].down = @ + 1]
    /\ UNCHANGED <<toggle, quic, task, ends, sv, faults>>

FromHostEnds(a) ==
    /\ sv[a].at = "copy" /\ ~sv[a].down
    /\ \/ host[a].end = "fin" /\ wire[a].down = host[a].sent
       \/ host[a].end = "rst"
       \/ wire[a].down < host[a].sent /\ (~Linked(a) \/ wire[a].downStop)
    /\ ServerHalfDone(a, sv[a].up, TRUE)
    /\ wire' = [wire EXCEPT ![a].downFin = TRUE]
    /\ UNCHANGED <<toggle, quic, task, ends, faults>>

-----------------------------------------------------------------------------
ListenerStep(l) == (\E a \in Apps : Accept(l, a)) \/ Register(l)
TaskStep(a) ==
    \/ Cancelled(a) \/ Snapshot(a) \/ Refuse(a) \/ Peek(a) \/ read_socks5_request(a) \/ read_http_connect_request(a)
    \/ OpenStream(a) \/ ReadStatus(a)
    \/ CopyUp(a) \/ CopyUpEnds(a) \/ CopyDown(a) \/ CopyDownEnds(a)
StreamStep(a) ==
    \/ Resolve(a) \/ Dial(a)
    \/ ToHost(a) \/ ToHostEnds(a) \/ FromHost(a) \/ FromHostEnds(a)
Peers(a) ==
    \/ Connect(a) \/ \E r \in RequestsOf[a] : AppRequests(a, r)
    \/ AppSends(a) \/ HostSends(a)
    \/ \E how \in EndingsOf[a] : AppEnds(a, how) \/ HostEnds(a, how)
CallerStep(u) ==
    \/ \E p \in Ports : Enable(u, p)
    \/ Bind(u) \/ Install(u) \/ Disable(u) \/ abort_all_conns(u)

Next ==
    \/ QuicUp \/ (\E c \in 1 .. MaxConns : ConnLost(c)) \/ KeeperClears
    \/ \E u \in Callers : CallerStep(u)
    \/ \E l \in Listeners : ListenerStep(l) \/ ListenerEnds(l)
    \/ \E a \in Apps : Peers(a) \/ TaskStep(a) \/ StreamStep(a)

Spec == Init /\ [][Next]_vars

-----------------------------------------------------------------------------
(* Properties.                                                               *)

TypeOK ==
    /\ handle \in Listeners \cup {None}
    /\ client \in 0 .. MaxConns /\ open \subseteq 1 .. MaxConns
    /\ \A l \in Listeners : lis[l].conns \subseteq Apps
    /\ \A a \in Apps : wire[a].status \in Statuses \cup {None}

\* A proxied application is told what became of its own request: anything but a bad
\* request and the general failure is the server's verdict in its dialect, what was dialled
\* is an allowed address of its target, a success means one was reached, and a refusal
\* without a dial that there is none (dispatch_target waits for the status,
\* socks5_quic.rs:460-475, 503-549).
VerdictFaithful ==
    \A a \in Apps :
      /\ app[a].reply \notin {None, "Rejected", Reply(a, "General")} => app[a].reply = Reply(a, sv[a].verdict)
      /\ sv[a].addr # None => Allowed(sv[a].addr) /\ \E i \in DOMAIN TargetOf[a].addrs : TargetOf[a].addrs[i] = sv[a].addr
      /\ sv[a].verdict = "Succeeded" => sv[a].addr # None
      /\ sv[a].verdict = "Blocked" /\ sv[a].addr = None => \A i \in DOMAIN TargetOf[a].addrs : ~Allowed(TargetOf[a].addrs[i])

\* While nothing breaks, an end of stream comes after everything that was sent, in both
\* directions and although either side may half-close first (join! of the two copies,
\* socks5_quic.rs:477-486, 552-561).
Unbroken(a) == Linked(a) /\ ~task[a].aborted /\ app[a].end # "rst" /\ host[a].end # "rst"
EofIsLast ==
    \A a \in Apps : sv[a].at # "none" /\ Unbroken(a) =>
      /\ host[a].eof => app[a].end = "fin" /\ host[a].got = app[a].sent
      /\ app[a].eof /\ app[a].reply = Reply(a, "Succeeded") => host[a].end = "fin" /\ app[a].got = host[a].sent

\* What a proxied application gets is true: the verdict on its request, and the end of
\* stream after the last byte (dispatch_target and its counterpart on the server).
RelayFaithful == VerdictFaithful /\ EofIsLast

\* The toggle can reach every connection: a task that runs is in the list of its
\* listener, or about to be entered, or has been told to stop (socks5_quic.rs:266-272).
NoneForgotten ==
    \A a \in Apps : Running(a) /\ ~task[a].aborted =>
        a \in lis[task[a].lis].conns \/ lis[task[a].lis].fresh = a

\* An application that sent its request is not left hanging: it has its reply, or its
\* connection is closed, or somebody can still take a step towards one.  Losing QUIC,
\* the listener or the toggle is no exception; waiting for a stream when all are taken is.
Hanging(a) == Running(a) /\ app[a].req # "none" /\ app[a].reply = None
Full(a) == task[a].at = "open" /\ Cardinality(InUse(task[a].conn)) >= MAX_STREAMS
NobodyHangs == \A a \in Apps : Hanging(a) /\ ~Full(a) => ENABLED TaskStep(a) \/ ENABLED StreamStep(a)

-----------------------------------------------------------------------------
\* What the code means to do and does not

\* Toggling off ends every connection: one accepted while the list is drained, or from
\* the backlog in the same poll, is entered after it (lib.rs:1077-1086).
Draining(l) == \E u \in Callers : caller[u].at = "drain" /\ caller[u].mine = l
DisableSevers ==
    \A a \in Apps : Running(a) /\ lis[task[a].lis].aborted /\ ~Draining(task[a].lis) => task[a].aborted

\* A new request uses the QUIC connection that is up: the task took its own before the
\* application had asked for anything (socks5_quic.rs:204-209).
NoStaleConn == \A a \in Apps : task[a].at = "open" => task[a].conn = client \/ client = 0

\* An installed handle has a listener: a fatal accept error ends the loop only.
EnabledListens == handle # None => lis[handle].at # "dead"
=============================================================================
