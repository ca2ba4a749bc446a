------------------------- MODULE Socks5ProxyProofs -------------------------
(***************************************************************************)
(* Proofs about the proxy for any number of applications, listeners,       *)
(* callers, QUIC connections and faults.                                   *)
(***************************************************************************)
EXTENDS Socks5Proxy, WellFoundedInduction, TLAPS

TaskPlaces == OffStages \cup {"wait", "peek", "read", "open", "status", "copy"}
TaskRecord == [at : TaskPlaces, lis : Listeners \cup {None}, conn : Int,
               aborted : BOOLEAN, up : BOOLEAN, down : BOOLEAN]
LisPlaces == {"unbound", "parked", "polling", "spawned", "dead"}
LisRecord == [at : LisPlaces, port : Ports \cup {None}, aborted : BOOLEAN,
              conns : SUBSET Apps, fresh : Apps \cup {None}]
CallerRecord == [at : {"idle", "bind", "install", "drain"}, port : Ports \cup {None}, mine : Listeners \cup {None}]

ToggleTypes ==
    /\ lis \in [Listeners -> LisRecord] /\ handle \in Listeners \cup {None}
    /\ caller \in [Callers -> CallerRecord]
    /\ \A u \in Callers : caller[u].at = "bind" => caller[u].port \in Ports
    /\ \A u \in Callers : caller[u].at \in {"install", "drain"} => caller[u].mine \in Listeners
TaskTypes ==
    /\ task \in [Apps -> TaskRecord] /\ client \in Int /\ made \in Int
    /\ \A a \in Apps : task[a].at # "none" => task[a].lis \in Listeners

\* A listener has a fresh task only between accepting and entering it.
FreshIsSpawned == \A l \in Listeners : lis[l].at = "spawned" <=> lis[l].fresh # None

ListInv == ToggleTypes /\ TaskTypes /\ FreshIsSpawned /\ NoneForgotten

\* The initial states satisfy it.
LEMMA InitListInv == Init => ListInv
  <1> SUFFICES ASSUME Init PROVE ListInv
      BY Zenon
  <1>1. ToggleTypes
      BY Zenon DEF Init, Idle, ToggleTypes, LisRecord, LisPlaces, CallerRecord
  <1>2. TaskTypes
      BY DEF Init, TaskTypes, TaskRecord, TaskPlaces, OffStages
  <1>3. FreshIsSpawned /\ NoneForgotten
      BY Zenon DEF Init, FreshIsSpawned, NoneForgotten, Running, OffStages
  <1> QED BY <1>1, <1>2, <1>3, Zenon DEF ListInv

\* What a step of the connection tasks, the ends and the server does to the toggle's view.
Apart ==
    /\ UNCHANGED toggle /\ task' \in [Apps -> TaskRecord] /\ client' \in Int /\ made' \in Int
    /\ \A a \in Apps : /\ task'[a].lis = task[a].lis /\ task'[a].aborted = task[a].aborted
                       /\ task'[a].at # "none" => task[a].at # "none"
                       /\ task'[a].at \notin OffStages => task[a].at \notin OffStages

\* Such a step forgets nobody.
LEMMA ApartStep ==
    ASSUME ListInv, Apart
    PROVE  ListInv'
  <1>1. lis' = lis /\ handle' = handle /\ caller' = caller
      BY Zenon DEF Apart, toggle
  <1>2. ToggleTypes' /\ FreshIsSpawned'
      BY <1>1, Zenon DEF ListInv, ToggleTypes, FreshIsSpawned
  <1>3. TaskTypes'
      BY Zenon DEF ListInv, TaskTypes, Apart
  <1>4. NoneForgotten'
      BY <1>1, Zenon DEF ListInv, NoneForgotten, Apart, Running
  <1> QED BY <1>2, <1>3, <1>4, Zenon DEF ListInv

\* The records keep their type when the flags and the place change.
LEMMA TaskUpdate ==
    ASSUME NEW r \in TaskRecord, NEW up \in BOOLEAN, NEW down \in BOOLEAN, NEW p \in TaskPlaces
    PROVE  [r EXCEPT !.up = up, !.down = down, !.at = p] \in TaskRecord
  <1>1. [r EXCEPT !.up = up] \in TaskRecord
      BY Zenon DEF TaskRecord
  <1>2. \A q \in TaskRecord : [q EXCEPT !.down = down] \in TaskRecord /\ [q EXCEPT !.at = p] \in TaskRecord
      BY Zenon DEF TaskRecord
  <1>3. [r EXCEPT !.up = up, !.down = down, !.at = p] = [[[r EXCEPT !.up = up] EXCEPT !.down = down] EXCEPT !.at = p]
      BY Zenon
  <1> QED BY <1>1, <1>2, <1>3, Zenon

\* So do they when a connection enters the backlog.
LEMMA TaskPlaced ==
    ASSUME NEW r \in TaskRecord, NEW l \in Listeners
    PROVE  [r EXCEPT !.at = "backlog", !.lis = l] \in TaskRecord
  <1>1. [r EXCEPT !.at = "backlog"] \in TaskRecord
      BY Zenon DEF TaskRecord, TaskPlaces, OffStages
  <1>2. \A q \in TaskRecord : [q EXCEPT !.lis = l] \in TaskRecord
      BY Zenon DEF TaskRecord
  <1>3. [r EXCEPT !.at = "backlog", !.lis = l] = [[r EXCEPT !.at = "backlog"] EXCEPT !.lis = l]
      BY Zenon
  <1> QED BY <1>1, <1>2, <1>3, Zenon

\* A listener's record keeps its type.
LEMMA LisUpdate ==
    ASSUME NEW r \in LisRecord, NEW at \in LisPlaces, NEW fresh \in Apps \cup {None}, NEW conns \in SUBSET Apps,
           NEW port \in Ports \cup {None}
    PROVE  /\ [r EXCEPT !.at = at, !.fresh = fresh] \in LisRecord
           /\ [r EXCEPT !.at = at, !.fresh = fresh, !.conns = conns] \in LisRecord
           /\ [r EXCEPT !.at = at, !.port = port] \in LisRecord
  <1>1. \A q \in LisRecord : [q EXCEPT !.at = at] \in LisRecord
      BY Zenon DEF LisRecord
  <1>2. \A q \in LisRecord : [q EXCEPT !.fresh = fresh] \in LisRecord
      BY Zenon DEF LisRecord
  <1>3. \A q \in LisRecord : [q EXCEPT !.conns = conns] \in LisRecord
      BY Zenon DEF LisRecord
  <1>4. \A q \in LisRecord : [q EXCEPT !.port = port] \in LisRecord
      BY Zenon DEF LisRecord
  <1>5. /\ [r EXCEPT !.at = at, !.fresh = fresh] = [[r EXCEPT !.at = at] EXCEPT !.fresh = fresh]
        /\ [r EXCEPT !.at = at, !.port = port] = [[r EXCEPT !.at = at] EXCEPT !.port = port]
        /\ [r EXCEPT !.at = at, !.fresh = fresh, !.conns = conns]
              = [[[r EXCEPT !.at = at] EXCEPT !.fresh = fresh] EXCEPT !.conns = conns]
      BY Zenon
  <1> QED BY <1>1, <1>2, <1>3, <1>4, <1>5, Zenon

\* The steps of a connection task are such steps.
LEMMA TaskSteps ==
    ASSUME ListInv, NEW a \in Apps, TaskStep(a)
    PROVE  Apart
  <1> USE DEF ListInv, TaskTypes, TaskRecord, TaskPlaces, OffStages, Apart
  <1>1. CASE Leaves(a) /\ task[a].at # "none"
      BY <1>1 DEF Leaves, quic
  <1>2. CASE Snapshot(a)
      BY <1>2, ZenonT(30) DEF Snapshot, quic
  <1>3. ASSUME NEW s \in {"read", "open"}, GoesTo(a, s), task[a].at \in {"peek", "read"} PROVE Apart
      BY <1>3 DEF GoesTo, quic
  <1>4. CASE Rejects(a) /\ task[a].at = "read"
      BY <1>4 DEF Rejects, quic
  <1>5. CASE OpenStream(a) /\ ~Leaves(a)
      BY <1>5 DEF OpenStream, quic
  <1>6. ASSUME NEW s, Answer(a, s), task[a].at = "status" PROVE Apart
    <2>1. PICK p \in {"copy", "gone"} : task' = [task EXCEPT ![a].at = p]
        BY <1>6, Zenon DEF Answer
    <2>2. UNCHANGED <<toggle, quic>>
        BY <1>6, Zenon DEF Answer
    <2> QED BY <1>6, <2>1, <2>2 DEF quic
  <1>7. CASE CopyUp(a) \/ CopyDown(a)
      BY <1>7, Zenon DEF CopyUp, CopyDown, quic
  <1>8. CASE CopyUpEnds(a)
    <2>1. PICK up \in BOOLEAN, down \in BOOLEAN, p \in {"copy", "gone"} :
             task' = [task EXCEPT ![a].up = up, ![a].down = down, ![a].at = p]
        BY <1>8, Zenon DEF CopyUpEnds, HalfDone
    <2>2. task[a].at = "copy" /\ UNCHANGED <<toggle, client, made>>
        BY <1>8, Zenon DEF CopyUpEnds, quic
    <2>3. task' \in [Apps -> TaskRecord]
      <3>0. task[a] \in TaskRecord /\ p \in TaskPlaces
          BY Zenon
      <3> HIDE DEF TaskRecord, TaskPlaces
      <3>1. [task[a] EXCEPT !.up = up, !.down = down, !.at = p] \in TaskRecord
          BY <3>0, TaskUpdate, Zenon
      <3> QED BY <2>1, <3>1, Zenon
    <2>4. \A b \in Apps : b # a => task'[b] = task[b]
        BY <2>1, Zenon
    <2>5. task'[a].lis = task[a].lis /\ task'[a].aborted = task[a].aborted
        BY <2>1
    <2> QED BY <2>2, <2>3, <2>4, <2>5, Zenon
  <1>9. CASE CopyDownEnds(a)
    <2>1. PICK up \in BOOLEAN, down \in BOOLEAN, p \in {"copy", "gone"} :
             task' = [task EXCEPT ![a].up = up, ![a].down = down, ![a].at = p]
        BY <1>9, Zenon DEF CopyDownEnds, HalfDone
    <2>2. task[a].at = "copy" /\ UNCHANGED <<toggle, client, made>>
        BY <1>9, Zenon DEF CopyDownEnds, quic
    <2>3. task' \in [Apps -> TaskRecord]
      <3>0. task[a] \in TaskRecord /\ p \in TaskPlaces
          BY Zenon
      <3> HIDE DEF TaskRecord, TaskPlaces
      <3>1. [task[a] EXCEPT !.up = up, !.down = down, !.at = p] \in TaskRecord
          BY <3>0, TaskUpdate, Zenon
      <3> QED BY <2>1, <3>1, Zenon
    <2>4. \A b \in Apps : b # a => task'[b] = task[b]
        BY <2>1, Zenon
    <2>5. task'[a].lis = task[a].lis /\ task'[a].aborted = task[a].aborted
        BY <2>1
    <2> QED BY <2>2, <2>3, <2>4, <2>5, Zenon
  <1>10. CASE Cancelled(a)
      BY <1>1, <1>10, Zenon DEF Cancelled, Running
  <1>11. CASE Refuse(a)
      BY <1>1, <1>11, Zenon DEF Refuse
  <1>12. CASE Peek(a)
      BY <1>1, <1>3, <1>12, Zenon DEF Peek
  <1>13. CASE read_socks5_request(a) \/ read_http_connect_request(a)
      BY <1>3, <1>4, <1>13, Zenon DEF read_socks5_request, read_http_connect_request
  <1>14. CASE OpenStream(a)
      BY <1>1, <1>5, <1>14, Zenon DEF OpenStream
  <1>15. CASE ReadStatus(a)
      BY <1>6, <1>15, Zenon DEF ReadStatus
  <1> QED BY <1>2, <1>7, <1>8, <1>9, <1>10, <1>11, <1>12, <1>13, <1>14, <1>15, Zenon DEF TaskStep

\* So are those of the ends, of the server's stream tasks and of the QUIC connection.
LEMMA OtherSteps ==
    ASSUME ListInv, \/ QuicUp \/ (\E c \in 1 .. MaxConns : ConnLost(c)) \/ KeeperClears
                    \/ \E a \in Apps : StreamStep(a)
                    \/ \E a \in Apps : Peers(a) /\ ~Connect(a)
                    \/ UNCHANGED vars
    PROVE  Apart
  <1>1. /\ UNCHANGED <<toggle, task>>
        /\ UNCHANGED <<client, made>> \/ QuicUp \/ KeeperClears
      BY ZenonT(30) DEF QuicUp, ConnLost, KeeperClears, StreamStep, Resolve, Dial, Fails, ToHost, ToHostEnds, FromHost,
             FromHostEnds, Peers, AppRequests, AppSends, AppEnds, HostSends, HostEnds, quic, vars
  <1>2. client' \in Int /\ made' \in Int
      BY <1>1 DEF QuicUp, KeeperClears, ListInv, TaskTypes
  <1> QED BY <1>1, <1>2, Zenon DEF Apart, ListInv, TaskTypes

\* Toggling forgets nobody: a list is emptied by the call that has told its tasks to stop.
LEMMA CallerSteps ==
    ASSUME ListInv, NEW u \in Callers, CallerStep(u)
    PROVE  ListInv'
  <1>1. UNCHANGED <<client, made>>
      BY Zenon DEF CallerStep, Enable, Bind, Install, Disable, abort_all_conns, quic
  <1>2. CASE abort_all_conns(u)
    <2> DEFINE l == caller[u].mine
    <2>1. /\ l \in Listeners /\ lis' = [lis EXCEPT ![l].conns = {}] /\ handle' = handle
          /\ caller' = [caller EXCEPT ![u] = Idle]
          /\ task' = [a \in Apps |-> IF a \in lis[l].conns THEN [task[a] EXCEPT !.aborted = TRUE] ELSE task[a]]
        BY <1>2, Zenon DEF abort_all_conns, ListInv, ToggleTypes
    <2> HIDE DEF l
    <2>2. ToggleTypes'
        BY <2>1 DEF ListInv, ToggleTypes, LisRecord, CallerRecord, Idle
    <2>3. TaskTypes'
        BY <1>1, <2>1, ZenonT(30) DEF ListInv, TaskTypes, TaskRecord
    <2>4. FreshIsSpawned'
        BY <2>1 DEF ListInv, ToggleTypes, LisRecord, FreshIsSpawned
    <2>5. NoneForgotten'
      <3>1. SUFFICES ASSUME NEW a \in Apps, Running(a)', ~task'[a].aborted
                     PROVE  a \in lis'[task'[a].lis].conns \/ lis'[task'[a].lis].fresh = a
          BY Zenon DEF NoneForgotten
      <3>2. a \notin lis[l].conns /\ task'[a] = task[a]
          BY <2>1, <3>1, Zenon DEF ListInv, TaskTypes, TaskRecord
      <3>3. Running(a) /\ ~task[a].aborted
          BY <3>1, <3>2, Zenon DEF Running
      <3>4. task[a].lis \in Listeners
          BY <3>3, Zenon DEF ListInv, TaskTypes, Running, OffStages
      <3>5. a \in lis[task[a].lis].conns \/ lis[task[a].lis].fresh = a
          BY <3>3, Zenon DEF ListInv, NoneForgotten
      <3> QED BY <2>1, <3>2, <3>4, <3>5 DEF ListInv, ToggleTypes, LisRecord
    <2> QED BY <2>2, <2>3, <2>4, <2>5, Zenon DEF ListInv
  <1>3. ASSUME task' = task, ToggleTypes',
               \A l \in Listeners : /\ lis'[l].conns = lis[l].conns /\ lis'[l].fresh = lis[l].fresh
                                    /\ lis'[l].at = "spawned" <=> lis[l].at = "spawned"
        PROVE  ListInv'
      BY <1>1, <1>3, Zenon DEF ListInv, TaskTypes, FreshIsSpawned, NoneForgotten, Running, OffStages
  <1>4. ASSUME NEW p \in Ports, Enable(u, p) PROVE ListInv'
    <2>1. ToggleTypes' /\ task' = task /\ lis' = lis
        BY <1>4, ZenonT(30) DEF Enable, ListInv, ToggleTypes, CallerRecord
    <2> QED BY <1>3, <2>1, Zenon
  <1>5. CASE Bind(u)
    <2>1. CASE UNCHANGED lis /\ caller' = [caller EXCEPT ![u] = Idle]
      <3>1. ToggleTypes' /\ task' = task
          BY <1>5, <2>1, Zenon DEF Bind, Idle, ListInv, ToggleTypes, CallerRecord
      <3> QED BY <1>3, <2>1, <3>1, Zenon
    <2>2. CASE \E l \in Listeners :
             /\ lis[l].at = "unbound"
             /\ lis' = [lis EXCEPT ![l].at = "parked", ![l].port = caller[u].port]
             /\ caller' = [caller EXCEPT ![u].at = "install", ![u].mine = l]
      <3>1. PICK l \in Listeners : /\ lis[l].at = "unbound"
                                   /\ lis' = [lis EXCEPT ![l].at = "parked", ![l].port = caller[u].port]
                                   /\ caller' = [caller EXCEPT ![u].at = "install", ![u].mine = l]
          BY <2>2, Zenon
      <3>2. task' = task /\ handle' = handle /\ caller[u].port \in Ports
          BY <1>5, Zenon DEF Bind, ListInv, ToggleTypes
      <3>3. ToggleTypes'
        <4>1. lis' \in [Listeners -> LisRecord]
          <5>1. lis' = [lis EXCEPT ![l] = [@ EXCEPT !.at = "parked", !.port = caller[u].port]]
              BY <3>1, Zenon DEF ListInv, ToggleTypes
          <5>2. [lis[l] EXCEPT !.at = "parked", !.port = caller[u].port] \in LisRecord
              BY <3>2, LisUpdate, Zenon DEF ListInv, ToggleTypes, LisPlaces
          <5> QED BY <5>1, <5>2, Zenon DEF ListInv, ToggleTypes
        <4>2. /\ caller' \in [Callers -> CallerRecord]
              /\ caller'[u].at = "install" /\ caller'[u].mine = l
              /\ \A v \in Callers : v # u => caller'[v] = caller[v]
            BY <3>1, ZenonT(30) DEF ListInv, ToggleTypes, CallerRecord
        <4> QED BY <3>2, <4>1, <4>2, Zenon DEF ListInv, ToggleTypes
      <3>4. \A k \in Listeners : /\ lis'[k].conns = lis[k].conns /\ lis'[k].fresh = lis[k].fresh
                                 /\ lis'[k].at = "spawned" <=> lis[k].at = "spawned"
          BY <3>1 DEF ListInv, ToggleTypes, LisRecord
      <3> QED BY <1>3, <3>2, <3>3, <3>4, Zenon
    <2> QED BY <1>5, <2>1, <2>2, Zenon DEF Bind
  <1>6. CASE Install(u) \/ Disable(u)
    <2>1. task' = task
        BY <1>6, Zenon DEF Install, Disable
    <2>2. ToggleTypes'
      <3>1. PICK at \in {"idle", "drain"}, mine \in Listeners \cup {None} :
               /\ at = "drain" => mine \in Listeners
               /\ \/ caller' = [caller EXCEPT ![u] = Idle] /\ at = "idle"
                  \/ caller' = [caller EXCEPT ![u].at = at, ![u].mine = mine] /\ at = "drain"
          BY <1>6 DEF Install, Disable, ListInv, ToggleTypes, CallerRecord
      <3>2. /\ caller' \in [Callers -> CallerRecord]
            /\ caller'[u].at = at /\ (at = "drain" => caller'[u].mine = mine)
            /\ \A v \in Callers : v # u => caller'[v] = caller[v]
          BY <3>1 DEF Idle, ListInv, ToggleTypes, CallerRecord
      <3>3. lis' \in [Listeners -> LisRecord]
        <4>1. lis' = lis \/ \E k \in Listeners : lis' = [lis EXCEPT ![k].aborted = TRUE]
            BY <1>6, Zenon DEF Install, Disable, ListInv, ToggleTypes
        <4>2. ASSUME NEW k \in Listeners, lis' = [lis EXCEPT ![k].aborted = TRUE]
              PROVE  lis' \in [Listeners -> LisRecord]
            BY <4>2, ZenonT(30) DEF ListInv, ToggleTypes, LisRecord
        <4> QED BY <4>1, <4>2, Zenon DEF ListInv, ToggleTypes
      <3>4. handle' \in Listeners \cup {None}
          BY <1>6, Zenon DEF Install, Disable, ListInv, ToggleTypes
      <3> QED BY <3>1, <3>2, <3>3, <3>4, Zenon DEF ListInv, ToggleTypes
    <2>3. \A k \in Listeners : /\ lis'[k].conns = lis[k].conns /\ lis'[k].fresh = lis[k].fresh
                               /\ lis'[k].at = "spawned" <=> lis[k].at = "spawned"
        BY <1>6 DEF Install, Disable, ListInv, ToggleTypes, LisRecord
    <2> QED BY <1>3, <2>1, <2>2, <2>3, Zenon
  <1> QED BY <1>2, <1>4, <1>5, <1>6, Zenon DEF CallerStep

\* A connection that waits to be accepted is not a task yet.
LEMMA ConnectStep ==
    ASSUME ListInv, NEW a \in Apps, Connect(a)
    PROVE  ListInv'
  <1>1. PICK l \in Listeners : task' = [task EXCEPT ![a].at = "backlog", ![a].lis = l]
      BY Zenon DEF Connect
  <1>2. UNCHANGED <<lis, handle, caller, client, made>>
      BY Zenon DEF Connect, toggle, quic
  <1>3. task'[a].at = "backlog" /\ task'[a].lis = l /\ \A b \in Apps : b # a => task'[b] = task[b]
      BY <1>1, Zenon DEF ListInv, TaskTypes, TaskRecord
  <1>4. task' \in [Apps -> TaskRecord]
    <2>1. task \in [Apps -> TaskRecord] /\ [task[a] EXCEPT !.at = "backlog", !.lis = l] \in TaskRecord
        BY TaskPlaced, Zenon DEF ListInv, TaskTypes
    <2> QED BY <1>1, <2>1, Zenon
  <1>5. TaskTypes'
      BY <1>2, <1>3, <1>4, Zenon DEF ListInv, TaskTypes
  <1>6. ToggleTypes' /\ FreshIsSpawned'
      BY <1>2, Zenon DEF ListInv, ToggleTypes, FreshIsSpawned
  <1>7. NoneForgotten'
      BY <1>2, <1>3, Zenon DEF ListInv, NoneForgotten, Running, OffStages
  <1> QED BY <1>5, <1>6, <1>7, Zenon DEF ListInv

\* The accept loop forgets nobody: it holds the task it accepted until it has entered it,
\* and accepts no other in between.
LEMMA ListenerSteps ==
    ASSUME ListInv, NEW l \in Listeners, ListenerStep(l) \/ ListenerEnds(l)
    PROVE  ListInv'
  <1>0. UNCHANGED <<handle, caller, client, made>>
      BY Zenon DEF ListenerStep, Accept, Register, ListenerEnds, quic
  <1>1. ASSUME NEW a \in Apps, Accept(l, a) PROVE ListInv'
    <2>1. /\ task[a].at = "backlog" /\ task[a].lis = l /\ lis[l].at # "spawned"
          /\ task' = [task EXCEPT ![a].at = "wait"]
          /\ lis' = [lis EXCEPT ![l].at = "spawned", ![l].fresh = a]
        BY <1>1, Zenon DEF Accept, Backlog
    <2>2. lis' \in [Listeners -> LisRecord]
      <3>1. lis \in [Listeners -> LisRecord] /\ [lis[l] EXCEPT !.at = "spawned", !.fresh = a] \in LisRecord
          BY LisUpdate, Zenon DEF ListInv, ToggleTypes, LisPlaces
      <3> QED BY <2>1, <3>1, Zenon
    <2>3. /\ lis'[l].at = "spawned" /\ lis'[l].fresh = a /\ lis'[l].conns = lis[l].conns
          /\ \A k \in Listeners : k # l => lis'[k] = lis[k]
        BY <2>1 DEF ListInv, ToggleTypes, LisRecord
    <2>4. task' \in [Apps -> TaskRecord]
        BY <2>1 DEF ListInv, TaskTypes, TaskRecord, TaskPlaces
    <2>5. /\ task'[a].lis = l
          /\ \A b \in Apps : b # a => task'[b] = task[b]
        BY <2>1, Zenon DEF ListInv, TaskTypes, TaskRecord
    <2>6. ToggleTypes' /\ TaskTypes' /\ FreshIsSpawned'
      <3>1. ToggleTypes'
          BY <1>0, <2>2, Zenon DEF ListInv, ToggleTypes
      <3>2. TaskTypes'
          BY <1>0, <2>4, <2>5, Zenon DEF ListInv, TaskTypes
      <3>3. FreshIsSpawned'
          BY <2>3, NamesAssumption, Zenon DEF ListInv, FreshIsSpawned
      <3> QED BY <3>1, <3>2, <3>3, Zenon
    <2>7. NoneForgotten'
      <3>1. SUFFICES ASSUME NEW b \in Apps, b # a, Running(b), ~task[b].aborted
                     PROVE  b \in lis'[task[b].lis].conns \/ lis'[task[b].lis].fresh = b
          BY <2>3, <2>5 DEF NoneForgotten, Running
      <3>2. task[b].lis \in Listeners /\ (b \in lis[task[b].lis].conns \/ lis[task[b].lis].fresh = b)
          BY <3>1, Zenon DEF ListInv, TaskTypes, NoneForgotten, Running, OffStages
      <3>3. CASE task[b].lis # l
          BY <2>3, <3>2, <3>3, Zenon
      <3>4. CASE task[b].lis = l
        <4>1. lis[l].fresh = None
            BY <2>1, Zenon DEF ListInv, FreshIsSpawned
        <4>2. b \in lis[l].conns \/ b = None
            BY <3>2, <3>4, <4>1, Zenon
        <4> QED BY <2>3, <3>4, <4>2, NamesAssumption, Zenon
      <3> QED BY <3>3, <3>4, Zenon
    <2> QED BY <2>6, <2>7, Zenon DEF ListInv
  <1>2. CASE Register(l)
    <2>1. task' = task /\ lis[l].at = "spawned" /\ lis[l].fresh \in Apps
        BY <1>2, Zenon DEF Register, ListInv, ToggleTypes, LisRecord, FreshIsSpawned
    <2> DEFINE kept == {b \in lis[l].conns : task[b].at # "gone"} \cup {lis[l].fresh}
    <2>2. PICK at \in {"parked", "polling"} :
             lis' = [lis EXCEPT ![l].at = at, ![l].fresh = None, ![l].conns = kept]
        BY <1>2, Zenon DEF Register
    <2>3. kept \in SUBSET Apps
        BY <2>1, Zenon DEF ListInv, ToggleTypes, LisRecord
    <2> HIDE DEF kept
    <2>4. /\ lis'[l].at = at /\ lis'[l].fresh = None /\ lis'[l].conns = kept
          /\ \A k \in Listeners : k # l => lis'[k] = lis[k]
        BY <2>2 DEF ListInv, ToggleTypes, LisRecord
    <2>5. lis' \in [Listeners -> LisRecord]
      <3>1. lis \in [Listeners -> LisRecord] /\ [lis[l] EXCEPT !.at = at, !.fresh = None, !.conns = kept] \in LisRecord
          BY <2>3, LisUpdate, Zenon DEF ListInv, ToggleTypes, LisPlaces
      <3> QED BY <2>2, <3>1, Zenon
    <2>6. ToggleTypes' /\ TaskTypes' /\ FreshIsSpawned'
        BY <1>0, <2>1, <2>4, <2>5, Zenon DEF ListInv, ToggleTypes, TaskTypes, FreshIsSpawned
    <2>7. NoneForgotten'
      <3>1. SUFFICES ASSUME NEW b \in Apps, Running(b), ~task[b].aborted
                     PROVE  b \in lis'[task[b].lis].conns \/ lis'[task[b].lis].fresh = b
          BY <2>1, Zenon DEF NoneForgotten, Running
      <3>2. task[b].lis \in Listeners /\ (b \in lis[task[b].lis].conns \/ lis[task[b].lis].fresh = b)
          BY <3>1, Zenon DEF ListInv, TaskTypes, NoneForgotten, Running, OffStages
      <3>3. CASE task[b].lis # l
          BY <2>4, <3>2, <3>3, Zenon
      <3>4. CASE task[b].lis = l
        <4>1. b \in kept
            BY <3>1, <3>2, <3>4, Zenon DEF kept, Running, OffStages
        <4> QED BY <2>4, <3>4, <4>1, Zenon
      <3> QED BY <3>3, <3>4, Zenon
    <2> QED BY <2>6, <2>7, Zenon DEF ListInv
  <1>3. CASE ListenerEnds(l)
    <2>1. /\ lis[l].at # "spawned" /\ lis' = [lis EXCEPT ![l].at = "dead", ![l].port = None]
          /\ task' = [a \in Apps |-> IF a \in Backlog(l) THEN [task[a] EXCEPT !.at = "gone"] ELSE task[a]]
        BY <1>3, Zenon DEF ListenerEnds
    <2>2. lis' \in [Listeners -> LisRecord]
      <3>1. lis \in [Listeners -> LisRecord] /\ [lis[l] EXCEPT !.at = "dead", !.port = None] \in LisRecord
          BY LisUpdate, Zenon DEF ListInv, ToggleTypes, LisPlaces
      <3> QED BY <2>1, <3>1, Zenon
    <2>3. \A k \in Listeners : /\ lis'[k].conns = lis[k].conns /\ lis'[k].fresh = lis[k].fresh
                               /\ lis'[k].at = "spawned" <=> lis[k].at = "spawned"
        BY <2>1 DEF ListInv, ToggleTypes, LisRecord
    <2>4. task' \in [Apps -> TaskRecord]
        BY <2>1 DEF ListInv, TaskTypes, TaskRecord, TaskPlaces, OffStages
    <2>5. \A a \in Apps : /\ task'[a].lis = task[a].lis /\ task'[a].aborted = task[a].aborted
                          /\ task'[a].at # "none" => task[a].at # "none"
                          /\ task'[a].at \notin OffStages => task[a].at \notin OffStages
        BY <2>1, Zenon DEF ListInv, TaskTypes, TaskRecord, Backlog, OffStages
    <2>6. ToggleTypes'
        BY <1>0, <2>2, Zenon DEF ListInv, ToggleTypes
    <2>7. TaskTypes' /\ FreshIsSpawned'
        BY <1>0, <2>3, <2>4, <2>5, Zenon DEF ListInv, TaskTypes, FreshIsSpawned
    <2>8. NoneForgotten'
      <3>1. \A a \in Apps : Running(a) => task[a].lis \in Listeners
          BY Zenon DEF ListInv, TaskTypes, Running, OffStages
      <3> QED BY <2>3, <2>5, <3>1 DEF ListInv, NoneForgotten, Running
    <2> QED BY <2>6, <2>7, <2>8, Zenon DEF ListInv
  <1> QED BY <1>1, <1>2, <1>3, Zenon DEF ListenerStep

\* Every step preserves the invariant.
LEMMA NextListInv == ListInv /\ [Next]_vars => ListInv'
  <1> SUFFICES ASSUME ListInv, [Next]_vars PROVE ListInv'
      BY Zenon
  <1>1. ASSUME NEW a \in Apps, Peers(a) PROVE ListInv'
      BY <1>1, ConnectStep, OtherSteps, ApartStep, Zenon
  <1>2. ASSUME NEW a \in Apps, TaskStep(a) \/ StreamStep(a) PROVE ListInv'
      BY <1>2, TaskSteps, OtherSteps, ApartStep, Zenon
  <1>3. CASE QuicUp \/ (\E c \in 1 .. MaxConns : ConnLost(c)) \/ KeeperClears \/ UNCHANGED vars
      BY <1>3, OtherSteps, ApartStep, Zenon
  <1> QED BY <1>1, <1>2, <1>3, CallerSteps, ListenerSteps, Zenon DEF Next

\* The toggle can reach every connection, for any number of listeners, callers and
\* connections: a running task is in its listener's list, in the accept loop's hands, or
\* has been told to stop (the accept loop and abort_all_conns, socks5_quic.rs).
THEOREM TasksAreListed == Spec => []NoneForgotten
  <1>1. ListInv => NoneForgotten
      BY Zenon DEF ListInv
  <1> QED BY <1>1, InitListInv, NextListInv, PTL DEF Spec

-----------------------------------------------------------------------------
(* What an application is told, and in which order.                          *)

\* Every entry of the ends', the streams' and the server's tables has its fields.
Shapes ==
    /\ DOMAIN sv = Apps /\ DOMAIN app = Apps /\ DOMAIN wire = Apps /\ DOMAIN host = Apps
    /\ \A a \in Apps :
         /\ {"at", "addr", "verdict", "up", "down"} \subseteq DOMAIN sv[a]
         /\ {"req", "sent", "end", "reply", "got", "eof"} \subseteq DOMAIN app[a]
         /\ {"got", "eof", "sent", "end"} \subseteq DOMAIN host[a]
         /\ {"on", "up", "upFin", "upStop", "status", "down", "downFin", "downStop"} \subseteq DOMAIN wire[a]

\* The QUIC connections are numbered as they are made.
Known ==
    /\ made \in Nat /\ client \in 0 .. made /\ open \subseteq 1 .. made
    /\ \A a \in Apps : task[a].conn \in 0 .. made

Decided(a) == sv[a].at \notin {"none", "dial"}

\* A reply that is neither a rejection nor the general failure.
Substantive(a) == app[a].reply \notin {None, "Rejected", Reply(a, "General")}

\* The verdict is final by the time it is told.
VerdictInv ==
    /\ VerdictFaithful
    /\ \A a \in Apps : /\ wire[a].status # None => wire[a].status = sv[a].verdict /\ Decided(a)
                       /\ Substantive(a) => Decided(a)
                       /\ ~Decided(a) => sv[a].verdict = None
                       /\ sv[a].at = "none" => sv[a].addr = None
                       /\ sv[a].at = "dial" => sv[a].addr # None

Counts(a) == /\ app[a].sent \in Int /\ app[a].got \in Int /\ wire[a].up \in Int /\ wire[a].down \in Int
             /\ host[a].sent \in Int /\ host[a].got \in Int

\* A stream is opened for a request that was read, and whose name the envelope can hold.
Requested(a) ==
    /\ task[a].at = "read" => app[a].req # "none"
    /\ task[a].at = "open" \/ wire[a].on => app[a].req # "none" /\ NameLen(app[a].req) <= MAX_NAME

\* Where the two tasks are decides which halves of the stream and of the sockets are over.
Before == {"none", "backlog", "wait", "peek", "read", "open"}
Places(a) ==
    /\ task[a].at \in Before => ~wire[a].on /\ ~app[a].eof
    /\ ~wire[a].on => sv[a].at = "none" /\ ~wire[a].upFin /\ ~wire[a].downStop
    /\ wire[a].on /\ ~Decided(a) /\ Unbroken(a) => task[a].at = "status"
    /\ ~Decided(a) => ~wire[a].upStop /\ ~wire[a].downFin /\ ~host[a].eof
    /\ task[a].at = "status" => wire[a].on /\ ~wire[a].upFin /\ ~wire[a].downStop
    /\ task[a].at = "copy" => wire[a].status = "Succeeded"
    /\ sv[a].at = "copy" => sv[a].verdict = "Succeeded"
    /\ task[a].up => wire[a].upFin
    /\ task[a].down => wire[a].downStop
    /\ host[a].eof => wire[a].upStop /\ sv[a].verdict = "Succeeded"
    /\ app[a].eof /\ wire[a].on => wire[a].downStop
    /\ app[a].reply = Reply(a, "Succeeded") => Decided(a) /\ sv[a].verdict = "Succeeded"

\* While nothing breaks, a half that is over has carried everything.
Flowing(a) ==
    Unbroken(a) /\ sv[a].verdict = "Succeeded" =>
       /\ wire[a].upFin => app[a].end = "fin" /\ wire[a].up = app[a].sent
       /\ wire[a].upStop => wire[a].upFin /\ host[a].got = wire[a].up
       /\ wire[a].downFin => host[a].end = "fin" /\ wire[a].down = host[a].sent
       /\ wire[a].downStop => wire[a].downFin /\ app[a].got = wire[a].down

Orderly(a) == Counts(a) /\ Requested(a) /\ Places(a) /\ Flowing(a)

RelayInv == ListInv /\ Shapes /\ Known /\ VerdictInv /\ \A a \in Apps : Orderly(a)

\* The initial states satisfy it.
LEMMA InitRelayInv == Init => RelayInv
  <1> SUFFICES ASSUME Init PROVE RelayInv
      BY Zenon
  <1>1. Shapes /\ Known
      BY DEF Init, Shapes, Known
  <1>2. \A a \in Apps : /\ wire[a].status = None /\ app[a].reply = None
                        /\ sv[a].at = "none" /\ sv[a].verdict = None /\ sv[a].addr = None
      BY Zenon DEF Init
  <1>3. None \notin {"Succeeded", "Blocked"} /\ \A a \in Apps : Reply(a, "Succeeded") # None
      BY NamesAssumption, Zenon DEF Statuses, Codes, Reply, HttpReply
  <1>4. VerdictInv
      BY <1>2, <1>3, Zenon DEF VerdictInv, VerdictFaithful, Substantive, Decided
  <1>5. ASSUME NEW a \in Apps PROVE Counts(a) /\ Requested(a)
      BY DEF Init, Counts, Requested
  <1>6. ASSUME NEW a \in Apps PROVE Places(a)
    <2>1. /\ task[a].at = "none" /\ ~wire[a].on /\ ~wire[a].upFin /\ ~wire[a].downStop /\ ~wire[a].upStop
          /\ ~wire[a].downFin /\ ~host[a].eof /\ ~app[a].eof /\ ~task[a].up /\ ~task[a].down
        BY Zenon DEF Init
    <2> QED BY <1>2, <1>3, <2>1, Zenon DEF Places, Decided
  <1>7. ASSUME NEW a \in Apps PROVE Flowing(a)
      BY <1>2, <1>3, Zenon DEF Flowing
  <1> QED BY <1>1, <1>4, <1>5, <1>6, <1>7, InitListInv, Zenon DEF RelayInv, Orderly

\* It is stronger than what is claimed.
LEMMA RelayInvIsEnough == RelayInv => RelayFaithful
  <1> SUFFICES ASSUME RelayInv, NEW a \in Apps, sv[a].at # "none", Unbroken(a)
               PROVE  /\ host[a].eof => app[a].end = "fin" /\ host[a].got = app[a].sent
                      /\ app[a].eof /\ app[a].reply = Reply(a, "Succeeded") => host[a].end = "fin" /\ app[a].got = host[a].sent
      BY Zenon DEF RelayInv, VerdictInv, RelayFaithful, EofIsLast
  <1> QED BY DEF RelayInv, Orderly, Places, Flowing

\* What happens elsewhere does not concern an application.
Alone(a) == /\ task'[a] = task[a] /\ app'[a] = app[a] /\ host'[a] = host[a] /\ wire'[a] = wire[a] /\ sv'[a] = sv[a]
LinkBack(a) == Linked(a)' => Linked(a)
LEMMA AloneStep ==
    ASSUME NEW a \in Apps, Orderly(a), Alone(a), LinkBack(a)
    PROVE  Orderly(a)'
  <1>1. (Unbroken(a)' => Unbroken(a)) /\ (Decided(a)' <=> Decided(a))
      BY Zenon DEF Alone, LinkBack, Unbroken, Decided
  <1>2. Counts(a)' /\ Requested(a)'
      BY Zenon DEF Orderly, Alone, Counts, Requested
  <1>3. Places(a)'
      BY <1>1, Zenon DEF Orderly, Alone, Places, Reply
  <1>4. Flowing(a)'
      BY <1>1 DEF Orderly, Alone, Flowing
  <1> QED BY <1>2, <1>3, <1>4, Zenon DEF Orderly

\* What a step does to the connections and to the numbers the tasks hold.
LEMMA NextKnown ==
    ASSUME TaskTypes, Known, [Next]_vars
    PROVE  /\ Known'
           /\ \A a \in Apps : task'[a].conn = task[a].conn => LinkBack(a)
  <1>1. CASE UNCHANGED quic /\ \A a \in Apps : task'[a].conn = task[a].conn
      BY <1>1, Zenon DEF Known, quic, LinkBack, Linked
  <1>2. CASE QuicUp
      BY <1>2 DEF QuicUp, Known, LinkBack, Linked
  <1>3. ASSUME NEW c \in 1 .. MaxConns, ConnLost(c) PROVE Known' /\ \A a \in Apps : LinkBack(a)
      BY <1>3, Zenon DEF ConnLost, Known, LinkBack, Linked
  <1>4. CASE KeeperClears
      BY <1>4 DEF KeeperClears, Known, LinkBack, Linked
  <1>5. ASSUME NEW a \in Apps, Snapshot(a)
        PROVE  Known' /\ \A b \in Apps : task'[b].conn = task[b].conn => LinkBack(b)
    <2>1. /\ UNCHANGED quic /\ task'[a].conn = client
          /\ \A b \in Apps : b # a => task'[b] = task[b]
        BY <1>5, Zenon DEF Snapshot, TaskTypes, TaskRecord
    <2> QED BY <2>1, Zenon DEF Known, quic, LinkBack, Linked
  <1>6. ASSUME NEW a \in Apps, Peers(a) \/ StreamStep(a)
        PROVE  UNCHANGED quic /\ \A b \in Apps : task'[b].conn = task[b].conn
    <2>1. CASE Connect(a)
        BY <2>1 DEF Connect, TaskTypes, TaskRecord
    <2>2. CASE StreamStep(a) \/ ~Connect(a)
        BY <1>6, <2>2, Zenon DEF StreamStep, Resolve, Dial, Fails, ToHost, ToHostEnds, FromHost, FromHostEnds, Peers,
                   AppRequests, AppSends, AppEnds, HostSends, HostEnds
    <2> QED BY <2>1, <2>2, Zenon
  <1>7. ASSUME NEW u \in Callers, CallerStep(u)
        PROVE  UNCHANGED quic /\ \A b \in Apps : task'[b].conn = task[b].conn
    <2>1. CASE abort_all_conns(u)
        BY <2>1, Zenon DEF abort_all_conns, TaskTypes, TaskRecord
    <2> QED BY <1>7, <2>1, Zenon DEF CallerStep, Enable, Bind, Install, Disable
  <1>8. ASSUME NEW l \in Listeners, ListenerStep(l) \/ ListenerEnds(l)
        PROVE  UNCHANGED quic /\ \A b \in Apps : task'[b].conn = task[b].conn
    <2>1. CASE ListenerEnds(l)
        BY <2>1, Zenon DEF ListenerEnds, TaskTypes, TaskRecord
    <2>2. CASE Register(l)
        BY <2>2, Zenon DEF Register
    <2>3. ASSUME NEW a \in Apps, Accept(l, a)
          PROVE  UNCHANGED quic /\ \A b \in Apps : task'[b].conn = task[b].conn
        BY <2>3, Zenon DEF Accept, TaskTypes, TaskRecord
    <2> QED BY <1>8, <2>1, <2>2, <2>3, Zenon DEF ListenerStep
  <1>9. ASSUME NEW a \in Apps, TaskStep(a), ~Snapshot(a)
        PROVE  UNCHANGED quic /\ \A b \in Apps : task'[b].conn = task[b].conn
    <2> USE DEF TaskTypes, TaskRecord
    <2>1. ASSUME Leaves(a) \/ Rejects(a) \/ (\E p \in {"read", "open"} : GoesTo(a, p))
          PROVE  UNCHANGED quic /\ \A b \in Apps : task'[b].conn = task[b].conn
        BY <2>1 DEF Leaves, Rejects, GoesTo
    <2>2. CASE Cancelled(a) \/ Refuse(a) \/ Peek(a) \/ read_socks5_request(a) \/ read_http_connect_request(a)
        BY <2>1, <2>2, Zenon DEF Cancelled, Refuse, Peek, read_socks5_request, read_http_connect_request
    <2>3. CASE OpenStream(a)
        BY <2>1, <2>3 DEF OpenStream
    <2>4. CASE ReadStatus(a)
        BY <2>4 DEF ReadStatus, Answer
    <2>5. CASE CopyUp(a) \/ CopyDown(a)
        BY <2>5, Zenon DEF CopyUp, CopyDown
    <2>6. CASE CopyUpEnds(a)
        BY <2>6, Zenon DEF CopyUpEnds, HalfDone
    <2>7. CASE CopyDownEnds(a)
        BY <2>7 DEF CopyDownEnds, HalfDone
    <2> QED BY <1>9, <2>2, <2>3, <2>4, <2>5, <2>6, <2>7, Zenon DEF TaskStep
  <1>10. CASE UNCHANGED vars
      BY <1>1, <1>10, Zenon DEF vars, quic
  <1> QED BY <1>1, <1>2, <1>3, <1>4, <1>5, <1>6, <1>7, <1>8, <1>9, <1>10, Zenon DEF Next

\* An application's own step changes nothing of another's.
LEMMA OthersAlone ==
    ASSUME TaskTypes, Shapes, NEW a \in Apps, TaskStep(a) \/ StreamStep(a) \/ Peers(a),
           NEW b \in Apps, b # a
    PROVE  Alone(b)
  <1> USE DEF TaskTypes, Shapes, Alone, ends
  <1>1. CASE Leaves(a)
      BY <1>1, Zenon DEF Leaves
  <1>2. CASE Rejects(a) \/ \E p \in {"read", "open"} : GoesTo(a, p)
      BY <1>2, Zenon DEF Rejects, GoesTo
  <1>3. CASE Cancelled(a) \/ Refuse(a) \/ Peek(a) \/ read_socks5_request(a) \/ read_http_connect_request(a)
      BY <1>1, <1>2, <1>3, Zenon DEF Cancelled, Refuse, Peek, read_socks5_request, read_http_connect_request
  <1>4. CASE OpenStream(a) \/ Snapshot(a)
      BY <1>1, <1>4, Zenon DEF OpenStream, Snapshot
  <1>5. CASE ReadStatus(a)
      BY <1>5 DEF ReadStatus, Answer
  <1>6. CASE CopyUp(a) \/ CopyDown(a)
      BY <1>6, Zenon DEF CopyUp, CopyDown
  <1>7. CASE CopyUpEnds(a) \/ CopyDownEnds(a)
      BY <1>7 DEF CopyUpEnds, CopyDownEnds, HalfDone
  <1>8. CASE Resolve(a) \/ Dial(a)
      BY <1>8, ZenonT(30) DEF Resolve, Dial, Fails
  <1>9. CASE ToHost(a) \/ FromHost(a)
      BY <1>9, Zenon DEF ToHost, FromHost
  <1>10. CASE ToHostEnds(a) \/ FromHostEnds(a)
      BY <1>10 DEF ToHostEnds, FromHostEnds, ServerHalfDone
  <1>11. CASE Peers(a)
      BY <1>11, Zenon DEF Peers, Connect, AppRequests, AppSends, AppEnds, HostSends, HostEnds
  <1> QED BY <1>3, <1>4, <1>5, <1>6, <1>7, <1>8, <1>9, <1>10, <1>11, Zenon DEF TaskStep, StreamStep

\* Nothing that broke is mended.
LEMMA StaysBroken ==
    ASSUME NEW a \in Apps, LinkBack(a), task[a].aborted => task'[a].aborted,
           app[a].end = "rst" => app'[a].end = "rst", host[a].end = "rst" => host'[a].end = "rst"
    PROVE  Unbroken(a)' => Unbroken(a)
  BY Zenon DEF LinkBack, Unbroken

\* A success is told apart from every other reply.
LEMMA RepliesDiffer ==
    ASSUME NEW a \in Apps
    PROVE  /\ Reply(a, "Succeeded") \notin {None, "Rejected", Reply(a, "General")}
           /\ \A s : Reply(a, s) = Reply(a, "Succeeded") => s = "Succeeded"
  BY NamesAssumption, Zenon DEF Reply, HttpReply, Statuses, Codes

\* The client's task keeps the halves in order.
LEMMA TaskOrderly ==
    ASSUME TaskTypes, Shapes, VerdictInv, NEW a \in Apps, Orderly(a), TaskStep(a),
           task'[a].conn = task[a].conn => LinkBack(a)
    PROVE  Orderly(a)'
  <1> USE DEF TaskTypes, TaskRecord, Shapes, Orderly
  <1>1. ASSUME Leaves(a), ~wire[a].on \/ ~Unbroken(a), task[a].at # "none" PROVE Orderly(a)'
    <2>1. /\ task'[a] = [task[a] EXCEPT !.at = "gone"] /\ app'[a] = [app[a] EXCEPT !.eof = TRUE]
          /\ wire'[a] = [wire[a] EXCEPT !.upFin = wire[a].on, !.downStop = wire[a].on]
          /\ host'[a] = host[a] /\ sv'[a] = sv[a]
        BY <1>1, Zenon DEF Leaves
    <2>2. /\ task'[a].at = "gone" /\ task'[a].up = task[a].up /\ task'[a].down = task[a].down
          /\ task'[a].conn = task[a].conn /\ task'[a].aborted = task[a].aborted
          /\ app'[a].req = app[a].req /\ app'[a].end = app[a].end /\ app'[a].reply = app[a].reply
          /\ app'[a].sent = app[a].sent /\ app'[a].got = app[a].got
          /\ wire'[a].on = wire[a].on /\ wire'[a].upStop = wire[a].upStop /\ wire'[a].downFin = wire[a].downFin
          /\ wire'[a].up = wire[a].up /\ wire'[a].down = wire[a].down /\ wire'[a].status = wire[a].status
          /\ wire'[a].upFin = wire[a].on /\ wire'[a].downStop = wire[a].on
        BY <2>1
    <2>3. (Decided(a)' <=> Decided(a)) /\ (Unbroken(a)' => Unbroken(a))
        BY <2>1, <2>2, StaysBroken, Zenon DEF Decided
    <2>4. Counts(a)' /\ Requested(a)'
        BY <2>1, <2>2, Zenon DEF Counts, Requested
    <2>5. Places(a)'
        BY <1>1, <2>1, <2>2, <2>3 DEF Places, Before, Reply
    <2>6. Flowing(a)'
      <3>1. sv[a].verdict = "Succeeded" /\ ~wire[a].on => FALSE
          BY NamesAssumption, Zenon DEF Places, VerdictInv, Decided, Statuses
      <3> QED BY <1>1, <2>1, <2>3, <3>1 DEF Flowing
    <2> QED BY <2>4, <2>5, <2>6, Zenon
  <1>2. ASSUME NEW p \in {"read", "open"}, GoesTo(a, p), task[a].at \in {"peek", "read"},
               app[a].req # "none", p = "open" => NameLen(app[a].req) <= MAX_NAME
        PROVE Orderly(a)'
    <2>1. /\ task'[a] = [task[a] EXCEPT !.at = p] /\ UNCHANGED <<app, host, wire, sv>>
        BY <1>2, Zenon DEF GoesTo, ends
    <2>2. /\ task'[a].at = p /\ task'[a].up = task[a].up /\ task'[a].down = task[a].down
          /\ task'[a].conn = task[a].conn /\ task'[a].aborted = task[a].aborted
        BY <2>1
    <2>3. (Decided(a)' <=> Decided(a)) /\ (Unbroken(a)' => Unbroken(a))
        BY <2>1, <2>2, StaysBroken, Zenon DEF Decided
    <2>4. Counts(a)' /\ Requested(a)'
        BY <1>2, <2>1, <2>2, Zenon DEF Counts, Requested, Places, Before, NameLen
    <2>5. Places(a)'
        BY <1>2, <2>1, <2>2, <2>3, Zenon DEF Places, Before, Reply
    <2>6. Flowing(a)'
        BY <2>1, <2>3, Zenon DEF Flowing
    <2> QED BY <2>4, <2>5, <2>6, Zenon
  <1>3. CASE Snapshot(a)
    <2>1. /\ task'[a] = [task[a] EXCEPT !.at = "peek", !.conn = client] /\ UNCHANGED <<app, host, wire, sv>>
          /\ task[a].at = "wait"
        BY <1>3, Zenon DEF Snapshot, ends
    <2>2. task'[a].at = "peek" /\ task'[a].up = task[a].up /\ task'[a].down = task[a].down
        BY <2>1
    <2>3. ~wire[a].on /\ ~Decided(a) /\ sv[a].verdict # "Succeeded" /\ (Decided(a)' <=> Decided(a))
        BY <2>1, NamesAssumption, Zenon DEF Places, Before, Decided, VerdictInv, Statuses
    <2>4. Counts(a)' /\ Requested(a)'
        BY <2>1, <2>2, <2>3, Zenon DEF Counts, Requested
    <2>5. Places(a)'
        BY <2>1, <2>2, <2>3, Zenon DEF Places, Before, Reply
    <2>6. Flowing(a)'
        BY <2>1, <2>3, Zenon DEF Flowing
    <2> QED BY <2>4, <2>5, <2>6, Zenon
  <1>4. CASE Rejects(a) /\ task[a].at = "read"
    <2>1. /\ task'[a] = [task[a] EXCEPT !.at = "gone"] /\ app'[a] = [app[a] EXCEPT !.reply = "Rejected", !.eof = TRUE]
          /\ UNCHANGED <<host, wire, sv>>
        BY <1>4, Zenon DEF Rejects
    <2>2. /\ task'[a].at = "gone" /\ task'[a].up = task[a].up /\ task'[a].down = task[a].down
          /\ app'[a].req = app[a].req /\ app'[a].reply = "Rejected"
          /\ app'[a].sent = app[a].sent /\ app'[a].got = app[a].got
        BY <2>1
    <2>3. ~wire[a].on /\ ~Decided(a) /\ sv[a].verdict # "Succeeded" /\ (Decided(a)' <=> Decided(a))
        BY <1>4, <2>1, NamesAssumption, Zenon DEF Places, Before, Decided, VerdictInv, Statuses
    <2>4. Counts(a)' /\ Requested(a)'
        BY <2>1, <2>2, <2>3, Zenon DEF Counts, Requested
    <2>5. Places(a)'
      <3>1. app'[a].reply # Reply(a, "Succeeded")
          BY <2>2, RepliesDiffer, Zenon
      <3> QED BY <2>1, <2>2, <2>3, <3>1, Zenon DEF Places, Before, Reply
    <2>6. Flowing(a)'
        BY <2>1, <2>3, Zenon DEF Flowing
    <2> QED BY <2>4, <2>5, <2>6, Zenon
  <1>5. CASE OpenStream(a) /\ ~Leaves(a)
    <2>1. /\ task'[a] = [task[a] EXCEPT !.at = "status"] /\ wire'[a] = [wire[a] EXCEPT !.on = TRUE]
          /\ UNCHANGED <<app, host, sv>> /\ task[a].at = "open"
        BY <1>5, Zenon DEF OpenStream, ends
    <2>2. /\ task'[a].at = "status" /\ task'[a].up = task[a].up /\ task'[a].down = task[a].down
          /\ wire'[a].on /\ wire'[a].upStop = wire[a].upStop /\ wire'[a].downFin = wire[a].downFin
          /\ wire'[a].up = wire[a].up /\ wire'[a].down = wire[a].down /\ wire'[a].status = wire[a].status
          /\ wire'[a].upFin = wire[a].upFin /\ wire'[a].downStop = wire[a].downStop
        BY <2>1
    <2>3. ~wire[a].on /\ ~Decided(a) /\ sv[a].verdict # "Succeeded" /\ (Decided(a)' <=> Decided(a))
        BY <2>1, NamesAssumption, Zenon DEF Places, Before, Decided, VerdictInv, Statuses
    <2>4. Counts(a)' /\ Requested(a)'
        BY <2>1, <2>2, Zenon DEF Counts, Requested, NameLen
    <2>5. Places(a)'
        BY <2>1, <2>2, <2>3, Zenon DEF Places, Before, Reply
    <2>6. Flowing(a)'
        BY <2>1, <2>3, Zenon DEF Flowing
    <2> QED BY <2>4, <2>5, <2>6, Zenon
  <1>6. ASSUME NEW s, Answer(a, s), task[a].at = "status",
               \/ s = "General" /\ ~Linked(a)
               \/ s = wire[a].status /\ s # None
        PROVE  Orderly(a)'
    <2> DEFINE over == task'[a].at = "gone"
    <2>1. /\ task'[a] = [task[a] EXCEPT !.at = IF s = "Succeeded" /\ app[a].end # "rst" THEN "copy" ELSE "gone"]
          /\ app'[a] = [app[a] EXCEPT !.reply = Reply(a, s), !.eof = over]
          /\ wire'[a] = [wire[a] EXCEPT !.upFin = over, !.downStop = over]
          /\ UNCHANGED <<host, sv>>
        BY <1>6, Zenon DEF Answer
    <2>2. /\ task'[a].at = IF s = "Succeeded" /\ app[a].end # "rst" THEN "copy" ELSE "gone"
          /\ task'[a].up = task[a].up /\ task'[a].down = task[a].down
          /\ task'[a].conn = task[a].conn /\ task'[a].aborted = task[a].aborted
        BY <2>1
    <2>3. /\ app'[a].req = app[a].req /\ app'[a].end = app[a].end /\ app'[a].reply = Reply(a, s)
          /\ app'[a].sent = app[a].sent /\ app'[a].got = app[a].got /\ (app'[a].eof <=> over)
          /\ wire'[a].on = wire[a].on /\ wire'[a].upStop = wire[a].upStop /\ wire'[a].downFin = wire[a].downFin
          /\ wire'[a].up = wire[a].up /\ wire'[a].down = wire[a].down /\ wire'[a].status = wire[a].status
          /\ (wire'[a].upFin <=> over) /\ (wire'[a].downStop <=> over)
        BY <2>1, ZenonT(30)
    <2>4. (Decided(a)' <=> Decided(a)) /\ (Unbroken(a)' => Unbroken(a))
        BY <2>1, <2>2, <2>3, StaysBroken, ZenonT(30) DEF Decided
    <2>5. Counts(a)' /\ Requested(a)'
        BY <2>1, <2>2, <2>3 DEF Counts, Requested, NameLen, Places
    <2>6. \/ ~Linked(a) /\ s = "General"
          \/ Decided(a) /\ s = sv[a].verdict /\ wire[a].status = s
        BY <1>6, Zenon DEF VerdictInv
    <2>7. over /\ Unbroken(a) => sv[a].verdict # "Succeeded" /\ Decided(a)
        BY <2>2, <2>6, Zenon DEF Unbroken
    <2>8. wire[a].on
        BY <1>6, Zenon DEF Places
    <2>9. Places(a)'
      <3>1. app'[a].reply = Reply(a, "Succeeded") => s = "Succeeded"
          BY <2>3, RepliesDiffer, Zenon
      <3> QED BY <1>6, <2>1, <2>2, <2>3, <2>4, <2>6, <2>7, <2>8, <3>1 DEF Places, Before, Reply
    <2>10. Flowing(a)'
        BY <1>6, <2>1, <2>2, <2>3, <2>4, <2>7 DEF Flowing, Places
    <2> QED BY <2>5, <2>9, <2>10, Zenon
  <1>7. CASE CopyUp(a) \/ CopyDown(a)
    <2>1. /\ task' = task /\ UNCHANGED <<host, sv>> /\ task[a].at = "copy"
          /\ \/ app' = app /\ wire'[a] = [wire[a] EXCEPT !.up = @ + 1] /\ wire[a].up < app[a].sent /\ ~wire[a].upStop
             \/ wire' = wire /\ app'[a] = [app[a] EXCEPT !.got = @ + 1] /\ app[a].got < wire[a].down
        BY <1>7, Zenon DEF CopyUp, CopyDown, ends
    <2>2. /\ app'[a].req = app[a].req /\ app'[a].end = app[a].end /\ app'[a].reply = app[a].reply
          /\ app'[a].sent = app[a].sent /\ app'[a].eof = app[a].eof
          /\ wire'[a].on = wire[a].on /\ wire'[a].upStop = wire[a].upStop /\ wire'[a].downFin = wire[a].downFin
          /\ wire'[a].down = wire[a].down /\ wire'[a].status = wire[a].status
          /\ wire'[a].upFin = wire[a].upFin /\ wire'[a].downStop = wire[a].downStop
        BY <2>1, Zenon
    <2>3. \/ /\ app'[a].got = app[a].got /\ wire'[a].up = wire[a].up + 1 /\ wire[a].up < app[a].sent /\ ~wire[a].upStop
          \/ /\ app'[a].got = app[a].got + 1 /\ wire'[a].up = wire[a].up /\ app[a].got < wire[a].down
        BY <2>1, Zenon
    <2>4. (Decided(a)' <=> Decided(a)) /\ (Unbroken(a)' => Unbroken(a))
        BY <2>1, <2>2, StaysBroken, Zenon DEF Decided
    <2>5. Counts(a)'
        BY <2>1, <2>2, <2>3 DEF Counts
    <2>6. Requested(a)'
        BY <2>1, <2>2, Zenon DEF Requested, NameLen
    <2>7. Places(a)'
        BY <2>1, <2>2, <2>4 DEF Places, Before, Reply
    <2>8. Flowing(a)'
      <3> HIDE DEF Orderly
      <3>1. Flowing(a) /\ Counts(a)
          BY Zenon DEF Orderly
      <3> QED BY <2>1, <2>2, <2>3, <2>4, <3>1 DEF Flowing, Counts
    <2> QED BY <2>5, <2>6, <2>7, <2>8, Zenon
  <1>8. CASE CopyUpEnds(a)
    <2> DEFINE over == task'[a].at = "gone"
    <2>1. /\ task'[a] = [task[a] EXCEPT !.up = TRUE, !.down = task[a].down, !.at = IF task[a].down THEN "gone" ELSE @]
          /\ app'[a] = [app[a] EXCEPT !.eof = @ \/ over]
          /\ wire'[a] = [wire[a] EXCEPT !.upFin = TRUE, !.downStop = @ \/ over]
          /\ UNCHANGED <<host, sv>> /\ task[a].at = "copy"
        BY <1>8, Zenon DEF CopyUpEnds, HalfDone
    <2>2. /\ task'[a].at = (IF task[a].down THEN "gone" ELSE "copy")
          /\ task'[a].up /\ task'[a].down = task[a].down
          /\ task'[a].conn = task[a].conn /\ task'[a].aborted = task[a].aborted
        BY <2>1
    <2>3. /\ app'[a].req = app[a].req /\ app'[a].end = app[a].end /\ app'[a].reply = app[a].reply
          /\ app'[a].sent = app[a].sent /\ app'[a].got = app[a].got /\ (app'[a].eof <=> app[a].eof \/ over)
          /\ wire'[a].on = wire[a].on /\ wire'[a].upStop = wire[a].upStop /\ wire'[a].downFin = wire[a].downFin
          /\ wire'[a].up = wire[a].up /\ wire'[a].down = wire[a].down /\ wire'[a].status = wire[a].status
          /\ wire'[a].upFin /\ (wire'[a].downStop <=> wire[a].downStop \/ over)
        BY <2>1, Zenon
    <2>4. (Decided(a)' <=> Decided(a)) /\ (Unbroken(a)' => Unbroken(a))
        BY <2>1, <2>2, <2>3, StaysBroken, ZenonT(30) DEF Decided
    <2>5. wire'[a].downStop <=> wire[a].downStop
        BY <2>1, <2>2, <2>3, Zenon DEF Places
    <2>6. Counts(a)' /\ Requested(a)'
        BY <2>1, <2>2, <2>3 DEF Counts, Requested, NameLen
    <2>7. wire[a].on /\ wire[a].status = "Succeeded" /\ Decided(a)
        BY <2>1, NamesAssumption, Zenon DEF Places, VerdictInv, Decided, Statuses
    <2>8. Places(a)'
        BY <2>1, <2>2, <2>3, <2>4, <2>5, <2>7 DEF Places, Before, Reply
    <2>9. Flowing(a)'
      <3>1. CASE app[a].end = "fin" /\ wire[a].up = app[a].sent
          BY <2>1, <2>3, <2>4, <2>5, <3>1 DEF Flowing
      <3>2. CASE ~Unbroken(a)
          BY <2>4, <3>2, Zenon DEF Flowing
      <3>3. CASE wire[a].up < app[a].sent /\ wire[a].upStop /\ Unbroken(a)
        <4>1. sv[a].verdict = "Succeeded" => wire[a].up = app[a].sent
            BY <3>3, Zenon DEF Flowing
        <4>2. sv[a].verdict # "Succeeded"
            BY <3>3, <4>1 DEF Counts
        <4> QED BY <2>1, <4>2, Zenon DEF Flowing
      <3> QED BY <1>8, <3>1, <3>2, <3>3, Zenon DEF CopyUpEnds, Unbroken
    <2> QED BY <2>6, <2>8, <2>9, Zenon
  <1>9. CASE CopyDownEnds(a)
    <2> DEFINE over == task'[a].at = "gone"
    <2>1. /\ task'[a] = [task[a] EXCEPT !.up = task[a].up, !.down = TRUE, !.at = IF task[a].up THEN "gone" ELSE @]
          /\ app'[a] = [app[a] EXCEPT !.eof = TRUE]
          /\ wire'[a] = [wire[a] EXCEPT !.downStop = TRUE, !.upFin = @ \/ over]
          /\ UNCHANGED <<host, sv>> /\ task[a].at = "copy"
        BY <1>9, Zenon DEF CopyDownEnds, HalfDone
    <2>2. /\ task'[a].at = (IF task[a].up THEN "gone" ELSE "copy")
          /\ task'[a].up = task[a].up /\ task'[a].down
          /\ task'[a].conn = task[a].conn /\ task'[a].aborted = task[a].aborted
        BY <2>1
    <2>3. /\ app'[a].req = app[a].req /\ app'[a].end = app[a].end /\ app'[a].reply = app[a].reply
          /\ app'[a].sent = app[a].sent /\ app'[a].got = app[a].got
          /\ wire'[a].on = wire[a].on /\ wire'[a].upStop = wire[a].upStop /\ wire'[a].downFin = wire[a].downFin
          /\ wire'[a].up = wire[a].up /\ wire'[a].down = wire[a].down /\ wire'[a].status = wire[a].status
          /\ (wire'[a].upFin <=> wire[a].upFin \/ over) /\ wire'[a].downStop
        BY <2>1, ZenonT(30)
    <2>4. (Decided(a)' <=> Decided(a)) /\ (Unbroken(a)' => Unbroken(a))
        BY <2>1, <2>2, <2>3, StaysBroken, ZenonT(30) DEF Decided
    <2>5. wire'[a].upFin <=> wire[a].upFin
        BY <2>1, <2>2, <2>3, Zenon DEF Places
    <2>6. Counts(a)' /\ Requested(a)'
        BY <2>1, <2>2, <2>3 DEF Counts, Requested, NameLen
    <2>7. wire[a].on /\ wire[a].status = "Succeeded" /\ Decided(a)
        BY <2>1, NamesAssumption, Zenon DEF Places, VerdictInv, Decided, Statuses
    <2>8. Places(a)'
        BY <2>1, <2>2, <2>3, <2>4, <2>5, <2>7 DEF Places, Before, Reply
    <2>9. Flowing(a)'
      <3>1. CASE wire[a].downFin /\ app[a].got = wire[a].down
          BY <2>1, <2>3, <2>4, <2>5, <3>1 DEF Flowing
      <3>2. CASE ~Unbroken(a)
          BY <2>4, <3>2, Zenon DEF Flowing
      <3> QED BY <1>9, <3>1, <3>2, Zenon DEF CopyDownEnds, Unbroken
    <2> QED BY <2>6, <2>8, <2>9, Zenon
  <1>10. CASE Cancelled(a)
      BY <1>1, <1>10, Zenon DEF Cancelled, Running, Unbroken, OffStages
  <1>11. CASE Refuse(a) \/ Peek(a)
      BY <1>1, <1>2, <1>11, Zenon DEF Refuse, Peek, Places, Before
  <1>12. CASE read_socks5_request(a)
    <2>1. app[a].req = "good" => NameLen(app[a].req) <= MAX_NAME
        BY BoundsAssumption DEF NameLen
    <2> QED BY <1>2, <1>4, <1>12, <2>1, Zenon DEF read_socks5_request
  <1>13. CASE read_http_connect_request(a)
      BY <1>2, <1>4, <1>13, Zenon DEF read_http_connect_request, ParsesAuthority, Requested
  <1>14. CASE OpenStream(a)
    <2>1. task[a].at = "open" /\ ~wire[a].on
        BY <1>14, Zenon DEF OpenStream, Places, Before
    <2> QED BY <1>1, <1>5, <1>14, <2>1, Zenon
  <1>15. CASE ReadStatus(a)
      BY <1>6, <1>15, Zenon DEF ReadStatus
  <1> QED BY <1>3, <1>7, <1>8, <1>9, <1>10, <1>11, <1>12, <1>13, <1>14, <1>15, Zenon DEF TaskStep

\* So does the server's.
LEMMA StreamOrderly ==
    ASSUME TaskTypes, Shapes, VerdictInv, NEW a \in Apps, Orderly(a), StreamStep(a), LinkBack(a)
    PROVE  Orderly(a)'
  <1> USE DEF TaskTypes, TaskRecord, Shapes, Orderly
  <1>1. task' = task /\ app' = app /\ (Unbroken(a)' => Unbroken(a))
    <2>1. task' = task /\ app' = app /\ host'[a].end = host[a].end
        BY ZenonT(30) DEF StreamStep, Resolve, Dial, Fails, ToHost, ToHostEnds, FromHost, FromHostEnds, ends
    <2> QED BY <2>1, StaysBroken, Zenon
  <1>2. ASSUME NEW s, Fails(a, s), ~Decided(a), s # "Succeeded", wire[a].on PROVE Orderly(a)'
    <2>1. /\ sv'[a] = [sv[a] EXCEPT !.at = "gone", !.verdict = s] /\ host' = host
          /\ wire'[a] = [wire[a] EXCEPT !.status = s, !.downFin = TRUE, !.upStop = TRUE]
        BY <1>2, Zenon DEF Fails, ends
    <2>2. /\ sv'[a].at = "gone" /\ sv'[a].verdict = s /\ Decided(a)'
          /\ wire'[a].on = wire[a].on /\ wire'[a].up = wire[a].up /\ wire'[a].down = wire[a].down
          /\ wire'[a].upFin = wire[a].upFin /\ wire'[a].downStop = wire[a].downStop
          /\ wire'[a].downFin /\ wire'[a].upStop
        BY <2>1, Zenon DEF Decided
    <2>3. Counts(a)' /\ Requested(a)'
        BY <1>1, <2>1, <2>2, Zenon DEF Counts, Requested, NameLen
    <2>4. wire[a].status = None /\ task[a].at # "copy"
        BY <1>2, NamesAssumption, Zenon DEF VerdictInv, Places, Statuses
    <2>5. Places(a)'
        BY <1>1, <1>2, <2>1, <2>2, <2>4, Zenon DEF Places, Before, Reply
    <2>6. Flowing(a)'
        BY <1>2, <2>2, Zenon DEF Flowing
    <2> QED BY <2>3, <2>5, <2>6, Zenon
  <1>3. ASSUME NEW x, sv' = [sv EXCEPT ![a].at = "dial", ![a].addr = x], UNCHANGED <<host, wire>>,
               sv[a].at = "none", wire[a].on
        PROVE  Orderly(a)'
    <2>1. sv'[a].at = "dial" /\ sv'[a].verdict = sv[a].verdict /\ ~Decided(a) /\ ~Decided(a)'
        BY <1>3, Zenon DEF Decided
    <2>2. Counts(a)' /\ Requested(a)'
        BY <1>1, <1>3, Zenon DEF Counts, Requested, NameLen
    <2>3. Places(a)'
        BY <1>1, <1>3, <2>1, Zenon DEF Places, Before, Reply
    <2>4. Flowing(a)'
        BY <1>1, <1>3, <2>1, Zenon DEF Flowing
    <2> QED BY <2>2, <2>3, <2>4, Zenon
  <1>4. CASE Resolve(a)
    <2>1. wire[a].on /\ sv[a].at = "none" /\ ~Decided(a)
        BY <1>4, Zenon DEF Resolve, Decided
    <2>2. \/ Fails(a, "Host") \/ Fails(a, "Blocked")
          \/ \E x : sv' = [sv EXCEPT ![a].at = "dial", ![a].addr = x] /\ UNCHANGED <<host, wire>>
        BY <1>4, Zenon DEF Resolve, ends
    <2> QED BY <1>2, <1>3, <2>1, <2>2, Zenon
  <1>5. CASE Dial(a)
    <2>0. sv[a].at = "dial" /\ ~Decided(a) /\ wire[a].on
        BY <1>5, Zenon DEF Dial, Decided, Places
    <2>1. CASE \E s \in DialErrors : Fails(a, s)
        BY <1>2, <2>0, <2>1, DialAssumption, Zenon
    <2>2. CASE ~(\E s \in DialErrors : Fails(a, s))
      <3>1. /\ sv'[a] = [sv[a] EXCEPT !.at = IF Linked(a) THEN "copy" ELSE "gone", !.verdict = "Succeeded"]
            /\ wire'[a] = [wire[a] EXCEPT !.status = IF Linked(a) THEN "Succeeded" ELSE @]
            /\ host' = host
          BY <1>5, <2>2, Zenon DEF Dial, ends
      <3>2. /\ sv'[a].at = (IF Linked(a) THEN "copy" ELSE "gone") /\ sv'[a].verdict = "Succeeded" /\ Decided(a)'
            /\ wire'[a].on = wire[a].on /\ wire'[a].up = wire[a].up /\ wire'[a].down = wire[a].down
            /\ wire'[a].upFin = wire[a].upFin /\ wire'[a].downStop = wire[a].downStop
            /\ wire'[a].downFin = wire[a].downFin /\ wire'[a].upStop = wire[a].upStop
          BY <3>1 DEF Decided
      <3>3. Counts(a)' /\ Requested(a)'
          BY <1>1, <3>1, <3>2, Zenon DEF Counts, Requested, NameLen
      <3>4. wire[a].status = None /\ task[a].at # "copy"
          BY <2>0, NamesAssumption, Zenon DEF VerdictInv, Places, Statuses
      <3>5. Places(a)'
          BY <1>1, <2>0, <3>1, <3>2, <3>4, Zenon DEF Places, Before, Reply
      <3>6. Unbroken(a) => ~wire[a].upFin /\ ~wire[a].downStop /\ ~wire[a].upStop /\ ~wire[a].downFin
          BY <2>0, Zenon DEF Places
      <3>7. Flowing(a)'
          BY <1>1, <3>2, <3>6, Zenon DEF Flowing
      <3> QED BY <3>3, <3>5, <3>7, Zenon
    <2> QED BY <2>1, <2>2, Zenon
  <1>6. CASE ToHost(a) \/ FromHost(a)
    <2>1. /\ sv' = sv
          /\ \/ wire' = wire /\ host'[a] = [host[a] EXCEPT !.got = @ + 1] /\ host[a].got < wire[a].up
             \/ host' = host /\ wire'[a] = [wire[a] EXCEPT !.down = @ + 1] /\ wire[a].down < host[a].sent /\ ~wire[a].downStop
        BY <1>6, Zenon DEF ToHost, FromHost, ends
    <2>2. /\ wire'[a].on = wire[a].on /\ wire'[a].up = wire[a].up /\ wire'[a].status = wire[a].status
          /\ wire'[a].upFin = wire[a].upFin /\ wire'[a].downStop = wire[a].downStop
          /\ wire'[a].downFin = wire[a].downFin /\ wire'[a].upStop = wire[a].upStop
          /\ host'[a].eof = host[a].eof /\ host'[a].sent = host[a].sent /\ host'[a].end = host[a].end
        BY <2>1, Zenon
    <2>3. \/ host'[a].got = host[a].got + 1 /\ wire'[a].down = wire[a].down /\ host[a].got < wire[a].up
          \/ /\ host'[a].got = host[a].got /\ wire'[a].down = wire[a].down + 1 /\ wire[a].down < host[a].sent
             /\ ~wire[a].downStop
        BY <2>1, Zenon
    <2>4. Decided(a)' <=> Decided(a)
        BY <2>1, Zenon DEF Decided
    <2>5. Counts(a)'
        BY <1>1, <2>2, <2>3 DEF Counts
    <2>6. Requested(a)'
        BY <1>1, <2>2, Zenon DEF Requested, NameLen
    <2>7. Places(a)'
        BY <1>1, <2>1, <2>2, <2>4 DEF Places, Before, Reply
    <2>8. Flowing(a)'
        BY <1>1, <2>1, <2>2, <2>3 DEF Flowing, Counts
    <2> QED BY <2>5, <2>6, <2>7, <2>8, Zenon
  <1>7. ASSUME NEW up, NEW down, ServerHalfDone(a, up, down), sv[a].at = "copy"
        PROVE  /\ sv'[a].verdict = sv[a].verdict /\ sv'[a].at \in {"copy", "gone"} /\ Decided(a) /\ Decided(a)'
      BY <1>7, Zenon DEF ServerHalfDone, Decided
  <1>8. CASE ToHostEnds(a)
    <2>1. /\ host'[a] = [host[a] EXCEPT !.eof = TRUE] /\ wire'[a] = [wire[a] EXCEPT !.upStop = TRUE] /\ sv[a].at = "copy"
        BY <1>8, Zenon DEF ToHostEnds
    <2>2. /\ wire'[a].on = wire[a].on /\ wire'[a].up = wire[a].up /\ wire'[a].status = wire[a].status
          /\ wire'[a].upFin = wire[a].upFin /\ wire'[a].downStop = wire[a].downStop
          /\ wire'[a].downFin = wire[a].downFin /\ wire'[a].upStop /\ wire'[a].down = wire[a].down
          /\ host'[a].eof /\ host'[a].sent = host[a].sent /\ host'[a].end = host[a].end /\ host'[a].got = host[a].got
        BY <2>1, Zenon
    <2>3. sv'[a].verdict = sv[a].verdict /\ sv'[a].at \in {"copy", "gone"} /\ Decided(a) /\ Decided(a)'
        BY <1>7, <1>8, Zenon DEF ToHostEnds
    <2>4. Counts(a)' /\ Requested(a)'
        BY <1>1, <2>2, Zenon DEF Counts, Requested, NameLen
    <2>5. Places(a)'
        BY <1>1, <2>1, <2>2, <2>3 DEF Places, Before, Reply
    <2>6. Unbroken(a) => wire[a].upFin /\ host[a].got = wire[a].up
        BY <1>8, Zenon DEF ToHostEnds, Unbroken
    <2>7. Flowing(a)'
        BY <1>1, <2>2, <2>3, <2>6 DEF Flowing
    <2> QED BY <2>4, <2>5, <2>7, Zenon
  <1>9. CASE FromHostEnds(a)
    <2>1. /\ host' = host /\ wire'[a] = [wire[a] EXCEPT !.downFin = TRUE] /\ sv[a].at = "copy"
        BY <1>9, Zenon DEF FromHostEnds, ends
    <2>2. /\ wire'[a].on = wire[a].on /\ wire'[a].up = wire[a].up /\ wire'[a].status = wire[a].status
          /\ wire'[a].upFin = wire[a].upFin /\ wire'[a].downStop = wire[a].downStop
          /\ wire'[a].downFin /\ wire'[a].upStop = wire[a].upStop /\ wire'[a].down = wire[a].down
        BY <2>1, Zenon
    <2>3. sv'[a].verdict = sv[a].verdict /\ sv'[a].at \in {"copy", "gone"} /\ Decided(a) /\ Decided(a)'
        BY <1>7, <1>9, Zenon DEF FromHostEnds
    <2>4. Counts(a)' /\ Requested(a)'
        BY <1>1, <2>1, <2>2, Zenon DEF Counts, Requested, NameLen
    <2>5. Places(a)'
        BY <1>1, <2>1, <2>2, <2>3 DEF Places, Before, Reply
    <2>6. Unbroken(a) /\ sv[a].verdict = "Succeeded" => host[a].end = "fin" /\ wire[a].down = host[a].sent
        BY <1>9, Zenon DEF FromHostEnds, Unbroken, Flowing, Counts
    <2>7. Flowing(a)'
        BY <1>1, <2>1, <2>2, <2>3, <2>6 DEF Flowing
    <2> QED BY <2>4, <2>5, <2>7, Zenon
  <1> QED BY <1>4, <1>5, <1>6, <1>8, <1>9, Zenon DEF StreamStep

\* The ends may send, end and ask at any time.
LEMMA PeersOrderly ==
    ASSUME TaskTypes, Shapes, VerdictInv, NEW a \in Apps, Orderly(a), Peers(a), LinkBack(a)
    PROVE  Orderly(a)'
  <1> USE DEF TaskTypes, TaskRecord, Shapes, Orderly
  <1>1. CASE Connect(a)
    <2>1. PICK l \in Listeners : task' = [task EXCEPT ![a].at = "backlog", ![a].lis = l]
        BY <1>1, Zenon DEF Connect
    <2>2. UNCHANGED <<app, host, wire, sv>> /\ task[a].at = "none"
        BY <1>1, Zenon DEF Connect, ends
    <2>3. /\ task'[a].at = "backlog" /\ task'[a].up = task[a].up /\ task'[a].down = task[a].down
          /\ task'[a].aborted = task[a].aborted
        BY <2>1
    <2>4. (Decided(a)' <=> Decided(a)) /\ (Unbroken(a)' => Unbroken(a))
        BY <2>2, <2>3, StaysBroken, Zenon DEF Decided
    <2>5. Counts(a)' /\ Requested(a)'
        BY <2>2, <2>3, Zenon DEF Counts, Requested, NameLen
    <2>6. Places(a)'
        BY <2>2, <2>3, <2>4, Zenon DEF Places, Before, Reply
    <2>7. Flowing(a)'
        BY <2>2, <2>4, Zenon DEF Flowing
    <2> QED BY <2>5, <2>6, <2>7, Zenon
  <1>2. ASSUME UNCHANGED <<task, wire, sv>>,
               app'[a].eof = app[a].eof, app'[a].reply = app[a].reply, app'[a].got = app[a].got,
               host'[a].eof = host[a].eof, host'[a].got = host[a].got,
               app'[a].sent \in Int, host'[a].sent \in Int,
               (app'[a].sent = app[a].sent /\ app'[a].end = app[a].end) \/ app[a].end = "no",
               (host'[a].sent = host[a].sent /\ host'[a].end = host[a].end) \/ host[a].end = "no",
               (app[a].req = "none" /\ task[a].at # "read") \/ app'[a].req = app[a].req
        PROVE  Orderly(a)'
    <2>1. (Decided(a)' <=> Decided(a)) /\ (Unbroken(a)' => Unbroken(a))
        BY <1>2, StaysBroken, Zenon DEF Decided
    <2>2. Counts(a)'
        BY <1>2, Zenon DEF Counts
    <2>3. Requested(a)'
        BY <1>2, Zenon DEF Requested, NameLen
    <2>4. Places(a)'
        BY <1>2, <2>1, Zenon DEF Places, Before, Reply
    <2>5. Flowing(a)'
        BY <1>2, <2>1, Zenon DEF Flowing
    <2> QED BY <2>2, <2>3, <2>4, <2>5, Zenon
  <1>3. ASSUME NEW r \in RequestsOf[a], AppRequests(a, r) PROVE Orderly(a)'
    <2>1. /\ UNCHANGED <<task, wire, sv, host>> /\ app[a].req = "none" /\ app'[a] = [app[a] EXCEPT !.req = r]
        BY <1>3, Zenon DEF AppRequests
    <2>2. /\ app'[a].eof = app[a].eof /\ app'[a].reply = app[a].reply /\ app'[a].got = app[a].got
          /\ app'[a].sent = app[a].sent /\ app'[a].end = app[a].end
        BY <2>1, Zenon
    <2>3. task[a].at # "read"
        BY <2>1, Zenon DEF Requested
    <2> QED BY <1>2, <2>1, <2>2, <2>3, Zenon DEF Counts
  <1>4. CASE AppSends(a) \/ HostSends(a)
    <2>1. /\ UNCHANGED <<task, wire, sv>>
          /\ \/ host' = host /\ app[a].end = "no" /\ app'[a] = [app[a] EXCEPT !.sent = @ + 1]
             \/ app' = app /\ host[a].end = "no" /\ host'[a] = [host[a] EXCEPT !.sent = @ + 1]
        BY <1>4, Zenon DEF AppSends, HostSends
    <2>2. /\ app'[a].eof = app[a].eof /\ app'[a].reply = app[a].reply /\ app'[a].got = app[a].got
          /\ app'[a].req = app[a].req /\ app'[a].end = app[a].end
          /\ host'[a].eof = host[a].eof /\ host'[a].got = host[a].got /\ host'[a].end = host[a].end
          /\ app'[a].sent \in {app[a].sent, app[a].sent + 1} /\ host'[a].sent \in {host[a].sent, host[a].sent + 1}
          /\ app'[a].sent = app[a].sent \/ app[a].end = "no"
          /\ host'[a].sent = host[a].sent \/ host[a].end = "no"
        BY <2>1, Zenon
    <2>3. app'[a].sent \in Int /\ host'[a].sent \in Int
        BY <2>2 DEF Counts
    <2> QED BY <1>2, <2>1, <2>2, <2>3, Zenon
  <1>5. ASSUME NEW how \in EndingsOf[a], AppEnds(a, how) \/ HostEnds(a, how) PROVE Orderly(a)'
    <2>1. /\ UNCHANGED <<task, wire, sv>>
          /\ \/ host' = host /\ app[a].end = "no" /\ app'[a] = [app[a] EXCEPT !.end = how]
             \/ app' = app /\ host[a].end = "no" /\ host'[a] = [host[a] EXCEPT !.end = how]
        BY <1>5, Zenon DEF AppEnds, HostEnds
    <2>2. /\ app'[a].eof = app[a].eof /\ app'[a].reply = app[a].reply /\ app'[a].got = app[a].got
          /\ app'[a].req = app[a].req /\ app'[a].sent = app[a].sent
          /\ host'[a].eof = host[a].eof /\ host'[a].got = host[a].got /\ host'[a].sent = host[a].sent
          /\ app'[a].end = app[a].end \/ app[a].end = "no"
          /\ host'[a].end = host[a].end \/ host[a].end = "no"
        BY <2>1, Zenon
    <2> QED BY <1>2, <2>1, <2>2, Zenon DEF Counts
  <1> QED BY <1>1, <1>3, <1>4, <1>5, Zenon DEF Peers

\* The toggle and the accept loop move and abort tasks, and close what nobody accepted.
LEMMA ToggleOrderly ==
    ASSUME TaskTypes, Shapes, VerdictInv, NEW a \in Apps, Orderly(a), LinkBack(a),
           \/ \E u \in Callers : CallerStep(u)
           \/ \E l \in Listeners : ListenerStep(l) \/ ListenerEnds(l)
    PROVE  Orderly(a)'
  <1> USE DEF TaskTypes, TaskRecord, Shapes, Orderly
  <1>1. ASSUME UNCHANGED <<host, wire, sv>>, task'[a].up = task[a].up, task'[a].down = task[a].down,
               task[a].aborted => task'[a].aborted,
               \/ task'[a].at = task[a].at /\ app'[a] = app[a]
               \/ task[a].at = "backlog" /\ task'[a].at = "wait" /\ app'[a] = app[a]
               \/ task[a].at = "backlog" /\ task'[a].at = "gone" /\ app'[a] = [app[a] EXCEPT !.eof = TRUE]
        PROVE  Orderly(a)'
    <2>1. /\ app'[a].reply = app[a].reply /\ app'[a].got = app[a].got /\ app'[a].req = app[a].req
          /\ app'[a].sent = app[a].sent /\ app'[a].end = app[a].end
          /\ app'[a].eof = app[a].eof \/ (task'[a].at = "gone" /\ task[a].at = "backlog")
        BY <1>1
    <2>2. (Decided(a)' <=> Decided(a)) /\ (Unbroken(a)' => Unbroken(a))
        BY <1>1, <2>1, StaysBroken, Zenon DEF Decided
    <2>3. Counts(a)' /\ Requested(a)'
        BY <1>1, <2>1, Zenon DEF Counts, Requested, NameLen
    <2>4. Places(a)'
        BY <1>1, <2>1, <2>2 DEF Places, Before, Reply
    <2>5. Flowing(a)'
        BY <1>1, <2>1, <2>2 DEF Flowing
    <2> QED BY <2>3, <2>4, <2>5, Zenon
  <1>2. CASE UNCHANGED <<task, app, host, wire, sv>>
      BY <1>1, <1>2, Zenon
  <1>3. ASSUME NEW u \in Callers, CallerStep(u) PROVE Orderly(a)'
    <2>1. CASE abort_all_conns(u)
      <3>1. /\ UNCHANGED <<app, host, wire, sv>>
            /\ task'[a] = task[a] \/ task'[a] = [task[a] EXCEPT !.aborted = TRUE]
          BY <2>1, Zenon DEF abort_all_conns, ends
      <3>2. /\ task'[a].up = task[a].up /\ task'[a].down = task[a].down /\ task'[a].at = task[a].at
            /\ (task[a].aborted => task'[a].aborted)
          BY <3>1
      <3> QED BY <1>1, <3>1, <3>2, Zenon
    <2> QED BY <1>2, <1>3, <2>1, Zenon DEF CallerStep, Enable, Bind, Install, Disable, ends
  <1>4. ASSUME NEW l \in Listeners, ListenerStep(l) \/ ListenerEnds(l) PROVE Orderly(a)'
    <2>1. CASE Register(l)
        BY <1>2, <2>1, Zenon DEF Register, ends
    <2>2. ASSUME NEW b \in Apps, Accept(l, b) PROVE Orderly(a)'
      <3>1. /\ UNCHANGED <<app, host, wire, sv>> /\ task[b].at = "backlog" /\ task' = [task EXCEPT ![b].at = "wait"]
          BY <2>2, Zenon DEF Accept, Backlog, ends
      <3>2. /\ task'[a].up = task[a].up /\ task'[a].down = task[a].down /\ task'[a].aborted = task[a].aborted
            /\ task'[a].at = task[a].at \/ (task[a].at = "backlog" /\ task'[a].at = "wait")
          BY <3>1
      <3> QED BY <1>1, <3>1, <3>2, Zenon
    <2>3. CASE ListenerEnds(l)
      <3>1. /\ UNCHANGED <<host, wire, sv>>
            /\ \/ task'[a] = task[a] /\ app'[a] = app[a]
               \/ /\ task[a].at = "backlog" /\ task'[a] = [task[a] EXCEPT !.at = "gone"]
                  /\ app'[a] = [app[a] EXCEPT !.eof = TRUE]
          BY <2>3, Zenon DEF ListenerEnds, Backlog
      <3>2. task'[a].up = task[a].up /\ task'[a].down = task[a].down /\ task'[a].aborted = task[a].aborted
          BY <3>1
      <3> QED BY <1>1, <3>1, <3>2, Zenon
    <2> QED BY <1>4, <2>1, <2>2, <2>3, Zenon DEF ListenerStep
  <1> QED BY <1>3, <1>4, Zenon

\* The tables keep their shape.
LEMMA NextShapes ==
    ASSUME TaskTypes, Shapes, [Next]_vars
    PROVE  Shapes'
  <1> USE DEF Shapes
  <1>1. CASE UNCHANGED <<ends, wire, sv>>
      BY <1>1, Zenon DEF ends
  <1>2. CASE QuicUp \/ (\E c \in 1 .. MaxConns : ConnLost(c)) \/ KeeperClears \/ UNCHANGED vars
      BY <1>1, <1>2, Zenon DEF QuicUp, ConnLost, KeeperClears, vars
  <1>3. CASE \E u \in Callers : CallerStep(u)
      BY <1>1, <1>3, Zenon DEF CallerStep, Enable, Bind, Install, Disable, abort_all_conns
  <1>4. ASSUME NEW l \in Listeners, ListenerStep(l) PROVE Shapes'
      BY <1>1, <1>4, Zenon DEF ListenerStep, Accept, Register
  <1>5. ASSUME NEW l \in Listeners, ListenerEnds(l) PROVE Shapes'
    <2>1. /\ UNCHANGED <<host, wire, sv>> /\ DOMAIN app' = Apps
          /\ \A a \in Apps : app'[a] = app[a] \/ app'[a] = [app[a] EXCEPT !.eof = TRUE]
        BY <1>5, Zenon DEF ListenerEnds
    <2> QED BY <2>1
  <1>6. ASSUME NEW a \in Apps, Peers(a) PROVE Shapes'
    <2>1. CASE Connect(a)
        BY <1>1, <2>1, Zenon DEF Connect
    <2>2. CASE AppSends(a) \/ (\E r \in RequestsOf[a] : AppRequests(a, r)) \/ (\E how \in EndingsOf[a] : AppEnds(a, how))
        BY <2>2 DEF AppSends, AppRequests, AppEnds
    <2>3. CASE HostSends(a) \/ (\E how \in EndingsOf[a] : HostEnds(a, how))
        BY <2>3 DEF HostSends, HostEnds
    <2> QED BY <1>6, <2>1, <2>2, <2>3, Zenon DEF Peers
  <1>7. ASSUME NEW a \in Apps, TaskStep(a) PROVE Shapes'
    <2>1. ASSUME Leaves(a) \/ Rejects(a) PROVE Shapes'
        BY <2>1 DEF Leaves, Rejects
    <2>2. CASE Cancelled(a) \/ Refuse(a) \/ Peek(a) \/ Snapshot(a)
        BY <1>1, <2>1, <2>2, Zenon DEF Cancelled, Refuse, Peek, GoesTo, Snapshot
    <2>3. CASE read_socks5_request(a) \/ read_http_connect_request(a)
        BY <1>1, <2>1, <2>3, Zenon DEF read_socks5_request, read_http_connect_request, GoesTo
    <2>4. CASE OpenStream(a)
        BY <2>1, <2>4 DEF OpenStream, ends
    <2>5. CASE ReadStatus(a)
        BY <2>5 DEF ReadStatus, Answer
    <2>6. CASE CopyUp(a) \/ CopyDown(a)
        BY <2>6 DEF CopyUp, CopyDown, ends
    <2>7. CASE CopyUpEnds(a)
        BY <2>7, Zenon DEF CopyUpEnds
    <2>8. CASE CopyDownEnds(a)
        BY <2>8, Zenon DEF CopyDownEnds
    <2> QED BY <1>7, <2>2, <2>3, <2>4, <2>5, <2>6, <2>7, <2>8, Zenon DEF TaskStep
  <1>8. ASSUME NEW a \in Apps, StreamStep(a) PROVE Shapes'
    <2>1. ASSUME NEW s, Fails(a, s) PROVE Shapes'
        BY <2>1, Zenon DEF Fails, ends
    <2>2. CASE Resolve(a)
        BY <2>1, <2>2 DEF Resolve, ends
    <2>3. CASE Dial(a)
        BY <2>1, <2>3 DEF Dial, ends
    <2>4. CASE ToHost(a) \/ FromHost(a)
        BY <2>4 DEF ToHost, FromHost, ends
    <2>5. CASE ToHostEnds(a) \/ FromHostEnds(a)
        BY <2>5 DEF ToHostEnds, FromHostEnds, ServerHalfDone, ends
    <2> QED BY <1>8, <2>2, <2>3, <2>4, <2>5, Zenon DEF StreamStep
  <1> QED BY <1>2, <1>3, <1>4, <1>5, <1>6, <1>7, <1>8, Zenon DEF Next

\* A step that tells nobody anything and decides nothing.
Untold ==
    \A a \in Apps : /\ wire'[a].status = wire[a].status /\ app'[a].reply = app[a].reply
                    /\ sv'[a].verdict = sv[a].verdict /\ sv'[a].addr = sv[a].addr
                    /\ sv'[a].at = sv[a].at \/ (sv[a].at = "copy" /\ sv'[a].at = "gone")

\* Such a step leaves the verdicts as they are.
LEMMA UntoldStep ==
    ASSUME VerdictInv, Untold
    PROVE  VerdictInv'
  <1>1. \A a \in Apps : (Substantive(a)' <=> Substantive(a)) /\ (Decided(a) <=> Decided(a)')
      BY Zenon DEF Untold, Substantive, Decided, Reply
  <1>2. VerdictFaithful'
      BY DEF VerdictInv, VerdictFaithful, Untold, Reply
  <1> QED BY <1>1, <1>2 DEF VerdictInv, Untold

\* Of any numbers one is the smallest.
LEMMA Least ==
    ASSUME NEW T \in SUBSET Nat, T # {}
    PROVE  \E x \in T : \A y \in T : x <= y
  <1> DEFINE R == {ss \in Nat \X Nat : ss[1] < ss[2]}
  <1>1. IsWellFoundedOn(R, Nat)
      BY NatLessThanWellFounded, Zenon DEF OpToRel
  <1>2. PICK x \in T : \A y \in T : <<y, x>> \notin R
    <2> HIDE DEF R
    <2> QED BY <1>1, WFMin, Zenon
  <1>3. \A y \in T : ~(y < x)
      BY <1>2, Zenon
  <1> QED BY <1>3

\* What the filter leaves of a target: an allowed address of it, and nothing only when
\* there is none (lookup_host(..).filter(..).next() and the check after it).
LEMMA PickedFromTarget ==
    ASSUME NEW a \in Apps
    PROVE  LET t == TargetOf[a]  picked == PickAddr(t) IN
           /\ \A x \in picked : x # None /\ \E i \in DOMAIN t.addrs : t.addrs[i] = x
           /\ picked \subseteq Blocked => \A i \in DOMAIN t.addrs : ~Allowed(t.addrs[i])
  <1> DEFINE s == TargetOf[a].addrs
  <1>1. s \in Seq(Addrs) /\ Len(s) > 0 /\ None \notin Addrs /\ (TargetOf[a].kind = "ip" => Len(s) = 1)
      BY TargetsAssumption, Zenon
  <1>2. DOMAIN s = 1 .. Len(s) /\ Len(s) \in Nat /\ \A i \in DOMAIN s : s[i] \in Addrs
      BY <1>1
  <1> HIDE DEF s
  <1>3. CASE TargetOf[a].kind = "ip"
    <2>1. PickAddr(TargetOf[a]) = {s[1]} /\ DOMAIN s = {1}
        BY <1>1, <1>2, <1>3 DEF PickAddr, s
    <2> QED BY <1>1, <1>2, <2>1, Zenon DEF Allowed, s
  <1>4. CASE TargetOf[a].kind # "ip"
    <2>1. PickAddr(TargetOf[a]) = {s[i] : i \in FirstAllowed(s)}
        BY <1>4, Zenon DEF PickAddr, s
    <2>2. FirstAllowed(s) \subseteq {i \in DOMAIN s : Allowed(s[i])}
        BY Zenon DEF FirstAllowed
    <2>3. ASSUME NEW i \in DOMAIN s, Allowed(s[i]) PROVE \E k \in FirstAllowed(s) : TRUE
      <3> DEFINE T == {j \in DOMAIN s : Allowed(s[j])}
      <3>1. T \in SUBSET Nat /\ T # {}
          BY <1>2, <2>3
      <3>2. PICK k \in T : \A j \in T : k <= j
        <4> HIDE DEF T
        <4> QED BY <3>1, Least, Zenon
      <3>3. \A j \in 1 .. k - 1 : j \in DOMAIN s /\ j \notin T
          BY <1>2, <3>2
      <3> QED BY <3>2, <3>3, Zenon DEF FirstAllowed
    <2> QED BY <1>1, <1>2, <2>1, <2>2, <2>3, Zenon DEF Allowed, s
  <1> QED BY <1>3, <1>4, Zenon

\* The name that was asked for is the name that arrives.
LEMMA TargetArrives ==
    ASSUME NEW a \in Apps, NameLen(app[a].req) <= MAX_NAME
    PROVE  read_target(a) = TargetOf[a]
  <1>1. NameLen(app[a].req) = 1
      BY BoundsAssumption DEF NameLen
  <1>2. MAX_NAME \in Nat \ {0} => 1 % (MAX_NAME + 1) = 1
      OBVIOUS
  <1> QED BY <1>1, <1>2, BoundsAssumption, Zenon DEF read_target, encode_target

\* The client's task: only its reply counts, and it is the status or a failure.
LEMMA TaskTells ==
    ASSUME Shapes, VerdictInv, NEW a \in Apps, TaskStep(a)
    PROVE  VerdictInv'
  <1> USE DEF Shapes
  <1>1. ASSUME Leaves(a) PROVE VerdictInv'
    <2>1. Untold
        BY <1>1, Zenon DEF Leaves, Untold
    <2> QED BY <2>1, UntoldStep, Zenon
  <1>2. ASSUME UNCHANGED <<ends, wire, sv>> PROVE VerdictInv'
    <2>1. Untold
        BY <1>2, Zenon DEF ends, Untold
    <2> QED BY <2>1, UntoldStep, Zenon
  <1>3. ASSUME NEW reply, UNCHANGED sv,
               \A b \in Apps : wire'[b].status = wire[b].status /\ (b # a => app'[b].reply = app[b].reply),
               app'[a].reply = reply,
               \/ reply \in {"Rejected", Reply(a, "General")}
               \/ Decided(a) /\ reply = Reply(a, sv[a].verdict)
        PROVE  VerdictInv'
    <2>1. \A b \in Apps : (Decided(b)' <=> Decided(b)) /\ (b # a => (Substantive(b)' <=> Substantive(b)))
        BY <1>3, Zenon DEF Decided, Substantive, Reply
    <2>2. Substantive(a)' => Decided(a) /\ app'[a].reply = Reply(a, sv[a].verdict)
        BY <1>3, Zenon DEF Substantive, Reply
    <2>3. VerdictFaithful'
        BY <1>3, <2>2 DEF VerdictInv, VerdictFaithful, Substantive, Reply
    <2> QED BY <1>3, <2>1, <2>2, <2>3 DEF VerdictInv
  <1>4. ASSUME Rejects(a) PROVE VerdictInv'
      BY <1>3, <1>4, Zenon DEF Rejects
  <1>5. ASSUME NEW s, Answer(a, s), s = "General" \/ (Decided(a) /\ s = sv[a].verdict) PROVE VerdictInv'
      BY <1>3, <1>5, Zenon DEF Answer
  <1>6. CASE CopyUp(a) \/ CopyUpEnds(a) \/ CopyDown(a) \/ CopyDownEnds(a)
    <2>1. CASE CopyUp(a)
        BY <2>1, UntoldStep, Zenon DEF CopyUp, ends, Untold
    <2>2. CASE CopyDown(a)
        BY <2>2, UntoldStep, Zenon DEF CopyDown, Untold
    <2>3. CASE CopyUpEnds(a)
        BY <2>3, UntoldStep, Zenon DEF CopyUpEnds, Untold
    <2>4. CASE CopyDownEnds(a)
        BY <2>4, UntoldStep, Zenon DEF CopyDownEnds, Untold
    <2> QED BY <1>6, <2>1, <2>2, <2>3, <2>4, Zenon
  <1>7. CASE Cancelled(a) \/ Refuse(a) \/ Peek(a) \/ Snapshot(a)
      BY <1>1, <1>2, <1>7, Zenon DEF Cancelled, Refuse, Peek, Snapshot, GoesTo
  <1>8. CASE read_socks5_request(a) \/ read_http_connect_request(a)
      BY <1>2, <1>4, <1>8, Zenon DEF read_socks5_request, read_http_connect_request, GoesTo
  <1>9. CASE OpenStream(a)
    <2>1. CASE wire' = [wire EXCEPT ![a].on = TRUE] /\ UNCHANGED <<ends, sv>>
      <3>1. Untold
          BY <2>1, Zenon DEF ends, Untold
      <3> QED BY <3>1, UntoldStep, Zenon
    <2> QED BY <1>1, <1>9, <2>1, Zenon DEF OpenStream
  <1>10. CASE ReadStatus(a)
      BY <1>5, <1>10, Zenon DEF ReadStatus, VerdictInv
  <1> QED BY <1>6, <1>7, <1>8, <1>9, <1>10, Zenon DEF TaskStep

\* The server's task: the verdict is given once, with the status, and it is about an
\* address of the target that was asked for.
LEMMA StreamTells ==
    ASSUME Shapes, VerdictInv, NEW a \in Apps, Orderly(a), StreamStep(a)
    PROVE  VerdictInv'
  <1> USE DEF Shapes
  <1> DEFINE Of(x) == Allowed(x) /\ \E i \in DOMAIN TargetOf[a].addrs : TargetOf[a].addrs[i] = x
             AllBlocked == \A i \in DOMAIN TargetOf[a].addrs : ~Allowed(TargetOf[a].addrs[i])
  <1>1. ASSUME ~Decided(a), UNCHANGED app, sv'[a].at # "none",
               \A b \in Apps : b # a => sv'[b] = sv[b] /\ wire'[b].status = wire[b].status,
               sv'[a].addr # None => Of(sv'[a].addr),
               sv'[a].verdict = "Succeeded" => sv'[a].addr # None,
               sv'[a].verdict = "Blocked" /\ sv'[a].addr = None => AllBlocked,
               sv'[a].at = "dial" => sv'[a].addr # None /\ sv'[a].verdict = None,
               wire'[a].status # None => wire'[a].status = sv'[a].verdict /\ sv'[a].at \notin {"none", "dial"}
        PROVE  VerdictInv'
    <2>1. ~Substantive(a) /\ wire[a].status = None
        BY <1>1, Zenon DEF VerdictInv
    <2>2. \A b \in Apps : (Substantive(b)' <=> Substantive(b)) /\ (b # a => (Decided(b)' <=> Decided(b)))
        BY <1>1, Zenon DEF Decided, Substantive, Reply
    <2>3. VerdictFaithful'
      <3>1. \A b \in Apps : b # a =>
              /\ app'[b].reply \notin {None, "Rejected", Reply(b, "General")} => app'[b].reply = Reply(b, sv'[b].verdict)
              /\ sv'[b].addr # None => Allowed(sv'[b].addr) /\ \E i \in DOMAIN TargetOf[b].addrs : TargetOf[b].addrs[i] = sv'[b].addr
              /\ sv'[b].verdict = "Succeeded" => sv'[b].addr # None
              /\ sv'[b].verdict = "Blocked" /\ sv'[b].addr = None => \A i \in DOMAIN TargetOf[b].addrs : ~Allowed(TargetOf[b].addrs[i])
          BY <1>1 DEF VerdictInv, VerdictFaithful
      <3>2. app'[a].reply \in {None, "Rejected", Reply(a, "General")}
          BY <1>1, <2>1, Zenon DEF Substantive
      <3> QED BY <1>1, <3>1, <3>2, Zenon DEF VerdictFaithful, Reply, Allowed
    <2>4. Decided(a)' <=> sv'[a].at \notin {"none", "dial"}
        BY Zenon DEF Decided
    <2> QED BY <1>1, <2>1, <2>2, <2>3, <2>4 DEF VerdictInv
  <1>2. ASSUME NEW s, Fails(a, s), ~Decided(a), s # "Succeeded", s = "Blocked" /\ sv[a].addr = None => AllBlocked
        PROVE  VerdictInv'
    <2>1. /\ UNCHANGED app
          /\ sv'[a].at = "gone" /\ sv'[a].verdict = s /\ sv'[a].addr = sv[a].addr /\ wire'[a].status = s
          /\ \A b \in Apps : b # a => sv'[b] = sv[b] /\ wire'[b].status = wire[b].status
        BY <1>2, Zenon DEF Fails, ends
    <2>2. sv[a].addr # None => Of(sv[a].addr)
        BY Zenon DEF VerdictInv, VerdictFaithful
    <2> HIDE DEF Of, AllBlocked
    <2> QED BY <1>1, <1>2, <2>1, <2>2, Zenon
  <1>3. CASE Resolve(a)
    <2>1. ~Decided(a) /\ sv[a].at = "none" /\ sv[a].addr = None /\ sv[a].verdict = None /\ wire[a].on
        BY <1>3, Zenon DEF Resolve, Decided, VerdictInv
    <2>2. read_target(a) = TargetOf[a]
        BY <2>1, TargetArrives, Zenon DEF Orderly, Requested
    <2>3. \/ Fails(a, "Host")
          \/ Fails(a, "Blocked") /\ PickAddr(TargetOf[a]) \subseteq Blocked
          \/ /\ \E x \in PickAddr(TargetOf[a]) \ Blocked : sv' = [sv EXCEPT ![a].at = "dial", ![a].addr = x]
             /\ UNCHANGED <<ends, wire>>
        BY <1>3, <2>2, Zenon DEF Resolve
    <2>4. /\ \A x \in PickAddr(TargetOf[a]) \ Blocked : x # None /\ Of(x)
          /\ PickAddr(TargetOf[a]) \subseteq Blocked => AllBlocked
        BY PickedFromTarget, Zenon DEF Allowed
    <2> HIDE DEF Of, AllBlocked
    <2>5. ASSUME NEW x \in PickAddr(TargetOf[a]) \ Blocked, sv' = [sv EXCEPT ![a].at = "dial", ![a].addr = x],
                 UNCHANGED <<ends, wire>>
          PROVE  VerdictInv'
      <3>1. /\ UNCHANGED app /\ sv'[a].at = "dial" /\ sv'[a].verdict = None /\ sv'[a].addr = x
            /\ \A b \in Apps : b # a => sv'[b] = sv[b]
          BY <2>1, <2>5, Zenon DEF ends
      <3>2. wire'[a].status = None /\ wire' = wire /\ None \notin {"Succeeded", "Blocked"}
          BY <2>1, <2>5, NamesAssumption, Zenon DEF VerdictInv, Statuses
      <3> QED BY <1>1, <2>1, <2>4, <3>1, <3>2, Zenon
    <2> QED BY <1>2, <2>1, <2>3, <2>4, <2>5, Zenon
  <1>4. CASE Dial(a)
    <2>1. ~Decided(a) /\ sv[a].addr # None /\ sv[a].at = "dial" /\ wire[a].status = None
        BY <1>4, Zenon DEF Dial, Decided, VerdictInv
    <2>2. Of(sv[a].addr)
        BY <2>1, Zenon DEF VerdictInv, VerdictFaithful
    <2> HIDE DEF Of, AllBlocked
    <2>3. CASE \E s \in DialErrors : Fails(a, s)
        BY <1>2, <2>1, <2>3, DialAssumption, Zenon
    <2>4. CASE ~(\E s \in DialErrors : Fails(a, s))
      <3>1. /\ UNCHANGED app
            /\ sv'[a].at \in {"copy", "gone"} /\ sv'[a].verdict = "Succeeded" /\ sv'[a].addr = sv[a].addr
            /\ wire'[a].status \in {"Succeeded", wire[a].status}
            /\ \A b \in Apps : b # a => sv'[b] = sv[b] /\ wire'[b].status = wire[b].status
          BY <1>4, <2>4 DEF Dial, ends
      <3> QED BY <1>1, <2>1, <2>2, <3>1, Zenon
    <2> QED BY <2>3, <2>4, Zenon
  <1>5. ASSUME NEW up, NEW down, ServerHalfDone(a, up, down), sv[a].at = "copy"
        PROVE  \A b \in Apps : /\ sv'[b].verdict = sv[b].verdict /\ sv'[b].addr = sv[b].addr
                               /\ sv'[b].at = sv[b].at \/ (sv[b].at = "copy" /\ sv'[b].at = "gone")
      BY <1>5, Zenon DEF ServerHalfDone
  <1>6. CASE ToHost(a) \/ FromHost(a)
      BY <1>6, UntoldStep DEF ToHost, FromHost, ends, Untold
  <1>7. CASE ToHostEnds(a)
      BY <1>5, <1>7, UntoldStep, Zenon DEF ToHostEnds, Untold
  <1>8. CASE FromHostEnds(a)
      BY <1>5, <1>8, UntoldStep, Zenon DEF FromHostEnds, ends, Untold
  <1> QED BY <1>3, <1>4, <1>6, <1>7, <1>8, Zenon DEF StreamStep

\* Every step preserves the invariant.
LEMMA NextRelayInv == RelayInv /\ [Next]_vars => RelayInv'
  <1> SUFFICES ASSUME RelayInv, [Next]_vars PROVE RelayInv'
      BY Zenon
  <1>1. ListInv' /\ Shapes' /\ Known'
      BY NextListInv, NextShapes, NextKnown, Zenon DEF RelayInv, ListInv
  <1>2. /\ ListInv /\ TaskTypes /\ Shapes /\ VerdictInv /\ \A a \in Apps : Orderly(a)
        /\ \A a \in Apps : task'[a].conn = task[a].conn => LinkBack(a)
      BY NextKnown, Zenon DEF RelayInv, ListInv
  <1>3. ASSUME UNCHANGED <<ends, wire, sv>> PROVE VerdictInv'
      BY <1>2, <1>3, UntoldStep, Zenon DEF Untold, ends
  <1>4. ASSUME NEW a \in Apps, UNCHANGED task, UNCHANGED <<ends, wire, sv>> PROVE Orderly(a)'
      BY <1>2, <1>4, AloneStep, Zenon DEF Alone, ends
  <1>5. CASE QuicUp \/ (\E c \in 1 .. MaxConns : ConnLost(c)) \/ KeeperClears \/ UNCHANGED vars
    <2>1. UNCHANGED <<task, ends, wire, sv>>
        BY <1>5, Zenon DEF QuicUp, ConnLost, KeeperClears, vars
    <2> QED BY <1>1, <1>3, <1>4, <2>1, Zenon DEF RelayInv
  <1>6. CASE (\E u \in Callers : CallerStep(u)) \/ (\E l \in Listeners : ListenerStep(l) \/ ListenerEnds(l))
    <2>1. VerdictInv'
      <3>1. CASE \E u \in Callers : CallerStep(u)
          BY <1>3, <3>1, Zenon DEF CallerStep, Enable, Bind, Install, Disable, abort_all_conns
      <3>2. ASSUME NEW l \in Listeners, ListenerStep(l) PROVE VerdictInv'
          BY <1>3, <3>2, Zenon DEF ListenerStep, Accept, Register
      <3>3. ASSUME NEW l \in Listeners, ListenerEnds(l) PROVE VerdictInv'
        <4>1. Untold
            BY <1>2, <3>3, Zenon DEF ListenerEnds, Untold, Shapes
        <4> QED BY <1>2, <4>1, UntoldStep, Zenon
      <3> QED BY <1>6, <3>1, <3>2, <3>3, Zenon
    <2>2. ASSUME NEW a \in Apps PROVE Orderly(a)'
      <3>1. task'[a].conn = task[a].conn
        <4>1. CASE \E u \in Callers : CallerStep(u)
            BY <1>2, <4>1 DEF CallerStep, Enable, Bind, Install, Disable, abort_all_conns, TaskTypes, TaskRecord
        <4>2. ASSUME NEW l \in Listeners, ListenerStep(l) PROVE task'[a].conn = task[a].conn
          <5>1. ASSUME NEW b \in Apps, Accept(l, b) PROVE task'[a].conn = task[a].conn
              BY <1>2, <5>1, Zenon DEF Accept, TaskTypes, TaskRecord
          <5> QED BY <4>2, <5>1, Zenon DEF ListenerStep, Register
        <4>3. ASSUME NEW l \in Listeners, ListenerEnds(l) PROVE task'[a].conn = task[a].conn
            BY <1>2, <4>3, Zenon DEF ListenerEnds, TaskTypes, TaskRecord
        <4> QED BY <1>6, <4>1, <4>2, <4>3, Zenon
      <3> QED BY <1>2, <1>6, <3>1, ToggleOrderly, Zenon
    <2> QED BY <1>1, <2>1, <2>2, Zenon DEF RelayInv
  <1>7. ASSUME NEW a \in Apps, Peers(a) \/ TaskStep(a) \/ StreamStep(a) PROVE RelayInv'
    <2>1. ASSUME NEW b \in Apps, b # a PROVE Orderly(b)'
      <3>1. Alone(b)
          BY <1>2, <1>7, <2>1, OthersAlone, Zenon
      <3> QED BY <1>2, <3>1, AloneStep, Zenon DEF Alone
    <2>2. CASE TaskStep(a)
      <3>1. Orderly(a)'
          BY <1>2, <2>2, TaskOrderly, Zenon
      <3> QED BY <1>1, <1>2, <2>1, <2>2, <3>1, TaskTells, Zenon DEF RelayInv
    <2>3. CASE StreamStep(a)
      <3>1. task' = task
          BY <2>3, Zenon DEF StreamStep, Resolve, Dial, Fails, ToHost, ToHostEnds, FromHost, FromHostEnds
      <3>2. Orderly(a)'
          BY <1>2, <2>3, <3>1, StreamOrderly, Zenon
      <3> QED BY <1>1, <1>2, <2>1, <2>3, <3>2, StreamTells, Zenon DEF RelayInv
    <2>4. CASE Peers(a)
      <3>1. task'[a].conn = task[a].conn
          BY <1>2, <2>4 DEF Peers, Connect, AppRequests, AppSends, AppEnds, HostSends, HostEnds, TaskTypes, TaskRecord
      <3>2. Orderly(a)'
          BY <1>2, <2>4, <3>1, PeersOrderly, Zenon
      <3>3. Untold
          BY <1>2, <2>4 DEF Peers, Connect, AppRequests, AppSends, AppEnds, HostSends, HostEnds, Untold, Shapes, ends
      <3> QED BY <1>1, <1>2, <2>1, <3>2, <3>3, UntoldStep, Zenon DEF RelayInv
    <2> QED BY <1>7, <2>2, <2>3, <2>4, Zenon
  <1> QED BY <1>5, <1>6, <1>7, Zenon DEF Next

\* What a proxied application gets is true, for any number of applications, connections
\* and faults: the verdict on its own request, about an allowed address of its own target,
\* and the end of stream after the last byte (socks5_quic.rs:460-486, 495-563).
THEOREM RelayIsFaithful == Spec => []RelayFaithful
  BY InitRelayInv, NextRelayInv, RelayInvIsEnough, PTL DEF Spec
=============================================================================
