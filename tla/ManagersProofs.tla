--------------------------- MODULE ManagersProofs ---------------------------
(***************************************************************************)
(* Proofs about the server's manager, for any number of calls, peers,      *)
(* deliveries and sessions, and about the two managers together.           *)
(***************************************************************************)
EXTENDS MCManagers, ClientManagerProofs

-----------------------------------------------------------------------------
(* The server's manager: ServerCalls.                                        *)

ServerTypes ==
    /\ s_caller \in [Calls -> Peers] /\ accepted \in Seq(Peers)
    /\ task \in [Server!Tasks -> [at : Server!TaskPlaces, call : Calls, decision : Server!Decisions]]
    /\ pending \in [Peers -> Server!Tasks \cup {0}]
    /\ s_made \in 0 .. MaxTunnels
    /\ sessions \in [Peers -> 0 .. s_made] /\ tpeer \in [Tunnels -> Peers]
    /\ s_live \in [Tunnels -> {"unborn", "dialing", "up", "down"}] /\ s_stream \in [Tunnels -> Seq(Kinds)]
    /\ drain \in [at : {"recv", "insert", "hang_up_old", "watch"}, tunnel : 0 .. s_made, old : 0 .. s_made]

Pushed(s) == {s[i] : i \in DOMAIN s}
Running == {t \in Tunnels : s_live[t] \in {"dialing", "up"}}

\* An announced end is an end, and a tunnel is unborn until it is made.
ServerEnds ==
    /\ \A t \in Tunnels : "Disconnected" \in Pushed(s_stream[t]) => s_live[t] = "down"
    /\ \A t \in Tunnels : t > s_made <=> s_live[t] = "unborn"

\* The accepted-sessions task holds the tunnel it made until the tunnel has a watcher, and
\* the one it replaced until that one is hung up.
DrainHolds ==
    /\ drain.at = "recv" <=> drain.tunnel = 0
    /\ drain.at # "hang_up_old" => drain.old = 0
    /\ drain.at \in {"hang_up_old", "watch"} /\ drain.tunnel \in Running => Server!Listed(drain.tunnel)

\* A call is in flight while its task is at work.
AtWork(k) == task[k].at \notin {"unborn", "done"}
InFlight == \A k \in Server!Tasks : AtWork(k) => task[k].call \in in_flight

SessionInv == ServerEnds /\ DrainHolds /\ Server!SupersededIsDown
DecisionInv == InFlight /\ Server!DecisionsBacked
ServerInv == ServerTypes /\ SessionInv /\ DecisionInv

\* What is on a stream after an event is sent or read.
LEMMA PushedAppend ==
    ASSUME NEW s \in Seq(Kinds), NEW kind \in Kinds
    PROVE  Append(s, kind) \in Seq(Kinds) /\ Pushed(Append(s, kind)) = Pushed(s) \cup {kind}
  <1>1. /\ Append(s, kind) \in Seq(Kinds) /\ Len(Append(s, kind)) = Len(s) + 1 /\ Len(s) \in Nat
        /\ \A i \in 1 .. Len(s) : Append(s, kind)[i] = s[i]
        /\ Append(s, kind)[Len(s) + 1] = kind
      BY AppendProperties, LenProperties
  <1>2. DOMAIN s = 1 .. Len(s) /\ DOMAIN Append(s, kind) = 1 .. Len(s) + 1
      BY <1>1, LenProperties, Zenon
  <1> QED BY <1>1, <1>2 DEF Pushed

LEMMA PushedTail ==
    ASSUME NEW s \in Seq(Kinds), s # <<>>
    PROVE  Tail(s) \in Seq(Kinds) /\ Pushed(Tail(s)) \subseteq Pushed(s) /\ Head(s) \in Pushed(s)
  <1>1. /\ Tail(s) \in Seq(Kinds) /\ Len(Tail(s)) = Len(s) - 1
        /\ \A i \in 1 .. Len(Tail(s)) : Tail(s)[i] = s[i + 1]
        /\ Head(s) = s[1] /\ Len(s) \in Nat /\ Len(s) # 0
      BY HeadTailProperties, LenProperties, EmptySeq
  <1>2. DOMAIN s = 1 .. Len(s) /\ DOMAIN Tail(s) = 1 .. Len(s) - 1
      BY <1>1, LenProperties, Zenon
  <1> QED BY <1>1, <1>2 DEF Pushed

LEMMA SentPushes ==
    ASSUME ServerTypes, NEW t \in Tunnels, NEW kind \in Kinds
    PROVE  Server!Sent(t, kind) \in Seq(Kinds) /\ Pushed(Server!Sent(t, kind)) \subseteq Pushed(s_stream[t]) \cup {kind}
  <1>1. s_stream[t] \in Seq(Kinds)
      BY Zenon DEF ServerTypes
  <1> QED BY <1>1, PushedAppend, Zenon DEF Server!Sent

\* The initial states satisfy the invariant.
LEMMA ServerInit == Server!Init => ServerInv
  <1> SUFFICES ASSUME Server!Init PROVE ServerInv
      BY Zenon
  <1>1. s_stream \in [Tunnels -> Seq(Kinds)] /\ accepted \in Seq(Peers) /\ \A t \in Tunnels : Pushed(s_stream[t]) = {}
      BY EmptySeq DEF Server!Init, Server!Tunnels, Tunnels, Pushed
  <1>2. (CHOOSE c \in Calls : TRUE) \in Calls /\ (CHOOSE p \in Peers : TRUE) \in Peers
      BY CallsAssumption, Zenon
  <1>3. task \in [Server!Tasks -> [at : Server!TaskPlaces, call : Calls, decision : Server!Decisions]]
      BY <1>2, Zenon DEF Server!Init, Server!At, Server!TaskPlaces, Server!Decisions
  <1>4. tpeer \in [Tunnels -> Peers]
      BY <1>2, Zenon DEF Server!Init, Server!Tunnels, Tunnels
  <1>5. ServerTypes
    <2>1. s_made = 0 /\ s_made \in 0 .. MaxTunnels /\ 0 \in 0 .. s_made
        BY BoundsAssumption DEF Server!Init
    <2>2. drain \in [at : {"recv", "insert", "hang_up_old", "watch"}, tunnel : 0 .. s_made, old : 0 .. s_made]
        BY <2>1, Zenon DEF Server!Init, Server!Drain, Server!None
    <2>3. sessions \in [Peers -> 0 .. s_made] /\ pending \in [Peers -> Server!Tasks \cup {0}]
        BY <2>1, Zenon DEF Server!Init, Server!None
    <2>4. s_live \in [Tunnels -> {"unborn", "dialing", "up", "down"}] /\ s_caller \in [Calls -> Peers]
        BY Zenon DEF Server!Init, Server!Tunnels, Tunnels
    <2> QED BY <1>1, <1>3, <1>4, <2>1, <2>2, <2>3, <2>4, Zenon DEF ServerTypes
  <1>6. SessionInv
      BY <1>1 DEF Server!Init, SessionInv, ServerEnds, DrainHolds, Running, Server!SupersededIsDown, Server!Tunnels, Tunnels,
             Server!Drain, Server!None
  <1>7. DecisionInv
      BY Zenon DEF Server!Init, DecisionInv, InFlight, AtWork, Server!DecisionsBacked, Server!OneDecision, Server!PendingBacked,
             Server!At, Server!None
  <1> QED BY <1>5, <1>6, <1>7, Zenon DEF ServerInv

-----------------------------------------------------------------------------
(* Decisions.                                                                *)

Deciding == <<s_caller, in_flight, task, pending>>
Hosting == <<s_made, sessions, tpeer, s_live, s_stream, drain>>

\* What each half of the invariant reads.
LEMMA SameDecisions == ASSUME DecisionInv, UNCHANGED Deciding PROVE DecisionInv'
  BY Zenon DEF Deciding, DecisionInv, InFlight, AtWork, Server!DecisionsBacked, Server!OneDecision, Server!PendingBacked,
         Server!PeerOf

LEMMA SameSessions == ASSUME SessionInv, UNCHANGED Hosting PROVE SessionInv'
  BY Zenon DEF Hosting, SessionInv, ServerEnds, DrainHolds, Running, Server!SupersededIsDown, Server!Listed

\* Tasks at work have different calls.
LEMMA OneEach ==
    /\ Server!OneDecision <=>
          \A j, k \in Server!Tasks : j # k /\ AtWork(j) /\ AtWork(k) => task[j].call # task[k].call
    /\ Server!OneDecision' <=>
          \A j, k \in Server!Tasks : j # k /\ AtWork(j)' /\ AtWork(k)' => task'[j].call # task'[k].call
  BY Zenon DEF Server!OneDecision, AtWork

\* An entry of `pending` names a task of that peer that is deciding.
LEMMA EntriesBacked ==
    ASSUME ServerTypes, DecisionInv, NEW p \in Peers, pending[p] # 0
    PROVE  /\ pending[p] \in Server!Tasks /\ task[pending[p]].at \in {"deciding", "clear"}
           /\ Server!PeerOf(pending[p]) = p
  BY Zenon DEF ServerTypes, DecisionInv, Server!DecisionsBacked, Server!PendingBacked, Server!None

\* A delivery takes a call that is not in flight.
LEMMA DeliverDecides ==
    ASSUME ServerTypes, DecisionInv, NEW k \in Server!Tasks, NEW c \in Calls, Server!Deliver(k, c)
    PROVE  ServerTypes' /\ DecisionInv' /\ UNCHANGED Hosting
  <1>1. /\ task[k].at = "unborn" /\ c \notin in_flight /\ in_flight' = in_flight \cup {c}
        /\ task' = [task EXCEPT ![k] = Server!At("handler", c, "SilentlyIgnore")]
        /\ UNCHANGED <<s_caller, pending, accepted, Hosting>>
      BY Zenon DEF Server!Deliver, Server!Born, Server!tunnels, Hosting
  <1>2. /\ task'[k] = [at |-> "handler", call |-> c, decision |-> "SilentlyIgnore"]
        /\ \A j \in Server!Tasks : j # k => task'[j] = task[j]
      BY <1>1, Zenon DEF ServerTypes, Server!At
  <1>3. ServerTypes'
      BY <1>1, Zenon DEF ServerTypes, Hosting, Server!At, Server!TaskPlaces, Server!Decisions
  <1>4. InFlight'
      BY <1>1, <1>2 DEF DecisionInv, InFlight, AtWork
  <1>5. Server!OneDecision'
      BY <1>1, <1>2, OneEach DEF DecisionInv, Server!DecisionsBacked, InFlight, AtWork
  <1>6. Server!PendingBacked'
      BY <1>1, <1>2, EntriesBacked DEF Server!PendingBacked, Server!PeerOf, Server!None
  <1> QED BY <1>1, <1>3, <1>4, <1>5, <1>6 DEF DecisionInv, Server!DecisionsBacked

\* A task that returns gives its own call back, and no entry was its.
LEMMA ReturnDecides ==
    ASSUME ServerTypes, DecisionInv, NEW k \in Server!Tasks, Server!Return(k),
           task[k].at \in {"handler", "act", "offer"}, UNCHANGED <<s_caller, pending>>
    PROVE  DecisionInv' /\ task' \in [Server!Tasks -> [at : Server!TaskPlaces, call : Calls, decision : Server!Decisions]]
  <1>1. in_flight' = in_flight \ {task[k].call} /\ task' = [task EXCEPT ![k].at = "done"]
      BY Zenon DEF Server!Return, Server!Goto
  <1>2. /\ task'[k].at = "done" /\ task'[k].call = task[k].call
        /\ \A j \in Server!Tasks : j # k => task'[j] = task[j]
      BY <1>1 DEF ServerTypes
  <1>3. InFlight'
      BY <1>1, <1>2, OneEach DEF DecisionInv, InFlight, AtWork, Server!DecisionsBacked
  <1>4. Server!OneDecision'
      BY <1>1, <1>2, OneEach DEF DecisionInv, Server!DecisionsBacked, AtWork
  <1>5. Server!PendingBacked'
      BY <1>1, <1>2, EntriesBacked DEF Server!PendingBacked, Server!PeerOf, Server!None
  <1>6. task' \in [Server!Tasks -> [at : Server!TaskPlaces, call : Calls, decision : Server!Decisions]]
      BY <1>1, ZenonT(30) DEF ServerTypes, Server!TaskPlaces
  <1> QED BY <1>3, <1>4, <1>5, <1>6, Zenon DEF DecisionInv, Server!DecisionsBacked

\* A task at work moves on with its call; the entries of the peers are as backed as before.
LEMMA MovesDecide ==
    ASSUME ServerTypes, DecisionInv, NEW k \in Server!Tasks, AtWork(k), UNCHANGED <<s_caller, in_flight>>,
           NEW at \in Server!TaskPlaces, at \notin {"unborn", "done"}, NEW d \in Server!Decisions,
           task' = [task EXCEPT ![k].at = at, ![k].decision = d],
           \A p \in Peers : pending'[p] # 0 =>
              \/ pending'[p] = k /\ at \in {"deciding", "clear"} /\ Server!PeerOf(k) = p
              \/ pending'[p] = pending[p] /\ pending[p] # k
    PROVE  DecisionInv' /\ task' \in [Server!Tasks -> [at : Server!TaskPlaces, call : Calls, decision : Server!Decisions]]
  <1>1. /\ task'[k].at = at /\ task'[k].call = task[k].call
        /\ \A j \in Server!Tasks : j # k => task'[j] = task[j]
      BY DEF ServerTypes
  <1>2. \A j \in Server!Tasks : AtWork(j)' => AtWork(j) /\ task'[j].call = task[j].call
      BY <1>1, Zenon DEF AtWork
  <1>3. s_caller' = s_caller /\ in_flight' = in_flight
      BY Zenon
  <1>4. InFlight'
    <2> SUFFICES ASSUME NEW j \in Server!Tasks, AtWork(j)' PROVE task'[j].call \in in_flight'
        BY Zenon DEF InFlight
    <2> QED BY <1>2, <1>3, Zenon DEF DecisionInv, InFlight
  <1>5. Server!OneDecision'
      BY <1>2, OneEach, ZenonT(30) DEF DecisionInv, Server!DecisionsBacked
  <1>6. Server!PendingBacked'
    <2> SUFFICES ASSUME NEW p \in Peers, pending'[p] # 0
                 PROVE  task'[pending'[p]].at \in {"deciding", "clear"} /\ s_caller'[task'[pending'[p]].call] = p
        BY Zenon DEF Server!PendingBacked, Server!PeerOf, Server!None
    <2>1. CASE pending'[p] = k /\ at \in {"deciding", "clear"} /\ Server!PeerOf(k) = p
        BY <1>1, <1>3, <2>1, Zenon DEF Server!PeerOf
    <2>2. CASE pending'[p] = pending[p] /\ pending[p] # k
      <3>1. /\ pending[p] \in Server!Tasks /\ task[pending[p]].at \in {"deciding", "clear"}
            /\ Server!PeerOf(pending[p]) = p
          BY <2>2, EntriesBacked, Zenon
      <3>2. task'[pending[p]] = task[pending[p]]
          BY <1>1, <2>2, <3>1, ZenonT(30)
      <3> QED BY <1>3, <2>2, <3>1, <3>2 DEF Server!PeerOf
    <2> QED BY <2>1, <2>2, Zenon
  <1> QED BY <1>4, <1>5, <1>6, ZenonT(30) DEF DecisionInv, Server!DecisionsBacked, ServerTypes

\* The steps of on_incoming_call preserve the invariant and leave the sessions alone.
LEMMA IncomingDecides ==
    ASSUME ServerTypes, DecisionInv, NEW k \in Server!Tasks,
           Server!Incoming(k) \/ \E d \in Server!Decisions : Server!Decided(k, d)
    PROVE  ServerTypes' /\ DecisionInv' /\ UNCHANGED Hosting
  <1> DEFINE TaskType == [Server!Tasks -> [at : Server!TaskPlaces, call : Calls, decision : Server!Decisions]]
  <1>1. UNCHANGED Hosting /\ s_caller' = s_caller
      BY Zenon DEF Server!Incoming, Server!NoHandler, Server!Register, Server!Decided, Server!DecideCancelled, Server!ClearSlot,
             Server!NoSession, Server!Track, Server!Offer, Server!tunnels, Hosting
  <1>2. task[k] \in [at : Server!TaskPlaces, call : Calls, decision : Server!Decisions] /\ Server!PeerOf(k) \in Peers
      BY Zenon DEF ServerTypes, Server!PeerOf
  <1>3. ASSUME task' \in TaskType, pending' \in [Peers -> Server!Tasks \cup {0}], accepted' \in Seq(Peers)
        PROVE  ServerTypes'
      BY <1>1, <1>3, Zenon DEF ServerTypes, Hosting
  <1>4. CASE Server!NoHandler(k) \/ Server!NoSession(k)
    <2>1. Server!Return(k) /\ task[k].at \in {"handler", "act"} /\ UNCHANGED <<pending, accepted>>
        BY <1>4, Zenon DEF Server!NoHandler, Server!NoSession
    <2>2. DecisionInv' /\ task' \in TaskType
        BY <1>1, <2>1, ReturnDecides
    <2>3. ServerTypes'
        BY <1>3, <2>1, <2>2, ZenonT(30) DEF ServerTypes
    <2> QED BY <1>1, <2>2, <2>3
  <1>5. CASE Server!Offer(k)
    <2>1. Server!Return(k) /\ task[k].at = "offer" /\ UNCHANGED pending /\ accepted' = Append(accepted, Server!PeerOf(k))
        BY <1>5, Zenon DEF Server!Offer
    <2>2. DecisionInv' /\ task' \in TaskType
        BY <1>1, <2>1, ReturnDecides
    <2>3. accepted' \in Seq(Peers)
        BY <1>2, <2>1, AppendProperties DEF ServerTypes
    <2>4. ServerTypes'
        BY <1>3, <2>1, <2>2, <2>3, ZenonT(30) DEF ServerTypes
    <2> QED BY <1>1, <2>2, <2>4, Zenon
  <1>6. ASSUME NEW at \in Server!TaskPlaces, at \notin {"unborn", "done"}, NEW d \in Server!Decisions,
               task' = [task EXCEPT ![k].at = at, ![k].decision = d], AtWork(k),
               UNCHANGED <<in_flight, accepted>>, pending' \in [Peers -> Server!Tasks \cup {0}],
               \A p \in Peers : pending'[p] # 0 =>
                  \/ pending'[p] = k /\ at \in {"deciding", "clear"} /\ Server!PeerOf(k) = p
                  \/ pending'[p] = pending[p] /\ pending[p] # k
        PROVE  ServerTypes' /\ DecisionInv'
    <2>1. DecisionInv' /\ task' \in TaskType
        BY <1>1, <1>6, MovesDecide, ZenonT(30)
    <2>2. accepted' \in Seq(Peers)
        BY <1>6, Zenon DEF ServerTypes
    <2> QED BY <1>3, <1>6, <2>1, <2>2
  <1>7. ASSUME NEW at, Server!Goto(k, at) PROVE task' = [task EXCEPT ![k].at = at, ![k].decision = task[k].decision]
      BY <1>7, Zenon DEF Server!Goto, ServerTypes
  <1>8. CASE Server!Register(k)
    <2>1. /\ task[k].at = "handler" /\ pending' = [pending EXCEPT ![Server!PeerOf(k)] = k] /\ Server!Goto(k, "deciding")
          /\ UNCHANGED <<in_flight, accepted>>
        BY <1>8, Zenon DEF Server!Register
    <2>2. pending' \in [Peers -> Server!Tasks \cup {0}]
        BY <2>1, Zenon DEF ServerTypes
    <2>3. \A p \in Peers : pending[p] # k
        BY <2>1, EntriesBacked DEF Server!Tasks
    <2>4. \A p \in Peers : (pending'[p] = k /\ Server!PeerOf(k) = p) \/ (pending'[p] = pending[p] /\ pending[p] # k)
        BY <1>2, <2>1, <2>3 DEF ServerTypes
    <2>5. task' = [task EXCEPT ![k].at = "deciding", ![k].decision = task[k].decision]
        BY <1>7, <2>1, Zenon
    <2> QED BY <1>1, <1>2, <1>6, <2>1, <2>2, <2>4, <2>5, ZenonT(30) DEF AtWork, Server!TaskPlaces
  <1>9. CASE Server!DecideCancelled(k) \/ \E d \in Server!Decisions : Server!Decided(k, d)
    <2>1. PICK d \in Server!Decisions :
             /\ task[k].at = "deciding" /\ task' = [task EXCEPT ![k].at = "clear", ![k].decision = d]
             /\ UNCHANGED <<in_flight, accepted, pending>>
        BY <1>9, Zenon DEF Server!DecideCancelled, Server!Decided, Server!Decisions
    <2>2. pending' \in [Peers -> Server!Tasks \cup {0}]
        BY <2>1, Zenon DEF ServerTypes
    <2>3. \A p \in Peers : pending'[p] # 0 =>
                  \/ pending'[p] = k /\ Server!PeerOf(k) = p
                  \/ pending'[p] = pending[p] /\ pending[p] # k
        BY <2>1, EntriesBacked, Zenon
    <2> QED BY <1>1, <1>6, <2>1, <2>2, <2>3, ZenonT(30) DEF AtWork, Server!TaskPlaces
  <1>10. CASE Server!ClearSlot(k)
    <2>1. /\ task[k].at = "clear" /\ pending' = [pending EXCEPT ![Server!PeerOf(k)] = 0] /\ Server!Goto(k, "act")
          /\ UNCHANGED <<in_flight, accepted>>
        BY <1>10, Zenon DEF Server!ClearSlot, Server!None
    <2>2. pending' \in [Peers -> Server!Tasks \cup {0}]
        BY <2>1, Zenon DEF ServerTypes
    <2>3. \A p \in Peers : pending'[p] # 0 => pending'[p] = pending[p] /\ pending[p] # k
        BY <1>2, <2>1, EntriesBacked DEF ServerTypes
    <2>4. task' = [task EXCEPT ![k].at = "act", ![k].decision = task[k].decision]
        BY <1>7, <2>1, Zenon
    <2> QED BY <1>1, <1>2, <1>6, <2>1, <2>2, <2>3, <2>4, ZenonT(30) DEF AtWork, Server!TaskPlaces
  <1>11. CASE Server!Track(k)
    <2>1. task[k].at = "act" /\ Server!Goto(k, "offer") /\ UNCHANGED <<in_flight, accepted, pending>>
        BY <1>11, Zenon DEF Server!Track
    <2>2. pending' \in [Peers -> Server!Tasks \cup {0}]
        BY <2>1, Zenon DEF ServerTypes
    <2>3. \A p \in Peers : pending'[p] # 0 => pending'[p] = pending[p] /\ pending[p] # k
        BY <2>1, EntriesBacked, Zenon
    <2>4. task' = [task EXCEPT ![k].at = "offer", ![k].decision = task[k].decision]
        BY <1>7, <2>1, Zenon
    <2> QED BY <1>1, <1>2, <1>6, <2>1, <2>2, <2>3, <2>4, ZenonT(30) DEF AtWork, Server!TaskPlaces
  <1> QED BY <1>4, <1>5, <1>8, <1>9, <1>10, <1>11 DEF Server!Incoming

-----------------------------------------------------------------------------
(* Sessions.                                                                 *)

\* Lives only fall, and an end that is announced is one.
LivesFall ==
    /\ s_live' \in [Tunnels -> {"unborn", "dialing", "up", "down"}] /\ s_stream' \in [Tunnels -> Seq(Kinds)]
    /\ Running' \subseteq Running
    /\ \A t \in Tunnels : "Disconnected" \in Pushed(s_stream'[t]) => s_live'[t] = "down"
    /\ \A t \in Tunnels : s_live[t] = "unborn" <=> s_live'[t] = "unborn"

\* A step in which lives fall and nothing else of the sessions changes.
LEMMA FallKeeps ==
    ASSUME ServerTypes, SessionInv, LivesFall, UNCHANGED <<s_caller, accepted, task, pending>>,
           UNCHANGED <<s_made, sessions, tpeer, drain>>
    PROVE  ServerTypes' /\ SessionInv'
  <1>1. ServerTypes'
      BY Zenon DEF ServerTypes, LivesFall
  <1>2. ServerEnds'
      BY Zenon DEF SessionInv, ServerEnds, LivesFall
  <1>3. DrainHolds'
      BY Zenon DEF SessionInv, DrainHolds, LivesFall, Server!Listed
  <1>4. Server!SupersededIsDown'
    <2>1. \A t \in Tunnels : s_live'[t] \in {"dialing", "up"} => s_live[t] \in {"dialing", "up"}
        BY Zenon DEF LivesFall, Running
    <2> QED BY <2>1, Zenon DEF SessionInv, Server!SupersededIsDown, Server!Listed, Server!Tunnels, Tunnels
  <1> QED BY <1>1, <1>2, <1>3, <1>4 DEF SessionInv

\* Hanging up tunnels that are made.
LEMMA HangingUp ==
    ASSUME ServerTypes, SessionInv, NEW T, \A t \in T : t \in 1 .. s_made, Server!Disconnect(T)
    PROVE  LivesFall
  <1>1. /\ s_live' = [t \in Tunnels |-> IF t \in T THEN "down" ELSE s_live[t]]
        /\ s_stream' = [t \in Tunnels |-> IF t \in T THEN Server!Sent(t, "Disconnected") ELSE s_stream[t]]
      BY Zenon DEF Server!Disconnect, Server!Tunnels, Tunnels
  <1>2. s_live' \in [Tunnels -> {"unborn", "dialing", "up", "down"}]
      BY <1>1, Zenon DEF ServerTypes
  <1>3. s_stream' \in [Tunnels -> Seq(Kinds)]
      BY <1>1, SentPushes, Zenon DEF ServerTypes, Kinds
  <1>4. Running' \subseteq Running
      BY <1>1, Zenon DEF Running
  <1>5. \A t \in Tunnels : "Disconnected" \in Pushed(s_stream'[t]) => s_live'[t] = "down"
      BY <1>1, Zenon DEF SessionInv, ServerEnds
  <1>6. \A t \in Tunnels : s_live[t] = "unborn" <=> s_live'[t] = "unborn"
    <2> SUFFICES ASSUME NEW t \in Tunnels, t \in T PROVE s_live[t] # "unborn"
        BY <1>1, Zenon
    <2>1. t \in 1 .. s_made /\ s_made \in Nat
        BY DEF ServerTypes
    <2> QED BY <2>1 DEF SessionInv, ServerEnds
  <1> QED BY <1>2, <1>3, <1>4, <1>5, <1>6 DEF LivesFall

\* A tunnel that says something.
LEMMA TunnelsSay ==
    ASSUME ServerTypes, SessionInv, NEW t \in Tunnels,
           Server!TunnelUp(t) \/ Server!TunnelEnds(t) \/ Server!TunnelTimesOut(t)
    PROVE  LivesFall
  <1>1. PICK kind \in Kinds, to \in {"up", "down"} :
           /\ s_live[t] \in {"dialing", "up"} /\ (kind = "Disconnected" => to = "down")
           /\ s_stream' = [s_stream EXCEPT ![t] = Server!Sent(t, kind)] /\ s_live' = [s_live EXCEPT ![t] = to]
      BY Zenon DEF Server!TunnelUp, Server!TunnelEnds, Server!TunnelTimesOut, Server!TunnelSays, Kinds
  <1>2. /\ s_live' \in [Tunnels -> {"unborn", "dialing", "up", "down"}] /\ Running' \subseteq Running
        /\ \A u \in Tunnels : s_live[u] = "unborn" <=> s_live'[u] = "unborn"
      BY <1>1, Zenon DEF ServerTypes, Running
  <1>3. Server!Sent(t, kind) \in Seq(Kinds) /\ Pushed(Server!Sent(t, kind)) \subseteq Pushed(s_stream[t]) \cup {kind}
      BY SentPushes, Zenon
  <1>4. s_stream' \in [Tunnels -> Seq(Kinds)]
      BY <1>1, <1>3, Zenon DEF ServerTypes
  <1>5. ASSUME NEW u \in Tunnels, "Disconnected" \in Pushed(s_stream'[u]) PROVE s_live'[u] = "down"
    <2>1. CASE u = t
      <3>1. "Disconnected" \notin Pushed(s_stream[t])
          BY <1>1, Zenon DEF SessionInv, ServerEnds
      <3>2. s_stream'[t] = Server!Sent(t, kind) /\ s_live'[t] = to
          BY <1>1, Zenon DEF ServerTypes
      <3> QED BY <1>1, <1>3, <1>5, <2>1, <3>1, <3>2
    <2>2. CASE u # t
        BY <1>1, <1>5, <2>2 DEF ServerTypes, SessionInv, ServerEnds
    <2> QED BY <2>1, <2>2, Zenon
  <1> QED BY <1>2, <1>4, <1>5, Zenon DEF LivesFall

\* A watcher reads the front of its tunnel's stream.
LEMMA WatchersRead ==
    ASSUME ServerTypes, SessionInv, NEW t \in Tunnels, NEW kind, Server!Hears(t, kind), Server!Read(t), s_live' = s_live
    PROVE  LivesFall /\ (kind = "Disconnected" => s_live[t] = "down")
  <1>1. /\ s_stream[t] \in Seq(Kinds) /\ s_stream[t] # <<>> /\ Head(s_stream[t]) = kind
        /\ s_stream' = [s_stream EXCEPT ![t] = Tail(s_stream[t])]
      BY Zenon DEF Server!Hears, Server!Read, ServerTypes
  <1>2. Tail(s_stream[t]) \in Seq(Kinds) /\ Pushed(Tail(s_stream[t])) \subseteq Pushed(s_stream[t]) /\ kind \in Pushed(s_stream[t])
      BY <1>1, PushedTail, Zenon
  <1>3. s_stream' \in [Tunnels -> Seq(Kinds)]
      BY <1>1, <1>2, Zenon DEF ServerTypes
  <1>4. \A u \in Tunnels : Pushed(s_stream'[u]) \subseteq Pushed(s_stream[u])
    <2> SUFFICES ASSUME NEW u \in Tunnels PROVE Pushed(s_stream'[u]) \subseteq Pushed(s_stream[u])
        BY Zenon
    <2>1. s_stream'[u] = IF u = t THEN Tail(s_stream[t]) ELSE s_stream[u]
        BY <1>1, Zenon DEF ServerTypes
    <2> QED BY <1>2, <2>1, Zenon
  <1>5. \A u \in Tunnels : "Disconnected" \in Pushed(s_stream'[u]) => s_live'[u] = "down"
      BY <1>4, Zenon DEF SessionInv, ServerEnds
  <1>6. s_live' \in [Tunnels -> {"unborn", "dialing", "up", "down"}] /\ Running' = Running
      BY Zenon DEF ServerTypes, Running
  <1> QED BY <1>2, <1>3, <1>5, <1>6 DEF LivesFall, SessionInv, ServerEnds

\* A watcher takes its own tunnel out of the registry, and only once the tunnel is down.
LEMMA WatchKeeps ==
    ASSUME ServerTypes, SessionInv, NEW t \in Tunnels, Server!Watch(t)
    PROVE  /\ ServerTypes' /\ SessionInv' /\ UNCHANGED Deciding
           /\ \A p \in Peers : sessions'[p] = sessions[p] \/ (sessions[p] = t /\ s_live[t] = "down")
  <1>1. UNCHANGED Deciding /\ UNCHANGED <<s_caller, accepted, task, pending>> /\ UNCHANGED <<s_made, tpeer, s_live, drain>>
      BY Zenon DEF Server!Watch, Server!WatchSkips, Server!WatchConnected, Server!WatchDisconnected, Server!WatchReport,
             Server!calls, Server!tunnels, Deciding
  <1>2. CASE Server!WatchSkips(t) \/ Server!WatchConnected(t)
    <2>1. PICK kind : Server!Hears(t, kind) /\ Server!Read(t) /\ sessions' = sessions
        BY <1>2, Zenon DEF Server!WatchSkips, Server!WatchConnected
    <2>2. LivesFall
        BY <1>1, <2>1, WatchersRead
    <2> QED BY <1>1, <2>1, <2>2, FallKeeps
  <1>3. CASE Server!WatchReport(t)
    <2>1. UNCHANGED Hosting
        BY <1>1, <1>3, Zenon DEF Server!WatchReport, Server!tunnels, Hosting
    <2>2. ServerTypes'
        BY <1>1, <2>1 DEF ServerTypes, Hosting
    <2> QED BY <1>1, <2>1, <2>2, SameSessions DEF Hosting
  <1>4. CASE Server!WatchDisconnected(t)
    <2>1. /\ Server!Hears(t, "Disconnected") /\ Server!Read(t)
          /\ sessions' = IF Server!Listed(t) THEN [sessions EXCEPT ![tpeer[t]] = 0] ELSE sessions
        BY <1>4, Zenon DEF Server!WatchDisconnected, Server!None
    <2>2. LivesFall /\ s_live[t] = "down"
        BY <1>1, <2>1, WatchersRead
    <2>3. /\ sessions' \in [Peers -> 0 .. s_made]
          /\ \A p \in Peers : sessions'[p] = sessions[p] \/ sessions[p] = t
        BY <2>1 DEF ServerTypes, Server!Listed
    <2>4. ServerTypes'
        BY <1>1, <2>2, <2>3, Zenon DEF ServerTypes, LivesFall
    <2>5. ServerEnds'
        BY <1>1, <2>2, Zenon DEF SessionInv, ServerEnds, LivesFall
    <2>6. \A u \in Running : Server!Listed(u) => Server!Listed(u)'
      <3> SUFFICES ASSUME NEW u \in Running, Server!Listed(u) PROVE sessions'[tpeer[u]] = u
          BY <1>1, Zenon DEF Server!Listed
      <3>1. tpeer[u] \in Peers /\ sessions[tpeer[u]] = u /\ u # t
          BY <2>2, Zenon DEF Running, ServerTypes, Server!Listed
      <3> QED BY <2>3, <3>1, Zenon
    <2>7. Running' = Running
        BY <1>1, Zenon DEF Running
    <2>8. DrainHolds'
        BY <1>1, <2>6, <2>7 DEF SessionInv, DrainHolds
    <2>9. Server!SupersededIsDown'
        BY <1>1, <2>6, <2>7 DEF SessionInv, Server!SupersededIsDown, Running, Server!Tunnels, Tunnels
    <2> QED BY <1>1, <2>2, <2>3, <2>4, <2>5, <2>8, <2>9 DEF SessionInv
  <1> QED BY <1>2, <1>3, <1>4 DEF Server!Watch

\* The accepted-sessions task makes a tunnel, registers it, hangs the replaced one up and
\* starts a watcher.
LEMMA DrainKeeps ==
    ASSUME ServerTypes, SessionInv, Server!DrainStep
    PROVE  /\ ServerTypes' /\ SessionInv' /\ UNCHANGED Deciding
           /\ \A p \in Peers : sessions'[p] = 0 => sessions[p] = 0
  <1>1. UNCHANGED Deciding
      BY Zenon DEF Server!DrainStep, Server!DrainConnect, Server!DrainInsert, Server!DrainHangUpOld, Server!DrainWatch,
             Server!calls, Deciding
  <1>2. /\ s_made \in Nat /\ MaxTunnels \in Nat /\ drain.tunnel \in 0 .. s_made /\ drain.old \in 0 .. s_made
        /\ \A t \in Tunnels : s_live[t] \in {"dialing", "up"} => Server!Listed(t) \/ t \in {drain.tunnel, drain.old}
      BY BoundsAssumption DEF ServerTypes, SessionInv, Server!SupersededIsDown, Server!Tunnels, Tunnels
  <1>3. CASE Server!DrainConnect
    <2>1. /\ drain.at = "recv" /\ accepted # <<>> /\ s_made < MaxTunnels /\ s_made' = s_made + 1
          /\ accepted' = Tail(accepted) /\ tpeer' = [tpeer EXCEPT ![s_made + 1] = Head(accepted)]
          /\ s_live' = [s_live EXCEPT ![s_made + 1] = "dialing"]
          /\ drain' = [at |-> "insert", tunnel |-> s_made + 1, old |-> 0]
          /\ UNCHANGED <<sessions, s_stream>>
        BY <1>3, Zenon DEF Server!DrainConnect, Server!Drain, Server!None
    <2>2. Head(accepted) \in Peers /\ Tail(accepted) \in Seq(Peers) /\ s_made + 1 \in Tunnels
        BY <1>2, <2>1, HeadTailProperties DEF ServerTypes, Tunnels
    <2>3. /\ s_live' \in [Tunnels -> {"unborn", "dialing", "up", "down"}] /\ s_live'[s_made + 1] = "dialing"
          /\ \A t \in Tunnels : t # s_made + 1 => s_live'[t] = s_live[t] /\ tpeer'[t] = tpeer[t]
        BY <2>1, <2>2, Zenon DEF ServerTypes
    <2>4. ServerTypes'
      <3>1. tpeer' \in [Tunnels -> Peers] /\ s_made' \in 0 .. MaxTunnels
          BY <1>2, <2>1, <2>2 DEF ServerTypes
      <3>2. sessions' \in [Peers -> 0 .. s_made']
          BY <1>2, <2>1 DEF ServerTypes
      <3>3. drain' \in [at : {"recv", "insert", "hang_up_old", "watch"}, tunnel : 0 .. s_made', old : 0 .. s_made']
          BY <1>2, <2>1
      <3> QED BY <1>1, <2>1, <2>2, <2>3, <3>1, <3>2, <3>3, Zenon DEF ServerTypes, Deciding
    <2>5. ServerEnds'
      <3>1. \A t \in Tunnels : t > s_made + 1 <=> s_live'[t] = "unborn"
          BY <1>2, <2>2, <2>3 DEF SessionInv, ServerEnds, Tunnels
      <3>2. "Disconnected" \notin Pushed(s_stream[s_made + 1])
          BY <1>2, <2>2 DEF SessionInv, ServerEnds
      <3>3. \A t \in Tunnels : "Disconnected" \in Pushed(s_stream[t]) => s_live'[t] = "down"
          BY <2>3, <3>2, Zenon DEF SessionInv, ServerEnds
      <3> QED BY <2>1, <3>1, <3>3 DEF ServerEnds
    <2>6. DrainHolds'
        BY <1>2, <2>1 DEF DrainHolds
    <2>7. Server!SupersededIsDown'
      <3> SUFFICES ASSUME NEW t \in Tunnels, s_live'[t] \in {"dialing", "up"}, t # s_made + 1
                   PROVE  sessions[tpeer'[t]] = t
          BY <2>1, Zenon DEF Server!SupersededIsDown, Server!Listed, Server!Tunnels, Tunnels
      <3>1. drain.tunnel = 0 /\ drain.old = 0
          BY <2>1, Zenon DEF SessionInv, DrainHolds
      <3>2. t # 0
          BY DEF Tunnels
      <3> QED BY <1>2, <2>3, <3>1, <3>2 DEF Server!Listed
    <2> QED BY <1>1, <2>1, <2>4, <2>5, <2>6, <2>7, Zenon DEF SessionInv
  <1>4. CASE Server!DrainInsert
    <2> DEFINE new == drain.tunnel
               peer_ == tpeer[drain.tunnel]
    <2>1. /\ drain.at = "insert" /\ sessions' = [sessions EXCEPT ![peer_] = new]
          /\ drain' = [at |-> "hang_up_old", tunnel |-> new, old |-> sessions[peer_]]
          /\ UNCHANGED <<accepted, s_made, tpeer, s_live, s_stream>>
        BY <1>4, Zenon DEF Server!DrainInsert, Server!Drain, Server!tunnels
    <2>2. new # 0 /\ drain.old = 0
        BY <2>1, Zenon DEF SessionInv, DrainHolds
    <2>3. new \in Tunnels /\ peer_ \in Peers
      <3>1. new \in Tunnels
          BY <1>2, <2>2 DEF Tunnels, ServerTypes
      <3> QED BY <3>1, Zenon DEF ServerTypes
    <2>4. /\ sessions' \in [Peers -> 0 .. s_made] /\ sessions'[peer_] = new
          /\ \A p \in Peers : p # peer_ => sessions'[p] = sessions[p]
        BY <1>2, <2>1, <2>3, Zenon DEF ServerTypes
    <2>5. drain' \in [at : {"recv", "insert", "hang_up_old", "watch"}, tunnel : 0 .. s_made, old : 0 .. s_made]
        BY <1>2, <2>1, <2>3, Zenon DEF ServerTypes
    <2>6. ServerTypes'
        BY <1>1, <2>1, <2>4, <2>5 DEF ServerTypes, Deciding
    <2>7. ServerEnds'
        BY <2>1, Zenon DEF SessionInv, ServerEnds
    <2>8. DrainHolds'
        BY <2>1, <2>2, <2>4 DEF DrainHolds, Server!Listed
    <2>9. Server!SupersededIsDown'
      <3> SUFFICES ASSUME NEW t \in Tunnels, s_live[t] \in {"dialing", "up"}, t # new, t # sessions[peer_]
                   PROVE  sessions'[tpeer[t]] = t
          BY <2>1, Zenon DEF Server!SupersededIsDown, Server!Listed, Server!Tunnels, Tunnels
      <3>1. t # 0 /\ tpeer[t] \in Peers
          BY DEF Tunnels, ServerTypes
      <3>2. sessions[tpeer[t]] = t
          BY <1>2, <2>2, <3>1, Zenon DEF Server!Listed
      <3> QED BY <2>4, <3>1, <3>2
    <2>10. \A p \in Peers : sessions'[p] = 0 => sessions[p] = 0
        BY <2>2, <2>4, Zenon
    <2> QED BY <1>1, <2>6, <2>7, <2>8, <2>9, <2>10 DEF SessionInv
  <1>5. CASE Server!DrainHangUpOld
    <2>1. /\ drain.at = "hang_up_old" /\ Server!Disconnect({drain.old} \ {0})
          /\ drain' = [at |-> "watch", tunnel |-> drain.tunnel, old |-> 0]
          /\ UNCHANGED <<accepted, s_made, tpeer, sessions>>
        BY <1>5, Zenon DEF Server!DrainHangUpOld, Server!Drain, Server!None
    <2>2. LivesFall
      <3>1. \A t \in {drain.old} \ {0} : t \in 1 .. s_made
          BY <1>2
      <3> QED BY <2>1, <3>1, HangingUp
    <2>3. ServerTypes'
      <3>1. drain' \in [at : {"recv", "insert", "hang_up_old", "watch"}, tunnel : 0 .. s_made, old : 0 .. s_made]
          BY <1>2, <2>1
      <3> QED BY <1>1, <2>1, <2>2, <3>1 DEF ServerTypes, Deciding, LivesFall
    <2>4. ServerEnds'
        BY <2>1, <2>2, Zenon DEF SessionInv, ServerEnds, LivesFall
    <2>5. DrainHolds'
        BY <2>1, <2>2, Zenon DEF SessionInv, DrainHolds, LivesFall, Server!Listed
    <2>6. Server!SupersededIsDown'
      <3> SUFFICES ASSUME NEW t \in Tunnels, s_live'[t] \in {"dialing", "up"}, t # drain.tunnel
                   PROVE  sessions[tpeer[t]] = t
          BY <2>1, Zenon DEF Server!SupersededIsDown, Server!Listed, Server!Tunnels, Tunnels
      <3>1. t # drain.old
          BY <2>1 DEF Server!Disconnect, Server!Tunnels, Tunnels
      <3>2. s_live[t] \in {"dialing", "up"}
          BY <2>2, Zenon DEF LivesFall, Running
      <3> QED BY <1>2, <3>1, <3>2 DEF Server!Listed
    <2> QED BY <1>1, <2>1, <2>3, <2>4, <2>5, <2>6, Zenon DEF SessionInv
  <1>6. CASE Server!DrainWatch
    <2>1. /\ drain.at = "watch" /\ drain' = [at |-> "recv", tunnel |-> 0, old |-> 0]
          /\ UNCHANGED <<accepted, sessions, s_made, tpeer, s_live, s_stream>>
        BY <1>6, Zenon DEF Server!DrainWatch, Server!Drain, Server!None, Server!tunnels
    <2>2. ServerTypes'
      <3>1. drain' \in [at : {"recv", "insert", "hang_up_old", "watch"}, tunnel : 0 .. s_made, old : 0 .. s_made]
          BY <1>2, <2>1
      <3> QED BY <1>1, <2>1, <3>1 DEF ServerTypes, Deciding
    <2>3. ServerEnds' /\ DrainHolds'
        BY <2>1, Zenon DEF SessionInv, ServerEnds, DrainHolds, Running, Tunnels
    <2>4. Server!SupersededIsDown'
      <3> SUFFICES ASSUME NEW t \in Tunnels, s_live[t] \in {"dialing", "up"} PROVE Server!Listed(t)
          BY <2>1, Zenon DEF Server!SupersededIsDown, Server!Listed, Server!Tunnels, Tunnels
      <3>1. t # 0 /\ drain.old = 0
          BY <2>1 DEF SessionInv, DrainHolds, Tunnels
      <3> QED BY <1>2, <2>1, <3>1 DEF SessionInv, DrainHolds, Running
    <2> QED BY <1>1, <2>1, <2>2, <2>3, <2>4 DEF SessionInv
  <1> QED BY <1>3, <1>4, <1>5, <1>6 DEF Server!DrainStep

-----------------------------------------------------------------------------
(* The two managers together.                                                *)

\* A step of the server preserves the invariant, and only a session that is down leaves.
LEMMA ServerStep == ASSUME ServerInv, Server!Next PROVE ServerInv' /\ Server!KeepsNewSession
  <1> USE DEF ServerInv
  <1>1. ASSUME UNCHANGED sessions PROVE Server!KeepsNewSession
      BY <1>1, Zenon DEF Server!KeepsNewSession
  <1>2. CASE Server!NewManager \/ Server!SetAdmission \/ Server!InstallNoop \/ Server!UserTeardown \/ Server!EnderLooks
    <2>1. UNCHANGED <<Deciding, accepted, Hosting>>
        BY <1>2, Zenon DEF Server!NewManager, Server!SetAdmission, Server!InstallNoop, Server!UserTeardown, Server!EnderLooks,
                    Server!calls, Server!tunnels, Deciding, Hosting
    <2>2. ServerTypes' /\ UNCHANGED sessions
        BY <2>1, Zenon DEF ServerTypes, Deciding, Hosting
    <2> QED BY <1>1, <2>1, <2>2, SameDecisions, SameSessions
  <1>3. CASE Server!DropManager \/ Server!DisconnectAll \/ Server!TeardownTask \/ \E p \in Peers : Server!Kick(p)
    <2>1. PICK T : T \subseteq Server!Registered /\ Server!Disconnect(T)
      <3>1. ASSUME NEW p \in Peers, Server!Kick(p) PROVE {sessions[p]} \subseteq Server!Registered
          BY <3>1, Zenon DEF Server!Kick, Server!Registered
      <3> QED BY <1>3, <3>1, Zenon DEF Server!DropManager, Server!DisconnectAll, Server!TeardownTask, Server!Kick
    <2>2. \A t \in T : t \in 1 .. s_made
        BY <2>1 DEF ServerTypes, Server!Registered, Server!None
    <2>3. UNCHANGED <<Deciding, accepted, s_made, sessions, tpeer, drain>>
        BY <1>3, Zenon DEF Server!DropManager, Server!DisconnectAll, Server!TeardownTask, Server!Kick, Server!calls, Deciding
    <2>4. LivesFall
        BY <2>1, <2>2, HangingUp, Zenon
    <2>5. ServerTypes' /\ SessionInv'
        BY <2>3, <2>4, FallKeeps, Zenon DEF Deciding
    <2> QED BY <1>1, <2>3, <2>5, SameDecisions
  <1>4. ASSUME NEW k \in Server!Tasks, NEW c \in Calls, Server!Deliver(k, c) PROVE ServerInv' /\ Server!KeepsNewSession
    <2>1. ServerTypes' /\ DecisionInv' /\ UNCHANGED Hosting
        BY <1>4, DeliverDecides, Zenon
    <2> QED BY <1>1, <2>1, SameSessions DEF Hosting
  <1>5. ASSUME NEW k \in Server!Tasks, Server!Incoming(k) \/ \E d \in Server!Decisions : Server!Decided(k, d)
        PROVE  ServerInv' /\ Server!KeepsNewSession
    <2>1. ServerTypes' /\ DecisionInv' /\ UNCHANGED Hosting
        BY <1>5, IncomingDecides, Zenon
    <2> QED BY <1>1, <2>1, SameSessions DEF Hosting
  <1>6. ASSUME NEW c \in Calls, Server!CallEnded(c) PROVE ServerInv' /\ Server!KeepsNewSession
    <2>1. UNCHANGED <<Deciding, accepted, Hosting>>
        BY <1>6, Zenon DEF Server!CallEnded, Server!tunnels, Deciding, Hosting
    <2>2. ServerTypes' /\ UNCHANGED sessions
        BY <2>1, Zenon DEF ServerTypes, Deciding, Hosting
    <2> QED BY <1>1, <2>1, <2>2, SameDecisions, SameSessions
  <1>7. CASE Server!EnderCancels
    <2>1. /\ pending' = [p \in Peers |-> IF p \in ender THEN 0 ELSE pending[p]]
          /\ UNCHANGED <<s_caller, in_flight, task, accepted, Hosting>>
        BY <1>7, Zenon DEF Server!EnderCancels, Server!None, Server!tunnels, Hosting
    <2>2. ServerTypes' /\ UNCHANGED sessions
        BY <2>1, Zenon DEF ServerTypes, Hosting
    <2>3. InFlight' /\ Server!OneDecision'
        BY <2>1, Zenon DEF DecisionInv, InFlight, AtWork, Server!DecisionsBacked, Server!OneDecision
    <2>4. Server!PendingBacked'
        BY <2>1, EntriesBacked, Zenon DEF Server!PendingBacked, Server!PeerOf, Server!None
    <2> QED BY <1>1, <2>1, <2>2, <2>3, <2>4, SameSessions DEF DecisionInv, Server!DecisionsBacked
  <1>8. CASE Server!DrainStep
    <2>1. ServerTypes' /\ SessionInv' /\ UNCHANGED Deciding /\ \A p \in Peers : sessions'[p] = 0 => sessions[p] = 0
        BY <1>8, DrainKeeps, Zenon
    <2> QED BY <2>1, SameDecisions, Zenon DEF Server!KeepsNewSession, Server!None
  <1>9. ASSUME NEW t \in Tunnels, Server!TunnelUp(t) \/ Server!TunnelEnds(t) \/ Server!TunnelTimesOut(t)
        PROVE  ServerInv' /\ Server!KeepsNewSession
    <2>1. UNCHANGED <<Deciding, accepted, s_made, sessions, tpeer, drain>>
        BY <1>9, Zenon DEF Server!TunnelUp, Server!TunnelEnds, Server!TunnelTimesOut, Server!TunnelSays, Server!calls, Deciding
    <2>2. LivesFall
        BY <1>9, TunnelsSay, Zenon
    <2>3. ServerTypes' /\ SessionInv'
        BY <2>1, <2>2, FallKeeps DEF Deciding
    <2> QED BY <1>1, <2>1, <2>3, SameDecisions
  <1>10. ASSUME NEW t \in Tunnels, Server!Watch(t) PROVE ServerInv' /\ Server!KeepsNewSession
    <2>1. /\ ServerTypes' /\ SessionInv' /\ UNCHANGED Deciding
          /\ \A p \in Peers : sessions'[p] = sessions[p] \/ (sessions[p] = t /\ s_live[t] = "down")
        BY <1>10, WatchKeeps, Zenon
    <2> QED BY <2>1, SameDecisions, Zenon DEF Server!KeepsNewSession
  <1>11. Server!Tunnels = Tunnels
      BY Zenon DEF Server!Tunnels, Tunnels
  <1> QED BY <1>2, <1>3, <1>4, <1>5, <1>6, <1>7, <1>8, <1>9, <1>10, <1>11 DEF Server!Next

\* A step of the client leaves the server's manager alone.
LEMMA ServerStill == ASSUME ServerInv, UNCHANGED server PROVE ServerInv' /\ Server!KeepsNewSession
  <1>1. UNCHANGED <<Deciding, accepted, Hosting>>
      BY Zenon DEF server, Deciding, Hosting
  <1>2. ServerTypes' /\ UNCHANGED sessions
      BY <1>1, Zenon DEF ServerInv, ServerTypes, Deciding, Hosting
  <1> QED BY <1>1, <1>2, SameDecisions, SameSessions DEF ServerInv, Server!KeepsNewSession

\* Whichever manager the process runs, its step preserves both invariants.
LEMMA ManagersStep ==
    ASSUME IInv, ServerInv, MCNext
    PROVE  IInv' /\ ServerInv' /\ KeepsNewCall /\ Server!KeepsNewSession
  <1>1. CASE Next /\ UNCHANGED <<role, server>>
      BY <1>1, NextIInv, NewerCallStays, ServerStill
  <1>2. CASE Server!Next /\ UNCHANGED <<role, vars>>
    <2>1. current' = current
        BY <1>2, Zenon DEF vars
    <2>2. IInv' /\ KeepsNewCall
        BY <1>2, <2>1, NextIInv DEF KeepsNewCall
    <2> QED BY <1>2, <2>2, ServerStep
  <1> QED BY <1>1, <1>2, Zenon DEF MCNext

\* Both invariants hold throughout.
LEMMA ManagersInv == MCSpec => [](IInv /\ ServerInv)
  <1>1. MCInit => IInv /\ ServerInv
      BY InitIInv, ServerInit, Zenon DEF MCInit
  <1>2. IInv /\ ServerInv /\ [MCNext]_<<role, vars, server>> => (IInv /\ ServerInv)'
    <2>1. ASSUME IInv, ServerInv, UNCHANGED <<role, vars, server>> PROVE IInv' /\ ServerInv'
        BY <2>1, NextIInv, ServerStill
    <2> QED BY <2>1, ManagersStep, Zenon
  <1> QED BY <1>1, <1>2, PTL DEF MCSpec

\* However calls are placed or accepted, replaced and ended, a tunnel that is dialing or up
\* is in its slot, or the call that made or replaced it is about to put it there or to hang
\* it up (place_call; the accepted-sessions task).
THEOREM ReplacedAreDown == MCSpec => []ReplacedIsDown
  <1>1. IInv /\ ServerInv => ReplacedIsDown
      BY InvImplies, Zenon DEF ServerInv, SessionInv, ReplacedIsDown
  <1> QED BY <1>1, ManagersInv, PTL

\* The end of one session never takes a newer one away: only a tunnel that is down leaves
\* its slot, or the manager leaves with it (clear_if_current; spawn_server_watcher).
THEOREM NewerOnesStay == MCSpec => NewestStays
  <1>1. IInv /\ ServerInv /\ [MCNext]_<<role, vars, server>> => [KeepsNewCall /\ Server!KeepsNewSession]_<<role, vars, server>>
      BY ManagersStep, Zenon
  <1> QED BY <1>1, ManagersInv, PTL DEF MCSpec, NewestStays

\* For any number of deliveries and re-calls: no call is under two decisions at a time, and
\* no cancel entry is left without the decision it is for (on_incoming_call, decide).
THEOREM DecisionsStayBacked == MCSpec => []DecisionsBacked
  <1>1. ServerInv => DecisionsBacked
      BY Zenon DEF ServerInv, DecisionInv, DecisionsBacked
  <1> QED BY <1>1, ManagersInv, PTL
=============================================================================
