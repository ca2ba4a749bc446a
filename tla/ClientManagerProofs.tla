------------------------ MODULE ClientManagerProofs ------------------------
(***************************************************************************)
(* Proofs about the client manager for any number of callers, calls,       *)
(* managers and events per tunnel.                                         *)
(***************************************************************************)
EXTENDS ClientManager, FiniteSetTheorems, SequenceTheorems, TLAPS

Kinds == {"Connected", "Disconnected", "Error"}
CallPlaces == {"idle", "signaling", "replace", "hang_up_old", "watch"}
WatcherPlaces == {"none", "recv", "check", "bump", "emit", "rebalance", "report", "gone"}
Lives == {"none", "dialing", "up", "down"}

Types ==
    /\ manager \in Managers \cup {None} /\ managers \in 0 .. MaxManagers
    /\ active \in Nat /\ made \in 0 .. MaxTunnels
    /\ current \in [Managers -> Tunnels \cup {None}]
    /\ owner \in [Tunnels -> Managers \cup {None}]
    /\ live \in [Tunnels -> Lives] /\ stream \in [Tunnels -> Seq(Kinds)]
    /\ entered \in [Tunnels -> BOOLEAN] /\ watcher \in [Tunnels -> WatcherPlaces]
    /\ caller \in [Callers -> [at : CallPlaces, new : Tunnels \cup {None}, old : Tunnels \cup {None}]]

\* Tunnels whose watcher still has an end to read.
Ended == {t \in Tunnels : \E i \in 1 .. Len(stream[t]) : stream[t][i] = "Disconnected"}

\* An announced end is an end.
EndsAreTrue == \A t \in Ended : live[t] = "down"

\* Tunnels are numbered in the order they are made.
MadeInOrder == \A t \in Tunnels : (t > made <=> live[t] = "none") /\ (t > made => watcher[t] = "none")

\* A manager's slot holds one of its own tunnels.
SlotsOwn == \A m \in Managers : current[m] # None => current[m] <= made /\ owner[current[m]] = m

\* Nothing happens before there is a manager.
NothingBefore ==
    managers = 0 => /\ manager = None
                    /\ \A c \in Callers : caller[c].at = "idle"
                    /\ \A t \in Tunnels : watcher[t] = "none"

Placing(c) == caller[c].at \in {"replace", "hang_up_old", "watch"}

\* A call being placed belongs to the manager in use, has a tunnel of its own, and that
\* tunnel has no watcher yet.
CallsPlaced ==
    /\ \A c \in Callers : caller[c].at # "idle" => manager # None
    /\ \A c \in Callers : Placing(c) =>
          /\ caller[c].new # None /\ caller[c].new <= made
          /\ watcher[caller[c].new] = "none" /\ owner[caller[c].new] = manager
    /\ \A c \in Callers : caller[c].old # None => caller[c].old <= made
    /\ \A c, d \in Callers : Placing(c) /\ Placing(d) /\ caller[c].new = caller[d].new => c = d

\* A watcher that has not started has seen no Connected.
EnteredByWatcher == \A t \in Tunnels : watcher[t] = "none" => ~entered[t]

\* A tunnel outside its slot is down, on its way into the slot, or about to be hung up.
Replaced ==
    \A t \in Tunnels : (live[t] \in {"dialing", "up"} /\ ~StillCurrent(t)) =>
        \E c \in Callers : \/ caller[c].at = "replace" /\ caller[c].new = t
                           \/ caller[c].at = "hang_up_old" /\ caller[c].old = t

\* The sessions that bump_session was told of and that are not given back.
Counted ==
    {t \in Tunnels : \/ watcher[t] = "emit"
                     \/ watcher[t] \in {"recv", "rebalance"} /\ entered[t]}
CountCovers == managers <= 1 => Cardinality(Counted) <= active

Structure == Types /\ EndsAreTrue /\ MadeInOrder /\ SlotsOwn /\ NothingBefore /\ CallsPlaced /\ EnteredByWatcher
IInv == Structure /\ Replaced /\ CountCovers

\* None is no tunnel and no manager.
LEMMA Names == /\ None \notin Tunnels /\ None \notin Managers
               /\ Tunnels \subseteq Nat /\ Managers \subseteq Nat /\ MaxTunnels \in Nat /\ MaxManagers \in Nat
  BY BoundsAssumption DEF None, Tunnels, Managers

\* There are finitely many tunnels.
LEMMA CountedFinite == IsFiniteSet(Counted) /\ Cardinality(Counted) \in Nat
  <1>1. IsFiniteSet(Tunnels)
      BY FS_Interval, BoundsAssumption DEF Tunnels
  <1>2. Counted \in SUBSET Tunnels
      BY Zenon DEF Counted
  <1>3. IsFiniteSet(Counted)
      BY <1>1, <1>2, FS_Subset, Zenon
  <1> QED BY <1>3, FS_CardinalityType, Zenon

\* The initial states satisfy the invariant.
LEMMA InitIInv == Init => IInv
  <1> SUFFICES ASSUME Init PROVE IInv
      BY Zenon
  <1>1. Types
    <2>1. stream \in [Tunnels -> Seq(Kinds)]
        BY EmptySeq, Zenon DEF Init
    <2>2. entered \in [Tunnels -> BOOLEAN]
        BY Zenon DEF Init
    <2>3. caller \in [Callers -> [at : CallPlaces, new : Tunnels \cup {None}, old : Tunnels \cup {None}]]
        BY Zenon DEF Init, Idle, Call, CallPlaces
    <2> QED BY <2>1, <2>2, <2>3, Names DEF Init, Types, Lives, WatcherPlaces, None
  <1>2. Ended = {}
      BY EmptySeq DEF Init, Ended
  <1>3. EndsAreTrue /\ SlotsOwn /\ NothingBefore /\ EnteredByWatcher
      BY <1>2, Zenon DEF Init, EndsAreTrue, SlotsOwn, NothingBefore, EnteredByWatcher, Idle, Call
  <1>4. MadeInOrder
      BY DEF Init, MadeInOrder, Tunnels
  <1>5. CallsPlaced /\ Replaced
      BY Zenon DEF Init, CallsPlaced, Placing, Replaced, Idle, Call
  <1>6. Counted = {}
      BY Zenon DEF Init, Counted
  <1>7. CountCovers
      BY <1>6, FS_EmptySet DEF Init, CountCovers
  <1> QED BY <1>1, <1>3, <1>4, <1>5, <1>7, Zenon DEF IInv, Structure

-----------------------------------------------------------------------------
(* What a step may do to the tunnels' lives and streams.                     *)

LiveStep ==
    /\ live' \in [Tunnels -> Lives] /\ stream' \in [Tunnels -> Seq(Kinds)]
    /\ \A u \in Tunnels : (live[u] = "down" => live'[u] = "down") /\ (live'[u] = "none" <=> live[u] = "none")
    /\ \A u \in Ended' : live'[u] = "down"

\* An event that is sent is the only one that is added.
LEMMA SentStep ==
    ASSUME Types, NEW t \in Tunnels, NEW kind \in Kinds, Sent(t, kind)
    PROVE  /\ stream' \in [Tunnels -> Seq(Kinds)]
           /\ \A u \in Ended' : u \in Ended \/ (u = t /\ kind = "Disconnected")
  <1>1. stream[t] \in Seq(Kinds)
      BY Zenon DEF Types
  <1>2. CASE watcher[t] = "gone"
    <2>1. stream' = stream
        BY <1>2, Zenon DEF Sent, Types
    <2> QED BY <2>1, Zenon DEF Ended, Types
  <1>3. CASE watcher[t] # "gone"
    <2>1. stream' = [stream EXCEPT ![t] = Append(stream[t], kind)]
        BY <1>3, Zenon DEF Sent
    <2>2. /\ Append(stream[t], kind) \in Seq(Kinds) /\ Len(Append(stream[t], kind)) = Len(stream[t]) + 1
          /\ \A i \in 1 .. Len(stream[t]) : Append(stream[t], kind)[i] = stream[t][i]
          /\ Append(stream[t], kind)[Len(stream[t]) + 1] = kind
          /\ Len(stream[t]) \in Nat
        BY <1>1, AppendProperties, LenProperties
    <2>3. stream' \in [Tunnels -> Seq(Kinds)]
        BY <2>1, <2>2, Zenon DEF Types
    <2>4. ASSUME NEW u \in Ended' PROVE u \in Ended \/ (u = t /\ kind = "Disconnected")
      <3>1. CASE u = t
          BY <2>1, <2>2, <2>4, <3>1 DEF Ended, Types
      <3>2. CASE u # t
          BY <2>1, <2>4, <3>2, Zenon DEF Ended, Types
      <3> QED BY <3>1, <3>2, Zenon
    <2> QED BY <2>3, <2>4, Zenon
  <1> QED BY <1>2, <1>3, Zenon

\* Reading takes the first event away.
LEMMA ReadStep ==
    ASSUME Types, NEW t \in Tunnels, stream[t] # <<>>, Read(t)
    PROVE  /\ stream' \in [Tunnels -> Seq(Kinds)] /\ Ended' \subseteq Ended
           /\ Next1(t) = "Disconnected" => t \in Ended
  <1>1. stream[t] \in Seq(Kinds)
      BY Zenon DEF Types
  <1>2. /\ Tail(stream[t]) \in Seq(Kinds) /\ Len(Tail(stream[t])) = Len(stream[t]) - 1
        /\ \A i \in 1 .. Len(Tail(stream[t])) : Tail(stream[t])[i] = stream[t][i + 1]
        /\ Len(stream[t]) \in Nat \ {0} /\ Head(stream[t]) = stream[t][1]
      BY <1>1, HeadTailProperties, LenProperties, EmptySeq
  <1>3. stream' = [stream EXCEPT ![t] = Tail(stream[t])]
      BY Zenon DEF Read
  <1>4. stream' \in [Tunnels -> Seq(Kinds)]
      BY <1>2, <1>3, Zenon DEF Types
  <1>5. ASSUME NEW u \in Ended' PROVE u \in Ended
    <2>1. CASE u = t
        BY <1>2, <1>3, <1>5, <2>1 DEF Ended, Types
    <2>2. CASE u # t
        BY <1>3, <1>5, <2>2, Zenon DEF Ended, Types
    <2> QED BY <2>1, <2>2, Zenon
  <1>6. Next1(t) = "Disconnected" => t \in Ended
      BY <1>2 DEF Next1, Ended
  <1> QED BY <1>4, <1>5, <1>6, Zenon

\* A receiver that is dropped loses what is left in it.
LEMMA ClearStep ==
    ASSUME Types, NEW t \in Tunnels, stream' = [stream EXCEPT ![t] = <<>>]
    PROVE  stream' \in [Tunnels -> Seq(Kinds)] /\ Ended' \subseteq Ended
  <1>1. <<>> \in Seq(Kinds) /\ Len(<<>>) = 0
      BY EmptySeq, Zenon
  <1>2. stream' \in [Tunnels -> Seq(Kinds)]
      BY <1>1, Zenon DEF Types
  <1>3. ASSUME NEW u \in Ended' PROVE u \in Ended
    <2>1. CASE u = t
        BY <1>1, <1>3, <2>1 DEF Ended, Types
    <2>2. CASE u # t
        BY <1>3, <2>2, Zenon DEF Ended, Types
    <2> QED BY <2>1, <2>2, Zenon
  <1> QED BY <1>2, <1>3, Zenon

\* Steps that leave lives and streams alone.
LEMMA StillStep ==
    ASSUME Structure, UNCHANGED <<live, stream>>
    PROVE  LiveStep
  <1>1. Ended' = Ended
      BY Zenon DEF Ended
  <1> QED BY <1>1, Zenon DEF Structure, Types, EndsAreTrue, LiveStep

\* LkTunnel::disconnect of a tunnel that was made.
LEMMA DisconnectStep ==
    ASSUME Structure, NEW t \in Tunnels, t <= made, DisconnectTunnel(t)
    PROVE  LiveStep /\ live' = [live EXCEPT ![t] = "down"]
  <1>1. Sent(t, "Disconnected") /\ live' = [live EXCEPT ![t] = "down"]
      BY Zenon DEF DisconnectTunnel
  <1>2. /\ stream' \in [Tunnels -> Seq(Kinds)]
        /\ \A u \in Ended' : u \in Ended \/ u = t
      BY <1>1, SentStep, Zenon DEF Structure, Kinds
  <1>3. live[t] # "none"
      BY Names DEF Structure, MadeInOrder, Types
  <1>4. Ended' \subseteq Tunnels
      BY Zenon DEF Ended
  <1> QED BY <1>1, <1>2, <1>3, <1>4, Zenon DEF Structure, Types, EndsAreTrue, LiveStep, Lives

\* A step of lives and streams alone preserves the invariant.
LEMMA LivesOnly ==
    ASSUME IInv, LiveStep, UNCHANGED <<manager, managers, current, active, made, owner, watching, caller>>
    PROVE  IInv'
  <1>0. UNCHANGED <<entered, watcher>>
      BY Zenon DEF watching
  <1>1. Types'
      BY <1>0, Zenon DEF IInv, Structure, Types, LiveStep
  <1>2. EndsAreTrue' /\ MadeInOrder' /\ SlotsOwn'
      BY <1>0, Zenon DEF IInv, Structure, LiveStep, EndsAreTrue, MadeInOrder, SlotsOwn
  <1>3. NothingBefore' /\ CallsPlaced' /\ EnteredByWatcher'
      BY <1>0, Zenon DEF IInv, Structure, NothingBefore, CallsPlaced, Placing, EnteredByWatcher
  <1>4. Replaced'
    <2>1. ASSUME NEW t \in Tunnels, live'[t] \in {"dialing", "up"} PROVE live[t] \in {"dialing", "up"}
        BY <2>1, Zenon DEF IInv, Structure, Types, Lives, LiveStep
    <2> QED BY <2>1, Zenon DEF IInv, Replaced, StillCurrent
  <1>5. CountCovers'
      BY <1>0, Zenon DEF IInv, CountCovers, Counted
  <1> QED BY <1>1, <1>2, <1>3, <1>4, <1>5, Zenon DEF IInv, Structure

\* The tunnels' own steps, the application's hang-up and a callEnded preserve the invariant.
LEMMA TunnelSteps ==
    ASSUME IInv, (\E t \in Tunnels : Tunnel(t)) \/ (\E p \in Peers : CallEnded(p))
    PROVE  IInv'
  <1>1. LiveStep
    <2>1. ASSUME NEW t \in Tunnels, TunnelUp(t) \/ TunnelUpLate(t) \/ TunnelTimesOut(t) PROVE LiveStep
      <3>1. PICK kind \in {"Connected", "Error"} : Sent(t, kind)
          BY <2>1, Zenon DEF TunnelUp, TunnelUpLate, TunnelTimesOut
      <3>2. stream' \in [Tunnels -> Seq(Kinds)] /\ Ended' \subseteq Ended
          BY <3>1, SentStep, Zenon DEF IInv, Structure, Kinds
      <3>3. /\ live' \in [Tunnels -> Lives]
            /\ \A u \in Tunnels : (live[u] = "down" => live'[u] = "down") /\ (live'[u] = "none" <=> live[u] = "none")
          BY <2>1, Zenon DEF IInv, Structure, Types, Lives, TunnelUp, TunnelUpLate, TunnelTimesOut
      <3>4. Ended \subseteq Tunnels
          BY Zenon DEF Ended
      <3> QED BY <3>2, <3>3, <3>4, Zenon DEF IInv, Structure, EndsAreTrue, LiveStep
    <2>2. ASSUME NEW t \in Tunnels, TunnelEnds(t) \/ HangUp(t) PROVE LiveStep
      <3>1. DisconnectTunnel(t) /\ live[t] \in {"dialing", "up"}
          BY <2>2, Zenon DEF TunnelEnds, HangUp, DisconnectTunnel
      <3>2. t <= made
          BY <3>1, Names DEF IInv, Structure, MadeInOrder, Types, Tunnels
      <3> QED BY <3>1, <3>2, DisconnectStep, Zenon DEF IInv
    <2>3. ASSUME NEW p \in Peers, CallEnded(p) PROVE LiveStep
      <3>1. current[manager] \in Tunnels /\ current[manager] <= made
          BY <2>3, Zenon DEF CallEnded, IInv, Structure, Types, SlotsOwn
      <3> QED BY <2>3, <3>1, DisconnectStep, Zenon DEF CallEnded, IInv
    <2> QED BY <2>1, <2>2, <2>3, Zenon DEF Tunnel
  <1>2. UNCHANGED <<manager, managers, current, active, made, owner, watching, caller>>
      BY Zenon DEF Tunnel, TunnelUp, TunnelUpLate, TunnelTimesOut, TunnelEnds, HangUp, CallEnded
  <1> QED BY <1>1, <1>2, LivesOnly, Zenon

\* A new manager preserves the invariant: the first one finds nothing to count.
LEMMA NewManagerStep ==
    ASSUME IInv, NewManager
    PROVE  IInv'
  <1>0. UNCHANGED <<current, made, owner, live, stream, entered, watcher, caller>> /\ Ended' = Ended
      BY Zenon DEF NewManager, tunnels, watching, Ended
  <1>1. manager = None /\ managers' = managers + 1 /\ manager' = managers' /\ managers' \in Managers /\ active' = 0
      BY BoundsAssumption DEF NewManager, IInv, Structure, Types, Managers
  <1>2. Types'
      BY <1>0, <1>1, BoundsAssumption DEF IInv, Structure, Types, Managers
  <1>3. \A c \in Callers : caller[c].at = "idle"
      BY <1>1, Zenon DEF IInv, Structure, CallsPlaced
  <1>4. EndsAreTrue' /\ MadeInOrder' /\ SlotsOwn' /\ EnteredByWatcher'
      BY <1>0, Zenon DEF IInv, Structure, EndsAreTrue, MadeInOrder, SlotsOwn, EnteredByWatcher
  <1>5. NothingBefore'
      BY <1>1, Names DEF NothingBefore, Managers
  <1>6. CallsPlaced'
      BY <1>0, <1>3, Zenon DEF IInv, Structure, CallsPlaced, Placing
  <1>7. Replaced'
      BY <1>0, Zenon DEF IInv, Replaced, StillCurrent
  <1>8. CountCovers'
    <2>1. SUFFICES ASSUME managers' <= 1 PROVE Cardinality(Counted') = 0
        BY <1>1 DEF CountCovers
    <2>2. managers = 0
        BY <1>1, <2>1 DEF IInv, Structure, Types
    <2>3. Counted' = {}
        BY <1>0, <2>2, Zenon DEF IInv, Structure, NothingBefore, Counted
    <2> QED BY <2>3, FS_EmptySet, Zenon
  <1> QED BY <1>2, <1>4, <1>5, <1>6, <1>7, <1>8, Zenon DEF IInv, Structure

\* Dropping the manager preserves the invariant: its call is hung up as it leaves the slot.
LEMMA DropManagerStep ==
    ASSUME IInv, DropManager
    PROVE  IInv'
  <1>0. /\ manager \in Managers /\ manager' = None /\ current' = [current EXCEPT ![manager] = None]
        /\ caller' = [c \in Callers |-> Idle]
        /\ UNCHANGED <<managers, active, made, owner, entered, watcher>>
      BY Zenon DEF DropManager, IInv, Structure, Types, watching
  <1>1. LiveStep /\ (current[manager] # None => live'[current[manager]] = "down")
    <2>1. CASE current[manager] = None
        BY <2>1, StillStep, Zenon DEF DropManager, NoDisconnect, IInv
    <2>2. CASE current[manager] # None
      <3>1. current[manager] \in Tunnels /\ current[manager] <= made
          BY <1>0, <2>2, Zenon DEF IInv, Structure, Types, SlotsOwn
      <3>2. LiveStep /\ live' = [live EXCEPT ![current[manager]] = "down"]
          BY <2>2, <3>1, DisconnectStep, Zenon DEF DropManager, IInv
      <3> QED BY <3>1, <3>2, Zenon DEF IInv, Structure, Types
    <2> QED BY <2>1, <2>2, Zenon
  <1>2. Types'
    <2>1. caller' \in [Callers -> [at : CallPlaces, new : Tunnels \cup {None}, old : Tunnels \cup {None}]]
        BY <1>0, Zenon DEF Idle, Call, CallPlaces
    <2> QED BY <1>0, <1>1, <2>1, Zenon DEF IInv, Structure, Types, LiveStep
  <1>3. EndsAreTrue' /\ MadeInOrder'
      BY <1>0, <1>1, Zenon DEF IInv, Structure, LiveStep, EndsAreTrue, MadeInOrder
  <1>4. SlotsOwn'
      BY <1>0, Zenon DEF IInv, Structure, Types, SlotsOwn
  <1>5. NothingBefore' /\ EnteredByWatcher'
      BY <1>0, Zenon DEF IInv, Structure, NothingBefore, EnteredByWatcher, Idle, Call
  <1>6. CallsPlaced'
      BY <1>0, Zenon DEF CallsPlaced, Placing, Idle, Call
  <1>7. Replaced'
    <2>1. SUFFICES ASSUME NEW t \in Tunnels, live'[t] \in {"dialing", "up"} PROVE StillCurrent(t)'
        BY Zenon DEF Replaced
    <2>2. live[t] \in {"dialing", "up"}
        BY <1>1, <2>1, Zenon DEF LiveStep, IInv, Structure, Types, Lives
    <2>3. StillCurrent(t)
        BY <2>2, Zenon DEF IInv, Replaced, DropManager
    <2>4. owner[t] # manager
        BY <1>1, <2>1, <2>3, Names, Zenon DEF StillCurrent
    <2> QED BY <1>0, <2>3, <2>4, Zenon DEF StillCurrent, IInv, Structure, Types
  <1>8. CountCovers'
      BY <1>0, Zenon DEF IInv, CountCovers, Counted
  <1> QED BY <1>2, <1>3, <1>4, <1>5, <1>6, <1>7, <1>8, Zenon DEF IInv, Structure

\* The callers' steps before a tunnel is made, and its making, preserve the invariant.
LEMMA CallSteps ==
    ASSUME IInv, NEW c \in Callers, PlaceCall(c) \/ SignalingRefuses(c)
    PROVE  IInv'
  <1>0. /\ caller[c].at \in {"idle", "signaling"} /\ manager # None
        /\ \E at \in {"idle", "signaling"} : caller' = [caller EXCEPT ![c] = Call(at, None, None)]
        /\ UNCHANGED <<manager, managers, current, active, made, owner, live, stream, entered, watcher>>
      BY Zenon DEF PlaceCall, SignalingRefuses, Idle, tunnels, watching, IInv, Structure, CallsPlaced
  <1>1. PICK at \in {"idle", "signaling"} : caller' = [caller EXCEPT ![c] = [at |-> at, new |-> None, old |-> None]]
      BY <1>0, Zenon DEF Call
  <1>2. Types'
      BY <1>0, <1>1, Zenon DEF IInv, Structure, Types, CallPlaces
  <1>3. EndsAreTrue' /\ MadeInOrder' /\ SlotsOwn' /\ EnteredByWatcher'
      BY <1>0 DEF IInv, Structure, EndsAreTrue, Ended, MadeInOrder, SlotsOwn, EnteredByWatcher
  <1>4. NothingBefore'
      BY <1>0, Zenon DEF IInv, Structure, NothingBefore
  <1>5. CallsPlaced'
      BY <1>0, <1>1 DEF IInv, Structure, Types, CallsPlaced, Placing
  <1>6. Replaced'
    <2>1. \A d \in Callers : caller[d].at \in {"replace", "hang_up_old"} => caller'[d] = caller[d]
        BY <1>0, <1>1, Zenon DEF IInv, Structure, Types
    <2> QED BY <1>0, <2>1 DEF IInv, Replaced, StillCurrent
  <1>7. CountCovers'
      BY <1>0, Zenon DEF IInv, CountCovers, Counted
  <1> QED BY <1>2, <1>3, <1>4, <1>5, <1>6, <1>7, Zenon DEF IInv, Structure

\* Making the tunnel preserves the invariant: it is on its way into the slot.
LEMMA ConnectStep ==
    ASSUME IInv, NEW c \in Callers, ConnectTunnel(c)
    PROVE  IInv'
  <1> DEFINE new == made + 1
  <1>0. /\ caller[c].at = "signaling" /\ new \in Tunnels /\ new > made /\ made' = new
        /\ owner' = [owner EXCEPT ![new] = manager] /\ live' = [live EXCEPT ![new] = "dialing"]
        /\ caller' = [caller EXCEPT ![c] = [at |-> "replace", new |-> new, old |-> None]]
        /\ UNCHANGED <<manager, managers, current, active, stream, entered, watcher>>
      BY BoundsAssumption DEF ConnectTunnel, Call, watching, IInv, Structure, Types, Tunnels
  <1>1. manager \in Managers /\ live[new] = "none" /\ watcher[new] = "none" /\ Ended' = Ended
      BY <1>0 DEF IInv, Structure, Types, CallsPlaced, MadeInOrder, Ended
  <1>2. \A t \in Tunnels : t # new => (t > new <=> t > made)
      BY <1>0 DEF Tunnels, IInv, Structure, Types
  <1>3. new \notin Ended /\ Ended \subseteq Tunnels
      BY <1>0, <1>1, Zenon DEF IInv, Structure, EndsAreTrue, Ended
  <1>4. made \in Nat /\ Tunnels \subseteq Nat
      BY Names DEF IInv, Structure, Types
  <1> HIDE DEF new
  <1>older. \A t \in Tunnels : t <= made => t <= new /\ t # new
      BY <1>0, <1>4
  <1>5. Types'
    <2>1. made' \in 0 .. MaxTunnels
        BY <1>0, BoundsAssumption DEF Tunnels
    <2> QED BY <1>0, <1>1, <2>1, Zenon DEF IInv, Structure, Types, Lives, CallPlaces
  <1>6. EndsAreTrue'
      BY <1>0, <1>1, <1>3, Zenon DEF IInv, Structure, Types, EndsAreTrue
  <1>7. MadeInOrder'
    <2>1. ~(new > new)
        BY <1>0, <1>4
    <2> QED BY <1>0, <1>1, <1>2, <2>1, Zenon DEF IInv, Structure, Types, MadeInOrder
  <1>8. SlotsOwn'
    <2>1. \A m \in Managers : current[m] # None => current[m] \in Tunnels /\ current[m] <= new /\ current[m] # new
        BY <1>older, Zenon DEF IInv, Structure, Types, SlotsOwn
    <2> QED BY <1>0, <2>1, Zenon DEF IInv, Structure, Types, SlotsOwn
  <1>9. NothingBefore' /\ EnteredByWatcher'
      BY <1>0, Zenon DEF IInv, Structure, NothingBefore, EnteredByWatcher
  <1>10. CallsPlaced'
    <2>1. \A d \in Callers : Placing(d) => caller[d].new \in Tunnels /\ caller[d].new <= new /\ caller[d].new # new
        BY <1>older, Zenon DEF IInv, Structure, Types, CallsPlaced
    <2>2. \A d \in Callers : caller[d].old # None => caller[d].old <= new
        BY <1>older, Zenon DEF IInv, Structure, Types, CallsPlaced
    <2>3. caller'[c] = [at |-> "replace", new |-> new, old |-> None] /\ \A d \in Callers : d # c => caller'[d] = caller[d]
        BY <1>0, Zenon DEF IInv, Structure, Types
    <2>4. new # None /\ new <= new /\ watcher'[new] = "none" /\ owner'[new] = manager
        BY <1>0, <1>1, <1>4, Names DEF IInv, Structure, Types
    <2>5. \A t \in Tunnels : t # new => owner'[t] = owner[t]
        BY <1>0, Zenon DEF IInv, Structure, Types
    <2>6. \A d \in Callers : caller'[d].at # "idle" => manager' # None
        BY <1>0, <1>1, Names, Zenon
    <2>7. \A d \in Callers : Placing(d)' =>
             /\ caller'[d].new # None /\ caller'[d].new <= made'
             /\ watcher'[caller'[d].new] = "none" /\ owner'[caller'[d].new] = manager'
        BY <1>0, <2>1, <2>3, <2>4, <2>5 DEF IInv, Structure, CallsPlaced, Placing
    <2>8. \A d \in Callers : caller'[d].old # None => caller'[d].old <= made'
        BY <1>0, <2>2, <2>3
    <2>9. \A b, d \in Callers : Placing(b)' /\ Placing(d)' /\ caller'[b].new = caller'[d].new => b = d
        BY <2>1, <2>3 DEF IInv, Structure, CallsPlaced, Placing
    <2> QED BY <2>6, <2>7, <2>8, <2>9, Zenon DEF CallsPlaced
  <1>11. Replaced'
    <2>1. caller'[c].at = "replace" /\ caller'[c].new = new /\ \A d \in Callers : d # c => caller'[d] = caller[d]
        BY <1>0, Zenon DEF IInv, Structure, Types
    <2>2. \A t \in Tunnels : t # new => owner'[t] = owner[t] /\ live'[t] = live[t]
        BY <1>0, Zenon DEF IInv, Structure, Types
    <2> QED BY <1>0, <2>1, <2>2 DEF IInv, Replaced, StillCurrent
  <1>12. CountCovers'
      BY <1>0, Zenon DEF IInv, CountCovers, Counted
  <1> QED BY <1>5, <1>6, <1>7, <1>8, <1>9, <1>10, <1>11, <1>12, Zenon DEF IInv, Structure

\* A step that adds nobody to the counted sessions and takes nothing from the counter.
LEMMA CountKept ==
    ASSUME IInv, Counted' \subseteq Counted, active' = active, managers' = managers
    PROVE  CountCovers'
  <1>1. /\ IsFiniteSet(Counted) /\ Cardinality(Counted) \in Nat
        /\ Cardinality(Counted') <= Cardinality(Counted) /\ IsFiniteSet(Counted')
      BY CountedFinite, FS_Subset, Zenon
  <1>2. Cardinality(Counted') \in Nat /\ active \in Nat /\ managers \in Int
      BY <1>1, FS_CardinalityType DEF IInv, Structure, Types
  <1> QED BY <1>1, <1>2 DEF IInv, CountCovers

\* A step that gives no call a tunnel, and no tunnel of a call being placed a watcher, keeps
\* the calls in order.
LEMMA PlacingKept ==
    ASSUME CallsPlaced, UNCHANGED <<manager, made, owner>>,
           \A d \in Callers : caller'[d].at # "idle" => caller[d].at # "idle",
           \A d \in Callers : caller'[d].old # None => caller'[d].old <= made,
           \A d \in Callers : Placing(d)' =>
               Placing(d) /\ caller'[d].new = caller[d].new /\ watcher'[caller[d].new] = "none"
    PROVE  CallsPlaced'
  <1>1. \A d \in Callers : caller'[d].at # "idle" => manager' # None
      BY Zenon DEF CallsPlaced
  <1>2. \A d \in Callers : Placing(d)' =>
          /\ caller'[d].new # None /\ caller'[d].new <= made'
          /\ watcher'[caller'[d].new] = "none" /\ owner'[caller'[d].new] = manager'
      BY Zenon DEF CallsPlaced
  <1>3. \A d, e \in Callers : Placing(d)' /\ Placing(e)' /\ caller'[d].new = caller'[e].new => d = e
      BY Zenon DEF CallsPlaced
  <1> QED BY <1>1, <1>2, <1>3, Zenon DEF CallsPlaced

\* Putting the new call into the slot preserves the invariant: the old one is remembered.
LEMMA ReplaceStep ==
    ASSUME IInv, NEW c \in Callers, ReplaceCurrent(c)
    PROVE  IInv'
  <1> DEFINE new == caller[c].new
             old == current[manager]
  <1>0. /\ caller[c].at = "replace" /\ manager \in Managers /\ new \in Tunnels /\ owner[new] = manager
        /\ new <= made /\ old \in Tunnels \cup {None} /\ (old # None => old <= made)
      BY DEF ReplaceCurrent, IInv, Structure, Types, CallsPlaced, Placing, SlotsOwn
  <1>1. /\ current' = [current EXCEPT ![manager] = new]
        /\ caller' = [caller EXCEPT ![c] = [at |-> "hang_up_old", new |-> new, old |-> old]]
        /\ UNCHANGED <<manager, managers, active, made, owner, live, stream, entered, watcher>>
      BY Zenon DEF ReplaceCurrent, Call, tunnels, watching
  <1> HIDE DEF new, old
  <1>2. Types'
      BY <1>0, <1>1, Zenon DEF IInv, Structure, Types, CallPlaces
  <1>3. EndsAreTrue' /\ MadeInOrder' /\ EnteredByWatcher'
      BY <1>1, Zenon DEF IInv, Structure, EndsAreTrue, Ended, MadeInOrder, EnteredByWatcher
  <1>4. SlotsOwn'
      BY <1>0, <1>1, Zenon DEF IInv, Structure, Types, SlotsOwn
  <1>5. NothingBefore'
      BY <1>0, <1>1, Names, Zenon DEF IInv, Structure, NothingBefore
  <1>6. /\ caller'[c].at = "hang_up_old" /\ caller'[c].new = new /\ caller'[c].old = old
        /\ \A d \in Callers : d # c => caller'[d] = caller[d]
      BY <1>1, Zenon DEF IInv, Structure, Types
  <1>7. CallsPlaced'
    <2>1. \A d \in Callers : caller'[d].new = caller[d].new /\ (Placing(d)' <=> Placing(d))
        BY <1>0, <1>6, Zenon DEF Placing, new
    <2>2. \A d \in Callers : Placing(d) => watcher[caller[d].new] = "none"
        BY Zenon DEF IInv, Structure, CallsPlaced
    <2>3. \A d \in Callers : caller'[d].old # None => caller'[d].old <= made
        BY <1>0, <1>6, Zenon DEF IInv, Structure, CallsPlaced
    <2>4. \A d \in Callers : caller'[d].at # "idle" => caller[d].at # "idle"
        BY <1>0, <1>6, Zenon
    <2> QED BY <1>1, <2>1, <2>2, <2>3, <2>4, PlacingKept, Zenon DEF IInv, Structure
  <1>8. Replaced'
    <2>1. SUFFICES ASSUME NEW t \in Tunnels, live[t] \in {"dialing", "up"}, ~StillCurrent(t)'
                   PROVE  \E d \in Callers : \/ caller'[d].at = "replace" /\ caller'[d].new = t
                                             \/ caller'[d].at = "hang_up_old" /\ caller'[d].old = t
        BY <1>1, Zenon DEF Replaced
    <2>2. CASE StillCurrent(t)
      <3>1. t = old
          BY <1>1, <2>1, <2>2, Zenon DEF StillCurrent, old, IInv, Structure, Types
      <3> QED BY <1>6, <3>1, Zenon
    <2>3. CASE ~StillCurrent(t)
      <3>1. PICK d \in Callers : \/ caller[d].at = "replace" /\ caller[d].new = t
                                 \/ caller[d].at = "hang_up_old" /\ caller[d].old = t
          BY <2>1, <2>3, Zenon DEF IInv, Replaced
      <3>2. t # new
          BY <1>0, <1>1, <2>1, Names, Zenon DEF StillCurrent, IInv, Structure, Types
      <3>3. d # c
          BY <1>0, <3>1, <3>2, Zenon DEF new
      <3>4. caller'[d] = caller[d]
          BY <1>6, <3>3, Zenon
      <3>5. \/ caller'[d].at = "replace" /\ caller'[d].new = t
            \/ caller'[d].at = "hang_up_old" /\ caller'[d].old = t
          BY <3>1, <3>4, Zenon
      <3> QED BY <3>5, Zenon
    <2> QED BY <2>2, <2>3, Zenon
  <1>9. Counted' = Counted
      BY <1>1, Zenon DEF Counted
  <1>10. CountCovers'
      BY <1>1, <1>9, CountKept, Zenon
  <1> QED BY <1>2, <1>3, <1>4, <1>5, <1>7, <1>8, <1>10, Zenon DEF IInv, Structure

\* Hanging up the old call preserves the invariant.
LEMMA HangUpStep ==
    ASSUME IInv, NEW c \in Callers, HangUpOld(c)
    PROVE  IInv'
  <1> DEFINE new == caller[c].new
             old == caller[c].old
  <1>0. /\ caller[c].at = "hang_up_old" /\ new \in Tunnels \cup {None} /\ old \in Tunnels \cup {None}
        /\ caller' = [caller EXCEPT ![c] = [at |-> "watch", new |-> new, old |-> None]]
        /\ UNCHANGED <<manager, managers, current, active, made, owner, entered, watcher>>
      BY Zenon DEF HangUpOld, Call, watching, IInv, Structure, Types
  <1>1. LiveStep /\ (old # None => live'[old] = "down")
    <2>1. CASE old = None
        BY <2>1, StillStep, Zenon DEF HangUpOld, NoDisconnect, IInv
    <2>2. CASE old # None
      <3>1. old \in Tunnels /\ old <= made
          BY <1>0, <2>2, Zenon DEF IInv, Structure, CallsPlaced
      <3>2. LiveStep /\ live' = [live EXCEPT ![old] = "down"]
          BY <2>2, <3>1, DisconnectStep, Zenon DEF HangUpOld, IInv
      <3> QED BY <3>1, <3>2, Zenon DEF IInv, Structure, Types
    <2> QED BY <2>1, <2>2, Zenon
  <1> HIDE DEF new, old
  <1>2. Types'
      BY <1>0, <1>1, Zenon DEF IInv, Structure, Types, CallPlaces, LiveStep
  <1>3. EndsAreTrue' /\ MadeInOrder' /\ SlotsOwn' /\ EnteredByWatcher'
      BY <1>0, <1>1, Zenon DEF IInv, Structure, LiveStep, EndsAreTrue, MadeInOrder, SlotsOwn, EnteredByWatcher
  <1>4. NothingBefore'
      BY <1>0, Zenon DEF IInv, Structure, NothingBefore
  <1>5. /\ caller'[c].at = "watch" /\ caller'[c].new = new /\ caller'[c].old = None
        /\ \A d \in Callers : d # c => caller'[d] = caller[d]
      BY <1>0, Zenon DEF IInv, Structure, Types
  <1>6. CallsPlaced'
    <2>1. \A d \in Callers : caller'[d].new = caller[d].new /\ (Placing(d)' <=> Placing(d))
        BY <1>0, <1>5, Zenon DEF Placing, new
    <2>2. \A d \in Callers : Placing(d) => watcher[caller[d].new] = "none"
        BY Zenon DEF IInv, Structure, CallsPlaced
    <2>3. \A d \in Callers : caller'[d].old # None => caller'[d].old <= made
        BY <1>5, Zenon DEF IInv, Structure, CallsPlaced
    <2>4. \A d \in Callers : caller'[d].at # "idle" => caller[d].at # "idle"
        BY <1>0, <1>5, Zenon
    <2> QED BY <1>0, <2>1, <2>2, <2>3, <2>4, PlacingKept, Zenon DEF IInv, Structure
  <1>7. Replaced'
    <2>1. SUFFICES ASSUME NEW t \in Tunnels, live'[t] \in {"dialing", "up"}, ~StillCurrent(t)'
                   PROVE  \E d \in Callers : \/ caller'[d].at = "replace" /\ caller'[d].new = t
                                             \/ caller'[d].at = "hang_up_old" /\ caller'[d].old = t
        BY Zenon DEF Replaced
    <2>2. live[t] \in {"dialing", "up"} /\ ~StillCurrent(t)
        BY <1>0, <1>1, <2>1, Zenon DEF LiveStep, StillCurrent, IInv, Structure, Types, Lives
    <2>3. PICK d \in Callers : \/ caller[d].at = "replace" /\ caller[d].new = t
                               \/ caller[d].at = "hang_up_old" /\ caller[d].old = t
        BY <2>2, Zenon DEF IInv, Replaced
    <2>4. d # c
        BY <1>0, <1>1, <2>1, <2>3, Names, Zenon DEF old
    <2>5. caller'[d] = caller[d]
        BY <1>5, <2>4, Zenon
    <2>6. \/ caller'[d].at = "replace" /\ caller'[d].new = t
          \/ caller'[d].at = "hang_up_old" /\ caller'[d].old = t
        BY <2>3, <2>5, Zenon
    <2> QED BY <2>6, Zenon
  <1>8. Counted' = Counted
      BY <1>0, Zenon DEF Counted
  <1>9. CountCovers'
      BY <1>0, <1>8, CountKept, Zenon
  <1> QED BY <1>2, <1>3, <1>4, <1>6, <1>7, <1>9, Zenon DEF IInv, Structure

\* Spawning the watcher preserves the invariant: it has nothing to count yet.
LEMMA SpawnStep ==
    ASSUME IInv, NEW c \in Callers, SpawnWatcher(c)
    PROVE  IInv'
  <1> DEFINE new == caller[c].new
  <1>0. /\ caller[c].at = "watch" /\ manager # None /\ new \in Tunnels /\ new <= made /\ watcher[new] = "none"
        /\ watcher' = [watcher EXCEPT ![new] = "recv"]
        /\ caller' = [caller EXCEPT ![c] = [at |-> "idle", new |-> None, old |-> None]]
        /\ UNCHANGED <<manager, managers, current, active, made, owner, live, stream, entered>>
      BY Zenon DEF SpawnWatcher, Idle, Call, tunnels, IInv, Structure, Types, CallsPlaced, Placing
  <1>1. /\ caller'[c].at = "idle" /\ caller'[c].old = None
        /\ \A d \in Callers : d # c => caller'[d] = caller[d]
        /\ \A d \in Callers : d # c /\ Placing(d) => caller[d].new # new
      BY <1>0, Zenon DEF IInv, Structure, Types, CallsPlaced, Placing
  <1> HIDE DEF new
  <1>2. Types'
      BY <1>0, Zenon DEF IInv, Structure, Types, CallPlaces, WatcherPlaces
  <1>3. EndsAreTrue' /\ SlotsOwn'
      BY <1>0, Zenon DEF IInv, Structure, EndsAreTrue, Ended, SlotsOwn
  <1>4. MadeInOrder'
    <2>1. ~(new > made)
        BY <1>0, Names DEF IInv, Structure, Types
    <2> QED BY <1>0, <2>1, Zenon DEF IInv, Structure, Types, MadeInOrder
  <1>5. EnteredByWatcher'
      BY <1>0, Zenon DEF IInv, Structure, Types, EnteredByWatcher
  <1>6. NothingBefore'
      BY <1>0, Zenon DEF IInv, Structure, NothingBefore
  <1>7. CallsPlaced'
    <2>1. \A d \in Callers : Placing(d)' => d # c /\ Placing(d) /\ caller'[d] = caller[d] /\ caller[d].new # new
        BY <1>1, Zenon DEF Placing
    <2>2. \A t \in Tunnels : t # new => watcher'[t] = watcher[t]
        BY <1>0, Zenon DEF IInv, Structure, Types
    <2>3. \A d \in Callers : Placing(d) => caller[d].new \in Tunnels /\ watcher[caller[d].new] = "none"
        BY Zenon DEF IInv, Structure, Types, CallsPlaced
    <2>4. \A d \in Callers : caller'[d].old # None => caller'[d].old <= made
        BY <1>1, Zenon DEF IInv, Structure, CallsPlaced
    <2>5. \A d \in Callers : caller'[d].at # "idle" => caller[d].at # "idle"
        BY <1>1, Zenon
    <2> QED BY <1>0, <2>1, <2>2, <2>3, <2>4, <2>5, PlacingKept, Zenon DEF IInv, Structure
  <1>8. Replaced'
    <2>1. \A d \in Callers : caller[d].at \in {"replace", "hang_up_old"} => caller'[d] = caller[d]
        BY <1>0, <1>1, Zenon
    <2> QED BY <1>0, <2>1 DEF IInv, Replaced, StillCurrent
  <1>9. Counted' \subseteq Counted
      BY <1>0, Zenon DEF IInv, Structure, Types, EnteredByWatcher, Counted
  <1>10. CountCovers'
      BY <1>0, <1>9, CountKept, Zenon
  <1> QED BY <1>2, <1>3, <1>4, <1>5, <1>6, <1>7, <1>8, <1>10, Zenon DEF IInv, Structure

\* What all steps of a watcher have in common, but for the slot and the counter.
WatchStep(t) ==
    /\ watcher[t] # "none" /\ watcher'[t] # "none"
    /\ watcher' \in [Tunnels -> WatcherPlaces] /\ entered' \in [Tunnels -> BOOLEAN]
    /\ \A u \in Tunnels : u # t => watcher'[u] = watcher[u] /\ entered'[u] = entered[u]
    /\ LiveStep /\ active' \in Nat
    /\ UNCHANGED <<manager, managers, made, owner, caller>>

\* Each step of a watcher is one (spawn_client_watcher).
LEMMA WatchSteps ==
    ASSUME IInv, NEW t \in Tunnels, Watch(t)
    PROVE  WatchStep(t)
  <1>1. /\ watcher[t] # "none" /\ watcher'[t] # "none"
        /\ watcher' \in [Tunnels -> WatcherPlaces]
        /\ \A u \in Tunnels : u # t => watcher'[u] = watcher[u]
      BY Zenon DEF Watch, WatchSkips, WatchConnected, WatchCurrent, WatchSuperseded, WatchBump, WatchEmitConnected,
             WatchUpgradeFails, WatchDisconnected, WatchRebalance, WatchReport, Goto, watching,
             IInv, Structure, Types, WatcherPlaces
  <1>2. /\ entered' \in [Tunnels -> BOOLEAN]
        /\ \A u \in Tunnels : u # t => entered'[u] = entered[u]
    <2>1. CASE WatchConnected(t)
        BY <2>1, Zenon DEF WatchConnected, IInv, Structure, Types
    <2>2. CASE ~WatchConnected(t)
      <3>1. entered' = entered
          BY <2>2, Zenon DEF Watch, WatchSkips, WatchCurrent, WatchSuperseded, WatchBump, WatchEmitConnected,
             WatchUpgradeFails, WatchDisconnected, WatchRebalance, WatchReport, watching
      <3> QED BY <3>1, Zenon DEF IInv, Structure, Types
    <2> QED BY <2>1, <2>2, Zenon
  <1>3. active' \in Nat
    <2>1. CASE WatchBump(t) \/ WatchRebalance(t)
        BY <2>1 DEF WatchBump, WatchRebalance, Bumped, IInv, Structure, Types
    <2>2. CASE ~(WatchBump(t) \/ WatchRebalance(t))
        BY <2>2, Zenon DEF Watch, WatchSkips, WatchConnected, WatchCurrent, WatchSuperseded, WatchEmitConnected,
             WatchUpgradeFails, WatchDisconnected, WatchReport, IInv, Structure, Types
    <2> QED BY <2>1, <2>2, Zenon
  <1>4. UNCHANGED <<manager, managers, made, owner, caller>>
      BY Zenon DEF Watch, WatchSkips, WatchConnected, WatchCurrent, WatchSuperseded, WatchBump, WatchEmitConnected,
             WatchUpgradeFails, WatchDisconnected, WatchRebalance, WatchReport, tunnels
  <1>5. LiveStep
    <2>1. CASE WatchSkips(t) \/ WatchConnected(t) \/ WatchDisconnected(t)
      <3>1. live' = live /\ stream[t] # <<>> /\ Read(t)
          BY <2>1, Zenon DEF WatchSkips, WatchConnected, WatchDisconnected
      <3>2. stream' \in [Tunnels -> Seq(Kinds)] /\ Ended' \subseteq Ended
          BY <3>1, ReadStep, Zenon DEF IInv, Structure
      <3> QED BY <3>1, <3>2, Zenon DEF LiveStep, IInv, Structure, Types, EndsAreTrue
    <2>2. CASE WatchUpgradeFails(t) \/ WatchReport(t)
      <3>1. live' = live /\ stream' = [stream EXCEPT ![t] = <<>>]
          BY <2>2, Zenon DEF WatchUpgradeFails, WatchReport
      <3>2. stream' \in [Tunnels -> Seq(Kinds)] /\ Ended' \subseteq Ended
          BY <3>1, ClearStep, Zenon DEF IInv, Structure
      <3> QED BY <3>1, <3>2, Zenon DEF LiveStep, IInv, Structure, Types, EndsAreTrue
    <2>3. CASE WatchSuperseded(t)
      <3>1. live' = [live EXCEPT ![t] = "down"] /\ stream' = [stream EXCEPT ![t] = <<>>]
          BY <2>3, Zenon DEF WatchSuperseded
      <3>2. stream' \in [Tunnels -> Seq(Kinds)] /\ Ended' \subseteq Ended /\ Ended \subseteq Tunnels
          BY <3>1, ClearStep, Zenon DEF IInv, Structure, Ended
      <3>3. live[t] # "none"
          BY <1>1, Zenon DEF IInv, Structure, MadeInOrder
      <3> QED BY <3>1, <3>2, <3>3, Zenon DEF LiveStep, IInv, Structure, Types, EndsAreTrue, Lives
    <2>4. CASE WatchCurrent(t) \/ WatchBump(t) \/ WatchEmitConnected(t) \/ WatchRebalance(t)
        BY <2>4, StillStep, Zenon DEF WatchCurrent, WatchBump, WatchEmitConnected, WatchRebalance, tunnels, IInv
    <2> QED BY <2>1, <2>2, <2>3, <2>4, Zenon DEF Watch
  <1> QED BY <1>1, <1>2, <1>3, <1>4, <1>5, Zenon DEF WatchStep

\* A watcher takes only a tunnel that is down out of the slot (clear_if_current).
LEMMA WatchSlots ==
    ASSUME IInv, NEW t \in Tunnels, Watch(t)
    PROVE  /\ current' \in [Managers -> Tunnels \cup {None}]
           /\ \A m \in Managers : current'[m] = current[m] \/ (current'[m] = None /\ live[current[m]] = "down")
  <1>1. CASE WatchDisconnected(t)
    <2>1. t \in Ended
        BY <1>1, ReadStep, Zenon DEF WatchDisconnected, IInv, Structure
    <2>2. live[t] = "down"
        BY <2>1, Zenon DEF IInv, Structure, EndsAreTrue
    <2> QED BY <1>1, <2>2, Names, Zenon DEF WatchDisconnected, StillCurrent, IInv, Structure, Types
  <1>2. CASE ~WatchDisconnected(t)
    <2>1. current' = current
        BY <1>2, Zenon DEF Watch, WatchSkips, WatchConnected, WatchCurrent, WatchSuperseded, WatchBump, WatchEmitConnected,
             WatchUpgradeFails, WatchRebalance, WatchReport
    <2> QED BY <2>1, Zenon DEF IInv, Structure, Types
  <1> QED BY <1>1, <1>2, Zenon

\* A watcher adds to the counter what it adds to the counted sessions, and takes no more
\* than it gives back (bump_session).
LEMMA WatchCounts ==
    ASSUME IInv, NEW t \in Tunnels, Watch(t)
    PROVE  CountCovers'
  <1>0. WatchStep(t)
      BY WatchSteps, Zenon
  <1>1. CASE WatchBump(t)
    <2>1. Counted' = Counted \cup {t} /\ active' = active + 1 /\ managers' = managers
      <3>1. watcher' = [watcher EXCEPT ![t] = "emit"] /\ entered' = entered /\ managers' = managers
          BY <1>1, Zenon DEF WatchBump, Goto
      <3>2. active' = active + 1
          BY <1>1 DEF WatchBump, Bumped, IInv, Structure, Types
      <3>3. t \in Counted'
          BY <3>1, Zenon DEF Counted, IInv, Structure, Types
      <3>4. \A u \in Tunnels : u # t => (u \in Counted' <=> u \in Counted)
          BY <3>1, Zenon DEF Counted, IInv, Structure, Types
      <3>5. Counted \subseteq Tunnels /\ Counted' \subseteq Tunnels
          BY Zenon DEF Counted
      <3> QED BY <3>1, <3>2, <3>3, <3>4, <3>5, Zenon
    <2>2. /\ Cardinality(Counted) \in Nat
          /\ Cardinality(Counted \cup {t}) = IF t \in Counted THEN Cardinality(Counted) ELSE Cardinality(Counted) + 1
        BY CountedFinite, FS_AddElement, Zenon
    <2> QED BY <2>1, <2>2 DEF CountCovers, IInv, Structure, Types
  <1>2. CASE WatchRebalance(t) /\ entered[t]
    <2>1. t \in Counted /\ Counted' = Counted \ {t} /\ managers' = managers
        BY <1>0, <1>2, Zenon DEF WatchRebalance, WatchStep, Goto, Counted, IInv, Structure, Types
    <2>2. /\ Cardinality(Counted \ {t}) = Cardinality(Counted) - 1 /\ Cardinality(Counted) \in Nat
          /\ Cardinality(Counted \ {t}) \in Nat
        BY <2>1, CountedFinite, FS_RemoveElement, FS_CardinalityType, Zenon
    <2>3. active' = IF active - 1 < 0 THEN 0 ELSE active - 1
        BY <1>2, Zenon DEF WatchRebalance, Bumped, IInv, Structure, Types
    <2> QED BY <2>1, <2>2, <2>3 DEF CountCovers, IInv, Structure, Types
  <1>3. CASE ~WatchBump(t) /\ ~(WatchRebalance(t) /\ entered[t])
    <2>1. active' = active
        BY <1>3, Zenon DEF Watch, WatchSkips, WatchConnected, WatchCurrent, WatchSuperseded, WatchEmitConnected,
             WatchUpgradeFails, WatchDisconnected, WatchRebalance, WatchReport
    <2>2. t \in Counted' => t \in Counted
        BY <1>3, Zenon DEF Watch, WatchSkips, WatchConnected, WatchCurrent, WatchSuperseded, WatchEmitConnected,
             WatchUpgradeFails, WatchDisconnected, WatchRebalance, WatchReport, Goto, watching, Counted,
             IInv, Structure, Types
    <2>3. Counted' \subseteq Counted
        BY <1>0, <2>2, Zenon DEF WatchStep, Counted
    <2> QED BY <1>0, <2>1, <2>3, CountKept, Zenon DEF WatchStep
  <1> QED BY <1>1, <1>2, <1>3, Zenon

\* A watcher's step preserves the invariant.
LEMMA WatcherStep ==
    ASSUME IInv, NEW t \in Tunnels, Watch(t)
    PROVE  IInv'
  <1>0. WatchStep(t)
      BY WatchSteps, Zenon
  <1>1. /\ current' \in [Managers -> Tunnels \cup {None}]
        /\ \A m \in Managers : current'[m] = current[m] \/ (current'[m] = None /\ live[current[m]] = "down")
      BY WatchSlots, Zenon
  <1>2. Types'
      BY <1>0, <1>1, Zenon DEF IInv, Structure, Types, WatchStep, LiveStep
  <1>3. EndsAreTrue'
      BY <1>0, Zenon DEF WatchStep, LiveStep, EndsAreTrue
  <1>4. MadeInOrder'
      BY <1>0, Zenon DEF IInv, Structure, MadeInOrder, WatchStep, LiveStep
  <1>5. SlotsOwn'
      BY <1>0, <1>1, Zenon DEF IInv, Structure, SlotsOwn, WatchStep
  <1>6. NothingBefore' /\ EnteredByWatcher'
      BY <1>0, Zenon DEF IInv, Structure, NothingBefore, EnteredByWatcher, WatchStep
  <1>7. CallsPlaced'
    <2>1. \A d \in Callers : Placing(d) => caller[d].new \in Tunnels /\ caller[d].new # t
        BY <1>0 DEF IInv, Structure, Types, CallsPlaced, WatchStep
    <2> QED BY <1>0, <2>1, Zenon DEF IInv, Structure, CallsPlaced, Placing, WatchStep
  <1>8. Replaced'
    <2>1. ASSUME NEW u \in Tunnels, live'[u] \in {"dialing", "up"} PROVE live[u] \in {"dialing", "up"}
        BY <1>0, <2>1, Zenon DEF IInv, Structure, Types, Lives, WatchStep, LiveStep
    <2>2. ASSUME NEW u \in Tunnels, live'[u] \in {"dialing", "up"}, StillCurrent(u) PROVE StillCurrent(u)'
      <3>1. owner[u] \in Managers /\ current[owner[u]] = u /\ live[u] # "down"
          BY <2>1, <2>2, Zenon DEF StillCurrent, IInv, Structure, Types
      <3>2. current'[owner[u]] = u
          BY <1>1, <3>1, Zenon
      <3> QED BY <1>0, <3>1, <3>2, Names, Zenon DEF StillCurrent, WatchStep
    <2> QED BY <1>0, <2>1, <2>2 DEF IInv, Replaced, WatchStep
  <1>9. CountCovers'
      BY WatchCounts, Zenon
  <1> QED BY <1>2, <1>3, <1>4, <1>5, <1>6, <1>7, <1>8, <1>9, Zenon DEF IInv, Structure

\* Every step preserves the invariant.
LEMMA NextIInv == IInv /\ [Next]_vars => IInv'
  <1> SUFFICES ASSUME IInv, [Next]_vars PROVE IInv'
      BY Zenon
  <1>1. ASSUME NEW c \in Callers, Place(c) PROVE IInv'
      BY <1>1, CallSteps, ConnectStep, ReplaceStep, HangUpStep, SpawnStep, Zenon DEF Place
  <1>2. CASE UNCHANGED vars
    <2>1. LiveStep
        BY <1>2, StillStep, Zenon DEF IInv, vars, tunnels
    <2> QED BY <1>2, <2>1, LivesOnly, Zenon DEF vars, tunnels, watching
  <1> QED BY <1>1, <1>2, TunnelSteps, NewManagerStep, DropManagerStep, WatcherStep, Zenon DEF Next

\* The invariant covers the two safety properties.
LEMMA InvImplies == IInv => GateShutDuringSession /\ SupersededIsDown
  <1> SUFFICES ASSUME IInv PROVE GateShutDuringSession /\ SupersededIsDown
      BY Zenon
  <1>1. GateShutDuringSession
    <2>1. SUFFICES ASSUME managers = 1, NEW t \in Tunnels, InSession(t) PROVE active >= 1
        BY Zenon DEF GateShutDuringSession
    <2>2. t \in Counted
        BY <2>1, Zenon DEF Counted, InSession
    <2>3. Cardinality(Counted) \in Nat \ {0}
        BY <2>2, CountedFinite, FS_EmptySet, Zenon
    <2> QED BY <2>1, <2>3 DEF IInv, CountCovers, Structure, Types
  <1>2. SupersededIsDown
    <2>1. SUFFICES ASSUME NEW t \in Tunnels, watcher[t] # "none", ~StillCurrent(t), live[t] # "down"
                   PROVE  \E c \in Callers : caller[c].old = t
        BY Zenon DEF SupersededIsDown
    <2>2. live[t] \in {"dialing", "up"}
        BY <2>1, Zenon DEF IInv, Structure, Types, Lives, MadeInOrder
    <2>3. \A c \in Callers : caller[c].at = "replace" => caller[c].new # t
        BY <2>1, Zenon DEF IInv, Structure, CallsPlaced, Placing
    <2> QED BY <2>1, <2>2, <2>3, Zenon DEF IInv, Replaced
  <1> QED BY <1>1, <1>2, Zenon

\* While a session that the consumer was told of lasts, the activation driver counts at
\* least one, for any number of calls placed and ended in any order (bump_session and
\* spawn_client_watcher): what is counted covers the sessions whose watcher has bumped
\* the counter and not yet given it back.
THEOREM SessionsKeepGateShut == Spec => []GateShutDuringSession
  BY InitIInv, NextIInv, InvImplies, PTL DEF Spec

\* Only a tunnel that is down leaves the slot empty, or the manager leaves with it.
LEMMA NewerCallStays == ASSUME IInv, Next PROVE KeepsNewCall
  <1>1. ASSUME NEW t \in Tunnels, Watch(t) PROVE KeepsNewCall
      BY <1>1, WatchSlots, Zenon DEF KeepsNewCall
  <1>2. CASE DropManager
      BY <1>2, Zenon DEF DropManager, KeepsNewCall
  <1>3. ASSUME NEW c \in Callers, ReplaceCurrent(c) PROVE KeepsNewCall
      BY <1>3, Zenon DEF ReplaceCurrent, KeepsNewCall, IInv, Structure, Types, CallsPlaced, Placing
  <1>4. CASE current' = current
      BY <1>4, Zenon DEF KeepsNewCall
  <1>5. ASSUME NEW c \in Callers, Place(c) PROVE ReplaceCurrent(c) \/ current' = current
      BY <1>5, Zenon DEF Place, PlaceCall, SignalingRefuses, ConnectTunnel, HangUpOld, SpawnWatcher
  <1>6. ASSUME NEW t \in Tunnels, Tunnel(t) PROVE current' = current
      BY <1>6, Zenon DEF Tunnel, TunnelUp, TunnelUpLate, TunnelEnds, TunnelTimesOut, HangUp
  <1>7. ASSUME NEW p \in Peers, CallEnded(p) PROVE current' = current
      BY <1>7, Zenon DEF CallEnded
  <1>8. NewManager => current' = current
      BY Zenon DEF NewManager
  <1> QED BY <1>1, <1>2, <1>3, <1>4, <1>5, <1>6, <1>7, <1>8, Zenon DEF Next
=============================================================================
