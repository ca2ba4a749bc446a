---------------------------- MODULE TunnelProofs ----------------------------
(***************************************************************************)
(* Proofs about a tunnel, for any set of users and any number of           *)
(* disconnect() calls, and about its QUIC client, for any number of        *)
(* callers of ensure_quic_client, dials and losses.                        *)
(***************************************************************************)
EXTENDS MCTunnel, SequenceTheorems, TLAPS

-----------------------------------------------------------------------------
(* The event stream and the data planes: LkTunnel.                          *)

\* The connect task has neither reported a peer nor failed.
Early == {"dialing", "dialed", "stow", "spawn", "release", "dropping", "peer_wait", "joined", "publish", "announce"}

Kinds == Life!Stream!Kinds
Outcome == {"Connected", "Error"} \cap Life!Stream!Said(events)

StreamInv == events \in Seq(Kinds) /\ (task \in Early => Outcome = {})

\* An event that is sent comes last.
LEMMA EmitAppends ==
    ASSUME events \in Seq(Kinds), NEW kind \in Kinds, Life!Emit(kind)
    PROVE  /\ events' \in Seq(Kinds) /\ events' = Append(events, kind)
           /\ Life!Stream!Said(events)' = Life!Stream!Said(events) \cup {kind}
  <1>1. events' = Append(events, kind)
      BY Zenon DEF Life!Emit
  <1>2. /\ Append(events, kind) \in Seq(Kinds) /\ Len(Append(events, kind)) = Len(events) + 1
        /\ \A i \in 1 .. Len(events) : Append(events, kind)[i] = events[i]
        /\ Append(events, kind)[Len(events) + 1] = kind
        /\ Len(events) \in Nat
      BY AppendProperties, LenProperties
  <1>3. DOMAIN events = 1 .. Len(events) /\ DOMAIN events' = 1 .. Len(events) + 1
      BY <1>1, <1>2, LenProperties, Zenon
  <1>4. Life!Stream!Said(events)' = Life!Stream!Said(events) \cup {kind}
      BY <1>1, <1>2, <1>3 DEF Life!Stream!Said
  <1> QED BY <1>1, <1>2, <1>4, Zenon

\* A step that says nothing new, or says it as TunnelStream allows.
Says == UNCHANGED events \/ \E kind \in Kinds : Life!Stream!MayFollow(events, kind) /\ Life!Emit(kind)

\* Every step of the tunnel is such a step, and an outcome ends the early places.
LEMMA StepSays ==
    ASSUME StreamInv, [Life!Next]_(Life!vars)
    PROVE  Says /\ StreamInv'
  <1> USE DEF Early
  <1>1. CASE Life!DialFails \/ Life!PeerWaitTimeout
    <2>1. Life!Emit("Error") /\ task \in Early /\ task' \notin Early
        BY <1>1, Zenon DEF Life!DialFails, Life!PeerWaitTimeout
    <2>2. "Error" \in Kinds /\ Life!Stream!MayFollow(events, "Error")
        BY <2>1, Zenon DEF StreamInv, Outcome, Kinds, Life!Stream!Kinds, Life!Stream!MayFollow
    <2> QED BY <2>1, <2>2, EmitAppends, Zenon DEF Says, StreamInv
  <1>2. CASE Life!AnnounceConnected
    <2>1. Life!Emit("Connected") /\ task \in Early /\ task' \notin Early
        BY <1>2, Zenon DEF Life!AnnounceConnected
    <2>2. "Connected" \in Kinds /\ Life!Stream!MayFollow(events, "Connected")
        BY <2>1, Zenon DEF StreamInv, Outcome, Kinds, Life!Stream!Kinds, Life!Stream!MayFollow
    <2> QED BY <2>1, <2>2, EmitAppends, Zenon DEF Says, StreamInv
  <1>3. ASSUME Life!Emit("Disconnected"), task' \in Early => task \in Early PROVE Says /\ StreamInv'
    <2>1. "Disconnected" \in Kinds /\ Life!Stream!MayFollow(events, "Disconnected")
        BY Zenon DEF Kinds, Life!Stream!Kinds, Life!Stream!MayFollow
    <2>2. events' \in Seq(Kinds) /\ Life!Stream!Said(events)' = Life!Stream!Said(events) \cup {"Disconnected"}
        BY <1>3, <2>1, EmitAppends, Zenon DEF StreamInv
    <2>3. Outcome' = Outcome
        BY <2>2, Zenon DEF Outcome
    <2> QED BY <1>3, <2>1, <2>2, <2>3, Zenon DEF Says, StreamInv
  <1>4. CASE Life!DialFailed \/ Life!PeerWaitDisconnected \/ Life!MainDisconnected \/ Life!MainProbe \/ \E a \in Life!Actors : Life!EmitEnd(a)
      BY <1>3, <1>4, Zenon DEF Life!DialFailed, Life!PeerWaitDisconnected, Life!MainDisconnected, Life!MainProbe, Life!EmitEnd
  <1>5. ASSUME UNCHANGED events, task' \in Early => task \in Early PROVE Says /\ StreamInv'
      BY <1>5, Zenon DEF Says, StreamInv, Outcome
  <1>6. CASE Life!PeerComes \/ Life!PeerGoes \/ Life!DropLast \/ Life!QuicStep \/ UNCHANGED Life!vars
      BY <1>5, <1>6, Zenon DEF Life!PeerComes, Life!PeerGoes, Life!DropLast, Life!QuicStep, Life!WarmGivesUp, Life!WarmHandshake, Life!WarmInstalls, Life!KeeperClosed,
                        Life!KeeperRedial, Life!KeeperWakes, Life!life, Life!vars
  <1>7. CASE Life!DialOk \/ Life!Upgrade \/ Life!Stow \/ Life!SpawnSender \/ Life!Release \/ Life!Dropped \/ Life!PeerWaitJoined
      BY <1>5, <1>7, Zenon DEF Life!DialOk, Life!Upgrade, Life!Stow, Life!SpawnSender, Life!Release, Life!Dropped, Life!PeerWaitJoined
  <1>8. CASE Life!Joined \/ Life!PublishConnected \/ Life!AutoWarm \/ Life!MainEnds \/ Life!Exit \/ Life!Cancel
      BY <1>5, <1>8, Zenon DEF Life!Joined, Life!PublishConnected, Life!AutoWarm, Life!MainEnds, Life!Exit, Life!Cancel
  <1>9. CASE \E a \in Life!Actors : Life!Borrow(a) \/ Life!Mark(a) \/ Life!LowerFlag(a) \/ Life!Abort(a) \/ Life!TakePlanes(a) \/ Life!TakeEngine(a) \/ Life!DropFields(a)
      BY <1>5, <1>9, Zenon DEF Life!Borrow, Life!Mark, Life!LowerFlag, Life!Abort, Life!TakePlanes, Life!TakeEngine, Life!DropFields, Life!life
  <1>10. CASE \E u \in Users : Life!UserStep(u)
      BY <1>5, <1>10, Zenon DEF Life!UserStep, Life!Disconnect, Life!Attach, Life!Install, Life!Detach, Life!life
  <1> QED BY <1>1, <1>2, <1>4, <1>6, <1>7, <1>8, <1>9, <1>10, Zenon DEF Life!Next, Life!TaskStep, Life!SfuStep, Life!Teardown

\* The tunnel implements TunnelStream: Connected is announced at most once and never after
\* an error, whatever disconnect(), Drop and the connect task do to each other.
THEOREM StreamKept == Life!Spec => StreamsAsPromised
  <1>1. Life!Init => StreamInv /\ Life!Stream!Init
    <2>1. <<>> \in Seq(Kinds) /\ Life!Stream!Said(<<>>) = {}
        BY EmptySeq DEF Life!Stream!Said
    <2> QED BY <2>1, Zenon DEF Life!Init, StreamInv, Outcome, Life!Stream!Init
  <1>2. StreamInv /\ [Life!Next]_(Life!vars) => StreamInv' /\ [Life!Stream!Next]_events
    <2>1. ASSUME Says PROVE [Life!Stream!Next]_events
        BY <2>1, Zenon DEF Says, Kinds, Life!Stream!Next, Life!Stream!Say, Life!Emit
    <2> QED BY <2>1, StepSays, Zenon
  <1> QED BY <1>1, <1>2, PTL DEF Life!Spec, StreamsAsPromised, Life!StreamsAsPromised, Life!Stream!Spec

\* Whoever calls into the tunnel holds it; Drop runs once nobody does, in the connect task
\* and the QUIC client included, and from then on nothing is installed, stowed or spawned.
\* What the connect task leaves behind when it ends is in the slot, or it was never opened.
Held ==
    /\ pc \in [Life!Actors -> Life!TeardownSteps \cup {"idle", "attach", "finished"}]
    /\ handles \in {0, 1}
    /\ handles = 0 => \A u \in Users : pc[u] = "idle"
    /\ pc["drop"] # "idle" => handles = 0 /\ ~Life!Pinned(quic) /\ task \notin Life!Holding
EngineHeld ==
    /\ task \in {"dialing", "dial_failed"} => engine = "none" /\ ~slot
    /\ task = "done" /\ engine = "open" => slot
Emptied == pc["drop"] = "finished" => ~slot /\ planes = {} /\ sender # "running"
HoldInv == Held /\ EngineHeld /\ Life!ModesExclude /\ Emptied

\* The parts of the tunnel a caller, the connect task and the QUIC client share.
Grip == <<pc, handles, quic, task, engine, slot, planes, sender>>

\* What the invariant reads is Grip.
LEMMA SameGrip == ASSUME HoldInv, UNCHANGED Grip PROVE HoldInv'
  BY Zenon DEF Grip, HoldInv, Held, EngineHeld, Emptied, Life!ModesExclude, Life!Pinned

\* Drop is not a user, and is an actor.
LEMMA DropperActs == "drop" \in Life!Actors /\ Life!Dropper = "drop" /\ Users \subseteq Life!Actors
  BY Zenon DEF Life!Actors, Life!Dropper

\* The connect task preserves the invariant: it stows and spawns only while it holds the
\* tunnel, and ends with nothing open outside the slot.
LEMMA TaskHolds == ASSUME HoldInv, Life!TaskStep \/ Life!SfuStep PROVE HoldInv'
  <1> USE DropperActs DEF HoldInv, Held, EngineHeld, Emptied, Life!ModesExclude, Life!Holding
  <1>1. CASE Life!DialFails \/ Life!DialFailed \/ Life!DialOk
      BY <1>1 DEF Life!DialFails, Life!DialFailed, Life!DialOk, Life!gear, Life!hands, Life!Pinned
  <1>2. CASE Life!Upgrade
      BY <1>2 DEF Life!Upgrade, Life!Alive, Life!hands
  <1>3. CASE Life!Stow \/ Life!SpawnSender
      BY <1>3, Zenon DEF Life!Stow, Life!SpawnSender, Life!hands
  <1>4. CASE Life!Release
    <2>1. CASE handles > 0 \/ Life!Pinned(quic)
        BY <1>4, <2>1, Zenon DEF Life!Release, Life!gear, Life!Pinned
    <2>2. CASE ~(handles > 0 \/ Life!Pinned(quic))
      <3>1. handles = 0 /\ task' = "dropping" /\ pc' = [pc EXCEPT !["drop"] = "borrow"]
          BY <1>4, <2>2 DEF Life!Release
      <3>2. UNCHANGED <<engine, slot, sender, planes, quic, handles>>
          BY <1>4, Zenon DEF Life!Release, Life!gear
      <3> QED BY <2>2, <3>1, <3>2, UsersAssumption, Zenon DEF Life!Pinned, Life!TeardownSteps
    <2> QED BY <2>1, <2>2, Zenon
  <1>5. CASE Life!Dropped \/ Life!PeerWaitJoined \/ Life!Joined \/ Life!PublishConnected
             \/ Life!AnnounceConnected \/ Life!MainDisconnected \/ Life!MainEnds
      BY <1>5 DEF Life!Dropped, Life!PeerWaitJoined, Life!Joined, Life!PublishConnected, Life!AnnounceConnected,
                  Life!MainDisconnected, Life!MainEnds, Life!gear, Life!hands, Life!Pinned
  <1>6. CASE Life!PeerWaitDisconnected \/ Life!Exit \/ Life!Cancel
      BY <1>6 DEF Life!PeerWaitDisconnected, Life!Exit, Life!Cancel, Life!LetGo, Life!hands, Life!Pinned
  <1>7. CASE Life!PeerWaitTimeout \/ Life!MainProbe
      BY <1>7 DEF Life!PeerWaitTimeout, Life!MainProbe, Life!hands, Life!Pinned
  <1>8. CASE Life!AutoWarm
      BY <1>8 DEF Life!AutoWarm, Life!Alive, Life!hands
  <1> QED BY <1>1, <1>2, <1>3, <1>4, <1>5, <1>6, <1>7, <1>8, Zenon DEF Life!TaskStep, Life!SfuStep

\* The QUIC client preserves the invariant: letting go of the last Arc begins the Drop, and
\* after it nobody dials again.
LEMMA QuicHolds == ASSUME HoldInv, Life!QuicStep PROVE HoldInv'
  <1> USE DropperActs DEF HoldInv, Held, EngineHeld, Emptied, Life!ModesExclude, Life!Pinned
  <1>1. ASSUME NEW q \in {"none", "resting"}, Life!Pinned(quic), Life!UnpinTo(q),
               UNCHANGED <<engine, slot, sender, planes, handles, task>>
        PROVE  HoldInv'
    <2>1. pc["drop"] = "idle" /\ quic' = q
        BY <1>1, Zenon DEF Life!UnpinTo
    <2>2. CASE handles = 0 /\ task \notin Life!Holding
      <3>1. pc' = [pc EXCEPT !["drop"] = "borrow"]
          BY <1>1, <2>1, <2>2, Zenon DEF Life!UnpinTo
      <3> QED BY <1>1, <2>1, <2>2, <3>1, UsersAssumption, Zenon DEF Life!TeardownSteps
    <2>3. CASE ~(handles = 0 /\ task \notin Life!Holding)
      <3>1. pc' = pc
          BY <1>1, <2>1, <2>3, Zenon DEF Life!UnpinTo
      <3> QED BY <1>1, <2>1, <2>3, <3>1, Zenon
    <2> QED BY <2>2, <2>3, Zenon
  <1>2. CASE Life!WarmGivesUp
      BY <1>1, <1>2, Zenon DEF Life!WarmGivesUp, Life!life
  <1>3. CASE Life!WarmHandshake \/ Life!WarmInstalls \/ Life!KeeperClosed
      BY <1>3 DEF Life!WarmHandshake, Life!WarmInstalls, Life!KeeperClosed, Life!life, Life!hands
  <1>4. CASE Life!KeeperRedial
    <2>1. quic = "redial" /\ UNCHANGED <<engine, slot, sender, planes, handles, task>>
        BY <1>4, Zenon DEF Life!KeeperRedial, Life!life
    <2>2. CASE quic' = "up" /\ pc' = pc
        BY <2>1, <2>2, Zenon
    <2> QED BY <1>1, <1>4, <2>1, <2>2, Zenon DEF Life!KeeperRedial
  <1>5. CASE Life!KeeperWakes
      BY <1>5 DEF Life!KeeperWakes, Life!Alive, Life!life, Life!hands
  <1> QED BY <1>2, <1>3, <1>4, <1>5, Zenon DEF Life!QuicStep

\* The callers preserve the invariant.
LEMMA UsersHold == ASSUME HoldInv, Life!DropLast \/ \E u \in Users : Life!UserStep(u) PROVE HoldInv'
  <1> USE DropperActs DEF HoldInv, Held, EngineHeld, Emptied, Life!ModesExclude
  <1>1. CASE Life!DropLast
    <2>1. handles' = 0 /\ UNCHANGED <<engine, slot, sender, planes, quic, task>> /\ \A u \in Users : pc[u] = "idle"
        BY <1>1, Zenon DEF Life!DropLast, Life!life, Life!gear
    <2>2. CASE task \in Life!Holding \/ Life!Pinned(quic)
      <3>1. pc' = pc
          BY <1>1, <2>2, Zenon DEF Life!DropLast
      <3> QED BY <2>1, <2>2, <3>1, Zenon DEF Life!Pinned
    <2>3. CASE ~(task \in Life!Holding \/ Life!Pinned(quic))
      <3>1. pc' = [pc EXCEPT !["drop"] = "borrow"]
          BY <1>1, <2>3, Zenon DEF Life!DropLast
      <3> QED BY <2>1, <2>3, <3>1, UsersAssumption, Zenon DEF Life!Pinned, Life!TeardownSteps
    <2> QED BY <2>2, <2>3, Zenon
  <1>2. ASSUME NEW u \in Users, Life!UserStep(u) PROVE HoldInv'
    <2>1. u # "drop" /\ u \in Life!Actors
        BY UsersAssumption, Zenon
    <2>2. CASE Life!Disconnect(u) \/ \E p \in {"nat", "tun"} : Life!Attach(u, p)
      <3>1. /\ handles = 1 /\ UNCHANGED <<engine, slot, sender, planes, quic, handles, task>>
            /\ pc' = [pc EXCEPT ![u] = "borrow"] \/ pc' = [pc EXCEPT ![u] = "attach"]
          BY <2>2, Zenon DEF Life!Disconnect, Life!Attach, Life!life, Life!gear
      <3> QED BY <2>1, <3>1 DEF Life!TeardownSteps
    <2>3. CASE Life!Install(u)
      <3>1. /\ pc[u] = "attach" /\ pc' = [pc EXCEPT ![u] = "idle"]
            /\ planes' = planes \/ planes' = {want[u]}
            /\ UNCHANGED <<engine, slot, sender, quic, handles, task>>
          BY <2>3, Zenon DEF Life!Install, Life!life
      <3> QED BY <2>1, <3>1, Zenon DEF Life!Pinned
    <2>4. CASE Life!Detach(u)
        BY <2>1, <2>4, Zenon DEF Life!Detach, Life!life, Life!hands, Life!Pinned
    <2> QED BY <1>2, <2>2, <2>3, <2>4, Zenon DEF Life!UserStep
  <1> QED BY <1>1, <1>2, Zenon

\* A teardown preserves the invariant, whoever runs it.
LEMMA TeardownHolds == ASSUME HoldInv, NEW a \in Life!Actors, Life!Teardown(a) PROVE HoldInv'
  <1> USE DropperActs DEF HoldInv, Held, EngineHeld, Emptied, Life!ModesExclude
  <1>1. CASE \/ Life!Borrow(a) \/ Life!Mark(a) \/ Life!EmitEnd(a) \/ Life!LowerFlag(a) \/ Life!Abort(a)
             \/ Life!TakePlanes(a) \/ Life!TakeEngine(a)
    <2>1. PICK place \in Life!TeardownSteps \cup {"idle"} :
             /\ pc[a] \in Life!TeardownSteps /\ pc' = [pc EXCEPT ![a] = place]
             /\ a = "drop" => place # "idle"
        BY <1>1 DEF Life!Borrow, Life!Mark, Life!EmitEnd, Life!LowerFlag, Life!Abort, Life!TakePlanes, Life!TakeEngine,
                    Life!After, Life!TeardownSteps
    <2>2. UNCHANGED <<handles, task>>
        BY <1>1, Zenon DEF Life!Borrow, Life!Mark, Life!EmitEnd, Life!LowerFlag, Life!Abort, Life!TakePlanes, Life!TakeEngine,
                    Life!life
    <2>3. /\ sender' \in {sender, "aborted"} /\ planes' \in {planes, {}} /\ quic' \in {quic, "none"}
          /\ UNCHANGED <<engine, slot>> \/ (slot' = FALSE /\ engine' = IF slot THEN "closed" ELSE engine)
        BY <1>1, Zenon DEF Life!Borrow, Life!Mark, Life!EmitEnd, Life!LowerFlag, Life!Abort, Life!TakePlanes, Life!TakeEngine,
                    Life!gear
    <2>4. Held'
      <3>1. "idle" \notin Life!TeardownSteps /\ "finished" \notin Life!TeardownSteps
          BY Zenon DEF Life!TeardownSteps
      <3>2. pc' \in [Life!Actors -> Life!TeardownSteps \cup {"idle", "attach", "finished"}]
          BY <2>1, Zenon
      <3>3. CASE a = "drop"
        <4>1. \A u \in Users : pc'[u] = pc[u]
            BY <2>1, <3>3, UsersAssumption, Zenon
        <4>2. handles = 0 /\ ~Life!Pinned(quic') /\ task \notin Life!Holding
            BY <2>1, <2>3, <3>1, <3>3, Zenon DEF Life!Pinned
        <4> QED BY <2>2, <3>2, <4>1, <4>2 DEF Life!Pinned
      <3>4. CASE a # "drop"
        <4>1. handles = 1 /\ pc'["drop"] = pc["drop"]
            BY <2>1, <3>1, <3>4 DEF Life!Actors, Life!Dropper
        <4> QED BY <2>2, <3>2, <4>1
      <3> QED BY <3>3, <3>4, Zenon
    <2>5. EngineHeld'
      <3>1. CASE UNCHANGED <<engine, slot>>
          BY <2>2, <3>1, Zenon
      <3>2. CASE slot' = FALSE /\ engine' = IF slot THEN "closed" ELSE engine
        <4>1. CASE slot
            BY <2>2, <3>2, <4>1, Zenon
        <4>2. CASE ~slot
            BY <2>2, <3>2, <4>2, Zenon
        <4> QED BY <4>1, <4>2, Zenon
      <3> QED BY <2>3, <3>1, <3>2, Zenon
    <2>6. Life!ModesExclude'
        BY <2>3, Zenon
    <2>7. Emptied'
      <3>1. pc'["drop"] = "finished" => pc["drop"] = "finished"
          BY <2>1, Zenon DEF Life!TeardownSteps
      <3> QED BY <2>3, <3>1, Zenon
    <2> QED BY <2>4, <2>5, <2>6, <2>7, Zenon
  <1>2. CASE Life!DropFields(a)
      BY <1>2, Zenon DEF Life!DropFields, Life!life, Life!TeardownSteps, Life!Pinned
  <1> QED BY <1>1, <1>2, Zenon DEF Life!Teardown

\* start_server and attach_tun never both succeed, for any number of threads, and once Drop
\* and the connect task are over no engine is open, no sender runs and no plane is left: the
\* teardown may return early (already_done), what it leaves then goes with the fields, and
\* what the connect task still held goes with the task (lib.rs, teardown, Drop).
THEOREM NothingOutlives == Life!Spec => []HoldsNoMore
  <1>1. Life!Init => HoldInv
      BY DropperActs, Zenon DEF Life!Init, HoldInv, Held, EngineHeld, Emptied, Life!ModesExclude
  <1>2. HoldInv /\ [Life!Next]_(Life!vars) => HoldInv'
    <2> SUFFICES ASSUME HoldInv, [Life!Next]_(Life!vars) PROVE HoldInv'
        BY Zenon
    <2>1. CASE Life!PeerComes \/ Life!PeerGoes \/ UNCHANGED Life!vars
      <3>1. UNCHANGED Grip
          BY <2>1, Zenon DEF Life!PeerComes, Life!PeerGoes, Life!vars, Life!life, Life!gear, Life!hands, Grip
      <3> QED BY <3>1, SameGrip, Zenon
    <2> QED BY <2>1, TaskHolds, QuicHolds, UsersHold, TeardownHolds, Zenon DEF Life!Next
  <1>3. HoldInv => HoldsNoMore
      BY Zenon DEF HoldInv, Held, EngineHeld, Emptied, HoldsNoMore, Life!HoldsNoMore, Life!DropReleases, Life!Released,
             Life!Dropper
  <1> QED BY <1>1, <1>2, <1>3, PTL DEF Life!Spec

-----------------------------------------------------------------------------
(* The QUIC client: QuicClient.                                              *)

\* A task that has claimed the channel has made a connection on it.
DialsMade ==
    /\ \A c \in Callers : at[c] \in {"handshake", "install"} => dial[<<"ensure", c>>] \in Dials
    /\ \A c \in Callers : keeper[c] \in {"handshake", "install"} => dial[<<"keeper", c>>] \in Dials

\* A caller's keeper starts as the caller's call ends.
SpawnsOnce == \A c \in Callers : at[c] # "done" => keeper[c] = "none"

\* connect_lock is held by the one call that is at work.
SingleFlight ==
    \A c \in Callers : at[c] \in Dialing \cup {"spawn"} => connect_lock = c

\* Somebody is on the way to fill the empty slot.
Filling ==
    \E c \in Callers : at[c] \in Dialing \/ keeper[c] \in Dialing \cup {"drop_channel"}

\* Once there was a connection, an empty slot is being filled.
EmptyIsFilled ==
    connected /\ quic_client = NoDial /\ (\E c \in Callers : keeper[c] # "none" \/ at[c] = "spawn")
        => Filling

\* The flag falls with the first step of the teardown.
TearingFlag == connected <=> tearing = "no"

IInv ==
    /\ TypeOK /\ DialsMade /\ SpawnsOnce /\ SingleFlight
    /\ TearingFlag /\ EmptyIsFilled /\ NeverUnkept

\* A task's place is its caller's entry in at or keeper.
LEMMA TaskFacts ==
    ASSUME NEW c \in Callers
    PROVE  /\ <<"ensure", c>> \in Tasks /\ <<"keeper", c>> \in Tasks
           /\ Place(<<"ensure", c>>) = at[c] /\ Place(<<"keeper", c>>) = keeper[c]
           /\ \A place : Goto(<<"ensure", c>>, place) =
                            (at' = [at EXCEPT ![c] = place] /\ UNCHANGED keeper)
           /\ \A place : Goto(<<"keeper", c>>, place) =
                            (keeper' = [keeper EXCEPT ![c] = place] /\ UNCHANGED at)
  BY Zenon DEF Tasks, Place, Goto

\* The initial states satisfy the invariant.
LEMMA InitIInv == Init => IInv
  <1> SUFFICES ASSUME Init PROVE IInv
      BY Zenon
  <1>1. TypeOK
    <2>1. connected \in BOOLEAN /\ answering \in BOOLEAN
        BY Zenon DEF Init
    <2>2. /\ at \in [Callers -> EnsurePlaces] /\ keeper \in [Callers -> KeeperPlaces]
          /\ dial \in [Tasks -> Dials \cup {NoDial}] /\ watched \in [Callers -> Dials \cup {NoDial}]
          /\ link \in [Dials -> {"none", "handshake", "up", "closed"}]
        BY SMT DEF Init, EnsurePlaces, KeeperPlaces
    <2>3. /\ tearing \in {"no", "client", "channel", "done"}
          /\ quic_client \in Dials \cup {NoDial} /\ quic_rx_tx \in Dials \cup {NoDial}
          /\ connect_lock \in Callers \cup {NoCaller} /\ losses \in Int
        BY SMT DEF Init
    <2> QED BY <2>1, <2>2, <2>3, Zenon DEF TypeOK
  <1>2. DialsMade /\ SpawnsOnce /\ SingleFlight
      BY Zenon DEF Init, DialsMade, SpawnsOnce, SingleFlight, Dialing
  <1>3. TearingFlag /\ EmptyIsFilled /\ NeverUnkept
      BY Zenon DEF Init, TearingFlag, EmptyIsFilled, NeverUnkept
  <1> QED BY <1>1, <1>2, <1>3, Zenon DEF IInv

\* A dial's steps stay within the dial, leave the shared slot and the flags alone, and touch
\* no other task (connect_quic_to_peer).
Dialled(t, place, dialnew) ==
    /\ Place(t) \in Dialing /\ place \in Dialing
    /\ Goto(t, place)
    /\ dialnew \in Dials \cup {NoDial}
    /\ dial' = [dial EXCEPT ![t] = dialnew]
    /\ place \in {"handshake", "install"} => dialnew \in Dials
    /\ quic_rx_tx' \in Dials \cup {NoDial}
    /\ link' \in [Dials -> {"none", "handshake", "up", "closed"}]
    /\ losses' \in Int
    /\ UNCHANGED <<connected, tearing, answering, quic_client, connect_lock, watched>>

\* Each of the four steps of connect_quic_to_peer is such a step.
LEMMA ConnectingDials ==
    ASSUME TypeOK, NEW t \in Tasks, Connecting(t),
           Place(t) \in {"handshake", "install"} => dial[t] \in Dials
    PROVE  \E place, dialnew : Dialled(t, place, dialnew)
  <1>0. dial = [dial EXCEPT ![t] = dial[t]] /\ dial[t] \in Dials \cup {NoDial}
      BY Zenon DEF TypeOK
  <1>1. CASE Claim(t)
    <2>1. CASE quic_rx_tx # NoDial
      <3>1. Dialled(t, "failed", dial[t])
          BY <1>0, <1>1, <2>1, Zenon DEF Claim, Dialled, Dialing, TypeOK
      <3> QED BY <3>1, Zenon
    <2>2. CASE quic_rx_tx = NoDial
      <3> DEFINE d == CHOOSE d \in Dials : Fresh(d)
      <3>1. d \in Dials
          BY <1>1, Zenon DEF Claim
      <3>2. /\ Goto(t, "handshake") /\ quic_rx_tx' = d
            /\ dial' = [dial EXCEPT ![t] = d] /\ link' = [link EXCEPT ![d] = "handshake"]
          BY <1>1, <2>2, Zenon DEF Claim
      <3> HIDE DEF d
      <3>3. Dialled(t, "handshake", d)
          BY <1>1, <3>1, <3>2, Zenon DEF Claim, Dialled, Dialing, TypeOK
      <3> QED BY <3>3, Zenon
    <2> QED BY <2>1, <2>2, Zenon
  <1>2. CASE Established(t)
    <2>1. Dialled(t, "install", dial[t])
        BY <1>0, <1>2, Zenon DEF Established, Dialled, Dialing, TypeOK
    <2> QED BY <2>1, Zenon
  <1>3. CASE TimesOut(t)
    <2>1. losses' \in Int
        BY <1>3 DEF TimesOut, TypeOK
    <2>2. Dialled(t, "cleanup", dial[t])
        BY <1>0, <1>3, <2>1, Zenon DEF TimesOut, Dialled, Dialing, TypeOK
    <2> QED BY <2>2, Zenon
  <1>4. CASE Cleanup(t)
    <2>1. Dialled(t, "failed", NoDial)
        BY <1>4, Zenon DEF Cleanup, Dialled, Dialing, TypeOK
    <2> QED BY <2>1, Zenon
  <1> QED BY <1>1, <1>2, <1>3, <1>4, Zenon DEF Connecting

\* The steps of an ensure call's dial preserve the invariant.
LEMMA EnsureDials ==
    ASSUME IInv, NEW c \in Callers, Connecting(<<"ensure", c>>)
    PROVE  IInv'
  <1> DEFINE t == <<"ensure", c>>
  <1>1. t \in Tasks /\ Place(t) = at[c]
      BY TaskFacts, Zenon
  <1>2. PICK place, dialnew : Dialled(t, place, dialnew)
      BY <1>1, ConnectingDials, Zenon DEF IInv, DialsMade
  <1>3. at' = [at EXCEPT ![c] = place] /\ keeper' = keeper
      BY <1>2, Zenon DEF Dialled, Goto
  <1>4. \A b \in Callers : <<"keeper", b>> # t /\ (b # c => <<"ensure", b>> # t)
      BY Zenon
  <1>5. TypeOK'
      BY <1>1, <1>2, <1>3, Zenon DEF IInv, TypeOK, Dialled, EnsurePlaces
  <1>6. DialsMade'
      BY <1>1, <1>2, <1>3, <1>4, TaskFacts, Zenon DEF IInv, DialsMade, TypeOK, Dialled
  <1>7. SpawnsOnce' /\ SingleFlight'
      BY <1>1, <1>2, <1>3 DEF IInv, SpawnsOnce, SingleFlight, TypeOK, Dialled, Dialing
  <1>8. TearingFlag'
      BY <1>2, Zenon DEF IInv, TearingFlag, Dialled
  <1>9. Filling' /\ Kept'
      BY <1>2, <1>3, Zenon DEF IInv, TypeOK, Dialled, Filling, Kept
  <1> QED BY <1>5, <1>6, <1>7, <1>8, <1>9, Zenon DEF IInv, EmptyIsFilled, NeverUnkept

\* The steps of a keeper's dial preserve the invariant.
LEMMA KeeperDials ==
    ASSUME IInv, NEW c \in Callers, Connecting(<<"keeper", c>>)
    PROVE  IInv'
  <1> DEFINE t == <<"keeper", c>>
  <1>1. t \in Tasks /\ Place(t) = keeper[c]
      BY TaskFacts, Zenon
  <1>2. PICK place, dialnew : Dialled(t, place, dialnew)
      BY <1>1, ConnectingDials, Zenon DEF IInv, DialsMade
  <1>3. keeper' = [keeper EXCEPT ![c] = place] /\ at' = at
      BY <1>2, Zenon DEF Dialled, Goto
  <1>4. \A b \in Callers : <<"ensure", b>> # t /\ (b # c => <<"keeper", b>> # t)
      BY Zenon
  <1>5. TypeOK'
      BY <1>1, <1>2, <1>3, Zenon DEF IInv, TypeOK, Dialled, KeeperPlaces
  <1>6. DialsMade'
      BY <1>1, <1>2, <1>3, <1>4, TaskFacts, Zenon DEF IInv, DialsMade, TypeOK, Dialled
  <1>7. SpawnsOnce' /\ SingleFlight'
      BY <1>1, <1>2, <1>3, Zenon DEF IInv, SpawnsOnce, SingleFlight, TypeOK, Dialled, Dialing
  <1>8. TearingFlag'
      BY <1>2, Zenon DEF IInv, TearingFlag, Dialled
  <1>9. Filling' /\ Kept'
      BY <1>2, <1>3, Zenon DEF IInv, TypeOK, Dialled, Filling, Kept, Dialing
  <1> QED BY <1>5, <1>6, <1>7, <1>8, <1>9, Zenon DEF IInv, EmptyIsFilled, NeverUnkept

\* The other steps of an ensure call preserve the invariant (ensure_quic_client).
LEMMA EnsureCalls ==
    ASSUME IInv, NEW c \in Callers,
           \/ FastPath(c) \/ Acquire(c) \/ EnsureTop(c) \/ EnsureRetries(c) \/ SpawnKeeper(c)
    PROVE  IInv'
  <1>1. /\ at' \in [Callers -> EnsurePlaces] /\ keeper' \in [Callers -> KeeperPlaces]
        /\ connect_lock' \in Callers \cup {NoCaller}
        /\ UNCHANGED <<connected, tearing, answering, quic_client, quic_rx_tx, dial, watched, link, losses>>
      BY Zenon DEF IInv, TypeOK, EnsurePlaces, KeeperPlaces, Dialing,
             FastPath, Acquire, EnsureTop, EnsureRetries, SpawnKeeper
  <1>2. TypeOK'
      BY <1>1, Zenon DEF IInv, TypeOK
  <1>3. DialsMade'
      BY <1>1, Zenon DEF IInv, TypeOK, DialsMade, FastPath, Acquire, EnsureTop, EnsureRetries, SpawnKeeper
  <1>4. SpawnsOnce'
      BY Zenon DEF IInv, TypeOK, SpawnsOnce, FastPath, Acquire, EnsureTop, EnsureRetries, SpawnKeeper
  <1>5. SingleFlight'
      BY NamesAssumption DEF IInv, TypeOK, SingleFlight, Dialing,
             FastPath, Acquire, EnsureTop, EnsureRetries, SpawnKeeper
  <1>6. TearingFlag'
      BY <1>1, Zenon DEF IInv, TearingFlag
  <1>7. EmptyIsFilled' /\ NeverUnkept'
    <2>1. CASE FastPath(c)
        BY <2>1, Zenon DEF FastPath, IInv, TypeOK, EmptyIsFilled, NeverUnkept, Filling, Kept, Dialing
    <2>2. CASE Acquire(c)
        BY <2>2 DEF Acquire, IInv, TypeOK, EmptyIsFilled, NeverUnkept, Filling, Kept, Dialing
    <2>3. CASE EnsureTop(c)
        BY <2>3, Zenon DEF EnsureTop, IInv, TypeOK, EmptyIsFilled, NeverUnkept, Filling, Kept, Dialing
    <2>4. CASE EnsureRetries(c)
        BY <2>4, Zenon DEF EnsureRetries, IInv, TypeOK, EmptyIsFilled, NeverUnkept, Filling, Kept, Dialing
    <2>5. CASE SpawnKeeper(c)
      <3>1. keeper[c] = "none" /\ at[c] = "spawn"
          BY <2>5, Zenon DEF SpawnKeeper, IInv, SpawnsOnce
      <3>2. EmptyIsFilled'
          BY <2>5, <3>1, Zenon DEF SpawnKeeper, IInv, TypeOK, EmptyIsFilled, Filling, Dialing
      <3>3. Kept'
          BY <2>5, Zenon DEF SpawnKeeper, IInv, TypeOK, Kept
      <3> QED BY <3>2, <3>3, Zenon DEF NeverUnkept
    <2> QED BY <2>1, <2>2, <2>3, <2>4, <2>5, Zenon
  <1> QED BY <1>2, <1>3, <1>4, <1>5, <1>6, <1>7, Zenon DEF IInv

\* Installing a connection preserves the invariant: the slot is full afterwards.
LEMMA Installs ==
    ASSUME IInv, NEW c \in Callers, EnsureInstalls(c) \/ KeeperInstalls(c)
    PROVE  IInv'
  <1>1. CASE EnsureInstalls(c)
    <2>1. /\ at[c] = "install" /\ at' = [at EXCEPT ![c] = "spawn"] /\ keeper' = keeper
          /\ dial' = [dial EXCEPT ![<<"ensure", c>>] = NoDial] /\ quic_client' = dial[<<"ensure", c>>]
          /\ UNCHANGED <<connected, tearing, answering, quic_rx_tx, connect_lock, watched, link, losses>>
        BY <1>1, TaskFacts, Zenon DEF EnsureInstalls, Installed, Goto
    <2>2. quic_client' \in Dials
        BY <2>1, Zenon DEF IInv, DialsMade
    <2>3. TypeOK'
        BY <2>1, <2>2, Zenon DEF IInv, TypeOK, EnsurePlaces
    <2>4. DialsMade'
      <3>1. \A b \in Callers : <<"keeper", b>> # <<"ensure", c>> /\ (b # c => <<"ensure", b>> # <<"ensure", c>>)
          BY Zenon
      <3> QED BY <2>1, <3>1, TaskFacts, Zenon DEF IInv, TypeOK, DialsMade
    <2>5. SpawnsOnce' /\ SingleFlight' /\ Kept'
        BY <2>1, Zenon DEF IInv, TypeOK, SpawnsOnce, SingleFlight, Kept, Dialing
    <2>6. TearingFlag'
        BY <2>1, Zenon DEF IInv, TearingFlag
    <2> QED BY <2>2, <2>3, <2>4, <2>5, <2>6, NamesAssumption, Zenon DEF IInv, EmptyIsFilled, NeverUnkept
  <1>2. CASE KeeperInstalls(c)
    <2>1. /\ keeper[c] = "install" /\ keeper' = [keeper EXCEPT ![c] = "read"] /\ at' = at
          /\ dial' = [dial EXCEPT ![<<"keeper", c>>] = NoDial] /\ quic_client' = dial[<<"keeper", c>>]
          /\ UNCHANGED <<connected, tearing, answering, quic_rx_tx, connect_lock, watched, link, losses>>
        BY <1>2, TaskFacts, Zenon DEF KeeperInstalls, Installed, Goto
    <2>2. quic_client' \in Dials
        BY <2>1, Zenon DEF IInv, DialsMade
    <2>3. TypeOK'
        BY <2>1, <2>2, Zenon DEF IInv, TypeOK, KeeperPlaces
    <2>4. DialsMade'
      <3>1. \A b \in Callers : <<"ensure", b>> # <<"keeper", c>> /\ (b # c => <<"keeper", b>> # <<"keeper", c>>)
          BY Zenon
      <3> QED BY <2>1, <3>1, TaskFacts, Zenon DEF IInv, TypeOK, DialsMade
    <2>5. SpawnsOnce' /\ SingleFlight' /\ Kept'
        BY <2>1, Zenon DEF IInv, TypeOK, SpawnsOnce, SingleFlight, Kept, Dialing
    <2>6. TearingFlag'
        BY <2>1, Zenon DEF IInv, TearingFlag
    <2> QED BY <2>2, <2>3, <2>4, <2>5, <2>6, NamesAssumption, Zenon DEF IInv, EmptyIsFilled, NeverUnkept
  <1> QED BY <1>1, <1>2, Zenon

\* The keeper's steps around its dial preserve the invariant (keeper_task).  A keeper ends
\* early only when it reads an empty slot, and an empty slot is being filled by another.
LEMMA KeeperSteps ==
    ASSUME IInv, NEW c \in Callers,
           \/ KeeperReads(c) \/ KeeperWakes(c) \/ DropClient(c)
           \/ DropChannel(c) \/ KeeperTop(c) \/ KeeperRetries(c)
    PROVE  IInv'
  <1>1. /\ keeper[c] \notin {"none", "handshake", "install"} /\ at' = at
        /\ keeper' \in [Callers -> KeeperPlaces]
        /\ \A b \in Callers \ {c} : keeper'[b] = keeper[b]
        /\ keeper'[c] \notin {"none", "handshake", "install"}
        /\ UNCHANGED <<connected, tearing, answering, connect_lock, dial, link, losses>>
      BY Zenon DEF IInv, TypeOK, KeeperPlaces, Dialing,
             KeeperReads, KeeperWakes, DropClient, DropChannel, KeeperTop, KeeperRetries
  <1>2. /\ quic_client' \in Dials \cup {NoDial} /\ quic_rx_tx' \in Dials \cup {NoDial}
        /\ watched' \in [Callers -> Dials \cup {NoDial}]
      BY DEF IInv, TypeOK, KeeperReads, KeeperWakes, DropClient, DropChannel, KeeperTop, KeeperRetries
  <1>3. TypeOK'
      BY <1>1, <1>2, Zenon DEF IInv, TypeOK
  <1>4. DialsMade' /\ SpawnsOnce' /\ SingleFlight'
      BY <1>1, Zenon DEF IInv, DialsMade, SpawnsOnce, SingleFlight
  <1>5. TearingFlag'
      BY <1>1, Zenon DEF IInv, TearingFlag
  <1>6. EmptyIsFilled' /\ NeverUnkept'
    <2>1. CASE KeeperReads(c)
      <3>1. keeper[c] = "read" /\ quic_client' = quic_client
          BY <2>1, Zenon DEF KeeperReads
      <3>2. CASE quic_client = NoDial
        <4>1. SUFFICES ASSUME connected PROVE Filling'
            BY <1>1, Zenon DEF EmptyIsFilled, NeverUnkept, Filling, Kept, Dialing
        <4>2. Filling
            BY <3>1, <3>2, <4>1, Zenon DEF IInv, EmptyIsFilled
        <4> QED BY <1>1, <3>1, <4>2, Zenon DEF Filling, Dialing
      <3>3. CASE quic_client # NoDial
        <4>1. keeper'[c] = "watch"
            BY <2>1, <3>3, Zenon DEF KeeperReads, IInv, TypeOK
        <4> QED BY <3>1, <3>3, <4>1, Zenon DEF EmptyIsFilled, NeverUnkept, Kept
      <3> QED BY <3>2, <3>3, Zenon
    <2>2. CASE KeeperWakes(c)
        BY <2>2 DEF KeeperWakes, IInv, TypeOK, EmptyIsFilled, NeverUnkept, Filling, Kept, Dialing
    <2>3. CASE DropClient(c) \/ DropChannel(c) \/ KeeperRetries(c)
      <3>1. keeper'[c] \in {"drop_channel", "top"}
          BY <2>3, Zenon DEF DropClient, DropChannel, KeeperRetries, IInv, TypeOK
      <3> QED BY <3>1, Zenon DEF EmptyIsFilled, NeverUnkept, Filling, Kept, Dialing
    <2>4. CASE KeeperTop(c)
      <3>1. connected => keeper'[c] = "claim"
          BY <2>4, Zenon DEF KeeperTop, IInv, TypeOK
      <3> QED BY <1>1, <3>1, Zenon DEF EmptyIsFilled, NeverUnkept, Filling, Kept, Dialing
    <2> QED BY <2>1, <2>2, <2>3, <2>4, Zenon
  <1> QED BY <1>3, <1>4, <1>5, <1>6, Zenon DEF IInv

\* The teardown, the peer and the network preserve the invariant.
LEMMA Surroundings ==
    ASSUME IInv, Teardown \/ PeerStarts \/ \E d \in Dials : Starves(d) \/ Lost(d)
    PROVE  IInv'
  <1>1. CASE Teardown
    <2>1. ~connected' /\ tearing' # "no" /\ tearing' \in {"no", "client", "channel", "done"}
        BY <1>1 DEF Teardown, IInv, TearingFlag
    <2>2. /\ quic_client' \in Dials \cup {NoDial} /\ quic_rx_tx' \in Dials \cup {NoDial}
          /\ UNCHANGED <<answering, connect_lock, at, keeper, dial, watched, link, losses>>
        BY <1>1, Zenon DEF Teardown, IInv, TypeOK
    <2>3. connected' \in BOOLEAN
        BY <1>1, Zenon DEF Teardown, IInv, TypeOK
    <2>4. TypeOK'
        BY <2>1, <2>2, <2>3, Zenon DEF IInv, TypeOK
    <2>5. DialsMade' /\ SpawnsOnce' /\ SingleFlight'
        BY <2>2, Zenon DEF IInv, DialsMade, SpawnsOnce, SingleFlight
    <2> QED BY <2>1, <2>4, <2>5, Zenon DEF IInv, TearingFlag, EmptyIsFilled, NeverUnkept
  <1>2. CASE PeerStarts \/ \E d \in Dials : Starves(d) \/ Lost(d)
    <2>1. UNCHANGED <<connected, tearing, quic_client, quic_rx_tx, connect_lock, at, keeper, dial, watched>>
        BY <1>2, Zenon DEF PeerStarts, Starves, Lost
    <2>2. answering' \in BOOLEAN
        BY <1>2, Zenon DEF PeerStarts, Starves, Lost, IInv, TypeOK
    <2>3. link' \in [Dials -> {"none", "handshake", "up", "closed"}] /\ losses' \in Int
        BY <1>2 DEF PeerStarts, Starves, Lost, IInv, TypeOK
    <2>4. TypeOK'
        BY <2>1, <2>2, <2>3, Zenon DEF IInv, TypeOK
    <2> QED BY <2>1, <2>4, Zenon DEF IInv, DialsMade, SpawnsOnce, SingleFlight, TearingFlag, EmptyIsFilled,
                Filling, NeverUnkept, Kept
  <1> QED BY <1>1, <1>2, Zenon

\* Every step preserves the invariant.
LEMMA NextIInv == IInv /\ [Next]_vars => IInv'
  <1> SUFFICES ASSUME IInv, [Next]_vars PROVE IInv'
      BY Zenon
  <1>1. ASSUME NEW c \in Callers, Ensure(c) PROVE IInv'
      BY <1>1, EnsureDials, EnsureCalls, Installs, Zenon DEF Ensure
  <1>2. ASSUME NEW c \in Callers, Keep(c) PROVE IInv'
      BY <1>2, KeeperDials, KeeperSteps, Installs, Zenon DEF Keep
  <1>3. CASE UNCHANGED vars
    <2>1. UNCHANGED <<connected, tearing, answering, quic_client, quic_rx_tx, connect_lock,
                      at, keeper, dial, watched, link, losses>>
        BY <1>3, Zenon DEF vars
    <2> QED BY <2>1 DEF IInv, TypeOK, DialsMade, SpawnsOnce, SingleFlight, TearingFlag, EmptyIsFilled,
                Filling, NeverUnkept, Kept
  <1> QED BY <1>1, <1>2, <1>3, Surroundings, Zenon DEF Next

\* As long as the tunnel is up and one ensure_quic_client call has succeeded, a task is left
\* that watches the connection or dials a new one, for any number of calls, keepers and
\* losses: a keeper that finds the slot empty may return, since another one emptied it and
\* is on its way to fill it (keeper_task, quic_tunnel.rs).
THEOREM KeeperRemains == Spec => []NeverUnkept
  <1>1. IInv => NeverUnkept
      BY Zenon DEF IInv
  <1> QED BY <1>1, InitIInv, NextIInv, PTL DEF Spec

\* At most one ensure_quic_client call dials at a time, whoever else dials (connect_lock).
THEOREM OneCallDials == Spec => []SingleFlight
  <1>1. IInv => SingleFlight
      BY Zenon DEF IInv
  <1> QED BY <1>1, InitIInv, NextIInv, PTL DEF Spec
=============================================================================
