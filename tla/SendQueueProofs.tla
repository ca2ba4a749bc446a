-------------------------- MODULE SendQueueProofs --------------------------
(***************************************************************************)
(* Proofs about the outbound path for any set of producers, any packet      *)
(* sizes and any queue bounds, and about the TUN bridge for any capacity.    *)
(***************************************************************************)
EXTENDS MCSendQueue, SequenceTheorems, TLAPS

\* What the sender task holds at each place.
Holding ==
    /\ sender \in {"recv", "wake", "gone"} => packed = 0 /\ batch = 0
    /\ sender \in {"packing", "overflow", "flush"} => packed > 0 /\ batch > 0
    /\ sender = "overflow" => next \in Sizes

\* The inductive invariant.
IInv == TypeOK /\ Holding /\ NoLostWakeup /\ NothingLost /\ FrameFits

\* The first packet of a non-empty queue is a size, and taking it shortens the queue by one.
LEMMA PopFront ==
    ASSUME NEW q \in Seq(Sizes), q # <<>>
    PROVE  Head(q) \in Sizes /\ Tail(q) \in Seq(Sizes) /\ Len(Tail(q)) = Len(q) - 1 /\ Len(q) \in Nat \ {0}
  BY HeadTailProperties, EmptySeq, LenProperties

\* A queued packet is last in a queue that is longer by one and not empty.
LEMMA PushBack ==
    ASSUME NEW q \in Seq(Sizes), NEW size \in Sizes
    PROVE  Append(q, size) \in Seq(Sizes) /\ Len(Append(q, size)) = Len(q) + 1 /\ Append(q, size) # <<>>
  BY AppendProperties

\* The empty queue has length zero, and no other has.
LEMMA EmptyQueue ==
    /\ <<>> \in Seq(Sizes) /\ Len(<<>>) = 0
    /\ \A q \in Seq(Sizes) : Len(q) \in Nat /\ (Len(q) = 0 <=> q = <<>>)
  BY EmptySeq, LenProperties

LEMMA InitIInv == Init => IInv
  <1> SUFFICES ASSUME Init PROVE IInv
      OBVIOUS
  <1>1. TypeOK
      <2>1. queue \in Seq(Sizes) /\ Len(queue) <= Cap /\ track \in 0 .. TrackCap
          BY EmptyQueue, CapAssumption DEF Init
      <2> QED BY <2>1 DEF Init, TypeOK, SenderPlaces
  <1>2. Holding /\ NoLostWakeup /\ NothingLost /\ FrameFits
      BY EmptyQueue DEF Init, Holding, NoLostWakeup, NothingLost, FrameFits
  <1> QED
      BY <1>1, <1>2 DEF IInv

\* Every step of the producers, the sender task, the track and teardown keeps it.
LEMMA NextIInv == IInv /\ [Next]_vars => IInv'
  <1> SUFFICES ASSUME IInv, [Next]_vars PROVE IInv'
      OBVIOUS
  <1> USE CapAssumption, SizesAssumption
  <1>0. TypeOK /\ Holding /\ NoLostWakeup /\ NothingLost /\ FrameFits /\ Len(queue) \in Nat
      BY EmptyQueue DEF IInv, TypeOK
  <1>1. ASSUME NEW p \in Producers, Check(p) PROVE IInv'
      BY <1>0, <1>1 DEF Check, Move, IInv, TypeOK, Holding, NoLostWakeup, NothingLost, FrameFits
  <1>2. ASSUME NEW p \in Producers, NEW size \in Sizes, Enqueue(p, size) PROVE IInv'
      <2>1. TypeOK' /\ NothingLost'
          BY <1>0, <1>2, PushBack DEF Enqueue, Move, TypeOK, NothingLost
      <2>2. Holding' /\ NoLostWakeup' /\ FrameFits'
          BY <1>0, <1>2, PushBack DEF Enqueue, Move, TypeOK, Holding, NoLostWakeup, FrameFits
      <2> QED BY <2>1, <2>2 DEF IInv
  <1>3. ASSUME NEW p \in Producers, Refuse(p) \/ RefuseClosed(p) \/ Resume(p) PROVE IInv'
      BY <1>0, <1>3 DEF Refuse, RefuseClosed, Resume, Move, IInv, TypeOK, Holding, NoLostWakeup, NothingLost, FrameFits
  <1>4. ASSUME NEW p \in Producers, Register(p) PROVE IInv'
      <2>1. TypeOK' /\ Holding' /\ NothingLost' /\ FrameFits'
          BY <1>0, <1>4 DEF Register, Move, TypeOK, Holding, NothingLost, FrameFits
      <2>2. NoLostWakeup'
          BY <1>0, <1>4, EmptyQueue DEF Register, Move, TypeOK, NoLostWakeup
      <2> QED BY <2>1, <2>2 DEF IInv
  <1>5. CASE SenderRecv
      <2> DEFINE h == Head(queue)  t == Tail(queue)
      <2>1. h \in Sizes /\ t \in Seq(Sizes) /\ Len(t) = Len(queue) - 1 /\ h \in Nat \ {0}
          BY <1>0, <1>5, PopFront DEF SenderRecv, TypeOK
      <2>2. queue' = t
          BY <1>5 DEF SenderRecv
      <2> HIDE DEF h, t
      <2>3. TypeOK' /\ Holding' /\ FrameFits'
          <3>1. queue' \in Seq(Sizes) /\ Len(queue') <= Cap
              BY <1>0, <2>1, <2>2 DEF TypeOK
          <3>2. batch' \in Nat /\ packed' \in Nat /\ next' \in Sizes \cup {0}
              BY <1>0, <1>5, <2>1 DEF SenderRecv, TypeOK, h
          <3>3. TypeOK'
              BY <1>0, <1>5, <3>1, <3>2 DEF SenderRecv, TypeOK, SenderPlaces
          <3>4. Holding' /\ FrameFits'
              BY <1>0, <1>5, <2>1 DEF SenderRecv, TypeOK, Holding, FrameFits, h
          <3> QED BY <3>3, <3>4
      <2>4. NothingLost'
          BY <1>0, <1>5, <2>1, <2>2 DEF SenderRecv, TypeOK, Holding, NothingLost
      <2>5. NoLostWakeup'
          BY <1>5 DEF SenderRecv, NoLostWakeup
      <2> QED BY <2>3, <2>4, <2>5 DEF IInv
  <1>6. CASE SenderPacks
      <2> DEFINE h == Head(queue)  t == Tail(queue)
      <2>1. h \in Sizes /\ t \in Seq(Sizes) /\ Len(t) = Len(queue) - 1 /\ h \in Nat \ {0}
          BY <1>0, <1>6, PopFront DEF SenderPacks, TypeOK
      <2>2. queue' = t
          BY <1>6 DEF SenderPacks
      <2> HIDE DEF h, t
      <2>3. TypeOK' /\ Holding' /\ FrameFits'
          <3>1. queue' \in Seq(Sizes) /\ Len(queue') <= Cap
              BY <1>0, <2>1, <2>2 DEF TypeOK
          <3>2. batch' \in Nat /\ packed' \in Nat /\ next' \in Sizes \cup {0}
              BY <1>0, <1>6, <2>1 DEF SenderPacks, TypeOK, h
          <3>3. TypeOK'
              BY <1>0, <1>6, <3>1, <3>2 DEF SenderPacks, TypeOK, SenderPlaces
          <3>4. Holding' /\ FrameFits'
              BY <1>0, <1>6, <2>1 DEF SenderPacks, Fits, TypeOK, Holding, FrameFits, h
          <3> QED BY <3>3, <3>4
      <2>4. NothingLost'
          BY <1>0, <1>6, <2>1, <2>2 DEF SenderPacks, TypeOK, Holding, NothingLost
      <2>5. NoLostWakeup'
          BY <1>6 DEF SenderPacks, NoLostWakeup
      <2> QED BY <2>3, <2>4, <2>5 DEF IInv
  <1>7. CASE SenderOverflows
      <2> DEFINE h == Head(queue)  t == Tail(queue)
      <2>1. h \in Sizes /\ t \in Seq(Sizes) /\ Len(t) = Len(queue) - 1 /\ h \in Nat \ {0}
          BY <1>0, <1>7, PopFront DEF SenderOverflows, TypeOK
      <2>2. queue' = t
          BY <1>7 DEF SenderOverflows
      <2> HIDE DEF h, t
      <2>3. TypeOK' /\ Holding' /\ FrameFits'
          <3>1. queue' \in Seq(Sizes) /\ Len(queue') <= Cap
              BY <1>0, <2>1, <2>2 DEF TypeOK
          <3>2. batch' \in Nat /\ packed' \in Nat /\ next' \in Sizes \cup {0}
              BY <1>0, <1>7, <2>1 DEF SenderOverflows, TypeOK, h
          <3>3. TypeOK'
              BY <1>0, <1>7, <3>1, <3>2 DEF SenderOverflows, TypeOK, SenderPlaces
          <3>4. Holding' /\ FrameFits'
              BY <1>0, <1>7, <2>1 DEF SenderOverflows, TypeOK, Holding, FrameFits, h
          <3> QED BY <3>3, <3>4
      <2>4. NothingLost'
          BY <1>0, <1>7, <2>1, <2>2 DEF SenderOverflows, TypeOK, Holding, NothingLost
      <2>5. NoLostWakeup'
          BY <1>7 DEF SenderOverflows, NoLostWakeup
      <2> QED BY <2>3, <2>4, <2>5 DEF IInv
  <1>8. CASE FlushOverflow
      BY <1>0, <1>8 DEF FlushOverflow, IInv, TypeOK, SenderPlaces, Holding, NoLostWakeup, NothingLost, FrameFits
  <1>9. CASE SenderSeesEmpty \/ Flush
      BY <1>0, <1>9 DEF SenderSeesEmpty, Flush, IInv, TypeOK, SenderPlaces, Holding, NoLostWakeup, NothingLost, FrameFits
  <1>10. CASE SenderWakes \/ WakeAll
      BY <1>0, <1>10 DEF SenderWakes, WakeAll, WakeParked, IInv, TypeOK, SenderPlaces, Holding, NoLostWakeup, NothingLost, FrameFits
  <1>11. CASE SenderDies
      BY <1>0, <1>11, EmptyQueue DEF SenderDies, IInv, TypeOK, SenderPlaces, Holding, NoLostWakeup, NothingLost, FrameFits
  <1>12. CASE TrackWrites
      BY <1>0, <1>12 DEF TrackWrites, IInv, TypeOK, Holding, NoLostWakeup, NothingLost, FrameFits
  <1>14. CASE LowerFlag \/ AbortSender
      <2>1. TypeOK' /\ Holding' /\ NothingLost' /\ FrameFits'
          BY <1>0, <1>14 DEF LowerFlag, AbortSender, TypeOK, Holding, NothingLost, FrameFits
      <2>2. NoLostWakeup'
          BY <1>0, <1>14 DEF LowerFlag, AbortSender, NoLostWakeup
      <2> QED BY <2>1, <2>2 DEF IInv
  <1>13. CASE UNCHANGED vars
      BY <1>0, <1>13 DEF vars, IInv, TypeOK, Holding, NoLostWakeup, NothingLost, FrameFits
  <1> QED
      BY <1>1, <1>2, <1>3, <1>4, <1>5, <1>6, <1>7, <1>8, <1>9, <1>10, <1>11, <1>12, <1>13, <1>14
      DEF Next, Finish, SenderStep, TeardownStep

LEMMA Inductive == Spec => []IInv
  BY InitIInv, NextIInv, PTL DEF Spec

\* The queues keep their bounds, whatever the producers do.
THEOREM TypeCorrect == Spec => []TypeOK
  BY Inductive, PTL DEF IInv

\* No registration of a drain callback is missed by the sender task.
THEOREM WakeupsAreNotLost == Spec => []NoLostWakeup
  BY Inductive, PTL DEF IInv

\* An accepted packet reaches the track or is still on its way.
THEOREM AcceptedIsCarried == Spec => []NothingLost
  BY Inductive, PTL DEF IInv

\* Frames of several packets respect the carrier's limit.
THEOREM FramesFit == Spec => []FrameFits
  BY Inductive, PTL DEF IInv
-----------------------------------------------------------------------------
(* The TUN bridge                                                            *)

\* A bridge reads only when it is not paused, and then it is registered for reads.
Registered ==
    /\ reading => tun /\ ~paused
    /\ tun /\ ~paused => "R" \in interest

Counts ==
    /\ attached \in Nat /\ rx \in Nat /\ pending \in 0 .. MAX_PENDING_TX_PKTS
    /\ parked \in Nat /\ posted \in Nat
    /\ interest \subseteq {"R", "W"} /\ event \subseteq {"R", "W"}

TunInv == Tun!TypeOK /\ Registered /\ TunFlows

\* Registering again gives the interest that the bridge's state asks for, and a report if
\* the device is ready for any of it.
LEMMA RefreshReports ==
    ASSUME Tun!refresh_interest, rx' \in Nat, pending' \in Nat
    PROVE  /\ interest' \subseteq {"R", "W"}
           /\ ~paused' => "R" \in interest' /\ (rx' > 0 => triggered')
           /\ pending' > 0 => "W" \in interest' /\ (writable' => triggered')
  <1>1. /\ interest' \subseteq {"R", "W"}
        /\ ~paused' => "R" \in interest'
        /\ pending' > 0 => "W" \in interest'
      BY DEF Tun!refresh_interest, Tun!Interest
  <1>2. /\ rx' > 0 /\ "R" \in interest' => Tun!Ready(interest', rx', writable') # {}
        /\ writable' /\ "W" \in interest' => Tun!Ready(interest', rx', writable') # {}
      BY DEF Tun!Ready
  <1>3. triggered' = (triggered \/ Tun!Ready(interest', rx', writable') # {})
      BY DEF Tun!refresh_interest
  <1>4. Tun!Ready(interest', rx', writable') # {} => triggered'
      BY <1>3
  <1> QED
      BY <1>1, <1>2, <1>4

\* What a drain leaves: a queue that is no longer, and either a write error and the
\* registration as it was, or a new registration.
LEMMA DrainLeaves ==
    ASSUME NEW n \in Nat, Tun!drain(n)
    PROVE  /\ pending' \in 0 .. n
           /\ \/ failed' /\ writable' = writable /\ interest' = interest /\ triggered' = triggered
              \/ Tun!refresh_interest
  <1>1. pending' \in 0 .. n
      <2>1. pending' = 0 \/ \E k \in 0 .. n - 1 : pending' = n - k
          BY DEF Tun!drain
      <2> QED
          BY <2>1
  <1>2. \/ failed' /\ writable' = writable /\ interest' = interest /\ triggered' = triggered
        \/ Tun!refresh_interest
      BY DEF Tun!drain
  <1> QED
      BY <1>1, <1>2

\* An injected packet is dropped at the cap or written with the others.
LEMMA InjectLeaves ==
    ASSUME Counts, Tun!inject
    PROVE  /\ pending' \in 0 .. MAX_PENDING_TX_PKTS
           /\ \/ UNCHANGED <<interest, triggered, writable>> /\ (UNCHANGED <<pending, failed>> \/ failed')
              \/ Tun!refresh_interest
  <1>1. CASE pending >= MAX_PENDING_TX_PKTS
      BY <1>1 DEF Counts, Tun!inject
  <1>2. CASE ~(pending >= MAX_PENDING_TX_PKTS)
      <2>1. Tun!drain(pending + 1) /\ pending + 1 \in Nat /\ pending + 1 <= MAX_PENDING_TX_PKTS
          BY <1>2, PendingAssumption DEF Counts, Tun!inject
      <2>2. /\ pending' \in 0 .. pending + 1
            /\ \/ failed' /\ writable' = writable /\ interest' = interest /\ triggered' = triggered
               \/ Tun!refresh_interest
          BY <2>1, DrainLeaves
      <2>3. pending' \in 0 .. MAX_PENDING_TX_PKTS
          BY <2>1, <2>2, PendingAssumption DEF Counts
      <2> QED
          BY <2>2, <2>3
  <1> QED
      BY <1>1, <1>2

LEMMA TunInit == Tun!Init => TunInv
  <1> SUFFICES ASSUME Tun!Init PROVE TunInv
      OBVIOUS
  <1>1. Tun!Flags
      BY DEF Tun!Init, Tun!Flags
  <1>2. Counts
      BY PendingAssumption DEF Tun!Init, Counts
  <1>3. Registered /\ TunFlows
      BY DEF Tun!Init, Registered, TunFlows, Tun!TunFlows
  <1> QED
      BY <1>1, <1>2, <1>3 DEF TunInv, Tun!TypeOK, Counts

\* The flags stay Boolean.
LEMMA FlagsKept == Tun!Flags /\ [Tun!Next]_Tun!vars => Tun!Flags'
  <1> SUFFICES ASSUME Tun!Flags, [Tun!Next]_Tun!vars PROVE Tun!Flags'
      OBVIOUS
  <1> USE DEF Tun!Flags, Tun!vars, Tun!device, Tun!bridge, Tun!wakes
  <1>1. ASSUME Tun!refresh_interest PROVE triggered' \in BOOLEAN
      BY <1>1 DEF Tun!refresh_interest
  <1>2. ASSUME NEW n, Tun!drain(n) PROVE triggered' \in BOOLEAN /\ writable' \in BOOLEAN /\ failed' \in BOOLEAN
      BY <1>1, <1>2 DEF Tun!drain
  <1>3. ASSUME Tun!inject PROVE triggered' \in BOOLEAN /\ writable' \in BOOLEAN /\ failed' \in BOOLEAN
      BY <1>2, <1>3 DEF Tun!inject
  <1>4. CASE Tun!PacketArrives \/ Tun!DeviceTakes \/ Tun!Poll \/ Tun!attach \/ Tun!detach \/ Tun!SendDrained
      BY <1>4 DEF Tun!PacketArrives, Tun!DeviceTakes, Tun!Poll, Tun!attach, Tun!detach, Tun!SendDrained
  <1>5. CASE Tun!inject_inbound_ip \/ Tun!on_event
      BY <1>2, <1>3, <1>5 DEF Tun!inject_inbound_ip, Tun!on_event
  <1>6. CASE Tun!on_readable
      BY <1>1, <1>3, <1>6 DEF Tun!on_readable, Tun!ReadPasses, Tun!ReadRejects, Tun!ReadPauses, Tun!ReadEnds,
          Tun!ReadFails
  <1>7. CASE Tun!resume
      BY <1>1, <1>7 DEF Tun!resume
  <1>8. CASE UNCHANGED Tun!vars
      BY <1>8
  <1> QED
      BY <1>4, <1>5, <1>6, <1>7, <1>8 DEF Tun!Next

\* A new registration restores what TunFlows says of reads and writes.
LEMMA RefreshFlows ==
    ASSUME Tun!refresh_interest, rx' \in Nat, pending' \in Nat,
           reading' => tun' /\ ~paused',
           paused' /\ ~broken' => parked' + posted' > 0
    PROVE  Registered' /\ TunFlows' /\ interest' \subseteq {"R", "W"}
  <1>1. /\ interest' \subseteq {"R", "W"}
        /\ ~paused' => "R" \in interest' /\ (rx' > 0 => triggered')
        /\ pending' > 0 => "W" \in interest' /\ (writable' => triggered')
      BY RefreshReports
  <1> QED
      BY <1>1 DEF Registered, TunFlows, Tun!TunFlows, Tun!ReadsGoOn, Tun!PausesEnd, Tun!WritesWait

\* Every step of the device, the poller, the bridge and the send queue keeps the invariant.
LEMMA TunNext == TunInv /\ [Tun!Next]_Tun!vars => TunInv'
  <1> SUFFICES ASSUME TunInv, [Tun!Next]_Tun!vars PROVE Counts' /\ Registered' /\ TunFlows'
      BY FlagsKept DEF TunInv, Tun!TypeOK, Counts
  <1> USE PendingAssumption DEF Tun!vars, Tun!device, Tun!bridge, Tun!wakes
  <1>0. Counts /\ Registered /\ (tun => Tun!ReadsGoOn /\ Tun!PausesEnd /\ Tun!WritesWait)
      BY DEF TunInv, Tun!TypeOK, Counts, TunFlows, Tun!TunFlows
  <1>1. CASE Tun!PacketArrives \/ Tun!DeviceTakes
      <2>1. /\ UNCHANGED <<attached, tun, interest, event, reading, pending, paused, broken, failed, parked, posted>>
            /\ rx' = rx \/ rx' = rx + 1
          BY <1>1 DEF Tun!PacketArrives, Tun!DeviceTakes
      <2>2. Counts'
          BY <1>0, <2>1 DEF Counts
      <2>3. /\ tun /\ (triggered => triggered')
            /\ (writable' <=> writable) \/ ("W" \in interest => triggered')
            /\ rx' = rx \/ ("R" \in interest => triggered')
          <3>1. CASE Tun!PacketArrives
              BY <3>1 DEF Tun!PacketArrives
          <3>2. CASE Tun!DeviceTakes
              BY <3>2 DEF Tun!DeviceTakes
          <3> QED
              BY <1>1, <3>1, <3>2
      <2>4. Tun!ReadsGoOn' /\ Registered'
          BY <1>0, <2>1, <2>3 DEF Registered, Tun!ReadsGoOn
      <2>5. Tun!PausesEnd' /\ Tun!WritesWait'
          BY <1>0, <2>1, <2>3 DEF Tun!PausesEnd, Tun!WritesWait
      <2> QED
          BY <2>2, <2>4, <2>5 DEF TunFlows, Tun!TunFlows
  <1>2. CASE Tun!Poll
      <2>1. /\ Tun!Ready(interest, rx, writable) \subseteq {"R", "W"}
            /\ rx > 0 /\ "R" \in interest => "R" \in Tun!Ready(interest, rx, writable)
            /\ writable /\ "W" \in interest => "W" \in Tun!Ready(interest, rx, writable)
          BY DEF Tun!Ready
      <2>2. Counts'
          BY <1>0, <1>2, <2>1 DEF Tun!Poll, Counts
      <2>3. Registered' /\ TunFlows'
          BY <1>0, <1>2, <2>1 DEF Tun!Poll, Registered, TunFlows,
              Tun!TunFlows, Tun!ReadsGoOn, Tun!PausesEnd, Tun!WritesWait
      <2> QED
          BY <2>2, <2>3
  <1>3. CASE Tun!attach \/ Tun!detach
      <2>1. Counts'
          BY <1>0, <1>3 DEF Tun!attach, Tun!detach, Counts
      <2>2. Registered' /\ TunFlows'
          BY <1>0, <1>3 DEF Tun!attach, Tun!detach, Registered, TunFlows,
              Tun!TunFlows, Tun!ReadsGoOn, Tun!PausesEnd, Tun!WritesWait
      <2> QED
          BY <2>1, <2>2
  <1>4. CASE Tun!inject_inbound_ip \/ Tun!ReadRejects
      <2>1. /\ Tun!inject /\ UNCHANGED <<attached, tun, event, reading, paused, broken, parked, posted>>
            /\ rx' \in Nat /\ rx' <= rx /\ tun
          BY <1>0, <1>4 DEF Tun!inject_inbound_ip, Tun!ReadRejects, Counts, Registered
      <2>2. /\ pending' \in 0 .. MAX_PENDING_TX_PKTS
            /\ \/ UNCHANGED <<interest, triggered, writable>> /\ (UNCHANGED <<pending, failed>> \/ failed')
               \/ Tun!refresh_interest
          BY <1>0, <2>1, InjectLeaves
      <2>3. CASE UNCHANGED <<interest, triggered, writable>> /\ (UNCHANGED <<pending, failed>> \/ failed')
          <3>1. Counts'
              BY <1>0, <2>1, <2>2, <2>3 DEF Counts
          <3>2. Registered' /\ TunFlows'
              BY <1>0, <2>1, <2>2, <2>3 DEF Counts, Registered, TunFlows,
                  Tun!TunFlows, Tun!ReadsGoOn, Tun!PausesEnd, Tun!WritesWait
          <3> QED
              BY <3>1, <3>2
      <2>4. CASE Tun!refresh_interest
          <3>1. Registered' /\ TunFlows' /\ interest' \subseteq {"R", "W"}
              BY <1>0, <2>1, <2>2, <2>4, RefreshFlows DEF Registered, Tun!PausesEnd
          <3> QED
              BY <1>0, <2>1, <2>2, <3>1 DEF Counts
      <2> QED
          BY <2>2, <2>3, <2>4
  <1>5. CASE Tun!on_event
      <2>1. /\ UNCHANGED <<attached, tun, rx, paused, broken, parked, posted>>
            /\ event' = {} /\ (reading' <=> "R" \in event /\ ~paused) /\ tun /\ ~reading
          BY <1>5 DEF Tun!on_event
      <2>2. CASE "W" \notin event
          <3>1. UNCHANGED <<writable, interest, triggered, pending, failed>>
              BY <1>5, <2>2 DEF Tun!on_event
          <3>2. Counts'
              BY <1>0, <2>1, <3>1 DEF Counts
          <3>3. Registered' /\ Tun!ReadsGoOn'
              BY <1>0, <2>1, <3>1 DEF Registered, Tun!ReadsGoOn
          <3>4. Tun!PausesEnd' /\ Tun!WritesWait'
              BY <1>0, <2>1, <2>2, <3>1 DEF Tun!PausesEnd, Tun!WritesWait
          <3> QED
              BY <3>2, <3>3, <3>4 DEF TunFlows, Tun!TunFlows
      <2>3. CASE "W" \in event
          <3>1. /\ pending' \in 0 .. pending
                /\ \/ failed' /\ writable' = writable /\ interest' = interest /\ triggered' = triggered
                   \/ Tun!refresh_interest
              BY <1>0, <1>5, <2>3, DrainLeaves DEF Tun!on_event, Counts
          <3>2. CASE failed' /\ writable' = writable /\ interest' = interest /\ triggered' = triggered
              <4>1. Counts'
                  BY <1>0, <2>1, <3>1, <3>2 DEF Counts
              <4>2. Registered' /\ Tun!ReadsGoOn'
                  BY <1>0, <2>1, <3>2 DEF Registered, Tun!ReadsGoOn
              <4>3. Tun!PausesEnd' /\ Tun!WritesWait'
                  BY <1>0, <2>1, <3>2 DEF Tun!PausesEnd, Tun!WritesWait
              <4> QED
                  BY <4>1, <4>2, <4>3 DEF TunFlows, Tun!TunFlows
          <3>3. CASE Tun!refresh_interest
              <4>1. rx' \in Nat /\ pending' \in Nat
                  BY <1>0, <2>1, <3>1 DEF Counts
              <4>2. Registered' /\ TunFlows' /\ interest' \subseteq {"R", "W"}
                  BY <1>0, <2>1, <3>3, <4>1, RefreshFlows DEF Registered, Tun!PausesEnd
              <4> QED
                  BY <1>0, <2>1, <3>1, <4>2 DEF Counts
          <3> QED
              BY <3>1, <3>2, <3>3
      <2> QED
          BY <2>2, <2>3
  <1>6. CASE Tun!ReadPasses \/ Tun!ReadEnds
      <2>1. Counts'
          <3>1. CASE Tun!ReadPasses
              BY <1>0, <3>1 DEF Tun!ReadPasses, Counts
          <3>2. CASE Tun!ReadEnds
              BY <1>0, <3>2 DEF Tun!ReadEnds, Counts
          <3> QED
              BY <1>6, <3>1, <3>2
      <2>2. Registered' /\ TunFlows'
          BY <1>0, <1>6 DEF Tun!ReadPasses, Tun!ReadEnds, Registered, TunFlows,
              Tun!TunFlows, Tun!ReadsGoOn, Tun!PausesEnd, Tun!WritesWait
      <2> QED
          BY <2>1, <2>2
  <1>7. CASE Tun!ReadPauses \/ Tun!ReadFails
      <2>1. /\ UNCHANGED <<attached, tun, event, pending, posted>> /\ Tun!refresh_interest
            /\ paused' /\ ~reading'
          BY <1>7 DEF Tun!ReadPauses, Tun!ReadFails
      <2>2. rx' \in Nat /\ parked' \in Nat
          BY <1>0, <1>7 DEF Tun!ReadPauses, Tun!ReadFails, Counts
      <2>3. broken' \/ parked' + posted' > 0
          BY <1>0, <1>7 DEF Tun!ReadPauses, Tun!ReadFails, Counts
      <2>4. Registered' /\ TunFlows' /\ interest' \subseteq {"R", "W"}
          <3>1. pending' \in Nat
              BY <1>0, <2>1 DEF Counts
          <3> QED
              BY <2>1, <2>2, <2>3, <3>1, RefreshFlows
      <2> QED
          BY <1>0, <2>1, <2>2, <2>4 DEF Counts
  <1>8. CASE Tun!SendDrained
      <2>1. Counts'
          BY <1>0, <1>8 DEF Tun!SendDrained, Counts
      <2>2. parked' + posted' = parked + posted
          BY <1>0, <1>8 DEF Tun!SendDrained, Counts
      <2>3. Registered' /\ TunFlows'
          BY <1>0, <1>8, <2>2 DEF Tun!SendDrained, Registered, TunFlows,
              Tun!TunFlows, Tun!ReadsGoOn, Tun!PausesEnd, Tun!WritesWait
      <2> QED
          BY <2>1, <2>3
  <1>9. CASE Tun!resume
      <2>1. posted' \in Nat /\ UNCHANGED <<attached, tun, rx, writable, event, reading, failed, parked, pending>>
          BY <1>0, <1>9 DEF Tun!resume, Counts
      <2>2. CASE tun /\ paused
          <3>1. ~paused' /\ Tun!refresh_interest
              BY <1>9, <2>2 DEF Tun!resume
          <3>2. rx' \in Nat /\ pending' \in Nat
              BY <1>0, <2>1 DEF Counts
          <3>3. Registered' /\ TunFlows' /\ interest' \subseteq {"R", "W"}
              BY <2>1, <2>2, <3>1, <3>2, RefreshFlows
          <3> QED
              BY <1>0, <2>1, <3>3 DEF Counts
      <2>3. CASE ~(tun /\ paused)
          <3>1. UNCHANGED <<paused, broken, interest, triggered>>
              BY <1>9, <2>3 DEF Tun!resume
          <3>2. Counts'
              BY <1>0, <2>1, <3>1 DEF Counts
          <3>3. Registered' /\ TunFlows'
              BY <1>0, <2>1, <2>3, <3>1 DEF Registered, TunFlows,
                  Tun!TunFlows, Tun!ReadsGoOn, Tun!PausesEnd, Tun!WritesWait
          <3> QED
              BY <3>2, <3>3
      <2> QED
          BY <2>2, <2>3
  <1>10. CASE UNCHANGED Tun!vars
      <2>1. Counts'
          BY <1>0, <1>10 DEF Counts
      <2>2. Registered' /\ TunFlows'
          BY <1>0, <1>10 DEF Registered, TunFlows, Tun!TunFlows, Tun!ReadsGoOn, Tun!PausesEnd, Tun!WritesWait
      <2> QED
          BY <2>1, <2>2
  <1> QED
      BY <1>1, <1>2, <1>3, <1>4, <1>5, <1>6, <1>7, <1>8, <1>9, <1>10 DEF Tun!Next, Tun!on_readable

\* The TUN bridge never misses a report of its device, and a pause for back-pressure always
\* leaves a resume behind, for any capacity of the queue and any number of attachments.
THEOREM BridgeFlows == Tun!Spec => []TunFlows
  <1>1. Tun!Spec => []TunInv
      BY TunInit, TunNext, PTL DEF Tun!Spec
  <1> QED
      BY <1>1, PTL DEF TunInv
=============================================================================
