--------------------------- MODULE DesktopProofs ---------------------------
(***************************************************************************)
(* Proofs about the desktop daemon, for any number of peers, calls, kernel   *)
(* slots and HTTP requests: a slot has one owner on every path through       *)
(* server mode, and the mode loop never dials without a selection to spend.  *)
(***************************************************************************)
EXTENDS MCDesktop, TLAPS

-----------------------------------------------------------------------------
(* Kernel slots.  SlotsOwned is not inductive: a handler that started twice  *)
(* would forget the slot of its first run, and a device is kept for a client *)
(* only because the session that opened it still held the slot.  So the      *)
(* invariant also follows a call's life (Once), says where a handler has a   *)
(* slot (Slotted), and whose device a slot has from attach on (Attached).    *)

CallPlaces == Deciding \cup {"unborn", "answered", "accepting", "over"}
Answers == {"none", "Accept", "Reject", "SilentlyIgnore"}
SessionPlaces == {"none", "name", "open", "attach", "start", "install", "done", "over"}
EntrySet == [tunnel : Calls \cup {None}, slot : SlotOrNone]
EventSet == [kind : {"Connected", "Disconnected", "Failed"}, peer : Peers, call : Calls]

CallTypes ==
    /\ call \in [Calls -> [peer : Peers, at : CallPlaces, answer : Answers]]
    /\ cancel \in [Peers -> Calls \cup {None}]
    /\ sessions \in [Peers -> Calls \cup {None}]
    /\ tunnel \in [Calls -> {"none", "dialing", "up", "down"}]
    /\ told \in [Calls -> {"nothing", "heard", "Connected", "over", "ended"}]
    /\ events \in Seq(EventSet)

SlotTypes ==
    /\ clients \in [Peers -> EntrySet]
    /\ kernel_slots \subseteq Slots /\ lost \subseteq Slots
    /\ clearing \subseteq EntrySet
    /\ session \in [Calls -> [at : SessionPlaces, slot : SlotOrNone]]
    /\ device \in [Slots -> Calls \cup {None}]

\* A call has its tunnel, and the tunnel its one Connected and its one handler, once.
Once ==
    /\ \A c \in Calls :
          /\ call[c].at # "over" => tunnel[c] = "none"
          /\ tunnel[c] \in {"none", "dialing"} => told[c] = "nothing"
          /\ told[c] \in {"nothing", "heard"} => session[c].at = "none"
    /\ \A p \in Peers : sessions[p] # None => call[sessions[p]].at = "over"
    /\ \A i \in 1 .. Len(events) : events[i].kind = "Connected" =>
          /\ session[events[i].call].at = "none" /\ told[events[i].call] \notin {"nothing", "heard"}
          /\ \A j \in 1 .. Len(events) :
                events[j].kind = "Connected" /\ events[j].call = events[i].call => j = i

\* A handler has a slot from the allocation until it installs its client.
Slotted ==
    \A c \in Calls :
        /\ session[c].slot # None => session[c].at \in {"open", "attach", "install"}
        /\ session[c].at \in {"open", "attach"} => session[c].slot # None

\* An entry is made by a handler that has installed it.
Installed(e) == e = NoEntry \/ (e.tunnel # None /\ session[e.tunnel].at \in {"done", "over"})
Entries == (\A p \in Peers : Installed(clients[p])) /\ (\A e \in clearing : Installed(e))

\* Nothing is left to clear when nobody is clearing.
Cleared == clearer = "nobody" => clearing = {}

OneHolder ==
    /\ \A c, d \in Calls : session[c].slot # None /\ session[c].slot = session[d].slot => c = d
    /\ \A p, q \in Peers : clients[p].slot # None /\ clients[p].slot = clients[q].slot => p = q
    /\ \A e, f \in clearing : e.slot # None /\ e.slot = f.slot => e = f
    /\ \A c \in Calls, p \in Peers : session[c].slot # None => session[c].slot # clients[p].slot
    /\ \A c \in Calls, e \in clearing : session[c].slot # None => session[c].slot # e.slot
    /\ \A p \in Peers, e \in clearing : clients[p].slot # None => clients[p].slot # e.slot

HeldIsTaken ==
    /\ \A c \in Calls : session[c].slot \notin kernel_slots \cup lost
    /\ \A p \in Peers : clients[p].slot \notin kernel_slots \cup lost
    /\ \A e \in clearing : e.slot \notin kernel_slots \cup lost
    /\ kernel_slots \cap lost = {}

Found ==
    \A k \in Slots :
        \/ k \in kernel_slots \/ k \in lost
        \/ \E c \in Calls : session[c].slot = k
        \/ \E p \in Peers : clients[p].slot = k
        \/ \E e \in clearing : e.slot = k

\* Slot k has call c's device, unless c's tunnel is down for good.
HasDevice(c, k) == (tunnel[c] = "up" /\ device[k] = c) \/ tunnel[c] = "down"
Attached ==
    /\ \A c \in Calls :
          /\ session[c].at = "attach" => device[session[c].slot] = c
          /\ session[c].at = "install" /\ session[c].slot # None => HasDevice(c, session[c].slot)
    /\ \A p \in Peers : clients[p].slot # None => HasDevice(clients[p].tunnel, clients[p].slot)

CallInv == CallTypes /\ Once
SlotInv == SlotTypes /\ Slotted /\ Entries /\ Cleared /\ OneHolder /\ HeldIsTaken /\ Found /\ Attached
DesktopInv == CallInv /\ SlotInv

slotvars == <<clients, kernel_slots, lost, clearing, clearer, session, device>>

CallType == [Calls -> [peer : Peers, at : CallPlaces, answer : Answers]]

LEMMA DesktopInit == Init => DesktopInv
<1> SUFFICES ASSUME Init PROVE DesktopInv
  BY Zenon
<1> USE NamesAssumption
<1>1. CallTypes
  <2>1. call \in CallType
    <3>1. (CHOOSE p \in Peers : TRUE) \in Peers
      BY Zenon
    <3> QED
      BY <3>1, Zenon DEF Init, CallType, CallPlaces, Answers
  <2>2. events \in Seq(EventSet)
    BY DEF Init
  <2> QED
    BY <2>1, <2>2, Zenon DEF Init, CallTypes, CallType
<1>2. Once
  BY DEF Init, Once
<1>3. SlotTypes
  BY Zenon DEF Init, SlotTypes, EntrySet, NoEntry, Entry, SlotOrNone, SessionPlaces
<1>4. Slotted /\ Entries /\ Cleared
  BY Zenon DEF Init, Slotted, Entries, Installed, Cleared
<1>5. OneHolder /\ HeldIsTaken /\ Found /\ Attached
  BY Zenon DEF Init, OneHolder, HeldIsTaken, Found, Attached, NoEntry, Entry
<1> QED
  BY <1>1, <1>2, <1>3, <1>4, <1>5, Zenon DEF DesktopInv, CallInv, SlotInv

-----------------------------------------------------------------------------
\* Tunnels that were up or down stay so or go down: no client loses its device by that.
Falling == \A c \in Calls : tunnel[c] \in {"up", "down"} => tunnel'[c] = tunnel[c] \/ tunnel'[c] = "down"

LEMMA SlotFrame == ASSUME SlotInv, UNCHANGED slotvars, Falling PROVE SlotInv'
<1>1. (SlotTypes /\ Slotted /\ Cleared /\ OneHolder /\ HeldIsTaken /\ Found)'
  BY DEF SlotInv, slotvars, SlotTypes, Slotted, Cleared, OneHolder, HeldIsTaken, Found
<1>2. Entries'
  BY Zenon DEF SlotInv, slotvars, Entries, Installed
<1>3. Attached'
  BY DEF SlotInv, slotvars, SlotTypes, EntrySet, Entries, Installed, NoEntry, Entry, Attached, HasDevice, Falling
<1> QED
  BY <1>1, <1>2, <1>3, Zenon DEF SlotInv

\* A decision that moves on, however it is cut short, leaves tunnels and handlers alone.
LEMMA CallFrame ==
    ASSUME CallInv, call' \in CallType, \A c \in Calls : call[c].at = "over" => call'[c].at = "over",
           cancel' \in [Peers -> Calls \cup {None}],
           UNCHANGED <<sessions, tunnel, told, events, session>>
    PROVE  CallInv'
<1>1. CallTypes'
  BY Zenon DEF CallInv, CallTypes, CallType
<1>2. Once'
  BY <1>1 DEF CallInv, CallTypes, Once
<1> QED
  BY <1>1, <1>2, Zenon DEF CallInv

\* Disconnected only puts tunnels down.
LEMMA Falls ==
    ASSUME CallTypes, NEW T PROVE
      /\ Disconnected(T) \in [Calls -> {"none", "dialing", "up", "down"}]
      /\ \A c \in Calls : Disconnected(T)[c] = IF c \in T \ {None} THEN "down" ELSE tunnel[c]
  BY Zenon DEF CallTypes, Disconnected

LEMMA CallsNotNone == \A c \in Calls : c # None /\ c \in Calls \cup {None}
  BY BoundsAssumption DEF Calls, None

LEMMA SentKeeps ==
    ASSUME CallTypes, NEW c, NEW a \in Answers
    PROVE  /\ Sent(c, a) \in CallType
           /\ \A d \in Calls : call[d].at = "over" => Sent(c, a)[d].at = "over"
           /\ \A d \in Calls : Sent(c, a)[d].peer = call[d].peer
<1>1. call \in CallType
  BY Zenon DEF CallTypes, CallType
<1>2. CASE c # None /\ call[c].at = "wait"
  <2> DEFINE R == [call EXCEPT ![c].at = "answered"]
  <2>1. /\ R \in CallType
        /\ \A d \in Calls : R[d].peer = call[d].peer /\ (d # c => R[d] = call[d])
    BY <1>1, ZenonT(30) DEF CallType, CallPlaces
  <2>2. Sent(c, a) = [R EXCEPT ![c].answer = a]
    BY <1>2, Zenon DEF Sent
  <2> HIDE DEF R
  <2>3. /\ Sent(c, a) \in CallType
        /\ \A d \in Calls : Sent(c, a)[d].peer = R[d].peer /\ (d # c => Sent(c, a)[d] = R[d])
    BY <2>1, <2>2, ZenonT(30) DEF CallType
  <2>4. \A d \in Calls : call[d].at = "over" => d # c
    BY <1>2, Zenon
  <2> QED
    BY <2>1, <2>3, <2>4, Zenon
<1>3. CASE ~(c # None /\ call[c].at = "wait")
  BY <1>1, <1>3, Zenon DEF Sent
<1> QED
  BY <1>2, <1>3, Zenon

\* The steps of the admission decision, and the answers that reach it.
LEMMA DecisionKeeps ==
    ASSUME DesktopInv, NEW c \in Calls,
           (\E p \in Peers : IncomingCall(c, p)) \/ Decide(c) \/ DecideTimeout(c) \/ AcceptFails(c)
    PROVE  DesktopInv'
<1> USE DEF DesktopInv, CallInv
<1>1. SlotInv'
  <2>1. UNCHANGED <<slots, session, device, tunnel>>
    BY Zenon DEF IncomingCall, Decide, DecideTimeout, AcceptFails, DecideBlacklist, DecideCapacity, DecideAllow,
           pending_park, ClearExpired, Cancelled, DecideReturns, manager
  <2> QED
    BY <2>1, SlotFrame, Zenon DEF slots, slotvars, Falling
<1>2. UNCHANGED <<sessions, tunnel, told, events, session>>
  BY Zenon DEF IncomingCall, Decide, DecideTimeout, AcceptFails, DecideBlacklist, DecideCapacity, DecideAllow,
         pending_park, ClearExpired, Cancelled, DecideReturns, manager, loop
<1>3. cancel' \in [Peers -> Calls \cup {None}]
  <2>1. CASE \E p \in Peers : IncomingCall(c, p)
    BY <2>1, Zenon DEF CallTypes, IncomingCall
  <2>2. CASE DecideReturns(c)
    BY <2>2, Zenon DEF CallTypes, DecideReturns
  <2>3. CASE UNCHANGED cancel
    BY <2>3, Zenon DEF CallTypes
  <2> QED
    BY <2>1, <2>2, <2>3, Zenon DEF Decide, DecideTimeout, AcceptFails, DecideBlacklist, DecideCapacity, DecideAllow,
         pending_park, ClearExpired, Cancelled, manager
<1>4. call' \in CallType /\ \A d \in Calls : call[d].at = "over" => call'[d].at = "over"
  <2>1. call \in CallType
    BY Zenon DEF CallTypes, CallType
  <2>2. "SilentlyIgnore" \in Answers /\ "Reject" \in Answers /\ "Accept" \in Answers /\ "none" \in Answers
    BY Zenon DEF Answers
  <2>3. \A x \in Deciding \cup {"answered", "accepting", "over"} : x \in CallPlaces
    BY Zenon DEF CallPlaces
  <2>4. ASSUME NEW place \in CallPlaces, call[c].at # "over",
               \/ call' = [call EXCEPT ![c].at = place]
               \/ \E a \in Answers : call' = [call EXCEPT ![c].at = place, ![c].answer = a]
               \/ \E p \in Peers : call' = [call EXCEPT ![c].peer = p, ![c].at = place]
        PROVE  call' \in CallType /\ \A d \in Calls : call[d].at = "over" => call'[d].at = "over"
    <3>2. CASE call' = [call EXCEPT ![c].at = place]
      BY <2>1, <2>4, <3>2, Zenon DEF CallType
    <3>3. ASSUME NEW a \in Answers, call' = [call EXCEPT ![c].at = place, ![c].answer = a]
          PROVE  call' \in CallType /\ \A d \in Calls : call[d].at = "over" => call'[d].at = "over"
      <4> DEFINE R == [call EXCEPT ![c].at = place]
      <4>1. R \in CallType /\ \A d \in Calls \ {c} : R[d] = call[d]
        BY <2>1, Zenon DEF CallType
      <4>2. call' = [R EXCEPT ![c].answer = a]
        BY <3>3, Zenon
      <4> HIDE DEF R
      <4> QED
        BY <2>4, <4>1, <4>2 DEF CallType
    <3>4. ASSUME NEW q \in Peers, call' = [call EXCEPT ![c].peer = q, ![c].at = place]
          PROVE  call' \in CallType /\ \A d \in Calls : call[d].at = "over" => call'[d].at = "over"
      <4> DEFINE R == [call EXCEPT ![c].peer = q]
      <4>1. R \in CallType /\ \A d \in Calls \ {c} : R[d] = call[d]
        BY <2>1, Zenon DEF CallType
      <4>2. call' = [R EXCEPT ![c].at = place]
        BY <3>4, Zenon
      <4> HIDE DEF R
      <4> QED
        BY <2>4, <4>1, <4>2 DEF CallType
    <3> QED
      BY <2>4, <3>2, <3>3, <3>4, Zenon
  <2>5. CASE \E p \in Peers : IncomingCall(c, p)
    BY <2>3, <2>4, <2>5, Zenon DEF IncomingCall, Deciding
  <2>6. CASE DecideBlacklist(c) \/ DecideCapacity(c) \/ DecideAllow(c) \/ Cancelled(c)
    BY <2>2, <2>3, <2>4, <2>6, Zenon DEF DecideBlacklist, DecideCapacity, DecideAllow, Cancelled, Answer, Step, Deciding
  <2>7. CASE DecideTimeout(c) \/ AcceptFails(c)
    BY <2>3, <2>4, <2>7, Zenon DEF DecideTimeout, AcceptFails, Step, Deciding
  <2>8. CASE DecideReturns(c)
    <3>1. /\ call[c].at = "answered"
          /\ call' = [call EXCEPT ![c].at = IF call[c].answer = "Accept" THEN "accepting" ELSE "over", ![c].answer = "none"]
      BY <2>8, Zenon DEF DecideReturns
    <3> QED
      BY <2>2, <2>3, <2>4, <3>1, Zenon
  <2>9. ASSUME pending_park(c) \/ ClearExpired(c)
        PROVE  call' \in CallType /\ \A d \in Calls : call[d].at = "over" => call'[d].at = "over"
    <3> DEFINE S == Sent(pending[PeerOf(c)], "SilentlyIgnore")
    <3>1. S \in CallType /\ \A d \in Calls : call[d].at = "over" => S[d].at = "over"
      BY <2>2, SentKeeps, Zenon
    <3>2. /\ call[c].at # "over"
          /\ \/ call' = [S EXCEPT ![c].at = "wait"]
             \/ call' = [S EXCEPT ![c].at = "answered", ![c].answer = "SilentlyIgnore"]
      BY <2>9, Zenon DEF pending_park, ClearExpired
    <3>4. "wait" \in CallPlaces /\ "answered" \in CallPlaces
      BY Zenon DEF CallPlaces, Deciding
    <3> HIDE DEF S
    <3>5. CASE call' = [S EXCEPT ![c].at = "wait"]
      BY <3>1, <3>2, <3>4, <3>5, Zenon DEF CallType
    <3>6. CASE call' = [S EXCEPT ![c].at = "answered", ![c].answer = "SilentlyIgnore"]
      <4> DEFINE R == [S EXCEPT ![c].at = "answered"]
      <4>1. R \in CallType /\ \A d \in Calls \ {c} : R[d] = S[d]
        BY <3>1, <3>4, Zenon DEF CallType
      <4>2. call' = [R EXCEPT ![c].answer = "SilentlyIgnore"]
        BY <3>6, Zenon
      <4> HIDE DEF R
      <4> QED
        BY <2>2, <3>1, <3>2, <4>1, <4>2 DEF CallType
    <3> QED
      BY <3>2, <3>5, <3>6, Zenon
  <2> QED
    BY <2>5, <2>6, <2>7, <2>8, <2>9, Zenon DEF Decide
<1> QED
  BY <1>1, <1>2, <1>3, <1>4, CallFrame, Zenon

\* A row that is resolved or cleared answers the decider behind it.
LEMMA RowKeeps ==
    ASSUME DesktopInv,
           \/ \E p \in Peers : Resolve(p)
           \/ \E r \in Requests, p \in Peers, a \in Answers, l \in {"none", "admission", "blacklist"} : AnswerRow(r, p, a, l)
    PROVE  DesktopInv'
<1> USE DEF DesktopInv, CallInv
<1>1. PICK x, a : a \in Answers /\ call' = Sent(x, a)
  BY Zenon DEF Resolve, AnswerRow, pending_resolve, Answers
<1>2. UNCHANGED <<slots, manager, events, session, device>>
  BY Zenon DEF Resolve, AnswerRow, loop
<1>3. SlotInv'
  BY <1>2, SlotFrame, Zenon DEF slots, slotvars, Falling, manager
<1>4. CallInv'
  BY <1>1, <1>2, SentKeeps, CallFrame DEF manager, CallTypes
<1> QED
  BY <1>3, <1>4, Zenon

LEMMA ClearRowsKeeps == ASSUME DesktopInv, ClearRows PROVE DesktopInv'
<1> USE DEF DesktopInv, CallInv
<1>1. UNCHANGED <<clients, kernel_slots, lost, clearing, session, device, tunnel>> /\ clearing = {}
  BY Zenon DEF ClearRows, manager
<1>2. SlotInv'
  <2>1. (SlotTypes /\ Slotted /\ Cleared /\ OneHolder /\ HeldIsTaken /\ Found)'
    BY <1>1 DEF SlotInv, SlotTypes, Slotted, Cleared, OneHolder, HeldIsTaken, Found
  <2>2. (Entries /\ Attached)'
    BY <1>1, Zenon DEF SlotInv, Entries, Installed, Attached, HasDevice
  <2> QED
    BY <2>1, <2>2, Zenon DEF SlotInv
<1>3. call' \in CallType /\ \A d \in Calls : call[d].at = "over" => call'[d].at = "over"
  <2>1. "SilentlyIgnore" \in Answers
    BY Zenon DEF Answers
  <2>2. ASSUME NEW d \in Calls
        PROVE  Sent(d, "SilentlyIgnore") \in CallType /\ (call[d].at = "over" => Sent(d, "SilentlyIgnore")[d].at = "over")
    BY <2>1, SentKeeps, Zenon
  <2>3. call' = [d \in Calls |-> IF \E p \in Peers : pending[p] = d THEN Sent(d, "SilentlyIgnore")[d] ELSE call[d]]
    BY Zenon DEF ClearRows
  <2> QED
    BY <2>2, <2>3 DEF CallTypes, CallType
<1>4. CallInv'
  <2>1. UNCHANGED <<cancel, sessions, tunnel, told, events, session>>
    BY Zenon DEF ClearRows, manager, loop
  <2> QED
    BY <1>3, <2>1, CallFrame, Zenon DEF CallTypes
<1> QED
  BY <1>2, <1>4, Zenon

-----------------------------------------------------------------------------
(* Tunnels and their events                                                  *)

\* Putting down tunnels of calls that are over keeps everything in place.
LEMMA DownKeeps ==
    ASSUME DesktopInv, UNCHANGED <<slotvars, call, cancel, sessions, events>>, NEW T, tunnel' = Disconnected(T),
           \A c \in (T \ {None}) \cap Calls : call[c].at = "over",
           \A c \in Calls : told'[c] = told[c] \/ (c \in T \ {None} /\ told[c] = "nothing" /\ told'[c] = "over"),
           told' \in [Calls -> {"nothing", "heard", "Connected", "over", "ended"}]
    PROVE  DesktopInv'
<1> USE DEF DesktopInv, CallInv
<1>1. /\ tunnel' \in [Calls -> {"none", "dialing", "up", "down"}]
      /\ \A c \in Calls : tunnel'[c] = IF c \in T \ {None} THEN "down" ELSE tunnel[c]
  BY Falls, Zenon
<1>2. SlotInv'
  <2>1. Falling
    BY <1>1, Zenon DEF Falling
  <2> QED
    BY <2>1, SlotFrame, Zenon DEF slotvars
<1>3. CallTypes'
  BY <1>1, Zenon DEF CallTypes
<1>4. Once'
  <2>1. ASSUME NEW c \in Calls
        PROVE  /\ call'[c].at # "over" => tunnel'[c] = "none"
               /\ tunnel'[c] \in {"none", "dialing"} => told'[c] = "nothing"
               /\ told'[c] \in {"nothing", "heard"} => session'[c].at = "none"
    BY <1>1, Zenon DEF Once, slotvars
  <2>2. \A p \in Peers : sessions'[p] # None => call'[sessions'[p]].at = "over"
    BY Zenon DEF Once
  <2>3. ASSUME NEW i \in 1 .. Len(events'), events'[i].kind = "Connected"
        PROVE  /\ session'[events'[i].call].at = "none" /\ told'[events'[i].call] \notin {"nothing", "heard"}
               /\ \A j \in 1 .. Len(events') :
                     events'[j].kind = "Connected" /\ events'[j].call = events'[i].call => j = i
    <3>1. events[i] \in EventSet
      BY <2>3 DEF CallTypes
    <3> QED
      BY <2>3, <3>1 DEF Once, slotvars, EventSet
  <2> QED
    BY <2>1, <2>2, <2>3, Zenon DEF Once
<1> QED
  BY <1>2, <1>3, <1>4, Zenon

LEMMA Appended ==
    ASSUME CallTypes, NEW e \in EventSet, events' = Append(events, e)
    PROVE  /\ events' \in Seq(EventSet) /\ Len(events') = Len(events) + 1 /\ Len(events) \in Nat
           /\ \A i \in 1 .. Len(events) : events'[i] = events[i] /\ events[i] \in EventSet
           /\ events'[Len(events) + 1] = e
  BY DEF CallTypes

LEMMA TunnelKeeps ==
    ASSUME DesktopInv, NEW c \in Calls, Join(c) \/ TunnelUp(c) \/ TunnelEnds(c) \/ TunnelTimesOut(c)
    PROVE  DesktopInv'
<1> USE DEF DesktopInv, CallInv
<1>1. UNCHANGED <<slotvars, events>>
  BY Zenon DEF Join, TunnelUp, TunnelEnds, TunnelTimesOut, slots, slotvars, loop
<1>2. CASE TunnelEnds(c) \/ TunnelTimesOut(c)
  <2>1. UNCHANGED <<call, cancel, sessions>> /\ tunnel' = Disconnected({c}) /\ tunnel[c] # "none"
    BY <1>2, Zenon DEF TunnelEnds, TunnelTimesOut
  <2>2. call[c].at = "over"
    BY <2>1, Zenon DEF Once
  <2>3. /\ told' \in [Calls -> {"nothing", "heard", "Connected", "over", "ended"}]
        /\ \A d \in Calls : told'[d] = told[d] \/ (d \in {c} \ {None} /\ told[d] = "nothing" /\ told'[d] = "over")
    BY <1>2, CallsNotNone DEF TunnelEnds, TunnelTimesOut, Once, CallTypes
  <2> QED
    BY <1>1, <2>1, <2>2, <2>3, DownKeeps, Zenon
<1>3. CASE TunnelUp(c)
  <2>1. /\ tunnel[c] = "dialing" /\ tunnel' = [tunnel EXCEPT ![c] = "up"] /\ told' = [told EXCEPT ![c] = "heard"]
        /\ UNCHANGED <<call, cancel, sessions>>
    BY <1>3, Zenon DEF TunnelUp
  <2>2. SlotInv'
    BY <1>1, <2>1, SlotFrame, Zenon DEF Falling, CallTypes
  <2>3. CallTypes'
    BY <1>1, <2>1, Zenon DEF CallTypes
  <2>4. \A d \in Calls : /\ call'[d].at # "over" => tunnel'[d] = "none"
                         /\ tunnel'[d] \in {"none", "dialing"} => told'[d] = "nothing"
                         /\ told'[d] \in {"nothing", "heard"} => session'[d].at = "none"
    BY <1>1, <2>1 DEF Once, CallTypes, slotvars
  <2>5. \A i \in 1 .. Len(events) : events[i] \in EventSet
    BY DEF CallTypes
  <2>6. told[c] = "nothing"
    BY <2>1, Zenon DEF Once
  <2>7. ASSUME NEW i \in 1 .. Len(events), events[i].kind = "Connected"
        PROVE  /\ session'[events[i].call].at = "none" /\ told'[events[i].call] \notin {"nothing", "heard"}
               /\ \A j \in 1 .. Len(events) :
                     events[j].kind = "Connected" /\ events[j].call = events[i].call => j = i
    <3>1. /\ session[events[i].call].at = "none" /\ told[events[i].call] \notin {"nothing", "heard"}
          /\ \A j \in 1 .. Len(events) :
                events[j].kind = "Connected" /\ events[j].call = events[i].call => j = i
      BY <2>7, Zenon DEF Once
    <3>2. events[i].call \in Calls /\ events[i].call # c
      BY <2>5, <2>6, <3>1, Zenon DEF EventSet
    <3>3. told'[events[i].call] = told[events[i].call] /\ UNCHANGED session
      BY <1>1, <2>1, <3>2, Zenon DEF CallTypes, slotvars
    <3> QED
      BY <3>1, <3>3, Zenon
  <2>8. Once'
    <3>1. UNCHANGED <<events, sessions, call>> /\ \A p \in Peers : sessions[p] # None => call[sessions[p]].at = "over"
      BY <1>1, <2>1, Zenon DEF Once
    <3> QED
      BY <2>4, <2>7, <3>1 DEF Once
  <2> QED
    BY <2>2, <2>3, <2>8, Zenon
<1>4. CASE Join(c)
  <2> DEFINE T == {sessions[PeerOf(c)]}
  <2>1. /\ call[c].at = "accepting" /\ call' = [call EXCEPT ![c].at = "over"]
        /\ sessions' = [sessions EXCEPT ![PeerOf(c)] = c]
        /\ tunnel' = [Disconnected(T) EXCEPT ![c] = "dialing"]
        /\ UNCHANGED <<cancel, told>>
    BY <1>4, Zenon DEF Join, Step
  <2>2. PeerOf(c) \in Peers
    BY Zenon DEF PeerOf, CallTypes
  <2>3. /\ tunnel' \in [Calls -> {"none", "dialing", "up", "down"}] /\ tunnel'[c] = "dialing"
        /\ \A d \in Calls \ {c} : tunnel'[d] = IF d \in T \ {None} THEN "down" ELSE tunnel[d]
    <3> HIDE DEF T
    <3> QED
      BY <2>1, Falls
  <2>4. tunnel[c] = "none" /\ told[c] = "nothing"
    BY <2>1, Zenon DEF Once
  <2>5. SlotInv'
    <3>1. Falling
      BY <2>3, <2>4, Zenon DEF Falling
    <3> QED
      BY <1>1, <3>1, SlotFrame, Zenon
  <2>6. CallTypes'
    <3>1. call' \in [Calls -> [peer : Peers, at : CallPlaces, answer : Answers]]
      BY <2>1, ZenonT(30) DEF CallTypes, CallPlaces
    <3> QED
      BY <1>1, <2>1, <2>2, <2>3, <3>1, Zenon DEF CallTypes
  <2>7. \A d \in Calls : call'[d].at = IF d = c THEN "over" ELSE call[d].at
    BY <2>1, Zenon DEF CallTypes
  <2>8. \A p \in Peers : sessions'[p] = IF p = PeerOf(c) THEN c ELSE sessions[p]
    BY <2>1, Zenon DEF CallTypes
  <2>9. \A d \in T \ {None} : call[d].at = "over"
    BY <2>2, Zenon DEF Once
  <2>10. Once'
    <3>1. \A d \in Calls : /\ call'[d].at # "over" => tunnel'[d] = "none"
                           /\ tunnel'[d] \in {"none", "dialing"} => told'[d] = "nothing"
                           /\ told'[d] \in {"nothing", "heard"} => session'[d].at = "none"
      <4> HIDE DEF T
      <4> QED
        BY <1>1, <2>1, <2>3, <2>4, <2>7, <2>9 DEF Once, slotvars
    <3>2. ASSUME NEW p \in Peers, sessions'[p] # None PROVE call'[sessions'[p]].at = "over"
      <4>1. CASE p = PeerOf(c)
        BY <2>7, <2>8, <4>1, Zenon
      <4>2. CASE p # PeerOf(c)
        <5>1. sessions'[p] = sessions[p] /\ sessions[p] \in Calls
          BY <2>8, <3>2, <4>2, Zenon DEF CallTypes
        <5>2. call[sessions[p]].at = "over"
          BY <3>2, <5>1, Zenon DEF Once
        <5> QED
          BY <2>7, <5>1, <5>2, Zenon
      <4> QED
        BY <4>1, <4>2, Zenon
    <3>3. \A i \in 1 .. Len(events') : events'[i].kind = "Connected" =>
             /\ session'[events'[i].call].at = "none" /\ told'[events'[i].call] \notin {"nothing", "heard"}
             /\ \A j \in 1 .. Len(events') :
                   events'[j].kind = "Connected" /\ events'[j].call = events'[i].call => j = i
      BY <1>1, <2>1 DEF Once, slotvars
    <3> QED
      BY <3>1, <3>2, <3>3, Zenon DEF Once
  <2> QED
    BY <2>5, <2>6, <2>10, Zenon
<1> QED
  BY <1>2, <1>3, <1>4, Zenon

\* What a watcher notes and forgets: only of tunnels that have been up or are down.
Notes ==
    /\ UNCHANGED <<call, tunnel, session>>
    /\ told' \in [Calls -> {"nothing", "heard", "Connected", "over", "ended"}]
    /\ \A d \in Calls : told'[d] # told[d] =>
          told'[d] \notin {"nothing", "heard"} /\ tunnel[d] \notin {"none", "dialing"}
    /\ cancel' \in [Peers -> Calls \cup {None}] /\ sessions' \in [Peers -> Calls \cup {None}]
    /\ \A p \in Peers : sessions'[p] \in {sessions[p], None}

LEMMA NotesKeep ==
    ASSUME CallInv, Notes
    PROVE  /\ \A d \in Calls : /\ call'[d].at # "over" => tunnel'[d] = "none"
                               /\ tunnel'[d] \in {"none", "dialing"} => told'[d] = "nothing"
                               /\ told'[d] \in {"nothing", "heard"} => session'[d].at = "none"
           /\ \A p \in Peers : sessions'[p] # None => call'[sessions'[p]].at = "over"
           /\ \A d \in Calls : told[d] \notin {"nothing", "heard"} => told'[d] \notin {"nothing", "heard"}
<1>1. \A d \in Calls : /\ call'[d].at # "over" => tunnel'[d] = "none"
                       /\ tunnel'[d] \in {"none", "dialing"} => told'[d] = "nothing"
                       /\ told'[d] \in {"nothing", "heard"} => session'[d].at = "none"
  BY Zenon DEF CallInv, Once, Notes
<1>2. \A p \in Peers : sessions'[p] # None => call'[sessions'[p]].at = "over"
  BY DEF CallInv, Once, Notes
<1>3. \A d \in Calls : told[d] \notin {"nothing", "heard"} => told'[d] \notin {"nothing", "heard"}
  BY Zenon DEF Notes
<1> QED
  BY <1>1, <1>2, <1>3, Zenon

\* A watcher that emits nothing.
LEMMA QuietKeeps == ASSUME CallInv, Notes, UNCHANGED events PROVE CallInv'
<1>1. CallTypes'
  BY Zenon DEF CallInv, CallTypes, Notes
<1>2. ASSUME NEW i \in 1 .. Len(events), events[i].kind = "Connected"
      PROVE  session'[events[i].call].at = "none" /\ told'[events[i].call] \notin {"nothing", "heard"}
  <2>1. events[i] \in EventSet
    BY DEF CallInv, CallTypes
  <2>2. events[i].call \in Calls
    BY <2>1, Zenon DEF EventSet
  <2>3. session[events[i].call].at = "none" /\ told[events[i].call] \notin {"nothing", "heard"}
    BY <1>2, Zenon DEF CallInv, Once
  <2> QED
    BY <2>2, <2>3, NotesKeep, Zenon DEF Notes
<1>3. Once'
  BY <1>2, NotesKeep DEF CallInv, Once
<1> QED
  BY <1>1, <1>3, Zenon DEF CallInv

\* A watcher that emits an event: Connected is emitted by the one that heard it.
LEMMA EmitKeeps ==
    ASSUME CallInv, Notes, NEW e \in EventSet, events' = Append(events, e),
           e.kind = "Connected" => told[e.call] = "heard" /\ told'[e.call] = "Connected"
    PROVE  CallInv'
<1>1. CallTypes'
  BY Appended, Zenon DEF CallInv, CallTypes, Notes
<1> DEFINE n == Len(events)
<1>2. /\ Len(events') = n + 1 /\ n \in Nat /\ events'[n + 1] = e
      /\ \A i \in 1 .. n : events'[i] = events[i] /\ events[i] \in EventSet
  BY Appended, Zenon DEF CallInv
<1> HIDE DEF n
<1>3. ASSUME NEW i \in 1 .. n, events[i].kind = "Connected"
      PROVE  /\ session'[events[i].call].at = "none" /\ told'[events[i].call] \notin {"nothing", "heard"}
             /\ e.kind = "Connected" => events[i].call # e.call
             /\ \A j \in 1 .. n : events[j].kind = "Connected" /\ events[j].call = events[i].call => j = i
  <2>1. events[i].call \in Calls
    BY <1>2, Zenon DEF EventSet
  <2>2. /\ session[events[i].call].at = "none" /\ told[events[i].call] \notin {"nothing", "heard"}
        /\ \A j \in 1 .. n : events[j].kind = "Connected" /\ events[j].call = events[i].call => j = i
    BY <1>3, Zenon DEF CallInv, Once, n
  <2> QED
    BY <2>1, <2>2, NotesKeep, Zenon DEF Notes
<1>4. e.kind = "Connected" => session'[e.call].at = "none" /\ told'[e.call] \notin {"nothing", "heard"}
  BY Zenon DEF CallInv, Once, EventSet, Notes
<1>5. ASSUME NEW i \in 1 .. Len(events'), events'[i].kind = "Connected"
      PROVE  /\ session'[events'[i].call].at = "none" /\ told'[events'[i].call] \notin {"nothing", "heard"}
             /\ \A j \in 1 .. Len(events') :
                   events'[j].kind = "Connected" /\ events'[j].call = events'[i].call => j = i
  <2>1. CASE i = n + 1
    <3>1. ASSUME NEW j \in 1 .. Len(events'), events'[j].kind = "Connected", events'[j].call = events'[i].call
          PROVE  j = i
      <4>1. CASE j \in 1 .. n
        BY <1>2, <1>3, <1>5, <2>1, <3>1, <4>1, Zenon
      <4> QED
        BY <1>2, <2>1, <4>1
    <3> QED
      BY <1>2, <1>4, <1>5, <2>1, <3>1, Zenon
  <2>2. CASE i \in 1 .. n
    <3>1. ASSUME NEW j \in 1 .. Len(events'), events'[j].kind = "Connected", events'[j].call = events'[i].call
          PROVE  j = i
      <4>1. CASE j \in 1 .. n
        BY <1>2, <1>3, <1>5, <2>2, <3>1, <4>1, Zenon
      <4>2. CASE j = n + 1
        BY <1>2, <1>3, <1>5, <2>2, <3>1, <4>2, Zenon
      <4> QED
        BY <1>2, <4>1, <4>2
    <3> QED
      BY <1>2, <1>3, <1>5, <2>2, <3>1, Zenon
  <2> QED
    BY <1>2, <2>1, <2>2
<1>6. Once'
  BY <1>5, NotesKeep, Zenon DEF Once
<1> QED
  BY <1>1, <1>6, Zenon DEF CallInv

LEMMA WatchKeeps ==
    ASSUME DesktopInv, (\E c \in Calls : Watch(c)) \/ (\E p \in Peers : CallEnded(p))
    PROVE  DesktopInv'
<1> USE DEF DesktopInv
<1>1. SlotInv'
  <2>1. UNCHANGED <<slotvars, tunnel>>
    BY Zenon DEF Watch, WatchConnected, WatchDisconnected, CallEnded, slots, slotvars
  <2> QED
    BY <2>1, SlotFrame, Zenon DEF Falling
<1>2. ASSUME NEW c \in Calls, WatchConnected(c) PROVE CallInv'
  <2>0. PICK x \in {"Connected", "over"} : told' = [told EXCEPT ![c] = x]
    BY <1>2, Zenon DEF WatchConnected
  <2>1. Notes
    <3>1. told[c] = "heard" /\ UNCHANGED <<call, tunnel, session, cancel, sessions>>
      BY <1>2, Zenon DEF WatchConnected
    <3>2. tunnel[c] \notin {"none", "dialing"}
      BY <3>1, Zenon DEF CallInv, Once
    <3>3. /\ told' \in [Calls -> {"nothing", "heard", "Connected", "over", "ended"}]
          /\ told'[c] \notin {"nothing", "heard"} /\ \A d \in Calls \ {c} : told'[d] = told[d]
      BY <2>0, Zenon DEF CallInv, CallTypes
    <3> QED
      BY <3>1, <3>2, <3>3, Zenon DEF Notes, CallInv, CallTypes
  <2>2. CASE told' = [told EXCEPT ![c] = "Connected"] /\ Emit("Connected", PeerOf(c), c)
    <3> DEFINE e == [kind |-> "Connected", peer |-> PeerOf(c), call |-> c]
    <3>1. e \in EventSet /\ e.kind = "Connected" /\ e.call = c
      BY Zenon DEF EventSet, PeerOf, CallInv, CallTypes
    <3>2. events' = Append(events, e) /\ told[e.call] = "heard" /\ told'[e.call] = "Connected"
      BY <1>2, <2>2, <3>1, Zenon DEF Emit, WatchConnected, CallInv, CallTypes
    <3> HIDE DEF e
    <3> QED
      BY <2>1, <3>1, <3>2, EmitKeeps, Zenon
  <2> QED
    BY <1>2, <2>1, <2>2, QuietKeeps, Zenon DEF WatchConnected
<1>3. ASSUME NEW c \in Calls, WatchDisconnected(c) PROVE CallInv'
  <2>1. Notes
    BY <1>3, Zenon DEF WatchDisconnected, Notes, CallInv, CallTypes, Once, PeerOf
  <2> DEFINE e == [kind |-> IF told[c] = "Connected" THEN "Disconnected" ELSE "Failed", peer |-> PeerOf(c), call |-> c]
  <2>2. e \in EventSet /\ e.kind # "Connected"
    BY Zenon DEF EventSet, PeerOf, CallInv, CallTypes
  <2>3. events' = Append(events, e)
    BY <1>3, Zenon DEF WatchDisconnected, Emit
  <2> HIDE DEF e
  <2> QED
    BY <2>1, <2>2, <2>3, EmitKeeps, Zenon
<1>4. ASSUME NEW p \in Peers, CallEnded(p) PROVE CallInv'
  <2>1. Notes
    BY <1>4 DEF CallEnded, Notes, CallInv, CallTypes, Once
  <2> DEFINE e == [kind |-> "Failed", peer |-> p, call |-> cancel[p]]
  <2>2. e \in EventSet /\ e.kind # "Connected"
    BY <1>4 DEF EventSet, CallEnded, CallInv, CallTypes
  <2>3. events' = Append(events, e)
    BY <1>4, Zenon DEF CallEnded, Emit
  <2> HIDE DEF e
  <2> QED
    BY <2>1, <2>2, <2>3, EmitKeeps, Zenon
<1> QED
  BY <1>1, <1>2, <1>3, <1>4, Zenon DEF Watch

-----------------------------------------------------------------------------
(* The events loop and the handlers                                          *)

SessionType == [Calls -> [at : SessionPlaces, slot : SlotOrNone]]

\* As long as the handlers keep their slots, and the pool and the tables theirs, the holders stay.
LEMMA HoldersStay ==
    ASSUME OneHolder, HeldIsTaken, Found, UNCHANGED <<clients, kernel_slots, lost, clearing>>,
           \A d \in Calls : session'[d].slot = session[d].slot
    PROVE  (OneHolder /\ HeldIsTaken /\ Found)'
<1>1. OneHolder'
  BY ZenonT(30) DEF OneHolder
<1>2. HeldIsTaken'
  BY Zenon DEF HeldIsTaken
<1>3. Found'
  BY DEF Found
<1> QED
  BY <1>1, <1>2, <1>3, Zenon

\* Handlers that move on without touching a slot.
LEMMA AtKeeps ==
    ASSUME SlotInv, UNCHANGED <<clients, kernel_slots, lost, clearing, clearer, device>>, Falling,
           session' \in SessionType, NEW c \in Calls, \A d \in Calls \ {c} : session'[d] = session[d],
           session'[c].slot = session[c].slot, session[c].at \in {"done", "over"} => session'[c].at = "over",
           session[c].slot # None => session'[c].at \in {"open", "attach", "install"},
           session'[c].at \in {"open", "attach"} => session[c].slot # None,
           session'[c].at = "attach" => device[session[c].slot] = c,
           session'[c].at = "install" /\ session[c].slot # None => tunnel'[c] = "up" /\ device[session[c].slot] = c
    PROVE  SlotInv'
<1>1. \A d \in Calls : session'[d].slot = session[d].slot
  BY Zenon
<1>2. (SlotTypes /\ Slotted /\ Cleared)'
  BY Zenon DEF SlotInv, SlotTypes, SessionType, Slotted, Cleared
<1>3. (OneHolder /\ HeldIsTaken /\ Found)'
  BY <1>1, HoldersStay, Zenon DEF SlotInv
<1>4. Entries'
  BY Zenon DEF SlotInv, Entries, Installed, SlotTypes, EntrySet, NoEntry, Entry
<1>5. Attached'
  <2>1. ASSUME NEW d \in Calls
        PROVE  /\ session'[d].at = "attach" => device'[session'[d].slot] = d
               /\ session'[d].at = "install" /\ session'[d].slot # None => HasDevice(d, session[d].slot)'
    BY <1>1 DEF SlotInv, Attached, HasDevice, Falling
  <2>2. ASSUME NEW p \in Peers, clients'[p].slot # None PROVE HasDevice(clients[p].tunnel, clients[p].slot)'
    BY <2>2 DEF SlotInv, Attached, HasDevice, Falling, SlotTypes, EntrySet, Entries, Installed, NoEntry, Entry
  <2> QED
    BY <1>1, <2>1, <2>2, Zenon DEF Attached, HasDevice
<1> QED
  BY <1>2, <1>3, <1>4, <1>5, Zenon DEF SlotInv

\* Steps of handlers and clearers: tunnels of calls that are over may go down.
LEMMA LoweredKeeps ==
    ASSUME CallInv, UNCHANGED <<call, cancel, sessions, told, events>>,
           tunnel' \in [Calls -> {"none", "dialing", "up", "down"}],
           \A c \in Calls : tunnel'[c] = tunnel[c] \/ (tunnel'[c] = "down" /\ call[c].at = "over"),
           \A c \in Calls : session[c].at = "none" => session'[c].at = "none"
    PROVE  CallInv'
<1>1. CallTypes'
  BY Zenon DEF CallInv, CallTypes
<1>2. \A c \in Calls : /\ call'[c].at # "over" => tunnel'[c] = "none"
                       /\ tunnel'[c] \in {"none", "dialing"} => told'[c] = "nothing"
                       /\ told'[c] \in {"nothing", "heard"} => session'[c].at = "none"
  BY DEF CallInv, Once
<1>3. \A p \in Peers : sessions'[p] # None => call'[sessions'[p]].at = "over"
  BY Zenon DEF CallInv, Once
<1>4. ASSUME NEW i \in 1 .. Len(events), events[i].kind = "Connected"
      PROVE  session'[events[i].call].at = "none" /\ told'[events[i].call] \notin {"nothing", "heard"}
  <2>1. events[i] \in EventSet
    BY DEF CallInv, CallTypes
  <2>2. events[i].call \in Calls
    BY <2>1, Zenon DEF EventSet
  <2>3. session[events[i].call].at = "none" /\ told[events[i].call] \notin {"nothing", "heard"}
    BY <1>4, Zenon DEF CallInv, Once
  <2> QED
    BY <2>2, <2>3, Zenon
<1>5. Once'
  BY <1>2, <1>3, <1>4 DEF CallInv, Once
<1> QED
  BY <1>1, <1>5, Zenon DEF CallInv

\* The events loop: a Connected starts the handler of a call that has had none.
LEMMA OnEventKeeps == ASSUME DesktopInv, OnEvent PROVE DesktopInv'
<1> USE DEF DesktopInv
<1> DEFINE n == Len(events)
           ev == Head(events)
<1>1. /\ events # <<>> /\ events' = Tail(events) /\ UNCHANGED <<slots, call, manager, device>>
      /\ \/ ev.kind = "Connected" /\ session' = [session EXCEPT ![ev.call].at = "name"]
         \/ UNCHANGED session
  BY Zenon DEF OnEvent, Goto
<1>2. /\ n \in Nat /\ n > 0 /\ Len(events') = n - 1 /\ events' \in Seq(EventSet) /\ ev = events[1] /\ ev \in EventSet
      /\ \A i \in 1 .. n - 1 : events'[i] = events[i + 1]
      /\ \A i \in 1 .. n : events[i] \in EventSet
  BY <1>1 DEF CallInv, CallTypes
<1> HIDE DEF n, ev
<1>3. ev.call \in Calls
  BY <1>2, Zenon DEF EventSet
<1>4. ev.kind = "Connected" => /\ session[ev.call].at = "none" /\ told[ev.call] \notin {"nothing", "heard"}
                               /\ \A j \in 1 .. n : events[j].kind = "Connected" /\ events[j].call = ev.call => j = 1
  <2>1. 1 \in 1 .. Len(events)
    BY <1>2 DEF n
  <2> QED
    BY <1>2, <2>1, Zenon DEF CallInv, Once, n
<1>5. UNCHANGED <<clients, kernel_slots, lost, clearing, clearer, cancel, sessions, tunnel, told>>
  BY <1>1, Zenon DEF slots, manager
<1>6. SlotInv'
  <2>1. CASE UNCHANGED session
    BY <1>1, <1>5, <2>1, SlotFrame, Zenon DEF slotvars, Falling
  <2>2. CASE ev.kind = "Connected" /\ session' = [session EXCEPT ![ev.call].at = "name"]
    <3>1. session \in SessionType
      BY Zenon DEF SlotInv, SlotTypes, SessionType
    <3>2. /\ session' \in SessionType /\ session'[ev.call].at = "name" /\ session'[ev.call].slot = session[ev.call].slot
          /\ \A d \in Calls \ {ev.call} : session'[d] = session[d]
      BY <1>3, <2>2, <3>1, Zenon DEF SessionType, SessionPlaces
    <3>3. session[ev.call].slot = None
      BY <1>3, <1>4, <2>2, Zenon DEF SlotInv, Slotted
    <3> QED
      BY <1>1, <1>3, <1>4, <1>5, <2>2, <3>2, <3>3, AtKeeps, Zenon DEF Falling
  <2> QED
    BY <1>1, <2>1, <2>2, Zenon
<1>7. \A c \in Calls : session'[c].at # session[c].at => ev.kind = "Connected" /\ c = ev.call
  BY <1>1, <1>3, Zenon DEF SlotInv, SlotTypes
<1>8. CallTypes'
  BY <1>1, <1>2, <1>5, Zenon DEF CallInv, CallTypes
<1>9. \A c \in Calls : /\ call'[c].at # "over" => tunnel'[c] = "none"
                       /\ tunnel'[c] \in {"none", "dialing"} => told'[c] = "nothing"
                       /\ told'[c] \in {"nothing", "heard"} => session'[c].at = "none"
  BY <1>1, <1>4, <1>5, <1>7 DEF CallInv, Once
<1>10. \A p \in Peers : sessions'[p] # None => call'[sessions'[p]].at = "over"
  BY <1>1, <1>5, Zenon DEF CallInv, Once
<1>11. ASSUME NEW i \in 1 .. Len(events'), events'[i].kind = "Connected"
       PROVE  /\ session'[events'[i].call].at = "none" /\ told'[events'[i].call] \notin {"nothing", "heard"}
              /\ \A j \in 1 .. Len(events') :
                    events'[j].kind = "Connected" /\ events'[j].call = events'[i].call => j = i
  <2>1. i \in 1 .. n - 1 /\ i + 1 \in 1 .. n /\ i + 1 # 1 /\ events'[i] = events[i + 1]
    BY <1>2
  <2>2. /\ session[events[i + 1].call].at = "none" /\ told[events[i + 1].call] \notin {"nothing", "heard"}
        /\ \A j \in 1 .. n : events[j].kind = "Connected" /\ events[j].call = events[i + 1].call => j = i + 1
    BY <1>11, <2>1 DEF CallInv, Once, n
  <2>3. events[i + 1].call \in Calls
    BY <1>2, <2>1, Zenon DEF EventSet
  <2>4. session'[events[i + 1].call].at = "none"
    <3>1. ev.kind = "Connected" => events[i + 1].call # ev.call
      BY <1>4, <1>11, <2>1, Zenon
    <3> QED
      BY <1>7, <2>2, <2>3, <3>1, Zenon
  <2>5. ASSUME NEW j \in 1 .. Len(events'), events'[j].kind = "Connected", events'[j].call = events'[i].call
        PROVE  j = i
    <3>1. j \in 1 .. n - 1 /\ j + 1 \in 1 .. n /\ events'[j] = events[j + 1]
      BY <1>2
    <3>2. j + 1 = i + 1
      BY <2>1, <2>2, <2>5, <3>1, Zenon
    <3> QED
      BY <2>1, <3>1, <3>2
  <2> QED
    BY <1>5, <2>1, <2>2, <2>4, <2>5, Zenon
<1>12. Once'
  BY <1>9, <1>10, <1>11, Zenon DEF Once
<1> QED
  BY <1>6, <1>8, <1>12, Zenon DEF CallInv

\* A slot that nobody has changes hands: out of the pool to a handler.
LEMMA AllocKeeps == ASSUME SlotInv, NEW c \in Calls, alloc_kernel_slot(c) PROVE SlotInv'
<1> USE NamesAssumption
<1>1. session[c].at = "name" /\ session[c].slot = None /\ UNCHANGED <<clients, lost, clearing, clearer, device, tunnel>>
  BY Zenon DEF alloc_kernel_slot, SlotInv, Slotted, manager
<1>2. CASE SetSession(c, "start", None) /\ UNCHANGED kernel_slots
  <2>1. /\ session' \in SessionType /\ session'[c].at = "start" /\ session'[c].slot = None
        /\ \A d \in Calls \ {c} : session'[d] = session[d]
    BY <1>2, Zenon DEF SlotInv, SlotTypes, SessionType, SetSession, SessionPlaces, SlotOrNone
  <2> QED
    BY <1>1, <1>2, <2>1, AtKeeps, Zenon DEF Falling
<1>3. ASSUME NEW k \in kernel_slots, kernel_slots' = kernel_slots \ {k}, SetSession(c, "open", k)
      PROVE  SlotInv'
  <2>1. k \in Slots /\ k # None
    BY Zenon DEF SlotInv, SlotTypes
  <2>2. /\ session' \in SessionType /\ session'[c].at = "open" /\ session'[c].slot = k
        /\ \A d \in Calls \ {c} : session'[d] = session[d]
    BY <1>3, <2>1, Zenon DEF SlotInv, SlotTypes, SessionType, SetSession, SessionPlaces, SlotOrNone
  <2>3. (SlotTypes /\ Slotted /\ Cleared)'
    BY <1>1, <1>3, <2>1, <2>2, Zenon DEF SlotInv, SlotTypes, SessionType, Slotted, Cleared
  <2>4. Entries'
    BY <1>1, <2>2, Zenon DEF SlotInv, Entries, Installed, SlotTypes, EntrySet, NoEntry, Entry
  <2>5. OneHolder'
    BY <1>1, <1>3, <2>1, <2>2 DEF SlotInv, OneHolder, HeldIsTaken
  <2>6. HeldIsTaken'
    BY <1>1, <1>3, <2>1, <2>2, Zenon DEF SlotInv, HeldIsTaken
  <2>7. Found'
    BY <1>1, <1>3, <2>1, <2>2 DEF SlotInv, Found
  <2>8. Attached'
    BY <1>1, <2>2 DEF SlotInv, Attached, HasDevice
  <2> QED
    BY <2>3, <2>4, <2>5, <2>6, <2>7, <2>8, Zenon DEF SlotInv
<1> QED
  BY <1>2, <1>3, Zenon DEF alloc_kernel_slot

\* A handler gives its slot back and goes on without.
LEMMA GiveBackKeeps ==
    ASSUME SlotInv, NEW c \in Calls, NEW k \in Slots, session[c].slot = k, Release({k}), SetSession(c, "start", None),
           UNCHANGED <<clients, lost, clearing, clearer, tunnel>>,
           device' = device \/ device' = [device EXCEPT ![k] = None]
    PROVE  SlotInv'
<1> USE NamesAssumption
<1>1. k # None /\ session[c].at \in {"open", "attach", "install"} /\ kernel_slots' = kernel_slots \cup {k}
  BY Zenon DEF SlotInv, Slotted, Release
<1>2. /\ session' \in SessionType /\ session'[c].at = "start" /\ session'[c].slot = None
      /\ \A d \in Calls \ {c} : session'[d] = session[d]
  BY Zenon DEF SlotInv, SlotTypes, SessionType, SetSession, SessionPlaces, SlotOrNone
<1>3. device' \in [Slots -> Calls \cup {None}] /\ \A j \in Slots \ {k} : device'[j] = device[j]
  BY Zenon DEF SlotInv, SlotTypes
<1>4. (SlotTypes /\ Slotted /\ Cleared)'
  BY <1>1, <1>2, <1>3, Zenon DEF SlotInv, SlotTypes, SessionType, Slotted, Cleared
<1>5. Entries'
  BY <1>1, <1>2 DEF SlotInv, Entries, Installed, SlotTypes, EntrySet, NoEntry, Entry
<1>6. OneHolder'
  BY <1>2 DEF SlotInv, OneHolder
<1>7. HeldIsTaken'
  BY <1>1, <1>2 DEF SlotInv, OneHolder, HeldIsTaken, SlotTypes
<1>8. Found'
  <2>1. ASSUME NEW j \in Slots, j # k, \E d \in Calls : session[d].slot = j PROVE \E d \in Calls : session'[d].slot = j
    BY <1>2, <2>1, Zenon
  <2> QED
    BY <1>1, <2>1, Zenon DEF SlotInv, Found
<1>9. Attached'
  <2>1. ASSUME NEW d \in Calls \ {c}, session[d].slot # None PROVE session[d].slot \in Slots \ {k}
    BY <2>1 DEF SlotInv, OneHolder, SlotTypes, SlotOrNone
  <2>2. ASSUME NEW p \in Peers, clients[p].slot # None PROVE clients[p].slot \in Slots \ {k}
    BY <1>1, <2>2 DEF SlotInv, OneHolder, SlotTypes, SlotOrNone, EntrySet
  <2>3. ASSUME NEW d \in Calls
        PROVE  /\ session'[d].at = "attach" => device'[session'[d].slot] = d
               /\ session'[d].at = "install" /\ session'[d].slot # None => HasDevice(d, session[d].slot)'
    BY <1>2, <1>3, <2>1 DEF SlotInv, Slotted, Attached, HasDevice
  <2>4. ASSUME NEW p \in Peers, clients'[p].slot # None PROVE HasDevice(clients[p].tunnel, clients[p].slot)'
    BY <1>3, <2>2, <2>4, Zenon DEF SlotInv, Attached, HasDevice
  <2> QED
    BY <2>3, <2>4, Zenon DEF Attached, HasDevice
<1> QED
  BY <1>4, <1>5, <1>6, <1>7, <1>8, <1>9, Zenon DEF SlotInv

\* Opening the slot's device, attaching the tunnel to it, and starting without one.
LEMMA OpenKeeps ==
    ASSUME SlotInv, NEW c \in Calls, open_server_tun(c) \/ attach_tun(c) \/ start_server(c) PROVE SlotInv'
<1> USE NamesAssumption
<1> DEFINE k == session[c].slot
<1>1. UNCHANGED <<clients, lost, clearing, clearer, tunnel>>
  BY Zenon DEF open_server_tun, attach_tun, start_server, slots, manager
<1>2. session \in SessionType
  BY Zenon DEF SlotInv, SlotTypes, SessionType
<1>3. CASE start_server(c)
  <2>1. PICK place \in {"install", "over"} :
          session[c].at = "start" /\ session' = [session EXCEPT ![c].at = place] /\ UNCHANGED <<kernel_slots, device>>
    BY <1>3, Zenon DEF start_server, Goto, slots
  <2>2. /\ session' \in SessionType /\ session'[c].at = place /\ session'[c].slot = session[c].slot
        /\ \A d \in Calls \ {c} : session'[d] = session[d]
    BY <1>2, <2>1, Zenon DEF SessionType, SessionPlaces
  <2>3. session[c].slot = None
    BY <2>1, Zenon DEF SlotInv, Slotted
  <2> QED
    BY <1>1, <2>1, <2>2, <2>3, AtKeeps, Zenon DEF Falling
<1>4. CASE attach_tun(c)
  <2>1. k \in Slots /\ k # None /\ session[c].at = "attach" /\ device[k] = c
    BY <1>4, Zenon DEF attach_tun, SlotInv, SlotTypes, Slotted, SlotOrNone, Attached
  <2>2. CASE tunnel[c] = "up" /\ Goto(c, "install") /\ UNCHANGED <<kernel_slots, device>>
    <3>1. /\ session' \in SessionType /\ session'[c].at = "install" /\ session'[c].slot = session[c].slot
          /\ \A d \in Calls \ {c} : session'[d] = session[d]
      BY <1>2, <2>2, Zenon DEF SessionType, SessionPlaces, Goto
    <3> QED
      BY <1>1, <2>1, <2>2, <3>1, AtKeeps, Zenon DEF Falling
  <2>3. CASE Release({k}) /\ SetSession(c, "start", None) /\ device' = [device EXCEPT ![k] = None]
    <3> HIDE DEF k
    <3> QED
      BY <1>1, <2>1, <2>3, GiveBackKeeps, Zenon DEF k
  <2> QED
    BY <1>4, <2>2, <2>3, Zenon DEF attach_tun
<1>5. CASE open_server_tun(c)
  <2>1. k \in Slots /\ k # None /\ session[c].at = "open"
    BY <1>5, Zenon DEF open_server_tun, SlotInv, SlotTypes, Slotted, SlotOrNone
  <2>2. CASE Release({k}) /\ SetSession(c, "start", None) /\ UNCHANGED device
    <3> HIDE DEF k
    <3> QED
      BY <1>1, <2>1, <2>2, GiveBackKeeps, Zenon DEF k
  <2>3. CASE device[k] = None /\ device' = [device EXCEPT ![k] = c] /\ Goto(c, "attach") /\ UNCHANGED kernel_slots
    <3>1. /\ session' \in SessionType /\ session'[c].at = "attach" /\ session'[c].slot = k
          /\ \A d \in Calls \ {c} : session'[d] = session[d]
      BY <1>2, <2>3, Zenon DEF SessionType, SessionPlaces, Goto
    <3>2. device' \in [Slots -> Calls \cup {None}] /\ device'[k] = c /\ \A j \in Slots \ {k} : device'[j] = device[j]
      BY <2>1, <2>3, Zenon DEF SlotInv, SlotTypes
    <3> HIDE DEF k
    <3>3. (SlotTypes /\ Slotted /\ Cleared)'
      BY <1>1, <2>1, <2>3, <3>1, <3>2 DEF SlotInv, SlotTypes, SessionType, Slotted, Cleared
    <3>4. Entries'
      BY <1>1, <2>1, <3>1, Zenon DEF SlotInv, Entries, Installed, SlotTypes, EntrySet, NoEntry, Entry
    <3>5. \A d \in Calls : session'[d].slot = session[d].slot
      BY <3>1, Zenon DEF k
    <3>6. (OneHolder /\ HeldIsTaken /\ Found)'
      BY <1>1, <2>3, <3>5, HoldersStay, Zenon DEF SlotInv
    <3>7. Attached'
      <4>1. ASSUME NEW d \in Calls \ {c}, session[d].slot # None PROVE session[d].slot \in Slots \ {k}
        BY <4>1 DEF SlotInv, OneHolder, SlotTypes, SlotOrNone, k
      <4>2. ASSUME NEW p \in Peers, clients[p].slot # None PROVE clients[p].slot \in Slots \ {k}
        BY <2>1, <4>2, Zenon DEF SlotInv, OneHolder, SlotTypes, SlotOrNone, EntrySet, k
      <4>3. ASSUME NEW d \in Calls
            PROVE  /\ session'[d].at = "attach" => device'[session'[d].slot] = d
                   /\ session'[d].at = "install" /\ session'[d].slot # None => HasDevice(d, session[d].slot)'
        BY <1>1, <3>1, <3>2, <4>1 DEF SlotInv, Slotted, Attached, HasDevice
      <4>4. ASSUME NEW p \in Peers, clients'[p].slot # None PROVE HasDevice(clients[p].tunnel, clients[p].slot)'
        BY <1>1, <3>2, <4>2, <4>4, Zenon DEF SlotInv, Attached, HasDevice
      <4> QED
        BY <4>3, <4>4, Zenon DEF Attached, HasDevice
    <3> QED
      BY <3>3, <3>4, <3>6, <3>7, Zenon DEF SlotInv
  <2> QED
    BY <1>5, <2>2, <2>3, Zenon DEF open_server_tun
<1> QED
  BY <1>3, <1>4, <1>5, Zenon

\* The handler's slot becomes the entry's; the slot of an entry it overwrites is lost.
LEMMA InstallKeeps == ASSUME DesktopInv, NEW c \in Calls, install_client(c) PROVE SlotInv'
<1> USE NamesAssumption DEF DesktopInv
<1>0. PICK p \in Peers : p = PeerOf(c)
  BY Zenon DEF CallInv, CallTypes, PeerOf
<1> DEFINE k == session[c].slot
           old == clients[p].slot
<1>1. k \in SlotOrNone /\ old \in SlotOrNone
  BY Zenon DEF SlotInv, SlotTypes, EntrySet
<1>2. /\ session[c].at = "install" /\ clients' = [clients EXCEPT ![p] = Entry(c, k)]
      /\ lost' = lost \cup ({old} \ {None}) /\ SetSession(c, "done", None)
      /\ UNCHANGED <<kernel_slots, clearing, clearer, tunnel, device>>
  BY <1>0, Zenon DEF install_client, manager
<1>3. /\ session' \in SessionType /\ session'[c].at = "done" /\ session'[c].slot = None
      /\ \A d \in Calls \ {c} : session'[d] = session[d]
  BY <1>2, Zenon DEF SlotInv, SlotTypes, SessionType, SetSession, SessionPlaces, SlotOrNone
<1>4. /\ clients' \in [Peers -> EntrySet] /\ clients'[p].tunnel = c /\ clients'[p].slot = k
      /\ \A q \in Peers \ {p} : clients'[q] = clients[q]
  BY <1>1, <1>2, Zenon DEF SlotInv, SlotTypes, EntrySet, Entry
<1>5. c # None
  BY CallsNotNone, Zenon
<1>6. (SlotTypes /\ Slotted /\ Cleared)'
  BY <1>1, <1>2, <1>3, <1>4 DEF SlotInv, SlotTypes, SessionType, Slotted, Cleared, SlotOrNone
<1>7. Entries'
  <2>1. ASSUME NEW e \in EntrySet, Installed(e) PROVE Installed(e)'
    BY <1>2, <1>3, <2>1, Zenon DEF Installed, EntrySet
  <2>2. ASSUME NEW q \in Peers \ {p} PROVE Installed(clients[q])'
    <3>1. clients[q] \in EntrySet /\ Installed(clients[q]) /\ clients'[q] = clients[q]
      BY <1>4, Zenon DEF SlotInv, SlotTypes, Entries
    <3> QED
      BY <1>2, <1>3, <3>1, Zenon DEF Installed, EntrySet
  <2>3. Installed(clients[p])'
    <3>1. session'[clients'[p].tunnel].at = "done" /\ clients'[p].tunnel # None
      BY <1>3, <1>4, <1>5, Zenon
    <3> QED
      BY <3>1, Zenon DEF Installed
  <2> QED
    BY <1>2, <2>1, <2>2, <2>3, Zenon DEF SlotInv, SlotTypes, Entries
<1>8. k # None => k # old /\ k \notin kernel_slots \cup lost
  BY <1>1, Zenon DEF SlotInv, OneHolder, HeldIsTaken
<1>9. OneHolder'
  <2>1. \A d \in Calls : session'[d].slot # None => session'[d].slot = session[d].slot /\ d # c
    BY <1>3, Zenon
  <2>2. \A q \in Peers : clients'[q].slot = IF q = p THEN k ELSE clients[q].slot
    BY <1>4, Zenon
  <2>3. \A d \in Calls \ {c} : k # None => session[d].slot # k
    BY Zenon DEF SlotInv, OneHolder
  <2>4. \A q \in Peers : k # None => clients[q].slot # k
    BY Zenon DEF SlotInv, OneHolder
  <2>5. \A e \in clearing : k # None => e.slot # k
    BY Zenon DEF SlotInv, OneHolder
  <2> HIDE DEF k
  <2> QED
    <3>1. UNCHANGED clearing /\ OneHolder
      BY <1>2, Zenon DEF SlotInv
    <3>2. /\ \A a, b \in Calls : session'[a].slot # None /\ session'[a].slot = session'[b].slot => a = b
          /\ \A a \in Calls, q \in Peers : session'[a].slot # None => session'[a].slot # clients'[q].slot
          /\ \A a \in Calls, e \in clearing : session'[a].slot # None => session'[a].slot # e.slot
      BY <2>1, <2>2, <2>3, <3>1 DEF OneHolder
    <3>3. /\ \A q, x \in Peers : clients'[q].slot # None /\ clients'[q].slot = clients'[x].slot => q = x
          /\ \A q \in Peers, e \in clearing : clients'[q].slot # None => clients'[q].slot # e.slot
      BY <2>2, <2>4, <2>5, <3>1 DEF OneHolder
    <3> QED
      BY <3>1, <3>2, <3>3, Zenon DEF OneHolder
<1>10. HeldIsTaken'
  <2>1. \A d \in Calls : session'[d].slot = None \/ (session'[d].slot = session[d].slot /\ session[d].slot # old)
    BY <1>1, <1>3, Zenon DEF SlotInv, OneHolder
  <2>2. \A q \in Peers \ {p} : clients[q].slot = None \/ clients[q].slot # old
    BY <1>1, Zenon DEF SlotInv, OneHolder
  <2>3. \A e \in clearing : e.slot = None \/ e.slot # old
    BY <1>1, Zenon DEF SlotInv, OneHolder
  <2>4. old \notin kernel_slots /\ None \notin kernel_slots \cup lost
    BY <1>1, Zenon DEF SlotInv, HeldIsTaken, SlotTypes
  <2> HIDE DEF k, old
  <2> QED
    BY <1>2, <1>4, <1>8, <2>1, <2>2, <2>3, <2>4, ZenonT(30) DEF SlotInv, HeldIsTaken
<1>11. Found'
  <2>1. ASSUME NEW j \in Slots, NEW d \in Calls, session[d].slot = j
        PROVE  (\E x \in Calls : session'[x].slot = j) \/ (\E q \in Peers : clients'[q].slot = j)
    BY <1>1, <1>3, <1>4, <2>1, Zenon
  <2>2. ASSUME NEW j \in Slots, NEW q \in Peers, clients[q].slot = j
        PROVE  j \in lost' \/ (\E x \in Peers : clients'[x].slot = j)
    BY <1>2, <1>4, <2>2, Zenon
  <2> QED
    BY <1>2, <2>1, <2>2, Zenon DEF SlotInv, Found
<1>12. Attached'
  <2>1. ASSUME NEW d \in Calls
        PROVE  /\ session'[d].at = "attach" => device'[session'[d].slot] = d
               /\ session'[d].at = "install" /\ session'[d].slot # None => HasDevice(d, session[d].slot)'
    BY <1>2, <1>3 DEF SlotInv, Attached, HasDevice
  <2>2. ASSUME NEW q \in Peers, clients'[q].slot # None PROVE HasDevice(clients[q].tunnel, clients[q].slot)'
    BY <1>1, <1>2, <1>4, <2>2 DEF SlotInv, Attached, HasDevice
  <2> QED
    BY <2>1, <2>2, Zenon DEF Attached, HasDevice
<1> QED
  BY <1>6, <1>7, <1>9, <1>10, <1>11, <1>12, Zenon DEF SlotInv

\* The calls of entries are over, so that their tunnels may be put down.
LEMMA EntryOver ==
    ASSUME DesktopInv, NEW e \in EntrySet, Installed(e), e.tunnel # None PROVE e.tunnel \in Calls /\ call[e.tunnel].at = "over"
<1>1. e.tunnel \in Calls
  BY Zenon DEF EntrySet
<1>2. session[e.tunnel].at # "none"
  BY DEF Installed, NoEntry, Entry
<1> QED
  BY <1>1, <1>2, Zenon DEF DesktopInv, CallInv, Once

LEMMA LoweredOver ==
    ASSUME DesktopInv, NEW e \in EntrySet, Installed(e)
    PROVE  /\ Disconnected({e.tunnel}) \in [Calls -> {"none", "dialing", "up", "down"}]
           /\ \A d \in Calls : \/ Disconnected({e.tunnel})[d] = tunnel[d]
                               \/ Disconnected({e.tunnel})[d] = "down" /\ call[d].at = "over"
<1> DEFINE T == {e.tunnel}
<1>1. CallTypes
  BY Zenon DEF DesktopInv, CallInv
<1>2. /\ Disconnected(T) \in [Calls -> {"none", "dialing", "up", "down"}]
      /\ \A d \in Calls : Disconnected(T)[d] = IF d \in T \ {None} THEN "down" ELSE tunnel[d]
  BY <1>1, Falls
<1>3. ASSUME NEW d \in Calls, d \in T \ {None} PROVE call[d].at = "over"
  BY <1>3, EntryOver, Zenon
<1> QED
  BY <1>2, <1>3, Zenon

\* remove_client gives the slot of the peer's entry back, whosever it is.
LEMMA RemoveKeeps ==
    ASSUME DesktopInv, NEW p \in Peers, remove_client(p), UNCHANGED <<lost, clearing, clearer, device, call, cancel, sessions, told, events>>,
           session' \in SessionType,
           \A d \in Calls : /\ session'[d].slot = session[d].slot
                            /\ session'[d].at = session[d].at \/ (session[d].at = "done" /\ session'[d].at = "over")
    PROVE  DesktopInv'
<1> USE NamesAssumption DEF DesktopInv
<1> DEFINE k == clients[p].slot
<1>1. /\ clients' = [clients EXCEPT ![p] = NoEntry] /\ kernel_slots' = kernel_slots \cup ({k} \ {None})
      /\ tunnel' = Disconnected({clients[p].tunnel})
  BY Zenon DEF remove_client, Release
<1>2. k \in SlotOrNone /\ clients[p] \in EntrySet /\ Installed(clients[p])
  BY Zenon DEF SlotInv, SlotTypes, EntrySet, Entries
<1>3. /\ clients' \in [Peers -> EntrySet] /\ clients'[p] = NoEntry /\ clients'[p].slot = None
      /\ \A q \in Peers \ {p} : clients'[q] = clients[q]
  BY <1>1, Zenon DEF SlotInv, SlotTypes, EntrySet, NoEntry, Entry, SlotOrNone
<1>4. /\ tunnel' \in [Calls -> {"none", "dialing", "up", "down"}]
      /\ \A d \in Calls : tunnel'[d] = tunnel[d] \/ (tunnel'[d] = "down" /\ call[d].at = "over")
  BY <1>1, <1>2, LoweredOver, Zenon
<1>5. CallInv'
  BY <1>4, LoweredKeeps, Zenon
<1>6. (SlotTypes /\ Slotted /\ Cleared)'
  BY <1>1, <1>2, <1>3, Zenon DEF SlotInv, SlotTypes, SessionType, Slotted, Cleared, SlotOrNone
<1>7. Entries'
  <2>1. ASSUME NEW q \in Peers PROVE Installed(clients[q])'
    <3>1. CASE q = p
      BY <1>3, <3>1, Zenon DEF Installed, NoEntry, Entry
    <3>2. CASE q # p
      <4>1. clients'[q] = clients[q] /\ clients[q] \in EntrySet /\ Installed(clients[q])
        BY <1>3, <3>2, Zenon DEF SlotInv, SlotTypes, Entries
      <4> QED
        BY <4>1, Zenon DEF Installed, EntrySet
    <3> QED
      BY <3>1, <3>2, Zenon
  <2>2. ASSUME NEW e \in clearing PROVE Installed(e)'
    <3>1. e \in EntrySet /\ Installed(e)
      BY Zenon DEF SlotInv, SlotTypes, Entries
    <3> QED
      BY <3>1, Zenon DEF Installed, EntrySet
  <2> QED
    BY <2>1, <2>2, Zenon DEF Entries
<1>8. \A q \in Peers : clients'[q].slot = IF q = p THEN None ELSE clients[q].slot
  BY <1>3, Zenon
<1>9. OneHolder'
  BY <1>8 DEF SlotInv, OneHolder
<1>10. HeldIsTaken'
  <2>1. \A d \in Calls : session[d].slot = None \/ session[d].slot # k
    BY Zenon DEF SlotInv, OneHolder
  <2>2. \A q \in Peers \ {p} : clients[q].slot = None \/ clients[q].slot # k
    BY Zenon DEF SlotInv, OneHolder
  <2>3. \A e \in clearing : e.slot = None \/ e.slot # k
    BY Zenon DEF SlotInv, OneHolder
  <2>4. k \notin lost /\ None \notin kernel_slots \cup lost
    BY Zenon DEF SlotInv, HeldIsTaken, SlotTypes
  <2>5. HeldIsTaken /\ UNCHANGED <<lost, clearing>>
    BY Zenon DEF SlotInv
  <2> HIDE DEF k
  <2>6. \A d \in Calls : session'[d].slot \notin kernel_slots' \cup lost'
    BY <1>1, <2>1, <2>4, <2>5, Zenon DEF HeldIsTaken
  <2>7. \A q \in Peers : clients'[q].slot \notin kernel_slots' \cup lost'
    BY <1>1, <1>8, <2>2, <2>4, <2>5 DEF HeldIsTaken
  <2>8. \A e \in clearing : e.slot \notin kernel_slots' \cup lost'
    BY <1>1, <2>3, <2>4, <2>5, Zenon DEF HeldIsTaken
  <2>9. kernel_slots' \cap lost' = {}
    BY <1>1, <2>4, <2>5, Zenon DEF HeldIsTaken
  <2> QED
    BY <2>5, <2>6, <2>7, <2>8, <2>9, Zenon DEF HeldIsTaken
<1>11. Found'
  <2>1. ASSUME NEW j \in Slots, NEW q \in Peers, clients[q].slot = j
        PROVE  j \in kernel_slots' \/ (\E x \in Peers : clients'[x].slot = j)
    BY <1>1, <1>8, <2>1, Zenon
  <2> QED
    BY <1>1, <2>1 DEF SlotInv, Found
<1>12. Attached'
  <2>1. ASSUME NEW d \in Calls
        PROVE  /\ session'[d].at = "attach" => device'[session'[d].slot] = d
               /\ session'[d].at = "install" /\ session'[d].slot # None => HasDevice(d, session[d].slot)'
    BY <1>4 DEF SlotInv, Attached, HasDevice
  <2>2. ASSUME NEW q \in Peers, clients'[q].slot # None PROVE HasDevice(clients[q].tunnel, clients[q].slot)'
    <3>1. q # p /\ clients'[q] = clients[q] /\ clients[q].slot # None
      BY <1>3, <2>2, Zenon
    <3>2. clients[q].tunnel \in Calls /\ HasDevice(clients[q].tunnel, clients[q].slot)
      BY <3>1 DEF SlotInv, SlotTypes, EntrySet, Entries, Installed, NoEntry, Entry, Attached
    <3> QED
      BY <1>4, <3>1, <3>2 DEF HasDevice
  <2> QED
    BY <2>1, <2>2, Zenon DEF Attached, HasDevice
<1> QED
  BY <1>5, <1>6, <1>7, <1>9, <1>10, <1>11, <1>12, Zenon DEF SlotInv

\* clear_all takes every entry, and then lets go of one at a time.
LEMMA ClearTakeKeeps ==
    ASSUME SlotInv, NEW owner, owner # "nobody", ClearTake(owner), UNCHANGED <<session, device, tunnel>> PROVE SlotInv'
<1> USE NamesAssumption
<1>1. /\ clearing = {} /\ clearer' = owner /\ UNCHANGED <<kernel_slots, lost>>
      /\ clients' = [p \in Peers |-> NoEntry] /\ clearing' = {clients[p] : p \in Peers} \ {NoEntry}
  BY Zenon DEF ClearTake, SlotInv, Cleared
<1>2. NoEntry \in EntrySet /\ NoEntry.slot = None
  BY Zenon DEF NoEntry, Entry, EntrySet, SlotOrNone
<1>3. \A e \in clearing' : \E p \in Peers : e = clients[p]
  BY <1>1, Zenon
<1>4. \A p \in Peers : clients[p].slot # None => clients[p] \in clearing'
  BY <1>1, <1>2, Zenon
<1>5. \A p \in Peers : clients'[p] = NoEntry /\ clients'[p].slot = None
  BY <1>1, <1>2, Zenon
<1>6. (SlotTypes /\ Slotted /\ Cleared)'
  <2>1. clearing' \subseteq EntrySet /\ clients' \in [Peers -> EntrySet]
    BY <1>1, <1>2, <1>3 DEF SlotInv, SlotTypes
  <2> QED
    BY <1>1, <2>1, Zenon DEF SlotInv, SlotTypes, Slotted, Cleared
<1>7. Entries'
  <2>1. ASSUME NEW e \in clearing' PROVE Installed(e)'
    BY <1>3, Zenon DEF SlotInv, Entries, Installed
  <2>2. ASSUME NEW p \in Peers PROVE Installed(clients[p])'
    BY <1>5, Zenon DEF Installed
  <2> QED
    BY <2>1, <2>2, Zenon DEF Entries
<1>8. OneHolder'
  <2>1. \A e, f \in clearing' : e.slot # None /\ e.slot = f.slot => e = f
    BY <1>3 DEF SlotInv, OneHolder
  <2>2. \A c \in Calls, e \in clearing' : session[c].slot # None => session[c].slot # e.slot
    BY <1>3 DEF SlotInv, OneHolder
  <2>3. \A c, d \in Calls : session[c].slot # None /\ session[c].slot = session[d].slot => c = d
    BY Zenon DEF SlotInv, OneHolder
  <2> QED
    BY <1>5, <2>1, <2>2, <2>3, Zenon DEF OneHolder
<1>9. HeldIsTaken'
  <2>1. \A e \in clearing' : e.slot \notin kernel_slots \cup lost
    BY <1>3, Zenon DEF SlotInv, HeldIsTaken
  <2>2. None \notin kernel_slots \cup lost
    BY Zenon DEF SlotInv, SlotTypes
  <2> QED
    BY <1>1, <1>5, <2>1, <2>2, Zenon DEF SlotInv, HeldIsTaken
<1>10. Found'
  <2>1. ASSUME NEW j \in Slots, NEW p \in Peers, clients[p].slot = j PROVE \E e \in clearing' : e.slot = j
    BY <1>4, <2>1, Zenon
  <2> QED
    BY <1>1, <2>1, Zenon DEF SlotInv, Found
<1>11. Attached'
  BY <1>5, Zenon DEF SlotInv, Attached, HasDevice
<1> QED
  BY <1>6, <1>7, <1>8, <1>9, <1>10, <1>11, Zenon DEF SlotInv

LEMMA ClearOneKeeps == ASSUME DesktopInv, NEW e \in clearing, ClearOne(e) PROVE DesktopInv'
<1> USE NamesAssumption DEF DesktopInv
<1>1. /\ clearing' = clearing \ {e} /\ kernel_slots' = kernel_slots \cup ({e.slot} \ {None})
      /\ tunnel' = Disconnected({e.tunnel})
      /\ UNCHANGED <<clients, lost, clearer, call, cancel, sessions, told, events, session, device>>
  BY Zenon DEF ClearOne, Release, loop
<1>2. e \in EntrySet /\ Installed(e) /\ e.slot \in SlotOrNone
  BY Zenon DEF SlotInv, SlotTypes, Entries, EntrySet
<1>3. /\ tunnel' \in [Calls -> {"none", "dialing", "up", "down"}]
      /\ \A d \in Calls : tunnel'[d] = tunnel[d] \/ (tunnel'[d] = "down" /\ call[d].at = "over")
  BY <1>1, <1>2, LoweredOver, Zenon
<1>4. CallInv'
  BY <1>1, <1>3, LoweredKeeps, Zenon
<1>5. (SlotTypes /\ Slotted /\ Cleared)'
  BY <1>1, <1>2, Zenon DEF SlotInv, SlotTypes, Slotted, Cleared, SlotOrNone
<1>6. Entries'
  BY <1>1, Zenon DEF SlotInv, Entries, Installed
<1>7. OneHolder'
  BY <1>1, Zenon DEF SlotInv, OneHolder
<1>8. HeldIsTaken'
  <2>1. \A d \in Calls : session[d].slot = None \/ session[d].slot # e.slot
    BY Zenon DEF SlotInv, OneHolder
  <2>2. \A q \in Peers : clients[q].slot = None \/ clients[q].slot # e.slot
    BY Zenon DEF SlotInv, OneHolder
  <2>3. \A f \in clearing' : f.slot = None \/ f.slot # e.slot
    BY <1>1, Zenon DEF SlotInv, OneHolder
  <2>4. e.slot \notin lost /\ None \notin kernel_slots \cup lost
    BY Zenon DEF SlotInv, HeldIsTaken, SlotTypes
  <2> QED
    BY <1>1, <2>1, <2>2, <2>3, <2>4, Zenon DEF SlotInv, HeldIsTaken
<1>9. Found'
  <2>1. ASSUME NEW j \in Slots, NEW f \in clearing, f.slot = j
        PROVE  j \in kernel_slots' \/ (\E g \in clearing' : g.slot = j)
    BY <1>1, <2>1, Zenon
  <2> QED
    BY <1>1, <2>1, Zenon DEF SlotInv, Found
<1>10. Attached'
  <2>1. ASSUME NEW d \in Calls
        PROVE  /\ session'[d].at = "attach" => device'[session'[d].slot] = d
               /\ session'[d].at = "install" /\ session'[d].slot # None => HasDevice(d, session[d].slot)'
    BY <1>1, <1>3, Zenon DEF SlotInv, Attached, HasDevice
  <2>2. ASSUME NEW q \in Peers, clients'[q].slot # None PROVE HasDevice(clients[q].tunnel, clients[q].slot)'
    <3>1. clients[q].tunnel \in Calls /\ HasDevice(clients[q].tunnel, clients[q].slot)
      BY <1>1, <2>2 DEF SlotInv, SlotTypes, EntrySet, Entries, Installed, NoEntry, Entry, Attached
    <3> QED
      BY <1>1, <1>3, <3>1, Zenon DEF HasDevice
  <2> QED
    BY <2>1, <2>2, Zenon DEF Attached, HasDevice
<1> QED
  BY <1>4, <1>5, <1>6, <1>7, <1>8, <1>9, <1>10, Zenon DEF SlotInv

\* The bridge that goes is that of a tunnel that is down.
LEMMA CloseKeeps == ASSUME DesktopInv, NEW k \in Slots, CloseDevice(k) PROVE DesktopInv'
<1> USE DEF DesktopInv
<1>1. UNCHANGED <<slots, session, call, manager, events>> /\ device' = [device EXCEPT ![k] = None]
  BY Zenon DEF CloseDevice, loop
<1>2. CallInv'
  <2>1. tunnel \in [Calls -> {"none", "dialing", "up", "down"}]
    BY Zenon DEF CallInv, CallTypes
  <2> QED
    BY <1>1, <2>1, LoweredKeeps, Zenon DEF manager
<1>3. (Slotted /\ Cleared /\ OneHolder /\ HeldIsTaken /\ Found /\ SlotTypes)'
  BY <1>1 DEF SlotInv, slots, SlotTypes, Slotted, Cleared, OneHolder, HeldIsTaken, Found
<1>4. Entries'
  BY <1>1, Zenon DEF SlotInv, slots, Entries, Installed
<1>5. Attached'
  <2>1. tunnel[device[k]] = "down" /\ session[device[k]].at # "attach"
    BY Zenon DEF CloseDevice
  <2>2. \A d, j : j # k => device'[j] = device[j] \/ j \notin Slots
    BY <1>1, Zenon DEF SlotInv, SlotTypes
  <2>3. ASSUME NEW d \in Calls, NEW j \in SlotOrNone, j # None, HasDevice(d, j) PROVE HasDevice(d, j)'
    BY <1>1, <2>1, <2>2, <2>3, Zenon DEF HasDevice, manager, SlotOrNone
  <2>4. ASSUME NEW d \in Calls, session[d].at = "attach" PROVE device'[session[d].slot] = d
    BY <2>1, <2>2, <2>4, Zenon DEF SlotInv, SlotTypes, SlotOrNone, Slotted, Attached
  <2>5. ASSUME NEW d \in Calls, session[d].at = "install", session[d].slot # None PROVE HasDevice(d, session[d].slot)'
    <3>1. HasDevice(d, session[d].slot) /\ session[d].slot \in SlotOrNone
      BY <2>5, Zenon DEF SlotInv, SlotTypes, Attached
    <3> QED
      BY <1>1, <2>3, <2>5, <3>1, Zenon DEF HasDevice
  <2>6. ASSUME NEW p \in Peers, clients[p].slot # None PROVE HasDevice(clients[p].tunnel, clients[p].slot)'
    <3>1. clients[p].tunnel \in Calls /\ clients[p].slot \in SlotOrNone /\ HasDevice(clients[p].tunnel, clients[p].slot)
      BY <2>6 DEF SlotInv, SlotTypes, EntrySet, Entries, Installed, NoEntry, Entry, Attached
    <3> QED
      BY <1>1, <2>3, <2>6, <3>1, Zenon DEF HasDevice, slots
  <2> QED
    BY <1>1, <2>4, <2>5, <2>6, Zenon DEF Attached, HasDevice, slots
<1> QED
  BY <1>2, <1>3, <1>4, <1>5, Zenon DEF SlotInv

LEMMA HandleKeeps == ASSUME DesktopInv, NEW c \in Calls, HandleSession(c) PROVE DesktopInv'
<1> USE DEF DesktopInv
<1>0. session \in SessionType /\ tunnel \in [Calls -> {"none", "dialing", "up", "down"}]
  BY Zenon DEF SlotInv, SlotTypes, SessionType, CallInv, CallTypes
<1>1. CASE SessionOver(c)
  <2>1. PICK p \in Peers : p = PeerOf(c)
    BY Zenon DEF CallInv, CallTypes, PeerOf
  <2>2. /\ remove_client(p) /\ UNCHANGED <<lost, clearing, clearer, device, call, cancel, sessions, told, events>>
        /\ session[c].at = "done" /\ session' = [session EXCEPT ![c].at = "over"]
    BY <1>1, <2>1, Zenon DEF SessionOver, Goto
  <2>3. /\ session' \in SessionType
        /\ \A d \in Calls : /\ session'[d].slot = session[d].slot
                            /\ session'[d].at = session[d].at \/ (session[d].at = "done" /\ session'[d].at = "over")
    BY <1>0, <2>2, Zenon DEF SessionType, SessionPlaces
  <2> QED
    BY <2>2, <2>3, RemoveKeeps, Zenon
<1>2. CASE alloc_kernel_slot(c) \/ open_server_tun(c) \/ attach_tun(c) \/ start_server(c) \/ install_client(c)
  <2>1. SlotInv'
    BY <1>2, AllocKeeps, OpenKeeps, InstallKeeps, Zenon
  <2>2. UNCHANGED <<call, manager, events>>
    BY <1>2, Zenon DEF alloc_kernel_slot, open_server_tun, attach_tun, start_server, install_client, loop
  <2>3. session[c].at # "none" /\ \A d \in Calls \ {c} : session'[d] = session[d]
    BY <1>0, <1>2, Zenon DEF alloc_kernel_slot, open_server_tun, attach_tun, start_server, install_client,
       SetSession, Goto, SessionType
  <2>4. CallInv'
    BY <1>0, <2>2, <2>3, LoweredKeeps, Zenon DEF manager
  <2> QED
    BY <2>1, <2>4, Zenon
<1> QED
  BY <1>1, <1>2, Zenon DEF HandleSession

\* Steps that leave the slots, the calls and their tunnels alone.
LEMMA IdleKeeps == ASSUME DesktopInv, UNCHANGED <<slots, call, manager, events, session, device>> PROVE DesktopInv'
<1>1. SlotInv'
  BY SlotFrame, Zenon DEF DesktopInv, slots, slotvars, Falling, manager
<1>2. CallInv'
  BY CallFrame, Zenon DEF DesktopInv, CallInv, CallTypes, CallType, manager
<1> QED
  BY <1>1, <1>2, Zenon DEF DesktopInv

LEMMA TakeKeeps ==
    ASSUME DesktopInv, NEW owner, owner # "nobody", ClearTake(owner), UNCHANGED <<call, manager, events, session, device>>
    PROVE  DesktopInv'
<1>1. SlotInv'
  BY ClearTakeKeeps, Zenon DEF DesktopInv, manager
<1>2. CallInv'
  BY CallFrame, Zenon DEF DesktopInv, CallInv, CallTypes, CallType, manager
<1> QED
  BY <1>1, <1>2, Zenon DEF DesktopInv

\* Ending every registered session puts down tunnels of calls that are over.
LEMMA AllDownKeeps ==
    ASSUME DesktopInv, tunnel' = Disconnected({sessions[p] : p \in Peers}),
           UNCHANGED <<slots, call, cancel, sessions, told, events, session, device>>
    PROVE  DesktopInv'
<1> DEFINE T == {sessions[p] : p \in Peers}
<1>1. \A c \in (T \ {None}) \cap Calls : call[c].at = "over"
  <2>1. ASSUME NEW p \in Peers, sessions[p] # None PROVE call[sessions[p]].at = "over"
    BY <2>1, Zenon DEF DesktopInv, CallInv, Once
  <2> QED
    BY <2>1, Zenon
<1>2. told' \in [Calls -> {"nothing", "heard", "Connected", "over", "ended"}] /\ UNCHANGED slotvars
  BY Zenon DEF DesktopInv, CallInv, CallTypes, slots, slotvars
<1> QED
  BY <1>1, <1>2, DownKeeps, Zenon

LEMMA HttpKeeps == ASSUME DesktopInv, NEW r \in Requests, HttpRequest(r) \/ Continue(r) PROVE DesktopInv'
<1>1. CASE \/ \E l \in Lists, how \in {"add", "remove"}, p \in Peers : EditList(r, l, p, how)
           \/ AddAnswered(r) \/ Snapshot(r) \/ Save(r) \/ (\E n \in Caps : set_max_clients(r, n))
  <2>1. UNCHANGED <<slots, call, manager, events, session, device>>
    BY <1>1, Zenon DEF EditList, AddAnswered, Snapshot, Save, set_max_clients, loop
  <2> QED
    BY <2>1, IdleKeeps, Zenon
<1>2. CASE \E p \in Peers : AnswerRow(r, p, "Accept", "none") \/ AnswerRow(r, p, "Accept", "admission") \/ AnswerRow(r, p, "Reject", "blacklist")
  BY <1>2, RowKeeps, Zenon DEF Answers
<1>3. CASE \E p \in Peers : tunnel_client_disconnect(r, p)
  <2>1. PICK p \in Peers : tunnel_client_disconnect(r, p)
    BY <1>3, Zenon
  <2>2. remove_client(p) /\ UNCHANGED <<lost, clearing, clearer, device, call, cancel, sessions, told, events, session>>
    BY <2>1, Zenon DEF tunnel_client_disconnect, loop
  <2>3. session' \in SessionType
    BY <2>2, Zenon DEF DesktopInv, SlotInv, SlotTypes, SessionType
  <2> QED
    BY <2>2, <2>3, RemoveKeeps, Zenon
<1>4. CASE set_config(r)
  BY <1>4, AllDownKeeps, Zenon DEF set_config, loop
<1>5. CASE disconnect(r)
  <2>1. UNCHANGED <<call, cancel, sessions, told, events, session, device>>
    BY <1>5, Zenon DEF disconnect, loop
  <2>2. CASE ClearTake(r) /\ UNCHANGED tunnel
    BY <2>1, <2>2, NamesAssumption, TakeKeeps, Zenon DEF manager
  <2>3. CASE tunnel' = Disconnected({sessions[p] : p \in Peers}) /\ UNCHANGED slots
    BY <2>1, <2>3, AllDownKeeps, Zenon
  <2> QED
    BY <1>5, <2>2, <2>3, Zenon DEF disconnect, Disconnect
<1> QED
  BY <1>1, <1>2, <1>3, <1>4, <1>5, Zenon DEF HttpRequest, Continue

LEMMA TeardownKeeps == ASSUME DesktopInv, Teardown PROVE DesktopInv'
<1>1. UNCHANGED <<call, manager, events, session, device>>
  BY Zenon DEF Teardown, loop
<1>2. CASE ClearTake("mode")
  BY <1>1, <1>2, TakeKeeps, Zenon
<1>3. CASE UNCHANGED slots
  BY <1>1, <1>3, IdleKeeps, Zenon
<1> QED
  BY <1>2, <1>3, Zenon DEF Teardown, TeardownMode

LEMMA DesktopNext == DesktopInv /\ [Next]_vars => DesktopInv'
<1> SUFFICES ASSUME DesktopInv, [Next]_vars PROVE DesktopInv'
  BY Zenon
<1>1. CASE UNCHANGED vars
  BY <1>1, IdleKeeps, Zenon DEF vars, loop
<1>2. ASSUME NEW c \in Calls,
             \/ \E p \in Peers : IncomingCall(c, p)
             \/ Decide(c) \/ DecideTimeout(c)
             \/ Join(c) \/ AcceptFails(c) \/ TunnelUp(c) \/ TunnelEnds(c) \/ TunnelTimesOut(c)
             \/ Watch(c) \/ HandleSession(c)
      PROVE  DesktopInv'
  BY <1>2, DecisionKeeps, TunnelKeeps, WatchKeeps, HandleKeeps, Zenon
<1>3. CASE \E p \in Peers : CallEnded(p) \/ Resolve(p)
  BY <1>3, WatchKeeps, RowKeeps, Zenon
<1>4. CASE Clear
  BY <1>4, ClearOneKeeps, ClearRowsKeeps, Zenon DEF Clear
<1> QED
  BY <1>1, <1>2, <1>3, <1>4, CloseKeeps, HttpKeeps, OnEventKeeps, TeardownKeeps, Zenon DEF Next

-----------------------------------------------------------------------------
LEMMA DesktopOwned == DesktopInv => SlotsOwned
<1> SUFFICES ASSUME DesktopInv PROVE SlotsOwned
  BY Zenon
<1> USE NamesAssumption DEF DesktopInv, SlotInv
<1>1. ASSUME NEW k \in Slots, NEW h \in Holders(k)
      PROVE  \/ \E c \in Calls : session[c].slot = k /\ h = <<"session", c>>
             \/ \E p \in Peers : clients[p].slot = k /\ h = <<"client", p>>
             \/ \E e \in clearing : e.slot = k /\ h = <<"clearing", e>>
  BY Zenon DEF Holders
<1>2. ASSUME NEW k \in Slots, NEW h \in Holders(k) PROVE k \notin kernel_slots /\ k \notin lost
  BY <1>1, ZenonT(30) DEF HeldIsTaken
<1>3. ASSUME NEW k \in Slots, NEW g \in Holders(k), NEW h \in Holders(k) PROVE g = h
  <2>1. k # None
    BY Zenon
  <2>2. CASE \E c \in Calls : session[c].slot = k /\ g = <<"session", c>>
    BY <1>1, <2>1, <2>2 DEF OneHolder
  <2>3. CASE \E p \in Peers : clients[p].slot = k /\ g = <<"client", p>>
    BY <1>1, <2>1, <2>3 DEF OneHolder
  <2>4. CASE \E e \in clearing : e.slot = k /\ g = <<"clearing", e>>
    BY <1>1, <2>1, <2>4 DEF OneHolder
  <2> QED
    BY <1>1, <2>2, <2>3, <2>4, Zenon
<1>4. SlotsApart
  <2>1. kernel_slots \cap lost = {}
    BY Zenon DEF HeldIsTaken
  <2> QED
    BY <1>2, <1>3, <2>1, Zenon DEF SlotsApart
<1>5. SlotsAccounted
  <2>1. ASSUME NEW k \in Slots, k \notin kernel_slots, k \notin lost PROVE Holders(k) # {}
    <3>1. ASSUME NEW c \in Calls, session[c].slot = k PROVE <<"session", c>> \in Holders(k)
      BY <3>1, Zenon DEF Holders
    <3>2. ASSUME NEW p \in Peers, clients[p].slot = k PROVE <<"client", p>> \in Holders(k)
      BY <3>2, Zenon DEF Holders
    <3>3. ASSUME NEW e \in clearing, e.slot = k PROVE <<"clearing", e>> \in Holders(k)
      BY <3>3, Zenon DEF Holders
    <3> QED
      BY <2>1, <3>1, <3>2, <3>3, Zenon DEF Found
  <2> QED
    BY <2>1, Zenon DEF SlotsAccounted
<1>6. OwnDevice
  BY Zenon DEF OwnDevice, Attached, HasDevice
<1> QED
  BY <1>4, <1>5, <1>6, Zenon DEF SlotsOwned

\* SlotsOwned for any number of peers, calls, slots and requests: alloc_kernel_slot,
\* open_server_tun, remove_client and clear_all, however a kick, a mode switch and
\* POST /disconnect fall between their steps, keep every kernel slot with one owner,
\* let none disappear on a failure path, and leave an installed client its device.
THEOREM SlotsStayOwned == Spec => []SlotsOwned
<1>1. Init => DesktopInv
  BY DesktopInit, Zenon
<1>2. DesktopInv /\ [Next]_vars => DesktopInv'
  BY DesktopNext, Zenon
<1>3. DesktopInv => SlotsOwned
  BY DesktopOwned, Zenon
<1> QED
  BY <1>1, <1>2, <1>3, PTL DEF Spec

-----------------------------------------------------------------------------
(* The mode loop.  NoTightLoop is not inductive: a dial that fails needs a    *)
(* selection that no earlier failure has used up.  The invariant says where   *)
(* that selection is meanwhile: in the configuration or with run_client,      *)
(* which has a peer just while it is dialling it (Engaged).                   *)

ModeOrNone == {"client", "server", no_one}
PeerOrNone == Servers \cup {no_one}
DialPlaces == {"resolve", "place", "recv", "socks5", "publish", "done", "ok", "error"}
LoopType == [at : {"auth", "connect", "choose", "wait", "run", "teardown"}, mode : ModeOrNone]
ClientType == [at : DialPlaces \cup {"off", "start", "parked"}, peer : PeerOrNone]
CfgType == [mode : ModeOrNone, peer : PeerOrNone]
HandlerType == [at : {"unborn", "cfg", "mode", "send", "done"},
                kind : {"none", "config", "end_call", "logout", "login", "connect", "disconnect"},
                mode : ModeOrNone, peer : PeerOrNone]

DaemonTypes ==
    /\ at \in LoopType /\ client \in ClientType /\ cfg \in CfgType
    /\ handler \in [ModeRequests -> HandlerType]
    /\ connects \in Nat /\ failed \in Nat

Engaged ==
    /\ at.at # "run" => client.at = "off"
    /\ client.at \in DialPlaces <=> client.peer # no_one

Selected == cfg.peer # no_one \/ client.peer # no_one
Unspent == failed <= connects /\ (Selected => failed < connects)

DaemonInv == DaemonTypes /\ Engaged /\ Unspent

LEMMA DaemonInit == Daemon!Init => DaemonInv
<1> SUFFICES ASSUME Daemon!Init PROVE DaemonInv
  BY Zenon
<1>1. DaemonTypes
  BY Zenon DEF Daemon!Init, Daemon!Modes, Daemon!NoHandler, DaemonTypes, LoopType, ClientType, CfgType, HandlerType, ModeOrNone, PeerOrNone
<1>2. Engaged
  BY Zenon DEF Daemon!Init, Engaged, DialPlaces
<1>3. Unspent
  BY DEF Daemon!Init, Unspent, Selected
<1> QED
  BY <1>1, <1>2, <1>3, Zenon DEF DaemonInv

\* The loop's own steps: only an error spends a selection, and takes it from the configuration.
LEMMA RunModeKeeps == ASSUME DaemonInv, Daemon!run_mode PROVE DaemonInv'
<1> USE DEF DaemonInv
<1>1. CASE Daemon!Authenticated \/ Daemon!ConnectWs \/ Daemon!ModePicked \/ Daemon!teardown_mode
  <2>1. /\ UNCHANGED <<client, cfg, handler, connects, failed>>
        /\ at.at # "run"
        /\ \E x \in {"connect", "choose", "auth"} : at' = [at EXCEPT !.at = x]
    BY <1>1, Zenon DEF Daemon!Authenticated, Daemon!ConnectWs, Daemon!ModePicked, Daemon!teardown_mode, Daemon!Loop, Daemon!http
  <2>2. DaemonTypes'
    BY <2>1, Zenon DEF DaemonTypes, LoopType
  <2>3. Engaged' /\ Unspent'
    BY <2>1, Zenon DEF Engaged, Unspent, Selected
  <2> QED
    BY <2>2, <2>3, Zenon
<1>2. CASE Daemon!ChooseMode
  <2>1. /\ UNCHANGED <<cfg, handler, connects, failed>> /\ at.at = "choose" /\ client.at = "off"
        /\ at' = IF cfg.mode = no_one THEN [at |-> "wait", mode |-> no_one] ELSE [at |-> "run", mode |-> cfg.mode]
        /\ client' = IF cfg.mode = "client" THEN [client EXCEPT !.at = "start"] ELSE client
    BY <1>2, Zenon DEF Daemon!ChooseMode, Daemon!http, Engaged
  <2>2. DaemonTypes'
    BY <2>1, Zenon DEF DaemonTypes, LoopType, ClientType, CfgType, ModeOrNone
  <2>3. Engaged'
    BY <2>1, NoModeAssumption, Zenon DEF DaemonTypes, LoopType, ClientType, Engaged, DialPlaces
  <2>4. client'.peer = client.peer
    BY <2>1, Zenon DEF DaemonTypes, ClientType
  <2>5. Unspent'
    BY <2>1, <2>4, Zenon DEF Unspent, Selected
  <2> QED
    BY <2>2, <2>3, <2>5, Zenon
<1>3. CASE Daemon!ModeChanged
  <2>1. /\ UNCHANGED <<cfg, handler, connects, failed>> /\ at' = [at EXCEPT !.at = "teardown"]
        /\ client' = [at |-> "off", peer |-> no_one]
    BY <1>3, Zenon DEF Daemon!ModeChanged, Daemon!Loop, Daemon!http
  <2>2. DaemonTypes'
    BY <2>1, Zenon DEF DaemonTypes, LoopType, ClientType, PeerOrNone
  <2>3. Engaged' /\ Unspent'
    BY <2>1, Zenon DEF Engaged, DialPlaces, Unspent, Selected
  <2> QED
    BY <2>2, <2>3, Zenon
<1>4. CASE Daemon!ClientEnded
  <2>1. /\ UNCHANGED <<handler, connects>> /\ at' = [at EXCEPT !.at = "teardown"]
        /\ client' = [at |-> "off", peer |-> no_one] /\ client.at \in {"ok", "error"}
        /\ cfg' = [cfg EXCEPT !.peer = IF client.at = "error" THEN no_one ELSE cfg.peer]
        /\ failed' = IF client.at = "error" THEN failed + 1 ELSE failed
    BY <1>4, Zenon DEF Daemon!ClientEnded, Daemon!ClientEndedWith, Daemon!Loop, Daemon!http, DaemonTypes, CfgType
  <2>2. DaemonTypes'
    BY <2>1 DEF DaemonTypes, LoopType, ClientType, CfgType, PeerOrNone
  <2>3. Engaged'
    BY <2>1, Zenon DEF Engaged, DialPlaces
  <2>4. client.peer # no_one /\ cfg'.peer = (IF client.at = "error" THEN no_one ELSE cfg.peer) /\ client'.peer = no_one
    BY <2>1, Zenon DEF Engaged, DialPlaces, DaemonTypes, CfgType
  <2>5. Unspent'
    BY <2>1, <2>4 DEF Unspent, Selected, DaemonTypes
  <2> QED
    BY <2>2, <2>3, <2>5, Zenon
<1> QED
  BY <1>1, <1>2, <1>3, <1>4, Zenon DEF Daemon!run_mode

\* run_client takes up the configured peer, and keeps it until it returns.
LEMMA RunClientKeeps == ASSUME DaemonInv, Daemon!run_client PROVE DaemonInv'
<1> USE DEF DaemonInv
<1>1. UNCHANGED <<at, cfg, handler, connects, failed>>
  BY Zenon DEF Daemon!run_client, Daemon!ReadPeer, Daemon!resolve_peer, Daemon!place_call, Daemon!Recv, Daemon!WatcherFires,
         Daemon!EnableSocks5, Daemon!SetTunnel, Daemon!LkDone, Daemon!http
<1>2. CASE Daemon!ReadPeer
  <2>1. /\ client.at = "start"
        /\ client' = [at |-> IF cfg.peer = no_one THEN "parked" ELSE "resolve", peer |-> cfg.peer]
    BY <1>2, Zenon DEF Daemon!ReadPeer
  <2>2. DaemonTypes'
    BY <1>1, <2>1, Zenon DEF DaemonTypes, ClientType, CfgType, DialPlaces
  <2>3. Engaged' /\ Unspent'
    BY <1>1, <2>1, Zenon DEF Engaged, DialPlaces, Unspent, Selected
  <2> QED
    BY <2>2, <2>3, Zenon
<1>3. CASE \E x \in DialPlaces, y \in DialPlaces : client.at = x /\ client' = [client EXCEPT !.at = y]
  <2>1. DaemonTypes' /\ client'.at \in DialPlaces /\ client'.peer = client.peer
    BY <1>1, <1>3, Zenon DEF DaemonTypes, ClientType
  <2>2. Engaged'
    BY <1>1, <1>3, <2>1, Zenon DEF Engaged, DialPlaces
  <2>3. Unspent'
    BY <1>1, <2>1, Zenon DEF Unspent, Selected
  <2> QED
    BY <2>1, <2>2, <2>3, Zenon
<1>4. CASE UNCHANGED client
  BY <1>1, <1>4, Zenon DEF DaemonTypes, Engaged, Unspent, Selected
<1>5. Daemon!ReadPeer \/ UNCHANGED client \/ \E x \in DialPlaces, y \in DialPlaces : client.at = x /\ client' = [client EXCEPT !.at = y]
  BY Zenon DEF Daemon!run_client, Daemon!resolve_peer, Daemon!place_call, Daemon!Recv, Daemon!WatcherFires,
         Daemon!EnableSocks5, Daemon!SetTunnel, Daemon!LkDone, Daemon!Client, DialPlaces
<1> QED
  BY <1>2, <1>3, <1>4, <1>5, Zenon

\* The handlers: only set_config stores a peer, and counts it.
LEMMA HandlesKeeps == ASSUME DaemonInv, NEW r \in ModeRequests, Daemon!Handles(r) \/ Daemon!Arrives(r) PROVE DaemonInv'
<1> USE DEF DaemonInv
<1>1. UNCHANGED <<at, client, failed>>
  BY Zenon DEF Daemon!Handles, Daemon!Arrives, Daemon!set_config, Daemon!SetConfigWith, Daemon!tunnel_disconnect, Daemon!logout,
         Daemon!LogoutMode, Daemon!SendMode, Daemon!persist_outcome, Daemon!connect, Daemon!disconnect
<1>2. Engaged'
  BY <1>1, Zenon DEF Engaged
<1>3. handler' \in [ModeRequests -> HandlerType]
  <2>1. CASE Daemon!Arrives(r)
    <3>1. PICK h \in Daemon!Bodies \cup Daemon!Others : handler' = [handler EXCEPT ![r] = h]
      BY <2>1, Zenon DEF Daemon!Arrives
    <3>2. h \in HandlerType
      BY DEF Daemon!Bodies, Daemon!Others, Daemon!Handler, Daemon!Modes, HandlerType, ModeOrNone, PeerOrNone
    <3> QED
      BY <3>1, <3>2, Zenon DEF DaemonTypes
  <2>2. CASE Daemon!Handles(r)
    <3>1. \E x \in {"mode", "send", "done"} : handler' = [handler EXCEPT ![r].at = x]
      BY <2>2, Zenon DEF Daemon!Handles, Daemon!set_config, Daemon!SetConfigWith, Daemon!tunnel_disconnect, Daemon!logout,
         Daemon!LogoutMode, Daemon!SendMode, Daemon!persist_outcome, Daemon!connect, Daemon!disconnect, Daemon!Goes
    <3> QED
      BY <3>1 DEF DaemonTypes, HandlerType
  <2> QED
    BY <2>1, <2>2, Zenon
<1>4. CASE Daemon!set_config(r)
  <2> DEFINE m == handler[r].mode
             p == handler[r].peer
  <2>1. /\ cfg' = [mode |-> IF m = no_one THEN cfg.mode ELSE m, peer |-> IF p = no_one THEN cfg.peer ELSE p]
        /\ connects' = IF p = no_one THEN connects ELSE connects + 1
    BY <1>4, Zenon DEF Daemon!set_config, Daemon!SetConfigWith
  <2>2. m \in ModeOrNone /\ p \in PeerOrNone
    BY Zenon DEF DaemonTypes, HandlerType
  <2> HIDE DEF m, p
  <2>3. cfg' \in CfgType /\ connects' \in Nat
    BY <2>1, <2>2 DEF DaemonTypes, CfgType
  <2>4. Unspent'
    BY <1>1, <2>1 DEF Unspent, Selected, DaemonTypes
  <2> QED
    BY <1>1, <1>2, <1>3, <2>3, <2>4, Zenon DEF DaemonTypes
<1>5. CASE /\ UNCHANGED connects
           /\ \/ UNCHANGED cfg \/ cfg' = [cfg EXCEPT !.peer = no_one]
              \/ \E m \in ModeOrNone : cfg' = [cfg EXCEPT !.mode = m]
  <2>1. cfg' \in CfgType /\ (cfg'.peer = cfg.peer \/ cfg'.peer = no_one)
    BY <1>5, Zenon DEF DaemonTypes, CfgType, PeerOrNone
  <2>2. Unspent'
    BY <1>1, <1>5, <2>1, Zenon DEF Unspent, Selected
  <2> QED
    BY <1>1, <1>2, <1>3, <1>5, <2>1, <2>2, Zenon DEF DaemonTypes
<1>6. CASE Daemon!LogoutMode(r)
  <2>1. UNCHANGED connects /\ \E m \in ModeOrNone : cfg' = [cfg EXCEPT !.mode = m]
    BY <1>6, Zenon DEF Daemon!LogoutMode, DaemonTypes, CfgType, ModeOrNone
  <2> QED
    BY <1>5, <2>1, Zenon
<1> QED
  BY <1>4, <1>5, <1>6, Zenon DEF Daemon!Handles, Daemon!Arrives, Daemon!tunnel_disconnect, Daemon!logout,
     Daemon!SendMode, Daemon!persist_outcome, Daemon!connect, Daemon!disconnect

LEMMA DaemonNext == DaemonInv /\ [Daemon!Next]_(Daemon!vars) => DaemonInv'
<1> SUFFICES ASSUME DaemonInv, [Daemon!Next]_(Daemon!vars) PROVE DaemonInv'
  BY Zenon
<1>1. CASE UNCHANGED <<at, client, cfg, handler, connects, failed>>
  BY <1>1, Zenon DEF DaemonInv, DaemonTypes, Engaged, Unspent, Selected
<1>2. CASE Daemon!CallUp \/ Daemon!CallOver \/ UNCHANGED Daemon!vars
  BY <1>1, <1>2, Zenon DEF Daemon!CallUp, Daemon!CallOver, Daemon!vars, Daemon!http
<1> QED
  BY <1>2, RunModeKeeps, RunClientKeeps, HandlesKeeps, Zenon DEF Daemon!Next, Daemon!Work

\* NoTightLoop for any number of requests, selectable peers and calls: run_mode never
\* counts more failed dials than peers the user has selected through set_config.
THEOREM NoDialUnasked == Daemon!Spec => []NoTightLoop
<1>1. Daemon!Init => DaemonInv
  BY DaemonInit, Zenon
<1>2. DaemonInv /\ [Daemon!Next]_(Daemon!vars) => DaemonInv'
  BY DaemonNext, Zenon
<1>3. DaemonInv => NoTightLoop
  BY Zenon DEF DaemonInv, Unspent, NoTightLoop, Daemon!NoTightLoop
<1> QED
  BY <1>1, <1>2, <1>3, PTL DEF Daemon!Spec, NoTightLoop
=============================================================================
