-------------------------- MODULE SignalingProofs --------------------------
(***************************************************************************)
(* Proofs about what keeps the WebSocket up, for any number of actors: the  *)
(* activation driver never loses an input, the rule engine keeps exactly    *)
(* the loop the rule wants, and no RPC is left behind by a connection that  *)
(* is gone.                                                                 *)
(***************************************************************************)
EXTENDS MCSignaling, TLAPS

-----------------------------------------------------------------------------
(* The activation driver.  NoLostIntent is not inductive: a caller inside    *)
(* reconcile holds loads that a later store makes stale.  IntentInv says     *)
(* that is harmless: when nobody is still on its way to the lock, what the   *)
(* lock holder has loaded so far is what the inputs are now, and with the    *)
(* lock free the recorded intent is the rule's value.  A stale load is       *)
(* therefore always followed by another reconcile.                           *)

\* The lock is held by exactly the caller inside the critical section.
PushLock ==
    \A t \in Driver!Actors : stage[t] \in Driver!Critical <=> reconcile_lock = t

\* Nobody has stored an input without yet having taken the lock.
NonePending == \A t \in Driver!Actors : stage[t] \notin Driver!Pending

\* What the lock holder knows is still true when no store is pending.
IntentInv ==
    NonePending =>
        /\ reconcile_lock = NoThread => last_push = Driver!Want
        /\ \A t \in Driver!Actors :
              /\ stage[t] = "load_fg" => ~server_mode
              /\ stage[t] = "load_active" => ~server_mode /\ foreground
              /\ stage[t] = "swap" => want[t] = Driver!Want
              /\ stage[t] = "push" => last_push = Driver!Want

\* The gate and the recorded intent differ only across a push in progress.
GateInv ==
    /\ \A t \in Driver!Actors : stage[t] = "push" => last_push = want[t]
    /\ (pushed /\ \A t \in Driver!Actors : stage[t] # "push") => gate = last_push

DriverInv == Driver!TypeOK /\ PushLock /\ IntentInv /\ GateInv

-----------------------------------------------------------------------------
\* The state built by ActivationDriver::new is well typed.
LEMMA DriverInitType == Driver!Init => Driver!TypeOK
<1> USE ThreadsAssumption, IntentsAssumption
<1> SUFFICES ASSUME Driver!Init PROVE Driver!TypeOK
  BY Zenon
<1>1. stage \in [Driver!Actors -> Driver!PCs] /\ want \in [Driver!Actors -> BOOLEAN]
  BY Zenon DEF Driver!Init, Driver!PCs, Driver!Pending
<1>2. active \in 0 .. MaxActive /\ inputs_made \in 0 .. MaxIntents
  BY DEF Driver!Init
<1> QED
  BY <1>1, <1>2, Zenon DEF Driver!Init, Driver!TypeOK

\* No step of any caller leaves the types: in particular bump_session's clamp
\* and set_mode's reset keep the counter in 0 .. MaxActive.
LEMMA DriverTypeStep == Driver!TypeOK /\ [Driver!Next]_(Driver!vars) => Driver!TypeOK'
<1> USE ThreadsAssumption, IntentsAssumption
<1> SUFFICES ASSUME Driver!TypeOK, [Driver!Next]_(Driver!vars) PROVE Driver!TypeOK'
  BY Zenon
<1> USE DEF Driver!TypeOK, Driver!Actors, Driver!PCs, Driver!Pending, Driver!Critical, Driver!Goto, Driver!inputs
<1>1. ASSUME NEW t \in Threads, NEW server \in BOOLEAN, Driver!SetModeStore(t, server)
      PROVE  Driver!TypeOK'
  BY <1>1 DEF Driver!SetModeStore, Driver!EnvironmentCall
<1>2. ASSUME NEW t \in Threads, Driver!SetModeReset(t)
      PROVE  Driver!TypeOK'
  BY <1>2 DEF Driver!SetModeReset
<1>3. ASSUME NEW t \in Threads, NEW delta \in {1, -1}, Driver!BumpSession(t, delta)
      PROVE  Driver!TypeOK'
  BY <1>3 DEF Driver!BumpSession, Driver!EnvironmentCall, Driver!Bumped
<1>4. ASSUME NEW fg \in BOOLEAN, Driver!SetForeground(fg)
      PROVE  Driver!TypeOK'
  BY <1>4 DEF Driver!SetForeground, Driver!EnvironmentCall
<1>5. CASE Driver!FgObserve
  BY <1>5, Zenon DEF Driver!FgObserve
<1>6. ASSUME NEW t \in Driver!Actors, Driver!Reconcile(t)
      PROVE  Driver!TypeOK'
  <2>1. CASE Driver!Lock(t)
    BY <2>1 DEF Driver!Lock
  <2>2. CASE Driver!LoadMode(t)
    BY <2>2, ZenonT(30) DEF Driver!LoadMode, Driver!Decide
  <2>3. CASE Driver!LoadForeground(t)
    BY <2>3, ZenonT(30) DEF Driver!LoadForeground, Driver!Decide
  <2>4. CASE Driver!LoadActive(t)
    BY <2>4 DEF Driver!LoadActive, Driver!Decide
  <2>5. CASE Driver!SwapLastPush(t)
    BY <2>5, Zenon DEF Driver!SwapLastPush
  <2>6. CASE Driver!Push(t)
    BY <2>6, Zenon DEF Driver!Push
  <2> QED
    BY <1>6, <2>1, <2>2, <2>3, <2>4, <2>5, <2>6, Zenon DEF Driver!Reconcile
<1>7. CASE UNCHANGED Driver!vars
  BY <1>7 DEF Driver!vars
<1> QED
  BY <1>1, <1>2, <1>3, <1>4, <1>5, <1>6, <1>7, Zenon DEF Driver!Next

\* Every variable keeps its type, the session counter its clamp
\* (manager.rs:141-152), whatever calls are made.
THEOREM DriverTypeCorrect == Driver!Spec => []Driver!TypeOK
<1> QED
  BY DriverInitType, DriverTypeStep, PTL DEF Driver!Spec

-----------------------------------------------------------------------------
\* The constructing thread is on its way to its first reconcile, so nothing is
\* claimed of the recorded intent yet.
LEMMA DriverStart == Driver!Init => DriverInv
<1> USE ThreadsAssumption
<1> SUFFICES ASSUME Driver!Init PROVE DriverInv
  BY Zenon
<1>1. PushLock /\ GateInv
  BY Zenon DEF Driver!Init, PushLock, GateInv, Driver!Actors, Driver!Critical
<1>2. IntentInv
  BY Zenon DEF Driver!Init, IntentInv, NonePending, Driver!Actors, Driver!Pending
<1> QED
  BY <1>1, <1>2, DriverInitType, Zenon DEF DriverInv

\* Every step of every caller preserves the inductive invariant.
LEMMA DriverStep == DriverInv /\ [Driver!Next]_(Driver!vars) => DriverInv'
<1> USE ThreadsAssumption
<1> SUFFICES ASSUME DriverInv, [Driver!Next]_(Driver!vars) PROVE PushLock' /\ IntentInv' /\ GateInv'
  BY DriverTypeStep, Zenon DEF DriverInv
<1> USE DEF DriverInv, Driver!TypeOK, PushLock, IntentInv, GateInv, NonePending, Driver!Want,
        Driver!Actors, Driver!PCs, Driver!Pending, Driver!Critical, Driver!Goto, Driver!inputs
<1>1. ASSUME NEW t \in Threads, NEW server \in BOOLEAN, Driver!SetModeStore(t, server)
      PROVE  PushLock' /\ IntentInv' /\ GateInv'
  BY <1>1, Zenon DEF Driver!SetModeStore
<1>2. ASSUME NEW t \in Threads, Driver!SetModeReset(t)
      PROVE  PushLock' /\ IntentInv' /\ GateInv'
  BY <1>2, Zenon DEF Driver!SetModeReset
<1>3. ASSUME NEW t \in Threads, NEW delta \in {1, -1}, Driver!BumpSession(t, delta)
      PROVE  PushLock' /\ IntentInv' /\ GateInv'
  BY <1>3, Zenon DEF Driver!BumpSession
<1>4. ASSUME NEW fg \in BOOLEAN, Driver!SetForeground(fg)
      PROVE  PushLock' /\ IntentInv' /\ GateInv'
  BY <1>4, Zenon DEF Driver!SetForeground
<1>5. CASE Driver!FgObserve
  BY <1>5, Zenon DEF Driver!FgObserve
<1>6. ASSUME NEW t \in Driver!Actors, Driver!Reconcile(t)
      PROVE  PushLock' /\ IntentInv' /\ GateInv'
  <2>1. CASE Driver!Lock(t)
    BY <2>1 DEF Driver!Lock
  <2>2. CASE Driver!LoadMode(t)
    BY <2>2, ZenonT(30) DEF Driver!LoadMode, Driver!Decide
  <2>3. CASE Driver!LoadForeground(t)
    BY <2>3, ZenonT(30) DEF Driver!LoadForeground, Driver!Decide
  <2>4. CASE Driver!LoadActive(t)
    BY <2>4 DEF Driver!LoadActive, Driver!Decide
  <2>5. CASE Driver!SwapLastPush(t)
    BY <2>5 DEF Driver!SwapLastPush
  <2>6. CASE Driver!Push(t)
    BY <2>6, Zenon DEF Driver!Push
  <2> QED
    BY <1>6, <2>1, <2>2, <2>3, <2>4, <2>5, <2>6, Zenon DEF Driver!Reconcile
<1>7. CASE UNCHANGED Driver!vars
  BY <1>7, Zenon DEF Driver!vars
<1> QED
  BY <1>1, <1>2, <1>3, <1>4, <1>5, <1>6, <1>7, Zenon DEF Driver!Next

\* The last input stored always wins: whenever no call is in progress the
\* recorded intent is the rule applied to the inputs as they are now
\* (manager.rs:154-172), for any number of callers.
THEOREM IntentNeverLost == Driver!Spec => []NoLostIntent
<1>1. DriverInv => Driver!NoLostIntent
  BY ThreadsAssumption, Zenon
  DEF DriverInv, Driver!TypeOK, PushLock, IntentInv, NonePending, Driver!NoLostIntent, Driver!Quiescent,
      Driver!Pending, Driver!Critical
<1> QED
  BY DriverStart, DriverStep, <1>1, PTL DEF Driver!Spec, NoLostIntent

\* The gate the WebSocket sees is the recorded intent whenever no push is under
\* way and one has been made (manager.rs:167-171).
THEOREM GateFollowsIntent == Driver!Spec => []GateFollowsPush
<1>1. DriverInv => Driver!GateFollowsPush
  BY Zenon DEF DriverInv, GateInv, Driver!GateFollowsPush
<1> QED
  BY DriverStart, DriverStep, <1>1, PTL DEF Driver!Spec, GateFollowsPush

\* Two intents are never in flight to the WebSocket at once: the swap that
\* records an intent waits for the push of the one before (manager.rs:155-156).
THEOREM PushesAreSerial == Driver!Spec => OnePushAtATime
<1> USE ThreadsAssumption
<1>1. DriverInv /\ [Driver!Next]_(Driver!vars) =>
        [last_push' # last_push => \A t \in Driver!Actors : stage[t] # "push"]_(Driver!vars)
  <2> SUFFICES ASSUME DriverInv, Driver!Next, last_push' # last_push, NEW u \in Driver!Actors
               PROVE  stage[u] # "push"
    BY Zenon
  <2>1. PICK t \in Driver!Actors : Driver!SwapLastPush(t)
    BY Zenon DEF Driver!Next, Driver!SetModeStore, Driver!SetModeReset, Driver!BumpSession, Driver!SetForeground,
           Driver!FgObserve, Driver!Reconcile, Driver!Lock, Driver!LoadMode, Driver!LoadForeground, Driver!LoadActive, Driver!Push
  <2> QED
    BY <2>1, Zenon DEF Driver!SwapLastPush, DriverInv, PushLock, Driver!Critical
<1> QED
  BY DriverStart, DriverStep, <1>1, PTL DEF Driver!Spec, OnePushAtATime, Driver!OnePushAtATime
-----------------------------------------------------------------------------
(* The rule engine                                                           *)

Shape ==
    /\ pc = [a \in Actors |-> pc[a]]
    /\ aborted \in [Loops -> BOOLEAN]
    /\ runloop_handle \in Loops \cup {NoLoop}

\* The handle lock is held by the one actor inside evaluate's critical section.
LockHeld == \A a \in Actors : pc[a] \in Locked <=> handle_lock = a

\* Some thread has stored a changed input and not locked the slot yet.
Queued == \E b \in Actors : pc[b] = "evaluate"

\* What the holder of the lock found when it looked still holds, unless the thread that
\* changed it is queued behind the lock.
HolderKnows ==
    \A a \in Actors :
        /\ pc[a] \in {"want_user", "want_manager", "spawn"} => access_token # NoToken \/ Queued
        /\ pc[a] \in {"want_manager", "spawn"} => ~user_disconnect \/ Queued
        /\ pc[a] = "spawn" => runloop_handle = NoLoop /\ (manager_active \/ Queued)
        /\ pc[a] = "stop" => runloop_handle # NoLoop /\ (~DesiredUp \/ Queued)

RuleInv == Shape /\ LockHeld /\ HolderKnows /\ LoopIsTheRules

RuleVars == <<access_token, user_disconnect, manager_active, runloop_handle, handle_lock, aborted>>

LEMMA ReturnPlace == ASSUME NEW a, NEW rest PROVE Return(a, rest) \in {"call", "finished", "idle"}
  BY Zenon DEF Return

LEMMA RuleInit == Init => RuleInv
  <1> SUFFICES ASSUME Init PROVE RuleInv
      BY Zenon
  <1>1. Shape
      BY Zenon DEF Init, Shape
  <1>2. \A a \in Actors : pc[a] = IF a \in Loops THEN "none" ELSE "idle"
      BY Zenon DEF Init
  <1>3. LockHeld
      BY <1>2, ActorsAssumption, Zenon DEF Init, LockHeld, Locked, Actors
  <1>4. HolderKnows
      BY <1>2, Zenon DEF HolderKnows
  <1>5. LoopIsTheRules
      BY <1>2, Zenon DEF Init, LoopIsTheRules, RuleWins, NoStrayLoop, Live, DesiredUp, Actors
  <1> QED
      BY <1>1, <1>3, <1>4, <1>5, Zenon DEF RuleInv

\* An actor that moves between places outside evaluate, and leaves what evaluate looks at
\* alone, keeps the invariant; only evaluate brings a loop to life.
LEMMA MoveKeepsRule ==
    ASSUME RuleInv, NEW a \in Actors, NEW place, pc' = [pc EXCEPT ![a] = place],
           pc[a] \notin Evaluating, place \notin Evaluating,
           a \in Loops => pc[a] \notin {"none", "finished"},
           UNCHANGED RuleVars
    PROVE  RuleInv'
  <1> USE DEF RuleInv, RuleVars
  <1>1. Shape'
      BY Zenon DEF Shape
  <1>2. \A b \in Actors : pc'[b] = IF b = a THEN place ELSE pc[b]
      BY Zenon DEF Shape
  <1>3. /\ \A b \in Actors : pc'[b] \in Evaluating <=> pc[b] \in Evaluating
        /\ \A b \in Actors : pc[b] \in Evaluating => pc'[b] = pc[b]
      BY <1>2, Zenon
  <1>4. \A b \in Actors : pc'[b] \in Locked <=> pc[b] \in Locked
      BY <1>2, Zenon DEF Evaluating
  <1>5. LockHeld'
      BY <1>4, Zenon DEF LockHeld
  <1>6. Queued' <=> Queued
      BY <1>2, Zenon DEF Queued, Evaluating
  <1>7. HolderKnows'
      BY <1>2, <1>6, Zenon DEF HolderKnows, DesiredUp, Evaluating, Locked
  <1>8. RuleWins'
      BY <1>3, Zenon DEF LoopIsTheRules, RuleWins, NoneEvaluating, DesiredUp
  <1>9. NoStrayLoop'
      BY <1>2, Zenon DEF LoopIsTheRules, NoStrayLoop, Live, Actors
  <1> QED
      BY <1>1, <1>5, <1>7, <1>8, <1>9, Zenon DEF LoopIsTheRules

\* A setter either stores what was there, or stands before evaluate.
LEMMA SetterKeepsRule ==
    ASSUME RuleInv, NEW a \in Actors, CallSetter(a)
    PROVE  RuleInv'
  <1> DEFINE c == Head(todo[a])
             changes == c.input # "store" /\ Stored(c) # c.v
  <1>1. /\ pc[a] = "call" /\ Store(c)
        /\ pc' = [pc EXCEPT ![a] = IF changes THEN "evaluate" ELSE Return(a, Tail(todo[a]))]
        /\ UNCHANGED <<runloop_handle, handle_lock, aborted>>
      BY Zenon DEF CallSetter, Goto, loopvars
  <1> HIDE DEF c
  <1>2. CASE ~changes
      <2>1. UNCHANGED <<access_token, user_disconnect, manager_active>>
          BY <1>1, <1>2, Zenon DEF Store, Stored
      <2>2. pc' = [pc EXCEPT ![a] = Return(a, Tail(todo[a]))]
          BY <1>1, <1>2, Zenon
      <2>3. UNCHANGED RuleVars
          BY <1>1, <2>1, Zenon DEF RuleVars
      <2>4. /\ pc[a] \notin Evaluating /\ pc[a] \notin {"none", "finished"}
            /\ Return(a, Tail(todo[a])) \notin Evaluating
          BY <1>1, ReturnPlace, Zenon DEF Evaluating, Locked
      <2> QED
          BY <2>2, <2>3, <2>4, MoveKeepsRule, Zenon
  <1>3. CASE changes
      <2>1. \A b \in Actors : pc'[b] = IF b = a THEN "evaluate" ELSE pc[b]
          BY <1>1, <1>3, Zenon DEF RuleInv, Shape
      <2>2. Queued' /\ ~NoneEvaluating'
          BY <2>1, Zenon DEF Queued, NoneEvaluating, Evaluating
      <2>3. Shape' /\ LockHeld'
          <3>1. pc' = [pc EXCEPT ![a] = "evaluate"]
              BY <1>1, <1>3, Zenon
          <3>2. Shape'
              BY <1>1, <3>1, Zenon DEF RuleInv, Shape
          <3>3. LockHeld'
              BY <1>1, <2>1 DEF RuleInv, LockHeld, Locked
          <3> QED
              BY <3>2, <3>3, Zenon
      <2>4. HolderKnows'
          BY <1>1, <2>1, <2>2 DEF RuleInv, HolderKnows
      <2>5. NoStrayLoop'
          BY <1>1, <2>1, Zenon DEF RuleInv, LoopIsTheRules, NoStrayLoop, Live, Actors
      <2> QED
          BY <2>2, <2>3, <2>4, <2>5, Zenon DEF RuleInv, LoopIsTheRules, RuleWins
  <1> QED
      BY <1>2, <1>3, Zenon

\* While a holds the lock nobody else is in the critical section.
LEMMA OneHolder ==
    ASSUME RuleInv, NEW a \in Actors, pc[a] \in Locked
    PROVE  handle_lock = a /\ \A b \in Actors : pc[b] \in Locked => b = a
  BY Zenon DEF RuleInv, LockHeld

LEMMA LockKeepsRule ==
    ASSUME RuleInv, NEW a \in Actors, Lock(a) \/ Reap(a)
    PROVE  RuleInv'
  <1>1. CASE Lock(a)
      <2>1. \A b \in Actors : pc'[b] = IF b = a THEN "reap" ELSE pc[b]
          BY <1>1, Zenon DEF Lock, Goto, RuleInv, Shape
      <2>2. \A b \in Actors : pc[b] \notin Locked
          BY <1>1, ActorsAssumption, Zenon DEF Lock, RuleInv, LockHeld, Actors
      <2>3. Shape' /\ LockHeld'
          <3>1. Shape'
              BY <1>1, Zenon DEF Lock, Goto, loopvars, RuleInv, Shape
          <3>2. LockHeld'
              BY <1>1, <2>1, <2>2, Zenon DEF Lock, LockHeld, Locked
          <3> QED
              BY <3>1, <3>2, Zenon
      <2>4. HolderKnows'
          BY <2>1, <2>2, Zenon DEF HolderKnows, Locked
      <2>5. ~NoneEvaluating'
          BY <2>1, Zenon DEF NoneEvaluating, Evaluating, Locked
      <2>6. NoStrayLoop'
          BY <1>1, <2>1, Zenon DEF Lock, loopvars, RuleInv, LoopIsTheRules, NoStrayLoop, Live, Actors
      <2> QED
          BY <2>3, <2>4, <2>5, <2>6, Zenon DEF RuleInv, LoopIsTheRules, RuleWins
  <1>2. CASE Reap(a)
      <2>1. \A b \in Actors : pc'[b] = IF b = a THEN "want_token" ELSE pc[b]
          BY <1>2, Zenon DEF Reap, Goto, RuleInv, Shape
      <2>2. handle_lock = a /\ \A b \in Actors : pc[b] \in Locked => b = a
          BY <1>2, OneHolder, Zenon DEF Reap, Locked
      <2>3. Shape' /\ LockHeld'
          <3>1. Shape'
              BY <1>2, Zenon DEF Reap, Goto, loopvars, RuleInv, Shape
          <3>2. LockHeld'
              BY <1>2, <2>1, <2>2, Zenon DEF Reap, LockHeld, Locked
          <3> QED
              BY <3>1, <3>2, Zenon
      <2>4. HolderKnows'
          BY <2>1, <2>2, Zenon DEF HolderKnows, Locked
      <2>5. ~NoneEvaluating'
          BY <2>1, Zenon DEF NoneEvaluating, Evaluating, Locked
      <2>6. NoStrayLoop'
          BY <1>2, <2>1, Zenon DEF Reap, loopvars, RuleInv, LoopIsTheRules, NoStrayLoop, Live, Actors
      <2> QED
          BY <2>3, <2>4, <2>5, <2>6, Zenon DEF RuleInv, LoopIsTheRules, RuleWins
  <1> QED
      BY <1>1, <1>2, Zenon

\* The holder moves inside the critical section, to a place whose knowledge it has.
LEMMA InsideKeepsRule ==
    ASSUME RuleInv, NEW a \in Actors, NEW place \in Locked, pc' = [pc EXCEPT ![a] = place],
           pc[a] \in Locked, UNCHANGED RuleVars,
           place \in {"want_user", "want_manager", "spawn"} => access_token # NoToken \/ Queued,
           place \in {"want_manager", "spawn"} => ~user_disconnect \/ Queued,
           place = "spawn" => runloop_handle = NoLoop /\ (manager_active \/ Queued),
           place = "stop" => runloop_handle # NoLoop /\ (~DesiredUp \/ Queued)
    PROVE  RuleInv'
  <1> USE DEF RuleVars
  <1>1. \A b \in Actors : pc'[b] = IF b = a THEN place ELSE pc[b]
      BY Zenon DEF RuleInv, Shape
  <1>2. handle_lock = a /\ \A b \in Actors : pc[b] \in Locked => b = a
      BY OneHolder, Zenon
  <1>3. place # "evaluate" /\ pc[a] # "evaluate"
      BY Zenon DEF Locked
  <1>4. Queued' <=> Queued
      BY <1>1, <1>3, Zenon DEF Queued
  <1>5. Shape'
      BY Zenon DEF RuleInv, Shape
  <1>6. LockHeld'
      BY <1>1, <1>2, Zenon DEF LockHeld
  <1>7. HolderKnows'
      BY <1>1, <1>2, <1>4, Zenon DEF HolderKnows, DesiredUp, Locked
  <1>8. ~NoneEvaluating'
      BY <1>1, Zenon DEF NoneEvaluating, Evaluating
  <1>9. NoStrayLoop'
      BY <1>1, Zenon DEF RuleInv, LoopIsTheRules, NoStrayLoop, Live, Actors, Locked
  <1> QED
      BY <1>5, <1>6, <1>7, <1>8, <1>9, Zenon DEF RuleInv, LoopIsTheRules, RuleWins

\* The holder leaves the critical section with the slot as the rule wants it, as far as
\* nobody is queued.
LEMMA LeaveKeepsRule ==
    ASSUME RuleInv, NEW a \in Actors, NEW place, place \notin Evaluating,
           pc' = [pc EXCEPT ![a] = place], pc[a] \in Locked,
           UNCHANGED <<access_token, user_disconnect, manager_active, runloop_handle, aborted>>,
           handle_lock' = NoLock,
           Queued \/ ((runloop_handle # NoLoop) <=> DesiredUp)
    PROVE  RuleInv'
  <1>1. \A b \in Actors : pc'[b] = IF b = a THEN place ELSE pc[b]
      BY Zenon DEF RuleInv, Shape
  <1>2. \A b \in Actors : pc'[b] \notin Locked
      BY <1>1, OneHolder, Zenon DEF Evaluating
  <1>3. Shape'
      BY Zenon DEF RuleInv, Shape
  <1>4. LockHeld'
      BY <1>2, ActorsAssumption, Zenon DEF LockHeld, Actors
  <1>5. HolderKnows'
      BY <1>2, Zenon DEF HolderKnows, Locked
  <1>6. RuleWins'
      <2>1. NoneEvaluating' => ~Queued
          BY <1>1, Zenon DEF NoneEvaluating, Queued, Evaluating, Locked
      <2> QED
          BY <2>1, Zenon DEF RuleWins, DesiredUp
  <1>7. NoStrayLoop'
      BY <1>1, Zenon DEF RuleInv, LoopIsTheRules, NoStrayLoop, Live, Actors, Locked
  <1> QED
      BY <1>3, <1>4, <1>5, <1>6, <1>7, Zenon DEF RuleInv, LoopIsTheRules

\* Settling the rule, with what the loads found.
LEMMA SettleKeepsRule ==
    ASSUME RuleInv, NEW a \in Actors, NEW up \in BOOLEAN, pc[a] \in Locked, Settle(a, up),
           UNCHANGED <<access_token, user_disconnect, manager_active, runloop_handle, aborted>>,
           up => Queued \/ DesiredUp,
           ~up => ~DesiredUp
    PROVE  RuleInv'
  <1>1. CASE up /\ runloop_handle = NoLoop /\ Goto(a, "spawn") /\ UNCHANGED handle_lock
      <2>1. "spawn" \in Locked /\ pc' = [pc EXCEPT ![a] = "spawn"] /\ UNCHANGED RuleVars
          BY <1>1, Zenon DEF Locked, Goto, RuleVars
      <2> QED
          BY <1>1, <2>1, InsideKeepsRule, Zenon DEF DesiredUp
  <1>2. CASE ~up /\ runloop_handle # NoLoop /\ Goto(a, "stop") /\ UNCHANGED handle_lock
      <2>1. "stop" \in Locked /\ pc' = [pc EXCEPT ![a] = "stop"] /\ UNCHANGED RuleVars
          BY <1>2, Zenon DEF Locked, Goto, RuleVars
      <2> QED
          BY <1>2, <2>1, InsideKeepsRule, Zenon
  <1>3. CASE up = (runloop_handle # NoLoop) /\ handle_lock' = NoLock /\ Goto(a, Return(a, todo[a]))
      <2>1. Return(a, todo[a]) \notin Evaluating /\ pc' = [pc EXCEPT ![a] = Return(a, todo[a])]
          BY <1>3, ReturnPlace, Zenon DEF Evaluating, Locked, Goto
      <2>2. Queued \/ ((runloop_handle # NoLoop) <=> DesiredUp)
          BY <1>3, Zenon
      <2> QED
          BY <1>3, <2>1, <2>2, LeaveKeepsRule, Zenon
  <1> QED
      BY <1>1, <1>2, <1>3, Zenon DEF Settle

LEMMA ReadKeepsRule ==
    ASSUME RuleInv, NEW a \in Actors, WantToken(a) \/ WantUser(a) \/ WantManager(a)
    PROVE  RuleInv'
  <1>1. /\ pc[a] \in Locked /\ pc[a] \in {"want_token", "want_user", "want_manager"}
        /\ UNCHANGED <<access_token, user_disconnect, manager_active, runloop_handle, aborted>>
      BY Zenon DEF WantToken, WantUser, WantManager, ReadInput, Locked, inputs, loopvars
  <1>2. /\ pc[a] \in {"want_user", "want_manager"} => access_token # NoToken \/ Queued
        /\ pc[a] = "want_manager" => ~user_disconnect \/ Queued
      BY Zenon DEF RuleInv, HolderKnows
  <1>3. CASE WantToken(a)
      <2>1. CASE ~(access_token # NoToken) /\ Settle(a, FALSE)
          BY <1>1, <2>1, SettleKeepsRule, Zenon DEF DesiredUp
      <2>2. CASE access_token # NoToken /\ Goto(a, "want_user") /\ UNCHANGED handle_lock
          <3>1. "want_user" \in Locked /\ pc' = [pc EXCEPT ![a] = "want_user"] /\ UNCHANGED RuleVars
              BY <1>1, <2>2, Zenon DEF Locked, Goto, RuleVars
          <3> QED
              BY <1>1, <2>2, <3>1, InsideKeepsRule, Zenon
      <2> QED
          BY <1>3, <2>1, <2>2, Zenon DEF WantToken, ReadInput
  <1>4. CASE WantUser(a)
      <2>1. CASE ~~user_disconnect /\ Settle(a, FALSE)
          BY <1>1, <2>1, SettleKeepsRule, Zenon DEF DesiredUp
      <2>2. CASE ~user_disconnect /\ Goto(a, "want_manager") /\ UNCHANGED handle_lock
          <3>1. "want_manager" \in Locked /\ pc' = [pc EXCEPT ![a] = "want_manager"] /\ UNCHANGED RuleVars
              BY <1>1, <2>2, Zenon DEF Locked, Goto, RuleVars
          <3>2. access_token # NoToken \/ Queued
              BY <1>2, <1>4, Zenon DEF WantUser, ReadInput
          <3> QED
              BY <1>1, <2>2, <3>1, <3>2, InsideKeepsRule, Zenon
      <2> QED
          BY <1>4, <2>1, <2>2, Zenon DEF WantUser, ReadInput
  <1>5. CASE WantManager(a)
      <2>1. CASE ~manager_active /\ Settle(a, FALSE)
          BY <1>1, <2>1, SettleKeepsRule, Zenon DEF DesiredUp
      <2>2. CASE manager_active /\ Settle(a, TRUE)
          <3>1. Queued \/ DesiredUp
              BY <1>2, <1>5, <2>2, Zenon DEF WantManager, ReadInput, DesiredUp
          <3> QED
              BY <1>1, <2>2, <3>1, SettleKeepsRule, Zenon
      <2> QED
          BY <1>5, <2>1, <2>2, Zenon DEF WantManager, ReadInput
  <1> QED
      BY <1>3, <1>4, <1>5, Zenon

\* A loop is spawned into an empty slot, so it is the only one that was not told to stop.
LEMMA SpawnKeepsRule ==
    ASSUME RuleInv, NEW a \in Actors, Spawn(a)
    PROVE  RuleInv'
  <1>1. PICK l \in Loops :
            /\ pc[l] \in {"none", "finished"}
            /\ pc' = [pc EXCEPT ![a] = Return(a, todo[a]), ![l] = "start"]
            /\ aborted' = [aborted EXCEPT ![l] = FALSE]
            /\ runloop_handle' = l
      BY Zenon DEF Spawn
  <1>2. /\ pc[a] = "spawn" /\ handle_lock' = NoLock
        /\ UNCHANGED <<access_token, user_disconnect, manager_active>>
      BY Zenon DEF Spawn, inputs
  <1>3. \A b \in Actors : pc'[b] = IF b = l THEN "start" ELSE IF b = a THEN Return(a, todo[a]) ELSE pc[b]
      BY <1>1, <1>2, Zenon DEF RuleInv, Shape, Actors
  <1>4. \A b \in Actors : pc[b] \in Locked => b = a
      BY <1>2, OneHolder, Zenon DEF Locked
  <1>5. \A b \in Actors : pc'[b] \notin Locked
      BY <1>3, <1>4, ReturnPlace DEF Locked
  <1>6. Shape'
      BY <1>1, Zenon DEF RuleInv, Shape
  <1>7. LockHeld'
      BY <1>2, <1>5, ActorsAssumption, Zenon DEF LockHeld, Actors
  <1>8. HolderKnows'
      BY <1>5, Zenon DEF HolderKnows, Locked
  <1>9. RuleWins'
      <2>1. NoneEvaluating' => ~Queued
          BY <1>1, <1>2, <1>3, Zenon DEF NoneEvaluating, Queued, Evaluating
      <2>2. Queued \/ DesiredUp
          BY <1>2, Zenon DEF RuleInv, HolderKnows, DesiredUp
      <2>3. runloop_handle' # NoLoop /\ (DesiredUp' <=> DesiredUp)
          BY <1>1, <1>2, ActorsAssumption, Zenon DEF DesiredUp
      <2> QED
          BY <2>1, <2>2, <2>3, Zenon DEF RuleWins
  <1>10. NoStrayLoop'
      <2> SUFFICES ASSUME NEW m \in Loops, Live(m)', ~aborted'[m], m # l PROVE FALSE
          BY <1>1, Zenon DEF NoStrayLoop
      <2>1. ~aborted[m] /\ Live(m)
          BY <1>1, <1>2, <1>3, Zenon DEF Live, Actors, RuleInv, Shape
      <2> QED
          BY <1>2, <2>1, ActorsAssumption, Zenon DEF RuleInv, HolderKnows, LoopIsTheRules, NoStrayLoop
  <1> QED
      BY <1>6, <1>7, <1>8, <1>9, <1>10, Zenon DEF RuleInv, LoopIsTheRules

\* The loop that leaves the slot is told to stop.
LEMMA StopKeepsRule ==
    ASSUME RuleInv, NEW a \in Actors, Stop(a)
    PROVE  RuleInv'
  <1>1. /\ pc[a] = "stop" /\ pc' = [pc EXCEPT ![a] = "clear_sender"]
        /\ aborted' = [aborted EXCEPT ![runloop_handle] = TRUE]
        /\ runloop_handle' = NoLoop /\ handle_lock' = NoLock
        /\ UNCHANGED <<access_token, user_disconnect, manager_active>>
      BY Zenon DEF Stop, Goto, inputs
  <1>2. \A b \in Actors : pc'[b] = IF b = a THEN "clear_sender" ELSE pc[b]
      BY <1>1, Zenon DEF RuleInv, Shape
  <1>3. \A b \in Actors : pc'[b] \notin Locked
      BY <1>1, <1>2, OneHolder DEF Locked
  <1>4. runloop_handle \in Loops /\ (~DesiredUp \/ Queued)
      BY <1>1, Zenon DEF RuleInv, Shape, HolderKnows
  <1>5. Shape'
      BY <1>1, Zenon DEF RuleInv, Shape
  <1>6. LockHeld'
      BY <1>1, <1>3, ActorsAssumption, Zenon DEF LockHeld, Actors
  <1>7. HolderKnows'
      BY <1>3, Zenon DEF HolderKnows, Locked
  <1>8. RuleWins'
      <2>1. NoneEvaluating' => ~Queued
          BY <1>1, <1>2, Zenon DEF NoneEvaluating, Queued, Evaluating
      <2> QED
          BY <1>1, <1>4, <2>1, Zenon DEF RuleWins, DesiredUp
  <1>9. NoStrayLoop'
      <2> SUFFICES ASSUME NEW m \in Loops, Live(m)', ~aborted'[m] PROVE FALSE
          BY Zenon DEF NoStrayLoop
      <2>1. m # runloop_handle /\ ~aborted[m] /\ Live(m)
          BY <1>1, <1>2, <1>4, Zenon DEF Live, Actors, RuleInv, Shape
      <2> QED
          BY <2>1, Zenon DEF RuleInv, LoopIsTheRules, NoStrayLoop
  <1> QED
      BY <1>5, <1>6, <1>7, <1>8, <1>9, Zenon DEF RuleInv, LoopIsTheRules

\* The steps of a loop that are none of evaluate's.
LoopStep(l) ==
    \/ Start(l) \/ ConnectOk(l) \/ HandshakeFrame(l) \/ Polled(l) \/ Cancel(l)
    \/ \E why \in Outcomes : EndSession(l, why)

\* Those steps start from a live place and end outside evaluate.
LEMMA LoopMoves ==
    ASSUME NEW l \in Loops, LoopStep(l)
    PROVE  /\ pc[l] \notin Evaluating \cup {"none", "finished"}
           /\ \E place : place \notin Evaluating /\ pc' = [pc EXCEPT ![l] = place]
           /\ UNCHANGED RuleVars
  <1> USE DEF Goto, inputs, loopvars, RuleVars, Evaluating, Locked, Awaiting
  <1>1. CASE Start(l)
      BY <1>1, Zenon DEF Start, Again
  <1>2. CASE ConnectOk(l) \/ HandshakeFrame(l) \/ Cancel(l)
      BY <1>2, Zenon DEF ConnectOk, HandshakeFrame, Cancel
  <1>3. CASE InstallSender(l) \/ SetReady(l)
      BY <1>3, Zenon DEF InstallSender, SetReady
  <1>4. CASE TailReady(l) \/ TailSender(l) \/ TailDrain(l)
      BY <1>4, Zenon DEF TailReady, TailSender, TailDrain
  <1>5. CASE TailOutcome(l)
      BY <1>5, Zenon DEF TailOutcome
  <1>6. ASSUME NEW why \in Outcomes, EndSession(l, why)
        PROVE  /\ pc[l] \notin Evaluating \cup {"none", "finished"}
               /\ \E place : place \notin Evaluating /\ pc' = [pc EXCEPT ![l] = place]
               /\ UNCHANGED RuleVars
      BY <1>6, Zenon DEF EndSession
  <1> QED
      BY <1>1, <1>2, <1>3, <1>4, <1>5, <1>6, Zenon DEF LoopStep, Polled

RpcStep(c) == RpcInsert(c) \/ RpcClone(c) \/ RpcSend(c) \/ RpcFinish(c)

LEMMA RuleNext == RuleInv /\ [Next]_vars => RuleInv'
  <1> SUFFICES ASSUME RuleInv, [Next]_vars PROVE RuleInv'
      BY Zenon
  <1>1. ASSUME NEW s \in Setters, NEW calls, AppCall(s, calls) PROVE RuleInv'
      <2>1. /\ pc[s] = "idle" /\ pc' = [pc EXCEPT ![s] = "call"] /\ UNCHANGED RuleVars
            /\ s \in Actors /\ s \notin Loops
          BY <1>1, ActorsAssumption, Zenon DEF AppCall, Goto, inputs, loopvars, RuleVars, Actors
      <2> QED
          BY <2>1, MoveKeepsRule, Zenon DEF Evaluating, Locked
  <1>2. ASSUME NEW a \in Actors, LoadStored(a) \/ ClearSender(a) \/ DrainPending(a) PROVE RuleInv'
      <2>1. pc[a] \in {"call", "clear_sender", "drain_pending"} /\ UNCHANGED RuleVars
          BY <1>2, Zenon DEF LoadStored, ClearSender, DrainPending, inputs, loopvars, RuleVars
      <2>2. pc[a] \notin Evaluating /\ pc[a] \notin {"none", "finished"}
          BY <2>1, Zenon DEF Evaluating, Locked
      <2>3. ASSUME NEW rest PROVE Return(a, rest) \notin Evaluating
          BY ReturnPlace, Zenon DEF Evaluating, Locked
      <2>4. CASE LoadStored(a)
          <3>1. \E rest : pc' = [pc EXCEPT ![a] = Return(a, rest)]
              BY <2>4, Zenon DEF LoadStored, Goto
          <3> QED
              BY <2>1, <2>2, <2>3, <3>1, MoveKeepsRule, Zenon
      <2>5. CASE ClearSender(a)
          <3>1. pc' = [pc EXCEPT ![a] = "drain_pending"] /\ "drain_pending" \notin Evaluating
              BY <2>5, Zenon DEF ClearSender, Goto, Evaluating, Locked
          <3> QED
              BY <2>1, <2>2, <3>1, MoveKeepsRule, Zenon
      <2>6. CASE DrainPending(a)
          <3>1. pc' = [pc EXCEPT ![a] = Return(a, todo[a])]
              BY <2>6, Zenon DEF DrainPending, Goto
          <3> QED
              BY <2>1, <2>2, <2>3, <3>1, MoveKeepsRule, Zenon
      <2> QED
          BY <1>2, <2>4, <2>5, <2>6, Zenon
  <1>3. ASSUME NEW a \in Actors, Evaluate(a) PROVE RuleInv'
      BY <1>2, <1>3, SetterKeepsRule, LockKeepsRule, ReadKeepsRule, SpawnKeepsRule, StopKeepsRule, Zenon DEF Evaluate
  <1>4. ASSUME NEW l \in Loops, LoopStep(l) PROVE RuleInv'
      <2>1. PICK place : place \notin Evaluating /\ pc' = [pc EXCEPT ![l] = place]
          BY <1>4, LoopMoves, Zenon
      <2>2. l \in Actors /\ pc[l] \notin Evaluating /\ pc[l] \notin {"none", "finished"} /\ UNCHANGED RuleVars
          BY <1>4, LoopMoves, Zenon DEF Actors
      <2> QED
          BY <2>1, <2>2, MoveKeepsRule, Zenon
  <1>5. ASSUME UNCHANGED <<pc, RuleVars>> PROVE RuleInv'
      BY <1>5, Zenon DEF RuleVars, RuleInv, Shape, LockHeld, HolderKnows, Queued, LoopIsTheRules, RuleWins, NoneEvaluating,
          NoStrayLoop, Live, DesiredUp
  <1>6. ASSUME NEW l \in Loops, NEW c \in Callers, RpcResponse(l, c) PROVE RuleInv'
      BY <1>5, <1>6, Zenon DEF RpcResponse, inputs, loopvars, RuleVars
  <1>7. ASSUME NEW c \in Callers, RpcStep(c) PROVE RuleInv'
      BY <1>5, <1>7, Zenon DEF RpcStep, RpcInsert, RpcClone, RpcSend, RpcFinish, inputs, loopvars, RuleVars
  <1>8. CASE UNCHANGED vars
      BY <1>5, <1>8, Zenon DEF vars, inputs, loopvars, RuleVars
  <1> QED
      BY <1>1, <1>3, <1>4, <1>6, <1>7, <1>8, Zenon
      DEF Next, LoopStep, RpcStep, SignIn, Connect, Disconnect, SignOut, SetManagerActive

\* The latest inputs win and no loop is lost, for any number of threads that call the
\* setters in any order and any number of loops that expire, end and are stopped.
THEOREM RuleEngineSettles == Spec => []LoopIsTheRules
  <1>1. Spec => []RuleInv
      BY RuleInit, RuleNext, PTL DEF Spec
  <1> QED
      BY <1>1, PTL DEF RuleInv

-----------------------------------------------------------------------------
(* RPCs                                                                      *)

\* A loop that was not told to stop has connection n.
Carried(n) == \E l \in Loops : conn[l] = n /\ ~aborted[l]

BeforeClear == {"clear_sender", "tail_ready", "tail_sender"}
BeforeDrain == Cleanup \cup {"tail_ready", "tail_sender", "tail_drain"}
InSession == {"connected", "session", "handshake"}

RpcShape ==
    /\ pc = [a \in Actors |-> pc[a]]
    /\ aborted = [l \in Loops |-> aborted[l]]
    /\ conn = [l \in Loops |-> conn[l]]
    /\ rpc = [c \in Callers |-> rpc[c]]
    /\ sender = [c \in Callers |-> sender[c]]

\* Only a loop in a session has a connection.
ConnInSession == \A l \in Loops : conn[l] # 0 => pc[l] \in InSession

\* The installed sender belongs to a loop that was not told to stop, or it will be cleared.
SenderCovered ==
    send_tx # 0 /\ send_tx \notin late_conns =>
        Carried(send_tx) \/ \E a \in Actors : pc[a] \in BeforeClear

\* So does every sender that an RPC in the pending map has cloned, or the map will be
\* drained.
CallsCovered ==
    \A c \in Callers :
        rpc[c] \in {"send", "wait"} /\ c \in pending /\ sender[c] \notin late_conns =>
            sender[c] # 0 /\ (Carried(sender[c]) \/ \E a \in Actors : pc[a] \in BeforeDrain)

RpcInv == RpcShape /\ ConnInSession /\ SenderCovered /\ CallsCovered

RpcVars == <<aborted, conn, send_tx, pending, rpc, sender, late_conns>>

LEMMA RpcInit == Init => RpcInv
  BY Zenon DEF Init, RpcInv, RpcShape, ConnInSession, SenderCovered, CallsCovered

\* An actor that is not cleaning up moves, and a loop with a connection stays in its session.
LEMMA MoveKeepsRpc ==
    ASSUME RpcInv, NEW a \in Actors, NEW place, pc' = [pc EXCEPT ![a] = place],
           pc[a] \notin BeforeDrain, pc[a] \in InSession => place \in InSession,
           UNCHANGED RpcVars
    PROVE  RpcInv'
  <1> USE DEF RpcVars
  <1>1. \A b \in Actors : pc'[b] = IF b = a THEN place ELSE pc[b]
      BY Zenon DEF RpcInv, RpcShape
  <1>2. \A b \in Actors : /\ pc[b] \in BeforeDrain => pc'[b] \in BeforeDrain
                          /\ pc[b] \in BeforeClear => pc'[b] \in BeforeClear
                          /\ pc[b] \in InSession => pc'[b] \in InSession
      BY <1>1, Zenon DEF BeforeDrain, BeforeClear, Cleanup
  <1>3. RpcShape'
      BY Zenon DEF RpcInv, RpcShape
  <1>4. ConnInSession'
      BY <1>2, Zenon DEF RpcInv, ConnInSession, Actors
  <1>5. SenderCovered'
      BY <1>2, Zenon DEF RpcInv, SenderCovered, Carried
  <1>6. CallsCovered'
      BY <1>2, Zenon DEF RpcInv, CallsCovered, Carried
  <1> QED
      BY <1>3, <1>4, <1>5, <1>6, Zenon DEF RpcInv

\* An actor that cleans up clears the sender, and empties the map last.
LEMMA CleanupKeepsRpc ==
    ASSUME RpcInv, NEW a \in Actors, NEW place, pc' = [pc EXCEPT ![a] = place],
           pc[a] \in BeforeDrain, place \notin InSession,
           \/ pc[a] \in BeforeClear /\ place \in BeforeClear /\ UNCHANGED <<send_tx, pending>>
           \/ send_tx' = 0 /\ place \in BeforeDrain /\ UNCHANGED pending
           \/ pc[a] \notin BeforeClear /\ pending' = {} /\ UNCHANGED send_tx,
           UNCHANGED <<aborted, conn, rpc, sender, late_conns>>
    PROVE  RpcInv'
  <1>1. \A b \in Actors : pc'[b] = IF b = a THEN place ELSE pc[b]
      BY Zenon DEF RpcInv, RpcShape
  <1>2. pc[a] \notin InSession
      BY Zenon DEF BeforeDrain, Cleanup, InSession
  <1>3. RpcShape'
      BY Zenon DEF RpcInv, RpcShape
  <1>4. ConnInSession'
      BY <1>1, <1>2, Zenon DEF RpcInv, ConnInSession, Actors
  <1>5. SenderCovered'
      BY <1>1, Zenon DEF RpcInv, SenderCovered, Carried
  <1>6. CallsCovered'
      <2>1. CASE pending' = {}
          BY <2>1, Zenon DEF CallsCovered
      <2>2. CASE place \in BeforeDrain /\ UNCHANGED pending
          BY <1>1, <2>2 DEF RpcInv, CallsCovered, Carried
      <2> QED
          BY <2>1, <2>2, Zenon DEF BeforeClear, BeforeDrain, Cleanup
  <1> QED
      BY <1>3, <1>4, <1>5, <1>6, Zenon DEF RpcInv

\* A loop that starts anew has no connection; one that is told to stop leaves its stopper
\* with the clean-up.
LEMMA SlotKeepsRpc ==
    ASSUME RpcInv, NEW a \in Actors, Spawn(a) \/ Stop(a)
    PROVE  RpcInv'
  <1>1. CASE Spawn(a)
      <2>1. PICK l \in Loops :
                /\ pc[l] \in {"none", "finished"}
                /\ pc' = [pc EXCEPT ![a] = Return(a, todo[a]), ![l] = "start"]
                /\ aborted' = [aborted EXCEPT ![l] = FALSE]
          BY <1>1, Zenon DEF Spawn
      <2>2. pc[a] = "spawn" /\ UNCHANGED <<conn, send_tx, pending, rpc, sender, late_conns>>
          BY <1>1, Zenon DEF Spawn, rpcvars
      <2>3. \A b \in Actors : b # a /\ b # l => pc'[b] = pc[b]
          BY <2>1, Zenon DEF RpcInv, RpcShape
      <2>4. \A b \in Actors : /\ pc[b] \in BeforeDrain => pc'[b] \in BeforeDrain
                              /\ pc[b] \in BeforeClear => pc'[b] \in BeforeClear
                              /\ pc[b] \in InSession => pc'[b] \in InSession
          BY <2>1, <2>2, <2>3, Zenon DEF BeforeDrain, BeforeClear, Cleanup, InSession
      <2>5. \A n : Carried(n) => Carried(n)'
          BY <2>1, <2>2, Zenon DEF Carried, RpcInv, RpcShape
      <2>6. RpcShape'
          BY <2>1, <2>2, Zenon DEF RpcInv, RpcShape
      <2>7. ConnInSession'
          BY <2>2, <2>4, Zenon DEF RpcInv, ConnInSession, Actors
      <2>8. SenderCovered'
          BY <2>2, <2>4, <2>5, Zenon DEF RpcInv, SenderCovered
      <2>9. CallsCovered'
          BY <2>2, <2>4, <2>5, Zenon DEF RpcInv, CallsCovered
      <2> QED
          BY <2>6, <2>7, <2>8, <2>9, Zenon DEF RpcInv
  <1>2. CASE Stop(a)
      <2>1. /\ pc[a] = "stop" /\ pc' = [pc EXCEPT ![a] = "clear_sender"]
            /\ aborted' = [aborted EXCEPT ![runloop_handle] = TRUE]
            /\ UNCHANGED <<conn, send_tx, pending, rpc, sender, late_conns>>
          BY <1>2, Zenon DEF Stop, Goto, rpcvars
      <2>2. pc'[a] = "clear_sender" /\ \A b \in Actors : b # a => pc'[b] = pc[b]
          BY <2>1, Zenon DEF RpcInv, RpcShape
      <2>3. pc'[a] \in BeforeClear /\ pc'[a] \in BeforeDrain
          BY <2>2, Zenon DEF BeforeClear, BeforeDrain, Cleanup
      <2>4. RpcShape'
          BY <2>1, Zenon DEF RpcInv, RpcShape
      <2>5. ConnInSession'
          BY <2>1, <2>2, Zenon DEF RpcInv, ConnInSession, Actors, InSession
      <2>6. SenderCovered'
          BY <2>3, Zenon DEF SenderCovered
      <2>7. CallsCovered'
          BY <2>1, <2>3, Zenon DEF RpcInv, CallsCovered
      <2> QED
          BY <2>4, <2>5, <2>6, <2>7, Zenon DEF RpcInv
  <1> QED
      BY <1>1, <1>2, Zenon

\* The other steps of evaluate touch neither connections nor calls.
LEMMA EvaluateKeepsRpc ==
    ASSUME RpcInv, NEW a \in Actors, Evaluate(a)
    PROVE  RpcInv'
  <1>1. ASSUME NEW place, pc' = [pc EXCEPT ![a] = place], pc[a] \in {"call"} \cup Evaluating, UNCHANGED RpcVars
        PROVE  RpcInv'
      <2>1. pc[a] \notin BeforeDrain /\ pc[a] \notin InSession
          BY <1>1, Zenon DEF Evaluating, Locked, BeforeDrain, Cleanup, InSession
      <2> QED
          BY <1>1, <2>1, MoveKeepsRpc, Zenon
  <1>2. CASE LoadStored(a) \/ CallSetter(a) \/ Lock(a) \/ Reap(a)
      <2>1. pc[a] \in {"call"} \cup Evaluating /\ UNCHANGED RpcVars
          BY <1>2, Zenon DEF LoadStored, CallSetter, Lock, Reap, Evaluating, Locked, RpcVars, loopvars, rpcvars
      <2>2. \E place : pc' = [pc EXCEPT ![a] = place]
          BY <1>2, Zenon DEF LoadStored, CallSetter, Lock, Reap, Goto
      <2> QED
          BY <1>1, <2>1, <2>2, Zenon
  <1>3. CASE WantToken(a) \/ WantUser(a) \/ WantManager(a)
      <2>1. pc[a] \in {"call"} \cup Evaluating /\ UNCHANGED RpcVars
          BY <1>3, Zenon DEF WantToken, WantUser, WantManager, ReadInput, Evaluating, Locked, RpcVars, loopvars, rpcvars
      <2>2. \E place : pc' = [pc EXCEPT ![a] = place]
          BY <1>3, Zenon DEF WantToken, WantUser, WantManager, ReadInput, Settle, Goto
      <2> QED
          BY <1>1, <2>1, <2>2, Zenon
  <1>4. CASE ClearSender(a)
      <2>1. /\ pc' = [pc EXCEPT ![a] = "drain_pending"] /\ pc[a] = "clear_sender" /\ send_tx' = 0
            /\ UNCHANGED <<pending, aborted, conn, rpc, sender, late_conns>>
          BY <1>4, Zenon DEF ClearSender, Goto, loopvars, rpcvars
      <2>2. pc[a] \in BeforeDrain /\ "drain_pending" \in BeforeDrain /\ "drain_pending" \notin InSession
          BY <2>1, Zenon DEF BeforeDrain, Cleanup, InSession
      <2> QED
          BY <2>1, <2>2, CleanupKeepsRpc, Zenon
  <1>5. CASE DrainPending(a)
      <2>1. /\ pc' = [pc EXCEPT ![a] = Return(a, todo[a])] /\ pc[a] = "drain_pending" /\ pending' = {}
            /\ UNCHANGED <<send_tx, aborted, conn, rpc, sender, late_conns>>
          BY <1>5, Zenon DEF DrainPending, Goto, loopvars, rpcvars
      <2>2. pc[a] \in BeforeDrain /\ pc[a] \notin BeforeClear /\ Return(a, todo[a]) \notin InSession
          BY <2>1, ReturnPlace, Zenon DEF BeforeDrain, BeforeClear, Cleanup, InSession
      <2> QED
          BY <2>1, <2>2, CleanupKeepsRpc, Zenon
  <1> QED
      BY <1>2, <1>3, <1>4, <1>5, SlotKeepsRpc, Zenon DEF Evaluate

\* A new connection is its loop's, and the sender installed is the connection's; the end of
\* a session begins the clean-up.
LEMMA LoopKeepsRpc ==
    ASSUME RpcInv, NEW l \in Loops, LoopStep(l)
    PROVE  RpcInv'
  <1>0. l \in Actors
      BY Zenon DEF Actors
  <1>1. CASE Start(l) \/ HandshakeFrame(l) \/ SetReady(l) \/ TailOutcome(l)
      <2>1. /\ pc[l] \in {"start", "sleeping", "session", "handshake", "tail_outcome"}
            /\ UNCHANGED RpcVars
          BY <1>1, Zenon DEF Start, HandshakeFrame, SetReady, TailOutcome, RpcVars, loopvars, rpcvars
      <2>2. \E place : pc' = [pc EXCEPT ![l] = place] /\ (pc[l] \in InSession => place \in InSession)
          <3>1. CASE Start(l) \/ TailOutcome(l)
              BY <3>1, Zenon DEF Start, Again, TailOutcome, Goto, InSession
          <3>2. CASE HandshakeFrame(l) \/ SetReady(l)
              BY <3>2, Zenon DEF HandshakeFrame, SetReady, Goto, InSession
          <3> QED
              BY <1>1, <3>1, <3>2, Zenon
      <2>3. pc[l] \notin BeforeDrain
          BY <2>1, Zenon DEF BeforeDrain, Cleanup
      <2> QED
          BY <1>0, <2>1, <2>2, <2>3, MoveKeepsRpc, Zenon
  <1>2. CASE TailReady(l) \/ TailSender(l) \/ TailDrain(l)
      <2>1. UNCHANGED <<aborted, conn, rpc, sender, late_conns>>
          BY <1>2, Zenon DEF TailReady, TailSender, TailDrain, loopvars, rpcvars
      <2>2. CASE TailReady(l)
          BY <1>0, <2>1, <2>2, CleanupKeepsRpc, Zenon DEF TailReady, Goto, BeforeDrain, BeforeClear, InSession
      <2>3. CASE TailSender(l)
          BY <1>0, <2>1, <2>3, CleanupKeepsRpc, Zenon DEF TailSender, Goto, BeforeDrain, InSession
      <2>4. CASE TailDrain(l)
          BY <1>0, <2>1, <2>4, CleanupKeepsRpc, Zenon DEF TailDrain, Goto, BeforeDrain, BeforeClear, InSession
      <2> QED
          BY <1>2, <2>2, <2>3, <2>4, Zenon
  <1>3. ASSUME NEW place, NEW n, pc' = [pc EXCEPT ![l] = place], conn' = [conn EXCEPT ![l] = n],
               pc[l] \notin BeforeDrain,
               n # 0 => place \in InSession,
               \/ place = "tail_ready"
               \/ conn[l] = 0
               \/ aborted[l],
               UNCHANGED <<aborted, send_tx, pending, rpc, sender, late_conns>>
        PROVE  RpcInv'
      <2>1. \A b \in Actors : pc'[b] = IF b = l THEN place ELSE pc[b]
          BY <1>3, Zenon DEF RpcInv, RpcShape
      <2>2. \A m \in Loops : conn'[m] = IF m = l THEN n ELSE conn[m]
          BY <1>3, Zenon DEF RpcInv, RpcShape
      <2>3. RpcShape'
          BY <1>3, Zenon DEF RpcInv, RpcShape
      <2>4. ConnInSession'
          BY <1>3, <2>1, <2>2 DEF RpcInv, ConnInSession, Actors
      <2>5. \/ \A m : m # 0 /\ Carried(m) => Carried(m)'
            \/ place = "tail_ready"
          BY <1>3, <2>2, Zenon DEF Carried
      <2>6. \A b \in Actors : /\ pc[b] \in BeforeDrain => pc'[b] \in BeforeDrain
                              /\ pc[b] \in BeforeClear => pc'[b] \in BeforeClear
          BY <1>3, <2>1, Zenon DEF BeforeDrain, BeforeClear, Cleanup
      <2>7. place = "tail_ready" => pc'[l] \in BeforeDrain /\ pc'[l] \in BeforeClear
          BY <1>0, <2>1, Zenon DEF BeforeDrain, BeforeClear
      <2>8. SenderCovered'
          BY <1>0, <1>3, <2>5, <2>6, <2>7, Zenon DEF RpcInv, SenderCovered
      <2>9. CallsCovered'
          BY <1>0, <1>3, <2>5, <2>6, <2>7, Zenon DEF RpcInv, CallsCovered
      <2> QED
          BY <2>3, <2>4, <2>8, <2>9, Zenon DEF RpcInv
  <1>4. CASE ConnectOk(l)
      <2>1. /\ pc[l] = "connecting" /\ pc' = [pc EXCEPT ![l] = "connected"]
            /\ conn' = [conn EXCEPT ![l] = conns + 1]
            /\ UNCHANGED <<aborted, send_tx, pending, rpc, sender, late_conns>>
          BY <1>4, Zenon DEF ConnectOk, Goto, rpcvars
      <2>2. pc[l] \notin BeforeDrain /\ conn[l] = 0 /\ "connected" \in InSession
          BY <2>1, Zenon DEF RpcInv, ConnInSession, InSession, BeforeDrain, Cleanup
      <2> QED
          BY <1>3, <2>1, <2>2, Zenon
  <1>5. ASSUME NEW why \in Outcomes, EndSession(l, why) PROVE RpcInv'
      <2>1. /\ pc[l] \in {"connecting", "session"} /\ pc' = [pc EXCEPT ![l] = "tail_ready"]
            /\ conn' = [conn EXCEPT ![l] = 0]
            /\ UNCHANGED <<aborted, send_tx, pending, rpc, sender, late_conns>>
          BY <1>5, Zenon DEF EndSession, Goto, rpcvars
      <2>2. pc[l] \notin BeforeDrain
          BY <2>1, Zenon DEF BeforeDrain, Cleanup
      <2> QED
          BY <1>3, <2>1, <2>2, Zenon
  <1>6. CASE Cancel(l)
      <2>1. /\ pc[l] \in Awaiting /\ aborted[l] /\ pc' = [pc EXCEPT ![l] = "finished"]
            /\ conn' = [conn EXCEPT ![l] = 0]
            /\ UNCHANGED <<aborted, send_tx, pending, rpc, sender, late_conns>>
          BY <1>6, Zenon DEF Cancel, Goto, rpcvars
      <2>2. pc[l] \notin BeforeDrain
          BY <2>1, Zenon DEF BeforeDrain, Cleanup, Awaiting
      <2> QED
          BY <1>3, <2>1, <2>2, Zenon
  <1>7. CASE InstallSender(l)
      <2>1. /\ pc[l] = "connected" /\ pc' = [pc EXCEPT ![l] = "session"] /\ send_tx' = conn[l]
            /\ late_conns' = IF aborted[l] THEN late_conns \cup {conn[l]} ELSE late_conns
            /\ UNCHANGED <<aborted, conn, pending, rpc, sender>>
          BY <1>7, Zenon DEF InstallSender, Goto, loopvars, rpcvars
      <2>2. \A b \in Actors : pc'[b] = IF b = l THEN "session" ELSE pc[b]
          BY <2>1, Zenon DEF RpcInv, RpcShape
      <2>3. \A b \in Actors : pc[b] \in BeforeDrain => pc'[b] \in BeforeDrain
          BY <2>1, <2>2, Zenon DEF BeforeDrain, Cleanup
      <2>4. RpcShape'
          BY <2>1, Zenon DEF RpcInv, RpcShape
      <2>5. ConnInSession'
          BY <2>1, <2>2, Zenon DEF RpcInv, ConnInSession, Actors, InSession
      <2>6. SenderCovered'
          BY <2>1, Zenon DEF SenderCovered, Carried
      <2>7. CallsCovered'
          BY <2>1, <2>3, Zenon DEF RpcInv, CallsCovered, Carried
      <2> QED
          BY <2>4, <2>5, <2>6, <2>7, Zenon DEF RpcInv
  <1> QED
      BY <1>1, <1>2, <1>4, <1>5, <1>6, <1>7, Zenon DEF LoopStep, Polled

\* A call takes the sender that is installed, and leaves the map when it returns.
LEMMA CallKeepsRpc ==
    ASSUME RpcInv, NEW c \in Callers, RpcStep(c) \/ \E l \in Loops : RpcResponse(l, c)
    PROVE  RpcInv'
  <1>1. UNCHANGED <<pc, aborted, conn, send_tx, late_conns>>
      BY Zenon DEF RpcStep, RpcInsert, RpcClone, RpcSend, RpcFinish, RpcResponse, loopvars
  <1>2. ConnInSession' /\ SenderCovered'
      BY <1>1, Zenon DEF RpcInv, ConnInSession, SenderCovered, Carried
  <1>3. RpcShape' /\ CallsCovered'
      <2>1. ASSUME pending' \subseteq pending \cup {c}, \A d \in Callers \ {c} : rpc'[d] = rpc[d] /\ sender'[d] = sender[d],
                   \/ c \notin pending' \/ rpc'[c] \notin {"send", "wait"}
                   \/ sender'[c] = send_tx /\ send_tx # 0
                   \/ c \in pending /\ rpc[c] \in {"send", "wait"} /\ sender'[c] = sender[c]
            PROVE  CallsCovered'
          BY <1>1, <2>1 DEF RpcInv, CallsCovered, SenderCovered, Carried, BeforeClear, BeforeDrain, Cleanup
      <2>2. ASSUME RpcReturn(c) PROVE RpcShape' /\ CallsCovered'
          <3>1. RpcShape'
              BY <1>1, <2>2, Zenon DEF RpcReturn, RpcGoto, RpcInv, RpcShape
          <3> QED
              BY <2>1, <2>2, <3>1, Zenon DEF RpcReturn, RpcGoto, RpcInv, RpcShape
      <2>3. CASE RpcInsert(c)
          <3>1. RpcShape'
              BY <1>1, <2>3, Zenon DEF RpcInsert, RpcGoto, RpcInv, RpcShape
          <3> QED
              BY <2>1, <2>3, <3>1, Zenon DEF RpcInsert, RpcGoto, RpcInv, RpcShape
      <2>4. CASE RpcClone(c)
          <3>1. CASE send_tx # 0 /\ sender' = [sender EXCEPT ![c] = send_tx] /\ RpcGoto(c, "send") /\ UNCHANGED pending
              <4>1. RpcShape'
                  BY <1>1, <3>1, Zenon DEF RpcGoto, RpcInv, RpcShape
              <4> QED
                  BY <2>1, <3>1, <4>1, Zenon DEF RpcGoto, RpcInv, RpcShape
          <3> QED
              BY <2>2, <2>4, <3>1, Zenon DEF RpcClone
      <2>5. CASE RpcSend(c) \/ RpcFinish(c)
          <3>1. CASE rpc[c] = "send" /\ RpcGoto(c, "wait") /\ UNCHANGED <<pending, sender>>
              <4>1. RpcShape'
                  BY <1>1, <3>1, Zenon DEF RpcGoto, RpcInv, RpcShape
              <4> QED
                  BY <2>1, <3>1, <4>1, Zenon DEF RpcGoto, RpcInv, RpcShape
          <3> QED
              BY <2>2, <2>5, <3>1, Zenon DEF RpcSend, RpcFinish
      <2>6. ASSUME NEW l \in Loops, RpcResponse(l, c) PROVE RpcShape' /\ CallsCovered'
          <3>1. pending' = pending \ {c} /\ UNCHANGED <<rpc, sender>>
              BY <2>6, Zenon DEF RpcResponse, rpcvars
          <3>2. RpcShape'
              BY <1>1, <3>1, Zenon DEF RpcInv, RpcShape
          <3> QED
              BY <2>1, <3>1, <3>2, Zenon
      <2> QED
          BY <2>3, <2>4, <2>5, <2>6, Zenon DEF RpcStep
  <1> QED
      BY <1>2, <1>3, Zenon DEF RpcInv

LEMMA RpcNext == RpcInv /\ [Next]_vars => RpcInv'
  <1> SUFFICES ASSUME RpcInv, [Next]_vars PROVE RpcInv'
      BY Zenon
  <1>1. ASSUME NEW s \in Setters, NEW calls, AppCall(s, calls) PROVE RpcInv'
      <2>1. pc[s] = "idle" /\ pc' = [pc EXCEPT ![s] = "call"] /\ UNCHANGED RpcVars /\ s \in Actors
          BY <1>1, Zenon DEF AppCall, Goto, loopvars, rpcvars, RpcVars, Actors
      <2>2. pc[s] \notin BeforeDrain /\ pc[s] \notin InSession
          BY <2>1, Zenon DEF BeforeDrain, Cleanup, InSession
      <2> QED
          BY <2>1, <2>2, MoveKeepsRpc, Zenon
  <1>2. CASE UNCHANGED vars
      BY <1>2, Zenon DEF vars, loopvars, rpcvars, RpcInv, RpcShape, ConnInSession, SenderCovered, CallsCovered, Carried
  <1> QED
      BY <1>1, <1>2, EvaluateKeepsRpc, LoopKeepsRpc, CallKeepsRpc, Zenon
      DEF Next, LoopStep, RpcStep, SignIn, Connect, Disconnect, SignOut, SetManagerActive

\* No RPC that was sent is left in the pending map of a connection that is gone, unless a
\* clean-up is on its way or the connection was opened after the abort.
THEOREM NoCallLeftBehind == Spec => []DrainCovers
  <1>1. Spec => []RpcInv
      BY RpcInit, RpcNext, PTL DEF Spec
  <1>2. RpcInv => DrainCovers
      BY Zenon DEF RpcInv, CallsCovered, DrainCovers, Carried, Connected, BeforeDrain
  <1> QED
      BY <1>1, <1>2, PTL
=============================================================================
