-------------------------- MODULE ActivationDriver --------------------------
(***************************************************************************)
(* The activation driver of lktunnel (manager.rs): the long-lived object    *)
(* that decides whether the Bale WebSocket may be up, and the two           *)
(* WsClient fields it meets (ws.rs): the foreground watch channel it        *)
(* subscribes to and the manager_active flag it pushes.                     *)
(*                                                                          *)
(* Any number of threads call set_mode and bump_session; one task follows   *)
(* the foreground watch.  Each stores its input and then runs reconcile,    *)
(* which takes the lock, loads the three inputs one atomic load at a time,  *)
(* swaps last_push and pushes the new intent.  Every load and store is a    *)
(* step of its own, so an input may change between any two of them.         *)
(***************************************************************************)
EXTENDS Integers

CONSTANTS Threads,       \* callers of set_mode and bump_session
          FgTask,        \* the foreground-subscriber task
          NoThread,      \* the free value of reconcile_lock
          MaxActive,     \* bound on the session counter
          MaxOps         \* bound on the calls the environment makes

VARIABLES
    server_mode, foreground, active, last_push,   \* the driver's atomics
    reconcile_lock,
    pc, want,              \* each thread's place in its call and its local `want`
    fg_watch, fg_changed,  \* the watch channel: value, unseen by the subscriber
    manager_active,        \* WsClient::manager_active
    pushed,                \* history: some reconcile has pushed an intent
    ops                    \* history: calls made so far

inputs == <<server_mode, foreground, active>>
vars == <<server_mode, foreground, active, last_push, reconcile_lock, pc, want,
          fg_watch, fg_changed, manager_active, pushed, ops>>

Actors == Threads \cup {FgTask}

\* Places between two shared accesses.  "mode_set" is set_mode between its two
\* stores; "reconcile" is a caller about to lock; the rest hold the lock.
Pending  == {"mode_set", "reconcile"}
Critical == {"load_mode", "load_fg", "load_active", "swap", "push"}
PCs      == {"idle"} \cup Pending \cup Critical

\* The rule reconcile computes (manager.rs:161-166).
Want == server_mode \/ (foreground /\ active <= 0)

(***************************************************************************)
(* WsClient::new: the gate is open and the app in the foreground; the app   *)
(* may have pushed its state before the driver is built.  The driver's      *)
(* constructor reads the watch and ends with a reconcile of its own.        *)
(***************************************************************************)
Init ==
    /\ fg_watch \in BOOLEAN
    /\ fg_changed = FALSE
    /\ manager_active = TRUE
    /\ server_mode = FALSE
    /\ foreground = fg_watch
    /\ active = 0
    /\ last_push = FALSE
    /\ reconcile_lock = NoThread
    /\ \E creator \in Threads :
          pc = [t \in Actors |-> IF t = creator THEN "reconcile" ELSE "idle"]
    /\ want = [t \in Actors |-> FALSE]
    /\ pushed = FALSE
    /\ ops = 0

Goto(t, place) == pc' = [pc EXCEPT ![t] = place]

EnvironmentCall == ops < MaxOps /\ ops' = ops + 1

\* set_mode: the mode is stored first, the counter reset in a second store.
SetModeStore(t, server) ==
    /\ EnvironmentCall
    /\ pc[t] = "idle"
    /\ server_mode' = server
    /\ Goto(t, "mode_set")
    /\ UNCHANGED <<foreground, active, last_push, reconcile_lock, want,
                   fg_watch, fg_changed, manager_active, pushed>>

SetModeReset(t) ==
    /\ pc[t] = "mode_set"
    /\ active' = 0
    /\ Goto(t, "reconcile")
    /\ UNCHANGED <<server_mode, foreground, last_push, reconcile_lock, want,
                   fg_watch, fg_changed, manager_active, pushed, ops>>

\* The counter after bump_session(delta): never below zero.
Bumped(count, delta) == IF count + delta < 0 THEN 0 ELSE count + delta

BumpSession(t, delta) ==
    /\ EnvironmentCall
    /\ pc[t] = "idle"
    /\ active + delta <= MaxActive
    /\ active' = Bumped(active, delta)
    /\ Goto(t, "reconcile")
    /\ UNCHANGED <<server_mode, foreground, last_push, reconcile_lock, want,
                   fg_watch, fg_changed, manager_active, pushed>>

\* WsClient::set_foreground: no-op pushes are collapsed.
SetForeground(fg) ==
    /\ EnvironmentCall
    /\ fg_watch # fg
    /\ fg_watch' = fg
    /\ fg_changed' = TRUE
    /\ UNCHANGED <<inputs, last_push, reconcile_lock, pc, want, manager_active, pushed>>

\* Slip: the subscriber stores the new value and does not reconcile.
FgObserve_NoReconcile ==
    /\ pc[FgTask] = "idle"
    /\ fg_changed
    /\ fg_changed' = FALSE
    /\ foreground' = fg_watch
    /\ UNCHANGED <<server_mode, active, last_push, reconcile_lock, pc, want,
                   fg_watch, manager_active, pushed, ops>>

\* The subscriber task: rx.changed(), borrow_and_update(), store.
FgObserve ==
    /\ pc[FgTask] = "idle"
    /\ fg_changed
    /\ fg_changed' = FALSE
    /\ foreground' = fg_watch
    /\ Goto(FgTask, "reconcile")
    /\ UNCHANGED <<server_mode, active, last_push, reconcile_lock, want,
                   fg_watch, manager_active, pushed, ops>>

(***************************************************************************)
(* reconcile                                                                *)
(***************************************************************************)
\* Slip: reconcile without its lock.
Lock_Unguarded(t) ==
    /\ pc[t] = "reconcile"
    /\ Goto(t, "load_mode")
    /\ UNCHANGED <<inputs, last_push, reconcile_lock, want, fg_watch, fg_changed,
                   manager_active, pushed, ops>>

Lock(t) ==
    /\ pc[t] = "reconcile"
    /\ reconcile_lock = NoThread
    /\ reconcile_lock' = t
    /\ Goto(t, "load_mode")
    /\ UNCHANGED <<inputs, last_push, want, fg_watch, fg_changed, manager_active, pushed, ops>>

Decide(t, w) == want' = [want EXCEPT ![t] = w] /\ Goto(t, "swap")

LoadMode(t) ==
    /\ pc[t] = "load_mode"
    /\ \/ server_mode /\ Decide(t, TRUE)
       \/ ~server_mode /\ Goto(t, "load_fg") /\ UNCHANGED want
    /\ UNCHANGED <<inputs, last_push, reconcile_lock, fg_watch, fg_changed,
                   manager_active, pushed, ops>>

LoadForeground(t) ==
    /\ pc[t] = "load_fg"
    /\ \/ ~foreground /\ Decide(t, FALSE)
       \/ foreground /\ Goto(t, "load_active") /\ UNCHANGED want
    /\ UNCHANGED <<inputs, last_push, reconcile_lock, fg_watch, fg_changed,
                   manager_active, pushed, ops>>

LoadActive(t) ==
    /\ pc[t] = "load_active"
    /\ Decide(t, active <= 0)
    /\ UNCHANGED <<inputs, last_push, reconcile_lock, fg_watch, fg_changed,
                   manager_active, pushed, ops>>

\* Slip: the guard dropped between the swap and the push.
SwapLastPush_Unlocks(t) ==
    /\ pc[t] = "swap"
    /\ last_push' = want[t]
    /\ reconcile_lock' = NoThread
    /\ Goto(t, IF last_push = want[t] THEN "idle" ELSE "push")
    /\ UNCHANGED <<inputs, want, fg_watch, fg_changed, manager_active, pushed, ops>>

\* last_push.swap(want): equal intents return and release the lock.
SwapLastPush(t) ==
    /\ pc[t] = "swap"
    /\ last_push' = want[t]
    /\ \/ /\ last_push = want[t]
          /\ reconcile_lock' = NoThread
          /\ Goto(t, "idle")
       \/ /\ last_push # want[t]
          /\ Goto(t, "push")
          /\ UNCHANGED reconcile_lock
    /\ UNCHANGED <<inputs, want, fg_watch, fg_changed, manager_active, pushed, ops>>

\* activate() / deactivate(): set_manager_active while the lock is still held.
Push(t) ==
    /\ pc[t] = "push"
    /\ manager_active' = want[t]
    /\ pushed' = TRUE
    /\ reconcile_lock' = NoThread
    /\ Goto(t, "idle")
    /\ UNCHANGED <<inputs, last_push, want, fg_watch, fg_changed, ops>>

Reconcile(t) ==
    \/ Lock(t) \/ LoadMode(t) \/ LoadForeground(t) \/ LoadActive(t)
    \/ SwapLastPush(t) \/ Push(t)

Next ==
    \/ \E t \in Threads :
          \/ \E server \in BOOLEAN : SetModeStore(t, server)
          \/ SetModeReset(t)
          \/ \E delta \in {1, -1} : BumpSession(t, delta)
    \/ \E fg \in BOOLEAN : SetForeground(fg)
    \/ FgObserve
    \/ \E t \in Actors : Reconcile(t)

\* A started call runs on: OS threads and spawned tasks are scheduled, and the
\* lock is free again after a bounded number of steps.  New calls need not come.
Fairness ==
    /\ \A t \in Threads : WF_vars(SetModeReset(t))
    /\ \A t \in Actors : WF_vars(Reconcile(t))
    /\ WF_vars(FgObserve)

Spec == Init /\ [][Next]_vars /\ Fairness

-----------------------------------------------------------------------------
(***************************************************************************)
(* Properties                                                               *)
(***************************************************************************)
\* Every variable keeps its type; the clamp of bump_session keeps the session
\* counter a natural number (manager.rs:141-152).
TypeOK ==
    /\ server_mode \in BOOLEAN
    /\ foreground \in BOOLEAN
    /\ active \in 0 .. MaxActive
    /\ last_push \in BOOLEAN
    /\ reconcile_lock \in Actors \cup {NoThread}
    /\ pc \in [Actors -> PCs]
    /\ want \in [Actors -> BOOLEAN]
    /\ fg_watch \in BOOLEAN
    /\ fg_changed \in BOOLEAN
    /\ manager_active \in BOOLEAN
    /\ pushed \in BOOLEAN
    /\ ops \in 0 .. MaxOps

Quiescent == \A t \in Actors : pc[t] = "idle"

\* Whatever the interleaving of stores, loads and pushes, once no call is in
\* progress the recorded intent is the rule applied to the current inputs: the
\* last input stored is never lost (the reason reconcile_lock exists,
\* manager.rs:97-103).
NoLostIntent == Quiescent => last_push = Want

\* The WebSocket's gate never disagrees with the recorded intent once an intent
\* has been pushed and no push is under way: swap and push of two callers are
\* never reordered (manager.rs:154-172).
GateFollowsPush ==
    (pushed /\ \A t \in Actors : pc[t] # "push") => manager_active = last_push

\* A change of intent is pushed by the caller that recorded it: last_push never
\* changes while another caller's push is still to come (manager.rs:155-156).
OnePushAtATime ==
    [][last_push' # last_push => \A t \in Actors : pc[t] # "push"]_vars

\* When the environment stops calling, every stored input has been acted on:
\* the watch has been observed and the recorded intent is the rule's value.
Settles == <>[](Quiescent /\ foreground = fg_watch /\ last_push = Want)

\* docs/architecture.md:134-144: manager_active is the driver's rule, pushed on
\* every input change.
GateFollowsRule == Quiescent => manager_active = Want
=============================================================================
