---------------------------- MODULE MCSignaling ----------------------------
(* What keeps the WebSocket up, seen three ways: the activation driver that   *)
(* opens and shuts its gate, the rule engine with its run loops, to which the *)
(* gate is one input, or the update subscription of successive connections.   *)
(* The choice is made once and the state of the other views stays initial.    *)
EXTENDS WsClient

CONSTANTS MaxIdx, MaxInbox,
          Threads, FgTask, NoThread, MaxActive, MaxIntents

ASSUME ThreadsAssumption == FgTask \notin Threads /\ NoThread \notin Threads \cup {FgTask}
ASSUME IntentsAssumption == MaxActive \in Nat /\ MaxIntents \in Nat

VARIABLES
    view,
    link, links, welcomed,
    rpc_idx, subscribe_idx, subscribe_backoff, streams, inbox, resubs,
    server_mode, foreground, active, last_push, reconcile_lock, stage, want,
    fg_watch, fg_changed, gate, pushed, inputs_made

Updates == INSTANCE WsSubscription WITH conn <- link, conns <- links, greeted <- welcomed

updates == <<link, links, welcomed, rpc_idx, subscribe_idx, subscribe_backoff, streams, inbox, resubs>>

Driver == INSTANCE ActivationDriver WITH
    MaxOps <- MaxIntents, pc <- stage, manager_active <- gate, ops <- inputs_made

driver == <<server_mode, foreground, active, last_push, reconcile_lock, stage, want,
            fg_watch, fg_changed, gate, pushed, inputs_made>>

\* The initial choices of a view that is not chosen are made one way only.
MCInit ==
    /\ view \in {"driver", "rule", "updates"}
    /\ Init /\ Updates!Init /\ Driver!Init
    /\ view = "rule" \/ stored_token = NoToken
    /\ view = "driver" \/ (fg_watch /\ stage[CHOOSE t \in Threads : TRUE] = "reconcile")

MCNext ==
    \/ view = "driver" /\ Driver!Next /\ UNCHANGED <<view, vars, updates>>
    \/ view = "rule" /\ Next /\ UNCHANGED <<view, updates, driver>>
    \/ view = "updates" /\ Updates!Next /\ UNCHANGED <<view, vars, driver>>

\* The fairness of the three modules, each for the view it belongs to.
MCFairness ==
    /\ \A t \in Threads : WF_driver(view = "driver" /\ Driver!SetModeReset(t))
    /\ \A t \in Threads \cup {FgTask} : WF_driver(view = "driver" /\ Driver!Reconcile(t))
    /\ WF_driver(view = "driver" /\ Driver!FgObserve)
    /\ \A a \in Actors : WF_vars(view = "rule" /\ Evaluate(a))
    /\ \A l \in Loops : WF_vars(view = "rule" /\ Polled(l)) /\ WF_vars(view = "rule" /\ Cancel(l))
    /\ WF_updates(view = "updates" /\ Updates!Reader)
    /\ WF_updates(view = "updates" /\ \E t \in resubs : Updates!ResubWake(t) \/ Updates!ResubSend(t))

MCSpec == MCInit /\ [][MCNext]_<<view, vars, updates, driver>> /\ MCFairness

\* ActivationDriver: with no call in progress the recorded intent is the rule applied
\* to the inputs (reconcile_lock, manager.rs:97-103).
NoLostIntent == Driver!NoLostIntent

\* ActivationDriver: outside a push the gate is the recorded intent (manager.rs:154-172).
GateFollowsPush == Driver!GateFollowsPush

\* ActivationDriver: a change of intent waits for the push of the one before it
\* (manager.rs:155-156).
OnePushAtATime == Driver!OnePushAtATime

\* ActivationDriver: when the calls stop, every stored input has been acted on.
IntentSettles == (view = "driver") => Driver!Settles

\* WsSubscription: re-subscribing neither stops nor multiplies, and a connection that
\* stays up is subscribed again after a failure.
Resubscribes == Updates!Resubscribes
=============================================================================
