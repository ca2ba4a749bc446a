----------------------------- MODULE MCTunnel -----------------------------
(* One tunnel, seen two ways: its life with two callers, in which the QUIC     *)
(* client is a single task; or its QUIC client with two ensure calls.  The     *)
(* choice is made once and the state of the other view stays initial.          *)
EXTENDS QuicClient

CONSTANTS Users, Quic, Subscribers, MaxCalls

\* Drop is nobody's call.
ASSUME UsersAssumption == "drop" \notin Users

VARIABLES
    view,
    state, flag, task, aborted, engine, slot, roster, sender, planes, quic, events,
    handles, pc, done, want, entries, calls

Life == INSTANCE LkTunnel WITH connected <- flag

life == <<state, flag, task, aborted, engine, slot, roster, sender, planes, quic, events,
          handles, pc, done, want, entries, calls>>

MCInit == view \in {"life", "quic"} /\ Init /\ Life!Init

MCNext ==
    \/ view = "life" /\ Life!Next /\ UNCHANGED <<view, vars>>
    \/ view = "quic" /\ Next /\ UNCHANGED <<view, life>>

\* Fairness of LkTunnel and Fairness of QuicClient, each for the view it belongs to.
MCFairness ==
    /\ WF_life(view = "life" /\ Life!TaskStep)
    /\ WF_life(view = "life" /\ Life!WarmGivesUp) /\ WF_life(view = "life" /\ Life!KeeperClosed)
    /\ WF_life(view = "life" /\ Life!KeeperRedial) /\ WF_life(view = "life" /\ Life!KeeperWakes)
    /\ \A a \in Users \cup {"drop"} : WF_life(view = "life" /\ Life!Teardown(a))
    /\ \A c \in Callers : WF_vars(view = "quic" /\ Ensure(c)) /\ WF_vars(view = "quic" /\ Keep(c))
    /\ \A d \in Dials : WF_vars(view = "quic" /\ Starves(d))

MCSpec == MCInit /\ [][MCNext]_<<view, vars, life>> /\ MCFairness

\* LkTunnel: start_server and attach_tun never both succeed, and once Drop has run nothing
\* of the tunnel is left open, running or installed.
HoldsNoMore == Life!HoldsNoMore

\* LkTunnel: to its watcher a tunnel is a TunnelStream, which is all the managers rely on.
StreamsAsPromised == Life!StreamsAsPromised

\* LkTunnel: a session whose room stays empty ends without any further event.
EmptyRoomEnds == (view = "life") => Life!EmptyRoomEnds
=============================================================================
