---------------------------- MODULE MCDesktop ----------------------------
(* The desktop daemon, seen two ways: its server mode with two calls of one    *)
(* peer, one kernel slot and one HTTP request; or its mode loop, with server   *)
(* mode as one place, and two HTTP requests.  The choice is made once and the  *)
(* state of the other view stays initial.                                      *)
EXTENDS ServerApp

CONSTANTS ModeRequests, Servers, no_one, MaxEnds

ASSUME NoModeAssumption == no_one \notin {"client", "server"}

VARIABLES
    view,
    token, user_disconnect, cfg, pinned, changed, at, client, link, heard, lk_done, ends,
    published, handler, connects, failed

Daemon == INSTANCE DaemonMode WITH
    Requests <- ModeRequests, None <- no_one, loop <- at, call <- link

daemon == <<token, user_disconnect, cfg, pinned, changed, at, client, link, heard, lk_done, ends,
            published, handler, connects, failed>>

MCInit ==
    /\ view \in {"server", "modes"}
    /\ Init /\ Daemon!Init
    /\ view = "server" => ~token /\ ~pinned /\ cfg.mode = no_one
    /\ view = "modes" => admission = {} /\ max_clients = CHOOSE n \in Caps : TRUE

MCNext ==
    \/ view = "server" /\ Next /\ UNCHANGED <<view, daemon>>
    \/ view = "modes" /\ Daemon!Next /\ UNCHANGED <<view, vars>>

\* Fairness of ServerApp.
MCFairness ==
    /\ \A c \in Calls : WF_vars(view = "server" /\ Watch(c)) /\ WF_vars(view = "server" /\ HandleSession(c))
    /\ WF_vars(view = "server" /\ OnEvent) /\ WF_vars(view = "server" /\ Clear)
    /\ WF_vars(view = "server" /\ Teardown)
    /\ \A p \in Peers : WF_vars(view = "server" /\ Resolve(p))

MCSpec == MCInit /\ [][MCNext]_<<view, vars, daemon>> /\ MCFairness

\* DaemonMode: every dial that fails has a selection of the user of its own.
NoTightLoop == Daemon!NoTightLoop

=============================================================================
