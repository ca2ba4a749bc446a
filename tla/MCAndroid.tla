---------------------------- MODULE MCAndroid ----------------------------
(* The Android app, seen three ways.  BaleConnection runs one of its two       *)
(* services at a time: the VPN client, with a start that is stopped, fails and *)
(* loses its manager, a second start after a stop, or a second start after a   *)
(* failure; or the server, with two calls of one peer, and two start commands  *)
(* or a start and a press.  Or the contact screen, with three contacts on two  *)
(* pages.  The choice is made once, and the state of the others stays initial. *)
EXTENDS AndroidVpn

CONSTANTS MaxClients, MaxCalls, MaxStarts, ann, bob, cyd, Phoning, PageSize, MaxOps, Null

VARIABLES
    role,
    scope, s_service, s_stopping, manager, admitting, collectors, ringing, thread, session,
    pendingDecisions, clients, jobs, expired, allowed, blocked, presses, taken, missed, installed,
    contacts, cache, names, ops, started, screen, manage, history

Server == INSTANCE AndroidServer WITH service <- s_service, stopping <- s_stopping

server == <<scope, s_service, s_stopping, manager, admitting, collectors, ringing, thread, session,
            pendingDecisions, clients, jobs, expired, allowed, blocked, presses, taken, missed, installed>>

Book == INSTANCE Contacts WITH Users <- {ann, bob, cyd}

book == <<contacts, cache, names, ops, started, screen, manage, history>>

Budget(s, t, m, f) == [starts |-> s, stops |-> t, switches |-> m, failures |-> f]
MCBudgets == {Budget(1, 1, 1, 1), Budget(2, 1, 0, 0), Budget(2, 0, 0, 1)}

MCInit ==
    /\ role \in {"vpn", "server", "contacts"}
    /\ Init /\ Server!Init /\ Book!Init
    /\ role # "server" => allowed = {} /\ blocked = {}
    /\ role # "vpn" => budget = Budget(2, 1, 0, 0)
    /\ role # "contacts" => manage
    /\ contacts = <<ann, bob, cyd>>

MCNext ==
    \/ role = "vpn" /\ Next /\ UNCHANGED <<role, server, book>>
    \/ role = "server" /\ Server!Next /\ UNCHANGED <<role, vars, book>>
    \/ role = "contacts" /\ Book!Next /\ UNCHANGED <<role, vars, server>>

MCSpec == MCInit /\ [][MCNext]_<<role, vars, server, book>>

\* AndroidServer: every Connected of the manager's sessions is handled once.
TakenOnce == role = "server" => Server!TakenOnce


\* Contacts: every page is cut in range, and without overlaps and lost replies the cache
\* and the rows are the server's list.
PagesAddUp == role = "contacts" => Book!PagesAddUp
=============================================================================
