---------------------------- MODULE MCManagers ----------------------------
(* The two managers.  A process runs one of them at a time (SetMode drops the  *)
(* other), so the choice is made once: a client re-dialling from two threads, *)
(* or a server answering two calls.  The other manager's state stays initial. *)
EXTENDS ClientManager

CONSTANTS Calls, MaxTasks, MaxEnds

ASSUME CallsAssumption == Calls # {} /\ Peers # {} /\ MaxTasks \in Nat

VARIABLES
    role,
    managed, handler, admission, in_flight, active_peers, task, pending, accepted,
    ended, ends, ender, torn, drain, sessions, tpeer, told,
    s_caller, s_made, s_live, s_stream, s_watcher, s_entered

Server == INSTANCE ServerCalls WITH
    caller <- s_caller, made <- s_made, live <- s_live, stream <- s_stream,
    watcher <- s_watcher, entered <- s_entered

server == <<managed, handler, admission, in_flight, active_peers, task, pending, accepted,
           ended, ends, ender, torn, drain, sessions, tpeer, told,
           s_caller, s_made, s_live, s_stream, s_watcher, s_entered>>

MCInit == role \in {"client", "server"} /\ Init /\ Server!Init

MCNext ==
    \/ role = "client" /\ Next /\ UNCHANGED <<role, server>>
    \/ role = "server" /\ Server!Next /\ UNCHANGED <<role, vars>>

\* Fairness of ClientManager and Fairness of ServerCalls, each for the role it belongs to.
MCFairness ==
    /\ \A t \in Tunnels : WF_vars(role = "client" /\ Watch(t))
    /\ \A c \in Callers : WF_vars(role = "client" /\ (ReplaceCurrent(c) \/ HangUpOld(c) \/ SpawnWatcher(c)))
    /\ WF_server(role = "server" /\ Server!TeardownTask)
    /\ WF_server(role = "server" /\ (Server!EnderLooks \/ Server!EnderCancels))
    /\ WF_server(role = "server" /\ Server!DrainStep)
    /\ \A k \in 1 .. MaxTasks : WF_server(role = "server" /\ Server!Incoming(k))
    /\ \A t \in Tunnels : WF_server(role = "server" /\ Server!Watch(t))

MCSpec == MCInit /\ [][MCNext]_<<role, vars, server>> /\ MCFairness

\* ServerTunnelManager: decisions and their cancel entries stay matched.
DecisionsBacked == Server!DecisionsBacked

\* Placing a call, or accepting a peer, again brings the session it replaces down.
ReplacedIsDown == SupersededIsDown /\ Server!SupersededIsDown

\* The end of a replaced session takes neither the newer call nor the peer's newer
\* session out of its slot.
NewestStays == [][KeepsNewCall /\ Server!KeepsNewSession]_<<role, vars, server>>

\* What is over is let go: a call that ended leaves the client's slot, and a cancelled
\* decision of the server is abandoned, whatever the decider does.
OverIsLetGo == EndFreesSlot /\ Server!CancelledLeaves
=============================================================================
