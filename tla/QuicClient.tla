----------------------------- MODULE QuicClient -----------------------------
(***************************************************************************)
(* The QUIC client of a tunnel: LkTunnel::ensure_quic_client and             *)
(* connect_quic_to_peer (lib.rs) and the keeper_task that each successful    *)
(* ensure call leaves behind (quic_tunnel.rs).                               *)
(*                                                                           *)
(* Two slots are shared: quic_client holds the connection in use, quic_rx_tx *)
(* the channel that inbound datagrams go to.  A dial makes a channel and a   *)
(* connection on it, so one name stands for both; a connection whose channel *)
(* has left quic_rx_tx hears nothing more and is lost.                       *)
(***************************************************************************)
EXTENDS Integers

CONSTANTS Callers,      \* calls of ensure_quic_client
          Dials,        \* names for dials; a name is used again once nothing holds it
          NoDial, NoCaller,
          MaxLosses     \* bound on connections and handshakes lost to the network or the peer

ASSUME NamesAssumption == NoDial \notin Dials /\ NoCaller \notin Callers

VARIABLES
    connected,     \* the tunnel's flag
    tearing,       \* teardown: "no", "client", "channel", "done"
    answering,     \* the peer's acceptor is up
    quic_client, quic_rx_tx,
    connect_lock,  \* the caller that holds it, or NoCaller
    at,            \* per caller: where ensure_quic_client is
    keeper,        \* per caller: where the keeper it spawned is
    dial,          \* per task: the dial it has under way
    watched,       \* per caller: the connection its keeper watches
    link,          \* per dial: "none", "handshake", "up", "closed"
    losses

vars == <<connected, tearing, answering, quic_client, quic_rx_tx, connect_lock,
          at, keeper, dial, watched, link, losses>>

\* A task is an ensure call or a keeper; c names both of a caller's.
Tasks == {"ensure", "keeper"} \X Callers

Init ==
    /\ connected = TRUE /\ tearing = "no" /\ answering = FALSE
    /\ quic_client = NoDial /\ quic_rx_tx = NoDial
    /\ connect_lock = NoCaller
    /\ at = [c \in Callers |-> "call"] /\ keeper = [c \in Callers |-> "none"]
    /\ dial = [t \in Tasks |-> NoDial] /\ watched = [c \in Callers |-> NoDial]
    /\ link = [d \in Dials |-> "none"]
    /\ losses = 0

Place(t) == IF t[1] = "ensure" THEN at[t[2]] ELSE keeper[t[2]]

Goto(t, place) ==
    IF t[1] = "ensure"
    THEN at' = [at EXCEPT ![t[2]] = place] /\ UNCHANGED keeper
    ELSE keeper' = [keeper EXCEPT ![t[2]] = place] /\ UNCHANGED at

\* A name nothing refers to; a connection with no handle left is closed.
Fresh(d) ==
    /\ d \notin {quic_client, quic_rx_tx}
    /\ \A t \in Tasks : dial[t] # d
    /\ \A c \in Callers : watched[c] # d

-----------------------------------------------------------------------------
(* connect_quic_to_peer, for an ensure call and for a keeper alike            *)

\* The slot is claimed, or AlreadyExists.  (Dials are names: one is free.)
Claim(t) ==
    /\ Place(t) = "claim" /\ \E d \in Dials : Fresh(d)
    /\ IF quic_rx_tx # NoDial
       THEN Goto(t, "failed") /\ UNCHANGED <<quic_rx_tx, dial, link>>
       ELSE LET d == CHOOSE d \in Dials : Fresh(d) IN
            /\ Goto(t, "handshake")
            /\ quic_rx_tx' = d
            /\ dial' = [dial EXCEPT ![t] = d]
            /\ link' = [link EXCEPT ![d] = "handshake"]
    /\ UNCHANGED <<connected, tearing, answering, quic_client, connect_lock, watched, losses>>

\* The handshake needs the peer's acceptor and the answers it sends.
Established(t) ==
    /\ Place(t) = "handshake" /\ answering /\ quic_rx_tx = dial[t]
    /\ Goto(t, "install")
    /\ link' = [link EXCEPT ![dial[t]] = "up"]
    /\ UNCHANGED <<connected, tearing, answering, quic_client, quic_rx_tx, connect_lock, dial, watched, losses>>

\* It fails for want of answers, or because the carrier loses too many of them.
TimesOut(t) ==
    /\ Place(t) = "handshake"
    /\ \/ (~answering \/ quic_rx_tx # dial[t]) /\ UNCHANGED losses
       \/ losses < MaxLosses /\ losses' = losses + 1
    /\ Goto(t, "cleanup")
    /\ link' = [link EXCEPT ![dial[t]] = "closed"]
    /\ UNCHANGED <<connected, tearing, answering, quic_client, quic_rx_tx, connect_lock, dial, watched>>

\* Slip: the claim outlives the failed handshake.
Cleanup_Forgotten(t) ==
    /\ Place(t) = "cleanup"
    /\ dial' = [dial EXCEPT ![t] = NoDial]
    /\ Goto(t, "failed")
    /\ UNCHANGED <<connected, tearing, answering, quic_client, quic_rx_tx, connect_lock, watched, link, losses>>

\* Whatever channel is in the slot by now is cleared.
Cleanup(t) ==
    /\ Place(t) = "cleanup"
    /\ quic_rx_tx' = NoDial
    /\ dial' = [dial EXCEPT ![t] = NoDial]
    /\ Goto(t, "failed")
    /\ UNCHANGED <<connected, tearing, answering, quic_client, connect_lock, watched, link, losses>>

Installed(t, next) ==
    /\ Place(t) = "install"
    /\ quic_client' = dial[t]
    /\ dial' = [dial EXCEPT ![t] = NoDial]
    /\ Goto(t, next)
    /\ UNCHANGED <<connected, tearing, answering, quic_rx_tx, connect_lock, watched, link, losses>>

Connecting(t) == Claim(t) \/ Established(t) \/ TimesOut(t) \/ Cleanup(t)

-----------------------------------------------------------------------------
(* ensure_quic_client                                                        *)

FastPath(c) ==
    /\ at[c] = "call"
    /\ at' = [at EXCEPT ![c] = IF quic_client # NoDial THEN "done" ELSE "lock"]
    /\ UNCHANGED <<connected, tearing, answering, quic_client, quic_rx_tx, connect_lock,
                   keeper, dial, watched, link, losses>>

\* The second look, under the lock.
Acquire(c) ==
    /\ at[c] = "lock" /\ connect_lock = NoCaller
    /\ IF quic_client # NoDial
       THEN at' = [at EXCEPT ![c] = "done"] /\ UNCHANGED connect_lock
       ELSE at' = [at EXCEPT ![c] = "top"] /\ connect_lock' = c
    /\ UNCHANGED <<connected, tearing, answering, quic_client, quic_rx_tx, keeper, dial, watched, link, losses>>

EnsureTop(c) ==
    /\ at[c] = "top"
    /\ IF connected THEN at' = [at EXCEPT ![c] = "claim"] /\ UNCHANGED connect_lock
       ELSE at' = [at EXCEPT ![c] = "done"] /\ connect_lock' = NoCaller
    /\ UNCHANGED <<connected, tearing, answering, quic_client, quic_rx_tx, keeper, dial, watched, link, losses>>

\* Sleep, then try again.
EnsureRetries(c) ==
    /\ at[c] = "failed"
    /\ at' = [at EXCEPT ![c] = "top"]
    /\ UNCHANGED <<connected, tearing, answering, quic_client, quic_rx_tx, connect_lock,
                   keeper, dial, watched, link, losses>>

EnsureInstalls(c) == Installed(<<"ensure", c>>, "spawn")

SpawnKeeper(c) ==
    /\ at[c] = "spawn"
    /\ keeper' = [keeper EXCEPT ![c] = "read"]
    /\ at' = [at EXCEPT ![c] = "done"]
    /\ connect_lock' = NoCaller
    /\ UNCHANGED <<connected, tearing, answering, quic_client, quic_rx_tx, dial, watched, link, losses>>

Ensure(c) ==
    \/ FastPath(c) \/ Acquire(c) \/ EnsureTop(c) \/ EnsureRetries(c)
    \/ EnsureInstalls(c) \/ SpawnKeeper(c) \/ Connecting(<<"ensure", c>>)

-----------------------------------------------------------------------------
(* keeper_task                                                               *)

KeeperReads(c) ==
    /\ keeper[c] = "read"
    /\ keeper' = [keeper EXCEPT ![c] = IF quic_client = NoDial THEN "done" ELSE "watch"]
    /\ watched' = [watched EXCEPT ![c] = quic_client]
    /\ UNCHANGED <<connected, tearing, answering, quic_client, quic_rx_tx, connect_lock, at, dial, link, losses>>

\* conn.closed(), then whether the tunnel is up.
KeeperWakes(c) ==
    /\ keeper[c] = "watch" /\ link[watched[c]] = "closed"
    /\ watched' = [watched EXCEPT ![c] = NoDial]
    /\ keeper' = [keeper EXCEPT ![c] = IF connected THEN "drop_client" ELSE "done"]
    /\ UNCHANGED <<connected, tearing, answering, quic_client, quic_rx_tx, connect_lock, at, dial, link, losses>>

DropClient(c) ==
    /\ keeper[c] = "drop_client"
    /\ quic_client' = NoDial
    /\ keeper' = [keeper EXCEPT ![c] = "drop_channel"]
    /\ UNCHANGED <<connected, tearing, answering, quic_rx_tx, connect_lock, at, dial, watched, link, losses>>

DropChannel(c) ==
    /\ keeper[c] = "drop_channel"
    /\ quic_rx_tx' = NoDial
    /\ keeper' = [keeper EXCEPT ![c] = "top"]
    /\ UNCHANGED <<connected, tearing, answering, quic_client, connect_lock, at, dial, watched, link, losses>>

KeeperTop(c) ==
    /\ keeper[c] = "top"
    /\ keeper' = [keeper EXCEPT ![c] = IF connected THEN "claim" ELSE "done"]
    /\ UNCHANGED <<connected, tearing, answering, quic_client, quic_rx_tx, connect_lock,
                   at, dial, watched, link, losses>>

\* Slip: a failed dial ends the keeper.
KeeperRetries_GivesUp(c) ==
    /\ keeper[c] = "failed"
    /\ quic_rx_tx' = NoDial
    /\ keeper' = [keeper EXCEPT ![c] = "done"]
    /\ UNCHANGED <<connected, tearing, answering, quic_client, connect_lock, at, dial, watched, link, losses>>

\* After a failure of any kind the channel is cleared once more; then the keeper sleeps.
KeeperRetries(c) ==
    /\ keeper[c] = "failed"
    /\ quic_rx_tx' = NoDial
    /\ keeper' = [keeper EXCEPT ![c] = "top"]
    /\ UNCHANGED <<connected, tearing, answering, quic_client, connect_lock, at, dial, watched, link, losses>>

KeeperInstalls(c) == Installed(<<"keeper", c>>, "read")

Keep(c) ==
    \/ KeeperReads(c) \/ KeeperWakes(c) \/ DropClient(c) \/ DropChannel(c) \/ KeeperTop(c)
    \/ KeeperRetries(c) \/ KeeperInstalls(c) \/ Connecting(<<"keeper", c>>)

-----------------------------------------------------------------------------
(* The tunnel and the peer                                                   *)

\* teardown: the flag, then the two slots.
Teardown ==
    /\ \/ tearing = "no" /\ tearing' = "client" /\ connected' = FALSE /\ UNCHANGED <<quic_client, quic_rx_tx>>
       \/ tearing = "client" /\ tearing' = "channel" /\ quic_client' = NoDial /\ UNCHANGED <<connected, quic_rx_tx>>
       \/ tearing = "channel" /\ tearing' = "done" /\ quic_rx_tx' = NoDial /\ UNCHANGED <<connected, quic_client>>
    /\ UNCHANGED <<answering, connect_lock, at, keeper, dial, watched, link, losses>>

PeerStarts ==
    /\ ~answering /\ answering' = TRUE
    /\ UNCHANGED <<connected, tearing, quic_client, quic_rx_tx, connect_lock, at, keeper, dial, watched, link, losses>>

\* poll_recv finds the sender gone, and the endpoint's driver ends.
Starves(d) ==
    /\ link[d] = "up" /\ quic_rx_tx # d
    /\ link' = [link EXCEPT ![d] = "closed"]
    /\ UNCHANGED <<connected, tearing, answering, quic_client, quic_rx_tx, connect_lock,
                   at, keeper, dial, watched, losses>>

\* An idle timeout, or a restart of the peer.
Lost(d) ==
    /\ link[d] = "up" /\ quic_rx_tx = d /\ losses < MaxLosses
    /\ link' = [link EXCEPT ![d] = "closed"]
    /\ losses' = losses + 1
    /\ UNCHANGED <<connected, tearing, answering, quic_client, quic_rx_tx, connect_lock, at, keeper, dial, watched>>

Next ==
    \/ \E c \in Callers : Ensure(c) \/ Keep(c)
    \/ Teardown \/ PeerStarts
    \/ \E d \in Dials : Starves(d) \/ Lost(d)

\* Tasks run on, timers and drivers included; the user, the peer and the network owe nothing.
Fairness ==
    /\ \A c \in Callers : WF_vars(Ensure(c)) /\ WF_vars(Keep(c))
    /\ \A d \in Dials : WF_vars(Starves(d))

Spec == Init /\ [][Next]_vars
FairSpec == Spec /\ Fairness

-----------------------------------------------------------------------------
(* Properties                                                                *)

Dialing == {"top", "claim", "handshake", "cleanup", "failed", "install"}
EnsurePlaces == {"call", "lock", "spawn", "done"} \cup Dialing
KeeperPlaces == {"none", "read", "watch", "drop_client", "drop_channel", "done"} \cup Dialing

\* Every variable keeps its type (the QUIC fields of LkTunnel, lib.rs:260-287).
TypeOK ==
    /\ connected \in BOOLEAN /\ answering \in BOOLEAN
    /\ tearing \in {"no", "client", "channel", "done"}
    /\ quic_client \in Dials \cup {NoDial} /\ quic_rx_tx \in Dials \cup {NoDial}
    /\ connect_lock \in Callers \cup {NoCaller}
    /\ at \in [Callers -> EnsurePlaces] /\ keeper \in [Callers -> KeeperPlaces]
    /\ dial \in [Tasks -> Dials \cup {NoDial}] /\ watched \in [Callers -> Dials \cup {NoDial}]
    /\ link \in [Dials -> {"none", "handshake", "up", "closed"}]
    /\ losses \in Int

Kept == \E c \in Callers : at[c] \in Dialing \cup {"spawn"} \/ keeper[c] \notin {"none", "done"}

\* "After the first successful call, the keeper task monitors Connection.closed()": as long
\* as the tunnel is up, a task is left that keeps the connection, however keepers and
\* ensure calls clear each other's slots (keeper_task's early returns).
NeverUnkept == connected /\ (\E c \in Callers : keeper[c] # "none") => Kept

Healthy == quic_client # NoDial /\ quic_rx_tx = quic_client /\ link[quic_client] = "up"
Dialers == {t \in Tasks : Place(t) \in Dialing \cup {"spawn"} \/ (t[1] = "keeper" /\ Place(t) \notin {"none", "done"})}

\* "re-establishes automatically on idle timeout / network blip / peer restart": with the
\* tunnel up, the peer answering and no second task at work on the connection, it comes up
\* and stays up once the losses end.
Reconnects == <>[](connected /\ answering /\ \A t, u \in Dialers : t = u) => <>[]Healthy

\* "Safe to call multiple times": the same with any number of keepers.
ReconnectsAnyhow == <>[](connected /\ answering) => <>[]Healthy
=============================================================================
