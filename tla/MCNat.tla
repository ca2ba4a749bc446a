------------------------------- MODULE MCNat -------------------------------
(* The userspace NAT for TLC: one TCP session, or the dispatcher's tables with the UDP *)
(* sessions; the choice is made once and the state of the other stays initial.  The    *)
(* TCP sequence numbers start just below the wrap-around.  The guest has four          *)
(* datagrams: two in fragments under the same IP id, one in fragments on another flow  *)
(* to the same host, and one that fits a packet; the table holds one stream.           *)
EXTENDS NatDispatcher

CONSTANTS
    M, CIsn, SIsn, MaxUp, MaxDown, HighWater, LowWater, MaxOoo, Wnd, RetryLimit,
    d1, d2, d3, d4, f1, f2, k1, k2, h1

VARIABLES part, flow, peer

Tcp == INSTANCE TcpSession WITH guest <- peer

MCSizeOf == (d1 :> 2) @@ (d2 :> 2) @@ (d3 :> 2) @@ (d4 :> 1)
MCFlowOf == (d1 :> f1) @@ (d2 :> f1) @@ (d3 :> f2) @@ (d4 :> f2)
MCFragKeyOf == (d1 :> k1) @@ (d2 :> k1) @@ (d3 :> k2) @@ (d4 :> k2)
MCHostOf == (f1 :> h1) @@ (f2 :> h1)

MCInit ==
    /\ part \in {"tcp", "tables"} /\ Init /\ Tcp!Init
    /\ part = "tables" => peer.total = 0

MCNext ==
    \/ part = "tcp" /\ Tcp!Next /\ UNCHANGED <<part, vars>>
    \/ part = "tables" /\ Next /\ UNCHANGED <<part, flow, peer>>

MCSpec == MCInit /\ [][MCNext]_<<part, vars, flow, peer>>

\* TcpSession: what a session carries arrives unchanged both ways.
StreamsIntact == Tcp!StreamsIntact

\* TcpSession: what the guest has not received yet is still kept for it, data and FIN.
GuestIsOwed == Tcp!GuestIsOwed

\* TcpSession: no direction of a live session waits for an event that nobody owes it.
NothingStalls == Tcp!NothingStalls
=============================================================================
