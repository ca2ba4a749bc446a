---------------------------- MODULE MCSendQueue ----------------------------
(* Small instances for TLC of the outbound path and of the TUN bridge that     *)
(* feeds it.  The choice is made once, and the state of the other stays        *)
(* initial.                                                                    *)
EXTENDS SendQueue

CONSTANTS MAX_PENDING_TX_PKTS, MaxRx, MaxAttached

ASSUME PendingAssumption == MAX_PENDING_TX_PKTS \in Nat

VARIABLES
    view,
    attached, tun, rx, writable, interest, triggered, event, reading, pending, paused, broken,
    failed, parked, posted

Tun == INSTANCE TunBridge

bridge == <<attached, tun, rx, writable, interest, triggered, event, reading, pending, paused, broken,
            failed, parked, posted>>

MCInit == view \in {"queue", "tun"} /\ Init /\ Tun!Init

MCNext ==
    \/ view = "queue" /\ Next /\ UNCHANGED <<view, bridge>>
    \/ view = "tun" /\ Tun!Next /\ UNCHANGED <<view, vars>>

\* No step of the queue that fairness asks for is enabled in its initial state.
MCSpec == MCInit /\ [][MCNext]_<<view, vars, bridge>> /\ Fairness

\* TunBridge: no report of the device is lost, and a paused bridge is resumed.
TunFlows == Tun!TunFlows
=============================================================================
