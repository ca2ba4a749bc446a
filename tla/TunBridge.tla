----------------------------- MODULE TunBridge -----------------------------
(***************************************************************************)
(* The TUN bridge (lktunnel/src/tun.rs) and its links to the tunnel          *)
(* (tun_send, tun_wake_on_drain, inject_inbound_ip, attach_tun and           *)
(* detach_tun in lib.rs).  Everything here runs on the dispatcher thread,    *)
(* except for the drain of the send queue, which posts a resume to it.       *)
(* Packets are counted; what on_readable finds in one is chosen when it is   *)
(* read.  The device reports readiness once (edge-triggered): when it        *)
(* changes, and when the interest is registered anew.                        *)
(***************************************************************************)
EXTENDS Integers

CONSTANTS
    MAX_PENDING_TX_PKTS,
    MaxRx,          \* bound: packets in the device's read queue
    MaxAttached     \* bound: bridges attached, one after the other

VARIABLES
    attached,       \* bridges attached so far
    tun,            \* the tunnel has a bridge
    rx, writable,   \* the device: packets to read, and whether it takes one
    interest,       \* what is registered with the reactor
    triggered,      \* the poller has the device on its ready list
    event,          \* what the last poll reported and is not handled yet
    reading,        \* inside on_readable
    pending,        \* packets waiting to be written
    paused,
    broken,         \* history: a read error has paused the bridge
    failed,         \* history: the last drain ended with a write error
    parked,         \* waiters of this tunnel's bridges in the send queue
    posted          \* resumes posted to the dispatcher thread

device == <<rx, writable>>
bridge == <<interest, triggered, event, reading, pending, paused, broken, failed>>
wakes == <<parked, posted>>
vars == <<attached, tun, device, bridge, wakes>>

Init ==
    /\ attached = 0 /\ tun = FALSE
    /\ rx = 0 /\ writable = TRUE
    /\ interest = {} /\ triggered = FALSE /\ event = {}
    /\ reading = FALSE /\ pending = 0 /\ paused = FALSE /\ broken = FALSE /\ failed = FALSE
    /\ parked = 0 /\ posted = 0

-----------------------------------------------------------------------------
(* The device and the poller (external)                                      *)

\* What the device is ready for, of the interest I.
Ready(I, n, w) == (IF n > 0 THEN I \cap {"R"} ELSE {}) \cup (IF w THEN I \cap {"W"} ELSE {})

PacketArrives ==
    /\ tun /\ rx < MaxRx
    /\ rx' = rx + 1
    /\ triggered' = (triggered \/ "R" \in interest)
    /\ UNCHANGED <<attached, tun, writable, interest, event, reading, pending, paused, broken, failed, wakes>>

DeviceTakes ==
    /\ tun /\ ~writable
    /\ writable' = TRUE
    /\ triggered' = (triggered \/ "W" \in interest)
    /\ UNCHANGED <<attached, tun, rx, interest, event, reading, pending, paused, broken, failed, wakes>>

Poll ==
    /\ ~reading /\ event = {} /\ triggered
    /\ event' = Ready(interest, rx, writable)
    /\ triggered' = FALSE
    /\ UNCHANGED <<attached, tun, device, interest, reading, pending, paused, broken, failed, wakes>>

-----------------------------------------------------------------------------
(* Interest                                                                  *)

\* mio knows no empty interest: a paused bridge with nothing to write listens for reads.
Interest(stop, n) ==
    CASE ~stop /\ n > 0 -> {"R", "W"}
      [] stop /\ n > 0 -> {"W"}
      [] OTHER -> {"R"}

\* refresh_interest: registering again reports what is ready by then.
refresh_interest ==
    /\ interest' = Interest(paused', pending')
    /\ triggered' = (triggered \/ Ready(interest', rx', writable') # {})

\* drain of n packets: all are written; or the device takes k of them and then blocks or
\* takes a part of the next, which is registered for; or it fails and nothing is.
drain(n) ==
    \/ /\ n = 0 \/ writable
       /\ pending' = 0 /\ failed' = FALSE /\ UNCHANGED writable
       /\ refresh_interest
    \/ /\ n > 0
       /\ \E k \in 0 .. n - 1 : pending' = n - k /\ (k > 0 => writable)
       /\ \/ writable' = FALSE
          \/ writable /\ UNCHANGED writable
       /\ failed' = FALSE
       /\ refresh_interest
    \/ /\ n > 0
       /\ \E k \in 0 .. n - 1 : pending' = n - k /\ (k > 0 => writable)
       /\ failed' = TRUE
       /\ UNCHANGED <<writable, interest, triggered>>

\* inject: a packet above the cap is dropped.
inject ==
    IF pending >= MAX_PENDING_TX_PKTS THEN UNCHANGED <<writable, interest, triggered, pending, failed>>
    ELSE drain(pending + 1)

-----------------------------------------------------------------------------
(* attach_tun and detach_tun                                                 *)

attach ==
    /\ ~tun /\ attached < MaxAttached
    /\ attached' = attached + 1 /\ tun' = TRUE
    /\ rx' = 0 /\ writable' = TRUE
    /\ interest' = {"R"} /\ triggered' = FALSE /\ event' = {}
    /\ reading' = FALSE /\ pending' = 0 /\ paused' = FALSE /\ broken' = FALSE /\ failed' = FALSE
    /\ UNCHANGED wakes

\* Drop: deregistered, the descriptor closed.
detach ==
    /\ tun /\ ~reading
    /\ tun' = FALSE
    /\ interest' = {} /\ triggered' = FALSE /\ event' = {}
    /\ UNCHANGED <<attached, device, reading, pending, paused, broken, failed, wakes>>

-----------------------------------------------------------------------------
(* Events                                                                    *)

\* inject_inbound_ip, with a bridge as the only data plane.
inject_inbound_ip ==
    /\ tun /\ ~reading
    /\ UNCHANGED <<attached, tun, rx, event, reading, paused, broken, wakes>>
    /\ inject

\* on_event: the writes first, then the reads.
on_event ==
    /\ tun /\ ~reading /\ event # {}
    /\ event' = {}
    /\ reading' = ("R" \in event /\ ~paused)
    /\ UNCHANGED <<attached, tun, rx, paused, broken, wakes>>
    /\ IF "W" \in event THEN drain(pending)
       ELSE UNCHANGED <<writable, interest, triggered, pending, failed>>

\* A packet is read: IPv4 that the tunnel takes or that is dropped with the tunnel not
\* connected, or a frame that holds nothing.
ReadPasses ==
    /\ reading /\ rx > 0
    /\ rx' = rx - 1
    /\ UNCHANGED <<attached, tun, writable, bridge, wakes>>

\* IPv6: an unreachable reply goes back through inject, if one can be built.
ReadRejects ==
    /\ reading /\ rx > 0
    /\ rx' = rx - 1
    /\ UNCHANGED <<attached, tun, event, reading, paused, broken, wakes>>
    /\ inject

\* Backpressure: the packet is lost, the bridge pauses, and tun_wake_on_drain leaves a
\* waiter with the send queue.
ReadPauses ==
    /\ reading /\ rx > 0
    /\ rx' = rx - 1
    /\ paused' = TRUE /\ reading' = FALSE
    /\ UNCHANGED <<pending, writable>> /\ refresh_interest
    /\ parked' = parked + 1
    /\ UNCHANGED <<attached, tun, event, broken, failed, posted>>

\* WouldBlock
ReadEnds ==
    /\ reading /\ rx = 0
    /\ reading' = FALSE
    /\ UNCHANGED <<attached, tun, device, interest, triggered, event, pending, paused, broken, failed, wakes>>

ReadFails ==
    /\ reading
    /\ paused' = TRUE /\ broken' = TRUE /\ reading' = FALSE
    /\ UNCHANGED <<pending, rx, writable>> /\ refresh_interest
    /\ UNCHANGED <<attached, tun, event, failed, wakes>>

on_readable == ReadPasses \/ ReadRejects \/ ReadPauses \/ ReadEnds \/ ReadFails

-----------------------------------------------------------------------------
(* Backpressure ends                                                         *)

\* The sender task, another thread, fires every waiter: each posts a resume.
SendDrained ==
    /\ parked > 0
    /\ parked' = 0 /\ posted' = posted + parked
    /\ UNCHANGED <<attached, tun, device, bridge>>

\* Slip: reads are allowed again and nothing is registered.
resume_Unregistered ==
    /\ posted > 0 /\ ~reading
    /\ posted' = posted - 1
    /\ paused' = FALSE /\ broken' = FALSE
    /\ UNCHANGED <<attached, tun, device, interest, triggered, event, reading, pending, failed, parked>>

\* resume, of the bridge that the tunnel has by now.
resume ==
    /\ posted > 0 /\ ~reading
    /\ posted' = posted - 1
    /\ IF tun /\ paused
       THEN /\ paused' = FALSE /\ broken' = FALSE
            /\ UNCHANGED <<pending, rx, writable>> /\ refresh_interest
       ELSE UNCHANGED <<device, paused, broken, pending, interest, triggered>>
    /\ UNCHANGED <<attached, tun, event, reading, failed, parked>>

Next ==
    \/ PacketArrives \/ DeviceTakes \/ Poll
    \/ attach \/ detach \/ inject_inbound_ip \/ on_event \/ on_readable
    \/ SendDrained \/ resume

Spec == Init /\ [][Next]_vars

-----------------------------------------------------------------------------
(* Properties.                                                               *)

Flags ==
    /\ tun \in BOOLEAN /\ writable \in BOOLEAN /\ triggered \in BOOLEAN /\ reading \in BOOLEAN
    /\ paused \in BOOLEAN /\ broken \in BOOLEAN /\ failed \in BOOLEAN

\* Every variable keeps its type; pending stays within its cap.
TypeOK ==
    /\ Flags
    /\ attached \in Nat /\ rx \in Nat /\ pending \in 0 .. MAX_PENDING_TX_PKTS
    /\ parked \in Nat /\ posted \in Nat
    /\ interest \subseteq {"R", "W"} /\ event \subseteq {"R", "W"}

\* Readiness is reported once, and no report is lost: a bridge that may read and has
\* something to read will be told, one that is paused will be resumed, and one that has
\* something to write is registered for it and will be told; though it may pause between
\* two reports, answer IPv6 in the middle of a read, and be replaced by another bridge
\* (refresh_interest, on_readable, resume; tun_wake_on_drain).  After a read error nothing
\* resumes it, and after a write error nothing writes.
ReadsGoOn == ~paused /\ ~reading /\ rx > 0 => triggered \/ "R" \in event
PausesEnd == paused /\ ~broken => parked + posted > 0
WritesWait == pending > 0 /\ ~failed => "W" \in interest /\ (writable => triggered \/ "W" \in event)
TunFlows == tun => ReadsGoOn /\ PausesEnd /\ WritesWait

-----------------------------------------------------------------------------
\* What the code means to do and does not

\* inject: "partial writes re-queue, hard errors tear the bridge down on the next event
\* tick" (tun.rs:146-148): nothing does, and the packet that failed stays first.
WritesGoOn == tun /\ pending > 0 => "W" \in interest
=============================================================================
