----------------------------- MODULE SendQueue -----------------------------
(***************************************************************************)
(* The outbound path of a tunnel (lktunnel/src/lib.rs): producers put packets*)
(* on a bounded queue; the sender task packs them into carrier frames        *)
(* (rtp.rs) and hands the frames to the tracks' bounded queues (rtc.rs).     *)
(* The TUN bridge (tun.rs) and quinn (quic_tunnel.rs) wait for a drain when  *)
(* the queue is full; the NAT's sessions just drop.                          *)
(***************************************************************************)
EXTENDS Integers, Sequences, FiniteSets

CONSTANTS Waiters,     \* producers that wait when the queue is full
          Droppers,    \* producers that drop
          Sizes,       \* packet sizes
          Cap,         \* SEND_QUEUE_CAP
          FrameCap,    \* MAX_FRAME_BYTES
          TrackCap     \* SEND_QUEUE_DEPTH

Producers == Waiters \cup Droppers

ASSUME CapAssumption == Cap \in Nat \ {0} /\ TrackCap \in Nat \ {0} /\ FrameCap \in Nat
\* Tagged packets, up to the 65535 bytes that push_packed's 16-bit length can say.
ASSUME SizesAssumption == Sizes \subseteq Nat \ {0}
ASSUME ProducersAssumption == Waiters \cap Droppers = {}

VARIABLES
    connected,      \* the lifecycle flag
    at,             \* per producer
    queue,          \* sizes of the packets queued
    sender,         \* the sender task
    batch, packed,  \* the frame being packed: its bytes and its packets
    next,           \* the packet that did not fit
    track,          \* frames in the track's queue
    inside,         \* packets accepted and not yet given to the track
    aborted, torn   \* teardown: abort() called; the waiters woken

vars == <<connected, at, queue, sender, batch, packed, next, track, inside, aborted, torn>>

Init ==
    /\ connected = TRUE
    /\ at = [p \in Producers |-> "idle"]
    /\ queue = <<>>
    /\ sender = "recv" /\ batch = 0 /\ packed = 0 /\ next = 0
    /\ track = 0
    /\ inside = 0
    /\ aborted = FALSE /\ torn = FALSE

Move(p, to) == at' = [at EXCEPT ![p] = to]

-----------------------------------------------------------------------------
(* Producers: send_ip / send_raw_frame and on_send_drained                   *)

Check(p) ==
    /\ at[p] = "idle"
    /\ connected
    /\ Move(p, "checked")
    /\ UNCHANGED <<connected, queue, sender, batch, packed, next, track, inside, aborted, torn>>

\* try_send with room.
Enqueue(p, size) ==
    /\ at[p] = "checked"
    /\ sender # "gone" /\ Len(queue) < Cap
    /\ queue' = Append(queue, size)
    /\ inside' = inside + 1
    /\ Move(p, "idle")
    /\ UNCHANGED <<connected, sender, batch, packed, next, track, aborted, torn>>

\* Backpressure.  The packet itself is lost; the producer pauses, or carries on.
Refuse(p) ==
    /\ at[p] = "checked"
    /\ sender # "gone" /\ Len(queue) = Cap
    /\ Move(p, IF p \in Waiters THEN "full" ELSE "idle")
    /\ UNCHANGED <<connected, queue, sender, batch, packed, next, track, inside, aborted, torn>>

\* The receiver is gone: NotConnected.
RefuseClosed(p) ==
    /\ at[p] = "checked"
    /\ sender = "gone"
    /\ Move(p, "idle")
    /\ UNCHANGED <<connected, queue, sender, batch, packed, next, track, inside, aborted, torn>>

\* Slip: the waiter parks without looking at the capacity again.
Register_Blindly(p) ==
    /\ at[p] = "full"
    /\ Move(p, "parked")
    /\ UNCHANGED <<connected, queue, sender, batch, packed, next, track, inside, aborted, torn>>

\* on_send_drained, under the lock of the waiters: fire at once or park.
Register(p) ==
    /\ at[p] = "full"
    /\ Move(p, IF Len(queue) < Cap THEN "resuming" ELSE "parked")
    /\ UNCHANGED <<connected, queue, sender, batch, packed, next, track, inside, aborted, torn>>

\* The callback's work: TunBridge::resume on the dispatcher thread, or quinn polled again.
Resume(p) ==
    /\ at[p] = "resuming"
    /\ Move(p, "idle")
    /\ UNCHANGED <<connected, queue, sender, batch, packed, next, track, inside, aborted, torn>>

-----------------------------------------------------------------------------
(* The sender task                                                           *)

\* push_packed takes the packet: it fits, or it is alone.
Fits(size) == batch = 0 \/ batch + 2 + size <= FrameCap

\* recv().await
SenderRecv ==
    /\ sender = "recv" /\ queue # <<>>
    /\ batch' = 2 + Head(queue) /\ packed' = 1
    /\ queue' = Tail(queue)
    /\ sender' = "packing"
    /\ UNCHANGED <<connected, at, next, track, inside, aborted, torn>>

\* try_recv, and the packet fits.
SenderPacks ==
    /\ sender = "packing" /\ queue # <<>>
    /\ Fits(Head(queue))
    /\ batch' = batch + 2 + Head(queue) /\ packed' = packed + 1
    /\ queue' = Tail(queue)
    /\ UNCHANGED <<connected, at, sender, next, track, inside, aborted, torn>>

\* try_recv, and it does not: flush first.
SenderOverflows ==
    /\ sender = "packing" /\ queue # <<>>
    /\ ~Fits(Head(queue))
    /\ next' = Head(queue)
    /\ queue' = Tail(queue)
    /\ sender' = "overflow"
    /\ UNCHANGED <<connected, at, batch, packed, track, inside, aborted, torn>>

\* Slip: on overflow the frame is logged, cleared and forgotten.
FlushOverflow_Drops ==
    /\ sender = "overflow"
    /\ track' = IF track < TrackCap THEN track + 1 ELSE track
    /\ inside' = IF track < TrackCap THEN inside - packed ELSE inside
    /\ batch' = 2 + next /\ packed' = 1
    /\ sender' = "packing"
    /\ UNCHANGED <<connected, at, queue, next, aborted, torn>>

\* flush_with_backpressure: retried until the track takes the frame.
FlushOverflow ==
    /\ sender = "overflow" /\ track < TrackCap
    /\ track' = track + 1
    /\ inside' = inside - packed
    /\ batch' = 2 + next /\ packed' = 1
    /\ sender' = "packing"
    /\ UNCHANGED <<connected, at, queue, next, aborted, torn>>

SenderSeesEmpty ==
    /\ sender = "packing" /\ queue = <<>>
    /\ sender' = "flush"
    /\ UNCHANGED <<connected, at, queue, batch, packed, next, track, inside, aborted, torn>>

Flush ==
    /\ sender = "flush" /\ track < TrackCap
    /\ track' = track + 1
    /\ inside' = inside - packed
    /\ batch' = 0 /\ packed' = 0
    /\ sender' = "wake"
    /\ UNCHANGED <<connected, at, queue, next, aborted, torn>>

WakeParked == [p \in Producers |-> IF at[p] = "parked" THEN "resuming" ELSE at[p]]

\* Slip: the sender goes back to recv without waking anybody.
SenderWakes_Nobody ==
    /\ sender = "wake"
    /\ sender' = "recv"
    /\ UNCHANGED <<connected, at, queue, batch, packed, next, track, inside, aborted, torn>>

SenderWakes ==
    /\ sender = "wake"
    /\ at' = WakeParked
    /\ sender' = "recv"
    /\ UNCHANGED <<connected, queue, batch, packed, next, track, inside, aborted, torn>>

\* The track's writer task puts a frame on the wire.
TrackWrites ==
    /\ track > 0
    /\ track' = track - 1
    /\ UNCHANGED <<connected, at, queue, sender, batch, packed, next, inside, aborted, torn>>

-----------------------------------------------------------------------------
(* teardown                                                                  *)

\* Also where the tunnel's run loop ends, with no teardown yet.
LowerFlag ==
    /\ connected
    /\ connected' = FALSE
    /\ UNCHANGED <<at, queue, sender, batch, packed, next, track, inside, aborted, torn>>

AbortSender ==
    /\ ~connected /\ ~aborted
    /\ aborted' = TRUE
    /\ UNCHANGED <<connected, at, queue, sender, batch, packed, next, track, inside, torn>>

WakeAll ==
    /\ aborted /\ ~torn
    /\ torn' = TRUE
    /\ at' = WakeParked
    /\ UNCHANGED <<connected, queue, sender, batch, packed, next, track, inside, aborted>>

\* The abort takes effect where the task awaits: recv, or a retry in a flush.
SenderDies ==
    /\ aborted
    /\ sender \in {"recv", "overflow", "flush"}
    /\ sender' = "gone"
    /\ queue' = <<>> /\ batch' = 0 /\ packed' = 0 /\ next' = 0
    /\ inside' = 0
    /\ UNCHANGED <<connected, at, track, aborted, torn>>

-----------------------------------------------------------------------------
SenderStep ==
    \/ SenderRecv \/ SenderPacks \/ SenderOverflows \/ FlushOverflow \/ SenderSeesEmpty \/ Flush
    \/ SenderWakes \/ SenderDies
Finish(p) == Register(p) \/ Resume(p) \/ Refuse(p) \/ RefuseClosed(p) \/ \E size \in Sizes : Enqueue(p, size)
TeardownStep == AbortSender \/ WakeAll

Next ==
    \/ \E p \in Producers : Check(p) \/ Finish(p)
    \/ SenderStep \/ TrackWrites \/ LowerFlag \/ TeardownStep

\* Tasks run on and a teardown that has begun ends; nobody has to send or to disconnect.
Fairness ==
    /\ WF_vars(SenderStep) /\ WF_vars(TrackWrites) /\ WF_vars(WakeAll)
    /\ \A p \in Producers : WF_vars(Finish(p))

Spec == Init /\ [][Next]_vars
FairSpec == Spec /\ Fairness

-----------------------------------------------------------------------------
(* Properties.                                                               *)

SenderPlaces == {"recv", "packing", "overflow", "flush", "wake", "gone"}

\* Every variable keeps its type; the queue and the track stay within their bounds.
TypeOK ==
    /\ connected \in BOOLEAN /\ aborted \in BOOLEAN /\ torn \in BOOLEAN
    /\ at \in [Producers -> {"idle", "checked", "full", "parked", "resuming"}]
    /\ queue \in Seq(Sizes) /\ Len(queue) <= Cap
    /\ sender \in SenderPlaces
    /\ batch \in Nat /\ packed \in Nat
    /\ next \in Sizes \cup {0}
    /\ track \in 0 .. TrackCap
    /\ inside \in Nat

\* No lost wake-up: until teardown, while a producer waits for a drain the sender has a
\* packet to pop or is on its way to waking the waiters (on_send_drained against the
\* sender task's drain).
NoLostWakeup ==
    (~aborted /\ \E p \in Producers : at[p] = "parked") => (queue # <<>> \/ sender # "recv")

\* Backpressure instead of loss: a packet the queue has accepted is in the queue, in the
\* frame being packed or held over for the next one, until the track takes it.
NothingLost == inside = Len(queue) + packed + (IF sender = "overflow" THEN 1 ELSE 0)

\* push_packed: a frame of several packets is within the carrier's limit.
FrameFits == packed <= 1 \/ batch <= FrameCap

\* Backpressure ends: a waiting producer is woken, or some other producer goes on sending.
DrainComes ==
    \A p \in Waiters :
        (at[p] = "parked" /\ connected) ~> (at[p] # "parked" \/ \E q \in Producers : at[q] = "checked")

\* What on_send_drained promises: the callback is fired the next time the sender pops a
\* packet; here only that it is fired at all.
ParkedIsWoken == \A p \in Waiters : (at[p] = "parked" /\ connected) ~> (at[p] # "parked")
=============================================================================
