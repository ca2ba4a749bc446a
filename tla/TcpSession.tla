----------------------------- MODULE TcpSession -----------------------------
(***************************************************************************)
(* One TCP flow of the userspace NAT (nat/tcp_session.rs): the state       *)
(* machine that ends the guest's TCP connection, and the host socket it    *)
(* relays the bytes to.  All of it runs on the dispatcher thread, so each  *)
(* handler is one step; what interleaves are the guest's segments (late,   *)
(* repeated, cut differently, out of order), the edge-triggered events of  *)
(* the host socket, and the timers.                                        *)
(*                                                                         *)
(* A byte is a unit, numbered from 1 in either direction, and a segment to *)
(* the guest carries one.  Sequence numbers keep their wrap-around, with   *)
(* modulus M in the place of 2^32.  The congestion window, SACK, RACK, the *)
(* loss probe and the round-trip estimate decide only how many segments a  *)
(* handler sends, which is the choice "burst", and how soon one is sent    *)
(* again, which is the moment RtoFire is taken.                            *)
(***************************************************************************)
EXTENDS Integers, Sequences, FiniteSets

CONSTANTS M,          \* modulus of the sequence numbers, 2^32 in the code;
                      \* more than twice what a flow carries
          CIsn, SIsn, \* the two initial sequence numbers
          MaxUp,      \* units the guest sends before its FIN, if it sends any
          MaxDown,    \* units the destination sends before it closes
          HighWater,  \* TO_CLIENT_HIGH_WATER
          LowWater,   \* TO_CLIENT_LOW_WATER
          MaxOoo,     \* MAX_OOO_BYTES
          Wnd,        \* the window an open guest advertises
          RetryLimit  \* the 9 retries of rto_fire

VARIABLES flow,   \* the TcpSession, its host socket and the carrier: see Init
          guest   \* the guest's TCP: what it sends and what it has received

vars == <<flow, guest>>

States == {"Listen", "SynRcvd", "Established", "CloseWait", "FinWait1",
           "FinWait2", "Closing", "LastAck", "TimeWait", "Closed"}

\* 32-bit wrapping arithmetic.
Add(a, n) == (a + n) % M
Sub(a, b) == (a + M - b) % M

\* seq_lt: the difference read as a signed number is negative.
seq_lt(a, b) == Sub(a, b) >= M \div 2
seq_le(a, b) == a = b \/ seq_lt(a, b)

Least(a, b) == IF a <= b THEN a ELSE b
Units(i, j) == [k \in 1 .. (j + 1 - i) |-> i + k - 1]
Drop(q, n) == SubSeq(q, n + 1, Len(q))

\* Where a sequence number stands in its stream: 0 is the SYN.
UpPos(seq) == Sub(seq, CIsn)
DownPos(seq) == Sub(seq, SIsn)

Up(t) == t.host = "open"
Flight(t) == Sub(t.snd_nxt, t.snd_una)

-----------------------------------------------------------------------------
(* A handler is a composition of the steps below.  Each is a function of   *)
(* the record t (the value of flow so far) and of e, what the outside does *)
(* while the handler runs:                                                 *)
(*   burst   segments the carrier and the congestion window let out        *)
(*   accept  whether the carrier takes the SYN-ACK or the FIN              *)
(*   write   what the host socket's write returns: everything fits         *)
(*           ("all"), one unit and then WouldBlock ("one"), WouldBlock     *)
(*           ("none"), an error ("error")                                  *)
(*   open    whether open_host_socket succeeds                             *)

\* refresh_host_interest: the interest follows the two flags, and asking the
\* kernel again raises an edge for whatever is ready now.
refresh_host_interest(t) ==
  LET want == IF t.host_pollin_paused /\ t.host_writable THEN {"r"}
              ELSE (IF t.host_pollin_paused THEN {} ELSE {"r"})
                   \cup (IF t.host_writable THEN {} ELSE {"w"})
      ready == (IF t.unread # <<>> \/ t.eof THEN {"r"} ELSE {})
               \cup (IF t.blocked THEN {} ELSE {"w"})
  IN  IF Up(t) THEN [t EXCEPT !.interest = want, !.edge = want \cap ready]
      ELSE t

\* close_host_socket: taken, deregistered and closed.
close_host_socket(t) == [t EXCEPT !.host = "none", !.edge = {}, !.interest = {}]

mark_closed(t) == [close_host_socket(t) EXCEPT !.state = "Closed"]

\* emit_rst and mark_closed, always together; the RST is not retransmitted.
Reset(t) == [mark_closed(t) EXCEPT !.rst = TRUE]

\* enter_time_wait clears every timer and closes the host socket.
enter_time_wait(t) ==
  [close_host_socket(t) EXCEPT !.state = "TimeWait", !.rto = FALSE]

\* emit_segment(.., record_for_retx = true): a segment the carrier refuses
\* leaves no record.
Carry(t, segs) == [t EXCEPT !.wire = @ \cup segs]

EmitRecorded(t, seg, e) ==
  IF e.accept
  THEN [Carry(t, {seg}) EXCEPT !.retx = Append(@, seg), !.rto = TRUE]
  ELSE [t EXCEPT !.refused = TRUE]

\* The FIN: the flag, the number it takes and the state change whether or not
\* the carrier accepted the segment.
SendFin(t, e) ==
  [EmitRecorded(t, [seq |-> t.snd_nxt, kind |-> "fin", unit |-> 0], e)
   EXCEPT !.sent_fin = TRUE,
          !.snd_nxt = Add(@, 1),
          !.state = IF @ = "CloseWait" THEN "LastAck" ELSE "FinWait1"]

\* The FIN of try_segment_and_emit and of on_host_event's closed branch.
FinIfDone(t, e) ==
  IF /\ t.host_read_eof /\ ~t.sent_fin /\ t.to_client = <<>>
     /\ t.state \in {"Established", "CloseWait"}
  THEN SendFin(t, e) ELSE t

\* The loop of try_segment_and_emit, which asks the two windows and the
\* carrier and never the state.
SendUnits(t, n) ==
  LET seg(i) == [seq |-> Add(t.snd_nxt, i - 1), kind |-> "data",
                 unit |-> t.to_client[i]]
      segs == [i \in 1 .. n |-> seg(i)]
  IN  [Carry(t, {segs[i] : i \in 1 .. n})
       EXCEPT !.retx = @ \o segs,
              !.rto = @ \/ n > 0,
              !.snd_nxt = Add(@, n),
              !.to_client = Drop(@, n)]

ResumeReads(t) ==
  IF t.host_pollin_paused /\ Up(t) /\ Len(t.to_client) < LowWater
  THEN refresh_host_interest([t EXCEPT !.host_pollin_paused = FALSE]) ELSE t

try_segment_and_emit(t, e) ==
  LET room == IF Flight(t) < t.snd_wnd THEN t.snd_wnd - Flight(t) ELSE 0
      able == Least(Len(t.to_client), room)
      n == Least(able, e.burst)
      \* A congestion window is never below one segment, so when nothing is in
      \* flight only the carrier can keep the first one back.
      sent == [SendUnits(t, n) EXCEPT
                 !.refused = @ \/ (able > 0 /\ n = 0 /\ Flight(t) = 0)]
  IN  FinIfDone(ResumeReads(sent), e)

\* Slip: a write that would block is noted and not waited for.
WouldBlock_NoRefresh(t) == [t EXCEPT !.host_writable = FALSE, !.blocked = TRUE]

\* A write that would block: the flag goes down and POLLOUT is asked for.
WouldBlock(t) ==
  refresh_host_interest([t EXCEPT !.host_writable = FALSE, !.blocked = TRUE])

\* try_drain_to_host: never before the connect has completed.
try_drain_to_host(t, e) ==
  LET n == CASE e.write = "all" -> Len(t.to_host)
             [] e.write = "one" -> Least(1, Len(t.to_host))
             [] OTHER -> 0
      written == [t EXCEPT !.got = @ \o SubSeq(t.to_host, 1, n),
                           !.to_host = Drop(@, n)]
  IN  IF ~Up(t) \/ ~t.host_writable \/ t.to_host = <<>> THEN t
      ELSE IF e.write = "error" THEN Reset(t)
      ELSE IF written.to_host = <<>> THEN written
      ELSE WouldBlock(written)

\* The write side is shut down once, and behind the backlog.
MayShutdown(t) == Up(t) /\ ~t.host_wr_shut /\ t.to_host = <<>>

\* shutdown(Write) on the host socket.
ShutdownWrite(t) == [t EXCEPT !.host_wr_shut = TRUE]

\* On a socket that is still connecting, shutdown abandons the connect.
Aborted(t) == t.host_wr_shut /\ ~t.connected

enqueue_to_host(t, data, e) ==
  LET more == [t EXCEPT !.to_host = @ \o data]
  IN  IF t.host_writable THEN try_drain_to_host(more, e)
      ELSE refresh_host_interest(more)

-----------------------------------------------------------------------------
\* Receiving from the guest.

OooBytes(t) == LET sum[i \in 0 .. Len(t.ooo)] ==
                     IF i = 0 THEN 0 ELSE sum[i - 1] + Len(t.ooo[i].data)
               IN  sum[Len(t.ooo)]

SegEnd(o) == Add(o.seq, Len(o.data))

\* store_ooo: kept in order of sequence number; a segment that overlaps a
\* neighbour, or for which there is no room, is dropped.
store_ooo(t, seq, data) ==
  LET before == {i \in DOMAIN t.ooo : seq_lt(t.ooo[i].seq, seq)}
      pos == Cardinality(before)
      fits == /\ OooBytes(t) + Len(data) <= MaxOoo
              /\ pos > 0 => ~seq_lt(seq, SegEnd(t.ooo[pos]))
              /\ pos < Len(t.ooo) =>
                   ~seq_lt(t.ooo[pos + 1].seq, Add(seq, Len(data)))
  IN  IF fits
      THEN [t EXCEPT !.ooo = SubSeq(@, 1, pos)
                             \o <<[seq |-> seq, data |-> data]>> \o Drop(@, pos)]
      ELSE t

\* Slip: the part of a segment that was delivered before is not cut off.
OldPart_Kept(rcv_nxt, seq) == 0

\* How much of a segment that starts at seq was delivered before.
OldPart(rcv_nxt, seq) == IF seq_lt(seq, rcv_nxt) THEN Sub(rcv_nxt, seq) ELSE 0

\* One turn of deliver_ooo's loop: a head that is all old goes, one that
\* starts later stays, and of the rest the new part is delivered.
DeliverHead(t, e) ==
  IF t.ooo = <<>> THEN t
  ELSE LET head == t.ooo[1]
           popped == [t EXCEPT !.ooo = Tail(@)]
           skip == OldPart(t.rcv_nxt, head.seq)
       IN  IF ~seq_lt(t.rcv_nxt, SegEnd(head)) THEN popped
           ELSE IF seq_lt(t.rcv_nxt, head.seq) THEN t
           ELSE [enqueue_to_host(popped, Drop(head.data, skip), e)
                 EXCEPT !.rcv_nxt = SegEnd(head)]

deliver_ooo(t, e) ==
  LET turn[i \in 0 .. Len(t.ooo)] ==
        IF i = 0 THEN t ELSE DeliverHead(turn[i - 1], e)
  IN  turn[Len(t.ooo)]

\* handle_data_in: what is old is cut off, what is next is delivered with
\* everything it was waited for by, the rest is kept.
handle_data_in(t, seq, data, e) ==
  LET skip == OldPart(t.rcv_nxt, seq)
      from == Add(seq, skip)
      new == Drop(data, skip)
      taken == enqueue_to_host(t, new, e)
  IN  IF data = <<>> \/ ~seq_lt(t.rcv_nxt, Add(seq, Len(data))) THEN t
      ELSE IF from = t.rcv_nxt
      THEN deliver_ooo([taken EXCEPT !.rcv_nxt = Add(@, Len(new))], e)
      ELSE store_ooo(t, from, new)

\* Slip: an ACK drops the segment it asks for.
Covers_Next(ack, g) == seq_le(g.seq, ack)

\* The ACK covers all of the segment.
Covers(ack, g) == seq_le(Add(g.seq, 1), ack)

\* on_ack: an ACK of something not sent, or of nothing new, changes nothing; a
\* new one drops what it covers and re-arms or stops the timer.
on_ack(t, ack) ==
  LET left == SelectSeq(t.retx, LAMBDA g : ~Covers(ack, g))
  IN  IF seq_lt(t.snd_nxt, ack) \/ seq_le(ack, t.snd_una) THEN t
      ELSE [t EXCEPT !.retx = left, !.snd_una = ack,
                     !.rto_retries = 0, !.rto = left # <<>>]

-----------------------------------------------------------------------------
\* The handlers of on_segment, one per state.  g is the segment: seq, data,
\* fin, ack and wnd.

\* The FIN counts only when the segment was the next one on arrival and
\* nothing kept from before reaches beyond it.
FinIsNext(t0, t, g) ==
  /\ g.fin
  /\ g.seq = t0.rcv_nxt
  /\ Add(g.seq, Len(g.data)) = t.rcv_nxt

TakeFin(t, state) == [t EXCEPT !.rcv_nxt = Add(@, 1), !.state = state]

accept_initial_syn(t, wnd, e) ==
  [EmitRecorded([t EXCEPT !.state = "SynRcvd", !.snd_wnd = wnd],
                [seq |-> SIsn, kind |-> "syn", unit |-> 0], e)
   EXCEPT !.snd_nxt = Add(SIsn, 1), !.rto = TRUE]

open_host_socket(t) ==
  [t EXCEPT !.host = "open", !.interest = {"r", "w"}]

process_syn_rcvd(t0, g, e) ==
  LET acked == [on_ack(t0, g.ack) EXCEPT !.snd_wnd = g.wnd,
                                            !.state = "Established"]
      t == handle_data_in(open_host_socket(acked), g.seq, g.data, e)
  IN  IF g.ack # t0.snd_nxt THEN t0
      ELSE IF ~e.open THEN Reset(acked)
      ELSE IF FinIsNext(t0, t, g) THEN TakeFin(t, "CloseWait") ELSE t

process_established(t0, g, e) ==
  LET acked == [on_ack(t0, g.ack) EXCEPT !.snd_wnd = g.wnd]
      t == handle_data_in(acked, g.seq, g.data, e)
      drained == try_drain_to_host(TakeFin(t, "CloseWait"), e)
      ended == IF MayShutdown(drained)
               THEN ShutdownWrite(drained) ELSE drained
  IN  try_segment_and_emit(IF FinIsNext(t0, t, g) THEN ended ELSE t, e)

process_close_wait(t0, g, e) ==
  try_segment_and_emit([on_ack(t0, g.ack) EXCEPT !.snd_wnd = g.wnd], e)

process_fin_wait_1(t0, g, e) ==
  LET acked == [on_ack(t0, g.ack) EXCEPT !.snd_wnd = g.wnd]
      t == handle_data_in(acked, g.seq, g.data, e)
      our_fin_acked == ~seq_lt(t.snd_una, t.snd_nxt)
  IN  IF FinIsNext(t0, t, g)
      THEN IF our_fin_acked THEN enter_time_wait(TakeFin(t, "TimeWait"))
                            ELSE TakeFin(t, "Closing")
      ELSE IF our_fin_acked /\ ~g.fin THEN [t EXCEPT !.state = "FinWait2"]
      ELSE t

\* No on_ack here: the FIN has been acknowledged.
process_fin_wait_2(t0, g, e) ==
  LET t == handle_data_in([t0 EXCEPT !.snd_wnd = g.wnd], g.seq, g.data, e)
  IN  IF FinIsNext(t0, t, g) THEN enter_time_wait(TakeFin(t, "TimeWait")) ELSE t

process_closing(t0, g) ==
  LET t == on_ack(t0, g.ack)
  IN  IF ~seq_lt(t.snd_una, t.snd_nxt) THEN enter_time_wait(t) ELSE t

process_last_ack(t0, g) ==
  LET t == on_ack(t0, g.ack)
  IN  IF ~seq_lt(t.snd_una, t.snd_nxt) THEN mark_closed(t) ELSE t

on_segment(t, g, e) ==
  CASE t.state = "SynRcvd" -> process_syn_rcvd(t, g, e)
    [] t.state = "Established" -> process_established(t, g, e)
    [] t.state = "CloseWait" -> process_close_wait(t, g, e)
    [] t.state = "FinWait1" -> process_fin_wait_1(t, g, e)
    [] t.state = "FinWait2" -> process_fin_wait_2(t, g, e)
    [] t.state = "Closing" -> process_closing(t, g)
    [] t.state = "LastAck" -> process_last_ack(t, g)
    [] OTHER -> t

-----------------------------------------------------------------------------
\* The handler of the host socket's events.

on_host_writable(t, e) ==
  LET drained == try_drain_to_host([t EXCEPT !.host_writable = TRUE], e)
      quiet == refresh_host_interest(drained)
  IN  IF drained.to_host # <<>> THEN drained
      ELSE IF MayShutdown(quiet) /\ quiet.state \in {"CloseWait", "LastAck"}
      THEN ShutdownWrite(quiet) ELSE quiet

\* Reading stops when the kernel has no more or at the high-water mark.
ReadLength(t) == Least(Len(t.unread), HighWater - Len(t.to_client))

\* on_host_readable reads until the kernel has no more, the end of the stream
\* or the high-water mark, and then sends.
on_host_readable(t, e) ==
  LET n == ReadLength(t)
      read == [t EXCEPT !.to_client = @ \o SubSeq(t.unread, 1, n),
                        !.unread = Drop(@, n)]
      full == n > 0 /\ Len(read.to_client) >= HighWater
      at_end == [read EXCEPT !.host_read_eof = TRUE]
      ended == IF read.to_client = <<>> /\ ~read.sent_fin
               THEN SendFin(at_end, e) ELSE at_end
  IN  IF ~Up(t) \/ t.host_pollin_paused THEN t
      ELSE try_segment_and_emit(
             IF full
             THEN refresh_host_interest([read EXCEPT !.host_pollin_paused = TRUE])
             ELSE IF t.eof THEN ended ELSE read, e)

\* on_host_event: an end of stream that comes with the event is noted even
\* when the read was held back.
on_host_event(t0, e) ==
  LET t == [t0 EXCEPT !.edge = {}]
      w == IF "w" \in t0.edge THEN on_host_writable(t, e) ELSE t
      r == IF "r" \in t0.edge THEN on_host_readable(w, e) ELSE w
  IN  IF "r" \in t0.edge /\ t0.eof
      THEN FinIfDone([r EXCEPT !.host_read_eof = TRUE], e) ELSE r

-----------------------------------------------------------------------------
Init ==
  /\ flow = [\* TcpSession
             state |-> "Listen", snd_una |-> SIsn, snd_nxt |-> SIsn,
             snd_wnd |-> 0, rcv_nxt |-> Add(CIsn, 1), ooo |-> <<>>,
             to_host |-> <<>>, to_client |-> <<>>, retx |-> <<>>,
             rto |-> FALSE, rto_retries |-> 0, sent_fin |-> FALSE,
             host |-> "none", host_writable |-> FALSE,
             host_wr_shut |-> FALSE, host_pollin_paused |-> FALSE,
             host_read_eof |-> FALSE,
             \* the host socket: registration, buffers, what the destination
             \* has sent and received
             interest |-> {}, edge |-> {}, connected |-> FALSE,
             blocked |-> TRUE, unread |-> <<>>, eof |-> FALSE,
             sent |-> 0, got |-> <<>>,
             \* the carrier: segments under way, whether an RST was sent, and
             \* whether a segment that is not sent again was refused
             wire |-> {}, rst |-> FALSE, refused |-> FALSE]
  /\ guest \in {[total |-> n, rcv |-> 0, got |-> <<>>, eof |-> FALSE] : n \in {0, MaxUp}}

\* handle_tcp and the sweep remove a session that is Closed, and its buffers.
Removed(t) ==
  [t EXCEPT !.ooo = <<>>, !.to_host = <<>>, !.to_client = <<>>, !.retx = <<>>,
            !.unread = <<>>, !.rto = FALSE, !.rto_retries = 0, !.snd_wnd = 0]

\* The handler ends with t.  The carrier keeps what it accepted, and may bring
\* it late or never; what the guest already has is left out.
Becomes(t) ==
  /\ flow' = [(IF t.state = "Closed" THEN Removed(t) ELSE t)
              EXCEPT !.wire = {g \in @ : DownPos(g.seq) >= guest.rcv}]
  /\ UNCHANGED guest

\* The choices that can make a difference to a handler that may write `more`
\* units beside the backlog.
Choices(more) ==
  LET queued == Len(flow.to_client) + Len(flow.unread)
      may_fin == flow.eof /\ ~flow.sent_fin
      backlog == more + Len(flow.to_host)
      writes == /\ flow.host_writable \/ "w" \in flow.edge
                /\ Up(flow)
  IN  [burst : 0 .. Least(queued, HighWater),
       accept : IF may_fin \/ flow.state = "Listen" THEN BOOLEAN ELSE {TRUE},
       write : IF ~writes \/ backlog = 0 THEN {"all"}
               ELSE {"all", "none", "error"} \cup (IF backlog > 1 THEN {"one"} ELSE {}),
       open : IF flow.state = "SynRcvd" THEN BOOLEAN ELSE {TRUE}]

Alive == flow.state \notin {"Listen", "Closed"}

\* What the guest may send: any run of its units, cut anywhere, with the FIN
\* on a run that ends its stream, or nothing but an ACK.
GuestRuns ==
  {r \in [first : 1 .. guest.total + 1, last : 0 .. guest.total, fin : BOOLEAN] :
     /\ r.first <= r.last + 1
     /\ (r.first = r.last + 1 \/ r.fin) => r.last = guest.total}

Syn(wnd, e) ==
  /\ flow.state = "Listen"
  /\ Becomes(accept_initial_syn(flow, wnd, e))

\* A segment arrives with the guest's ACK.  An ACK held up on the way is one
\* the session has seen, or one it would have seen before the guest went on.
Segment(r, wnd, e) ==
  /\ Alive /\ guest.rcv >= 1
  /\ Becomes(on_segment(flow, [seq |-> Add(CIsn, r.first), fin |-> r.fin,
                               data |-> Units(r.first, r.last),
                               ack |-> Add(SIsn, guest.rcv), wnd |-> wnd], e))

\* An RST of the guest.
GuestReset == Alive /\ Becomes(mark_closed(flow))

HostEvent(e) ==
  /\ Up(flow) /\ flow.edge # {}
  /\ Becomes(on_host_event(flow, e))

\* An error on the host socket: a failed connect, a reset by the destination.
HostError == Up(flow) /\ Becomes(Reset(flow))

\* tick: the retransmission timer sends the head again and gives up in the end.
RtoFire ==
  /\ Alive /\ flow.rto /\ flow.retx # <<>>
  /\ LET t == [Carry(flow, {flow.retx[1]}) EXCEPT !.rto_retries = @ + 1]
     IN  Becomes(IF t.rto_retries >= RetryLimit THEN Reset(t) ELSE t)

\* tick: the end of TIME_WAIT.
TimeWaitEnds == flow.state = "TimeWait" /\ Becomes(mark_closed(flow))

-----------------------------------------------------------------------------
\* The environment: the destination, the guest's TCP.

Notify(t, what) == [t EXCEPT !.edge = @ \cup ({what} \cap t.interest)]

\* The connect completes, or the destination has made room.
HostReady ==
  /\ Up(flow) /\ flow.blocked /\ ~Aborted(flow)
  /\ Becomes(Notify([flow EXCEPT !.blocked = FALSE, !.connected = TRUE], "w"))

HostSends ==
  /\ Up(flow) /\ flow.connected /\ ~flow.eof /\ flow.sent < MaxDown
  /\ Becomes(Notify([flow EXCEPT !.sent = @ + 1,
                                 !.unread = Append(@, flow.sent + 1)], "r"))

HostCloses ==
  /\ Up(flow) /\ flow.connected /\ ~flow.eof
  /\ Becomes(Notify([flow EXCEPT !.eof = TRUE], "r"))

\* The guest takes the next segment of the stream; after the FIN it takes no
\* more.
GuestReceives(g) ==
  /\ DownPos(g.seq) = guest.rcv /\ ~guest.eof
  /\ guest' = [guest EXCEPT !.rcv = @ + 1,
                            !.got = IF g.kind = "data" THEN Append(@, g.unit) ELSE @,
                            !.eof = g.kind = "fin"]
  /\ flow' = [flow EXCEPT !.wire = @ \ {g}]

Next ==
  \/ \E wnd \in {0, Wnd}, e \in Choices(0) : Syn(wnd, e)
  \/ \E r \in GuestRuns, wnd \in {0, Wnd} :
       \E e \in Choices(r.last + 1 - r.first) : Segment(r, wnd, e)
  \/ GuestReset
  \/ \E e \in Choices(0) : HostEvent(e)
  \/ HostError
  \/ RtoFire
  \/ TimeWaitEnds
  \/ HostReady
  \/ HostSends
  \/ HostCloses
  \/ \E g \in flow.wire : GuestReceives(g)

Spec == Init /\ [][Next]_vars

-----------------------------------------------------------------------------
Seqs == 0 .. M - 1
Segs == [seq : Seqs, kind : {"syn", "data", "fin"}, unit : 0 .. MaxDown]

\* Every field holds what its Rust field can, and the ooo queue and to_client
\* stay within MAX_OOO_BYTES and the high-water mark.
TypeOK ==
  /\ flow.state \in States /\ flow.host \in {"none", "open"}
  /\ {flow.snd_una, flow.snd_nxt, flow.rcv_nxt} \subseteq Seqs
  /\ flow.snd_wnd \in {0, Wnd} /\ flow.rto_retries \in 0 .. RetryLimit
  /\ {flow.rto, flow.sent_fin, flow.host_writable, flow.host_wr_shut,
      flow.host_pollin_paused, flow.host_read_eof, flow.connected,
      flow.blocked, flow.eof, flow.rst, flow.refused} \subseteq BOOLEAN
  /\ flow.wire \subseteq Segs /\ \A i \in DOMAIN flow.retx : flow.retx[i] \in Segs
  /\ flow.interest \subseteq {"r", "w"} /\ flow.edge \subseteq flow.interest
  /\ OooBytes(flow) <= MaxOoo /\ Len(flow.to_client) <= HighWater
  /\ guest.total \in {0, MaxUp} /\ guest.rcv \in 0 .. MaxDown + 2 /\ guest.eof \in BOOLEAN

\* The destination is given the guest's bytes in order, each once, however the
\* guest's segments were cut, repeated or reordered: what it has got, with
\* what handle_data_in and deliver_ooo have queued for it, is exactly the part
\* of the stream below rcv_nxt, which is the part the guest is told arrived.
StreamToHost ==
  /\ flow.got = Units(1, Len(flow.got))
  /\ Alive => flow.got \o flow.to_host
                = Units(1, Least(UpPos(flow.rcv_nxt) - 1, guest.total))

\* The destination sees the end of the guest's stream only after all of it:
\* shutdown(Write) waits for the FIN in order and for the backlog of to_host,
\* in process_established as in on_host_writable.
HostEofIsLast == flow.host_wr_shut => Len(flow.got) = guest.total

\* The guest receives the destination's bytes in order, each once, through
\* losses, retransmissions and the wrap-around of snd_nxt.
GuestStream ==
  /\ guest.got = Units(1, Len(guest.got))
  /\ Len(guest.got) <= flow.sent

\* No byte of the destination is forgotten while the session lives: what the
\* guest lacks is in the kernel, in to_client or in retx, and while retx holds
\* anything the retransmission timer is armed.
NothingForgotten ==
  flow.state \notin {"Closed", "TimeWait"} =>
    /\ \A u \in 1 .. flow.sent :
         \/ u <= Len(guest.got)
         \/ \E i \in DOMAIN flow.unread : flow.unread[i] = u
         \/ \E i \in DOMAIN flow.to_client : flow.to_client[i] = u
         \/ \E i \in DOMAIN flow.retx : flow.retx[i].unit = u
    /\ flow.retx # <<>> => flow.rto

\* The high-water pause cannot stick and no readiness is lost: the session is
\* paused only while to_client is above the low-water mark, and when it is not
\* paused, bytes waiting in the kernel have an edge pending, although the edge
\* that announced them was used up by the read that stopped early.
ReadsResume ==
  Up(flow) =>
    /\ flow.host_pollin_paused => Len(flow.to_client) >= LowWater
    /\ ~flow.host_pollin_paused
       /\ (flow.unread # <<>> \/ (flow.eof /\ ~flow.host_read_eof))
       => "r" \in flow.edge

\* Nothing the destination is owed is left behind: while units of the guest
\* wait in to_host, or the guest's FIN waits for them to be written, a writable
\* event is pending or the kernel owes one, because every WouldBlock renews
\* the interest in POLLOUT and the flag host_writable is down.
HostIsOwed ==
  LET fin_waits == flow.state \in {"CloseWait", "LastAck"} /\ ~flow.host_wr_shut
  IN  Up(flow) /\ (flow.to_host # <<>> \/ fin_waits)
    => /\ ~flow.host_writable
       /\ "w" \in flow.interest
       /\ flow.blocked \/ "w" \in flow.edge

\* Sending cannot stall by itself: while to_client holds bytes, or the end of
\* the stream is known and no FIN is out, there is a segment in flight whose
\* ACK continues the work, or the guest has closed its window, or the carrier
\* has refused a segment that emit_segment leaves unrecorded.
SendingGoesOn ==
  flow.state \in {"Established", "CloseWait"} /\ ~flow.refused
    => \/ flow.to_client = <<>> /\ (flow.host_read_eof => flow.sent_fin)
       \/ flow.retx # <<>>
       \/ flow.snd_wnd = 0

\* A FIN the guest has not seen is kept for retransmission until it has,
\* unless the carrier refused it: no ACK of the data before it drops it.
FinIsKept ==
  /\ flow.state \in {"FinWait1", "Closing", "LastAck"}
  /\ ~flow.refused /\ ~guest.eof
  => \E i \in DOMAIN flow.retx : flow.retx[i].kind = "fin"

\* What a session carries arrives unchanged both ways: the destination is given exactly
\* the guest's stream, and its end last; the guest receives the destination's bytes in
\* order and once.
StreamsIntact == StreamToHost /\ HostEofIsLast /\ GuestStream

\* What the guest has not received yet is still kept for it, data and FIN.
GuestIsOwed == NothingForgotten /\ FinIsKept

\* No direction of a live session waits for an event that nobody owes it:
\* paused reads resume, a blocked backlog has POLLOUT to come, unsent bytes
\* have an ACK to come.
NothingStalls == ReadsResume /\ HostIsOwed /\ SendingGoesOn

-----------------------------------------------------------------------------
\* What the code means to do and does not: see the README.

\* The pause of on_host_readable only pushes back on the destination ("kernel
\* buffer fills, advertised window shrinks, which is exactly the desired
\* backpressure"): a guest that sees the end of the stream has all of it.
EofIsComplete == guest.eof => Len(guest.got) = flow.sent

\* A session that has reset its guest is closed for good; on_host_event tears
\* down "regardless of NAT-side state" so that no half-open session is left.
NoHalfOpen == flow.rst => flow.state = "Closed"

\* An orderly close has given the destination everything the guest sent.
CloseKeepsBacklog == flow.state = "TimeWait" => Len(flow.got) = guest.total
=============================================================================
