--------------------------- MODULE NatDispatcher ---------------------------
(***************************************************************************)
(* The userspace NAT's tables (lktunnel/src/nat/dispatcher.rs) with its UDP  *)
(* sessions (udp_session.rs) and the part of ip_packet.rs they rest on: the  *)
(* guest's packets, whole or in fragments, come out of the carrier in any    *)
(* order, some lost and some twice; the replies of the destinations go back, *)
(* cut up when they are long.  Everything here runs on the dispatcher        *)
(* thread, a packet, an event or a sweep at a time.  Lengths and offsets     *)
(* count units of a fragment's payload; a byte of a datagram is the pair of  *)
(* the datagram and its place in it.                                         *)
(***************************************************************************)
EXTENDS Integers, Sequences, FiniteSets, TLC

CONSTANTS
    Datagrams,          \* the guest's UDP datagrams
    SizeOf, FlowOf,     \* per datagram: its length and its flow
    FragKeyOf,          \* per datagram: its FragKey, the IP id included
    UdpFlows,           \* their flow keys
    HostOf,             \* per UDP flow: the destination's address
    GuestMtu,           \* what the guest puts into one packet
    ReplySizes,         \* lengths of replies
    None,
    MAX_FRAG_STREAMS, MAX_FRAG_BYTES, FRAG_EXPIRY, UDP_IDLE,
    MAX_FRAG_DATA,      \* what build_and_emit puts into one packet
    RECV_BUF,           \* length of on_readable's buffer
    IdMod,              \* values of the u16 IP_ID
    ClockMod, ClockStart, \* values of the u32 millisecond clock, and its start
    MaxTime, MaxCopies, MaxReplies \* bounds: ticks, packets duplicated, replies

ASSUME BoundsAssumption ==
    /\ {GuestMtu, MAX_FRAG_STREAMS, MAX_FRAG_BYTES, MAX_FRAG_DATA, RECV_BUF, IdMod, ClockMod} \subseteq Nat \ {0}
    /\ {FRAG_EXPIRY, UDP_IDLE, ClockStart, MaxTime, MaxCopies, MaxReplies} \subseteq Nat

VARIABLES
    elapsed,    \* ticks of the clock since the start
    swept,      \* a sweep has run since the last tick
    sent,       \* the datagrams that the guest has sent
    held,       \* per FragKey: ticks until the guest uses its IP id again
    wire,       \* the guest's packets in the carrier
    copies,     \* packets that the carrier delivered twice
    frag,       \* frag: the streams being reassembled
    to_host,    \* the datagram that this step sent to its destination
    udp,        \* udp: the sessions
    ready,      \* flows whose socket has an event to report
    ip_id,      \* IP_ID
    replies,    \* replies that destinations have sent
    down,       \* reply packets accepted by the tunnel and not lost, on their way
    partial,    \* fragments the guest's kernel holds
    to_guest    \* the reply that this step completed at the guest

guest == <<sent, held, wire, copies>>
back == <<ip_id, replies, down, partial, to_guest>>
vars == <<elapsed, swept, guest, frag, to_host, udp, ready, back>>

Never == 0 - 1
FragKeys == {FragKeyOf[d] : d \in Datagrams}

Init ==
    /\ elapsed = 0 /\ swept = FALSE
    /\ sent = {} /\ held = [k \in FragKeys |-> 0]
    /\ wire = {} /\ copies = 0
    /\ frag = <<>> /\ to_host = None
    /\ udp = <<>> /\ ready = {}
    /\ ip_id = 0 /\ replies = 0 /\ down = {} /\ partial = {} /\ to_guest = None

-----------------------------------------------------------------------------
(* Data                                                                      *)

Least(a, b) == IF a < b THEN a ELSE b

\* now_ms, and wrapping_sub on it
now == (ClockStart + elapsed) % ClockMod
Age(t) == (now - t) % ClockMod

Without(f, k) == [j \in DOMAIN f \ {k} |-> f[j]]

\* The fragments of `what`, `size` long, with at most `max` in each.
Cut(what, size, max) ==
    {[of |-> what, off |-> o, len |-> Least(max, size - o), more |-> o + max < size] :
        o \in {i * max : i \in 0 .. (size - 1) \div max}}

Covers(p, i) == p.off < i /\ i <= p.off + p.len

\* The bytes that the parts, written in order, leave in a buffer of length n.
Written(parts, n) ==
    [i \in 1 .. n |->
        LET at == {j \in DOMAIN parts : Covers(parts[j], i)} IN
        IF at = {} THEN None ELSE <<parts[CHOOSE j \in at : \A h \in at : h <= j].of, i>>]

Whole(d, n) == [i \in 1 .. n |-> <<d, i>>]

-----------------------------------------------------------------------------
(* The guest and the carrier (external)                                      *)

\* The guest sends a datagram.  It uses an IP id again only when the fragments sent
\* under it before must be gone.
GuestSends(d) ==
    /\ d \notin sent /\ held[FragKeyOf[d]] = 0
    /\ sent' = sent \cup {d}
    /\ held' = [held EXCEPT ![FragKeyOf[d]] = FRAG_EXPIRY + 2]
    /\ wire' = wire \cup Cut(d, SizeOf[d], GuestMtu)
    /\ to_host' = None /\ to_guest' = None
    /\ UNCHANGED <<elapsed, swept, copies, frag, udp, ready, ip_id, replies, down, partial>>

Lose(p) ==
    /\ p \in wire
    /\ wire' = wire \ {p}
    /\ to_host' = None /\ to_guest' = None
    /\ UNCHANGED <<elapsed, swept, sent, held, copies, frag, udp, ready, ip_id, replies, down, partial>>

\* A packet comes out of the carrier, perhaps to come out once more.
Delivered(p) ==
    /\ p \in wire
    /\ \/ wire' = wire \ {p} /\ UNCHANGED copies
       \/ copies < MaxCopies /\ copies' = copies + 1 /\ UNCHANGED wire
    /\ UNCHANGED <<sent, held>>

\* Packets stay in the carrier for less than a tick; poll comes back, and a sweep runs,
\* more often than that.  The guest's kernel gives up what it could not complete.
Tick ==
    /\ elapsed < MaxTime /\ swept
    /\ wire = {} /\ down = {}
    /\ elapsed' = elapsed + 1 /\ swept' = FALSE
    /\ held' = [k \in FragKeys |-> IF held[k] > 0 THEN held[k] - 1 ELSE 0]
    /\ partial' = {}
    /\ to_host' = None /\ to_guest' = None
    /\ UNCHANGED <<sent, wire, copies, frag, udp, ready, ip_id, replies, down>>

-----------------------------------------------------------------------------
(* Guest to destination: process                                             *)

\* UdpSession::open: a connected socket, its handler registered with the reactor; or
\* nothing, when the destination is blocked or the kernel refuses.
open(k) ==
    \/ udp' = udp @@ (k :> [last |-> now, rx_count |-> 0, unread |-> <<>>, cut |-> FALSE])
    \/ UNCHANGED udp

\* UdpSession::send: what the kernel does not take at once is dropped.
send(k) == udp' = [udp EXCEPT ![k].last = now]

\* handle_udp: send on the session of the flow that the header names, opened if need be.
handle_udp(payload) ==
    LET k == FlowOf[payload[1][1]] IN
    /\ IF k \in DOMAIN udp THEN send(k) ELSE open(k)
    /\ to_host' = IF k \in DOMAIN udp' THEN payload ELSE None

is_fragment(p) == p.more \/ p.off # 0

\* A packet that is not a fragment.
process(p) ==
    /\ Delivered(p) /\ ~is_fragment(p)
    /\ handle_udp(Whole(p.of, p.len))
    /\ to_guest' = None
    /\ UNCHANGED <<elapsed, swept, frag, ready, ip_id, replies, down, partial>>

\* The table with room for stream k: the oldest is evicted when it is full.  The clock's
\* values are compared as they are.
Evicted(k) ==
    IF k \in DOMAIN frag \/ Cardinality(DOMAIN frag) < MAX_FRAG_STREAMS THEN {frag}
    ELSE {Without(frag, j) : j \in {i \in DOMAIN frag : \A h \in DOMAIN frag : frag[i].arrived <= frag[h].arrived}}

\* The stream with p added.
Grown(e, p) ==
    [e EXCEPT !.parts = Append(@, p),
              !.accumulated = @ + p.len,
              !.total_len = IF p.more THEN @ ELSE p.off + p.len]

Complete(e) == e.total_len >= 0 /\ e.accumulated >= e.total_len

\* The parts, in the order of their offsets, follow each other from 0 to the total.
Tiles(parts, total) ==
    LET expected[i \in 0 .. Len(parts)] ==
            IF i = 0 THEN 0
            ELSE IF expected[i - 1] = parts[i].off /\ parts[i].off + parts[i].len <= total
            THEN parts[i].off + parts[i].len
            ELSE Never
    IN expected[Len(parts)] = total

handle_fragment(p) ==
    /\ Delivered(p) /\ is_fragment(p)
    /\ \E table \in Evicted(FragKeyOf[p.of]) :
          LET k == FragKeyOf[p.of]
              e == Grown(IF k \in DOMAIN table THEN table[k]
                         ELSE [parts |-> <<>>, total_len |-> Never, accumulated |-> 0, arrived |-> now], p)
              tooLong == p.off + p.len > MAX_FRAG_BYTES \/ e.accumulated > MAX_FRAG_BYTES
              sorted == SortSeq(e.parts, LAMBDA a, b : a.off < b.off)
          IN \/ /\ ~tooLong /\ ~Complete(e)
                /\ frag' = (k :> e) @@ table
                /\ to_host' = None /\ UNCHANGED udp
             \/ /\ tooLong \/ (Complete(e) /\ ~Tiles(sorted, e.total_len))
                /\ frag' = Without(table, k)
                /\ to_host' = None /\ UNCHANGED udp
             \/ /\ ~tooLong /\ Complete(e) /\ Tiles(sorted, e.total_len)
                /\ frag' = Without(table, k)
                /\ handle_udp(Written(sorted, e.total_len))
    /\ to_guest' = None
    /\ UNCHANGED <<elapsed, swept, ready, ip_id, replies, down, partial>>

-----------------------------------------------------------------------------
(* Destination to guest: the sockets of the UDP sessions                     *)

\* The kernel: a reply arrives at the session's socket (external).
HostReplies(f, n) ==
    /\ f \in DOMAIN udp /\ replies < MaxReplies
    /\ replies' = replies + 1
    /\ udp' = [udp EXCEPT ![f].unread = Append(@, [nr |-> replies', size |-> n])]
    /\ ready' = ready \cup {f}
    /\ to_host' = None /\ to_guest' = None
    /\ UNCHANGED <<elapsed, swept, guest, frag, ip_id, down, partial>>

\* Slip: a counter of its own in each session.
IpId_PerSession(f) == udp[f].rx_count

\* Where the ids of the fragmented replies go on: one counter for all the sessions.
IpId(f) == ip_id

\* The header of a reply packet, as far as the guest's kernel matches fragments by it.
Packet(f, id, c) == [host |-> HostOf[f], id |-> id, part |-> c]

\* build_and_emit: one packet, or fragments under a fresh IP id; the tunnel may refuse any.
EmitReplies(f, rs) ==
    LET read(i) == Least(rs[i].size, RECV_BUF)
        long == {i \in DOMAIN rs : read(i) > MAX_FRAG_DATA}
        id(i) == (IpId(f) + Cardinality({j \in long : j < i})) % IdMod
        packets == UNION {{Packet(f, IF i \in long THEN id(i) ELSE Never, c) :
                               c \in Cut(rs[i], read(i), MAX_FRAG_DATA)} : i \in DOMAIN rs}
    IN /\ ip_id' = (ip_id + Cardinality(long)) % IdMod
       /\ \E accepted \in SUBSET packets : down' = down \cup accepted

\* on_readable: read until WouldBlock, or until an error that ends the loop.
on_readable(f) ==
    /\ f \in ready /\ f \in DOMAIN udp
    /\ ready' = ready \ {f}
    /\ \E n \in 0 .. Len(udp[f].unread) :
          /\ udp' = [udp EXCEPT ![f].last = IF n > 0 THEN now ELSE @,
                                ![f].rx_count = @ + n,
                                ![f].unread = SubSeq(@, n + 1, Len(@)),
                                ![f].cut = n < Len(udp[f].unread)]
          /\ EmitReplies(f, SubSeq(udp[f].unread, 1, n))
    /\ to_host' = None /\ to_guest' = None
    /\ UNCHANGED <<elapsed, swept, guest, frag, replies, partial>>

\* The guest's kernel (external) gathers fragments by addresses, protocol and id; one
\* that overlaps what it has is dropped.
GuestReceives(p) ==
    LET same == {q \in partial : q.host = p.host /\ q.id = p.id}
        all == {q.part : q \in same \cup {p}}
        fits == \A q \in same : q.part.off # p.part.off
        inOrder == [i \in 1 .. Cardinality(all) |->
                               CHOOSE q \in all : Cardinality({r \in all : r.off < q.off}) = i - 1]
        done == fits /\ \E q \in all : ~q.more /\ Tiles(inOrder, q.off + q.len)
    IN /\ p \in down
       /\ down' = down \ {p}
       /\ partial' = IF done THEN partial \ same ELSE IF fits THEN partial \cup {p} ELSE partial
       /\ to_guest' = IF done
                      THEN Written(inOrder, inOrder[Len(inOrder)].off + inOrder[Len(inOrder)].len)
                      ELSE None
       /\ to_host' = None
       /\ UNCHANGED <<elapsed, swept, guest, frag, udp, ready, ip_id, replies>>

-----------------------------------------------------------------------------
(* The sweep                                                                 *)

Expired(e) == Age(e.arrived) > FRAG_EXPIRY

sweep_idle ==
    LET idle == {f \in DOMAIN udp : Age(udp[f].last) > UDP_IDLE} IN
    /\ swept' = TRUE
    /\ udp' = [f \in DOMAIN udp \ idle |-> udp[f]]
    /\ ready' = ready \ idle
    /\ frag' = [k \in {j \in DOMAIN frag : ~Expired(frag[j])} |-> frag[k]]
    /\ to_host' = None /\ to_guest' = None
    /\ UNCHANGED <<elapsed, guest, ip_id, replies, down, partial>>

Next ==
    \/ \E d \in Datagrams : GuestSends(d)
    \/ \E p \in wire : Lose(p) \/ process(p) \/ handle_fragment(p)
    \/ \E f \in UdpFlows : (\E n \in ReplySizes : HostReplies(f, n)) \/ on_readable(f)
    \/ \E p \in down : GuestReceives(p)
    \/ sweep_idle
    \/ Tick

Spec == Init /\ [][Next]_vars

-----------------------------------------------------------------------------
(* Properties.                                                               *)

\* Every variable keeps its type.
TypeOK ==
    /\ elapsed \in 0 .. MaxTime /\ swept \in BOOLEAN
    /\ sent \subseteq Datagrams /\ held \in [FragKeys -> 0 .. FRAG_EXPIRY + 2]
    /\ wire \subseteq UNION {Cut(d, SizeOf[d], GuestMtu) : d \in Datagrams}
    /\ copies \in 0 .. MaxCopies /\ replies \in 0 .. MaxReplies /\ ip_id \in 0 .. IdMod - 1
    /\ DOMAIN frag \subseteq FragKeys
    /\ Cardinality(DOMAIN frag) <= MAX_FRAG_STREAMS
    /\ DOMAIN udp \subseteq UdpFlows /\ ready \subseteq DOMAIN udp

\* What handle_fragment puts together and sends to a destination is one datagram of the
\* guest, whole and in order, although fragments are lost, come twice or out of order,
\* streams are evicted, and the guest comes round to using an IP id again.
DatagramsIntact == to_host # None => to_host = Whole(to_host[1][1], SizeOf[to_host[1][1]])

\* A datagram whose fragments are all there is not kept back: no stream in the table
\* holds every fragment of one.
NoneKeptBack ==
    \A k \in DOMAIN frag : \A d \in Datagrams :
        ~(Cut(d, SizeOf[d], GuestMtu) \subseteq {frag[k].parts[i] : i \in DOMAIN frag[k].parts})

\* handle_fragment gives the destination whole datagrams only, and each as soon as its
\* fragments are there.
Reassembles == DatagramsIntact /\ NoneKeptBack

\* What the guest's kernel puts together from the fragments of build_and_emit is one reply
\* as on_readable read it, although sessions interleave and fragments are refused or lost.
RepliesIntact ==
    to_guest # None =>
        LET r == to_guest[1][1] IN to_guest = Whole(r, Least(r.size, RECV_BUF))

\* A reply waiting in a socket has an event to come, unless a read error ended the loop
\* of on_readable before it (readiness is reported once).
RepliesAreRead == \A f \in DOMAIN udp : udp[f].unread # <<>> => f \in ready \/ udp[f].cut

\* Replies are read when they come and put together as they were read: on_readable and
\* build_and_emit.
RepliesReach == RepliesIntact /\ RepliesAreRead

\* Datagrams cross the NAT whole and unmixed in both directions, cut into fragments or
\* not: handle_fragment towards the destination, on_readable and build_and_emit back.
DatagramsCross == Reassembles /\ RepliesReach

-----------------------------------------------------------------------------
\* What the code means to do and does not

\* A reply reaches the guest as long as it was: on_readable's buffer cuts it.
RepliesWhole == to_guest # None => Len(to_guest) = to_guest[1][1].size
=============================================================================
