---------------------------- MODULE TunnelStream ----------------------------
(***************************************************************************)
(* What a tunnel's event stream promises to the one watcher that drains it,  *)
(* reduced to the kinds the watchers act on.  Connected comes at most once    *)
(* and never after a failed dial; Disconnected may come any number of times  *)
(* and may even precede Connected, when disconnect() overtakes the connect   *)
(* task.                                                                     *)
(***************************************************************************)
EXTENDS Sequences

VARIABLE events

Kinds == {"Connected", "Disconnected", "Error"}

Said(s) == {s[i] : i \in DOMAIN s}

MayFollow(s, kind) == kind = "Disconnected" \/ {"Connected", "Error"} \cap Said(s) = {}

Init == events = <<>>

Say(kind) ==
    /\ MayFollow(events, kind)
    /\ events' = Append(events, kind)

Next == \E kind \in Kinds : Say(kind)

Spec == Init /\ [][Next]_events
=============================================================================
