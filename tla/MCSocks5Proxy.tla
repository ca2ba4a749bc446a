--------------------------- MODULE MCSocks5Proxy ---------------------------
(* Two applications: one asks in SOCKS5 for a name with a blocked and an      *)
(* allowed address and has a unit to send either way, one asks in HTTP for a  *)
(* blocked address.                                                           *)
EXTENDS Socks5Proxy, TLC

CONSTANTS a1, a2, x1, x2, u1, u2, p1, p2, l1, l2

MCProtoOf == a1 :> "socks5" @@ a2 :> "http"
MCTargetOf == a1 :> [kind |-> "name", addrs |-> <<x1, x2>>] @@ a2 :> [kind |-> "ip", addrs |-> <<x1>>]
MCRequestsOf == a1 :> {"good", "bad"} @@ a2 :> {"good", "long"}
MCEndingsOf == a1 :> {"fin", "rst"} @@ a2 :> {}
MCUpLen == a1 :> 1 @@ a2 :> 0
MCDownLen == a1 :> 1 @@ a2 :> 0
MCSymmetry == Permutations({u1, u2}) \cup Permutations({l1, l2})
=============================================================================
