--------------------------- MODULE MCQuicClient ---------------------------
(* Two ensure calls and one lost connection.                                 *)
EXTENDS QuicClient
=============================================================================
