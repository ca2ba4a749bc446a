----------------------------- MODULE MCReactor -----------------------------
(* Small instances of the dispatcher thread for TLC. *)
EXTENDS Reactor
=============================================================================
