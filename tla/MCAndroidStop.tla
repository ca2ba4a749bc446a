---------------------------- MODULE MCAndroidStop ----------------------------
(* The VPN service with one start and one stop, and nothing else.              *)
EXTENDS AndroidVpn

StopBudget == {[starts |-> 1, stops |-> 1, switches |-> 0, failures |-> 0]}
=============================================================================
