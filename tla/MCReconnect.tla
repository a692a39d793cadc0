---------------------------- MODULE MCReconnect ----------------------------
(* A small instance of Reconnect for TLC: an odd multiple of the initial   *)
(* delay, so that the cap is met in the middle of the attempts.            *)
EXTENDS Reconnect
=============================================================================
