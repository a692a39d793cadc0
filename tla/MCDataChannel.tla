--------------------------- MODULE MCDataChannel ---------------------------
(* A small instance of DataChannel: messages of one and of two chunks of   *)
(* two bytes; the last chunk of two of the messages is not full.           *)
EXTENDS DataChannel, TLC

CONSTANTS m1, m2, m3

MCMessages == {m1, m2, m3}
MCSize == m1 :> 1 @@ m2 :> 3 @@ m3 :> 4

(* The HTTP proxies number their requests; the TCP, UDP and WebSocket      *)
(* proxies send every message of a stream under the id of the stream.      *)
DistinctIds == m1 :> 1 @@ m2 :> 2 @@ m3 :> 3
StreamIds == m1 :> 1 @@ m2 :> 2 @@ m3 :> 2
=============================================================================
