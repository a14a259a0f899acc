---- MODULE MCUdpExchange ----
(* The exchange over UDP for TLC. *)
EXTENDS UdpExchange

====
