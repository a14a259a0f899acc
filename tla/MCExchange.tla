---- MODULE MCExchange ----
(* The exchange for TLC. *)
EXTENDS Exchange

====
