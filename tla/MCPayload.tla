---- MODULE MCPayload ----
(* The payload generators for TLC. *)
EXTENDS Payload

ASSUME RampsEndHere == RampsEnd
====
