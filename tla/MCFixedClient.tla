---- MODULE MCFixedClient ----
(* The fixed client for TLC; its workers are numbered, so without symmetry. *)
EXTENDS FixedClient
====
