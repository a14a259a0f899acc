---- MODULE MCBasicServer ----
(* Model values for TLC, and the symmetry of the server_client objects. *)
EXTENDS BasicServer, TLC

ClientSymmetry == Permutations(Clients)
====
