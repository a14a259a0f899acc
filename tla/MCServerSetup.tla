---- MODULE MCServerSetup ----
(* Set-up and clean-up of the server for TLC; plug-ins are interchangeable. *)
EXTENDS ServerSetup, TLC

PluginSymmetry == Permutations(Plugins)
====
