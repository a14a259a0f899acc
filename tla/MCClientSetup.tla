---------------------------- MODULE MCClientSetup ----------------------------
(* ClientSetup with all three front ends.                                  *)
EXTENDS ClientSetup
=============================================================================
