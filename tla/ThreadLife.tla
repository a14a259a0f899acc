------------------------------ MODULE ThreadLife ------------------------------
(***************************************************************************)
(* What the owners of MThread objects promise: an object's Run() is        *)
(* executed at most once, between its construction and its destruction,    *)
(* and the object is never destroyed while Run() executes.  The detailed   *)
(* specifications (BasicServer, FixedClient) are checked to implement it.  *)
(***************************************************************************)
CONSTANT Threads
VARIABLE life     \* absent, fresh (constructed), running or finished

Init == life = [t \in Threads |-> "absent"]

Construct(S) ==
  /\ S # {}
  /\ \A t \in S : life[t] = "absent"
  /\ life' = [t \in Threads |-> IF t \in S THEN "fresh" ELSE life[t]]

Execute(t) == life[t] = "fresh" /\ life' = [life EXCEPT ![t] = "running"]

Finish(t) == life[t] = "running" /\ life' = [life EXCEPT ![t] = "finished"]

Destroy(t) ==
  /\ life[t] \in {"fresh", "finished"}
  /\ life' = [life EXCEPT ![t] = "absent"]

Next ==
  \/ \E S \in SUBSET Threads : Construct(S)
  \/ \E t \in Threads : Execute(t) \/ Finish(t) \/ Destroy(t)

Spec == Init /\ [][Next]_life
=============================================================================
