------------------------------- MODULE MThread -------------------------------
(***************************************************************************)
(* The thread class of the program, os/linux/threads.cpp (the FreeBSD file *)
(* adds only a stack size).  A thread object is constructed, started at    *)
(* most once, stopped by setting "stopping" and joining, and destroyed;    *)
(* the destructor calls Stop().                                            *)
(*                                                                         *)
(* The module keeps, for every thread object, the fields of the class and  *)
(* the state of the operating system thread behind it.  It has no caller:  *)
(* the modules that own thread objects (BasicServer, FixedClient)          *)
(* instantiate it and take its operators as parts of their own steps.      *)
(***************************************************************************)
CONSTANT Threads            \* the thread objects

VARIABLES
  status,    \* MThread::status, or ABSENT when the object is not allocated
  stopping,  \* MThread::stopping, as the test "!stopping" sees it
  os         \* the operating system thread: none, live, returned or joined

threadVars == <<status, stopping, os>>

Statuses == {"ABSENT", "UNDEFINED", "RUNNING", "STOPPING", "STOPPED"}
OSStates == {"none", "live", "returned", "joined"}

TypeOK ==
  /\ status \in [Threads -> Statuses]
  /\ stopping \in [Threads -> BOOLEAN]
  /\ os \in [Threads -> OSStates]

\* No object is allocated yet.
Init ==
  /\ status = [t \in Threads |-> "ABSENT"]
  /\ stopping = [t \in Threads |-> FALSE]
  /\ os = [t \in Threads |-> "none"]

\* MThread::MThread() for every object of S.
New(S) ==
  /\ \A t \in S : status[t] = "ABSENT"
  /\ status' = [t \in Threads |-> IF t \in S THEN "UNDEFINED" ELSE status[t]]
  /\ stopping' = [t \in Threads |-> stopping[t] /\ t \notin S]
  /\ os' = [t \in Threads |-> IF t \in S THEN "none" ELSE os[t]]

(***************************************************************************)
(* Start() in two steps, because the new thread runs as soon as            *)
(* pthread_create has made it, before the caller has set status.           *)
(***************************************************************************)
CreateThread(t) ==
  /\ status[t] = "UNDEFINED"
  /\ os' = [os EXCEPT ![t] = "live"]
  /\ UNCHANGED <<status, stopping>>

MarkRunning(t) ==
  /\ status' = [status EXCEPT ![t] = "RUNNING"]
  /\ UNCHANGED <<stopping, os>>

(***************************************************************************)
(* Stop(): the test that there is a thread to stop, the step that asks it  *)
(* to stop, and the return of pthread_join.                                *)
(***************************************************************************)
Stoppable(t) == status[t] \in {"RUNNING", "STOPPING"}

\* Mutant of BeginStop: the flag is not set.
BeginStopSilently(t) ==
  /\ status' = [status EXCEPT ![t] = "STOPPING"]
  /\ UNCHANGED <<stopping, os>>

BeginStop(t) ==
  /\ status' = [status EXCEPT ![t] = "STOPPING"]
  /\ stopping' = [stopping EXCEPT ![t] = TRUE]
  /\ UNCHANGED os

\* Mutant of Join: Stop() does not wait for the thread.
JoinAtOnce(t) ==
  /\ status' = [status EXCEPT ![t] = "STOPPED"]
  /\ UNCHANGED <<stopping, os>>

Join(t) ==
  /\ os[t] = "returned"
  /\ os' = [os EXCEPT ![t] = "joined"]
  /\ status' = [status EXCEPT ![t] = "STOPPED"]
  /\ UNCHANGED stopping

\* Run() returns to MThread_helper and the operating system thread ends.
RunReturns(t) ==
  /\ os' = [os EXCEPT ![t] = "returned"]
  /\ UNCHANGED <<status, stopping>>

\* The memory of the object is released, once ~MThread has called Stop().
Free(t) ==
  /\ status' = [status EXCEPT ![t] = "ABSENT"]
  /\ UNCHANGED <<stopping, os>>
=============================================================================
