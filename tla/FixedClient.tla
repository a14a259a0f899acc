----------------------------- MODULE FixedClient -----------------------------
(***************************************************************************)
(* The fixed client plug-in (client/fixed) and the program that drives it  *)
(* (interface/cmdline/trafclient.cpp and the Kylix and Borland forms).     *)
(*                                                                         *)
(* The main thread opens the connections and the payloads, builds one      *)
(* worker thread per client, starts them, waits for the user, stops them   *)
(* and cleans up.  A worker takes a payload, sends it and waits for the    *)
(* reply, over the connection and the payload handle that its number       *)
(* selects.  Bytes are modelled in Exchange.                               *)
(***************************************************************************)
EXTENDS Naturals

CONSTANTS
  NumWorkers,      \* num_clients, the -cmax argument
  NumConnections   \* num_proto and num_payload, the -n argument

ASSUME ClientAssumption ==
  /\ NumWorkers \in Nat \ {0}
  /\ NumConnections \in Nat \ {0}

Workers == 1..NumWorkers
Connections == 1..NumConnections

\* workers[cnt] gets my_proto[cnt%my_num_proto] and my_pld[cnt%my_num_pld];
\* counted from 1 here.
ConnectionOf(w) == ((w - 1) % NumConnections) + 1

VARIABLES
  status, stopping, os,  \* the thread objects, see MThread
  main,      \* where the main thread is
  closed,    \* the window was closed: the Kylix FormClose calls cleanup
             \* without StopClient, main and StopBitBtnClick call both
  cnt,       \* its loop variable
  wpc,       \* where each worker's Run() is
  payloads,  \* the payload handles that exist
  conns,     \* the entries of the array whose connection is not NULL
  listed,    \* the deque of the protocol handle, in the order of the numbers
  sockets,   \* the connection objects that exist, each with its socket
  loaded     \* libraries mapped, and the protocol handle

threadVars == <<status, stopping, os>>
mainVars == <<main, closed, cnt>>
connVars == <<conns, listed, sockets>>
resourceVars == <<payloads, connVars, loaded>>
vars == <<threadVars, mainVars, wpc, resourceVars>>

T == INSTANCE MThread WITH Threads <- Workers

Resources == {"payload", "handle", "protocol", "client"}

MainPC == {"init", "start", "mark", "serve", "stop", "join", "payloads",
           "unload_payload", "conns", "destroy_handle", "unload_protocol",
           "delete", "del_join", "del_free", "unload_client", "exited"}
WorkerPC == {"idle", "loop", "get", "send", "recv", "done"}

TypeOK ==
  /\ T!TypeOK
  /\ main \in MainPC
  /\ closed \in BOOLEAN
  /\ cnt \in 1..(NumWorkers + 1) \/ cnt \in 1..(NumConnections + 1)
  /\ wpc \in [Workers -> WorkerPC]
  /\ payloads \subseteq Connections
  /\ conns \subseteq Connections /\ listed \subseteq Connections /\ sockets \subseteq Connections
  /\ loaded \subseteq Resources

\* allocate_payload and allocate_protocol have made every handle, and
\* allocate_clients has loaded the client library.
Init ==
  /\ T!Init
  /\ main = "init" /\ closed = FALSE /\ cnt = 1
  /\ wpc = [w \in Workers |-> "idle"]
  /\ payloads = Connections
  /\ conns = Connections /\ listed = Connections /\ sockets = Connections
  /\ loaded = Resources

-----------------------------------------------------------------------------
(***************************************************************************)
(* fixed_workers::Run                                                      *)
(***************************************************************************)
WorkerAt(w, pc) == os[w] = "live" /\ wpc[w] = pc

WorkerGoes(w, pc) == wpc' = [wpc EXCEPT ![w] = pc]

WorkerReturns(w) == T!RunReturns(w) /\ WorkerGoes(w, "done")

\* while (!stopping)
WorkerLoop(w) ==
  /\ WorkerAt(w, "loop")
  /\ \/ stopping[w] /\ WorkerReturns(w)
     \/ ~stopping[w] /\ WorkerGoes(w, "get") /\ UNCHANGED threadVars
  /\ UNCHANGED <<mainVars, resourceVars>>

\* GetPayload returns a buffer of the handle, or NULL and the loop goes on.
WorkerGets(w) ==
  /\ WorkerAt(w, "get")
  /\ \E pc \in {"send", "loop"} : WorkerGoes(w, pc)
  /\ UNCHANGED <<threadVars, mainVars, resourceVars>>

\* SendConnectionData; a result of 0 or less ends the worker.
WorkerSends(w) ==
  /\ WorkerAt(w, "send")
  /\ \/ WorkerReturns(w)
     \/ WorkerGoes(w, "recv") /\ UNCHANGED threadVars
  /\ UNCHANGED <<mainVars, resourceVars>>

\* ReadPacketData returns the reply, or an error, which ends the worker.
WorkerReceives(w) ==
  /\ WorkerAt(w, "recv")
  /\ \/ WorkerReturns(w)
     \/ WorkerGoes(w, "loop") /\ UNCHANGED threadVars
  /\ UNCHANGED <<mainVars, resourceVars>>

Worker(w) ==
  \/ WorkerLoop(w) \/ WorkerGets(w) \/ WorkerSends(w) \/ WorkerReceives(w)

-----------------------------------------------------------------------------
(***************************************************************************)
(* The main thread                                                         *)
(***************************************************************************)
MainAt(pc, bound) == main = pc /\ cnt \in 1..bound

MainGoes(pc) == main' = pc /\ UNCHANGED <<closed, cnt>>

MainNextAt(pc) == main' = pc /\ cnt' = cnt + 1 /\ UNCHANGED closed

MainLeavesLoop(pc, bound, next) ==
  /\ main = pc /\ cnt \notin 1..bound
  /\ main' = next /\ cnt' = 1 /\ UNCHANGED closed
  /\ UNCHANGED <<threadVars, wpc, resourceVars>>

MainElsewhere == <<wpc, resourceVars>>

\* Stop() of worker w up to pthread_join, see BasicServer.
MainStops(w, pc, Done) ==
  \/ T!Stoppable(w) /\ T!BeginStop(w) /\ MainGoes(pc)
  \/ ~T!Stoppable(w) /\ UNCHANGED threadVars /\ Done

\* InitClient constructs the workers, or fails; then cleanup has no client.
InitClient ==
  /\ main = "init"
  /\ \/ T!New(Workers) /\ MainGoes("start")
     \/ UNCHANGED threadVars /\ MainGoes("payloads")
  /\ UNCHANGED MainElsewhere

\* fixed_client::Start returns at the first worker that does not start, and
\* leaves the earlier ones running; main ignores the result.
StartWorker ==
  /\ MainAt("start", NumWorkers)
  /\ \/ T!CreateThread(cnt) /\ WorkerGoes(cnt, "loop") /\ MainGoes("mark")
     \/ main' = "serve" /\ cnt' = 1 /\ UNCHANGED <<closed, threadVars, wpc>>
  /\ UNCHANGED resourceVars

MarkWorker ==
  /\ MainAt("mark", NumWorkers)
  /\ T!MarkRunning(cnt)
  /\ MainNextAt("start")
  /\ UNCHANGED MainElsewhere

\* ENTER or the Stop button, or the window is closed.
UserEnds ==
  /\ main = "serve"
  /\ closed' \in BOOLEAN
  /\ main' = IF closed' THEN "payloads" ELSE "stop"
  /\ cnt' = 1
  /\ UNCHANGED <<threadVars, MainElsewhere>>

\* Mutant of StopWorker: every worker is asked to stop, none is joined.
AskWorkerToStop ==
  /\ MainAt("stop", NumWorkers)
  /\ MainNextAt("stop")
  /\ \/ T!Stoppable(cnt) /\ T!BeginStop(cnt)
     \/ ~T!Stoppable(cnt) /\ UNCHANGED threadVars
  /\ UNCHANGED MainElsewhere

\* fixed_client::Stop; Run() returns NULL, so the loop never breaks off.
StopWorker ==
  /\ MainAt("stop", NumWorkers)
  /\ MainStops(cnt, "join", MainNextAt("stop"))
  /\ UNCHANGED MainElsewhere

\* Mutant of JoinWorker: the join times out.
JoinWorkerTimesOut ==
  /\ MainAt("join", NumWorkers)
  /\ MainNextAt("stop")
  /\ UNCHANGED <<threadVars, MainElsewhere>>

JoinWorker ==
  /\ MainAt("join", NumWorkers)
  /\ T!Join(cnt)
  /\ MainNextAt("stop")
  /\ UNCHANGED MainElsewhere

\* Mutant of DestroyPayload: always the first handle.
DestroyFirstPayload ==
  /\ MainAt("payloads", NumConnections)
  /\ payloads' = payloads \ {1}
  /\ MainNextAt("payloads")
  /\ UNCHANGED <<threadVars, wpc, connVars, loaded>>

\* cleanup: DestroyPayload for every handle, then the payload library,
DestroyPayload ==
  /\ MainAt("payloads", NumConnections)
  /\ payloads' = payloads \ {cnt}
  /\ MainNextAt("payloads")
  /\ UNCHANGED <<threadVars, wpc, connVars, loaded>>

Front == CHOOSE c \in listed : \A d \in listed : c <= d

\* DestroyConnection for every connection, whose pointer is then NULL.  The
\* protocol finds the connection in its deque and erases the front; it does
\* not delete the connection, and the socket stays open.
DestroyConnection ==
  /\ MainAt("conns", NumConnections)
  /\ conns' = conns \ {cnt}
  /\ listed' = IF cnt \in listed THEN listed \ {Front} ELSE listed
  /\ MainNextAt("conns")
  /\ UNCHANGED <<threadVars, wpc, payloads, sockets, loaded>>

\* ~tcp_proto and ~udp_proto delete the connections in their deque,
DestroyProtocol ==
  /\ main = "destroy_handle"
  /\ sockets' = sockets \ listed /\ listed' = {}
  /\ loaded' = loaded \ {"handle"}
  /\ MainGoes("unload_protocol")
  /\ UNCHANGED <<threadVars, wpc, payloads, conns>>

\* and only then DestroyClient: ~fixed_client deletes the workers, whose
\* destructor calls Stop.
DeleteWorker ==
  /\ MainAt("delete", NumWorkers)
  /\ MainStops(cnt, "del_join", MainGoes("del_free"))
  /\ UNCHANGED MainElsewhere

JoinDeletedWorker ==
  /\ MainAt("del_join", NumWorkers)
  /\ T!Join(cnt)
  /\ MainGoes("del_free")
  /\ UNCHANGED MainElsewhere

FreeWorker ==
  /\ MainAt("del_free", NumWorkers)
  /\ T!Free(cnt)
  /\ MainNextAt("delete")
  /\ UNCHANGED MainElsewhere

Release(pc, resource, next) ==
  /\ main = pc
  /\ loaded' = loaded \ {resource}
  /\ MainGoes(next)
  /\ UNCHANGED <<threadVars, wpc, payloads, connVars>>

Cleanup ==
  \/ DestroyPayload \/ MainLeavesLoop("payloads", NumConnections, "unload_payload")
  \/ Release("unload_payload", "payload", "conns")
  \/ DestroyConnection \/ MainLeavesLoop("conns", NumConnections, "destroy_handle")
  \/ DestroyProtocol
  \/ Release("unload_protocol", "protocol", "delete")
  \/ DeleteWorker \/ JoinDeletedWorker \/ FreeWorker
  \/ MainLeavesLoop("delete", NumWorkers, "unload_client")
  \/ Release("unload_client", "client", "exited")

Main ==
  \/ InitClient \/ StartWorker \/ MarkWorker
  \/ MainLeavesLoop("start", NumWorkers, "serve")
  \/ StopWorker \/ JoinWorker \/ MainLeavesLoop("stop", NumWorkers, "payloads")
  \/ Cleanup

Exited == main = "exited" /\ UNCHANGED vars

Next ==
  \/ Main \/ UserEnds \/ Exited
  \/ \E w \in Workers : Worker(w)

\* The threads are scheduled.  Nothing says that a call on a socket returns:
\* there is no timeout, and the server may never answer.
Fairness == WF_vars(Main) /\ \A w \in Workers : WF_vars(WorkerLoop(w) \/ WorkerGets(w))

Spec == Init /\ [][Next]_vars /\ Fairness

-----------------------------------------------------------------------------
(***************************************************************************)
(* Properties                                                              *)
(***************************************************************************)

\* What a worker uses when it executes: its object, its payload handle, its
\* connection, with its place in the array, and the libraries.
Found(w) ==
  /\ status[w] # "ABSENT"
  /\ ConnectionOf(w) \in payloads \cap conns \cap sockets
  /\ loaded = Resources

\* A worker that executes finds what it uses, although cleanup frees it
\* before it destroys the client: StopClient has joined every worker, also
\* after a Start that failed half way.
NoUseAfterFree == ~closed => \A w \in Workers : os[w] = "live" => Found(w)

\* "The client stops sending data": once StopClient has returned, no worker
\* takes or sends another payload, also after a Start that failed half way.
Stopped == ~closed /\ main \notin {"init", "start", "mark", "serve", "stop", "join"}

StoppedClientIsSilent ==
  [][Stopped => \A w \in Workers : wpc'[w] = wpc[w]]_vars

\* What the program leaves when it ends, also when its window was closed
\* under its workers: no worker, payload handle or library, and no pointer to
\* a connection, but the socket of every connection.  The deque is empty
\* before the protocol handle goes, so nothing is left to close them.
OnlySocketsLeft ==
  main = "exited" =>
    /\ payloads = {} /\ conns = {} /\ loaded = {}
    /\ listed = {} /\ sockets = Connections
    /\ \A w \in Workers : status[w] = "ABSENT" /\ os[w] # "live"

\* The client handles its workers as ThreadLife says.
lives ==
  [w \in Workers |->
     CASE status[w] = "ABSENT" -> "absent"
       [] status[w] # "ABSENT" /\ os[w] = "none" -> "fresh"
       [] status[w] # "ABSENT" /\ os[w] = "live" -> "running"
       [] OTHER -> "finished"]

Life == INSTANCE ThreadLife WITH Threads <- Workers, life <- lives

ThreadsLiveOnce == Life!Spec

\* The main thread joins a worker that is in a call on its socket.
Waiting ==
  main \in {"join", "del_join"} /\ os[cnt] = "live" /\ wpc[cnt] \in {"send", "recv"}

\* Once the user has ended the program, it exits, unless a worker's write
\* or read never returns: then it waits in the join of that worker for ever
\* (fixed_workers.cpp:51), and nothing else can hold it up.
ClientEnds == (main \in {"stop", "payloads"}) ~> (main = "exited" \/ []Waiting)
=============================================================================
