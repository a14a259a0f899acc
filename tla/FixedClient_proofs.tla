-------------------------- MODULE FixedClient_proofs --------------------------
(***************************************************************************)
(* Proofs about the fixed client, for any number of workers and            *)
(* connections: the types, that no worker outlives what it uses, that a    *)
(* stopped client is silent, and that the end leaves sockets only.         *)
(***************************************************************************)
EXTENDS FixedClient, TLAPS

\* No operating system thread runs behind w: it has none, or it was joined.
Quiet(w) == os[w] \in {"none", "joined"}

\* What each thread object's fields say of the thread behind it.
ThreadsCoherent ==
  \A w \in Workers :
    /\ status[w] \in {"ABSENT", "STOPPED"} => Quiet(w)
    /\ status[w] = "UNDEFINED" => os[w] = "none" \/ (main = "mark" /\ cnt = w)
    /\ status[w] \in {"RUNNING", "STOPPING"} => os[w] \in {"live", "returned"}

\* Where the main thread waits in Stop(), and where it frees a worker.
MainCoherent ==
  /\ main \in {"mark", "join", "del_join", "del_free"} => cnt \in Workers
  /\ main = "init" => \A w \in Workers : status[w] = "ABSENT"
  /\ main = "mark" => status[cnt] = "UNDEFINED" /\ os[cnt] \in {"live", "returned"}
  /\ main \in {"join", "del_join"} => status[cnt] = "STOPPING"
  /\ main = "del_free" => Quiet(cnt)

BeforeCleanup == main \in {"init", "start", "mark", "serve", "stop", "join"}

\* What cleanup frees is there until cleanup begins.
ResourcesHeld ==
  BeforeCleanup =>
    payloads = Connections /\ conns = Connections /\ sockets = Connections /\ loaded = Resources

\* StopClient leaves no thread behind it.
StoppedOnesQuiet ==
  /\ main \in {"stop", "join"} => \A w \in Workers : w < cnt => Quiet(w)
  /\ ~closed /\ ~BeforeCleanup => \A w \in Workers : Quiet(w)

IInv ==
  /\ TypeOK /\ ThreadsCoherent /\ MainCoherent
  /\ ResourcesHeld /\ StoppedOnesQuiet

\* Every worker's connection and payload exists at the start.
LEMMA ConnectionOfType == \A w \in Workers : ConnectionOf(w) \in Connections
  BY ClientAssumption DEF ConnectionOf, Workers, Connections

LEMMA InitInv == Init => IInv
<1> SUFFICES ASSUME Init PROVE IInv
  OBVIOUS
<1>1. TypeOK
  <2>1. stopping \in [Workers -> BOOLEAN] /\ closed \in BOOLEAN
    BY ZenonT(30) DEF Init, T!Init
  <2>2. cnt \in 1..(NumWorkers + 1)
    BY ClientAssumption DEF Init
  <2> QED
    BY <2>1, <2>2 DEF Init, TypeOK, T!Init, T!TypeOK, T!Statuses, T!OSStates,
                      MainPC, WorkerPC
<1>2. ThreadsCoherent /\ MainCoherent
  BY DEF Init, T!Init, ThreadsCoherent, MainCoherent, Quiet
<1>3. ResourcesHeld /\ StoppedOnesQuiet
  BY DEF Init, ResourcesHeld, StoppedOnesQuiet, BeforeCleanup
<1> QED
  BY <1>1, <1>2, <1>3 DEF IInv

\* A worker changes its own place, and may end its thread; nothing else.
LEMMA WorkerStep ==
  ASSUME NEW w \in Workers, TypeOK, Worker(w)
  PROVE  /\ os[w] = "live"
         /\ os' = os \/ os' = [os EXCEPT ![w] = "returned"]
         /\ wpc' \in [Workers -> WorkerPC]
         /\ UNCHANGED <<status, stopping, mainVars, resourceVars>>
  BY DEF Worker, WorkerLoop, WorkerGets, WorkerSends, WorkerReceives, WorkerAt,
         WorkerGoes, WorkerReturns, T!RunReturns, threadVars, TypeOK, WorkerPC

LEMMA WorkerInv ==
  ASSUME NEW w \in Workers, IInv, Worker(w)
  PROVE  IInv'
<1>1. /\ os[w] = "live"
      /\ os' = os \/ os' = [os EXCEPT ![w] = "returned"]
      /\ wpc' \in [Workers -> WorkerPC]
      /\ UNCHANGED <<status, stopping, mainVars, resourceVars>>
  BY WorkerStep DEF IInv
<1>2. TypeOK'
  BY <1>1 DEF IInv, TypeOK, T!TypeOK, T!OSStates, mainVars, resourceVars, connVars
<1>3. (ThreadsCoherent /\ MainCoherent)'
  BY <1>1 DEF IInv, TypeOK, T!TypeOK, ThreadsCoherent, MainCoherent, Quiet, mainVars
<1>4. (ResourcesHeld /\ StoppedOnesQuiet)'
  BY <1>1 DEF IInv, TypeOK, T!TypeOK, ResourcesHeld, StoppedOnesQuiet,
              BeforeCleanup, Quiet, mainVars, resourceVars, connVars
<1> QED
  BY <1>2, <1>3, <1>4 DEF IInv

-----------------------------------------------------------------------------
(***************************************************************************)
(* The main thread, one lemma per group of its steps                       *)
(***************************************************************************)
LEMMA StartInv ==
  ASSUME IInv, InitClient \/ StartWorker \/ MarkWorker \/ UserEnds
  PROVE  IInv'
<1> USE DEF IInv, TypeOK, T!TypeOK
<1>1. CASE InitClient
  <2> USE <1>1 DEF InitClient, T!New, MainGoes, MainElsewhere, resourceVars, connVars
  <2>1. TypeOK'
    BY DEF T!Statuses, T!OSStates, MainPC, threadVars
  <2>2. (ThreadsCoherent /\ MainCoherent)'
    BY DEF ThreadsCoherent, MainCoherent, Quiet, threadVars
  <2>3. (ResourcesHeld /\ StoppedOnesQuiet)'
    BY DEF ResourcesHeld, StoppedOnesQuiet, BeforeCleanup, Quiet, threadVars,
           ThreadsCoherent, MainCoherent
  <2> QED BY <2>1, <2>2, <2>3
<1>2. CASE StartWorker
  <2> USE <1>2 DEF StartWorker, T!CreateThread, MainAt, MainGoes, WorkerGoes, resourceVars, connVars
  <2>1. TypeOK'
    BY ClientAssumption DEF T!OSStates, MainPC, WorkerPC, threadVars
  <2>2. (ThreadsCoherent /\ MainCoherent)'
    BY DEF ThreadsCoherent, MainCoherent, Quiet, threadVars, Workers
  <2>3. (ResourcesHeld /\ StoppedOnesQuiet)'
    BY DEF ResourcesHeld, StoppedOnesQuiet, BeforeCleanup, Quiet
  <2> QED BY <2>1, <2>2, <2>3
<1>3. CASE MarkWorker
  <2> USE <1>3 DEF MarkWorker, T!MarkRunning, MainAt, MainNextAt, MainElsewhere, resourceVars, connVars
  <2>1. TypeOK'
    <3>1. cnt' \in 1..(NumWorkers + 1)
      BY ClientAssumption
    <3>2. T!TypeOK'
      BY DEF T!Statuses
    <3> QED BY <3>1, <3>2 DEF MainPC
  <2>2. (ThreadsCoherent /\ MainCoherent)'
    BY DEF ThreadsCoherent, MainCoherent, Quiet, Workers
  <2>3. (ResourcesHeld /\ StoppedOnesQuiet)'
    BY DEF ResourcesHeld, StoppedOnesQuiet, BeforeCleanup, Quiet
  <2> QED BY <2>1, <2>2, <2>3
<1>4. CASE UserEnds
  <2> USE <1>4 DEF UserEnds, MainElsewhere, resourceVars, connVars, threadVars
  <2>1. TypeOK'
    BY ClientAssumption DEF MainPC
  <2>2. (ThreadsCoherent /\ MainCoherent)'
    BY DEF ThreadsCoherent, MainCoherent, Quiet
  <2>3. (ResourcesHeld /\ StoppedOnesQuiet)'
    BY DEF ResourcesHeld, StoppedOnesQuiet, BeforeCleanup, Workers
  <2> QED BY <2>1, <2>2, <2>3
<1> QED
  BY <1>1, <1>2, <1>3, <1>4

LEMMA StopInv ==
  ASSUME IInv, StopWorker \/ JoinWorker
  PROVE  IInv'
<1> USE DEF IInv, TypeOK, T!TypeOK
<1>1. CASE StopWorker
  <2> USE <1>1 DEF StopWorker, MainStops, T!Stoppable, T!BeginStop, MainAt,
                   MainGoes, MainNextAt, MainElsewhere, resourceVars, connVars, threadVars
  <2>1. TypeOK'
    <3>1. cnt' \in 1..(NumWorkers + 1)
      BY ClientAssumption
    <3>2. T!TypeOK'
      BY DEF T!Statuses
    <3> QED BY <3>1, <3>2 DEF MainPC
  <2>2. (ThreadsCoherent /\ MainCoherent)'
    BY DEF ThreadsCoherent, MainCoherent, Quiet, Workers
  <2>3. ~T!Stoppable(cnt) => Quiet(cnt)
    BY DEF ThreadsCoherent, T!Statuses, Quiet, Workers
  <2>4. StoppedOnesQuiet'
    <3>1. main' \in {"stop", "join"} /\ os' = os
      OBVIOUS
    <3>2. \A w \in Workers : w < cnt' => w < cnt \/ (w = cnt /\ ~T!Stoppable(cnt))
      BY DEF Workers
    <3> QED
      BY <2>3, <3>1, <3>2 DEF StoppedOnesQuiet, BeforeCleanup, Quiet
  <2>5. ResourcesHeld'
    BY DEF ResourcesHeld, BeforeCleanup
  <2> QED BY <2>1, <2>2, <2>4, <2>5
<1>2. CASE JoinWorker
  <2> USE <1>2 DEF JoinWorker, T!Join, MainAt, MainNextAt, MainElsewhere, resourceVars, connVars
  <2>1. TypeOK'
    <3>1. cnt' \in 1..(NumWorkers + 1)
      BY ClientAssumption
    <3>2. T!TypeOK'
      BY DEF T!Statuses, T!OSStates
    <3> QED BY <3>1, <3>2 DEF MainPC
  <2>2. (ThreadsCoherent /\ MainCoherent)'
    BY DEF ThreadsCoherent, MainCoherent, Quiet, Workers
  <2>3. (ResourcesHeld /\ StoppedOnesQuiet)'
    BY DEF ResourcesHeld, StoppedOnesQuiet, BeforeCleanup, Quiet, Workers
  <2> QED BY <2>1, <2>2, <2>3
<1> QED
  BY <1>1, <1>2

LEMMA LoopEndInv ==
  ASSUME IInv,
         \/ MainLeavesLoop("start", NumWorkers, "serve")
         \/ MainLeavesLoop("stop", NumWorkers, "payloads")
         \/ MainLeavesLoop("payloads", NumConnections, "unload_payload")
         \/ MainLeavesLoop("conns", NumConnections, "destroy_handle")
         \/ MainLeavesLoop("delete", NumWorkers, "unload_client")
  PROVE  IInv'
<1> USE DEF IInv, TypeOK, T!TypeOK, MainLeavesLoop, threadVars, resourceVars, connVars
<1>1. TypeOK'
  BY ClientAssumption DEF MainPC
<1>2. (ThreadsCoherent /\ MainCoherent)'
  BY DEF ThreadsCoherent, MainCoherent, Quiet
<1>3. ResourcesHeld'
  BY DEF ResourcesHeld, BeforeCleanup
<1>4. StoppedOnesQuiet'
  <2>1. CASE MainLeavesLoop("stop", NumWorkers, "payloads")
    <3>1. \A w \in Workers : w < cnt
      BY <2>1, ClientAssumption DEF Workers
    <3> QED BY <2>1, <3>1 DEF StoppedOnesQuiet, Quiet
  <2>2. CASE ~MainLeavesLoop("stop", NumWorkers, "payloads")
    BY <2>2 DEF StoppedOnesQuiet, BeforeCleanup, Quiet
  <2> QED BY <2>1, <2>2
<1> QED
  BY <1>1, <1>2, <1>3, <1>4

\* The steps of cleanup that free one resource and leave the threads alone.
ReleaseStep ==
  \/ DestroyPayload \/ DestroyConnection
  \/ Release("unload_payload", "payload", "conns")
  \/ DestroyProtocol
  \/ Release("unload_protocol", "protocol", "delete")
  \/ Release("unload_client", "client", "exited")

LEMMA ReleaseInv ==
  ASSUME IInv, ReleaseStep
  PROVE  IInv'
<1> USE DEF IInv, TypeOK, T!TypeOK, ReleaseStep, DestroyPayload, DestroyConnection,
            DestroyProtocol, Release, MainAt, MainGoes, MainNextAt, connVars, threadVars
<1>1. TypeOK'
  BY ClientAssumption DEF MainPC
<1>2. (ThreadsCoherent /\ MainCoherent)'
  BY DEF ThreadsCoherent, MainCoherent, Quiet
<1>3. (ResourcesHeld /\ StoppedOnesQuiet)'
  BY DEF ResourcesHeld, StoppedOnesQuiet, BeforeCleanup, Quiet
<1> QED
  BY <1>1, <1>2, <1>3

LEMMA DeleteInv ==
  ASSUME IInv, DeleteWorker \/ JoinDeletedWorker \/ FreeWorker
  PROVE  IInv'
<1> USE DEF IInv, TypeOK, T!TypeOK
<1>1. CASE DeleteWorker
  <2> USE <1>1 DEF DeleteWorker, MainStops, T!Stoppable, T!BeginStop, MainAt,
                   MainGoes, MainElsewhere, resourceVars, connVars, threadVars
  <2>1. TypeOK'
    BY DEF T!Statuses, MainPC
  <2>2. (ThreadsCoherent /\ MainCoherent)'
    BY DEF ThreadsCoherent, MainCoherent, Quiet, Workers, T!Statuses
  <2>3. (ResourcesHeld /\ StoppedOnesQuiet)'
    BY DEF ResourcesHeld, StoppedOnesQuiet, BeforeCleanup, Quiet
  <2> QED BY <2>1, <2>2, <2>3
<1>2. CASE JoinDeletedWorker
  <2> USE <1>2 DEF JoinDeletedWorker, T!Join, MainAt, MainGoes, MainElsewhere, resourceVars, connVars
  <2>1. TypeOK'
    BY DEF T!Statuses, T!OSStates, MainPC
  <2>2. (ThreadsCoherent /\ MainCoherent)'
    BY DEF ThreadsCoherent, MainCoherent, Quiet, Workers
  <2>3. (ResourcesHeld /\ StoppedOnesQuiet)'
    BY DEF ResourcesHeld, StoppedOnesQuiet, BeforeCleanup, Quiet
  <2> QED BY <2>1, <2>2, <2>3
<1>3. CASE FreeWorker
  <2> USE <1>3 DEF FreeWorker, T!Free, MainAt, MainNextAt, MainElsewhere, resourceVars, connVars
  <2>1. TypeOK'
    <3>1. cnt' \in 1..(NumWorkers + 1)
      BY ClientAssumption
    <3>2. T!TypeOK'
      BY DEF T!Statuses
    <3> QED BY <3>1, <3>2 DEF MainPC
  <2>2. (ThreadsCoherent /\ MainCoherent)'
    BY DEF ThreadsCoherent, MainCoherent, Quiet
  <2>3. (ResourcesHeld /\ StoppedOnesQuiet)'
    BY DEF ResourcesHeld, StoppedOnesQuiet, BeforeCleanup, Quiet
  <2> QED BY <2>1, <2>2, <2>3
<1> QED
  BY <1>1, <1>2, <1>3

LEMMA StutterInv ==
  ASSUME IInv, UNCHANGED vars
  PROVE  IInv'
  BY DEF IInv, TypeOK, T!TypeOK, ThreadsCoherent, MainCoherent, ResourcesHeld,
         StoppedOnesQuiet, BeforeCleanup, Quiet, vars, threadVars, mainVars, resourceVars, connVars

LEMMA NextInv == IInv /\ [Next]_vars => IInv'
  BY WorkerInv, StartInv, StopInv, LoopEndInv, ReleaseInv, DeleteInv, StutterInv
  DEF Next, Main, Cleanup, ReleaseStep, Exited

-----------------------------------------------------------------------------
(***************************************************************************)
(* Theorems                                                                *)
(***************************************************************************)

\* The strengthened invariant holds in every state the client can reach.
THEOREM Invariance == Spec => []IInv
  BY InitInv, NextInv, PTL DEF Spec

\* Every variable keeps its type, cnt its bounds, whatever the numbers of
\* workers and connections are.
THEOREM TypeCorrect == Spec => []TypeOK
<1>1. IInv => TypeOK
  BY DEF IInv
<1> QED
  BY Invariance, <1>1, PTL

\* StopClient before cleanup is enough: no worker executes without its
\* object, its payload, its connection and the libraries, although cleanup
\* frees them before it destroys the client.
THEOREM NoUseAfterFreeHolds == Spec => []NoUseAfterFree
<1>1. IInv => NoUseAfterFree
  <2> SUFFICES ASSUME IInv, ~closed, NEW w \in Workers, os[w] = "live"
               PROVE  Found(w)
    BY DEF NoUseAfterFree
  <2>1. BeforeCleanup
    BY DEF IInv, StoppedOnesQuiet, Quiet
  <2>2. status[w] # "ABSENT"
    BY DEF IInv, ThreadsCoherent, Quiet
  <2> QED
    BY <2>1, <2>2, ConnectionOfType DEF IInv, ResourcesHeld, Found
<1> QED
  BY Invariance, <1>1, PTL

\* StopClient silences the client: after it no step moves a worker.
THEOREM StoppedClientIsSilentHolds == Spec => StoppedClientIsSilent
<1>1. IInv /\ [Next]_vars => [Stopped => \A w \in Workers : wpc'[w] = wpc[w]]_vars
  <2> SUFFICES ASSUME IInv, Next, Stopped, NEW v \in Workers
               PROVE  wpc'[v] = wpc[v]
    BY DEF vars
  <2>1. \A w \in Workers : os[w] # "live"
    BY DEF IInv, StoppedOnesQuiet, Stopped, BeforeCleanup, Quiet
  <2>2. \A w \in Workers : ~Worker(w)
    BY <2>1, WorkerStep DEF IInv
  <2>3. CASE Exited
    BY <2>3 DEF Exited, vars
  <2>4. CASE UserEnds \/ (Main /\ main # "start")
    BY <2>4 DEF UserEnds, Main, Cleanup, InitClient, MarkWorker, StartWorker,
       StopWorker, JoinWorker, DestroyPayload, DestroyConnection, DestroyProtocol, DeleteWorker,
       JoinDeletedWorker, FreeWorker, Release, MainLeavesLoop, MainElsewhere, MainAt
  <2> QED
    BY <2>2, <2>3, <2>4 DEF Next, Stopped
<1> QED
  BY Invariance, <1>1, PTL DEF Spec, StoppedClientIsSilent

\* A step of the client is a step of ThreadLife, or changes no life.
LEMMA LifeStep == IInv /\ [Next]_vars => [Life!Next]_lives
<1> SUFFICES ASSUME IInv, [Next]_vars PROVE Life!Next \/ UNCHANGED lives
  OBVIOUS
<1> USE DEF IInv, TypeOK, T!TypeOK
<1>1. CASE UNCHANGED <<status, os>>
  BY <1>1 DEF lives
<1>2. ASSUME NEW w \in Workers, Worker(w) PROVE Life!Next \/ UNCHANGED lives
  <2>1. /\ os[w] = "live" /\ status[w] # "ABSENT" /\ UNCHANGED status
        /\ os' = os \/ os' = [os EXCEPT ![w] = "returned"]
    BY <1>2, WorkerStep DEF ThreadsCoherent, Quiet
  <2>2. os' # os => lives[w] = "running" /\ lives' = [lives EXCEPT ![w] = "finished"]
    BY <2>1 DEF lives
  <2> QED
    BY <2>1, <2>2, <1>1 DEF Life!Next, Life!Finish
<1>3. CASE InitClient
  <2>1. CASE T!New(Workers)
    <3>1. /\ \A w \in Workers : lives[w] = "absent"
          /\ lives' = [w \in Workers |-> IF w \in Workers THEN "fresh" ELSE lives[w]]
      BY <2>1 DEF T!New, lives
    <3>2. 1 \in Workers
      BY ClientAssumption DEF Workers
    <3> QED BY <3>1, <3>2 DEF Life!Next, Life!Construct
  <2> QED
    BY <1>3, <2>1, <1>1 DEF InitClient, threadVars
<1>4. CASE StartWorker
  <2>1. CASE T!CreateThread(cnt) /\ cnt \in Workers /\ main = "start"
    <3>1. lives[cnt] = "fresh" /\ lives' = [lives EXCEPT ![cnt] = "running"]
      BY <2>1 DEF T!CreateThread, ThreadsCoherent, lives
    <3> QED BY <3>1, <2>1 DEF Life!Next, Life!Execute
  <2> QED
    BY <1>4, <2>1, <1>1 DEF StartWorker, MainAt, Workers, threadVars
<1>5. CASE MarkWorker \/ StopWorker \/ JoinWorker \/ DeleteWorker \/ JoinDeletedWorker
  <2>1. CASE status' = [status EXCEPT ![cnt] = "RUNNING"] /\ UNCHANGED os /\ main = "mark"
    BY <2>1 DEF MainCoherent, lives
  <2>2. CASE T!Stoppable(cnt) /\ T!BeginStop(cnt)
    BY <2>2 DEF T!Stoppable, T!BeginStop, lives
  <2>3. CASE T!Join(cnt) /\ main \in {"join", "del_join"}
    BY <2>3 DEF T!Join, MainCoherent, lives
  <2> QED
    BY <1>5, <2>1, <2>2, <2>3, <1>1
    DEF MarkWorker, StopWorker, JoinWorker, DeleteWorker, JoinDeletedWorker,
        MainStops, MainAt, T!MarkRunning, threadVars
<1>6. CASE FreeWorker
  <2>1. cnt \in Workers /\ Quiet(cnt) /\ T!Free(cnt)
    BY <1>6 DEF FreeWorker, MainAt, MainCoherent
  <2>2. /\ lives[cnt] \in {"absent", "fresh", "finished"}
        /\ lives' = [lives EXCEPT ![cnt] = "absent"]
    BY <2>1 DEF T!Free, Quiet, lives
  <2>3. lives \in [Workers -> {"absent", "fresh", "running", "finished"}]
    BY DEF lives
  <2> QED
    BY <2>1, <2>2, <2>3 DEF Life!Next, Life!Destroy
<1>7. CASE UserEnds \/ Exited \/ UNCHANGED vars
  BY <1>7, <1>1 DEF UserEnds, Exited, vars, threadVars
<1>8. CASE ReleaseStep \/ \E pc, bound, next : MainLeavesLoop(pc, bound, next)
  BY <1>8, <1>1 DEF ReleaseStep, DestroyPayload, DestroyConnection, DestroyProtocol, Release,
                    MainLeavesLoop, threadVars
<1> QED
  BY <1>2, <1>3, <1>4, <1>5, <1>6, <1>7, <1>8 DEF Next, Main, Cleanup, ReleaseStep

\* The client implements ThreadLife: every worker's Run() is executed at most
\* once, and no worker is deleted while it executes, also when the window is
\* closed.
THEOREM ThreadsLiveOnceHolds == Spec => ThreadsLiveOnce
<1>1. Init => Life!Init
  BY DEF Init, T!Init, Life!Init, lives
<1> QED
  BY <1>1, LifeStep, Invariance, PTL DEF Spec, ThreadsLiveOnce, Life!Spec

-----------------------------------------------------------------------------
(***************************************************************************)
(* What cleanup has freed so far.  The main thread frees the resources in  *)
(* a fixed order, so where it is tells what is gone.                       *)
(***************************************************************************)
PastClient == main = "exited"
PastWorkers == main \in {"unload_client", "exited"}
PastProtocol == main \in {"delete", "del_join", "del_free"} \/ PastWorkers
PastHandle == main = "unload_protocol" \/ PastProtocol
PastConns == main = "destroy_handle" \/ PastHandle
PastPayloadLibrary == main = "conns" \/ PastConns
PastPayloads == main = "unload_payload" \/ PastPayloadLibrary

\* Outside the loops, and before the first of them, cnt is where a loop begins.
LoopsBeginAtOne ==
  main \in {"init", "unload_payload", "destroy_handle", "unload_protocol"} => cnt = 1

HandlesFreed ==
  /\ main = "payloads" => \A i \in payloads : i >= cnt
  /\ PastPayloads => payloads = {}
  /\ main = "conns" => \A i \in conns : i >= cnt
  /\ PastConns => conns = {}

LibrariesFreed ==
  /\ PastPayloadLibrary => "payload" \notin loaded
  /\ PastHandle => "handle" \notin loaded
  /\ PastProtocol => "protocol" \notin loaded
  /\ PastClient => "client" \notin loaded

WorkersFreed ==
  /\ main \in {"delete", "del_join", "del_free"} =>
       \A w \in Workers : w < cnt => status[w] = "ABSENT"
  /\ PastWorkers => \A w \in Workers : status[w] = "ABSENT"

Freed == LoopsBeginAtOne /\ HandlesFreed /\ LibrariesFreed /\ WorkersFreed

LEMMA FreedInit == Init => Freed
  BY DEF Init, Freed, LoopsBeginAtOne, HandlesFreed, LibrariesFreed, WorkersFreed,
         PastClient, PastWorkers, PastProtocol, PastHandle, PastConns,
         PastPayloadLibrary, PastPayloads

LEMMA FreedNext == IInv /\ Freed /\ [Next]_vars => Freed'
<1> SUFFICES ASSUME IInv, Freed, [Next]_vars PROVE Freed'
  OBVIOUS
<1> USE DEF IInv, TypeOK, T!TypeOK, Freed, LoopsBeginAtOne, HandlesFreed,
            LibrariesFreed, WorkersFreed, PastClient, PastWorkers, PastProtocol,
            PastHandle, PastConns, PastPayloadLibrary, PastPayloads
<1>0. payloads \subseteq Nat \ {0} /\ conns \subseteq Nat \ {0}
  BY ClientAssumption DEF Connections
<1>1. ASSUME NEW w \in Workers, Worker(w) PROVE Freed'
  BY <1>1, WorkerStep DEF mainVars, resourceVars, connVars
<1>2. CASE InitClient \/ StartWorker \/ MarkWorker \/ UserEnds \/ StopWorker \/ JoinWorker
  <2>1. /\ UNCHANGED resourceVars
        /\ \/ main' \in {"start", "mark", "serve", "stop", "join"}
           \/ main' = "payloads" /\ cnt' = 1
    BY <1>2
    DEF InitClient, StartWorker, MarkWorker, UserEnds, StopWorker, JoinWorker, MainStops,
        MainAt, MainGoes, MainNextAt, MainElsewhere
  <2> QED BY <1>0, <2>1 DEF resourceVars, connVars
<1>3. CASE DestroyPayload
  <2>1. \A i \in payloads' : i >= cnt + 1
    BY <1>0, <1>3, ClientAssumption DEF DestroyPayload, MainAt, Connections
  <2> QED BY <1>3, <2>1 DEF DestroyPayload, MainAt, MainNextAt, connVars
<1>4. CASE DestroyConnection
  <2>1. \A i \in conns' : i >= cnt + 1
    BY <1>0, <1>4, ClientAssumption DEF DestroyConnection, MainAt, Connections
  <2> QED BY <1>4, <2>1 DEF DestroyConnection, MainAt, MainNextAt
<1>5. CASE \/ Release("unload_payload", "payload", "conns")
           \/ DestroyProtocol
           \/ Release("unload_protocol", "protocol", "delete")
           \/ Release("unload_client", "client", "exited")
  <2>1. \A w \in Workers : ~(w < 1)
    BY ClientAssumption DEF Workers
  <2>2. \A i \in conns : i >= 1
    BY <1>0
  <2>3. CASE Release("unload_payload", "payload", "conns")
    BY <2>2, <2>3 DEF Release, MainGoes, threadVars, connVars
  <2>4. CASE DestroyProtocol
    BY <2>4 DEF DestroyProtocol, MainGoes, threadVars
  <2>5. CASE Release("unload_protocol", "protocol", "delete")
    BY <2>1, <2>5 DEF Release, MainGoes, threadVars, connVars
  <2>6. CASE Release("unload_client", "client", "exited")
    BY <2>6 DEF Release, MainGoes, threadVars, connVars
  <2> QED BY <1>5, <2>3, <2>4, <2>5, <2>6
<1>6. CASE DeleteWorker \/ JoinDeletedWorker
  BY <1>6, ClientAssumption
  DEF DeleteWorker, JoinDeletedWorker, MainStops, MainAt, MainGoes, MainElsewhere,
      T!Stoppable, T!BeginStop, T!Join, threadVars, resourceVars, connVars, Workers
<1>7. CASE FreeWorker
  <2>1. \A w \in Workers : w < cnt + 1 => status'[w] = "ABSENT"
    BY <1>7, ClientAssumption DEF FreeWorker, MainAt, T!Free, Workers
  <2> QED BY <1>7, <2>1 DEF FreeWorker, MainAt, MainNextAt, MainElsewhere, resourceVars, connVars
<1>8. CASE \/ MainLeavesLoop("start", NumWorkers, "serve")
           \/ MainLeavesLoop("stop", NumWorkers, "payloads")
  <2>1. /\ UNCHANGED resourceVars
        /\ main' = "serve" \/ (main' = "payloads" /\ cnt' = 1)
    BY <1>8 DEF MainLeavesLoop
  <2>2. \A i \in payloads : i >= 1
    BY <1>0
  <2> QED BY <2>1, <2>2 DEF resourceVars, connVars
<1>9. CASE MainLeavesLoop("payloads", NumConnections, "unload_payload")
  <2>1. \A i \in payloads : i \in 1..NumConnections /\ i >= cnt /\ cnt \notin 1..NumConnections
    BY <1>9 DEF MainLeavesLoop, Connections
  <2>2. payloads = {}
    BY <2>1, ClientAssumption
  <2> QED BY <1>9, <2>2 DEF MainLeavesLoop, threadVars, resourceVars, connVars
<1>10. CASE MainLeavesLoop("conns", NumConnections, "destroy_handle")
  <2>1. \A i \in conns : i \in 1..NumConnections /\ i >= cnt /\ cnt \notin 1..NumConnections
    BY <1>10 DEF MainLeavesLoop, Connections
  <2>2. conns = {}
    BY <2>1, ClientAssumption
  <2> QED BY <1>10, <2>2 DEF MainLeavesLoop, threadVars, resourceVars, connVars
<1>11. CASE MainLeavesLoop("delete", NumWorkers, "unload_client")
  <2>1. \A w \in Workers : w < cnt
    BY <1>11, ClientAssumption DEF MainLeavesLoop, Workers
  <2> QED BY <1>11, <2>1 DEF MainLeavesLoop, threadVars, resourceVars, connVars
<1>12. CASE Exited \/ UNCHANGED vars
  BY <1>12 DEF Exited, vars, threadVars, mainVars, resourceVars, connVars
<1> QED
  BY <1>1, <1>2, <1>3, <1>4, <1>5, <1>6, <1>7, <1>8, <1>9, <1>10, <1>11, <1>12
  DEF Next, Main, Cleanup

\* The deque of the protocol handle: cleanup goes through the connections in
\* the order in which they were made, so the one it asks for is the front.
Listed ==
  /\ main # "conns" /\ ~PastConns => listed = Connections
  /\ main = "conns" => listed = {i \in Connections : i >= cnt}
  /\ PastConns => listed = {}
  /\ sockets = Connections

LEMMA FrontIs ==
  ASSUME cnt \in Connections, listed = {i \in Connections : i >= cnt}
  PROVE  cnt \in listed /\ Front = cnt
<1>1. cnt \in listed /\ \A d \in listed : cnt <= d /\ d \in Nat
  BY ClientAssumption DEF Connections
<1>2. \A c \in listed : (\A d \in listed : c <= d) => c = cnt
  BY <1>1
<1> QED BY <1>1, <1>2 DEF Front

LEMMA ListedInit == Init => Listed
  BY DEF Init, Listed, PastConns, PastHandle, PastProtocol, PastWorkers

\* A step that leaves the deque alone stays on one side of the loop over the
\* connections, or in the same turn of it.
LEMMA ListedStays ==
  ASSUME Listed, UNCHANGED <<listed, sockets>>,
         main = "conns" => main' = main /\ cnt' = cnt,
         main' = "conns" => main = main',
         PastConns' <=> PastConns
  PROVE  Listed'
  BY DEF Listed

LEMMA ListedNext == IInv /\ Freed /\ Listed /\ [Next]_vars => Listed'
<1> SUFFICES ASSUME IInv, Freed, Listed, [Next]_vars PROVE Listed'
  OBVIOUS
<1> USE DEF PastConns, PastHandle, PastProtocol, PastWorkers
<1>1. ASSUME NEW w \in Workers, Worker(w) PROVE Listed'
  <2>1. UNCHANGED <<main, cnt, listed, sockets>>
    BY <1>1, WorkerStep DEF IInv, mainVars, resourceVars, connVars
  <2> QED BY <2>1, ListedStays
<1>2. CASE DestroyConnection
  <2>1. main = "conns" /\ cnt \in Connections /\ main' = "conns" /\ cnt' = cnt + 1
    BY <1>2 DEF DestroyConnection, MainAt, MainNextAt, Connections
  <2>2. listed' = listed \ {cnt} /\ sockets' = sockets
    BY <1>2, <2>1, FrontIs DEF DestroyConnection, Listed
  <2>3. {i \in Connections : i >= cnt} \ {cnt} = {i \in Connections : i >= cnt + 1}
    BY <2>1, ClientAssumption DEF Connections
  <2> QED BY <2>1, <2>2, <2>3 DEF Listed
<1>3. CASE DestroyProtocol
  <2>1. listed = {} /\ sockets = Connections
    BY <1>3 DEF DestroyProtocol, Listed
  <2> QED BY <1>3, <2>1 DEF DestroyProtocol, MainGoes, Listed
<1>4. CASE Release("unload_payload", "payload", "conns")
  <2>1. cnt = 1 /\ cnt' = cnt /\ main' = "conns" /\ UNCHANGED <<listed, sockets>>
    BY <1>4 DEF Release, MainGoes, connVars, Freed, LoopsBeginAtOne
  <2>2. listed = Connections /\ sockets = Connections
    BY <1>4 DEF Release, Listed
  <2>3. Connections = {i \in Connections : i >= 1}
    BY ClientAssumption DEF Connections
  <2> QED BY <2>1, <2>2, <2>3 DEF Listed
<1>5. CASE MainLeavesLoop("conns", NumConnections, "destroy_handle")
  <2>1. cnt \in Nat \ {0} /\ cnt \notin 1..NumConnections
    BY <1>5, ClientAssumption DEF MainLeavesLoop, IInv, TypeOK
  <2>2. listed = {}
    BY <1>5, <2>1, ClientAssumption DEF MainLeavesLoop, Listed, Connections
  <2> QED BY <1>5, <2>2 DEF MainLeavesLoop, Listed, resourceVars, connVars
<1>6. CASE \/ InitClient \/ StartWorker \/ MarkWorker \/ UserEnds \/ StopWorker \/ JoinWorker
           \/ DestroyPayload \/ DeleteWorker \/ JoinDeletedWorker \/ FreeWorker
  <2>1. /\ UNCHANGED <<listed, sockets>>
        /\ main # "conns" /\ main' # "conns" /\ (PastConns' <=> PastConns)
    BY <1>6
    DEF InitClient, StartWorker, MarkWorker, UserEnds, StopWorker, JoinWorker, DestroyPayload,
        DeleteWorker, JoinDeletedWorker, FreeWorker, MainStops, MainAt, MainGoes, MainNextAt,
        MainElsewhere, resourceVars, connVars
  <2> QED BY <2>1, ListedStays
<1>7. CASE \/ MainLeavesLoop("start", NumWorkers, "serve")
           \/ MainLeavesLoop("stop", NumWorkers, "payloads")
           \/ MainLeavesLoop("payloads", NumConnections, "unload_payload")
           \/ MainLeavesLoop("delete", NumWorkers, "unload_client")
           \/ Release("unload_protocol", "protocol", "delete")
           \/ Release("unload_client", "client", "exited")
  <2>1. /\ UNCHANGED <<listed, sockets>>
        /\ main # "conns" /\ main' # "conns" /\ (PastConns' <=> PastConns)
    BY <1>7 DEF MainLeavesLoop, Release, MainGoes, resourceVars, connVars
  <2> QED BY <2>1, ListedStays
<1>8. CASE Exited \/ UNCHANGED vars
  <2>1. UNCHANGED <<main, cnt, listed, sockets>>
    BY <1>8 DEF Exited, vars, mainVars, resourceVars, connVars
  <2> QED BY <2>1, ListedStays
<1> QED
  BY <1>1, <1>2, <1>3, <1>4, <1>5, <1>6, <1>7, <1>8 DEF Next, Main, Cleanup

\* When the program exits, every payload and library has been given back and
\* every worker deleted, with no thread left that executes: also when the
\* window is closed, and when Start or InitClient failed.  The deque is empty
\* before ~tcp_proto looks into it, so no connection is deleted: the sockets
\* are left, all of them.
THEOREM OnlySocketsLeftHolds == Spec => []OnlySocketsLeft
<1>1. IInv /\ Freed /\ Listed => OnlySocketsLeft
  <2> SUFFICES ASSUME IInv, Freed, Listed, main = "exited"
               PROVE  /\ payloads = {} /\ conns = {} /\ loaded = {}
                      /\ listed = {} /\ sockets = Connections
                      /\ \A w \in Workers : status[w] = "ABSENT" /\ os[w] # "live"
    BY DEF OnlySocketsLeft
  <2> USE DEF PastClient, PastWorkers, PastProtocol, PastHandle, PastConns,
              PastPayloadLibrary, PastPayloads
  <2>1. payloads = {} /\ conns = {} /\ listed = {} /\ sockets = Connections
    BY DEF Freed, HandlesFreed, Listed
  <2>2. loaded = {}
    BY DEF Freed, LibrariesFreed, IInv, TypeOK, Resources
  <2>3. \A w \in Workers : status[w] = "ABSENT" /\ os[w] # "live"
    BY DEF Freed, WorkersFreed, IInv, ThreadsCoherent, Quiet
  <2> QED BY <2>1, <2>2, <2>3
<1> QED
  BY <1>1, FreedInit, FreedNext, ListedInit, ListedNext, Invariance, PTL DEF Spec

-----------------------------------------------------------------------------
(***************************************************************************)
(* What ClientEnds rests on.                                               *)
(***************************************************************************)
\* Whoever pthread_join waits for exists, has not been joined before, and was
\* asked to stop.
JoinsEnd ==
  main \in {"join", "del_join"} => os[cnt] \in {"live", "returned"} /\ stopping[cnt]

AskedToStop == \A w \in Workers : status[w] = "STOPPING" => stopping[w]

LEMMA AskedStep == TypeOK /\ AskedToStop /\ [Next]_vars => AskedToStop'
<1> SUFFICES ASSUME TypeOK, AskedToStop, [Next]_vars, NEW v \in Workers, status'[v] = "STOPPING"
             PROVE  stopping'[v]
  BY DEF AskedToStop
<1> USE DEF TypeOK, T!TypeOK, AskedToStop
<1>1. CASE \E w \in Workers : Worker(w)
  BY <1>1 DEF Worker, WorkerLoop, WorkerGets, WorkerSends, WorkerReceives, WorkerReturns, T!RunReturns, threadVars
<1>2. CASE InitClient \/ StartWorker \/ MarkWorker
  BY <1>2 DEF InitClient, StartWorker, MarkWorker, T!New, T!CreateThread, T!MarkRunning, MainAt, threadVars
<1>3. CASE StopWorker \/ JoinWorker \/ DeleteWorker \/ JoinDeletedWorker \/ FreeWorker
  BY <1>3 DEF StopWorker, JoinWorker, DeleteWorker, JoinDeletedWorker, FreeWorker, MainStops, MainAt,
              T!BeginStop, T!Join, T!Free, threadVars
<1>4. CASE UNCHANGED threadVars
  BY <1>4 DEF threadVars
<1>5. /\ UserEnds \/ Exited \/ UNCHANGED vars => UNCHANGED threadVars
      /\ \A pc, bound, next : MainLeavesLoop(pc, bound, next) => UNCHANGED threadVars
      /\ \A pc, resource, next : Release(pc, resource, next) => UNCHANGED threadVars
      /\ DestroyPayload \/ DestroyConnection \/ DestroyProtocol => UNCHANGED threadVars
  BY DEF UserEnds, Exited, vars, MainLeavesLoop, Release, DestroyPayload, DestroyConnection,
         DestroyProtocol
<1> QED BY <1>1, <1>2, <1>3, <1>4, <1>5 DEF Next, Main, Cleanup

\* The main thread never waits for a worker that does not exist, was joined
\* before or does not know that it should stop, whichever of the workers
\* started and whether or not the window was closed.
THEOREM JoinsEndHolds == Spec => []JoinsEnd
<1>1. Init => AskedToStop
  BY DEF Init, T!Init, AskedToStop
<1>2. IInv /\ AskedToStop /\ [Next]_vars => AskedToStop'
  BY AskedStep DEF IInv
<1>3. IInv /\ AskedToStop => JoinsEnd
  BY DEF IInv, MainCoherent, ThreadsCoherent, AskedToStop, JoinsEnd
<1> QED BY <1>1, <1>2, <1>3, Invariance, PTL DEF Spec
=============================================================================
