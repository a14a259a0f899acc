-------------------------- MODULE BasicServer_proofs --------------------------
(***************************************************************************)
(* Proofs about the basic server, for any number of listeners and clients: *)
(* the types, and, unless its window was closed while it was running, that *)
(* nothing is used after it was freed and nothing is left running.         *)
(***************************************************************************)
EXTENDS BasicServer, TLAPS

\* No operating system thread runs behind t: it has none, or it was joined.
Quiet(t) == os[t] \in {"none", "joined"}

\* What the fields of a thread object that is not being started say of the
\* thread behind it.
Settled(t) ==
  /\ status[t] \in {"ABSENT", "STOPPED"} => Quiet(t)
  /\ status[t] \in {"RUNNING", "STOPPING"} => os[t] \in {"live", "returned"}

\* The front of the deque that the main thread empties.
Front == Head(clients[cnt])

Deleting == {"delete", "del_stop", "del_join", "del_free", "del_pop", "base",
             "base_join", "base_free"}

BeforeStop == {"init", "start", "mark", "serve", "count"}

\* tmp_client of listener l holds an object.
Holds(l) == lpc[l] \in {"push", "pushing", "start", "mark"}

(***************************************************************************)
(* What holds also when the window is closed: the operands of Append and   *)
(* Head are there.                                                         *)
(***************************************************************************)
OperandsExist ==
  /\ main \in {"del_stop", "del_join", "del_free", "del_pop"} =>
       cnt \in Listeners /\ clients[cnt] # <<>>
  /\ \A l \in Listeners : Holds(l) => fresh[l] \in Clients
  /\ closed => WindowMayClose
  /\ main = "count" => Timer
  /\ main \in BeforeStop \cup {"stop", "join"} => ~closed

\* The listeners' threads, and where the main thread starts or stops one.
ListenersCoherent ==
  /\ \A l \in Listeners :
       /\ Settled(l)
       /\ status[l] = "UNDEFINED" => os[l] = "none" \/ (main = "mark" /\ cnt = l)
       /\ os[l] # "live" => lpc[l] \in {"idle", "done"}
  /\ main = "init" => \A l \in Listeners : status[l] = "ABSENT"
  /\ main = "mark" => /\ cnt \in Listeners /\ status[cnt] = "UNDEFINED"
                      /\ os[cnt] \in {"live", "returned"}
  /\ main \in {"join", "base_join"} => cnt \in Listeners /\ status[cnt] = "STOPPING"

\* StopServer leaves no listener's thread behind it, and DestroyServer no
\* listener.
ListenersStopped ==
  /\ main \in {"stop", "join"} => \A l \in Listeners : l < cnt => Quiet(l)
  /\ main \in Deleting => \A l \in Listeners : Quiet(l)
  /\ main \in Deleting => \A l \in Listeners : l < cnt => status[l] = "ABSENT"
  /\ Destroyed => \A l \in Listeners : status[l] = "ABSENT"

\* The clients' threads: one that is being started is in tmp_client.
ClientsCoherent ==
  /\ \A c \in Clients :
       /\ Settled(c)
       /\ status[c] = "UNDEFINED" =>
            os[c] = "none" \/ \E l \in Listeners : lpc[l] = "mark" /\ fresh[l] = c
       /\ c \in replies <=> status[c] # "ABSENT"
  /\ \A l \in Listeners : Holds(l) =>
       /\ status[fresh[l]] = "UNDEFINED"
       /\ lpc[l] # "mark" => os[fresh[l]] = "none"
       /\ lpc[l] = "mark" => os[fresh[l]] \in {"live", "returned"}
  /\ \A l, k \in Listeners : Holds(l) /\ Holds(k) /\ fresh[l] = fresh[k] => l = k

\* The main thread and the client it deletes.
FrontCoherent ==
  /\ main = "del_join" => status[Front] = "STOPPING"
  /\ main = "del_free" => Quiet(Front)
  /\ main = "del_pop" => status[Front] = "ABSENT"

\* Every client object is in one deque, or on its way into one.
Entering(l) == lpc[l] \in {"push", "pushing"}

EveryClientOwned ==
  \A c \in Clients : status[c] # "ABSENT" =>
    \/ \E l \in Listeners : c \in Members(l)
    \/ \E l \in Listeners : Entering(l) /\ fresh[l] = c

EnteringIsNew ==
  \A l, k \in Listeners : Entering(l) => fresh[l] \notin Members(k)

\* The deques are empty before the listeners run and after they were deleted.
DequesEmptied ==
  /\ main \in Deleting => \A l \in Listeners : l < cnt => clients[l] = <<>>
  /\ main \in {"base", "base_join", "base_free"} => clients[cnt] = <<>>
  /\ main = "init" \/ Destroyed => \A l \in Listeners : clients[l] = <<>>

LibrariesHeld == ~Destroyed => loaded = Resources

Orderly ==
  /\ ListenersCoherent /\ ListenersStopped
  /\ ClientsCoherent /\ FrontCoherent
  /\ EveryClientOwned /\ EnteringIsNew /\ DequesHoldObjects /\ DequesEmptied
  /\ LibrariesHeld

IInv == TypeOK /\ OperandsExist /\ (~closed => Orderly)

-----------------------------------------------------------------------------
(***************************************************************************)
(* Sequences                                                               *)
(***************************************************************************)
LEMMA AppendFacts ==
  ASSUME NEW S, NEW s \in Seq(S), NEW e \in S
  PROVE  /\ Append(s, e) \in Seq(S)
         /\ Len(Append(s, e)) = Len(s) + 1
         /\ \A i \in 1..Len(s) : Append(s, e)[i] = s[i]
         /\ Append(s, e)[Len(s) + 1] = e
  OBVIOUS

LEMMA FrontFacts ==
  ASSUME NEW S, NEW s \in Seq(S), s # <<>>
  PROVE  /\ Head(s) \in S /\ Head(s) = s[1] /\ Len(s) > 0
         /\ Tail(s) \in Seq(S) /\ Len(Tail(s)) = Len(s) - 1
         /\ \A i \in 1..Len(Tail(s)) : Tail(s)[i] = s[i + 1]
  OBVIOUS

-----------------------------------------------------------------------------
(***************************************************************************)
(* Types and operands, in every way the program may end                    *)
(***************************************************************************)
LEMMA InitTypes == Init => TypeOK /\ OperandsExist
<1> SUFFICES ASSUME Init PROVE TypeOK /\ OperandsExist
  OBVIOUS
<1>1. stopping \in [Threads -> BOOLEAN] /\ closed \in BOOLEAN
  BY ZenonT(30) DEF Init, T!Init
<1>2. TypeOK
  BY <1>1, ServerAssumption
  DEF Init, TypeOK, T!Init, T!TypeOK, T!Statuses, T!OSStates, MainPC, ListenerPC,
      ClientPC, Listeners
<1>3. OperandsExist
  BY DEF Init, OperandsExist, Holds, BeforeStop
<1> QED
  BY <1>2, <1>3

\* A client thread changes its own place, and may end; nothing else.
LEMMA ClientStep ==
  ASSUME NEW c \in Clients, TypeOK, Client(c)
  PROVE  /\ os[c] = "live"
         /\ os' = os \/ os' = [os EXCEPT ![c] = "returned"]
         /\ cpc' \in [Clients -> ClientPC]
         /\ UNCHANGED <<status, stopping, mainVars, listenerVars, clients, replies, loaded>>
  BY DEF Client, ClientLoop, ClientPoll, ClientRead, ClientReply, ClientSend,
         ClientRelease, ClientAt, ClientGoes, ClientReturns, ClientElsewhere,
         T!RunReturns, threadVars, TypeOK, ClientPC

\* The steps of a listener that construct, push and start nothing.
ListenerMoves(l) ==
  /\ os[l] = "live"
  /\ UNCHANGED <<status, stopping, mainVars, fresh, clients, clientVars, loaded>>
  /\ \/ /\ os' = [os EXCEPT ![l] = "returned"]
        /\ ~Holds(l)
        /\ lpc' = [lpc EXCEPT ![l] = "done"]
     \/ /\ os' = os
        /\ \E pc \in {"loop", "poll", "accept"} : lpc' = [lpc EXCEPT ![l] = pc]
        /\ ~Holds(l)
     \/ /\ os' = os
        /\ lpc[l] = "push" /\ lpc' = [lpc EXCEPT ![l] = "pushing"]

ListenerConstructs(l) ==
  /\ os[l] = "live" /\ lpc[l] = "accept"
  /\ \E c \in Clients :
       /\ T!New({c})
       /\ fresh' = [fresh EXCEPT ![l] = c]
       /\ replies' = replies \cup {c}
  /\ lpc' = [lpc EXCEPT ![l] = "push"]
  /\ UNCHANGED <<mainVars, clients, cpc, loaded>>

LEMMA ListenerStep ==
  ASSUME NEW l \in Listeners, TypeOK, Listener(l)
  PROVE  \/ ListenerMoves(l) \/ ListenerConstructs(l)
         \/ ListenerPushEnds(l) \/ ListenerStartsClient(l) \/ ListenerMarksClient(l)
<1>1. CASE ListenerLoop(l) \/ ListenerPoll(l) \/ ListenerPushBegins(l)
  BY <1>1 DEF ListenerLoop, ListenerPoll, ListenerPushBegins, ListenerAt,
     ListenerGoes, ListenerReturns, T!RunReturns, threadVars, ListenerMoves, Holds
<1>2. CASE ListenerAccept(l)
  BY <1>2 DEF ListenerAccept, ListenerAt, ListenerGoes, ListenerReturns,
     T!RunReturns, threadVars, clientVars, ListenerMoves, ListenerConstructs, Holds
<1> QED
  BY <1>1, <1>2 DEF Listener

LEMMA ListenerTypes ==
  ASSUME NEW l \in Listeners, TypeOK, OperandsExist, Listener(l)
  PROVE  TypeOK' /\ OperandsExist'
<1> USE DEF TypeOK, T!TypeOK, OperandsExist, mainVars, threadVars, clientVars
<1>1. CASE ListenerMoves(l)
  <2>1. TypeOK'
    BY <1>1 DEF ListenerMoves, ListenerPC, T!OSStates
  <2>2. OperandsExist'
    BY <1>1 DEF ListenerMoves, Holds
  <2> QED BY <2>1, <2>2
<1>2. CASE ListenerConstructs(l)
  <2>0. PICK c \in Clients : T!New({c}) /\ fresh' = [fresh EXCEPT ![l] = c]
                              /\ replies' = replies \cup {c}
    BY <1>2 DEF ListenerConstructs
  <2>1. TypeOK'
    <3>1. stopping' \in [Threads -> BOOLEAN]
      BY <2>0 DEF T!New
    <3> QED
      BY <1>2, <2>0, <3>1 DEF ListenerConstructs, T!New, ListenerPC, T!OSStates, T!Statuses
  <2>2. OperandsExist'
    BY <1>2, <2>0 DEF ListenerConstructs, Holds
  <2> QED BY <2>1, <2>2
<1>3. CASE ListenerPushEnds(l)
  <2> USE <1>3 DEF ListenerPushEnds, ListenerAt, ListenerGoes
  <2>0. fresh[l] \in Clients
    BY DEF Holds
  <2>1. clients' \in [Listeners -> Seq(Clients)] /\ clients'[l] # <<>>
    <3> DEFINE pushed == Append(clients[l], fresh[l])
    <3>1. pushed \in Seq(Clients) /\ Len(pushed) > 0
      <4>1. clients[l] \in Seq(Clients) /\ fresh[l] \in Clients
        BY <2>0
      <4> HIDE DEF pushed
      <4>2. pushed \in Seq(Clients) /\ Len(pushed) = Len(clients[l]) + 1
        BY <4>1, AppendFacts DEF pushed
      <4> QED
        BY <4>1, <4>2
    <3>2. clients' = [clients EXCEPT ![l] = pushed]
      OBVIOUS
    <3> HIDE DEF pushed
    <3>3. pushed # <<>>
      BY <3>1
    <3> QED
      BY <3>1, <3>2, <3>3
  <2>2. TypeOK'
    BY <2>1 DEF ListenerPC
  <2>3. OperandsExist'
    BY <2>1 DEF Holds
  <2> QED BY <2>2, <2>3
<1>4. CASE ListenerStartsClient(l)
  <2> USE <1>4 DEF ListenerStartsClient, ListenerAt, ListenerGoes, T!CreateThread
  <2>0. fresh[l] \in Clients
    BY DEF Holds
  <2>1. TypeOK'
    <3>1. os' \in [Threads -> T!OSStates] /\ UNCHANGED <<status, stopping>>
      BY <2>0 DEF T!OSStates
    <3>2. lpc' \in [Listeners -> ListenerPC]
      BY DEF ListenerPC
    <3>4. cpc' \in [Clients -> ClientPC]
      BY <2>0 DEF ClientPC
    <3>3. fresh' \in [Listeners -> Clients \cup {NoClient}]
      BY <2>0
    <3> QED
      BY <3>1, <3>2, <3>3, <3>4
  <2>2. OperandsExist'
    BY <2>0 DEF Holds
  <2> QED BY <2>1, <2>2
<1>5. CASE ListenerMarksClient(l)
  <2> USE <1>5 DEF ListenerMarksClient, ListenerAt, ListenerGoes, T!MarkRunning
  <2>0. fresh[l] \in Clients
    BY DEF Holds
  <2>1. TypeOK'
    BY <2>0 DEF ListenerPC, T!Statuses
  <2>2. OperandsExist'
    BY <2>0 DEF Holds
  <2> QED BY <2>1, <2>2
<1> QED
  BY <1>1, <1>2, <1>3, <1>4, <1>5, ListenerStep

LEMMA ClientTypes ==
  ASSUME NEW c \in Clients, TypeOK, OperandsExist, Client(c)
  PROVE  TypeOK' /\ OperandsExist'
  BY ClientStep DEF TypeOK, T!TypeOK, T!OSStates, OperandsExist, Holds,
                    mainVars, listenerVars

(***************************************************************************)
(* The steps of the main thread that leave every thread object alone.      *)
(***************************************************************************)
MainAlone ==
  \/ MainLeavesLoop("start", "serve") \/ CountClient \/ MainLeavesLoop("count", "serve")
  \/ MainLeavesLoop("stop", "delete") \/ DeleteFront
  \/ MainLeavesLoop("delete", "unload") \/ Unload \/ TimerFires \/ UserEnds

LEMMA AloneTypes ==
  ASSUME TypeOK, OperandsExist, MainAlone
  PROVE  TypeOK' /\ OperandsExist'
<1> USE DEF TypeOK, OperandsExist, mainVars, threadVars, clientVars, listenerVars, Holds
<1>0. NumListeners \in Nat /\ Listeners = 1..NumListeners
  BY ServerAssumption DEF Listeners
<1>1. ASSUME NEW pc, NEW next \in MainPC, MainLeavesLoop(pc, next),
             next \in {"serve", "delete", "unload"},
             next = "serve" => ~closed
      PROVE  TypeOK' /\ OperandsExist'
  <2>1. cnt' \in 1..(NumListeners + 1)
    BY <1>0, <1>1 DEF MainLeavesLoop
  <2> QED
    BY <1>1, <2>1 DEF MainLeavesLoop, T!TypeOK, BeforeStop
<1>2. CASE CountClient
  <2>1. cnt' \in 1..(NumListeners + 1) /\ idx' \in Nat
    BY <1>0, <1>2 DEF CountClient, MainAt
  <2> QED
    BY <1>2, <2>1 DEF CountClient, MainAt, MainElsewhere, T!TypeOK, BeforeStop
<1>3. CASE DeleteFront
  BY <1>3 DEF DeleteFront, MainAt, MainGoes, MainElsewhere, T!TypeOK, BeforeStop, MainPC
<1>4. CASE Unload
  BY <1>4 DEF Unload, Release, MainGoes, T!TypeOK, BeforeStop, MainPC
<1>5. CASE TimerFires
  <2>1. cnt' \in 1..(NumListeners + 1) /\ idx' \in Nat
    BY <1>0, <1>5 DEF TimerFires
  <2> QED
    BY <1>5, <2>1 DEF TimerFires, MainElsewhere, T!TypeOK, BeforeStop, MainPC
<1>6. CASE UserEnds
  <2>1. cnt' \in 1..(NumListeners + 1)
    BY <1>0, <1>6 DEF UserEnds
  <2>2. closed' \in BOOLEAN /\ (closed' => WindowMayClose)
    <3>1. closed' \in {FALSE, WindowMayClose} /\ WindowMayClose \in BOOLEAN
      BY <1>6, ServerAssumption DEF UserEnds
    <3>2. closed' = FALSE \/ closed' = WindowMayClose
      BY <3>1
    <3>3. CASE WindowMayClose = TRUE
      BY Zenon, <3>1, <3>2, <3>3
    <3>4. CASE WindowMayClose = FALSE
      BY Zenon, <3>1, <3>2, <3>4
    <3> QED
      BY Zenon, <3>1, <3>3, <3>4
  <2>3. main' \in {"stop", "delete"} /\ (main' = "stop" => ~closed')
    BY <1>6 DEF UserEnds
  <2> QED
    BY <1>6, <2>1, <2>2, <2>3 DEF UserEnds, MainElsewhere, T!TypeOK, BeforeStop, MainPC
<1> QED
  BY <1>1, <1>2, <1>3, <1>4, <1>5, <1>6
  DEF MainAlone, MainLeavesLoop, BeforeStop, MainPC

(***************************************************************************)
(* The steps of the main thread on a listener's object.                    *)
(***************************************************************************)
MainOnListener ==
  \/ InitServer \/ StartListener \/ MarkListener \/ StopListener \/ JoinListener
  \/ DestroyDeque \/ JoinDeletedListener \/ FreeListener

LEMMA OnListenerTypes ==
  ASSUME TypeOK, OperandsExist, MainOnListener
  PROVE  TypeOK' /\ OperandsExist'
<1> USE DEF TypeOK, OperandsExist, mainVars, threadVars, clientVars, listenerVars,
            MainElsewhere, Holds, MainAt, MainGoes, BeforeStop, MainPC
<1>0. NumListeners \in Nat /\ Listeners = 1..NumListeners /\ Listeners \subseteq Threads
  BY ServerAssumption DEF Listeners, Threads
<1> USE DEF T!TypeOK, T!Statuses, T!OSStates
<1>1. CASE InitServer
  <2>1. stopping' \in [Threads -> BOOLEAN]
    BY <1>1 DEF InitServer, T!New
  <2> QED
    BY <1>1, <2>1 DEF InitServer, T!New
<1>2. CASE StartListener
  <2>1. cnt' \in 1..(NumListeners + 1)
    BY <1>0, <1>2 DEF StartListener, MainNextAt
  <2>2. T!TypeOK'
    BY <1>0, <1>2 DEF StartListener, T!CreateThread
  <2>3. lpc' \in [Listeners -> ListenerPC]
    BY <1>2 DEF StartListener, ListenerGoes, ListenerPC
  <2> QED
    BY <1>2, <2>1, <2>2, <2>3 DEF StartListener, ListenerGoes, MainNextAt
<1>3. CASE MarkListener
  <2>1. cnt' \in 1..(NumListeners + 1)
    BY <1>0, <1>3 DEF MarkListener, MainNextAt
  <2> QED
    BY <1>0, <1>3, <2>1 DEF MarkListener, T!MarkRunning, MainNextAt
<1>4. CASE StopListener
  <2>1. cnt' \in 1..(NumListeners + 1)
    BY <1>0, <1>4 DEF StopListener, MainStops, MainNextAt
  <2>2. T!TypeOK'
    <3>1. stopping' \in [Threads -> BOOLEAN]
      BY <1>4 DEF StopListener, MainStops, T!BeginStop
    <3> QED
      BY <1>0, <1>4, <3>1 DEF StopListener, MainStops, T!BeginStop
  <2> QED
    BY <1>4, <2>1, <2>2 DEF StopListener, MainStops, MainNextAt
<1>5. CASE JoinListener
  <2>1. cnt' \in 1..(NumListeners + 1)
    BY <1>0, <1>5 DEF JoinListener, MainNextAt
  <2> QED
    BY <1>0, <1>5, <2>1 DEF JoinListener, T!Join, MainNextAt
<1>6. CASE DestroyDeque
  <2>1. T!TypeOK'
    <3>1. stopping' \in [Threads -> BOOLEAN]
      BY <1>6 DEF DestroyDeque, MainStops, T!BeginStop
    <3> QED
      BY <1>0, <1>6, <3>1 DEF DestroyDeque, MainStops, T!BeginStop
  <2>2. clients' \in [Listeners -> Seq(Clients)]
    BY <1>6 DEF DestroyDeque
  <2> QED
    BY <1>6, <2>1, <2>2 DEF DestroyDeque, MainStops
<1>7. CASE JoinDeletedListener
  BY <1>0, <1>7 DEF JoinDeletedListener, T!Join
<1>8. CASE FreeListener
  <2>1. cnt' \in 1..(NumListeners + 1)
    BY <1>0, <1>8 DEF FreeListener, MainNextAt
  <2> QED
    BY <1>0, <1>8, <2>1 DEF FreeListener, T!Free, MainNextAt
<1> QED
  BY <1>1, <1>2, <1>3, <1>4, <1>5, <1>6, <1>7, <1>8 DEF MainOnListener

(***************************************************************************)
(* The steps of the main thread on the client at the front of a deque.     *)
(***************************************************************************)
MainOnClient == StopClientThread \/ JoinClientThread \/ FreeClient \/ PopClient

LEMMA OnClientTypes ==
  ASSUME TypeOK, OperandsExist, MainOnClient
  PROVE  /\ TypeOK' /\ OperandsExist'
         /\ cnt \in Listeners /\ clients[cnt] # <<>> /\ Front \in Clients
<1> USE DEF TypeOK, OperandsExist, mainVars, threadVars, clientVars, listenerVars,
            MainElsewhere, Holds, MainAt, MainGoes, BeforeStop, MainPC
<1>0. /\ cnt \in Listeners /\ clients[cnt] # <<>>
      /\ Front \in Clients /\ Tail(clients[cnt]) \in Seq(Clients)
  <2>1. cnt \in Listeners /\ clients[cnt] # <<>> /\ clients[cnt] \in Seq(Clients)
    BY DEF MainOnClient, StopClientThread, JoinClientThread, FreeClient, PopClient
  <2> QED
    BY <2>1, FrontFacts DEF Front
<1>1. Clients \subseteq Threads
  BY DEF Threads
<1> USE DEF T!TypeOK, T!Statuses, T!OSStates
<1>2. CASE StopClientThread
  <2>1. stopping' \in [Threads -> BOOLEAN]
    BY <1>2 DEF StopClientThread, MainStops, T!BeginStop
  <2> QED
    BY <1>0, <1>1, <1>2, <2>1 DEF StopClientThread, MainStops, T!BeginStop
<1>3. CASE JoinClientThread
  BY <1>0, <1>1, <1>3 DEF JoinClientThread, T!Join
<1>4. CASE FreeClient
  BY <1>0, <1>1, <1>4 DEF FreeClient, T!Free
<1>5. CASE PopClient
  <2>1. clients' \in [Listeners -> Seq(Clients)]
    BY <1>0, <1>5 DEF PopClient
  <2> QED
    BY <1>0, <1>5, <2>1 DEF PopClient
<1> QED
  BY <1>0, <1>2, <1>3, <1>4, <1>5 DEF MainOnClient

LEMMA MainCases ==
  Main \/ TimerFires \/ UserEnds <=> MainAlone \/ MainOnListener \/ MainOnClient
  BY DEF Main, MainAlone, MainOnListener, MainOnClient

LEMMA TypesInductive ==
  ASSUME TypeOK, OperandsExist, [Next]_vars
  PROVE  TypeOK' /\ OperandsExist'
<1>1. CASE Main \/ TimerFires \/ UserEnds
  BY <1>1, MainCases, AloneTypes, OnListenerTypes, OnClientTypes
<1>2. CASE \E l \in Listeners : Listener(l)
  BY <1>2, ListenerTypes
<1>3. CASE \E c \in Clients : Client(c)
  BY <1>3, ClientTypes
<1>4. CASE UNCHANGED vars
  BY <1>4 DEF vars, mainVars, threadVars, listenerVars, clientVars, TypeOK, T!TypeOK,
              OperandsExist, Holds
<1> QED
  BY <1>1, <1>2, <1>3, <1>4 DEF Next, Exited, ClientSpins

-----------------------------------------------------------------------------
(***************************************************************************)
(* The order, while the window is open                                     *)
(***************************************************************************)
LEMMA InitOrderly == Init => Orderly
<1> SUFFICES ASSUME Init PROVE Orderly
  OBVIOUS
<1> USE DEF Init, T!Init
<1>1. Listeners \subseteq Threads /\ Clients \subseteq Threads
  BY DEF Threads
<1>2. ListenersCoherent /\ ListenersStopped
  BY <1>1 DEF ListenersCoherent, ListenersStopped, Settled, Quiet, Deleting, Destroyed
<1>3. ClientsCoherent /\ FrontCoherent
  BY <1>1 DEF ClientsCoherent, FrontCoherent, Settled, Quiet, Holds
<1>4. EveryClientOwned /\ EnteringIsNew /\ LibrariesHeld
  BY <1>1 DEF EveryClientOwned, EnteringIsNew, Entering, LibrariesHeld
<1>5. DequesHoldObjects /\ DequesEmptied
  BY DEF DequesHoldObjects, DequesEmptied, Deleting
<1> QED
  BY <1>2, <1>3, <1>4, <1>5 DEF Orderly

\* While a listener's thread runs, the main thread is not deleting.
LEMMA LiveListener ==
  ASSUME NEW l \in Listeners, Orderly, os[l] = "live"
  PROVE  /\ main \notin Deleting /\ ~Destroyed /\ main # "init"
         /\ main \in {"stop", "join"} => ~(l < cnt)
         /\ status[l] \notin {"ABSENT", "STOPPED"}
  BY DEF Orderly, ListenersCoherent, ListenersStopped, Settled, Quiet

\* While the main thread deletes a client, that client is in its deque.
LEMMA FrontIsClient ==
  ASSUME TypeOK, OperandsExist, main \in {"del_stop", "del_join", "del_free", "del_pop"}
  PROVE  /\ cnt \in Listeners /\ Front \in Clients
         /\ Len(clients[cnt]) > 0 /\ Front = clients[cnt][1]
<1>1. cnt \in Listeners /\ clients[cnt] \in Seq(Clients) /\ clients[cnt] # <<>>
  BY DEF TypeOK, OperandsExist
<1> QED
  BY <1>1, FrontFacts DEF Front

LEMMA ClientOrderly ==
  ASSUME NEW c \in Clients, TypeOK, OperandsExist, Orderly, Client(c)
  PROVE  Orderly'
<1> USE DEF mainVars, listenerVars
<1>0. /\ os[c] = "live" /\ os'[c] \in {"live", "returned"}
      /\ \A t \in Threads : t # c => os'[t] = os[t]
      /\ UNCHANGED <<status, stopping, main, closed, cnt, idx, lpc, fresh, clients, replies, loaded>>
      /\ Listeners \subseteq Threads /\ Clients \subseteq Threads /\ c \notin Listeners
  BY ClientStep, ServerAssumption DEF TypeOK, T!TypeOK, Threads
<1> USE <1>0
<1>1. ListenersCoherent' /\ ListenersStopped'
  BY DEF Orderly, ListenersCoherent, ListenersStopped, Settled, Quiet, Destroyed
<1>2. ClientsCoherent' /\ FrontCoherent'
  <2>1. ClientsCoherent'
    BY DEF Orderly, ClientsCoherent, Settled, Quiet, Holds, OperandsExist
  <2>2. FrontCoherent'
    BY FrontIsClient DEF Orderly, FrontCoherent, Quiet, Front
  <2> QED BY <2>1, <2>2
<1>3. EveryClientOwned' /\ EnteringIsNew' /\ LibrariesHeld' /\ DequesHoldObjects' /\ DequesEmptied'
  BY DEF Orderly, EveryClientOwned, EnteringIsNew, Entering, LibrariesHeld,
         DequesHoldObjects, DequesEmptied, Members, Destroyed
<1> QED
  BY <1>1, <1>2, <1>3 DEF Orderly

LEMMA MovesOrderly ==
  ASSUME NEW l \in Listeners, TypeOK, OperandsExist, Orderly, ListenerMoves(l)
  PROVE  Orderly'
<1> USE DEF mainVars, clientVars
<1>0. /\ os[l] = "live" /\ os'[l] \in {"live", "returned"}
      /\ \A t \in Threads : t # l => os'[t] = os[t]
      /\ \A k \in Listeners : k # l => lpc'[k] = lpc[k]
      /\ os'[l] # "live" => lpc'[l] = "done"
      /\ \A k \in Listeners : Holds(k)' = Holds(k)
      /\ \A k \in Listeners : Entering(k)' = Entering(k)
      /\ \A k \in Listeners : (lpc'[k] = "mark") = (lpc[k] = "mark")
      /\ UNCHANGED <<status, stopping, main, closed, cnt, idx, fresh, clients, replies, loaded>>
      /\ Listeners \subseteq Threads /\ Clients \subseteq Threads /\ l \notin Clients
  BY ServerAssumption DEF TypeOK, T!TypeOK, Threads, ListenerMoves, Holds, Entering
<1> USE <1>0, LiveListener
<1>1. ListenersCoherent' /\ ListenersStopped'
  BY DEF Orderly, ListenersCoherent, ListenersStopped, Settled, Quiet, Destroyed
<1>2. ClientsCoherent' /\ FrontCoherent'
  BY DEF Orderly, ClientsCoherent, FrontCoherent, Settled, Quiet, Front, OperandsExist, Deleting
<1>3. EveryClientOwned' /\ EnteringIsNew' /\ LibrariesHeld' /\ DequesHoldObjects' /\ DequesEmptied'
  BY DEF Orderly, EveryClientOwned, EnteringIsNew, LibrariesHeld,
         DequesHoldObjects, DequesEmptied, Members, Destroyed
<1> QED
  BY <1>1, <1>2, <1>3 DEF Orderly

LEMMA ConstructsOrderly ==
  ASSUME NEW l \in Listeners, TypeOK, OperandsExist, ~closed, Orderly, ListenerConstructs(l)
  PROVE  Orderly'
<1>0. PICK c \in Clients : T!New({c}) /\ fresh' = [fresh EXCEPT ![l] = c]
                            /\ replies' = replies \cup {c}
  BY DEF ListenerConstructs
<1>1. /\ status[c] = "ABSENT" /\ status'[c] = "UNDEFINED" /\ os'[c] = "none"
      /\ \A t \in Threads : t # c => os'[t] = os[t] /\ status'[t] = status[t]
      /\ Listeners \subseteq Threads /\ Clients \subseteq Threads
      /\ c \notin Listeners /\ l \notin Clients
      /\ UNCHANGED <<main, closed, cnt, idx, clients, loaded>>
  BY <1>0, ServerAssumption DEF TypeOK, T!TypeOK, Threads, ListenerConstructs, T!New, mainVars
<1>2. /\ os[l] = "live" /\ ~Holds(l) /\ Holds(l)' /\ Entering(l)' /\ fresh'[l] = c
      /\ lpc'[l] = "push"
      /\ \A k \in Listeners : k # l => lpc'[k] = lpc[k] /\ fresh'[k] = fresh[k]
  BY <1>0 DEF ListenerConstructs, TypeOK, Holds, Entering
<1>3. main \notin Deleting
  BY <1>2, LiveListener
<1>4. \A k \in Listeners : c \notin Members(k)
  <2> SUFFICES ASSUME NEW k \in Listeners, NEW i \in 1..Len(clients[k]), clients[k][i] = c
               PROVE  FALSE
    BY DEF Members
  <2> QED
    BY <1>1, <1>3 DEF Orderly, DequesHoldObjects, Deleting
<1>5. ListenersCoherent' /\ ListenersStopped'
  BY <1>1, <1>2, <1>3 DEF Orderly, ListenersCoherent, ListenersStopped, Settled, Quiet, Destroyed
<1>6. ClientsCoherent'
  <2>1. \A k \in Listeners : Holds(k) => fresh[k] # c /\ fresh[k] \in Clients
    BY <1>1 DEF Orderly, ClientsCoherent, OperandsExist
  <2>2. \A k \in Listeners : k # l => Holds(k)' = Holds(k)
    BY <1>2 DEF Holds
  <2>3. \A d \in Clients : Settled(d)' /\ (d \in replies' <=> status'[d] # "ABSENT")
    BY <1>0, <1>1 DEF Orderly, ClientsCoherent, Settled, Quiet
  <2>4. \A d \in Clients : status'[d] = "UNDEFINED" =>
           os'[d] = "none" \/ \E k \in Listeners : lpc'[k] = "mark" /\ fresh'[k] = d
    BY <1>1, <1>2 DEF Orderly, ClientsCoherent, Holds
  <2>5. \A k \in Listeners : Holds(k)' =>
         /\ status'[fresh'[k]] = "UNDEFINED"
         /\ lpc'[k] # "mark" => os'[fresh'[k]] = "none"
         /\ lpc'[k] = "mark" => os'[fresh'[k]] \in {"live", "returned"}
    BY <1>1, <1>2, <2>1, <2>2 DEF Orderly, ClientsCoherent
  <2>6. \A j, k \in Listeners : Holds(j)' /\ Holds(k)' /\ fresh'[j] = fresh'[k] => j = k
    BY <1>2, <2>1, <2>2 DEF Orderly, ClientsCoherent
  <2> QED
    BY <2>3, <2>4, <2>5, <2>6 DEF ClientsCoherent
<1>7. FrontCoherent' /\ LibrariesHeld' /\ DequesEmptied'
  BY <1>1, <1>3 DEF Orderly, FrontCoherent, LibrariesHeld, DequesEmptied, Deleting, Destroyed
<1>8. EveryClientOwned' /\ EnteringIsNew'
  <2>1. \A k \in Listeners : Members(k)' = Members(k)
    BY <1>1 DEF Members
  <2>2. \A k \in Listeners : k # l => Entering(k)' = Entering(k)
    BY <1>2 DEF Entering
  <2>3. ~Entering(l)
    BY <1>2 DEF Entering, Holds
  <2> QED
    BY <1>1, <1>2, <1>4, <2>1, <2>2, <2>3 DEF Orderly, EveryClientOwned, EnteringIsNew
<1>9. DequesHoldObjects'
  BY <1>1 DEF Orderly, DequesHoldObjects, TypeOK, T!TypeOK
<1> QED
  BY <1>5, <1>6, <1>7, <1>8, <1>9 DEF Orderly

LEMMA PushEndsOrderly ==
  ASSUME NEW l \in Listeners, TypeOK, OperandsExist, ~closed, Orderly, ListenerPushEnds(l)
  PROVE  Orderly'
<1> DEFINE c == fresh[l]
<1>0. /\ os[l] = "live" /\ lpc[l] = "pushing" /\ lpc'[l] = "start" /\ c \in Clients
      /\ clients' = [clients EXCEPT ![l] = Append(@, c)]
      /\ \A k \in Listeners : k # l => lpc'[k] = lpc[k]
      /\ UNCHANGED <<status, stopping, os, main, closed, cnt, idx, fresh, replies, loaded>>
  BY DEF ListenerPushEnds, ListenerAt, ListenerGoes, OperandsExist, Holds, TypeOK,
         threadVars, mainVars, clientVars
<1>1. /\ clients[l] \in Seq(Clients)
      /\ Len(clients'[l]) = Len(clients[l]) + 1
      /\ \A i \in 1..Len(clients[l]) : clients'[l][i] = clients[l][i]
      /\ clients'[l][Len(clients[l]) + 1] = c
      /\ \A k \in Listeners : k # l => clients'[k] = clients[k]
  <2>1. clients[l] \in Seq(Clients) /\ clients'[l] = Append(clients[l], c)
        /\ \A k \in Listeners : k # l => clients'[k] = clients[k]
    BY <1>0 DEF TypeOK
  <2> QED
    BY <1>0, <2>1, AppendFacts
<1>2. Members(l)' = Members(l) \cup {c} /\ \A k \in Listeners : k # l => Members(k)' = Members(k)
  <2>1. \A k \in Listeners : k # l => Members(k)' = Members(k)
    BY <1>1 DEF Members
  <2>2. Len(clients[l]) \in Nat
    BY <1>1
  <2>3. 1..Len(clients'[l]) = 1..Len(clients[l]) \cup {Len(clients[l]) + 1}
    BY <1>1, <2>2
  <2> QED
    BY <1>1, <2>1, <2>2, <2>3 DEF Members
<1>3. /\ Holds(l) /\ Entering(l) /\ Holds(l)' /\ ~Entering(l)'
      /\ \A k \in Listeners : Holds(k)' = Holds(k)
      /\ \A k \in Listeners : k # l => Entering(k)' = Entering(k)
      /\ \A k \in Listeners : Entering(k) => Holds(k)
  BY <1>0 DEF Holds, Entering
<1>4. main \notin Deleting /\ ~Destroyed /\ main # "init"
  BY <1>0, LiveListener
<1>5. status[c] = "UNDEFINED" /\ \A k \in Listeners : c \notin Members(k)
  BY <1>3 DEF Orderly, ClientsCoherent, EnteringIsNew
<1> HIDE DEF c
<1>6. ListenersCoherent' /\ ListenersStopped'
  BY <1>0 DEF Orderly, ListenersCoherent, ListenersStopped, Settled, Quiet, Destroyed
<1>7. ClientsCoherent'
  BY <1>0, <1>3 DEF Orderly, ClientsCoherent, Settled, Quiet
<1>8. FrontCoherent' /\ LibrariesHeld' /\ DequesEmptied'
  BY <1>0, <1>4 DEF Orderly, FrontCoherent, LibrariesHeld, DequesEmptied, Deleting, Destroyed
<1>9. EveryClientOwned'
  BY <1>0, <1>2, <1>3 DEF Orderly, EveryClientOwned, c
<1>10. EnteringIsNew'
  BY <1>0, <1>2, <1>3 DEF Orderly, EnteringIsNew, ClientsCoherent, c
<1>11. DequesHoldObjects'
  <2>1. \A k \in Listeners : \A i \in 1..Len(clients'[k]) :
          \/ i \in 1..Len(clients[k]) /\ clients'[k][i] = clients[k][i]
          \/ k = l /\ i = Len(clients[l]) + 1 /\ clients'[k][i] = c
    BY <1>1
  <2>2. \A k \in Listeners : \A i \in 1..Len(clients[k]) : clients[k][i] # c
    BY <1>5 DEF Members
  <2>3. \A k \in Listeners : \A i \in 1..Len(clients'[k]) : status[clients'[k][i]] # "ABSENT"
    BY <1>4, <1>5, <2>1 DEF Orderly, DequesHoldObjects, Deleting
  <2>4. \A j, k \in Listeners : \A i \in 1..Len(clients'[j]), m \in 1..Len(clients'[k]) :
          clients'[j][i] = clients'[k][m] => j = k /\ i = m
    <3> SUFFICES ASSUME NEW j \in Listeners, NEW k \in Listeners,
                        NEW i \in 1..Len(clients'[j]), NEW m \in 1..Len(clients'[k]),
                        clients'[j][i] = clients'[k][m]
                 PROVE  j = k /\ i = m
      OBVIOUS
    <3>1. CASE i \in 1..Len(clients[j]) /\ clients'[j][i] = clients[j][i]
      <4>1. m \in 1..Len(clients[k]) /\ clients'[k][m] = clients[k][m]
        BY <2>1, <2>2, <3>1
      <4>2. DequesHoldObjects
        BY DEF Orderly
      <4>3. clients[j][i] = clients[k][m] => j = k /\ i = m
        BY <3>1, <4>1, <4>2 DEF DequesHoldObjects
      <4> QED
        BY <3>1, <4>1, <4>3
    <3>2. CASE j = l /\ i = Len(clients[l]) + 1 /\ clients'[j][i] = c
      <4>1. k = l /\ m = Len(clients[l]) + 1
        BY <2>1, <2>2, <3>2
      <4> QED
        BY <3>2, <4>1
    <3> QED
      BY <2>1, <3>1, <3>2
  <2> QED
    BY <1>0, <2>3, <2>4 DEF DequesHoldObjects
<1> QED
  BY <1>6, <1>7, <1>8, <1>9, <1>10, <1>11 DEF Orderly

LEMMA StartsOrderly ==
  ASSUME NEW l \in Listeners, TypeOK, OperandsExist, ~closed, Orderly, ListenerStartsClient(l)
  PROVE  Orderly'
<1> DEFINE c == fresh[l]
<1>0. /\ os[l] = "live" /\ lpc[l] = "start" /\ Holds(l) /\ c \in Clients
      /\ l \notin Clients /\ c \notin Listeners
      /\ \A k \in Listeners : k # l => lpc'[k] = lpc[k] /\ fresh'[k] = fresh[k]
      /\ \A t \in Threads : t # c => os'[t] = os[t]
      /\ \/ os'[c] = "live" /\ lpc'[l] = "mark" /\ fresh'[l] = c
         \/ os'[c] = os[c] /\ lpc'[l] = "loop"
      /\ Listeners \subseteq Threads /\ Clients \subseteq Threads
      /\ UNCHANGED <<status, stopping, main, closed, cnt, idx, clients, replies, loaded>>
  BY ServerAssumption
  DEF ListenerStartsClient, ListenerAt, ListenerGoes, OperandsExist, Holds, TypeOK, T!TypeOK,
      T!CreateThread, Threads, threadVars, mainVars
<1>1. /\ \A k \in Listeners : k # l => Holds(k)' = Holds(k)
      /\ \A k \in Listeners : Entering(k)' = Entering(k)
      /\ \A k \in Listeners : Entering(k) => Holds(k) /\ k # l
      /\ Holds(l)' <=> lpc'[l] = "mark"
  BY <1>0 DEF Holds, Entering
<1>2. main \notin Deleting /\ ~Destroyed /\ main # "init"
  BY <1>0, LiveListener
<1>3. status[c] = "UNDEFINED" /\ os[c] = "none"
  BY <1>0 DEF Orderly, ClientsCoherent
<1>4. \A k \in Listeners : k # l /\ Holds(k) => fresh[k] # c /\ fresh[k] \in Clients
  BY <1>0 DEF Orderly, ClientsCoherent, OperandsExist
<1> HIDE DEF c
<1>5. ListenersCoherent' /\ ListenersStopped'
  BY <1>0 DEF Orderly, ListenersCoherent, ListenersStopped, Settled, Quiet, Destroyed
<1>6. ClientsCoherent'
  <2>1. \A d \in Clients : Settled(d)' /\ (d \in replies' <=> status'[d] # "ABSENT")
    BY <1>0, <1>3 DEF Orderly, ClientsCoherent, Settled, Quiet
  <2>2. \A d \in Clients : status'[d] = "UNDEFINED" =>
           os'[d] = "none" \/ \E k \in Listeners : lpc'[k] = "mark" /\ fresh'[k] = d
    BY <1>0, <1>3 DEF Orderly, ClientsCoherent
  <2>3. \A k \in Listeners : Holds(k)' =>
         /\ status'[fresh'[k]] = "UNDEFINED"
         /\ lpc'[k] # "mark" => os'[fresh'[k]] = "none"
         /\ lpc'[k] = "mark" => os'[fresh'[k]] \in {"live", "returned"}
    BY <1>0, <1>1, <1>3, <1>4 DEF Orderly, ClientsCoherent
  <2>4. \A j, k \in Listeners : Holds(j)' /\ Holds(k)' /\ fresh'[j] = fresh'[k] => j = k
    BY <1>0, <1>1, <1>4 DEF Orderly, ClientsCoherent
  <2> QED
    BY <2>1, <2>2, <2>3, <2>4 DEF ClientsCoherent
<1>7. FrontCoherent' /\ LibrariesHeld' /\ DequesEmptied' /\ DequesHoldObjects'
  BY <1>0, <1>2 DEF Orderly, FrontCoherent, LibrariesHeld, DequesEmptied, Deleting, Destroyed,
                    DequesHoldObjects
<1>8. EveryClientOwned' /\ EnteringIsNew'
  BY <1>0, <1>1 DEF Orderly, EveryClientOwned, EnteringIsNew, Members
<1> QED
  BY <1>5, <1>6, <1>7, <1>8 DEF Orderly

LEMMA MarksOrderly ==
  ASSUME NEW l \in Listeners, TypeOK, OperandsExist, ~closed, Orderly, ListenerMarksClient(l)
  PROVE  Orderly'
<1> DEFINE c == fresh[l]
<1>0. /\ os[l] = "live" /\ lpc[l] = "mark" /\ Holds(l) /\ c \in Clients
      /\ l \notin Clients /\ c \notin Listeners
      /\ \A k \in Listeners : k # l => lpc'[k] = lpc[k] /\ fresh'[k] = fresh[k]
      /\ \A t \in Threads : t # c => status'[t] = status[t]
      /\ status'[c] = "RUNNING" /\ lpc'[l] = "loop" /\ ~Holds(l)'
      /\ Listeners \subseteq Threads /\ Clients \subseteq Threads
      /\ UNCHANGED <<os, stopping, main, closed, cnt, idx, clients, replies, loaded>>
  BY ServerAssumption
  DEF ListenerMarksClient, ListenerAt, ListenerGoes, OperandsExist, Holds, TypeOK, T!TypeOK,
      T!MarkRunning, Threads, clientVars, mainVars
<1>1. /\ \A k \in Listeners : k # l => Holds(k)' = Holds(k)
      /\ \A k \in Listeners : Entering(k)' = Entering(k)
      /\ \A k \in Listeners : Entering(k) => Holds(k) /\ k # l
  BY <1>0 DEF Holds, Entering
<1>2. main \notin Deleting /\ ~Destroyed /\ main # "init"
  BY <1>0, LiveListener
<1>3. status[c] = "UNDEFINED" /\ os[c] \in {"live", "returned"}
  BY <1>0 DEF Orderly, ClientsCoherent
<1>4. \A k \in Listeners : k # l /\ Holds(k) => fresh[k] # c /\ fresh[k] \in Clients
  BY <1>0 DEF Orderly, ClientsCoherent, OperandsExist
<1> HIDE DEF c
<1>5. ListenersCoherent' /\ ListenersStopped'
  BY <1>0 DEF Orderly, ListenersCoherent, ListenersStopped, Settled, Quiet, Destroyed
<1>6. ClientsCoherent'
  <2>1. \A d \in Clients : Settled(d)' /\ (d \in replies' <=> status'[d] # "ABSENT")
    BY <1>0, <1>3 DEF Orderly, ClientsCoherent, Settled, Quiet
  <2>2. \A d \in Clients : status'[d] = "UNDEFINED" =>
           os'[d] = "none" \/ \E k \in Listeners : lpc'[k] = "mark" /\ fresh'[k] = d
    BY <1>0, <1>3 DEF Orderly, ClientsCoherent, c
  <2>3. \A k \in Listeners : Holds(k)' =>
         /\ status'[fresh'[k]] = "UNDEFINED"
         /\ lpc'[k] # "mark" => os'[fresh'[k]] = "none"
         /\ lpc'[k] = "mark" => os'[fresh'[k]] \in {"live", "returned"}
    BY <1>0, <1>1, <1>3, <1>4 DEF Orderly, ClientsCoherent
  <2>4. \A j, k \in Listeners : Holds(j)' /\ Holds(k)' /\ fresh'[j] = fresh'[k] => j = k
    BY <1>0, <1>1, <1>4 DEF Orderly, ClientsCoherent
  <2> QED
    BY <2>1, <2>2, <2>3, <2>4 DEF ClientsCoherent
<1>7. FrontCoherent' /\ LibrariesHeld' /\ DequesEmptied'
  BY <1>0, <1>2 DEF Orderly, FrontCoherent, LibrariesHeld, DequesEmptied, Deleting, Destroyed
<1>8. EveryClientOwned' /\ EnteringIsNew'
  <2>1. \A d \in Clients : (status'[d] # "ABSENT") = (status[d] # "ABSENT")
    BY <1>0, <1>3
  <2> QED
    BY <1>0, <1>1, <2>1 DEF Orderly, EveryClientOwned, EnteringIsNew, Members
<1>9. DequesHoldObjects'
  BY <1>0 DEF Orderly, DequesHoldObjects, TypeOK, T!TypeOK
<1> QED
  BY <1>5, <1>6, <1>7, <1>8, <1>9 DEF Orderly

LEMMA ListenerOrderly ==
  ASSUME NEW l \in Listeners, TypeOK, OperandsExist, ~closed, Orderly, Listener(l)
  PROVE  Orderly'
  BY ListenerStep, MovesOrderly, ConstructsOrderly, PushEndsOrderly, StartsOrderly, MarksOrderly

(***************************************************************************)
(* The steps of the main thread.                                           *)
(***************************************************************************)
LEMMA AloneOrderly ==
  ASSUME TypeOK, OperandsExist, ~closed, ~closed', Orderly, MainAlone
  PROVE  Orderly'
<1> USE DEF MainElsewhere, threadVars, listenerVars, clientVars, MainAt, MainGoes
<1>0. /\ UNCHANGED <<status, stopping, os, lpc, fresh, clients, cpc, replies>>
      /\ main' \notin {"init", "mark", "join", "base_join", "base_free", "del_join", "del_free", "del_pop"}
      /\ main \notin {"del_pop", "init", "mark"}
  BY DEF MainAlone, MainLeavesLoop, CountClient, DeleteFront, Unload, Release, TimerFires, UserEnds
<1>1. NumListeners \in Nat /\ Listeners = 1..NumListeners /\ cnt \in 1..(NumListeners + 1)
      /\ (cnt \notin Listeners => \A l \in Listeners : l < cnt)
  BY ServerAssumption DEF Listeners, TypeOK
<1>2. ClientsCoherent' /\ FrontCoherent' /\ EveryClientOwned' /\ EnteringIsNew'
  BY <1>0 DEF Orderly, ClientsCoherent, FrontCoherent, EveryClientOwned, EnteringIsNew,
              Settled, Quiet, Holds, Entering, Members
<1>3. ListenersCoherent'
  BY <1>0 DEF Orderly, ListenersCoherent, Settled, Quiet
<1>4. DequesHoldObjects'
  BY <1>0 DEF Orderly, DequesHoldObjects
<1>5. ListenersStopped' /\ DequesEmptied' /\ LibrariesHeld'
  <2>0. Orderly => ListenersStopped /\ DequesEmptied /\ LibrariesHeld
    BY DEF Orderly
  <2> USE <1>0, <1>1, <2>0 DEF ListenersStopped, DequesEmptied, LibrariesHeld, Quiet, Deleting, Destroyed
  <2>1. CASE MainLeavesLoop("start", "serve") \/ CountClient \/ MainLeavesLoop("count", "serve")
             \/ TimerFires
    BY <2>1 DEF MainLeavesLoop, CountClient, TimerFires
  <2>2. CASE MainLeavesLoop("stop", "delete")
    BY <2>2 DEF MainLeavesLoop
  <2>3. CASE DeleteFront
    BY <2>3 DEF DeleteFront
  <2>4. CASE MainLeavesLoop("delete", "unload")
    BY <2>4 DEF MainLeavesLoop
  <2>5. CASE Unload
    BY <2>5 DEF Unload, Release
  <2>6. CASE UserEnds
    <3>1. main = "serve" /\ main' = "stop" /\ cnt' = 1 /\ loaded' = loaded
      BY <2>6 DEF UserEnds
    <3> QED
      BY <3>1
  <2> QED
    BY <2>1, <2>2, <2>3, <2>4, <2>5, <2>6 DEF MainAlone
<1> QED
  BY <1>2, <1>3, <1>4, <1>5 DEF Orderly

\* A step of the main thread on listener l leaves the clients' part alone.
LEMMA ClientsUndisturbed ==
  ASSUME TypeOK, OperandsExist, Orderly,
         \A c \in Clients : status'[c] = status[c] /\ os'[c] = os[c],
         UNCHANGED <<fresh, clients, replies>>,
         \A k \in Listeners : lpc'[k] = lpc[k] \/ {lpc[k], lpc'[k]} \subseteq {"idle", "loop", "done"},
         ~closed
  PROVE  /\ ClientsCoherent' /\ EveryClientOwned' /\ EnteringIsNew'
         /\ main # "del_pop" => DequesHoldObjects'
<1>1. /\ \A k \in Listeners : Holds(k)' = Holds(k) /\ Entering(k)' = Entering(k)
      /\ \A k \in Listeners : (lpc'[k] = "mark") = (lpc[k] = "mark")
      /\ \A k \in Listeners : Holds(k) => fresh[k] \in Clients
      /\ \A k \in Listeners : Members(k)' = Members(k)
  BY DEF Holds, Entering, OperandsExist, Members
<1>2. ClientsCoherent'
  BY <1>1 DEF Orderly, ClientsCoherent, Settled, Quiet
<1>3. EveryClientOwned' /\ EnteringIsNew'
  BY <1>1 DEF Orderly, EveryClientOwned, EnteringIsNew
<1>4. ASSUME main # "del_pop" PROVE DequesHoldObjects'
  <2>1. \A k \in Listeners : \A i \in 1..Len(clients[k]) : clients[k][i] \in Clients
    BY DEF TypeOK
  <2> QED
    BY <1>4, <2>1 DEF Orderly, DequesHoldObjects
<1> QED
  BY <1>2, <1>3, <1>4

LEMMA OnListenerOrderly ==
  ASSUME TypeOK, OperandsExist, ~closed, Orderly, MainOnListener
  PROVE  Orderly'
<1> USE DEF MainElsewhere, threadVars, listenerVars, clientVars, MainAt, MainGoes
<1>0. /\ NumListeners \in Nat /\ Listeners = 1..NumListeners /\ cnt \in 1..(NumListeners + 1)
      /\ Listeners \subseteq Threads /\ Clients \subseteq Threads /\ Listeners \cap Clients = {}
      /\ closed' = closed
  BY ServerAssumption DEF Listeners, TypeOK, Threads, MainOnListener, InitServer, StartListener,
     MarkListener, StopListener, JoinListener, DestroyDeque, JoinDeletedListener, FreeListener,
     MainStops, MainNextAt
<1> USE <1>0 DEF TypeOK, T!TypeOK
<1>1. CASE InitServer
  <2> USE <1>1 DEF InitServer
  <2>1. \A t \in Threads : t \notin Listeners => status'[t] = status[t] /\ os'[t] = os[t]
    BY DEF T!New
  <2>2. /\ ClientsCoherent' /\ EveryClientOwned' /\ EnteringIsNew' /\ DequesHoldObjects'
    BY <2>1, ClientsUndisturbed
  <2>3. ListenersCoherent'
    BY DEF T!New, Orderly, ListenersCoherent, Settled, Quiet
  <2>4. ListenersStopped' /\ DequesEmptied' /\ LibrariesHeld' /\ FrontCoherent'
    BY DEF T!New, Orderly, ListenersCoherent, ListenersStopped, DequesEmptied, LibrariesHeld,
           FrontCoherent, Quiet, Deleting, Destroyed
  <2> QED
    BY <2>2, <2>3, <2>4 DEF Orderly
<1>2. CASE StartListener
  <2> USE <1>2 DEF StartListener
  <2>1. /\ main = "start" /\ main' \in {"start", "mark"} /\ cnt \in Listeners
        /\ \A t \in Threads : t # cnt => os'[t] = os[t]
        /\ \A k \in Listeners : k # cnt => lpc'[k] = lpc[k]
        /\ UNCHANGED <<status, fresh, clients, clientVars, loaded>>
        /\ \/ /\ status[cnt] = "UNDEFINED" /\ os'[cnt] = "live" /\ lpc'[cnt] = "loop"
              /\ main' = "mark" /\ cnt' = cnt
           \/ /\ UNCHANGED <<os, lpc>> /\ main' = "start"
    BY DEF T!CreateThread, ListenerGoes, MainNextAt
  <2>2. os'[cnt] = os[cnt] \/ os[cnt] = "none"
    BY <2>1 DEF Orderly, ListenersCoherent
  <2>3. \A k \in Listeners : lpc'[k] = lpc[k] \/ {lpc[k], lpc'[k]} \subseteq {"idle", "loop", "done"}
    BY <2>1, <2>2 DEF Orderly, ListenersCoherent
  <2>4. ListenersCoherent'
    BY <2>1 DEF Orderly, ListenersCoherent, Settled, Quiet
  <2>5. ClientsCoherent' /\ EveryClientOwned' /\ EnteringIsNew' /\ DequesHoldObjects'
    BY <2>1, <2>3, ClientsUndisturbed
  <2>6. ListenersStopped' /\ DequesEmptied' /\ LibrariesHeld' /\ FrontCoherent'
    BY <2>1 DEF Orderly, ListenersStopped, DequesEmptied, LibrariesHeld, FrontCoherent,
           Deleting, Destroyed
  <2> QED
    BY <2>4, <2>5, <2>6 DEF Orderly
<1>3. CASE MarkListener
  <2>1. /\ main = "mark" /\ main' = "start" /\ cnt \in Listeners
        /\ \A t \in Threads : t # cnt => status'[t] = status[t]
        /\ status'[cnt] = "RUNNING"
        /\ UNCHANGED <<os, lpc, fresh, clients, replies, loaded>>
    BY <1>3 DEF MarkListener, T!MarkRunning, MainNextAt
  <2>2. ListenersCoherent'
    BY <2>1 DEF Orderly, ListenersCoherent, Settled, Quiet
  <2>3. ClientsCoherent' /\ EveryClientOwned' /\ EnteringIsNew' /\ DequesHoldObjects'
    BY <2>1, ClientsUndisturbed
  <2>4. ListenersStopped' /\ DequesEmptied' /\ LibrariesHeld' /\ FrontCoherent'
    BY <2>1 DEF Orderly, ListenersStopped, DequesEmptied, LibrariesHeld, FrontCoherent,
           Deleting, Destroyed
  <2> QED
    BY <2>2, <2>3, <2>4 DEF Orderly
<1>4. CASE StopListener
  <2> USE <1>4 DEF StopListener, MainStops
  <2>1. /\ main = "stop" /\ main' \in {"stop", "join"} /\ cnt \in Listeners
        /\ \A t \in Threads : t # cnt => status'[t] = status[t]
        /\ UNCHANGED <<os, lpc, fresh, clients, replies, loaded>>
        /\ \/ /\ status[cnt] \in {"RUNNING", "STOPPING"} /\ status'[cnt] = "STOPPING"
              /\ main' = "join" /\ cnt' = cnt
           \/ /\ status[cnt] \notin {"RUNNING", "STOPPING"} /\ status' = status
              /\ main' = "stop" /\ cnt' = cnt + 1
    BY DEF T!Stoppable, T!BeginStop, MainNextAt
  <2>2. ListenersCoherent'
    BY <2>1 DEF Orderly, ListenersCoherent, Settled, Quiet
  <2>3. ClientsCoherent' /\ EveryClientOwned' /\ EnteringIsNew' /\ DequesHoldObjects'
    BY <2>1, ClientsUndisturbed
  <2>4. ListenersStopped'
    <3>1. status[cnt] \notin {"RUNNING", "STOPPING"} => Quiet(cnt)
      BY <2>1 DEF Orderly, ListenersCoherent, Settled, T!Statuses, Quiet
    <3>2. \A l \in Listeners : l < cnt' => l < cnt \/ (l = cnt /\ cnt' = cnt + 1)
      BY <2>1
    <3>3. \A l \in Listeners : l < cnt => Quiet(l)
      BY <2>1 DEF Orderly, ListenersStopped
    <3>4. main' \notin Deleting /\ ~Destroyed'
      BY <2>1 DEF Deleting, Destroyed
    <3>5. \A l \in Listeners : l < cnt' => Quiet(l)'
      BY <2>1, <3>1, <3>2, <3>3 DEF Quiet
    <3> QED
      BY <3>4, <3>5 DEF ListenersStopped
  <2>5. DequesEmptied' /\ LibrariesHeld' /\ FrontCoherent'
    BY <2>1 DEF Orderly, DequesEmptied, LibrariesHeld, FrontCoherent, Deleting, Destroyed
  <2> QED
    BY <2>2, <2>3, <2>4, <2>5 DEF Orderly
<1>5. CASE JoinListener
  <2>1. /\ main = "join" /\ main' = "stop" /\ cnt \in Listeners /\ cnt' = cnt + 1
        /\ \A t \in Threads : t # cnt => status'[t] = status[t] /\ os'[t] = os[t]
        /\ status'[cnt] = "STOPPED" /\ os[cnt] = "returned" /\ os'[cnt] = "joined"
        /\ UNCHANGED <<lpc, fresh, clients, replies, loaded>>
    BY <1>5 DEF JoinListener, T!Join, MainNextAt
  <2>2. ListenersCoherent'
    BY <2>1 DEF Orderly, ListenersCoherent, Settled, Quiet
  <2>3. ClientsCoherent' /\ EveryClientOwned' /\ EnteringIsNew' /\ DequesHoldObjects'
    BY <2>1, ClientsUndisturbed
  <2>4. ListenersStopped' /\ DequesEmptied' /\ LibrariesHeld' /\ FrontCoherent'
    BY <2>1 DEF Orderly, ListenersStopped, DequesEmptied, LibrariesHeld, FrontCoherent,
           Deleting, Destroyed, Quiet
  <2> QED
    BY <2>2, <2>3, <2>4 DEF Orderly
<1>6. CASE DestroyDeque
  <2> USE <1>6 DEF DestroyDeque, MainStops
  <2>1. /\ main = "base" /\ cnt \in Listeners /\ clients[cnt] = <<>> /\ clients' = clients
        /\ Quiet(cnt)
    BY DEF Orderly, DequesEmptied, ListenersStopped, Deleting
  <2>2. /\ ~T!Stoppable(cnt) /\ main' = "base_free" /\ cnt' = cnt
        /\ UNCHANGED <<status, os, lpc, fresh, clients, replies, loaded>>
    BY <2>1 DEF Orderly, ListenersCoherent, Settled, Quiet, T!Stoppable
  <2>3. ListenersCoherent'
    BY <2>1, <2>2 DEF Orderly, ListenersCoherent, Settled, Quiet
  <2>4. ClientsCoherent' /\ EveryClientOwned' /\ EnteringIsNew' /\ DequesHoldObjects'
    BY <2>1, <2>2, ClientsUndisturbed
  <2>5. ListenersStopped' /\ DequesEmptied' /\ LibrariesHeld' /\ FrontCoherent'
    BY <2>1, <2>2 DEF Orderly, ListenersStopped, DequesEmptied, LibrariesHeld, FrontCoherent,
           Deleting, Destroyed, Quiet
  <2> QED
    BY <2>3, <2>4, <2>5 DEF Orderly
<1>7. CASE JoinDeletedListener
  BY <1>7 DEF JoinDeletedListener, T!Join, Orderly, ListenersStopped, Deleting, Quiet
<1>8. CASE FreeListener
  <2>1. /\ main = "base_free" /\ main' = "delete" /\ cnt \in Listeners /\ cnt' = cnt + 1
        /\ \A t \in Threads : t # cnt => status'[t] = status[t]
        /\ status'[cnt] = "ABSENT"
        /\ UNCHANGED <<os, lpc, fresh, clients, replies, loaded>>
    BY <1>8 DEF FreeListener, T!Free, MainNextAt
  <2>2. ListenersCoherent'
    BY <2>1 DEF Orderly, ListenersCoherent, ListenersStopped, Settled, Quiet, Deleting
  <2>3. ClientsCoherent' /\ EveryClientOwned' /\ EnteringIsNew' /\ DequesHoldObjects'
    BY <2>1, ClientsUndisturbed
  <2>4. \A l \in Listeners : l < cnt' => l < cnt \/ l = cnt
    BY <2>1
  <2>5. ListenersStopped'
    BY <2>1, <2>4 DEF Orderly, ListenersStopped, Deleting, Destroyed, Quiet
  <2>6. DequesEmptied' /\ LibrariesHeld' /\ FrontCoherent'
    BY <2>1, <2>4 DEF Orderly, DequesEmptied, LibrariesHeld, FrontCoherent, Deleting, Destroyed
  <2> QED
    BY <2>2, <2>3, <2>5, <2>6 DEF Orderly
<1> QED
  BY <1>1, <1>2, <1>3, <1>4, <1>5, <1>6, <1>7, <1>8 DEF MainOnListener

\* While a client is deleted, no listener holds one in tmp_client.
LEMMA DeletingHoldsNone ==
  ASSUME Orderly, main \in Deleting
  PROVE  \A l \in Listeners : ~Holds(l) /\ ~Entering(l)
  BY DEF Orderly, ListenersCoherent, ListenersStopped, Quiet, Holds, Entering

LEMMA OnClientOrderly ==
  ASSUME TypeOK, OperandsExist, ~closed, Orderly, MainOnClient
  PROVE  Orderly'
<1> USE DEF MainElsewhere, threadVars, listenerVars, clientVars, MainAt, MainGoes
<1>0. /\ main \in {"del_stop", "del_join", "del_free", "del_pop"}
      /\ main \in Deleting /\ main \notin {"base", "base_join", "base_free"} /\ ~Destroyed
      /\ cnt \in Listeners /\ Front \in Clients /\ Len(clients[cnt]) > 0
      /\ Front = clients[cnt][1] /\ clients[cnt] \in Seq(Clients)
      /\ \A l \in Listeners : ~Holds(l) /\ ~Entering(l)
      /\ Listeners \subseteq Threads /\ Clients \subseteq Threads /\ Front \notin Listeners
      /\ UNCHANGED <<lpc, fresh, closed, cnt, loaded>>
  <2>1. main \in {"del_stop", "del_join", "del_free", "del_pop"}
        /\ UNCHANGED <<lpc, fresh, closed, cnt, loaded>>
    BY DEF MainOnClient, StopClientThread, JoinClientThread, FreeClient, PopClient, MainStops
  <2> QED
    BY <2>1, FrontIsClient, DeletingHoldsNone, ServerAssumption
    DEF Deleting, Destroyed, Threads, TypeOK
<1> USE <1>0 DEF TypeOK, T!TypeOK
<1>1. \A l \in Listeners : Holds(l)' = Holds(l) /\ Entering(l)' = Entering(l)
  BY DEF Holds, Entering
<1>2. ASSUME \A l \in Listeners : status'[l] = status[l] /\ os'[l] = os[l],
             main' \in {"del_join", "del_free", "del_pop", "delete"}
      PROVE  ListenersCoherent' /\ ListenersStopped' /\ LibrariesHeld'
  BY <1>2 DEF Orderly, ListenersCoherent, ListenersStopped, LibrariesHeld, Settled, Quiet,
              Deleting, Destroyed
<1>3. ASSUME UNCHANGED clients, main' \in {"del_join", "del_free", "del_pop"}
      PROVE  DequesEmptied' /\ EnteringIsNew' /\ (\A l \in Listeners : Members(l)' = Members(l))
             /\ Front' = Front
  BY <1>1, <1>3 DEF Orderly, DequesEmptied, EnteringIsNew, Deleting, Destroyed, Members, Front
<1>4. CASE StopClientThread
  <2>1. /\ main = "del_stop"
        /\ \A t \in Threads : t # Front => status'[t] = status[t]
        /\ UNCHANGED <<os, clients, replies>>
        /\ \/ /\ status[Front] \in {"RUNNING", "STOPPING"} /\ status'[Front] = "STOPPING"
              /\ main' = "del_join"
           \/ /\ status[Front] \notin {"RUNNING", "STOPPING"} /\ status' = status
              /\ main' = "del_free"
    BY <1>4 DEF StopClientThread, MainStops, T!Stoppable, T!BeginStop, Front
  <2>2. status[Front] \notin {"RUNNING", "STOPPING"} => Quiet(Front)
    BY DEF Orderly, ClientsCoherent, Settled, T!Statuses, Quiet, Holds
  <2>3. ClientsCoherent'
    BY <2>1, <1>1 DEF Orderly, ClientsCoherent, Settled, Quiet
  <2>4. FrontCoherent'
    BY <2>1, <2>2, <1>3 DEF FrontCoherent, Quiet
  <2>5. EveryClientOwned' /\ DequesHoldObjects'
    <3>1. \A d \in Clients : status'[d] = "ABSENT" <=> status[d] = "ABSENT"
      BY <2>1
    <3>2. \A l \in Listeners : \A i \in 1..Len(clients[l]) : clients[l][i] \in Clients
      OBVIOUS
    <3>3. EveryClientOwned'
      BY <3>1, <1>1, <1>3, <2>1 DEF Orderly, EveryClientOwned
    <3>4. DequesHoldObjects'
      <4>1. clients' = clients /\ closed' = closed /\ main # "del_pop"
        BY <2>1
      <4>2. \A l \in Listeners : \A i \in 1..Len(clients[l]) : status'[clients[l][i]] # "ABSENT"
        BY <3>1, <3>2, <4>1 DEF Orderly, DequesHoldObjects
      <4>3. \A l, k \in Listeners : \A i \in 1..Len(clients[l]), j \in 1..Len(clients[k]) :
              clients[l][i] = clients[k][j] => l = k /\ i = j
        BY DEF Orderly, DequesHoldObjects
      <4> QED
        BY <4>1, <4>2, <4>3 DEF DequesHoldObjects
    <3> QED
      BY <3>3, <3>4
  <2> QED
    BY <2>1, <2>3, <2>4, <2>5, <1>2, <1>3 DEF Orderly
<1>5. CASE JoinClientThread
  <2>1. /\ main = "del_join" /\ main' = "del_free"
        /\ \A t \in Threads : t # Front => status'[t] = status[t] /\ os'[t] = os[t]
        /\ status'[Front] = "STOPPED" /\ os'[Front] = "joined"
        /\ UNCHANGED <<clients, replies>>
    BY <1>5 DEF JoinClientThread, T!Join, Front
  <2>2. status[Front] = "STOPPING"
    BY <2>1 DEF Orderly, FrontCoherent
  <2>3. ClientsCoherent'
    BY <2>1, <2>2, <1>1 DEF Orderly, ClientsCoherent, Settled, Quiet
  <2>4. FrontCoherent'
    BY <2>1, <1>3 DEF FrontCoherent, Quiet
  <2>5. EveryClientOwned' /\ DequesHoldObjects'
    <3>1. \A d \in Clients : status'[d] = "ABSENT" <=> status[d] = "ABSENT"
      BY <2>1, <2>2
    <3>2. \A l \in Listeners : \A i \in 1..Len(clients[l]) : clients[l][i] \in Clients
      OBVIOUS
    <3>3. EveryClientOwned'
      BY <3>1, <1>1, <1>3, <2>1 DEF Orderly, EveryClientOwned
    <3>4. DequesHoldObjects'
      <4>1. clients' = clients /\ closed' = closed /\ main # "del_pop"
        BY <2>1
      <4>2. \A l \in Listeners : \A i \in 1..Len(clients[l]) : status'[clients[l][i]] # "ABSENT"
        BY <3>1, <3>2, <4>1 DEF Orderly, DequesHoldObjects
      <4>3. \A l, k \in Listeners : \A i \in 1..Len(clients[l]), j \in 1..Len(clients[k]) :
              clients[l][i] = clients[k][j] => l = k /\ i = j
        BY DEF Orderly, DequesHoldObjects
      <4> QED
        BY <4>1, <4>2, <4>3 DEF DequesHoldObjects
    <3> QED
      BY <3>3, <3>4
  <2> QED
    BY <2>1, <2>3, <2>4, <2>5, <1>2, <1>3 DEF Orderly
<1>6. CASE FreeClient
  <2>1. /\ main = "del_free" /\ main' = "del_pop"
        /\ \A t \in Threads : t # Front => status'[t] = status[t]
        /\ status'[Front] = "ABSENT" /\ replies' = replies \ {Front}
        /\ UNCHANGED <<os, clients>>
    BY <1>6 DEF FreeClient, T!Free, Front
  <2>2. Quiet(Front)
    BY <2>1 DEF Orderly, FrontCoherent
  <2>3. ClientsCoherent'
    BY <2>1, <2>2, <1>1 DEF Orderly, ClientsCoherent, Settled, Quiet
  <2>4. FrontCoherent'
    BY <2>1, <1>3 DEF FrontCoherent, Quiet
  <2>5. EveryClientOwned'
    BY <2>1, <1>1, <1>3 DEF Orderly, EveryClientOwned
  <2>6. DequesHoldObjects'
    <3>1. DequesHoldObjects
      BY DEF Orderly
    <3>2. ASSUME NEW l \in Listeners, NEW i \in 1..Len(clients[l]),
                 status'[clients[l][i]] = "ABSENT"
          PROVE  l = cnt /\ i = 1
      <4>1. clients[l][i] \in Clients /\ 1 \in 1..Len(clients[cnt])
        OBVIOUS
      <4>2. clients[l][i] = Front
        BY <2>1, <3>1, <3>2, <4>1 DEF DequesHoldObjects
      <4> QED
        BY <3>1, <4>1, <4>2 DEF DequesHoldObjects
    <3> QED
      BY <2>1, <3>1, <3>2 DEF DequesHoldObjects
  <2> QED
    BY <2>1, <2>3, <2>4, <2>5, <2>6, <1>2, <1>3 DEF Orderly
<1>7. CASE PopClient
  <2>1. /\ main = "del_pop" /\ main' = "delete" /\ status[Front] = "ABSENT"
        /\ UNCHANGED <<status, os, replies>>
        /\ clients' = [clients EXCEPT ![cnt] = Tail(clients[cnt])]
    BY <1>7 DEF PopClient, Orderly, FrontCoherent
  <2>2. /\ Len(clients'[cnt]) = Len(clients[cnt]) - 1 /\ Len(clients[cnt]) \in Nat
        /\ \A i \in 1..Len(clients'[cnt]) : clients'[cnt][i] = clients[cnt][i + 1]
        /\ \A k \in Listeners : k # cnt => clients'[k] = clients[k]
    <3>1. clients[cnt] \in Seq(Clients) /\ clients[cnt] # <<>>
          /\ clients'[cnt] = Tail(clients[cnt])
      BY <2>1 DEF OperandsExist
    <3>2. \A k \in Listeners : k # cnt => clients'[k] = clients[k]
      BY <2>1
    <3> QED
      BY <3>1, <3>2, FrontFacts
  <2>3. ClientsCoherent' /\ FrontCoherent' /\ EnteringIsNew'
    BY <2>1, <1>1 DEF Orderly, ClientsCoherent, FrontCoherent, EnteringIsNew, Settled, Quiet
  <2>4. EveryClientOwned'
    <3>1. ASSUME NEW c \in Clients, status[c] # "ABSENT"
          PROVE  \E k \in Listeners : c \in Members(k)'
      <4>0. PICK k \in Listeners : c \in Members(k)
        BY <3>1 DEF Orderly, EveryClientOwned
      <4>1. PICK i \in 1..Len(clients[k]) : clients[k][i] = c
        BY <4>0 DEF Members
      <4>2. CASE k # cnt
        BY <2>2, <4>1, <4>2 DEF Members
      <4>3. CASE k = cnt
        <5>1. i - 1 \in 1..Len(clients'[cnt]) /\ (i - 1) + 1 = i
          BY <2>1, <2>2, <3>1, <4>1, <4>3
        <5>2. clients'[cnt][i - 1] = c
          BY <2>2, <4>1, <4>3, <5>1
        <5> QED
          BY <4>3, <5>1, <5>2 DEF Members
      <4> QED BY <4>2, <4>3
    <3> QED
      BY <2>1, <3>1 DEF EveryClientOwned
  <2>5. DequesHoldObjects'
    <3>0. DequesHoldObjects
      BY DEF Orderly
    <3> DEFINE old(k, i) == IF k = cnt THEN i + 1 ELSE i
    <3>1. ASSUME NEW k \in Listeners, NEW i \in 1..Len(clients'[k])
          PROVE  /\ old(k, i) \in 1..Len(clients[k]) /\ clients'[k][i] = clients[k][old(k, i)]
                 /\ k = cnt => old(k, i) # 1
      <4>1. CASE k = cnt
        BY <2>2, <4>1
      <4>2. CASE k # cnt
        BY <2>2, <4>2
      <4> QED BY <4>1, <4>2
    <3>2. ASSUME NEW k \in Listeners, NEW i \in 1..Len(clients'[k]), NEW j \in 1..Len(clients'[k]),
                 old(k, i) = old(k, j)
          PROVE  i = j
      BY <3>2
    <3> HIDE DEF old
    <3>3. \A k \in Listeners : \A i \in 1..Len(clients'[k]) : status[clients'[k][i]] # "ABSENT"
      BY <3>0, <3>1 DEF DequesHoldObjects
    <3>4. ASSUME NEW j \in Listeners, NEW k \in Listeners, NEW i \in 1..Len(clients'[j]),
                 NEW m \in 1..Len(clients'[k]), clients'[j][i] = clients'[k][m]
          PROVE  j = k /\ i = m
      <4>1. clients[j][old(j, i)] = clients[k][old(k, m)]
        BY <3>1, <3>4
      <4>2. old(j, i) \in 1..Len(clients[j]) /\ old(k, m) \in 1..Len(clients[k])
        BY <3>1
      <4>3. j = k /\ old(j, i) = old(k, m)
        BY <3>0, <4>1, <4>2 DEF DequesHoldObjects
      <4> QED
        BY <3>2, <4>3
    <3>5. \A l \in Listeners : \A i \in 1..Len(clients'[l]) : status'[clients'[l][i]] # "ABSENT"
      BY <2>1, <3>3
    <3> QED
      BY <3>4, <3>5 DEF DequesHoldObjects
  <2>6. DequesEmptied'
    BY <2>1, <2>2 DEF Orderly, DequesEmptied, Deleting, Destroyed
  <2> QED
    BY <2>1, <2>3, <2>4, <2>5, <2>6, <1>2 DEF Orderly
<1> QED
  BY <1>4, <1>5, <1>6, <1>7 DEF MainOnClient

-----------------------------------------------------------------------------
(***************************************************************************)
(* The theorems                                                            *)
(***************************************************************************)
LEMMA InvInductive == IInv /\ [Next]_vars => IInv'
<1> SUFFICES ASSUME IInv, [Next]_vars PROVE IInv'
  OBVIOUS
<1>1. TypeOK' /\ OperandsExist'
  BY TypesInductive DEF IInv
<1>2. ASSUME ~closed' PROVE ~closed
  <2>1. CASE UserEnds
    BY <2>1 DEF UserEnds, IInv, OperandsExist, BeforeStop
  <2>2. CASE UNCHANGED closed
    BY Zenon, <2>2, <1>2
  <2>3. UserEnds \/ UNCHANGED closed
    BY ClientStep, ListenerStep, MainCases
    DEF Next, vars, Exited, ClientSpins, IInv, mainVars, MainAlone, MainOnListener, MainOnClient,
        MainLeavesLoop, CountClient, DeleteFront, Unload, Release, TimerFires,
        InitServer, StartListener, MarkListener, StopListener, JoinListener, DestroyDeque,
        JoinDeletedListener, FreeListener, StopClientThread, JoinClientThread, FreeClient,
        PopClient, MainStops, MainGoes, MainNextAt,
        ListenerMoves, ListenerConstructs, ListenerPushEnds, ListenerStartsClient,
        ListenerMarksClient
  <2> QED
    BY <2>1, <2>2, <2>3
<1>3. ASSUME ~closed', ~closed PROVE Orderly'
  <2> USE <1>3 DEF IInv
  <2>1. CASE Main \/ TimerFires \/ UserEnds
    BY <2>1, MainCases, AloneOrderly, OnListenerOrderly, OnClientOrderly
  <2>2. CASE \E l \in Listeners : Listener(l)
    BY <2>2, ListenerOrderly
  <2>3. CASE \E c \in Clients : Client(c)
    BY <2>3, ClientOrderly
  <2>4. CASE UNCHANGED vars
    BY <2>4 DEF vars, mainVars, threadVars, listenerVars, clientVars, Orderly, ListenersCoherent,
       ListenersStopped, ClientsCoherent, FrontCoherent, EveryClientOwned, EnteringIsNew,
       DequesHoldObjects, DequesEmptied, LibrariesHeld, Settled, Quiet, Holds, Entering, Front,
       Members, Destroyed
  <2> QED
    BY <2>1, <2>2, <2>3, <2>4 DEF Next, Exited, ClientSpins
<1> QED
  BY <1>1, <1>2, <1>3 DEF IInv

THEOREM Invariance == Spec => []IInv
<1>1. Init => IInv
  BY InitTypes, InitOrderly DEF IInv
<1> QED
  BY <1>1, InvInductive, PTL DEF Spec

\* Every variable keeps its type, and cnt its bounds, whatever the numbers of
\* listeners and clients are, and also when the window is closed.
THEOREM TypeCorrect == Spec => []TypeOK
<1>1. IInv => TypeOK
  BY DEF IInv
<1> QED
  BY Invariance, <1>1, PTL

\* Stop, join, delete, unload: the order of StopServer, ~server_listener,
\* ~server_client and cleanup is enough for every thread to find its object,
\* its reply handle and the libraries as long as it executes.
THEOREM NoUseAfterFreeHolds == Spec => []NoUseAfterFree
<1>1. IInv => NoUseAfterFree
  <2> SUFFICES ASSUME IInv, ~closed, NEW t \in Threads, os[t] = "live"
               PROVE  status[t] # "ABSENT" /\ loaded = Resources /\ (t \in Clients => t \in replies)
    BY DEF NoUseAfterFree
  <2> USE DEF IInv
  <2>1. CASE t \in Listeners
    BY <2>1, LiveListener, ServerAssumption DEF Orderly, LibrariesHeld
  <2>2. CASE t \in Clients
    <3>1. status[t] # "ABSENT" /\ t \in replies
      BY <2>2 DEF Orderly, ClientsCoherent, Settled, Quiet
    <3>2. ~Destroyed
      <4> SUFFICES ASSUME Destroyed PROVE FALSE
        OBVIOUS
      <4>1. \A l \in Listeners : Members(l) = {}
        BY DEF Orderly, DequesEmptied, Members
      <4>2. \A l \in Listeners : ~Entering(l)
        BY DEF Orderly, ListenersStopped, ListenersCoherent, Settled, Quiet, Entering
      <4> QED
        BY <2>2, <3>1, <4>1, <4>2 DEF Orderly, EveryClientOwned
    <3> QED
      BY <3>1, <3>2 DEF Orderly, LibrariesHeld
  <2> QED
    BY <2>1, <2>2 DEF Threads
<1> QED
  BY Invariance, <1>1, PTL

\* However pushing, deleting and popping interleave with the clients, a deque
\* never holds a deleted client but the one at the front that is popped next,
\* and no client is in two places.
THEOREM DequesHoldObjectsHolds == Spec => []DequesHoldObjects
<1>1. IInv => DequesHoldObjects
  BY DEF IInv, Orderly, DequesHoldObjects
<1> QED
  BY Invariance, <1>1, PTL

\* DestroyServer leaves no thread running and no object behind: not even the
\* client that a listener was constructing when it was asked to stop.
THEOREM DestroyServerStopsAllHolds == Spec => []DestroyServerStopsAll
<1>1. IInv => DestroyServerStopsAll
  <2> SUFFICES ASSUME IInv, ~closed, Destroyed PROVE NothingRuns
    BY DEF DestroyServerStopsAll
  <2> USE DEF IInv
  <2>1. \A l \in Listeners : status[l] = "ABSENT" /\ os[l] # "live"
    BY DEF Orderly, ListenersStopped, ListenersCoherent, Settled, Quiet
  <2>2. \A l \in Listeners : Members(l) = {} /\ ~Entering(l)
    BY <2>1 DEF Orderly, DequesEmptied, Members, ListenersCoherent, Entering
  <2>3. \A c \in Clients : status[c] = "ABSENT" /\ os[c] # "live" /\ c \notin replies
    BY <2>2 DEF Orderly, EveryClientOwned, ClientsCoherent, Settled, Quiet
  <2> QED
    BY <2>1, <2>3 DEF NothingRuns, Threads, TypeOK
<1> QED
  BY Invariance, <1>1, PTL

\* Where no timer counts the traffic and no window can be closed (the command
\* line program), the main thread and a listener never use a deque together.
THEOREM NoDequeRaceHolds == ~Timer /\ ~WindowMayClose => (Spec => []NoDequeRace)
<1> SUFFICES ASSUME ~Timer, ~WindowMayClose PROVE Spec => []NoDequeRace
  OBVIOUS
<1>1. IInv => NoDequeRace
  <2> SUFFICES ASSUME IInv, NEW l \in Listeners, lpc[l] = "pushing", MainUsesDeque(l)
               PROVE  FALSE
    BY DEF NoDequeRace
  <2>1. ~closed /\ main # "count"
    BY DEF IInv, OperandsExist
  <2>2. os[l] = "live"
    BY <2>1 DEF IInv, Orderly, ListenersCoherent
  <2> QED
    BY <2>1, <2>2, LiveListener DEF IInv, MainUsesDeque, Deleting
<1> QED
  BY Invariance, <1>1, PTL

\* StopServer ends the accepting: no step adds a client to a listener that it
\* has stopped, constructs one for it or starts one.
THEOREM StoppedListenerAcceptsNoneHolds == Spec => StoppedListenerAcceptsNone
<1> DEFINE A == \A l \in Listeners : ListenerStopped(l) =>
                  Len(clients'[l]) <= Len(clients[l]) /\ fresh'[l] = fresh[l]
<1>1. IInv /\ [Next]_vars => [A]_vars
  <2> SUFFICES ASSUME IInv, Next, NEW l \in Listeners, ListenerStopped(l)
               PROVE  Len(clients'[l]) <= Len(clients[l]) /\ fresh'[l] = fresh[l]
    BY DEF vars
  <2> USE DEF IInv
  <2>1. os[l] # "live"
    BY LiveListener DEF ListenerStopped, OperandsExist, Deleting
  <2>2. clients[l] \in Seq(Clients) /\ Len(clients[l]) \in Nat
    BY DEF TypeOK
  <2>3. CASE UNCHANGED <<clients, fresh>>
    BY <2>2, <2>3
  <2>4. ASSUME NEW k \in Listeners, Listener(k) PROVE clients'[l] = clients[l] /\ fresh'[l] = fresh[l]
    <3>1. k # l
      BY <2>1, <2>4, ListenerStep
      DEF ListenerMoves, ListenerConstructs, ListenerPushEnds, ListenerStartsClient,
          ListenerMarksClient, ListenerAt
    <3> QED
      BY <2>4, <3>1, ListenerStep
      DEF TypeOK, ListenerMoves, ListenerConstructs, ListenerPushEnds, ListenerStartsClient,
          ListenerMarksClient
  <2>5. CASE PopClient
    <3>1. cnt \in Listeners /\ clients[cnt] # <<>> /\ UNCHANGED fresh
          /\ clients' = [clients EXCEPT ![cnt] = Tail(clients[cnt])]
      BY <2>5, OnClientTypes DEF MainOnClient, PopClient, listenerVars
    <3>2. CASE l = cnt
      BY <3>1, <3>2, <2>2, FrontFacts DEF TypeOK
    <3>3. CASE l # cnt
      BY <3>1, <3>3, <2>2 DEF TypeOK
    <3> QED BY <3>2, <3>3
  <2>6. CASE DestroyDeque
    <3>1. UNCHANGED fresh /\ clients' = [clients EXCEPT ![cnt] = <<>>]
      BY <2>6 DEF DestroyDeque, listenerVars
    <3>2. clients'[l] = <<>> \/ clients'[l] = clients[l]
      BY <3>1 DEF TypeOK
    <3> QED BY <2>2, <3>1, <3>2
  <2>7. Main \/ TimerFires \/ UserEnds => PopClient \/ DestroyDeque \/ UNCHANGED <<clients, fresh>>
    BY DEF Main, InitServer, StartListener, MarkListener, MainLeavesLoop, CountClient, StopListener,
           JoinListener, DeleteFront, StopClientThread, JoinClientThread, FreeClient,
           JoinDeletedListener, FreeListener, Unload, Release, TimerFires, UserEnds,
           MainElsewhere, listenerVars
  <2>8. ASSUME NEW c \in Clients, Client(c) PROVE UNCHANGED <<clients, fresh>>
    BY <2>8, ClientStep DEF listenerVars
  <2> QED
    BY <2>2, <2>3, <2>4, <2>5, <2>6, <2>7, <2>8 DEF Next, Exited, ClientSpins, vars, listenerVars
<1> QED
  BY Invariance, <1>1, PTL DEF Spec, StoppedListenerAcceptsNone

\* A step of the server is a step of ThreadLife, or changes no life.
LEMMA LifeStep == IInv /\ ~closed /\ [Next]_vars => [Life!Next]_lives
<1> SUFFICES ASSUME IInv, ~closed, [Next]_vars PROVE Life!Next \/ UNCHANGED lives
  OBVIOUS
<1> USE DEF IInv, TypeOK, T!TypeOK, Orderly
<1>0. /\ Listeners \subseteq Threads /\ Clients \subseteq Threads
      /\ \A t \in Threads : status[t] = "UNDEFINED" /\ os[t] = "none" => lives[t] = "fresh"
      /\ \A t \in Threads : Settled(t)
  BY DEF Threads, lives, ListenersCoherent, ClientsCoherent
<1>1. CASE UNCHANGED <<status, os>>
  BY <1>1 DEF lives
<1>2. ASSUME NEW t \in Threads, os[t] = "live", UNCHANGED status,
             os' = os \/ os' = [os EXCEPT ![t] = "returned"]
      PROVE  Life!Next \/ UNCHANGED lives
  <2>0. status[t] # "ABSENT"
    BY <1>0, <1>2 DEF Settled, Quiet
  <2>1. os' # os => lives[t] = "running" /\ lives' = [lives EXCEPT ![t] = "finished"]
    BY <1>2, <2>0 DEF lives
  <2> QED
    BY <1>2, <2>1, <1>1 DEF Life!Next, Life!Finish
<1>3. ASSUME NEW S \in SUBSET Threads, T!New(S) PROVE Life!Next \/ UNCHANGED lives
  <2>1. /\ \A t \in S : lives[t] = "absent"
        /\ lives' = [t \in Threads |-> IF t \in S THEN "fresh" ELSE lives[t]]
    BY <1>3 DEF T!New, lives
  <2>2. CASE S = {}
    BY <2>1, <2>2 DEF lives
  <2>3. CASE S # {}
    BY <2>1, <2>3 DEF Life!Next, Life!Construct
  <2> QED BY <2>2, <2>3
<1>4. ASSUME NEW t \in Threads, T!CreateThread(t), os[t] = "none" PROVE Life!Next
  <2>1. lives[t] = "fresh" /\ lives' = [lives EXCEPT ![t] = "running"]
    BY <1>0, <1>4 DEF T!CreateThread, lives
  <2> QED BY <2>1 DEF Life!Next, Life!Execute
<1>5. ASSUME NEW t \in Threads, NEW s \in {"RUNNING", "STOPPING", "STOPPED"},
             status' = [status EXCEPT ![t] = s], status[t] # "ABSENT",
             os' = os \/ (os[t] = "returned" /\ os' = [os EXCEPT ![t] = "joined"])
      PROVE  UNCHANGED lives
  BY <1>5 DEF lives
<1>6. ASSUME NEW t \in Threads, T!Free(t), Quiet(t) PROVE Life!Next \/ UNCHANGED lives
  <2>1. /\ lives[t] \in {"absent", "fresh", "finished"}
        /\ lives' = [lives EXCEPT ![t] = "absent"]
        /\ lives \in [Threads -> {"absent", "fresh", "running", "finished"}]
    BY <1>6 DEF T!Free, Quiet, lives
  <2> QED
    BY <2>1 DEF Life!Next, Life!Destroy
<1>7. ASSUME NEW c \in Clients, Client(c) PROVE Life!Next \/ UNCHANGED lives
  BY <1>7, <1>0, <1>2, ClientStep
<1>8. ASSUME NEW l \in Listeners, Listener(l) PROVE Life!Next \/ UNCHANGED lives
  <2>1. CASE ListenerMoves(l)
    BY <2>1, <1>0, <1>2 DEF ListenerMoves
  <2>2. CASE ListenerConstructs(l)
    BY <2>2, <1>0, <1>3 DEF ListenerConstructs
  <2>3. CASE ListenerPushEnds(l)
    BY <2>3, <1>1 DEF ListenerPushEnds, threadVars
  <2>4. CASE ListenerStartsClient(l)
    <3>1. fresh[l] \in Clients /\ os[fresh[l]] = "none"
      BY <2>4 DEF ListenerStartsClient, ListenerAt, Holds, OperandsExist, ClientsCoherent
    <3> QED
      BY <2>4, <3>1, <1>0, <1>1, <1>4 DEF ListenerStartsClient, threadVars
  <2>5. CASE ListenerMarksClient(l)
    <3>1. fresh[l] \in Clients /\ status[fresh[l]] = "UNDEFINED" /\ T!MarkRunning(fresh[l])
      BY <2>5 DEF ListenerMarksClient, ListenerAt, Holds, OperandsExist, ClientsCoherent
    <3> QED
      BY <3>1, <1>0, <1>5 DEF T!MarkRunning
  <2> QED
    BY <1>8, <2>1, <2>2, <2>3, <2>4, <2>5, ListenerStep
<1>9. CASE MainAlone
  BY <1>9, <1>1 DEF MainAlone, MainLeavesLoop, CountClient, DeleteFront, Unload, Release,
                    TimerFires, UserEnds, threadVars
<1>10. CASE MainOnListener
  <2>1. cnt \in Listeners \/ InitServer
    BY <1>10 DEF MainOnListener, StartListener, MarkListener, StopListener, JoinListener,
                DestroyDeque, JoinDeletedListener, FreeListener, MainAt
  <2>2. CASE InitServer
    BY <2>2, <1>0, <1>1, <1>3 DEF InitServer, threadVars
  <2>3. CASE StartListener
    BY <2>3, <1>0, <1>1, <1>4 DEF StartListener, MainAt, ListenersCoherent, T!CreateThread, threadVars
  <2>4. CASE MarkListener
    <3>1. cnt \in Listeners /\ status[cnt] = "UNDEFINED" /\ T!MarkRunning(cnt)
      BY <2>4 DEF MarkListener, MainAt, ListenersCoherent
    <3> QED
      BY <3>1, <1>0, <1>5 DEF T!MarkRunning
  <2>5. CASE StopListener \/ DestroyDeque
    <3>1. cnt \in Listeners /\ (UNCHANGED threadVars \/ (T!Stoppable(cnt) /\ T!BeginStop(cnt)))
      BY <2>5 DEF StopListener, DestroyDeque, MainStops, MainAt
    <3> QED
      BY <3>1, <1>0, <1>1, <1>5 DEF T!Stoppable, T!BeginStop, threadVars
  <2>6. CASE JoinListener \/ JoinDeletedListener
    <3>1. cnt \in Listeners /\ status[cnt] = "STOPPING" /\ T!Join(cnt)
      BY <2>6 DEF JoinListener, JoinDeletedListener, MainAt, ListenersCoherent
    <3> QED
      BY <3>1, <1>0, <1>5 DEF T!Join
  <2>7. CASE FreeListener
    BY <2>7, <1>0, <1>6 DEF FreeListener, MainAt, ListenersStopped, Deleting
  <2> QED
    BY <1>10, <2>2, <2>3, <2>4, <2>5, <2>6, <2>7 DEF MainOnListener
<1>11. CASE MainOnClient
  <2>0. Front \in Clients
    BY <1>11, OnClientTypes
  <2>1. CASE StopClientThread
    <3>1. UNCHANGED threadVars \/ (T!Stoppable(Front) /\ T!BeginStop(Front))
      BY <2>1 DEF StopClientThread, MainStops, Front
    <3> QED
      BY <2>0, <3>1, <1>0, <1>1, <1>5 DEF T!Stoppable, T!BeginStop, threadVars
  <2>2. CASE JoinClientThread
    <3>1. status[Front] = "STOPPING" /\ T!Join(Front)
      BY <2>2 DEF JoinClientThread, MainAt, FrontCoherent, Front
    <3> QED
      BY <2>0, <3>1, <1>0, <1>5 DEF T!Join
  <2>3. CASE FreeClient
    <3>1. Quiet(Front) /\ T!Free(Front)
      BY <2>3 DEF FreeClient, MainAt, FrontCoherent, Front
    <3> QED
      BY <2>0, <3>1, <1>0, <1>6
  <2>4. CASE PopClient
    BY <2>4, <1>1 DEF PopClient, threadVars
  <2> QED
    BY <1>11, <2>1, <2>2, <2>3, <2>4 DEF MainOnClient
<1> QED
  BY <1>1, <1>7, <1>8, <1>9, <1>10, <1>11, MainCases
  DEF Next, Exited, ClientSpins, vars, threadVars

\* The server implements ThreadLife unless its window is closed: every Run()
\* is executed at most once, and no object is deleted while it is.
THEOREM ThreadsLiveOnceHolds == ~WindowMayClose => (Spec => ThreadsLiveOnce)
<1> SUFFICES ASSUME ~WindowMayClose PROVE Spec => ThreadsLiveOnce
  OBVIOUS
<1>1. Init => Life!Init
  BY DEF Init, T!Init, Life!Init, lives
<1>2. IInv /\ [Next]_vars => [Life!Next]_lives
  BY LifeStep DEF IInv, OperandsExist
<1> QED
  BY <1>1, <1>2, Invariance, PTL DEF Spec, ThreadsLiveOnce, Life!Spec

-----------------------------------------------------------------------------
(***************************************************************************)
(* What ServerEnds rests on.                                               *)
(***************************************************************************)
\* Whoever pthread_join waits for exists, has not been joined before, and was
\* asked to stop.
Joined == IF main = "del_join" THEN Front ELSE cnt

JoinsEnd ==
  ~closed /\ main \in {"join", "del_join", "base_join"} =>
    os[Joined] \in {"live", "returned"} /\ stopping[Joined]

AskedToStop == \A t \in Threads : status[t] = "STOPPING" => stopping[t]

\* Stop() of one thread; no other step but the constructor sets stopping.
LEMMA AskedByStop ==
  ASSUME TypeOK, AskedToStop,
         \/ UNCHANGED threadVars
         \/ \E S \in SUBSET Threads : T!New(S)
         \/ \E t \in Threads : \/ T!CreateThread(t) \/ T!MarkRunning(t) \/ T!RunReturns(t)
                              \/ T!BeginStop(t) \/ T!Join(t) \/ T!Free(t)
  PROVE  AskedToStop'
BY DEF TypeOK, T!TypeOK, AskedToStop, threadVars, T!New, T!CreateThread, T!MarkRunning, T!RunReturns,
       T!BeginStop, T!Join, T!Free

LEMMA AskedStep == IInv /\ AskedToStop /\ [Next]_vars => AskedToStop'
<1> SUFFICES ASSUME IInv, AskedToStop, [Next]_vars PROVE AskedToStop'
  OBVIOUS
<1> DEFINE Moves == \E t \in Threads : \/ T!CreateThread(t) \/ T!MarkRunning(t) \/ T!RunReturns(t)
                                     \/ T!BeginStop(t) \/ T!Join(t) \/ T!Free(t)
<1>0. Listeners \subseteq Threads /\ Clients \subseteq Threads
  BY DEF Threads
<1>1. ASSUME NEW l \in Listeners, Listener(l)
      PROVE  UNCHANGED threadVars \/ Moves \/ \E S \in SUBSET Threads : T!New(S)
  <2>1. ASSUME NEW c \in Clients PROVE {c} \in SUBSET Threads
    BY <1>0
  <2>2. Holds(l) => fresh[l] \in Threads
    BY <1>0 DEF IInv, OperandsExist
  <2> QED
    BY <1>0, <1>1, <2>1, <2>2, Zenon
    DEF Listener, ListenerLoop, ListenerPoll, ListenerAccept, ListenerPushBegins, ListenerPushEnds,
        ListenerStartsClient, ListenerMarksClient, ListenerReturns, ListenerAt, Holds
<1>2. ASSUME NEW c \in Clients, Client(c) \/ ClientSpins(c)
      PROVE  UNCHANGED threadVars \/ Moves
  BY <1>0, <1>2 DEF Client, ClientSpins, ClientLoop, ClientPoll, ClientRead, ClientReply, ClientSend,
                    ClientRelease, ClientReturns, vars
<1>3. ASSUME Main \/ TimerFires \/ UserEnds \/ Exited \/ UNCHANGED vars
      PROVE  UNCHANGED threadVars \/ Moves \/ \E S \in SUBSET Threads : T!New(S)
  <2>1. CASE InitServer
    BY <1>0, <2>1 DEF InitServer
  <2>2. CASE StartListener \/ MarkListener \/ StopListener \/ JoinListener
             \/ DestroyDeque \/ JoinDeletedListener \/ FreeListener
    <3>1. cnt \in Threads
      BY <1>0, <2>2 DEF StartListener, MarkListener, StopListener, JoinListener, DestroyDeque,
                        JoinDeletedListener, FreeListener, MainAt
    <3> QED BY <2>2, <3>1 DEF StartListener, MarkListener, StopListener, JoinListener, DestroyDeque,
                              JoinDeletedListener, FreeListener, MainStops
  <2>3. CASE MainOnClient
    <3>1. PopClient => UNCHANGED threadVars
      BY DEF PopClient
    <3>2. ~PopClient => Front \in Threads
      <4>1. ~PopClient => main \in {"del_stop", "del_join", "del_free"}
        BY <2>3 DEF MainOnClient, StopClientThread, JoinClientThread, FreeClient, MainAt
      <4> QED BY <1>0, <4>1, FrontIsClient DEF IInv
    <3> QED BY <2>3, <3>1, <3>2 DEF MainOnClient, StopClientThread, JoinClientThread, FreeClient,
                                    MainStops, Front
  <2>4. /\ TimerFires \/ UserEnds \/ Exited \/ UNCHANGED vars => UNCHANGED threadVars
        /\ \A pc, next : MainLeavesLoop(pc, next) => UNCHANGED threadVars
        /\ CountClient \/ DeleteFront \/ Unload => UNCHANGED threadVars
    BY DEF TimerFires, UserEnds, Exited, vars, MainLeavesLoop, CountClient, DeleteFront, Unload, Release
  <2> QED BY <1>3, <2>1, <2>2, <2>3, <2>4 DEF Main, MainOnClient
<1>4. UNCHANGED threadVars \/ Moves \/ \E S \in SUBSET Threads : T!New(S)
  BY <1>1, <1>2, <1>3 DEF Next
<1> QED BY <1>4, AskedByStop DEF IInv

\* Unless the window was closed, the main thread never waits for a listener or
\* a client that does not exist, was joined before or does not know that it
\* should stop, whatever the listeners are doing meanwhile.
THEOREM JoinsEndHolds == Spec => []JoinsEnd
<1>1. Init => AskedToStop
  BY DEF Init, T!Init, AskedToStop
<1>2. IInv /\ AskedToStop => JoinsEnd
  <2> SUFFICES ASSUME IInv, AskedToStop, ~closed, main \in {"join", "del_join", "base_join"}
               PROVE  os[Joined] \in {"live", "returned"} /\ stopping[Joined]
    BY DEF JoinsEnd
  <2>1. CASE main = "del_join"
    <3>1. Front \in Clients /\ status[Front] = "STOPPING"
      BY <2>1, FrontIsClient DEF IInv, Orderly, FrontCoherent
    <3> QED BY <2>1, <3>1 DEF IInv, Orderly, ClientsCoherent, Settled, AskedToStop, Threads, Joined
  <2>2. CASE main # "del_join"
    BY <2>2 DEF IInv, Orderly, ListenersCoherent, Settled, AskedToStop, Threads, Joined
  <2> QED BY <2>1, <2>2
<1> QED BY <1>1, <1>2, AskedStep, Invariance, PTL DEF Spec
=============================================================================
