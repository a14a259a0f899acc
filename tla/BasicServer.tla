----------------------------- MODULE BasicServer -----------------------------
(***************************************************************************)
(* The basic server plug-in (server/basic) and the program that drives it. *)
(*                                                                         *)
(* The main thread loads the libraries, builds one server_listener thread  *)
(* per protocol, starts them, waits for the user, stops and deletes the    *)
(* server and unloads the libraries.  A listener accepts connections and   *)
(* starts one server_client thread for each; a server_client reads packets *)
(* and answers them.  The threads share the listener's deque of clients    *)
(* and the libraries, and no lock: what keeps them apart is only the order *)
(* in which the main thread joins, deletes and unloads.                    *)
(*                                                                         *)
(* Sockets and packets are abstracted here to the result each call may     *)
(* return; modules PacketStream and Exchange model the bytes.              *)
(***************************************************************************)
EXTENDS Naturals, Sequences

CONSTANTS
  NumListeners,   \* basic_server::num, one listener per protocol and port
  Clients,        \* the server_client objects: bounds the connections accepted
  NoClient,       \* tmp_client holds no object
  Timer,          \* the front end polls ServerTransferedData (the GUIs do)
  PeerMayLeave,   \* remote ends may close a connection
  WindowMayClose  \* the front end has a window: the Kylix FormClose calls
                  \* cleanup without StopServer, main and StopButtonClick
                  \* call both

Listeners == 1..NumListeners
Threads == Listeners \cup Clients

ASSUME ServerAssumption ==
  /\ NumListeners \in Nat
  /\ Clients \cap Listeners = {}
  /\ NoClient \notin Clients
  /\ Timer \in BOOLEAN /\ PeerMayLeave \in BOOLEAN /\ WindowMayClose \in BOOLEAN

VARIABLES
  status, stopping, os,  \* the thread objects, see MThread
  main,      \* where the main thread is
  closed,    \* the window was closed while the server was running
  cnt,       \* its loop variable over the listeners
  idx,       \* its loop variable in server_listener::TransferedData
  lpc,       \* where each listener's Run() is
  fresh,     \* tmp_client of each listener
  clients,   \* server_listener::clients
  cpc,       \* where each server_client's Run() is
  replies,   \* the server_clients whose reply_handle is allocated
  loaded     \* libraries mapped, and the protocol handle with its sockets

threadVars == <<status, stopping, os>>
mainVars == <<main, closed, cnt, idx>>
listenerVars == <<lpc, fresh>>
clientVars == <<cpc, replies>>
vars == <<threadVars, mainVars, listenerVars, clients, clientVars, loaded>>

T == INSTANCE MThread

\* What every thread of the server executes in or reads.
Resources == {"server", "reply", "handle", "protocol"}

MainPC == {"init", "start", "mark", "serve", "count", "stop", "join", "delete",
           "del_stop", "del_join", "del_free", "del_pop", "base", "base_join",
           "base_free", "unload", "unload_reply", "destroy_handle",
           "unload_protocol", "exited"}
ListenerPC == {"idle", "loop", "poll", "accept", "push", "pushing", "start",
               "mark", "done"}
ClientPC == {"idle", "loop", "poll", "read", "spin", "reply", "send",
             "release", "done"}

Members(l) == {clients[l][i] : i \in 1..Len(clients[l])}

TypeOK ==
  /\ T!TypeOK
  /\ main \in MainPC
  /\ closed \in BOOLEAN
  /\ cnt \in 1..(NumListeners + 1)
  /\ idx \in Nat
  /\ lpc \in [Listeners -> ListenerPC]
  /\ fresh \in [Listeners -> Clients \cup {NoClient}]
  /\ clients \in [Listeners -> Seq(Clients)]
  /\ cpc \in [Clients -> ClientPC]
  /\ replies \subseteq Clients
  /\ loaded \subseteq Resources

\* allocate_reply, allocate_protocol and allocate_servers have loaded the
\* libraries and opened the listening sockets; InitServer comes next.
Init ==
  /\ T!Init
  /\ main = "init" /\ closed = FALSE /\ cnt = 1 /\ idx = 1
  /\ lpc = [l \in Listeners |-> "idle"]
  /\ fresh = [l \in Listeners |-> NoClient]
  /\ clients = [l \in Listeners |-> <<>>]
  /\ cpc = [c \in Clients |-> "idle"]
  /\ replies = {}
  /\ loaded = Resources

-----------------------------------------------------------------------------
(***************************************************************************)
(* server_listener::Run                                                    *)
(***************************************************************************)
ListenerAt(l, pc) == os[l] = "live" /\ lpc[l] = pc

ListenerGoes(l, pc) == lpc' = [lpc EXCEPT ![l] = pc]

ListenerReturns(l) == T!RunReturns(l) /\ ListenerGoes(l, "done")

\* while (!stopping)
ListenerLoop(l) ==
  /\ ListenerAt(l, "loop")
  /\ \/ stopping[l] /\ ListenerReturns(l)
     \/ ~stopping[l] /\ ListenerGoes(l, "poll") /\ UNCHANGED threadVars
  /\ UNCHANGED <<mainVars, fresh, clients, clientVars, loaded>>

\* ReadyForData( ..., 4 ): an error, nothing within a millisecond, or a
\* connection.  No connection comes once the pool Clients is used up.
ListenerPoll(l) ==
  /\ ListenerAt(l, "poll")
  /\ \/ ListenerReturns(l)
     \/ ListenerGoes(l, "loop") /\ UNCHANGED threadVars
     \/ /\ \E c \in Clients : status[c] = "ABSENT"
        /\ ListenerGoes(l, "accept") /\ UNCHANGED threadVars
  /\ UNCHANGED <<mainVars, fresh, clients, clientVars, loaded>>

\* AcceptServerConnection fails, or a server_client is constructed for the
\* new connection; its constructor calls InitReply.
ListenerAccept(l) ==
  /\ ListenerAt(l, "accept")
  /\ \/ ListenerReturns(l) /\ UNCHANGED <<fresh, replies>>
     \/ \E c \in Clients :
          /\ T!New({c})
          /\ fresh' = [fresh EXCEPT ![l] = c]
          /\ replies' = replies \cup {c}
          /\ ListenerGoes(l, "push")
  /\ UNCHANGED <<mainVars, clients, cpc, loaded>>

\* clients.push_back( tmp_client ), which is not atomic: the deque is being
\* changed while the listener is at "pushing".
ListenerPushBegins(l) ==
  /\ ListenerAt(l, "push")
  /\ ListenerGoes(l, "pushing")
  /\ UNCHANGED <<threadVars, mainVars, fresh, clients, clientVars, loaded>>

ListenerPushEnds(l) ==
  /\ ListenerAt(l, "pushing")
  /\ clients' = [clients EXCEPT ![l] = Append(@, fresh[l])]
  /\ ListenerGoes(l, "start")
  /\ UNCHANGED <<threadVars, mainVars, fresh, clientVars, loaded>>

\* tmp_client->Start(), whose result is not looked at: without a thread the
\* client stays in the deque, never started.
ListenerStartsClient(l) ==
  /\ ListenerAt(l, "start")
  /\ \/ /\ T!CreateThread(fresh[l])
        /\ cpc' = [cpc EXCEPT ![fresh[l]] = "loop"]
        /\ ListenerGoes(l, "mark")
        /\ UNCHANGED fresh
     \/ /\ ListenerGoes(l, "loop")
        /\ fresh' = [fresh EXCEPT ![l] = NoClient]
        /\ UNCHANGED <<threadVars, cpc>>
  /\ UNCHANGED <<mainVars, clients, replies, loaded>>

ListenerMarksClient(l) ==
  /\ ListenerAt(l, "mark")
  /\ T!MarkRunning(fresh[l])
  /\ fresh' = [fresh EXCEPT ![l] = NoClient]
  /\ ListenerGoes(l, "loop")
  /\ UNCHANGED <<mainVars, clients, clientVars, loaded>>

Listener(l) ==
  \/ ListenerLoop(l) \/ ListenerPoll(l) \/ ListenerAccept(l)
  \/ ListenerPushBegins(l) \/ ListenerPushEnds(l)
  \/ ListenerStartsClient(l) \/ ListenerMarksClient(l)

-----------------------------------------------------------------------------
(***************************************************************************)
(* server_client::Run                                                      *)
(***************************************************************************)
ClientAt(c, pc) == os[c] = "live" /\ cpc[c] = pc

ClientGoes(c, pc) == cpc' = [cpc EXCEPT ![c] = pc]

ClientReturns(c) == T!RunReturns(c) /\ ClientGoes(c, "done")

ClientElsewhere == <<mainVars, listenerVars, clients, replies, loaded>>

ClientLoop(c) ==
  /\ ClientAt(c, "loop")
  /\ \/ stopping[c] /\ ClientReturns(c)
     \/ ~stopping[c] /\ ClientGoes(c, "poll") /\ UNCHANGED threadVars
  /\ UNCHANGED ClientElsewhere

ClientPoll(c) ==
  /\ ClientAt(c, "poll")
  /\ \/ ClientReturns(c)
     \/ \E pc \in {"loop", "read"} : ClientGoes(c, pc) /\ UNCHANGED threadVars
  /\ UNCHANGED ClientElsewhere

\* ReadPacketData: an error, a packet, or, when the peer has closed its end,
\* the loop that waits for bytes that never come (PacketStream).
ClientRead(c) ==
  /\ ClientAt(c, "read")
  /\ \/ ClientReturns(c)
     \/ ClientGoes(c, "reply") /\ UNCHANGED threadVars
     \/ PeerMayLeave /\ ClientGoes(c, "spin") /\ UNCHANGED threadVars
  /\ UNCHANGED ClientElsewhere

\* Another turn of that loop; it does not look at "stopping".
ClientSpins(c) == ClientAt(c, "spin") /\ UNCHANGED vars

ClientReply(c) ==
  /\ ClientAt(c, "reply")
  /\ \/ ClientReturns(c)
     \/ ClientGoes(c, "send") /\ UNCHANGED threadVars
  /\ UNCHANGED ClientElsewhere

ClientSend(c) ==
  /\ ClientAt(c, "send")
  /\ ClientGoes(c, "release")
  /\ UNCHANGED <<threadVars, ClientElsewhere>>

\* DeleteReply, then the test that the whole reply was written.
ClientRelease(c) ==
  /\ ClientAt(c, "release")
  /\ \/ ClientReturns(c)
     \/ ClientGoes(c, "loop") /\ UNCHANGED threadVars
  /\ UNCHANGED ClientElsewhere

Client(c) ==
  \/ ClientLoop(c) \/ ClientPoll(c) \/ ClientRead(c)
  \/ ClientReply(c) \/ ClientSend(c) \/ ClientRelease(c)

-----------------------------------------------------------------------------
(***************************************************************************)
(* The main thread.  Each for loop of basic.cpp is a set of steps at which *)
(* cnt is the loop variable.                                               *)
(***************************************************************************)
MainAt(pc) == main = pc /\ cnt \in Listeners

MainGoes(pc) == main' = pc /\ UNCHANGED <<closed, cnt, idx>>

\* The next iteration, whose body starts at pc.
MainNextAt(pc) == main' = pc /\ cnt' = cnt + 1 /\ UNCHANGED <<closed, idx>>

\* The loop at pc has ended, and the one at next begins.
MainLeavesLoop(pc, next) ==
  /\ main = pc /\ cnt \notin Listeners
  /\ main' = next /\ cnt' = 1 /\ UNCHANGED <<closed, idx>>
  /\ UNCHANGED <<threadVars, listenerVars, clients, clientVars, loaded>>

MainElsewhere == <<listenerVars, clients, clientVars, loaded>>

\* Stop() of thread t up to pthread_join: the caller waits at pc, or, when
\* there is nothing to stop, Stop() returns at once and the caller does Done.
MainStops(t, pc, Done) ==
  \/ T!Stoppable(t) /\ T!BeginStop(t) /\ MainGoes(pc)
  \/ ~T!Stoppable(t) /\ UNCHANGED threadVars /\ Done

\* allocate_servers: InitServer constructs every listener, or fails and
\* leaves nothing behind, after which cleanup has no server to destroy.
InitServer ==
  /\ main = "init"
  /\ \/ T!New(Listeners) /\ MainGoes("start")
     \/ UNCHANGED threadVars /\ MainGoes("unload")
  /\ UNCHANGED MainElsewhere

\* StartServer ignores the result of Start().
StartListener ==
  /\ MainAt("start")
  /\ \/ /\ T!CreateThread(cnt)
        /\ ListenerGoes(cnt, "loop")
        /\ MainGoes("mark")
     \/ MainNextAt("start") /\ UNCHANGED <<threadVars, lpc>>
  /\ UNCHANGED <<fresh, clients, clientVars, loaded>>

MarkListener ==
  /\ MainAt("mark")
  /\ T!MarkRunning(cnt)
  /\ MainNextAt("start")
  /\ UNCHANGED MainElsewhere

\* ActivityTimerTimer: ServerTransferedData visits every client of every
\* listener, reading the size of the deque before each visit.
TimerFires ==
  /\ Timer /\ main = "serve"
  /\ main' = "count" /\ cnt' = 1 /\ idx' = 1
  /\ UNCHANGED <<closed, threadVars, MainElsewhere>>

CountClient ==
  /\ MainAt("count")
  /\ \/ idx <= Len(clients[cnt]) /\ idx' = idx + 1 /\ UNCHANGED cnt
     \/ idx > Len(clients[cnt]) /\ idx' = 1 /\ cnt' = cnt + 1
  /\ UNCHANGED <<main, closed, threadVars, MainElsewhere>>

\* ENTER or the Stop button, or the window is closed.
UserEnds ==
  /\ main = "serve"
  /\ closed' \in {FALSE, WindowMayClose}
  /\ main' = IF closed' THEN "delete" ELSE "stop"
  /\ cnt' = 1 /\ UNCHANGED idx
  /\ UNCHANGED <<threadVars, MainElsewhere>>

\* Mutant of StopListener: every listener is asked to stop, none is joined.
AskListenerToStop ==
  /\ MainAt("stop")
  /\ MainNextAt("stop")
  /\ \/ T!Stoppable(cnt) /\ T!BeginStop(cnt)
     \/ ~T!Stoppable(cnt) /\ UNCHANGED threadVars
  /\ UNCHANGED MainElsewhere

\* StopServer
StopListener ==
  /\ MainAt("stop")
  /\ MainStops(cnt, "join", MainNextAt("stop"))
  /\ UNCHANGED MainElsewhere

\* Mutant of JoinListener: the join times out.
JoinListenerTimesOut ==
  /\ MainAt("join")
  /\ MainNextAt("stop")
  /\ UNCHANGED <<threadVars, MainElsewhere>>

JoinListener ==
  /\ MainAt("join")
  /\ T!Join(cnt)
  /\ MainNextAt("stop")
  /\ UNCHANGED MainElsewhere

\* DestroyServer deletes each listener; ~server_listener deletes the client
\* at the front and then pops it, until the deque is empty.
DeleteFront ==
  /\ MainAt("delete")
  /\ MainGoes(IF clients[cnt] = <<>> THEN "base" ELSE "del_stop")
  /\ UNCHANGED <<threadVars, MainElsewhere>>

\* Mutant of StopClientThread: the destructor does not call Stop().
SkipClientStop ==
  /\ MainAt("del_stop")
  /\ MainGoes("del_free")
  /\ UNCHANGED <<threadVars, MainElsewhere>>

StopClientThread ==
  /\ MainAt("del_stop")
  /\ MainStops(Head(clients[cnt]), "del_join", MainGoes("del_free"))
  /\ UNCHANGED MainElsewhere

\* Mutant of JoinClientThread: the destructor does not wait.
JoinClientTimesOut ==
  /\ MainAt("del_join")
  /\ MainGoes("del_free")
  /\ UNCHANGED <<threadVars, MainElsewhere>>

JoinClientThread ==
  /\ MainAt("del_join")
  /\ T!Join(Head(clients[cnt]))
  /\ MainGoes("del_free")
  /\ UNCHANGED MainElsewhere

\* The rest of ~server_client: DestroyReply, and the object is gone.
FreeClient ==
  /\ MainAt("del_free")
  /\ T!Free(Head(clients[cnt]))
  /\ replies' = replies \ {Head(clients[cnt])}
  /\ MainGoes("del_pop")
  /\ UNCHANGED <<listenerVars, clients, cpc, loaded>>

\* Mutant of PopClient: pop_back.
PopClientAtBack ==
  /\ MainAt("del_pop")
  /\ clients' = [clients EXCEPT ![cnt] = SubSeq(@, 1, Len(@) - 1)]
  /\ MainGoes("delete")
  /\ UNCHANGED <<threadVars, listenerVars, clientVars, loaded>>

\* Mutant of PopClient: only the first client is deleted.
PopOnlyFirst ==
  /\ MainAt("del_pop")
  /\ clients' = [clients EXCEPT ![cnt] = Tail(@)]
  /\ MainGoes("base")
  /\ UNCHANGED <<threadVars, listenerVars, clientVars, loaded>>

PopClient ==
  /\ MainAt("del_pop")
  /\ clients' = [clients EXCEPT ![cnt] = Tail(@)]
  /\ MainGoes("delete")
  /\ UNCHANGED <<threadVars, listenerVars, clientVars, loaded>>

\* The deque member is destroyed, with whatever it holds by now, and only
\* then ~MThread stops the listener's own thread.
DestroyDeque ==
  /\ MainAt("base")
  /\ MainStops(cnt, "base_join", MainGoes("base_free"))
  /\ clients' = [clients EXCEPT ![cnt] = <<>>]
  /\ UNCHANGED <<listenerVars, clientVars, loaded>>

JoinDeletedListener ==
  /\ MainAt("base_join")
  /\ T!Join(cnt)
  /\ MainGoes("base_free")
  /\ UNCHANGED MainElsewhere

FreeListener ==
  /\ MainAt("base_free")
  /\ T!Free(cnt)
  /\ MainNextAt("delete")
  /\ UNCHANGED MainElsewhere

\* cleanup unloads the server library, unloads the reply library, destroys
\* the protocol handle and its sockets, and unloads the protocol library.
Release(pc, resource, next) ==
  /\ main = pc
  /\ loaded' = loaded \ {resource}
  /\ MainGoes(next)
  /\ UNCHANGED <<threadVars, listenerVars, clients, clientVars>>

Unload ==
  \/ Release("unload", "server", "unload_reply")
  \/ Release("unload_reply", "reply", "destroy_handle")
  \/ Release("destroy_handle", "handle", "unload_protocol")
  \/ Release("unload_protocol", "protocol", "exited")

Main ==
  \/ InitServer \/ StartListener \/ MarkListener
  \/ MainLeavesLoop("start", "serve")
  \/ CountClient \/ MainLeavesLoop("count", "serve")
  \/ StopListener \/ JoinListener \/ MainLeavesLoop("stop", "delete")
  \/ DeleteFront \/ StopClientThread \/ JoinClientThread \/ FreeClient
  \/ PopClient \/ DestroyDeque \/ JoinDeletedListener \/ FreeListener
  \/ MainLeavesLoop("delete", "unload") \/ Unload

\* The process has ended (or waits in a GUI for another start).
Exited == main = "exited" /\ UNCHANGED vars

Next ==
  \/ Main \/ TimerFires \/ UserEnds \/ Exited
  \/ \E l \in Listeners : Listener(l)
  \/ \E c \in Clients : Client(c) \/ ClientSpins(c)

\* The scheduler runs every thread, and the peers finish the packets they
\* began; nothing says that the user ends the program or the timer fires.
Fairness ==
  /\ WF_vars(Main)
  /\ \A l \in Listeners : WF_vars(Listener(l))
  /\ \A c \in Clients : WF_vars(Client(c))

Spec == Init /\ [][Next]_vars /\ Fairness

-----------------------------------------------------------------------------
(***************************************************************************)
(* Properties                                                              *)
(***************************************************************************)

\* A thread that executes finds what it uses: its own object, the code of
\* the three libraries, the protocol handle and, for a client, its reply
\* handle.  Nothing but the order of Stop, join, delete and unload in
\* basic.cpp, ~server_client, ~server_listener and cleanup ensures it.
NoUseAfterFree ==
  ~closed => \A t \in Threads : os[t] = "live" =>
    /\ status[t] # "ABSENT"
    /\ loaded = Resources
    /\ t \in Clients => t \in replies

\* Every client in a deque is an allocated object, also while the main
\* thread deletes and pops them one by one (the front one is gone between
\* delete and pop_front), and no client is in two places.
DequesHoldObjects ==
  ~closed => \A l \in Listeners :
    /\ \A i \in 1..Len(clients[l]) :
         status[clients[l][i]] = "ABSENT" => main = "del_pop" /\ cnt = l /\ i = 1
    /\ \A k \in Listeners : \A i \in 1..Len(clients[l]), j \in 1..Len(clients[k]) :
         clients[l][i] = clients[k][j] => l = k /\ i = j

\* The main thread never reads or pops a deque that its listener is pushing
\* to: there is no lock, so the join in StopServer has to keep them apart.
MainUsesDeque(l) ==
  cnt = l /\ main \in {"count", "delete", "del_stop", "del_join", "del_free",
                       "del_pop", "base"}

NoDequeRace == \A l \in Listeners : ~(lpc[l] = "pushing" /\ MainUsesDeque(l))

\* StopServer "stops the server listening for clients": once it has returned
\* for a listener, no client is added to it, constructed for it or started
\* by it any more.
ListenerStopped(l) ==
  \/ main \in {"stop", "join"} /\ l < cnt
  \/ ~closed /\ main \in {"delete", "del_stop", "del_join", "del_free", "del_pop", "base",
               "base_join", "base_free"}

StoppedListenerAcceptsNone ==
  [][\A l \in Listeners : ListenerStopped(l) =>
       Len(clients'[l]) <= Len(clients[l]) /\ fresh'[l] = fresh[l]]_vars

\* When DestroyServer has returned, no thread of the server executes and
\* none of its objects is left.
Destroyed ==
  main \in {"unload", "unload_reply", "destroy_handle", "unload_protocol", "exited"}

NothingRuns ==
  /\ \A t \in Threads : os[t] # "live" /\ status[t] = "ABSENT"
  /\ replies = {}

DestroyServerStopsAll == ~closed /\ Destroyed => NothingRuns

\* The server handles its thread objects as ThreadLife says.
lives ==
  [t \in Threads |->
     CASE status[t] = "ABSENT" -> "absent"
       [] status[t] # "ABSENT" /\ os[t] = "none" -> "fresh"
       [] status[t] # "ABSENT" /\ os[t] = "live" -> "running"
       [] OTHER -> "finished"]

Life == INSTANCE ThreadLife WITH life <- lives

ThreadsLiveOnce == Life!Spec

\* Once the user has ended the program, every listener and client is joined
\* and the program exits.
ServerEnds == (main \in {"stop", "delete"}) ~> (main = "exited")
=============================================================================
