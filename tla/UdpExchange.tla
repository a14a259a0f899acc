------------------------------ MODULE UdpExchange ------------------------------
(***************************************************************************)
(* The exchange of packets and replies over UDP: protocols/udp/ below      *)
(* fixed_workers::Run and server_client::Run.                              *)
(*                                                                         *)
(* Each worker has a socket of its own.  The server has one socket for all *)
(* of them: udp_server is ready for one "connection" only, which stands    *)
(* for every peer and answers whoever its last recvfrom heard from.        *)
(*                                                                         *)
(* A datagram carries one packet: its tag stands for the contents, size is *)
(* what its header says and len the bytes there are.  recvfrom takes a     *)
(* whole datagram and drops what the buffer has no room for.  The network  *)
(* may lose datagrams and reorder them; it does not duplicate them.        *)
(***************************************************************************)
EXTENDS Integers, Sequences, FiniteSets

CONSTANTS
  Workers,          \* the workers of all clients
  Threads,          \* server_client threads there may be
  Sizes, Tags,      \* sizes and contents of the payloads
  HeaderLen,        \* 8 in the program
  MaxDatagram,      \* the most sendto takes, 65507 in IPv4
  MaxServerPacket,  \* MAX_BASIC_SERVER_PACKET_SIZE, 102400 in the program
  QueueLen,         \* datagrams the server's socket has room for
  Reply,            \* the reply plug-in: "echo" or "ack"
  MayLose,          \* the network may lose a datagram
  CallsFail,        \* a socket call may return -1
  NoWorker          \* the address of a connection that has heard from nobody

ASSUME UdpExchangeAssumption ==
  /\ NoWorker \notin Workers
  /\ HeaderLen \in Nat \ {0}
  /\ Sizes \subseteq {n \in Nat : n >= HeaderLen}
  /\ MaxDatagram \in Nat /\ MaxServerPacket \in Nat /\ HeaderLen <= MaxDatagram
  /\ MaxDatagram <= MaxServerPacket
  /\ QueueLen \in Nat
  /\ Reply \in {"echo", "ack"} /\ {MayLose, CallsFail} \subseteq BOOLEAN

VARIABLES
  up,        \* datagrams on their way to the server
  srvq,      \* those its socket holds
  down,      \* datagrams on their way back
  cliq,      \* those each worker's socket holds
  lost,      \* workers of which a datagram was lost (history)
  wpc,       \* where each worker's Run() is
  sent,      \* the packet it got, sent and awaits the reply to
  wstop,     \* MThread::stopping of each worker
  serverOk,  \* udp_server::server_ok
  spc,       \* where each server_client's Run() is; "none" before it exists
  addr,      \* addr of its udp_connection: whom it heard from last
  size,      \* the size it found when it peeked
  got,       \* what it has read of the packet
  sstop      \* the server's threads have been asked to stop

netVars == <<up, srvq, down, cliq, lost>>
workerVars == <<wpc, sent, wstop>>
serverVars == <<serverOk, spc, addr, size, got, sstop>>
vars == <<netVars, workerVars, serverVars>>

Lesser(a, b) == IF a <= b THEN a ELSE b

AckTag == "ack"
Packet(tag, n) == [tag |-> tag, size |-> n, len |-> n]
Payloads == {Packet(tag, n) : tag \in Tags, n \in Sizes}
Nothing == [tag |-> AckTag, size |-> 0, len |-> 0]

Data == [tag : Tags \cup {AckTag}, size : Nat, len : Nat]
Datagrams == [peer : Workers, data : Data]
Datagram(w, data) == [peer |-> w, data |-> data]

TypeOK ==
  /\ up \subseteq Datagrams /\ srvq \in Seq(Datagrams) /\ down \subseteq Datagrams
  /\ cliq \in [Workers -> Seq(Data)]
  /\ lost \subseteq Workers
  /\ wpc \in [Workers -> {"loop", "send", "read", "done"}]
  /\ sent \in [Workers -> Data]
  /\ wstop \in [Workers -> BOOLEAN]
  /\ serverOk \in BOOLEAN /\ sstop \in BOOLEAN
  /\ spc \in [Threads -> {"none", "loop", "poll", "peek", "recv", "send", "done"}]
  /\ addr \in [Threads -> Workers \cup {NoWorker}]
  /\ size \in [Threads -> Nat]
  /\ got \in [Threads -> Data]

\* udp_server: a socket bound to the port.
ServerSocket == srvq = <<>> /\ serverOk = FALSE

\* udp_connection of a client: a socket connected to the server's address.
ClientSockets == cliq = [w \in Workers |-> <<>>]

Init ==
  /\ ServerSocket /\ ClientSockets
  /\ up = {} /\ down = {} /\ lost = {}
  /\ wpc = [w \in Workers |-> "loop"]
  /\ sent = [w \in Workers |-> Nothing]
  /\ wstop = [w \in Workers |-> FALSE]
  /\ spc = [t \in Threads |-> "none"]
  /\ addr = [t \in Threads |-> NoWorker]
  /\ size = [t \in Threads |-> 0]
  /\ got = [t \in Threads |-> Nothing]
  /\ sstop = FALSE

-----------------------------------------------------------------------------
(***************************************************************************)
(* The network                                                             *)
(***************************************************************************)
\* A datagram that finds the socket's buffer full is dropped.
DeliverUp(w) ==
  /\ \E d \in up :
       /\ d.peer = w /\ up' = up \ {d}
       /\ IF Len(srvq) < QueueLen
          THEN srvq' = Append(srvq, d) /\ UNCHANGED lost
          ELSE lost' = lost \cup {w} /\ UNCHANGED srvq
  /\ UNCHANGED <<down, cliq, workerVars, serverVars>>

DeliverDown(w) ==
  /\ \E d \in down :
       /\ d.peer = w /\ down' = down \ {d}
       /\ cliq' = [cliq EXCEPT ![w] = Append(cliq[w], d.data)]
  /\ UNCHANGED <<up, srvq, lost, workerVars, serverVars>>

LoseUp(w) ==
  /\ MayLose
  /\ \E d \in up : d.peer = w /\ up' = up \ {d}
  /\ lost' = lost \cup {w}
  /\ UNCHANGED <<srvq, down, cliq, workerVars, serverVars>>

LoseDown(w) ==
  /\ MayLose
  /\ \E d \in down : d.peer = w /\ down' = down \ {d}
  /\ lost' = lost \cup {w}
  /\ UNCHANGED <<up, srvq, cliq, workerVars, serverVars>>

Network(w) == DeliverUp(w) \/ DeliverDown(w) \/ LoseUp(w) \/ LoseDown(w)

-----------------------------------------------------------------------------
(***************************************************************************)
(* fixed_workers::Run                                                      *)
(***************************************************************************)
WorkerGoes(w, pc) == wpc' = [wpc EXCEPT ![w] = pc] /\ UNCHANGED wstop

\* while (!stopping), then GetPayload.
WorkerLoop(w) ==
  /\ wpc[w] = "loop"
  /\ \/ wstop[w] /\ WorkerGoes(w, "done") /\ UNCHANGED sent
     \/ /\ ~wstop[w] /\ WorkerGoes(w, "send")
        /\ \E p \in Payloads : sent' = [sent EXCEPT ![w] = p]
  /\ UNCHANGED <<netVars, serverVars>>

\* udp_connection::write of a client.
SendTo(w, data) ==
  /\ data.len <= MaxDatagram
  /\ up' = up \cup {Datagram(w, data)}
  /\ UNCHANGED <<srvq, down, cliq, lost>>

\* Mutant of WorkerSends: the worker does not wait for the reply.
WorkerSendsOn(w) ==
  /\ wpc[w] = "send" /\ SendTo(w, sent[w])
  /\ WorkerGoes(w, "loop")
  /\ UNCHANGED <<sent, serverVars>>

WorkerSends(w) ==
  /\ wpc[w] = "send" /\ SendTo(w, sent[w])
  /\ WorkerGoes(w, "read")
  /\ UNCHANGED <<sent, serverVars>>

\* sendto fails, and always does for a packet larger than a datagram.
WorkerSendFails(w) ==
  /\ wpc[w] = "send" /\ (CallsFail \/ sent[w].len > MaxDatagram)
  /\ WorkerGoes(w, "done")
  /\ UNCHANGED <<sent, netVars, serverVars>>

\* ReadPacketData( buf, size ): the peek waits for a datagram.  One with a
\* header that says more than the buffer holds is refused and stays in the
\* socket; any other is taken.  Nothing limits the wait.
WorkerReads(w) ==
  /\ wpc[w] = "read" /\ cliq[w] # <<>>
  /\ IF Head(cliq[w]).size > sent[w].size
     THEN WorkerGoes(w, "done") /\ UNCHANGED cliq
     ELSE WorkerGoes(w, "loop") /\ cliq' = [cliq EXCEPT ![w] = Tail(cliq[w])]
  /\ UNCHANGED <<sent, up, srvq, down, lost, serverVars>>

\* recvfrom fails, as it does when the server's host has no such port.
WorkerReadFails(w) ==
  /\ CallsFail /\ wpc[w] = "read"
  /\ WorkerGoes(w, "done")
  /\ UNCHANGED <<sent, netVars, serverVars>>

Worker(w) ==
  \/ WorkerLoop(w) \/ WorkerSends(w) \/ WorkerSendFails(w)
  \/ WorkerReads(w)

\* fixed_client::Stop asks the worker to stop.
ClientStops(w) ==
  /\ ~wstop[w]
  /\ wstop' = [wstop EXCEPT ![w] = TRUE]
  /\ UNCHANGED <<wpc, sent, netVars, serverVars>>

-----------------------------------------------------------------------------
(***************************************************************************)
(* The server                                                              *)
(***************************************************************************)
\* Mutant of ReadyToAccept: server_ok is not looked at.
ReadyAlways == TRUE

\* udp_server::ready: only until the first accept, and never again.
ReadyToAccept == ~serverOk

\* server_listener::Run: a pseudo connection on the server's socket, and a
\* server_client for it.
ListenerAccepts ==
  /\ ReadyToAccept /\ ~sstop
  /\ \E t \in Threads : spc[t] = "none" /\ spc' = [spc EXCEPT ![t] = "loop"]
  /\ serverOk' = TRUE
  /\ UNCHANGED <<netVars, workerVars, addr, size, got, sstop>>

ServerGoes(t, pc) == spc' = [spc EXCEPT ![t] = pc] /\ UNCHANGED <<serverOk, sstop>>

ServerLoop(t) ==
  /\ spc[t] = "loop"
  /\ ServerGoes(t, IF sstop THEN "done" ELSE "poll")
  /\ UNCHANGED <<netVars, workerVars, addr, size, got>>

\* udp_connection::ready( 1 ): poll for 1 ms.
Readable == srvq # <<>>

ServerPoll(t) ==
  /\ spc[t] = "poll"
  /\ \/ CallsFail /\ ServerGoes(t, "done")
     \/ ServerGoes(t, IF Readable THEN "peek" ELSE "loop")
  /\ UNCHANGED <<netVars, workerVars, addr, size, got>>

\* Mutant of HeardFrom: the connection stays with its first peer.
HeardFromFirst(t) ==
  addr' = [addr EXCEPT ![t] = IF addr[t] = NoWorker THEN Head(srvq).peer ELSE addr[t]]

\* recvfrom stores the sender's address, also when it only peeks.
HeardFrom(t) == addr' = [addr EXCEPT ![t] = Head(srvq).peer]

\* GetCurrentReadPacketSize; a size above the buffer's ends the thread.
ServerPeeks(t) ==
  /\ spc[t] = "peek" /\ Readable
  /\ HeardFrom(t)
  /\ size' = [size EXCEPT ![t] = Head(srvq).data.size]
  /\ got' = [got EXCEPT ![t] = Nothing]
  /\ ServerGoes(t, IF Head(srvq).data.size > MaxServerPacket THEN "done" ELSE "recv")
  /\ UNCHANGED <<netVars, workerVars>>

\* got and one more datagram, in what is left of the buffer.
With(packet, data) ==
  LET room == MaxServerPacket - packet.len IN
  IF packet.len = 0 THEN [data EXCEPT !.len = Lesser(data.len, room)]
  ELSE [packet EXCEPT !.len = packet.len + Lesser(data.len, room)]

\* Mutant of IsComplete: while (total<=size).
IsCompleteBeyond(t, packet) == packet.len > size[t]

IsComplete(t, packet) == packet.len >= size[t]

\* A turn of the loop in ReadPacketData.
ServerReceives(t) ==
  /\ spc[t] = "recv" /\ Readable
  /\ HeardFrom(t)
  /\ srvq' = Tail(srvq)
  /\ got' = [got EXCEPT ![t] = With(got[t], Head(srvq).data)]
  /\ ServerGoes(t, IF IsComplete(t, got'[t]) THEN "send" ELSE "recv")
  /\ UNCHANGED <<up, down, cliq, lost, workerVars, size>>

ServerReadFails(t) ==
  /\ CallsFail /\ spc[t] \in {"peek", "recv"}
  /\ ServerGoes(t, "done")
  /\ UNCHANGED <<netVars, workerVars, addr, size, got>>

\* GetReply of reply/echo and of reply/ack.
ReplyTo(packet) == IF Reply = "echo" THEN packet ELSE Packet(AckTag, HeaderLen)

\* udp_connection::write of the server: to whom it heard from last.
ServerSends(t) ==
  /\ spc[t] = "send"
  /\ down' = down \cup {Datagram(addr[t], ReplyTo(got[t]))}
  /\ ServerGoes(t, "loop")
  /\ UNCHANGED <<up, srvq, cliq, lost, workerVars, addr, size, got>>

ServerSendFails(t) ==
  /\ CallsFail /\ spc[t] = "send"
  /\ ServerGoes(t, "done")
  /\ UNCHANGED <<netVars, workerVars, addr, size, got>>

ServerThread(t) ==
  \/ ServerLoop(t) \/ ServerPoll(t) \/ ServerPeeks(t) \/ ServerReceives(t)
  \/ ServerSends(t) \/ ServerSendFails(t)

ServerStops ==
  /\ ~sstop /\ sstop' = TRUE
  /\ UNCHANGED <<netVars, workerVars, serverOk, spc, addr, size, got>>

Next ==
  \/ \E w \in Workers : Network(w) \/ Worker(w) \/ WorkerReadFails(w) \/ ClientStops(w)
  \/ ListenerAccepts \/ ServerStops
  \/ \E t \in Threads : ServerThread(t) \/ ServerReadFails(t)

\* Threads are scheduled; a datagram arrives or is lost.  Nothing makes a
\* read that waits fail.
Fairness ==
  /\ \A w \in Workers : WF_vars(Network(w)) /\ WF_vars(Worker(w))
  /\ WF_vars(ListenerAccepts)
  /\ \A t \in Threads : WF_vars(ServerThread(t))

Spec == Init /\ [][Next]_vars /\ Fairness

-----------------------------------------------------------------------------
(***************************************************************************)
(* Properties                                                              *)
(***************************************************************************)

\* Where a packet of w, or the reply to it, is.
Places(w) ==
  {<<"up", d>> : d \in {d \in up : d.peer = w}}
  \cup {<<"server", i>> : i \in {i \in DOMAIN srvq : srvq[i].peer = w}}
  \cup {<<"thread", t>> : t \in {t \in Threads : spc[t] = "send" /\ addr[t] = w}}
  \cup {<<"down", d>> : d \in {d \in down : d.peer = w}}
  \cup {<<"client", i>> : i \in DOMAIN cliq[w]}

\* A worker has at most one packet or reply under way, and none when it is
\* about to send.  Nothing but this keeps the server's socket from running
\* over, and replies from being taken for those to later packets.  While it
\* waits it has exactly one: no worker waits for what is nowhere, unless the
\* network lost it or the server's thread has returned.
OneUnderWay ==
  \A w \in Workers :
    /\ \A x, y \in Places(w) : x = y
    /\ wpc[w] \in {"loop", "send"} => Places(w) = {}
    /\ wpc[w] = "read" /\ w \notin lost /\ (\A t \in Threads : spc[t] # "done") => Places(w) # {}

\* The datagram a worker finds is the reply to the packet it sent, although
\* the server keeps a single address for all its peers (udp_connection.cpp:110).
OwnReply ==
  \A w \in Workers :
    wpc[w] = "read" /\ cliq[w] # <<>> => Head(cliq[w]) = ReplyTo(sent[w])

\* For each worker, both ends together implement RequestReply, which is over
\* when one of its datagrams is lost.
Answers(w) == {d.data : d \in {d \in down : d.peer = w}} \cup {cliq[w][i] : i \in DOMAIN cliq[w]}
Turn(w) ==
  IF wpc[w] = "done" \/ w \in lost THEN "over"
  ELSE IF wpc[w] # "read" THEN "worker"
  ELSE IF Answers(w) = {} THEN "server" ELSE "answered"

Ask(w) == IF Turn(w) \in {"server", "answered"} THEN sent[w] ELSE Nothing
Ans(w) == IF Turn(w) = "answered" THEN CHOOSE a \in Answers(w) : TRUE ELSE Nothing

Turns(w) == INSTANCE RequestReply WITH
  Packets <- Payloads, None <- Nothing, turn <- Turn(w), ask <- Ask(w), ans <- Ans(w)

\* \A w : Turns(w)!Spec, in a form TLC takes.
InTurns ==
  /\ \A w \in Workers : Turns(w)!Init
  /\ [][\A w \in Workers : Turns(w)!Next \/ UNCHANGED <<Turn(w), Ask(w), Ans(w)>>]_vars

\* A worker that waits for its reply gets it or gives up, unless a datagram
\* was lost or the server's one thread has returned: then it waits for ever,
\* and with it StopClient, which joins it.
Answered ==
  \A w \in Workers :
    wpc[w] = "read" ~> wpc[w] # "read" \/ w \in lost \/ sstop \/ \E t \in Threads : spc[t] = "done"
=============================================================================
