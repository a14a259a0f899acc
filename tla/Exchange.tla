------------------------------- MODULE Exchange -------------------------------
(***************************************************************************)
(* One TCP connection and the threads at its two ends: the fixed_workers   *)
(* threads of the client program (client/fixed/fixed_workers.cpp), which   *)
(* send a packet and wait for the reply, and the server_client thread of   *)
(* the server program (server/basic/server_client.cpp), which reads a      *)
(* packet and sends the reply made by the plug-in (reply/).                *)
(*                                                                         *)
(* Normally a connection has one worker.  fixed_client gives it several    *)
(* when there are more workers than connections.                           *)
(***************************************************************************)
EXTENDS Integers, Sequences

CONSTANTS
  Workers,          \* the workers that share the connection
  HeaderLen, LeftOver, SplitHeaders, CallsFail,   \* see PacketStream
  Sizes, Tags,      \* sizes and contents of the payloads
  MaxServerPacket,  \* MAX_BASIC_SERVER_PACKET_SIZE, 102400 in the program
  Reply,            \* the reply plug-in: "echo" or "ack"
  ClientMayExit,    \* the client process may exit (or be killed) at any time
  ServerMayExit,    \* the server process may
  ServerMayStop     \* the server_client may be asked to stop

ASSUME ExchangeAssumption ==
  /\ HeaderLen \in Nat \ {0}
  /\ Sizes \subseteq {n \in Nat : n >= HeaderLen}
  /\ LeftOver \subseteq Nat
  /\ MaxServerPacket \in Nat /\ MaxServerPacket >= HeaderLen
  /\ Reply \in {"echo", "ack"}

VARIABLES
  c2s, c2sOpen, c2sRd,   \* the stream to the server, see PacketStream
  s2c, s2cOpen, s2cRd,   \* the stream to the client
  wpc,     \* where each worker's Run() is
  sent,    \* the payload each worker got, sent and awaits the reply to
  wstop,   \* MThread::stopping of each worker
  spc,     \* where the server_client's Run() is
  repbuf,  \* the reply it is about to send
  sstop,   \* MThread::stopping of the server_client
  lost     \* the ends that were sent a reset: they wrote to a process that was
           \* gone, or it went leaving bytes of theirs unread

ToServer == INSTANCE PacketStream WITH
  Readers <- {"server"}, stream <- c2s, open <- c2sOpen, rd <- c2sRd,
  reset <- "server" \in lost
ToClient == INSTANCE PacketStream WITH
  Readers <- Workers, stream <- s2c, open <- s2cOpen, rd <- s2cRd,
  reset <- "client" \in lost

c2sVars == <<c2s, c2sOpen, c2sRd>>
s2cVars == <<s2c, s2cOpen, s2cRd>>
workerVars == <<wpc, sent, wstop>>
serverVars == <<spc, repbuf, sstop>>
vars == <<c2sVars, s2cVars, workerVars, serverVars, lost>>

AckTag == "ack"
NoPayload == <<>>
Payloads == {ToClient!Bytes(tag, size) : tag \in Tags, size \in Sizes}

\* GetReply of reply/echo and of reply/ack, for the bytes just read.
ReplyTo(bytes) ==
  IF Reply = "echo" THEN bytes ELSE ToServer!Bytes(AckTag, HeaderLen)

Byte == [tag : Tags \cup {AckTag}, size : Nat, off : Nat]

TypeOK ==
  /\ ToServer!TypeOK(Byte) /\ ToClient!TypeOK(Byte)
  /\ wpc \in [Workers -> {"loop", "send", "read", "done"}]
  /\ sent \in [Workers -> Payloads \cup {NoPayload}]
  /\ wstop \in [Workers -> BOOLEAN]
  /\ spc \in {"loop", "poll", "read", "send", "done"}
  /\ repbuf \in Seq(Byte)
  /\ sstop \in BOOLEAN
  /\ lost \subseteq {"client", "server"}

Init ==
  /\ ToServer!Init
  /\ ToClient!Init
  /\ wpc = [w \in Workers |-> "loop"]
  /\ sent = [w \in Workers |-> NoPayload]
  /\ wstop = [w \in Workers |-> FALSE]
  /\ spc = "loop" /\ repbuf = NoPayload /\ sstop = FALSE
  /\ lost = {}

\* A process is there as long as its end of the connection is open: neither
\* program closes the socket while it runs.
ClientUp == c2sOpen
ServerUp == s2cOpen

-----------------------------------------------------------------------------
(***************************************************************************)
(* fixed_workers::Run                                                      *)
(***************************************************************************)
WorkerAt(w, pc) == ClientUp /\ wpc[w] = pc

WorkerGoes(w, pc) == wpc' = [wpc EXCEPT ![w] = pc] /\ UNCHANGED wstop

\* Mutant of WorkerLoop: stopping is not tested.
WorkerLoopsForEver(w) ==
  /\ WorkerAt(w, "loop")
  /\ WorkerGoes(w, "send")
  /\ \E p \in Payloads : sent' = [sent EXCEPT ![w] = p]
  /\ UNCHANGED <<c2sVars, s2cVars, serverVars, lost>>

\* while (!stopping), then GetPayload.
WorkerLoop(w) ==
  /\ WorkerAt(w, "loop")
  /\ \/ wstop[w] /\ WorkerGoes(w, "done") /\ UNCHANGED sent
     \/ /\ ~wstop[w] /\ WorkerGoes(w, "send")
        /\ \E p \in Payloads : sent' = [sent EXCEPT ![w] = p]
  /\ UNCHANGED <<c2sVars, s2cVars, serverVars, lost>>

\* SendConnectionData succeeds, and ReadPacketData is called with a buffer
\* of the size that was sent.  When the server process is gone a write can
\* still succeed: nobody reads the bytes, and a reset comes back.
WorkerSends(w) ==
  /\ WorkerAt(w, "send")
  /\ \/ ServerUp /\ ToServer!Write(sent[w]) /\ UNCHANGED lost
     \/ ~ServerUp /\ lost' = lost \cup {"client"} /\ UNCHANGED c2sVars
  /\ ToClient!Call(w, Len(sent[w]))
  /\ WorkerGoes(w, "read")
  /\ UNCHANGED <<sent, serverVars>>

\* SendConnectionData fails.  A write after the reset of an earlier one
\* raises SIGPIPE, which no part of the program handles: the process ends.
WorkerSendFails(w) ==
  /\ WorkerAt(w, "send")
  /\ \/ (CallsFail \/ "client" \in lost) /\ WorkerGoes(w, "done") /\ UNCHANGED c2sVars
     \/ "client" \in lost /\ ToServer!Close /\ UNCHANGED <<wpc, wstop>>
  /\ UNCHANGED <<sent, s2cVars, serverVars, lost>>

WorkerReads(w) ==
  /\ WorkerAt(w, "read")
  /\ ToClient!Step(w)
  /\ UNCHANGED <<c2sVars, workerVars, serverVars, lost>>

\* result<0 ends the worker; any other result, 0 included, is a reply.
WorkerTakesReply(w) ==
  /\ WorkerAt(w, "read") /\ ToClient!Returned(w)
  /\ WorkerGoes(w, IF s2cRd[w].result < 0 THEN "done" ELSE "loop")
  /\ sent' = [sent EXCEPT ![w] = NoPayload]
  /\ ToClient!Leave(w)
  /\ UNCHANGED <<c2sVars, serverVars, lost>>

Worker(w) ==
  \/ WorkerLoop(w) \/ WorkerSends(w) \/ WorkerSendFails(w)
  \/ WorkerReads(w) \/ WorkerTakesReply(w)

-----------------------------------------------------------------------------
(***************************************************************************)
(* server_client::Run                                                      *)
(***************************************************************************)
ServerAt(pc) == ServerUp /\ spc = pc

ServerGoes(pc) == spc' = pc /\ UNCHANGED sstop

ServerLoop ==
  /\ ServerAt("loop")
  /\ ServerGoes(IF sstop THEN "done" ELSE "poll")
  /\ UNCHANGED <<repbuf, c2sVars, s2cVars, workerVars, lost>>

\* ReadyForData( ..., 1 ), then ReadPacketData into workbuf.
ServerPoll ==
  /\ ServerAt("poll")
  /\ \/ CallsFail /\ ServerGoes("done") /\ UNCHANGED c2sVars
     \/ ~ToServer!Readable /\ ServerGoes("loop") /\ UNCHANGED c2sVars
     \/ ToServer!Readable /\ ServerGoes("read") /\ ToServer!Call("server", MaxServerPacket)
  /\ UNCHANGED <<repbuf, s2cVars, workerVars, lost>>

ServerReads ==
  /\ ServerAt("read")
  /\ ToServer!Step("server")
  /\ UNCHANGED <<s2cVars, workerVars, serverVars, lost>>

\* Mutant of ServerTakesPacket: a packet with an empty payload is an error.
ServerRefusesEmpty ==
  /\ ServerAt("read") /\ ToServer!Returned("server")
  /\ IF c2sRd["server"].result <= HeaderLen
     THEN ServerGoes("done") /\ UNCHANGED repbuf
     ELSE ServerGoes("send") /\ repbuf' = ReplyTo(c2sRd["server"].got)
  /\ ToServer!Leave("server")
  /\ UNCHANGED <<s2cVars, workerVars, lost>>

\* Mutant of ServerTakesPacket: the result is not tested.
ServerAnswersAnyway ==
  /\ ServerAt("read") /\ ToServer!Returned("server")
  /\ ServerGoes("send") /\ repbuf' = ReplyTo(c2sRd["server"].got)
  /\ ToServer!Leave("server")
  /\ UNCHANGED <<s2cVars, workerVars, lost>>

\* Mutant of ServerTakesPacket: an empty payload gets no reply.
ServerSkipsEmpty ==
  /\ ServerAt("read") /\ ToServer!Returned("server")
  /\ LET result == c2sRd["server"].result IN
     /\ ServerGoes(IF result <= 0 THEN "done" ELSE IF result = HeaderLen THEN "loop" ELSE "send")
     /\ repbuf' = IF result > HeaderLen THEN ReplyTo(c2sRd["server"].got) ELSE repbuf
  /\ ToServer!Leave("server")
  /\ UNCHANGED <<s2cVars, workerVars, lost>>

\* result<=0 ends the thread; GetReply makes the reply otherwise.
ServerTakesPacket ==
  /\ ServerAt("read") /\ ToServer!Returned("server")
  /\ IF c2sRd["server"].result <= 0
     THEN ServerGoes("done") /\ UNCHANGED repbuf
     ELSE ServerGoes("send") /\ repbuf' = ReplyTo(c2sRd["server"].got)
  /\ ToServer!Leave("server")
  /\ UNCHANGED <<s2cVars, workerVars, lost>>

\* Mutant of ServerSends: the reply is sent again and again.
ServerSendsAgain ==
  /\ ServerAt("send")
  /\ ClientUp /\ ToClient!Write(repbuf)
  /\ UNCHANGED <<c2sVars, workerVars, serverVars, lost>>

ServerSends ==
  /\ ServerAt("send")
  /\ \/ ClientUp /\ ToClient!Write(repbuf) /\ UNCHANGED lost
     \/ ~ClientUp /\ lost' = lost \cup {"server"} /\ UNCHANGED s2cVars
  /\ ServerGoes("loop")
  /\ repbuf' = NoPayload
  /\ UNCHANGED <<c2sVars, workerVars>>

\* As for the worker: SIGPIPE ends the server process.
ServerSendFails ==
  /\ ServerAt("send")
  /\ \/ /\ CallsFail \/ "server" \in lost
        /\ ServerGoes("done") /\ repbuf' = NoPayload /\ UNCHANGED s2cVars
     \/ "server" \in lost /\ ToClient!Close /\ UNCHANGED serverVars
  /\ UNCHANGED <<c2sVars, workerVars, lost>>

Server ==
  \/ ServerLoop \/ ServerPoll \/ ServerReads \/ ServerTakesPacket
  \/ ServerSends \/ ServerSendFails

-----------------------------------------------------------------------------
\* fixed_client::Stop asks the worker to stop.
ClientStops(w) ==
  /\ ClientUp /\ ~wstop[w]
  /\ wstop' = [wstop EXCEPT ![w] = TRUE]
  /\ UNCHANGED <<wpc, sent, c2sVars, s2cVars, serverVars, lost>>

\* ~server_client asks the thread to stop; the connection stays open.
ServerStops ==
  /\ ServerMayStop /\ ServerUp /\ ~sstop
  /\ sstop' = TRUE
  /\ UNCHANGED <<spc, repbuf, c2sVars, s2cVars, workerVars, lost>>

\* The kernel of the process closes the connection; bytes it had not read
\* make it send a reset.
ClientExits ==
  /\ ClientMayExit /\ ToServer!Close
  /\ lost' = IF s2c = <<>> THEN lost ELSE lost \cup {"server"}
  /\ UNCHANGED <<s2cVars, workerVars, serverVars>>

ServerExits ==
  /\ ServerMayExit /\ ToClient!Close
  /\ lost' = IF c2s = <<>> THEN lost ELSE lost \cup {"client"}
  /\ UNCHANGED <<c2sVars, workerVars, serverVars>>

Next ==
  \/ \E w \in Workers : Worker(w) \/ ClientStops(w)
  \/ Server \/ ServerStops \/ ClientExits \/ ServerExits

\* The threads are scheduled, and TCP delivers what was written.
Fairness == WF_vars(Server) /\ \A w \in Workers : WF_vars(Worker(w))

Spec == Init /\ [][Next]_vars /\ Fairness

-----------------------------------------------------------------------------
(***************************************************************************)
(* Properties                                                              *)
(***************************************************************************)

\* What ReadPacketData hands to its caller as read is exactly one packet, as
\* it was sent.  recv is asked for more than the rest of the packet, so this
\* depends on there being no second packet in the stream.
WholePackets ==
  /\ ToServer!Returned("server") /\ c2sRd["server"].result > 0
       => ToServer!IsPacket(c2sRd["server"].got)
  /\ \A w \in Workers : ToClient!Returned(w) /\ s2cRd[w].result > 0
       => ToClient!IsPacket(s2cRd[w].got)

\* A worker and the server_client never wait for each other: while both
\* processes are there and the worker is in a recv that finds nothing, the
\* server is about to reply, and neither waits for the rest of a packet.
ServerWaits ==
  \/ spc \in {"loop", "poll"} /\ c2s = <<>>
  \/ spc = "read" /\ ToServer!Waits("server")

NeverBothWait ==
  ClientUp /\ ServerUp =>
    \A w \in Workers : ~(wpc[w] = "read" /\ ToClient!Waits(w) /\ ServerWaits)

\* The reply a worker reads is the reply to the packet that worker sent.
OwnReply ==
  \A w \in Workers : ToClient!Returned(w) /\ s2cRd[w].result > 0
    => s2cRd[w].got = ReplyTo(sent[w])

\* With one worker, both ends together implement RequestReply.
W == CHOOSE w \in Workers : TRUE
Arrived == s2cRd[W].got \o s2c
Turn ==
  IF ~ClientUp \/ wpc[W] = "done" THEN "over"
  ELSE IF wpc[W] # "read" THEN "worker"
  ELSE IF Arrived = <<>> THEN "server" ELSE "answered"

Turns == INSTANCE RequestReply WITH
  Packets <- Payloads, None <- NoPayload, turn <- Turn,
  ask <- IF Turn \in {"server", "answered"} THEN sent[W] ELSE NoPayload,
  ans <- IF Turn = "answered" THEN Arrived ELSE NoPayload

InTurns == Turns!Spec

\* A worker that waits for a reply gets one, or gives up.
Answered == \A w \in Workers : (wpc[w] = "read") ~> (wpc[w] # "read")

\* Workers that are asked to stop return, so that fixed_client::Stop, which
\* joins them, does too.
WorkersStop ==
  (\A w \in Workers : wstop[w]) ~> (~ClientUp \/ \A w \in Workers : wpc[w] = "done")

\* "could not write everything?": a client that leaves costs the server at
\* most the thread that served it, never the process.  The server never sends
\* on a connection that was reset, which would raise SIGPIPE.  With one worker
\* this holds because one packet is outstanding: after a reply that nobody
\* read, the server finds no further packet to answer.
ServerSurvives == ~(ServerAt("send") /\ "server" \in lost)
=============================================================================
