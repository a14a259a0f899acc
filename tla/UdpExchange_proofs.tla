-------------------------- MODULE UdpExchange_proofs --------------------------
(***************************************************************************)
(* Proofs about the exchange over UDP, for any number of workers and       *)
(* datagrams of any size: although all peers share one connection of the   *)
(* server, and whatever is lost, reordered or fails, a worker never has    *)
(* more than one packet or reply under way, and the reply it reads is its  *)
(* own.                                                                    *)
(***************************************************************************)
EXTENDS UdpExchange, TLAPS

\* The single accept: there is at most one thread.
OneThread ==
  /\ \A t, u \in Threads : spc[t] # "none" /\ spc[u] # "none" => t = u
  /\ ~serverOk => \A t \in Threads : spc[t] = "none"

\* Places of OneUnderWay, one by one.
InUp(w) == \E d \in up : d.peer = w
InServer(w) == \E i \in DOMAIN srvq : srvq[i].peer = w
InThread(w) == \E t \in Threads : spc[t] = "send" /\ addr[t] = w
InDown(w) == \E d \in down : d.peer = w
InClient(w) == cliq[w] # <<>>

\* Each place has room for one of w,
Single ==
  /\ \A d, e \in up : d.peer = e.peer => d = e
  /\ \A i, j \in DOMAIN srvq : srvq[i].peer = srvq[j].peer => i = j
  /\ \A d, e \in down : d.peer = e.peer => d = e
  /\ \A w \in Workers : Len(cliq[w]) <= 1

\* and what is in one is in no other.
ApartFor(w) ==
  /\ InUp(w) => ~InServer(w) /\ ~InThread(w) /\ ~InDown(w) /\ ~InClient(w)
  /\ InServer(w) => ~InThread(w) /\ ~InDown(w) /\ ~InClient(w)
  /\ InThread(w) => ~InDown(w) /\ ~InClient(w)
  /\ InDown(w) => ~InClient(w)

Idle(w) == ~InUp(w) /\ ~InServer(w) /\ ~InThread(w) /\ ~InDown(w) /\ ~InClient(w)

Apart ==
  \A w \in Workers : ApartFor(w) /\ (wpc[w] \in {"loop", "send"} => Idle(w))

\* What is under way is the packet last sent, whole, or the reply to it.
Fits(data) == data.size = data.len /\ data.len <= MaxDatagram

PacketsTrue ==
  /\ \A d \in up : d.data = sent[d.peer] /\ Fits(d.data)
  /\ \A i \in DOMAIN srvq : srvq[i].data = sent[srvq[i].peer] /\ Fits(srvq[i].data)
  /\ \A w \in Workers : sent[w].size = sent[w].len
  /\ \A w \in Workers : wpc[w] \in {"send", "read"} => sent[w] \in Payloads

RepliesTrue ==
  /\ \A d \in down : d.data = ReplyTo(sent[d.peer])
  /\ \A w \in Workers : \A i \in DOMAIN cliq[w] : cliq[w][i] = ReplyTo(sent[w])

\* Between the peek and the read nobody else takes the datagram.
ThreadsTrue ==
  \A t \in Threads :
    /\ spc[t] = "recv" =>
         /\ srvq # <<>> /\ got[t] = Nothing
         /\ addr[t] = Head(srvq).peer /\ size[t] = Head(srvq).data.size
    /\ spc[t] = "send" => addr[t] \in Workers /\ got[t] = sent[addr[t]]

IInv ==
  /\ TypeOK /\ OneThread /\ Single /\ Apart
  /\ PacketsTrue /\ RepliesTrue /\ ThreadsTrue

-----------------------------------------------------------------------------
\* The reply plug-ins give data for data.
LEMMA ReplyType ==
  ASSUME UdpExchangeAssumption, NEW d \in Data
  PROVE  ReplyTo(d) \in Data
BY DEF UdpExchangeAssumption, ReplyTo, Data, Packet

\* The buffer has room for every packet that was sent.
LEMMA WithType ==
  ASSUME UdpExchangeAssumption, NEW p \in Data, NEW d \in Data
  PROVE  With(p, d) \in Data
BY DEF UdpExchangeAssumption, With, Data, Lesser

LEMMA WithWhole ==
  ASSUME UdpExchangeAssumption, NEW d \in Data, Fits(d)
  PROVE  With(Nothing, d) = d
<1>1. With(Nothing, d) = [d EXCEPT !.len = Lesser(d.len, MaxServerPacket - 0)]
  BY DEF With, Nothing
<1>2. Lesser(d.len, MaxServerPacket - 0) = d.len
  BY DEF UdpExchangeAssumption, Fits, Data, Lesser
<1> QED BY <1>1, <1>2 DEF Data

LEMMA PayloadType ==
  ASSUME UdpExchangeAssumption
  PROVE  /\ Payloads \subseteq Data /\ Nothing \in Data
         /\ \A p \in Payloads : p.size = p.len
BY DEF UdpExchangeAssumption, Payloads, Packet, Data, Nothing

-----------------------------------------------------------------------------
LEMMA InitHolds == UdpExchangeAssumption /\ Init => IInv
<1> SUFFICES ASSUME UdpExchangeAssumption, Init PROVE IInv
  OBVIOUS
<1> USE DEF Init, ServerSocket, ClientSockets
<1>1. TypeOK
  <2>1. Nothing \in Data
    BY PayloadType
  <2>2. up \subseteq Datagrams /\ srvq \in Seq(Datagrams) /\ down \subseteq Datagrams
    OBVIOUS
  <2>3. cliq \in [Workers -> Seq(Data)] /\ lost \subseteq Workers
    OBVIOUS
  <2>4. sent \in [Workers -> Data] /\ got \in [Threads -> Data]
    BY <2>1
  <2>5. /\ wpc \in [Workers -> {"loop", "send", "read", "done"}]
        /\ wstop \in [Workers -> BOOLEAN] /\ serverOk \in BOOLEAN /\ sstop \in BOOLEAN
    OBVIOUS
  <2>6. /\ spc \in [Threads -> {"none", "loop", "poll", "peek", "recv", "send", "done"}]
        /\ addr \in [Threads -> Workers \cup {NoWorker}] /\ size \in [Threads -> Nat]
    OBVIOUS
  <2> QED BY <2>2, <2>3, <2>4, <2>5, <2>6 DEF TypeOK
<1>2. OneThread
  BY DEF OneThread
<1>3. Single
  BY DEF Single
<1>4. Apart
  BY DEF Apart, ApartFor, Idle, InUp, InServer, InThread, InDown, InClient
<1>5. PacketsTrue
  BY DEF PacketsTrue, Nothing
<1>6. RepliesTrue
  BY DEF RepliesTrue
<1>7. ThreadsTrue
  BY DEF ThreadsTrue
<1> QED BY <1>1, <1>2, <1>3, <1>4, <1>5, <1>6, <1>7 DEF IInv

-----------------------------------------------------------------------------
(***************************************************************************)
(* Every kind of step keeps it.                                            *)
(***************************************************************************)
\* A step that leaves the network and the packets alone, sends a worker only
\* to "done" or from "loop" to "done", and brings no thread to "recv" or
\* "send" keeps all but the types and OneThread.
LEMMA GivesUp ==
  ASSUME UdpExchangeAssumption, IInv, TypeOK', OneThread',
         UNCHANGED <<up, srvq, down, cliq, sent>>,
         \A w \in Workers : wpc'[w] = wpc[w] \/ wpc'[w] = "done",
         \A t \in Threads : spc'[t] \in {"recv", "send"} =>
            spc'[t] = spc[t] /\ addr'[t] = addr[t] /\ size'[t] = size[t] /\ got'[t] = got[t]
  PROVE  IInv'
<1>1. Single'
  BY DEF IInv, Single
<1>2. Apart'
  BY DEF IInv, Apart, ApartFor, Idle, InUp, InServer, InThread, InDown, InClient
<1>3. PacketsTrue'
  BY DEF IInv, PacketsTrue, Fits
<1>4. RepliesTrue'
  BY DEF IInv, RepliesTrue, ReplyTo
<1>5. ThreadsTrue'
  BY DEF IInv, ThreadsTrue
<1> QED BY <1>1, <1>2, <1>3, <1>4, <1>5 DEF IInv

LEMMA NetworkKeeps ==
  ASSUME UdpExchangeAssumption, IInv, NEW w \in Workers, Network(w)
  PROVE  IInv'
<1> USE DEF IInv
<1>1. CASE DeliverUp(w)
  <2>1. TypeOK'
    <3>1. PICK d \in up : /\ up' = up \ {d}
                          /\ srvq' = Append(srvq, d) \/ srvq' = srvq
                          /\ lost' = lost \cup {w} \/ lost' = lost
      BY <1>1 DEF DeliverUp
    <3>2. d \in Datagrams
      BY DEF TypeOK
    <3>3. srvq' \in Seq(Datagrams)
      <4>1. srvq \in Seq(Datagrams)
        BY DEF TypeOK
      <4> QED BY <3>1, <3>2, <4>1
    <3>4. up' \subseteq Datagrams /\ lost' \subseteq Workers
      BY <3>1 DEF TypeOK
    <3> QED BY <1>1, <3>3, <3>4 DEF DeliverUp, TypeOK, workerVars, serverVars
  <2>2. OneThread'
    BY <1>1 DEF DeliverUp, OneThread, serverVars
  <2>3. PICK d \in up : /\ d.peer = w /\ up' = up \ {d}
                        /\ srvq' = Append(srvq, d) \/ srvq' = srvq
    BY <1>1 DEF DeliverUp
  <2>4. UNCHANGED <<down, cliq, wpc, sent, spc, addr, size, got>>
    BY <1>1 DEF DeliverUp, workerVars, serverVars
  <2>5. srvq \in Seq(Datagrams) /\ d \in Datagrams
    BY DEF TypeOK
  <2>6. Single'
    BY <2>3, <2>4, <2>5 DEF Single, Apart, ApartFor, InUp, InServer
  <2>7. Apart'
    BY <2>3, <2>4, <2>5 DEF Single, Apart, ApartFor, Idle, InUp, InServer, InThread, InDown, InClient
  <2>8. PacketsTrue'
    BY <2>3, <2>4, <2>5 DEF PacketsTrue, Fits
  <2>9. RepliesTrue'
    BY <2>4 DEF RepliesTrue, ReplyTo
  <2>10. ThreadsTrue'
    BY <2>3, <2>4, <2>5 DEF ThreadsTrue
  <2> QED BY <2>1, <2>2, <2>6, <2>7, <2>8, <2>9, <2>10
<1>2. CASE DeliverDown(w)
  <2>1. PICK d \in down : /\ d.peer = w /\ down' = down \ {d}
                          /\ cliq' = [cliq EXCEPT ![w] = Append(cliq[w], d.data)]
    BY <1>2 DEF DeliverDown
  <2>2. UNCHANGED <<up, srvq, lost, wpc, sent, wstop, serverOk, spc, addr, size, got, sstop>>
    BY <1>2 DEF DeliverDown, workerVars, serverVars
  <2>3. d \in Datagrams /\ d.data \in Data /\ cliq[w] = <<>>
    BY <2>1 DEF TypeOK, Datagrams, Apart, ApartFor, InDown, InClient
  <2>4. Append(cliq[w], d.data) = <<d.data>>
    BY <2>3
  <2>5. cliq' = [cliq EXCEPT ![w] = <<d.data>>]
    BY <2>1, <2>4
  <2>6. TypeOK'
    BY <2>1, <2>2, <2>3, <2>5 DEF TypeOK
  <2>7. OneThread' /\ PacketsTrue' /\ ThreadsTrue'
    BY <2>2 DEF OneThread, PacketsTrue, ThreadsTrue, Fits
  <2>8. Single'
    BY <2>1, <2>2, <2>5 DEF Single, TypeOK
  <2>9. Apart'
    BY <2>1, <2>2, <2>5 DEF Single, Apart, ApartFor, Idle, InUp, InServer, InThread, InDown, InClient, TypeOK
  <2>10. RepliesTrue'
    BY <2>1, <2>2, <2>5 DEF RepliesTrue, ReplyTo, TypeOK
  <2> QED BY <2>6, <2>7, <2>8, <2>9, <2>10
<1>3. CASE LoseUp(w) \/ LoseDown(w)
  <2>1. UNCHANGED <<srvq, cliq, wpc, sent, wstop, serverOk, spc, addr, size, got, sstop>>
    BY <1>3 DEF LoseUp, LoseDown, workerVars, serverVars
  <2>2. up' \subseteq up /\ down' \subseteq down /\ lost' = lost \cup {w}
    BY <1>3 DEF LoseUp, LoseDown
  <2>3. TypeOK'
    BY <2>1, <2>2 DEF TypeOK
  <2>4. OneThread' /\ PacketsTrue' /\ ThreadsTrue'
    BY <2>1, <2>2 DEF OneThread, PacketsTrue, ThreadsTrue, Fits
  <2>5. Single' /\ RepliesTrue'
    BY <2>1, <2>2 DEF Single, RepliesTrue, ReplyTo
  <2>6. Apart'
    BY <2>1, <2>2 DEF Apart, ApartFor, Idle, InUp, InServer, InThread, InDown, InClient
  <2> QED BY <2>3, <2>4, <2>5, <2>6
<1> QED BY <1>1, <1>2, <1>3 DEF Network

LEMMA WorkerKeeps ==
  ASSUME UdpExchangeAssumption, IInv, NEW w \in Workers,
         Worker(w) \/ WorkerReadFails(w) \/ ClientStops(w)
  PROVE  IInv'
<1> USE DEF IInv
<1>1. CASE WorkerLoop(w) /\ ~wstop[w]
  <2>1. PICK p \in Payloads : sent' = [sent EXCEPT ![w] = p]
    BY <1>1 DEF WorkerLoop
  <2>2. wpc' = [wpc EXCEPT ![w] = "send"] /\ wpc[w] = "loop"
    BY <1>1 DEF WorkerLoop, WorkerGoes
  <2>3. UNCHANGED <<up, srvq, down, cliq, lost, wstop, serverOk, spc, addr, size, got, sstop>>
    BY <1>1 DEF WorkerLoop, WorkerGoes, netVars, serverVars
  <2>4. Idle(w)
    BY <2>2 DEF Apart
  <2>5. p \in Data /\ p.size = p.len
    BY PayloadType
  <2>6. TypeOK'
    BY <2>1, <2>2, <2>3, <2>5 DEF TypeOK
  <2>7. OneThread' /\ Single'
    BY <2>3 DEF OneThread, Single
  <2>8. Apart'
    BY <2>2, <2>3, <2>4 DEF Apart, ApartFor, Idle, InUp, InServer, InThread, InDown, InClient, TypeOK
  <2>9. \A v \in Workers : v # w => sent'[v] = sent[v]
    BY <2>1 DEF TypeOK
  <2>10. PacketsTrue'
    <3>1. \A d \in up : d.peer \in Workers \ {w}
      BY <2>4 DEF Idle, InUp, TypeOK, Datagrams
    <3>2. \A i \in DOMAIN srvq : srvq[i].peer \in Workers \ {w}
      <4>1. srvq \in Seq(Datagrams)
        BY DEF TypeOK
      <4>2. \A i \in DOMAIN srvq : srvq[i] \in Datagrams
        BY <4>1
      <4> QED BY <2>4, <4>2 DEF Idle, InServer, Datagrams
    <3>3. sent'[w] = p
      BY <2>1 DEF TypeOK
    <3>4. \A v \in Workers : v # w => wpc'[v] = wpc[v]
      BY <2>2 DEF TypeOK
    <3> QED BY <2>3, <2>5, <2>9, <3>1, <3>2, <3>3, <3>4 DEF PacketsTrue, Fits
  <2>11. RepliesTrue'
    <3>1. \A d \in down : d.peer \in Workers \ {w}
      BY <2>4 DEF Idle, InDown, TypeOK, Datagrams
    <3>2. DOMAIN cliq[w] = {}
      BY <2>4 DEF Idle, InClient
    <3> QED BY <2>3, <2>9, <3>1, <3>2 DEF RepliesTrue, ReplyTo
  <2>12. ThreadsTrue'
    BY <2>3, <2>4, <2>9 DEF ThreadsTrue, Idle, InThread
  <2> QED BY <2>6, <2>7, <2>8, <2>10, <2>11, <2>12
<1>2. CASE WorkerSends(w)
  <2>1. wpc[w] = "send" /\ wpc' = [wpc EXCEPT ![w] = "read"]
    BY <1>2 DEF WorkerSends, WorkerGoes
  <2>2. up' = up \cup {Datagram(w, sent[w])} /\ sent[w].len <= MaxDatagram
    BY <1>2 DEF WorkerSends, SendTo
  <2>3. UNCHANGED <<srvq, down, cliq, lost, sent, wstop, serverOk, spc, addr, size, got, sstop>>
    BY <1>2 DEF WorkerSends, SendTo, WorkerGoes, serverVars
  <2>4. Idle(w)
    BY <2>1 DEF Apart
  <2>5. sent[w] \in Data /\ Fits(sent[w])
    BY <2>2 DEF PacketsTrue, Fits, TypeOK
  <2> DEFINE new == Datagram(w, sent[w])
  <2>6. new \in Datagrams /\ new.peer = w /\ new.data = sent[w]
    BY <2>5 DEF Datagram, Datagrams
  <2> HIDE DEF new
  <2>7. up' = up \cup {new}
    BY <2>2 DEF new
  <2>8. TypeOK'
    BY <2>1, <2>3, <2>6, <2>7 DEF TypeOK
  <2>9. OneThread' /\ ThreadsTrue' /\ RepliesTrue'
    BY <2>3 DEF OneThread, ThreadsTrue, RepliesTrue, ReplyTo
  <2>10. Single'
    BY <2>3, <2>4, <2>6, <2>7 DEF Single, Idle, InUp
  <2>11. Apart'
    BY <2>1, <2>3, <2>4, <2>6, <2>7 DEF Apart, ApartFor, Idle, InUp, InServer, InThread, InDown, InClient, TypeOK
  <2>12. PacketsTrue'
    <3>1. \A v \in Workers : wpc'[v] \in {"send", "read"} => wpc[v] \in {"send", "read"}
      BY <2>1 DEF TypeOK
    <3> QED BY <2>3, <2>5, <2>6, <2>7, <3>1 DEF PacketsTrue, Fits
  <2> QED BY <2>8, <2>9, <2>10, <2>11, <2>12
<1>3. CASE WorkerReads(w)
  <2>1. CASE Head(cliq[w]).size > sent[w].size
    <3>1. /\ UNCHANGED <<up, srvq, down, cliq, lost, sent, wstop, serverOk, spc, addr, size, got, sstop>>
          /\ wpc' = [wpc EXCEPT ![w] = "done"]
      BY <1>3, <2>1 DEF WorkerReads, WorkerGoes, serverVars
    <3>2. TypeOK' /\ OneThread'
      BY <3>1 DEF TypeOK, OneThread
    <3> QED BY <3>1, <3>2, GivesUp DEF TypeOK
  <2>2. CASE ~(Head(cliq[w]).size > sent[w].size)
    <3>1. /\ UNCHANGED <<up, srvq, down, lost, sent, wstop, serverOk, spc, addr, size, got, sstop>>
          /\ wpc' = [wpc EXCEPT ![w] = "loop"]
          /\ cliq' = [cliq EXCEPT ![w] = Tail(cliq[w])]
          /\ cliq[w] # <<>> /\ wpc[w] = "read"
      BY <1>3, <2>2 DEF WorkerReads, WorkerGoes, serverVars
    <3>2. cliq[w] \in Seq(Data) /\ Len(cliq[w]) <= 1
      BY DEF TypeOK, Single
    <3>3. Tail(cliq[w]) = <<>>
      BY <3>1, <3>2
    <3>4. cliq' = [cliq EXCEPT ![w] = <<>>]
      BY <3>1, <3>3
    <3>5. TypeOK'
      BY <3>1, <3>4 DEF TypeOK
    <3>6. OneThread' /\ PacketsTrue' /\ ThreadsTrue'
      BY <3>1 DEF OneThread, PacketsTrue, ThreadsTrue, Fits
    <3>7. Single' /\ RepliesTrue'
      BY <3>1, <3>4 DEF Single, RepliesTrue, ReplyTo, TypeOK
    <3>8. Apart'
      BY <3>1, <3>4 DEF Apart, ApartFor, Idle, InUp, InServer, InThread, InDown, InClient, TypeOK
    <3> QED BY <3>5, <3>6, <3>7, <3>8
  <2> QED BY <2>1, <2>2
<1>4. CASE (WorkerLoop(w) /\ wstop[w]) \/ WorkerSendFails(w) \/ WorkerReadFails(w)
  <2>1. /\ UNCHANGED <<up, srvq, down, cliq, lost, sent, wstop, serverOk, spc, addr, size, got, sstop>>
        /\ wpc' = [wpc EXCEPT ![w] = "done"]
    BY <1>4 DEF WorkerLoop, WorkerSendFails, WorkerReadFails, WorkerGoes, netVars, serverVars
  <2>2. TypeOK' /\ OneThread'
    BY <2>1 DEF TypeOK, OneThread
  <2> QED BY <2>1, <2>2, GivesUp DEF TypeOK
<1>5. CASE ClientStops(w)
  <2>1. /\ UNCHANGED <<up, srvq, down, cliq, lost, wpc, sent, serverOk, spc, addr, size, got, sstop>>
        /\ wstop' = [wstop EXCEPT ![w] = TRUE]
    BY <1>5 DEF ClientStops, netVars, serverVars
  <2>2. TypeOK' /\ OneThread'
    BY <2>1 DEF TypeOK, OneThread
  <2> QED BY <2>1, <2>2, GivesUp
<1> QED BY <1>1, <1>2, <1>3, <1>4, <1>5 DEF Worker

LEMMA ListenerKeeps ==
  ASSUME UdpExchangeAssumption, IInv, ListenerAccepts
  PROVE  IInv'
<1> USE DEF IInv
<1>1. UNCHANGED <<up, srvq, down, cliq, lost, wpc, sent, wstop, addr, size, got, sstop>>
  BY DEF ListenerAccepts, netVars, workerVars
<1>2. PICK t \in Threads : spc[t] = "none" /\ spc' = [spc EXCEPT ![t] = "loop"]
  BY DEF ListenerAccepts
<1>3. serverOk' = TRUE /\ \A u \in Threads : spc[u] = "none"
  BY DEF ListenerAccepts, ReadyToAccept, OneThread
<1>4. TypeOK' /\ OneThread'
  BY <1>1, <1>2, <1>3 DEF TypeOK, OneThread
<1> QED BY <1>1, <1>2, <1>3, <1>4, GivesUp DEF TypeOK

LEMMA ServerKeeps ==
  ASSUME UdpExchangeAssumption, IInv, NEW t \in Threads,
         ServerThread(t) \/ ServerReadFails(t)
  PROVE  IInv'
<1> USE DEF IInv
<1>1. CASE ServerLoop(t) \/ ServerPoll(t) \/ ServerReadFails(t) \/ ServerSendFails(t)
  <2>1. UNCHANGED <<up, srvq, down, cliq, lost, wpc, sent, wstop, serverOk, addr, size, got, sstop>>
    BY <1>1 DEF ServerLoop, ServerPoll, ServerReadFails, ServerSendFails, ServerGoes, netVars, workerVars
  <2>2. /\ spc[t] # "none"
        /\ \E pc \in {"loop", "poll", "peek", "done"} : spc' = [spc EXCEPT ![t] = pc]
    BY <1>1 DEF ServerLoop, ServerPoll, ServerReadFails, ServerSendFails, ServerGoes
  <2>3. TypeOK' /\ OneThread'
    BY <2>1, <2>2 DEF TypeOK, OneThread
  <2> QED BY <2>1, <2>2, <2>3, GivesUp DEF TypeOK
<1>2. CASE ServerPeeks(t)
  <2>1. UNCHANGED <<up, srvq, down, cliq, lost, wpc, sent, wstop, serverOk, sstop>>
    BY <1>2 DEF ServerPeeks, ServerGoes, netVars, workerVars
  <2>2. /\ spc[t] = "peek" /\ srvq # <<>>
        /\ addr' = [addr EXCEPT ![t] = Head(srvq).peer]
        /\ size' = [size EXCEPT ![t] = Head(srvq).data.size]
        /\ got' = [got EXCEPT ![t] = Nothing]
        /\ \E pc \in {"done", "recv"} : spc' = [spc EXCEPT ![t] = pc]
    BY <1>2 DEF ServerPeeks, ServerGoes, HeardFrom, Readable
  <2>3. Head(srvq) \in Datagrams
    <3>1. srvq \in Seq(Datagrams)
      BY DEF TypeOK
    <3> QED BY <2>2, <3>1
  <2>4. Head(srvq).peer \in Workers /\ Head(srvq).data.size \in Nat /\ Nothing \in Data
    BY <2>3, PayloadType DEF Datagrams, Data
  <2>5. TypeOK' /\ OneThread'
    BY <2>1, <2>2, <2>4 DEF TypeOK, OneThread
  <2>6. Single' /\ PacketsTrue' /\ RepliesTrue'
    BY <2>1 DEF Single, PacketsTrue, RepliesTrue, Fits, ReplyTo
  <2>7. \A w \in Workers : InThread(w)' => InThread(w)
    BY <2>2 DEF InThread, TypeOK
  <2>8. Apart'
    BY <2>1, <2>7 DEF Apart, ApartFor, Idle, InUp, InServer, InDown, InClient
  <2>9. ThreadsTrue'
    BY <2>1, <2>2 DEF ThreadsTrue, TypeOK
  <2> QED BY <2>5, <2>6, <2>8, <2>9
<1>3. CASE ServerReceives(t)
  <2> DEFINE d == Head(srvq)
  <2>1. UNCHANGED <<up, down, cliq, lost, wpc, sent, wstop, serverOk, size, sstop>>
    BY <1>3 DEF ServerReceives, ServerGoes, workerVars
  <2>2. /\ spc[t] = "recv" /\ srvq # <<>> /\ srvq' = Tail(srvq)
        /\ addr' = [addr EXCEPT ![t] = d.peer]
        /\ got' = [got EXCEPT ![t] = With(got[t], d.data)]
        /\ spc' = [spc EXCEPT ![t] = IF IsComplete(t, got'[t]) THEN "send" ELSE "recv"]
    BY <1>3 DEF ServerReceives, ServerGoes, HeardFrom, Readable
  <2>3. srvq \in Seq(Datagrams) /\ d = srvq[1] /\ 1 \in DOMAIN srvq
    <3>1. srvq \in Seq(Datagrams)
      BY DEF TypeOK
    <3> QED BY <2>2, <3>1
  <2>4. d \in Datagrams /\ d.peer \in Workers /\ d.data \in Data
    <3>1. d \in Datagrams
      BY <2>3
    <3> QED BY <3>1 DEF Datagrams
  <2>5. Fits(d.data) /\ d.data = sent[d.peer] /\ got[t] = Nothing /\ size[t] = d.data.size
    BY <2>2, <2>3 DEF PacketsTrue, ThreadsTrue
  <2>6. got' = [got EXCEPT ![t] = d.data]
    BY <2>2, <2>4, <2>5, WithWhole
  <2>7. IsComplete(t, got'[t])
    BY <2>4, <2>5, <2>6 DEF IsComplete, Fits, Data, TypeOK
  <2>8. spc' = [spc EXCEPT ![t] = "send"]
    BY <2>2, <2>7
  <2>9. srvq' \in Seq(Datagrams)
    BY <2>2, <2>3
  <2>10. \A i \in DOMAIN srvq' : i + 1 \in DOMAIN srvq /\ srvq'[i] = srvq[i + 1]
    BY <2>2, <2>3
  <2>11. TypeOK' /\ OneThread'
    BY <2>1, <2>2, <2>4, <2>6, <2>8, <2>9 DEF TypeOK, OneThread
  <2>12. Single'
    BY <2>1, <2>3, <2>9, <2>10 DEF Single
  <2>13. \A w \in Workers : InServer(w)' => InServer(w) /\ w # d.peer
    BY <2>3, <2>9, <2>10 DEF InServer, Single
  <2>14. \A w \in Workers : InThread(w)' => w = d.peer \/ InThread(w)
    BY <2>2, <2>8 DEF InThread, TypeOK
  <2>15. InServer(d.peer)
    BY <2>3 DEF InServer
  <2>16. Apart'
    BY <2>1, <2>13, <2>14, <2>15 DEF Apart, ApartFor, Idle, InUp, InDown, InClient
  <2>17. PacketsTrue'
    BY <2>1, <2>10 DEF PacketsTrue, Fits
  <2>18. RepliesTrue'
    BY <2>1 DEF RepliesTrue, ReplyTo
  <2>19. \A u \in Threads : u # t => spc'[u] \notin {"recv", "send"}
    BY <2>2, <2>8 DEF OneThread, TypeOK
  <2>20. ThreadsTrue'
    BY <2>1, <2>2, <2>4, <2>5, <2>6, <2>8, <2>19 DEF ThreadsTrue, TypeOK
  <2> QED BY <2>11, <2>12, <2>16, <2>17, <2>18, <2>20
<1>4. CASE ServerSends(t)
  <2> DEFINE w == addr[t]
             reply == Datagram(w, ReplyTo(got[t]))
  <2>1. UNCHANGED <<up, srvq, cliq, lost, wpc, sent, wstop, serverOk, addr, size, got, sstop>>
    BY <1>4 DEF ServerSends, ServerGoes, workerVars
  <2>2. spc[t] = "send" /\ spc' = [spc EXCEPT ![t] = "loop"] /\ down' = down \cup {reply}
    BY <1>4 DEF ServerSends, ServerGoes
  <2>3. w \in Workers /\ got[t] = sent[w] /\ got[t] \in Data
    BY <2>2 DEF ThreadsTrue, TypeOK
  <2>4. reply \in Datagrams /\ reply.peer = w /\ reply.data = ReplyTo(sent[w])
    BY <2>3, ReplyType DEF Datagram, Datagrams
  <2>5. InThread(w) /\ ~InDown(w) /\ ~InUp(w) /\ ~InServer(w) /\ ~InClient(w)
    BY <2>2, <2>3 DEF InThread, Apart, ApartFor
  <2> HIDE DEF reply
  <2>6. TypeOK' /\ OneThread'
    BY <2>1, <2>2, <2>4 DEF TypeOK, OneThread
  <2>7. Single'
    BY <2>1, <2>2, <2>4, <2>5 DEF Single, InDown
  <2>8. \A v \in Workers : InThread(v)' => InThread(v) /\ v # w
    BY <2>1, <2>2 DEF InThread, OneThread, TypeOK
  <2>9. \A v \in Workers : InDown(v)' => InDown(v) \/ v = w
    BY <2>2, <2>4 DEF InDown
  <2>10. Apart'
    BY <2>1, <2>3, <2>5, <2>8, <2>9 DEF Apart, ApartFor, Idle, InUp, InServer, InClient
  <2>11. PacketsTrue'
    BY <2>1 DEF PacketsTrue, Fits
  <2>12. RepliesTrue'
    BY <2>1, <2>2, <2>4 DEF RepliesTrue, ReplyTo
  <2>13. ThreadsTrue'
    BY <2>1, <2>2 DEF ThreadsTrue, TypeOK
  <2> QED BY <2>6, <2>7, <2>10, <2>11, <2>12, <2>13
<1> QED BY <1>1, <1>2, <1>3, <1>4 DEF ServerThread

LEMMA StepHolds ==
  ASSUME UdpExchangeAssumption, IInv, [Next]_vars
  PROVE  IInv'
<1>1. CASE UNCHANGED vars
  <2>1. UNCHANGED <<up, srvq, down, cliq, lost, wpc, sent, wstop, serverOk, spc, addr, size, got, sstop>>
    BY <1>1 DEF vars, netVars, workerVars, serverVars
  <2>2. TypeOK' /\ OneThread'
    BY <2>1 DEF IInv, TypeOK, OneThread
  <2> QED BY <2>1, <2>2, GivesUp
<1>2. CASE ServerStops
  <2>1. UNCHANGED <<up, srvq, down, cliq, lost, wpc, sent, wstop, serverOk, spc, addr, size, got>>
    BY <1>2 DEF ServerStops, netVars, workerVars
  <2>2. TypeOK' /\ OneThread'
    BY <1>2, <2>1 DEF ServerStops, IInv, TypeOK, OneThread
  <2> QED BY <2>1, <2>2, GivesUp
<1> QED BY <1>1, <1>2, NetworkKeeps, WorkerKeeps, ListenerKeeps, ServerKeeps DEF Next

\* The invariant: one thread, one packet for each worker, and what it carries.
THEOREM Invariance == Spec => []IInv
<1>1. UdpExchangeAssumption /\ Init => IInv
  BY InitHolds
<1>2. UdpExchangeAssumption /\ IInv /\ [Next]_vars => IInv'
  BY StepHolds
<1> QED BY <1>1, <1>2, UdpExchangeAssumption, PTL DEF Spec

\* Types, for any number of workers and threads.
THEOREM TypeCorrect == Spec => []TypeOK
<1>1. IInv => TypeOK BY DEF IInv
<1> QED BY <1>1, Invariance, PTL

-----------------------------------------------------------------------------
(***************************************************************************)
(* Nothing is forgotten: what a worker waits for is somewhere.             *)
(***************************************************************************)
Serving == \A t \in Threads : spc[t] # "done"

Owed(w) == wpc[w] = "read" /\ w \notin lost /\ Serving

Kept == \A w \in Workers : Owed(w) => ~Idle(w)

\* What is somewhere before a step, and stays or is passed on, is somewhere
\* after it.
LEMMA StaysKept ==
  ASSUME Kept, \A w \in Workers : Owed(w)' => Owed(w),
         \A w \in Workers : Owed(w)' /\ ~Idle(w) => ~Idle(w)'
  PROVE  Kept'
BY DEF Kept

LEMMA NetworkForgetsNone ==
  ASSUME IInv, Kept, NEW w \in Workers, Network(w)
  PROVE  Kept'
<1>1. UNCHANGED <<wpc, spc, addr>> /\ lost \subseteq lost'
  BY DEF Network, DeliverUp, DeliverDown, LoseUp, LoseDown, workerVars, serverVars
<1>2. (\A v \in Workers : Owed(v)' => Owed(v)) /\ \A v \in Workers : InThread(v)' <=> InThread(v)
  BY <1>1 DEF Owed, Serving, InThread
<1>3. srvq \in Seq(Datagrams) /\ cliq \in [Workers -> Seq(Data)]
      /\ up \subseteq Datagrams /\ down \subseteq Datagrams
  BY DEF IInv, TypeOK
<1>4. CASE DeliverUp(w)
  <2>1. PICK d \in up : /\ d.peer = w /\ up' = up \ {d}
                        /\ srvq' = Append(srvq, d) \/ (srvq' = srvq /\ w \in lost')
    BY <1>4 DEF DeliverUp
  <2>2. UNCHANGED <<down, cliq>> /\ d \in Datagrams
    BY <1>3, <1>4 DEF DeliverUp
  <2>3. \A v \in Workers : InServer(v) => InServer(v)'
    <3>1. \A i \in DOMAIN srvq : i \in DOMAIN srvq' /\ srvq'[i] = srvq[i]
      <4>1. \A i \in DOMAIN srvq : i \in DOMAIN Append(srvq, d) /\ Append(srvq, d)[i] = srvq[i]
        BY <1>3, <2>2
      <4> QED BY <2>1, <4>1
    <3> QED BY <3>1 DEF InServer
  <2>4. InServer(w)' \/ w \in lost'
    <3>1. ASSUME srvq' = Append(srvq, d)
          PROVE  InServer(w)'
      <4>1. Len(srvq) + 1 \in DOMAIN srvq' /\ srvq'[Len(srvq) + 1] = d
        BY <1>3, <2>2, <3>1
      <4> QED BY <2>1, <4>1 DEF InServer
    <3> QED BY <2>1, <3>1
  <2>5. \A v \in Workers : v # w /\ InUp(v) => InUp(v)'
    BY <2>1 DEF InUp
  <2> QED BY <1>2, <2>2, <2>3, <2>4, <2>5, StaysKept DEF Idle, InDown, InClient, Owed
<1>5. CASE DeliverDown(w)
  <2>1. PICK d \in down : /\ d.peer = w /\ down' = down \ {d}
                          /\ cliq' = [cliq EXCEPT ![w] = Append(cliq[w], d.data)]
    BY <1>5 DEF DeliverDown
  <2>2. UNCHANGED <<up, srvq>> /\ d.data \in Data
    BY <1>3, <1>5 DEF DeliverDown, Datagrams
  <2>3. InClient(w)' /\ \A v \in Workers : v # w => cliq'[v] = cliq[v]
    <3>1. cliq[w] \in Seq(Data) /\ cliq'[w] = Append(cliq[w], d.data)
      BY <1>3, <2>1
    <3>2. Append(cliq[w], d.data) # <<>>
      <4>1. Len(Append(cliq[w], d.data)) = Len(cliq[w]) + 1
        BY <2>2, <3>1
      <4> QED BY <3>1, <4>1
    <3> QED BY <1>3, <2>1, <3>1, <3>2 DEF InClient
  <2>4. \A v \in Workers : v # w /\ InDown(v) => InDown(v)'
    BY <2>1 DEF InDown
  <2> QED BY <1>2, <2>2, <2>3, <2>4, StaysKept DEF Idle, InUp, InServer, InClient
<1>6. CASE LoseUp(w) \/ LoseDown(w)
  <2>1. w \in lost' /\ UNCHANGED <<srvq, cliq>>
    BY <1>6 DEF LoseUp, LoseDown
  <2>2. \A v \in Workers : v # w => (InUp(v) => InUp(v)') /\ (InDown(v) => InDown(v)')
    BY <1>6 DEF LoseUp, LoseDown, InUp, InDown
  <2> QED BY <1>2, <2>1, <2>2, StaysKept DEF Idle, InServer, InClient, Owed
<1> QED BY <1>4, <1>5, <1>6 DEF Network

LEMMA WorkerForgetsNone ==
  ASSUME IInv, Kept, NEW w \in Workers, Worker(w) \/ WorkerReadFails(w) \/ ClientStops(w)
  PROVE  Kept'
<1>1. UNCHANGED <<srvq, down, lost, spc, addr>> /\ wpc \in [Workers -> {"loop", "send", "read", "done"}]
  BY DEF Worker, WorkerLoop, WorkerSends, WorkerSendFails, WorkerReads, WorkerReadFails, ClientStops,
         SendTo, netVars, serverVars, IInv, TypeOK
<1>2. \A v \in Workers : InServer(v)' = InServer(v) /\ InDown(v)' = InDown(v) /\ InThread(v)' = InThread(v)
  BY <1>1 DEF InServer, InDown, InThread
<1>3. CASE WorkerSends(w)
  <2>1. /\ wpc' = [wpc EXCEPT ![w] = "read"] /\ cliq' = cliq
        /\ up' = up \cup {Datagram(w, sent[w])}
    BY <1>3 DEF WorkerSends, WorkerGoes, SendTo
  <2>2. InUp(w)' /\ \A v \in Workers : InUp(v) => InUp(v)'
    <3>1. Datagram(w, sent[w]) \in up' /\ Datagram(w, sent[w]).peer = w /\ up \subseteq up'
      BY <2>1 DEF Datagram
    <3> QED BY <3>1, Zenon DEF InUp
  <2>3. \A v \in Workers : v # w => (Owed(v)' => Owed(v))
    BY <1>1, <2>1 DEF Owed, Serving
  <2> QED BY <1>2, <2>1, <2>2, <2>3 DEF Kept, Idle, InClient
<1>4. CASE WorkerLoop(w) \/ WorkerSendFails(w) \/ WorkerReads(w) \/ WorkerReadFails(w)
  <2>1. \E pc \in {"send", "loop", "done"} : wpc' = [wpc EXCEPT ![w] = pc]
    BY <1>4 DEF WorkerLoop, WorkerSendFails, WorkerReads, WorkerReadFails, WorkerGoes
  <2>2. up' = up /\ \A v \in Workers : v # w => cliq'[v] = cliq[v]
    BY <1>4 DEF WorkerLoop, WorkerSendFails, WorkerReads, WorkerReadFails, netVars, IInv, TypeOK
  <2>3. (\A v \in Workers : Owed(v)' => Owed(v)) /\ ~Owed(w)'
    BY <1>1, <2>1 DEF Owed, Serving
  <2> QED BY <1>2, <2>2, <2>3, StaysKept DEF Idle, InUp, InClient
<1>5. CASE ClientStops(w)
  <2>1. UNCHANGED <<up, cliq, wpc>>
    BY <1>5 DEF ClientStops, netVars
  <2> QED BY <1>1, <1>2, <2>1, StaysKept DEF Idle, InUp, InClient, Owed, Serving
<1> QED BY <1>3, <1>4, <1>5 DEF Worker

LEMMA ServerForgetsNone ==
  ASSUME UdpExchangeAssumption, IInv, Kept, NEW t \in Threads, ServerThread(t) \/ ServerReadFails(t)
  PROVE  Kept'
<1>1. UNCHANGED <<up, cliq, lost, wpc>>
  BY DEF ServerThread, ServerLoop, ServerPoll, ServerPeeks, ServerReceives, ServerSends, ServerSendFails,
         ServerReadFails, netVars, workerVars
<1>2. spc \in [Threads -> {"none", "loop", "poll", "peek", "recv", "send", "done"}]
      /\ addr \in [Threads -> Workers \cup {NoWorker}] /\ spc[t] # "done"
      /\ \E pc \in {"none", "loop", "poll", "peek", "recv", "send", "done"} : spc' = [spc EXCEPT ![t] = pc]
  BY DEF IInv, TypeOK, ServerThread, ServerLoop, ServerPoll, ServerPeeks, ServerReceives, ServerSends,
         ServerSendFails, ServerReadFails, ServerGoes
<1>3. \A v \in Workers : Owed(v)' => Owed(v)
  BY <1>1, <1>2 DEF Owed, Serving
<1>4. \A v \in Workers : InUp(v)' = InUp(v) /\ InClient(v)' = InClient(v)
  BY <1>1 DEF InUp, InClient
<1>5. CASE ServerLoop(t) \/ ServerPoll(t) \/ ServerPeeks(t) \/ ServerReadFails(t)
  <2>1. UNCHANGED <<srvq, down>> /\ spc[t] # "send" /\ \A u \in Threads : u # t => addr'[u] = addr[u]
    BY <1>2, <1>5 DEF ServerLoop, ServerPoll, ServerPeeks, ServerReadFails, HeardFrom, netVars
  <2>2. \A v \in Workers : InThread(v) => InThread(v)'
    BY <1>2, <2>1 DEF InThread
  <2> QED BY <1>3, <1>4, <2>1, <2>2, StaysKept DEF Idle, InServer, InDown
<1>6. CASE ServerSendFails(t)
  <2>1. spc'[t] = "done"
    BY <1>2, <1>6 DEF ServerSendFails, ServerGoes
  <2> QED BY <2>1 DEF Kept, Owed, Serving
<1>7. CASE ServerReceives(t)
  <2> DEFINE d == Head(srvq)
  <2>1. /\ spc[t] = "recv" /\ srvq # <<>> /\ srvq' = Tail(srvq) /\ down' = down
        /\ addr' = [addr EXCEPT ![t] = d.peer]
        /\ got' = [got EXCEPT ![t] = With(got[t], d.data)] /\ size' = size
        /\ spc' = [spc EXCEPT ![t] = IF IsComplete(t, got'[t]) THEN "send" ELSE "recv"]
    BY <1>7 DEF ServerReceives, ServerGoes, HeardFrom, Readable
  <2>2. srvq \in Seq(Datagrams) /\ d = srvq[1] /\ 1 \in DOMAIN srvq /\ d \in Datagrams
    <3>1. srvq \in Seq(Datagrams)
      BY DEF IInv, TypeOK
    <3> QED BY <2>1, <3>1
  <2>3. d.data \in Data /\ Fits(d.data) /\ got[t] = Nothing /\ size[t] = d.data.size
    BY <2>1, <2>2 DEF IInv, PacketsTrue, ThreadsTrue, Datagrams
  <2>4. got'[t] = d.data
    BY <2>1, <2>3, WithWhole DEF IInv, TypeOK
  <2>5. spc'[t] = "send" /\ addr'[t] = d.peer
    BY <1>2, <2>1, <2>3, <2>4 DEF IsComplete, Fits, Data
  <2>6. \A i \in DOMAIN srvq : i # 1 => i - 1 \in DOMAIN srvq' /\ srvq'[i - 1] = srvq[i]
    BY <2>1, <2>2
  <2>7. \A v \in Workers : InServer(v) => InServer(v)' \/ InThread(v)'
    BY <2>2, <2>5, <2>6 DEF InServer, InThread
  <2>8. \A v \in Workers : InThread(v) => InThread(v)'
    BY <1>2, <2>1, <2>5 DEF InThread
  <2> QED BY <1>3, <1>4, <2>1, <2>7, <2>8, StaysKept DEF Idle, InDown
<1>8. CASE ServerSends(t)
  <2>1. /\ spc[t] = "send" /\ UNCHANGED <<srvq, addr>>
        /\ down' = down \cup {Datagram(addr[t], ReplyTo(got[t]))}
    BY <1>8 DEF ServerSends
  <2>2. \A v \in Workers : InThread(v) => InThread(v)' \/ InDown(v)'
    <3>1. Datagram(addr[t], ReplyTo(got[t])) \in down' /\ Datagram(addr[t], ReplyTo(got[t])).peer = addr[t]
      BY <2>1 DEF Datagram
    <3>2. \A u \in Threads : u # t => spc'[u] = spc[u]
      BY <1>2
    <3>3. \E x \in down' : x.peer = addr[t]
      BY <3>1, Zenon
    <3>4. ASSUME NEW v \in Workers, NEW u \in Threads, spc[u] = "send", addr[u] = v
          PROVE  InThread(v)' \/ InDown(v)'
      BY <2>1, <3>2, <3>3, <3>4 DEF InThread, InDown
    <3> QED BY <3>4 DEF InThread
  <2>3. \A v \in Workers : (InDown(v) => InDown(v)') /\ InServer(v)' = InServer(v)
    BY <2>1 DEF InDown, InServer
  <2> QED BY <1>3, <1>4, <2>2, <2>3, StaysKept DEF Idle
<1> QED BY <1>5, <1>6, <1>7, <1>8 DEF ServerThread

LEMMA StepForgetsNone ==
  ASSUME UdpExchangeAssumption, IInv, Kept, [Next]_vars
  PROVE  Kept'
<1>1. CASE ServerStops \/ UNCHANGED vars
  <2>1. UNCHANGED <<up, srvq, down, cliq, lost, wpc, spc, addr>>
    BY <1>1 DEF ServerStops, vars, netVars, workerVars, serverVars
  <2> QED BY <2>1 DEF Kept, Owed, Serving, Idle, InUp, InServer, InThread, InDown, InClient
<1>2. CASE ListenerAccepts
  <2>1. UNCHANGED <<up, srvq, down, cliq, lost, wpc, addr>>
    BY <1>2 DEF ListenerAccepts, netVars, workerVars
  <2>2. PICK t \in Threads : spc[t] = "none" /\ spc' = [spc EXCEPT ![t] = "loop"]
    BY <1>2 DEF ListenerAccepts
  <2>3. \A v \in Workers : (InThread(v) => InThread(v)') /\ (Owed(v)' => Owed(v))
    BY <2>1, <2>2 DEF InThread, Owed, Serving, IInv, TypeOK
  <2> QED BY <2>1, <2>3, StaysKept DEF Idle, InUp, InServer, InDown, InClient
<1> QED BY <1>1, <1>2, NetworkForgetsNone, WorkerForgetsNone, ServerForgetsNone DEF Next

\* A worker has at most one packet or reply under way, and while it waits it
\* has one, unless a datagram was lost or the server's thread has returned.
THEOREM OneUnderWayHolds == Spec => []OneUnderWay
<1>1. ASSUME IInv, Kept PROVE OneUnderWay
  <2> SUFFICES ASSUME NEW w \in Workers
               PROVE  /\ \A x, y \in Places(w) : x = y
                      /\ wpc[w] \in {"loop", "send"} => Places(w) = {}
                      /\ Owed(w) => Places(w) # {}
    BY DEF OneUnderWay, Owed, Serving
  <2> USE <1>1 DEF IInv
  <2>1. \A x \in Places(w) :
          \/ InUp(w) /\ \E d \in up : d.peer = w /\ x = <<"up", d>>
          \/ InServer(w) /\ \E i \in DOMAIN srvq : srvq[i].peer = w /\ x = <<"server", i>>
          \/ InThread(w) /\ \E t \in Threads : spc[t] = "send" /\ x = <<"thread", t>>
          \/ InDown(w) /\ \E d \in down : d.peer = w /\ x = <<"down", d>>
          \/ InClient(w) /\ \E i \in DOMAIN cliq[w] : x = <<"client", i>>
    <3>1. DOMAIN <<>> = {}
      OBVIOUS
    <3> QED BY <3>1, Zenon DEF Places, InUp, InServer, InThread, InDown, InClient
  <2>2. ApartFor(w) /\ (wpc[w] \in {"loop", "send"} => Idle(w))
    BY DEF Apart
  <2>3. ASSUME NEW x \in Places(w), NEW y \in Places(w) PROVE x = y
    <3>1. CASE InUp(w)
      BY <2>1, <2>2, <3>1 DEF ApartFor, Single
    <3>2. CASE InServer(w)
      BY <2>1, <2>2, <3>2 DEF ApartFor, Single
    <3>3. CASE InThread(w)
      BY <2>1, <2>2, <3>3 DEF ApartFor, OneThread
    <3>4. CASE InDown(w)
      BY <2>1, <2>2, <3>4 DEF ApartFor, Single
    <3>5. CASE InClient(w)
      <4>1. \A i \in DOMAIN cliq[w] : i = 1
        BY DEF Single, TypeOK
      <4> QED BY <2>1, <2>2, <3>5, <4>1 DEF ApartFor
    <3> QED BY <2>1, <3>1, <3>2, <3>3, <3>4, <3>5
  <2>4. ASSUME Idle(w) PROVE Places(w) = {}
    BY <2>1, <2>4 DEF Idle
  <2>5. ASSUME ~Idle(w) PROVE Places(w) # {}
    <3>1. cliq[w] # <<>> => 1 \in DOMAIN cliq[w]
      <4>1. cliq[w] \in Seq(Data)
        BY DEF TypeOK
      <4> QED BY <4>1
    <3>2. \E x : x \in Places(w)
      <4>1. CASE InUp(w)
        BY <4>1, Zenon DEF Places, InUp
      <4>2. CASE InServer(w)
        BY <4>2, Zenon DEF Places, InServer
      <4>3. CASE InThread(w)
        BY <4>3, Zenon DEF Places, InThread
      <4>4. CASE InDown(w)
        BY <4>4, Zenon DEF Places, InDown
      <4>5. CASE InClient(w)
        BY <3>1, <4>5, Zenon DEF Places, InClient
      <4> QED BY <2>5, <4>1, <4>2, <4>3, <4>4, <4>5 DEF Idle
    <3> QED BY <3>2
  <2> QED BY <1>1, <2>2, <2>3, <2>4, <2>5 DEF Kept
<1>2. Init => Kept
  BY DEF Init, Kept, Owed
<1>3. UdpExchangeAssumption /\ IInv /\ Kept /\ [Next]_vars => Kept'
  BY StepForgetsNone
<1> QED BY <1>1, <1>2, <1>3, UdpExchangeAssumption, Invariance, PTL DEF Spec

\* The reply a worker finds is its own.
THEOREM OwnReplyHolds == Spec => []OwnReply
<1>1. ASSUME IInv PROVE OwnReply
  <2> SUFFICES ASSUME NEW w \in Workers, cliq[w] # <<>>
               PROVE  Head(cliq[w]) = ReplyTo(sent[w])
    BY DEF OwnReply
  <2>1. cliq[w] \in Seq(Data)
    BY <1>1 DEF IInv, TypeOK
  <2>2. Head(cliq[w]) = cliq[w][1] /\ 1 \in DOMAIN cliq[w]
    BY <2>1
  <2> QED BY <1>1, <2>2 DEF IInv, RepliesTrue
<1> QED BY <1>1, Invariance, PTL

-----------------------------------------------------------------------------
(***************************************************************************)
(* The turns.                                                              *)
(***************************************************************************)
LEMMA AnswersTrue ==
  ASSUME IInv, NEW w \in Workers
  PROVE  /\ Answers(w) \subseteq {ReplyTo(sent[w])}
         /\ wpc[w] \in {"loop", "send"} => Answers(w) = {}
         /\ cliq[w] # <<>> => Answers(w) # {}
<1>1. \A d \in down : d.peer = w => d.data = ReplyTo(sent[w])
  BY DEF IInv, RepliesTrue
<1>2. \A i \in DOMAIN cliq[w] : cliq[w][i] = ReplyTo(sent[w])
  BY DEF IInv, RepliesTrue
<1>3. wpc[w] \in {"loop", "send"} => ~InDown(w) /\ cliq[w] = <<>>
  BY DEF IInv, Apart, Idle, InClient
<1>4. cliq[w] # <<>> => 1 \in DOMAIN cliq[w]
  BY DEF IInv, TypeOK
<1>5. DOMAIN <<>> = {}
  OBVIOUS
<1> QED BY <1>1, <1>2, <1>3, <1>4, <1>5 DEF Answers, InDown

\* What a step may do to one worker, as far as its turn goes.
Advances(w) ==
  /\ w \in lost => w \in lost'
  /\ wpc[w] = "done" => wpc'[w] = "done"
  /\ wpc'[w] = "read" /\ wpc[w] # "read" => wpc[w] = "send" /\ sent'[w] = sent[w] /\ Answers(w)' = {}
  /\ wpc'[w] = "read" /\ wpc[w] = "read" =>
       sent'[w] = sent[w] /\ (w \in lost' \/ Answers(w) = {} \/ Answers(w)' # {})
  /\ wpc[w] = "read" /\ wpc'[w] \in {"loop", "send"} => Answers(w) # {}

\* A step that moves no worker and takes no reply out of the network.
LEMMA Still ==
  ASSUME IInv, NEW w \in Workers, lost \subseteq lost', UNCHANGED <<wpc, sent>>,
         w \in lost' \/ Answers(w) = {} \/ Answers(w)' # {}
  PROVE  Advances(w)
BY DEF Advances, IInv, TypeOK

LEMMA NetworkAdvances ==
  ASSUME IInv, NEW w \in Workers, NEW v \in Workers, Network(v)
  PROVE  Advances(w)
<1>1. lost \subseteq lost' /\ UNCHANGED <<wpc, sent>>
  BY DEF Network, DeliverUp, DeliverDown, LoseUp, LoseDown, workerVars
<1>2. CASE DeliverUp(v) \/ LoseUp(v)
  <2>1. UNCHANGED <<down, cliq>>
    BY <1>2 DEF DeliverUp, LoseUp
  <2>2. Answers(w)' = Answers(w)
    BY <2>1 DEF Answers
  <2> QED BY <1>1, <2>2, Still
<1>3. CASE DeliverDown(v)
  <2>1. PICK d \in down : /\ d.peer = v /\ down' = down \ {d}
                          /\ cliq' = [cliq EXCEPT ![v] = Append(cliq[v], d.data)]
    BY <1>3 DEF DeliverDown
  <2>2. CASE w = v
    <3>1. cliq[w] \in Seq(Data) /\ d.data \in Data
      BY DEF IInv, TypeOK, Datagrams
    <3>2. cliq'[w] = Append(cliq[w], d.data)
      BY <2>1, <2>2 DEF IInv, TypeOK
    <3>3. Len(cliq[w]) + 1 \in DOMAIN cliq'[w]
      BY <3>1, <3>2
    <3>4. Answers(w)' # {}
      BY <3>3 DEF Answers
    <3> QED BY <1>1, <3>4, Still
  <2>3. CASE w # v
    <3>1. cliq'[w] = cliq[w] /\ \A e \in down : e.peer = w => e \in down'
      BY <2>1, <2>3 DEF IInv, TypeOK
    <3>2. Answers(w) \subseteq Answers(w)'
      BY <3>1 DEF Answers
    <3> QED BY <1>1, <3>2, Still
  <2> QED BY <2>2, <2>3
<1>4. CASE LoseDown(v)
  <2>1. CASE w = v
    <3>1. w \in lost'
      BY <1>4, <2>1 DEF LoseDown
    <3> QED BY <1>1, <3>1, Still
  <2>2. CASE w # v
    <3>1. cliq'[w] = cliq[w] /\ \A e \in down : e.peer = w => e \in down'
      BY <1>4, <2>2 DEF LoseDown
    <3>2. Answers(w) \subseteq Answers(w)'
      BY <3>1 DEF Answers
    <3> QED BY <1>1, <3>2, Still
  <2> QED BY <2>1, <2>2
<1> QED BY <1>2, <1>3, <1>4 DEF Network

LEMMA WorkerAdvances ==
  ASSUME IInv, NEW w \in Workers, NEW v \in Workers,
         Worker(v) \/ WorkerReadFails(v) \/ ClientStops(v)
  PROVE  Advances(w)
<1>1. UNCHANGED <<lost, down>>
  BY DEF Worker, WorkerLoop, WorkerSends, SendTo, WorkerSendFails, WorkerReads, WorkerReadFails,
         ClientStops, netVars
<1>2. CASE w # v
  <2>1. wpc'[w] = wpc[w] /\ sent'[w] = sent[w] /\ cliq'[w] = cliq[w]
    BY <1>2 DEF Worker, WorkerLoop, WorkerSends, SendTo, WorkerSendFails, WorkerReads,
                WorkerReadFails, ClientStops, WorkerGoes, netVars, IInv, TypeOK
  <2>2. Answers(w)' = Answers(w)
    BY <1>1, <2>1 DEF Answers
  <2>3. wpc[w] \in {"loop", "send", "read", "done"}
    BY DEF IInv, TypeOK
  <2> QED BY <1>1, <2>1, <2>2, <2>3 DEF Advances
<1>3. CASE w = v
  <2>1. CASE WorkerLoop(w) \/ WorkerSendFails(w) \/ WorkerReadFails(w)
    <3>1. /\ wpc[w] # "done" /\ wpc'[w] \in {"done", "send"}
          /\ wpc'[w] = "send" => wpc[w] = "loop"
      BY <2>1 DEF WorkerLoop, WorkerSendFails, WorkerReadFails, WorkerGoes, IInv, TypeOK
    <3> QED BY <1>1, <3>1 DEF Advances
  <2>2. CASE WorkerSends(w)
    <3>1. wpc[w] = "send" /\ wpc'[w] = "read" /\ UNCHANGED <<sent, cliq>>
      BY <2>2 DEF WorkerSends, WorkerGoes, SendTo, IInv, TypeOK
    <3>2. Answers(w)' = Answers(w)
      BY <1>1, <3>1 DEF Answers
    <3> QED BY <1>1, <3>1, <3>2, AnswersTrue DEF Advances
  <2>3. CASE WorkerReads(w)
    <3>1. wpc[w] = "read" /\ wpc'[w] \in {"done", "loop"} /\ cliq[w] # <<>>
      BY <2>3 DEF WorkerReads, WorkerGoes, IInv, TypeOK
    <3> QED BY <1>1, <3>1, AnswersTrue DEF Advances
  <2>4. CASE ClientStops(w)
    <3>1. UNCHANGED <<wpc, sent, cliq>>
      BY <2>4 DEF ClientStops, netVars
    <3>2. Answers(w)' = Answers(w)
      BY <1>1, <3>1 DEF Answers
    <3> QED BY <1>1, <3>1, <3>2, Still
  <2> QED BY <1>3, <2>1, <2>2, <2>3, <2>4 DEF Worker
<1> QED BY <1>2, <1>3

LEMMA StepAdvances ==
  ASSUME IInv, NEW w \in Workers, [Next]_vars
  PROVE  Advances(w)
<1>1. CASE UNCHANGED vars
  <2>1. UNCHANGED <<lost, wpc, sent, down, cliq>>
    BY <1>1 DEF vars, netVars, workerVars
  <2>2. Answers(w)' = Answers(w)
    BY <2>1 DEF Answers
  <2> QED BY <2>1, <2>2, Still
<1>2. CASE ListenerAccepts \/ ServerStops \/ \E t \in Threads : ServerThread(t) \/ ServerReadFails(t)
  <2>1. UNCHANGED <<lost, wpc, sent, cliq>> /\ down \subseteq down'
    BY <1>2 DEF ListenerAccepts, ServerStops, ServerThread, ServerReadFails, ServerLoop, ServerPoll,
                ServerPeeks, ServerReceives, ServerSends, ServerSendFails, netVars, workerVars
  <2>2. Answers(w) \subseteq Answers(w)'
    BY <2>1 DEF Answers
  <2> QED BY <2>1, <2>2, Still
<1> QED BY <1>1, <1>2, NetworkAdvances, WorkerAdvances DEF Next

LEMMA StepInTurns ==
  ASSUME IInv, IInv', [Next]_vars, NEW w \in Workers
  PROVE  Turns(w)!Next \/ UNCHANGED <<Turn(w), Ask(w), Ans(w)>>
<1>1. Advances(w)
  BY StepAdvances
<1>2. /\ Answers(w) \subseteq {ReplyTo(sent[w])}
      /\ wpc[w] \in {"loop", "send"} => Answers(w) = {}
  BY AnswersTrue
<1>3. Answers(w)' \subseteq {ReplyTo(sent'[w])}
  <2>1. \A d \in down' : d.peer = w => d.data = ReplyTo(sent'[w])
    BY DEF IInv, RepliesTrue, ReplyTo
  <2>2. \A i \in DOMAIN cliq'[w] : cliq'[w][i] = ReplyTo(sent'[w])
    BY DEF IInv, RepliesTrue, ReplyTo
  <2> QED BY <2>1, <2>2 DEF Answers, ReplyTo
<1>4. wpc[w] \in {"loop", "send", "read", "done"} /\ wpc'[w] \in {"loop", "send", "read", "done"}
  BY DEF IInv, TypeOK
<1>5. /\ Turn(w) = "answered" => Ans(w) = ReplyTo(sent[w])
      /\ Turn(w) # "answered" => Ans(w) = Nothing
      /\ Ask(w) = IF Turn(w) \in {"server", "answered"} THEN sent[w] ELSE Nothing
  BY <1>2 DEF Ans, Ask, Turn
<1>6. /\ Turn(w)' = "answered" => Ans(w)' = ReplyTo(sent'[w])
      /\ Turn(w)' # "answered" => Ans(w)' = Nothing
      /\ Ask(w)' = IF Turn(w)' \in {"server", "answered"} THEN sent'[w] ELSE Nothing
  BY <1>3 DEF Ans, Ask, Turn
<1>7. CASE Turn(w)' = "over"
  BY <1>6, <1>7 DEF Turns!Next, Turns!GiveUp
<1>8. CASE Turn(w)' = "worker"
  <2>1. w \notin lost' /\ wpc'[w] \in {"loop", "send"}
    BY <1>4, <1>8 DEF Turn
  <2>2. Turn(w) = "worker" \/ Turn(w) = "answered"
    BY <1>1, <1>4, <2>1 DEF Turn, Advances
  <2> QED BY <1>5, <1>6, <1>8, <2>2 DEF Turns!Next, Turns!Accept
<1>9. CASE Turn(w)' = "server"
  <2>1. w \notin lost' /\ wpc'[w] = "read" /\ Answers(w)' = {}
    BY <1>4, <1>9 DEF Turn
  <2>2. sent'[w] = sent[w] /\ sent[w] \in Payloads
    BY <1>1, <2>1, <1>4 DEF Advances, IInv, PacketsTrue
  <2>3. Turn(w) = "worker" \/ Turn(w) = "server"
    BY <1>1, <1>4, <2>1 DEF Turn, Advances
  <2> QED BY <1>5, <1>6, <1>9, <2>2, <2>3 DEF Turns!Next, Turns!Ask
<1>10. CASE Turn(w)' = "answered"
  <2>1. w \notin lost' /\ wpc'[w] = "read" /\ Answers(w)' # {}
    BY <1>4, <1>10 DEF Turn
  <2>2. wpc[w] = "read" /\ sent'[w] = sent[w] /\ w \notin lost
    BY <1>1, <2>1 DEF Advances
  <2>3. Turn(w) = "server" \/ Turn(w) = "answered"
    BY <2>2 DEF Turn
  <2> QED BY <1>5, <1>6, <1>10, <2>2, <2>3 DEF Turns!Next, Turns!Answer
<1> QED BY <1>7, <1>8, <1>9, <1>10 DEF Turn

\* For each worker the two ends keep to the turns of RequestReply.
THEOREM InTurnsHolds == Spec => InTurns
<1>1. ASSUME Init PROVE \A w \in Workers : Turns(w)!Init
  <2> SUFFICES ASSUME NEW w \in Workers PROVE Turns(w)!Init
    OBVIOUS
  <2>1. Turn(w) = "worker"
    BY <1>1 DEF Init, Turn
  <2> QED BY <2>1 DEF Turns!Init, Ask, Ans
<1>2. IInv /\ IInv' /\ [Next]_vars =>
        [\A w \in Workers : Turns(w)!Next \/ UNCHANGED <<Turn(w), Ask(w), Ans(w)>>]_vars
  BY StepInTurns
<1> QED BY <1>1, <1>2, Invariance, PTL DEF Spec, InTurns
=============================================================================
