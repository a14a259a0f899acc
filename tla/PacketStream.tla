----------------------------- MODULE PacketStream -----------------------------
(***************************************************************************)
(* One direction of a TCP connection and the packet reader of              *)
(* protocols/loadprotocol.cpp on top of it: SendConnectionData,            *)
(* ReceiveConnectionData, GetCurrentReadPacketSize and ReadPacketData.     *)
(*                                                                         *)
(* The stream is the sequence of bytes written and not yet read.  A call   *)
(* of recv returns any non-empty prefix of it, up to its length argument,  *)
(* which stands for the bytes that have arrived so far.  A byte carries    *)
(* the size and the tag of its packet and its place in it: the header of   *)
(* HeaderLen bytes (8 in the program: "TRAF" and the size) tells the size, *)
(* and the tag stands for the payload.                                     *)
(*                                                                         *)
(* Exchange instantiates the module once for each direction.               *)
(***************************************************************************)
EXTENDS Integers, Sequences

CONSTANTS
  HeaderLen,     \* bytes of a packet header
  Readers,       \* the threads that read this stream
  LeftOver,      \* sizes that uninitialised stack memory may spell
  SplitHeaders,  \* recv may return a part of a header
  CallsFail      \* a socket call may return -1

VARIABLES
  stream,   \* bytes in flight or waiting to be read
  open,     \* FALSE once the writing process has closed its end
  rd,       \* each reader's call of ReadPacketData
  reset     \* the reading end has been sent a reset; set by the instantiating
            \* module, never changed here

streamVars == <<stream, open, rd>>

Lesser(a, b) == IF a <= b THEN a ELSE b

Bytes(tag, size) == [i \in 1..size |-> [tag |-> tag, size |-> size, off |-> i - 1]]

IsPacket(s) == Len(s) > 0 /\ s = Bytes(s[1].tag, s[1].size)

Idle == [pc |-> "idle", len |-> 0, size |-> 0, got |-> <<>>, result |-> 0]

TypeOK(Byte) ==
  /\ stream \in Seq(Byte)
  /\ open \in BOOLEAN
  /\ rd \in [Readers -> [pc : {"idle", "peek", "recv", "returned"},
                         len : Nat, size : Nat, got : Seq(Byte), result : Int]]

Init ==
  /\ stream = <<>>
  /\ open = TRUE
  /\ rd = [r \in Readers |-> Idle]

ReaderAt(r, pc) == rd[r].pc = pc

Returns(r, result) == rd' = [rd EXCEPT ![r].pc = "returned", ![r].result = result]

(***************************************************************************)
(* tcp_connection::write on a connection whose reading process is alive:   *)
(* the socket blocks until all bytes are taken.                            *)
(***************************************************************************)
Write(bytes) == stream' = stream \o bytes /\ UNCHANGED <<open, rd>>

(***************************************************************************)
(* ReadPacketData( data, len ): the caller's buffer must hold a header.    *)
(***************************************************************************)
Call(r, len) ==
  /\ ReaderAt(r, "idle")
  /\ rd' = [rd EXCEPT ![r] =
              IF len < HeaderLen
              THEN [Idle EXCEPT !.pc = "returned", !.result = -1]
              ELSE [Idle EXCEPT !.pc = "peek", !.len = len]]
  /\ UNCHANGED <<stream, open>>

(***************************************************************************)
(* What GetCurrentReadPacketSize may return after a peek of n bytes.  It   *)
(* compares and converts all bytes of tmp, whatever n is; the bytes past n *)
(* are uninitialised, and may be those of an earlier header.               *)
(***************************************************************************)
HeaderSizes(n) ==
  IF n < HeaderLen
  THEN {-1} \cup IF n = 0 \/ stream[1].off = 0 THEN LeftOver ELSE {}
  ELSE IF \A i \in 1..n : stream[i].off = i - 1 THEN {stream[1].size} ELSE {-1}

\* The sizes of the chunk a recv of at most len bytes may return.  It waits
\* while there is nothing to return, and returns 0 at the end of the stream.
Chunks(len) ==
  IF stream # <<>> THEN 1..Lesser(len, Len(stream))
  ELSE IF open THEN {} ELSE {0}

\* recv returns -1: a fault, or the connection has been reset.
MayFail == CallsFail \/ reset

PeekedBytes ==
  IF SplitHeaders THEN Chunks(HeaderLen)
  ELSE {n \in Chunks(HeaderLen) : n \in {0, Lesser(HeaderLen, Len(stream))}}

\* The peek, and the tests on the size it found: -1 becomes the largest
\* unsigned and is refused like any size above len.
Peek(r) ==
  /\ ReaderAt(r, "peek")
  /\ \/ MayFail /\ Returns(r, -1)
     \/ \E n \in PeekedBytes : \E size \in HeaderSizes(n) :
          IF size = -1 \/ size > rd[r].len
          THEN Returns(r, -1)
          ELSE rd' = [rd EXCEPT ![r].pc = "recv", ![r].size = size]
  /\ UNCHANGED <<stream, open>>

\* while (total<size): recv asks for len-total bytes, the room left in the
\* buffer, not for the size-total that are left of the packet.
Asked(r) == rd[r].len - Len(rd[r].got)

\* Mutant of Recv: the bytes are looked at and not taken.
RecvPeeks(r) ==
  /\ ReaderAt(r, "recv")
  /\ Len(rd[r].got) < rd[r].size
  /\ \/ MayFail /\ Returns(r, -1)
     \/ \E n \in Chunks(Asked(r)) :
          rd' = [rd EXCEPT ![r].got = @ \o SubSeq(stream, 1, n)]
  /\ UNCHANGED <<stream, open>>

Recv(r) ==
  /\ ReaderAt(r, "recv")
  /\ Len(rd[r].got) < rd[r].size
  /\ \/ MayFail /\ Returns(r, -1) /\ UNCHANGED stream
     \/ \E n \in Chunks(Asked(r)) :
          /\ rd' = [rd EXCEPT ![r].got = @ \o SubSeq(stream, 1, n)]
          /\ stream' = SubSeq(stream, n + 1, Len(stream))
  /\ UNCHANGED open

\* Mutant of Complete: one recv is taken to be the whole packet.
CompleteAtOnce(r) ==
  /\ ReaderAt(r, "recv")
  /\ rd[r].got # <<>>
  /\ Returns(r, Len(rd[r].got))
  /\ UNCHANGED <<stream, open>>

Complete(r) ==
  /\ ReaderAt(r, "recv")
  /\ Len(rd[r].got) >= rd[r].size
  /\ Returns(r, Len(rd[r].got))
  /\ UNCHANGED <<stream, open>>

Step(r) == Peek(r) \/ Recv(r) \/ Complete(r)

\* The caller has looked at the result and the buffer.
Leave(r) == rd' = [rd EXCEPT ![r] = Idle] /\ UNCHANGED <<stream, open>>

Returned(r) == ReaderAt(r, "returned")

\* The call is in a recv that cannot return before the other end writes.
Waits(r) ==
  /\ stream = <<>> /\ open
  /\ ReaderAt(r, "peek") \/ (ReaderAt(r, "recv") /\ Len(rd[r].got) < rd[r].size)

\* The writing process exits: its kernel closes the connection.
Close == open /\ open' = FALSE /\ UNCHANGED <<stream, rd>>

\* poll( POLLIN, 1ms ): the stream has something, or has ended.
Readable == stream # <<>> \/ ~open
=============================================================================
