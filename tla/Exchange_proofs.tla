--------------------------- MODULE Exchange_proofs ---------------------------
(***************************************************************************)
(* Proofs about a TCP connection with one worker whose headers arrive      *)
(* whole, for payloads and replies of any size: recv is asked for more     *)
(* bytes than the packet has, and yet every packet that is handed on is    *)
(* one that was sent, and every reply is that to the packet before it,     *)
(* because no second packet is ever in the stream.                         *)
(***************************************************************************)
EXTENDS Exchange, SequenceTheorems, TLAPS

\* What the passing runs assume, too.
OneWorker == ~SplitHeaders /\ \E w : Workers = {w}

\* Every packet and every reply.
Packets ==
  {ToClient!Bytes(tag, n) : tag \in Tags \cup {AckTag}, n \in {m \in Nat : m >= HeaderLen}}

RdType == [pc : {"idle", "peek", "recv", "returned"},
           len : Nat, size : Nat, got : Seq(Byte), result : Int]

(***************************************************************************)
(* A call of ReadPacketData: q is its state, s the stream and o whether    *)
(* the writing end is open.                                                *)
(***************************************************************************)
Pending(q, s) == q.got \o s

ReaderOK(q, s, o) ==
  /\ q.pc \in {"idle", "peek"} => q.got = <<>>
  /\ q.pc = "recv" =>
       \/ Pending(q, s) \in Packets /\ q.size = Len(Pending(q, s))
       \/ q.got = <<>> /\ s = <<>> /\ ~o
  /\ q.pc = "returned" /\ q.result >= 0 =>
       /\ q.result = Len(q.got) /\ s = <<>>
       /\ q.got \in Packets \/ (q.got = <<>> /\ ~o)

Fails(q, q2) == q2 = [q EXCEPT !.pc = "returned", !.result = -1]

CallStep(q, s, q2, s2) ==
  \/ Fails(q, q2) /\ s2 = s
  \/ /\ q.pc = "peek" /\ s2 = s
     /\ \E n \in Nat : q2 = [q EXCEPT !.pc = "recv", !.size = n]
  \/ /\ q.pc = "recv"
     /\ \E n \in 0..Len(s) : /\ q2 = [q EXCEPT !.got = q.got \o SubSeq(s, 1, n)]
                             /\ s2 = SubSeq(s, n + 1, Len(s))
  \/ /\ q.pc = "recv" /\ Len(q.got) >= q.size /\ s2 = s
     /\ q2 = [q EXCEPT !.pc = "returned", !.result = Len(q.got)]

\* What the peek finds when headers arrive whole.
PeekTrue(q, s, o, q2) ==
  q.pc = "peek" /\ q2.pc = "recv" => IF s = <<>> THEN ~o ELSE q2.size = s[1].size

-----------------------------------------------------------------------------
LEMMA PacketFacts ==
  ASSUME ExchangeAssumption, NEW p \in Packets
  PROVE  /\ p \in Seq(Byte) /\ Len(p) \in Nat /\ Len(p) >= HeaderLen /\ p # <<>>
         /\ p[1].size = Len(p)
         /\ \A i \in 1..HeaderLen : p[i].off = i - 1
         /\ ToServer!IsPacket(p) /\ ToClient!IsPacket(p)
<1> USE DEF ExchangeAssumption
<1>1. PICK tag \in Tags \cup {AckTag}, n \in Nat :
        n >= HeaderLen /\ p = [i \in 1..n |-> [tag |-> tag, size |-> n, off |-> i - 1]]
  BY DEF Packets, ToClient!Bytes
<1>2. \A i \in 1..n : [tag |-> tag, size |-> n, off |-> i - 1] \in Byte
  BY DEF Byte
<1>3. p \in [1..n -> Byte]
  BY <1>1, <1>2
<1>4. p \in Seq(Byte) /\ Len(p) = n
  BY <1>3
<1>5. 1 \in 1..n /\ 1..HeaderLen \subseteq 1..n
  BY <1>1
<1>6. p # <<>>
  <2>1. Len(p) # 0
    BY <1>1, <1>4
  <2> QED BY <2>1
<1>7. p[1].size = n /\ p[1].tag = tag /\ \A i \in 1..n : p[i].off = i - 1
  BY <1>1, <1>5
<1>8. p = ToServer!Bytes(p[1].tag, p[1].size) /\ p = ToClient!Bytes(p[1].tag, p[1].size)
  BY <1>1, <1>7 DEF ToServer!Bytes, ToClient!Bytes
<1> QED BY <1>1, <1>4, <1>5, <1>6, <1>7, <1>8 DEF ToServer!IsPacket, ToClient!IsPacket

\* What the client sends are packets.
LEMMA PayloadFacts ==
  ASSUME ExchangeAssumption
  PROVE  Payloads \subseteq Packets
BY DEF ExchangeAssumption, Payloads, Packets

\* The reply to a packet is a packet.
LEMMA ReplyFacts ==
  ASSUME ExchangeAssumption, NEW p \in Packets
  PROVE  ReplyTo(p) \in Packets
<1>1. ToServer!Bytes(AckTag, HeaderLen) = ToClient!Bytes(AckTag, HeaderLen)
  BY DEF ToServer!Bytes, ToClient!Bytes
<1>2. ToClient!Bytes(AckTag, HeaderLen) \in Packets
  BY DEF Packets, ExchangeAssumption
<1> QED BY <1>1, <1>2 DEF ReplyTo

\* Reading and setting the fields of a call.
LEMMA Fields ==
  ASSUME NEW q \in RdType
  PROVE  /\ q.pc \in {"idle", "peek", "recv", "returned"} /\ q.len \in Nat /\ q.size \in Nat
         /\ q.got \in Seq(Byte) /\ q.result \in Int
BY DEF RdType

LEMMA SetGot ==
  ASSUME NEW q \in RdType, NEW g \in Seq(Byte)
  PROVE  LET q2 == [q EXCEPT !.got = g] IN
         /\ q2 \in RdType /\ q2.pc = q.pc /\ q2.got = g /\ q2.size = q.size
BY DEF RdType

LEMMA SetPc ==
  ASSUME NEW q \in RdType, NEW pc \in {"recv", "returned"}
  PROVE  LET q2 == [q EXCEPT !.pc = pc] IN
         /\ q2 \in RdType /\ q2.pc = pc /\ q2.got = q.got 
BY DEF RdType

LEMMA SetSize ==
  ASSUME NEW q \in RdType, NEW n \in Nat
  PROVE  LET q2 == [q EXCEPT !.pc = "recv", !.size = n] IN
         /\ q2 \in RdType /\ q2.pc = "recv" /\ q2.got = q.got /\ q2.size = n
<1> DEFINE p == [q EXCEPT !.pc = "recv"]
<1>1. p \in RdType /\ p.pc = "recv" /\ p.got = q.got
  BY SetPc
<1>2. [q EXCEPT !.pc = "recv", !.size = n] = [p EXCEPT !.size = n]
  OBVIOUS
<1> HIDE DEF p
<1>3. [p EXCEPT !.size = n] \in RdType
  BY <1>1 DEF RdType
<1>4. [p EXCEPT !.size = n].pc = p.pc /\ [p EXCEPT !.size = n].got = p.got /\ [p EXCEPT !.size = n].size = n
  BY <1>1 DEF RdType
<1> QED BY <1>1, <1>2, <1>3, <1>4

LEMMA SetResult ==
  ASSUME NEW q \in RdType, NEW n \in Int
  PROVE  LET q2 == [q EXCEPT !.pc = "returned", !.result = n] IN
         /\ q2 \in RdType /\ q2.pc = "returned" /\ q2.got = q.got /\ q2.result = n
<1> DEFINE p == [q EXCEPT !.pc = "returned"]
<1>1. p \in RdType /\ p.pc = "returned" /\ p.got = q.got
  BY SetPc
<1>2. [q EXCEPT !.pc = "returned", !.result = n] = [p EXCEPT !.result = n]
  OBVIOUS
<1> HIDE DEF p
<1>3. [p EXCEPT !.result = n] \in RdType
  BY <1>1 DEF RdType
<1>4. [p EXCEPT !.result = n].pc = p.pc /\ [p EXCEPT !.result = n].got = p.got /\ [p EXCEPT !.result = n].result = n
  BY <1>1 DEF RdType
<1> QED BY <1>1, <1>2, <1>3, <1>4

\* A step of a call keeps its invariant and loses no byte.
LEMMA ReaderKeeps ==
  ASSUME ExchangeAssumption, NEW q \in RdType, NEW s \in Seq(Byte), NEW o, NEW q2, NEW s2,
         Pending(q, s) \in Packets \cup {<<>>}, ReaderOK(q, s, o),
         CallStep(q, s, q2, s2), PeekTrue(q, s, o, q2)
  PROVE  /\ q2 \in RdType /\ s2 \in Seq(Byte) /\ q2.pc # "idle"
         /\ ReaderOK(q2, s2, o) /\ Pending(q2, s2) = Pending(q, s)
<1>0. q.got \in Seq(Byte) /\ q.result \in Int /\ q.size \in Nat
  BY Fields
<1>1. CASE Fails(q, q2) /\ s2 = s
  <2>1. q2 \in RdType /\ q2.pc = "returned" /\ q2.got = q.got /\ q2.result = -1
    <3>1. -1 \in Int
      OBVIOUS
    <3> QED BY <1>1, <3>1, SetResult DEF Fails
  <2> QED BY <1>1, <2>1 DEF ReaderOK, Pending
<1>2. ASSUME q.pc = "peek", s2 = s, NEW n \in Nat, q2 = [q EXCEPT !.pc = "recv", !.size = n]
      PROVE  /\ q2 \in RdType /\ q2.pc # "idle"
             /\ ReaderOK(q2, s2, o) /\ Pending(q2, s2) = Pending(q, s)
  <2>1. q2 \in RdType /\ q2.got = q.got /\ q2.pc = "recv" /\ q2.size = n
    BY <1>2, SetSize
  <2>2. IF s = <<>> THEN ~o ELSE n = s[1].size
    BY <1>2, <2>1 DEF PeekTrue
  <2>3. q.got = <<>> /\ Pending(q, s) = s
    BY <1>2, ConcatEmptySeq DEF ReaderOK, Pending
  <2>4. Pending(q2, s2) = s
    BY <1>2, <2>1, <2>3 DEF Pending
  <2>5. CASE s = <<>>
    BY <1>2, <2>1, <2>3, <2>4, <2>5, <2>2 DEF ReaderOK
  <2>6. CASE s # <<>>
    <3>1. s \in Packets
      BY <2>3, <2>6
    <3>2. n = Len(s)
      BY <2>6, <2>2, <3>1, PacketFacts
    <3> QED BY <1>2, <2>1, <2>3, <2>4, <3>1, <3>2 DEF ReaderOK
  <2> QED BY <2>1, <2>3, <2>4, <2>5, <2>6
<1>3. ASSUME q.pc = "recv", NEW n \in 0..Len(s), q2 = [q EXCEPT !.got = q.got \o SubSeq(s, 1, n)],
             s2 = SubSeq(s, n + 1, Len(s))
      PROVE  /\ q2 \in RdType /\ s2 \in Seq(Byte) /\ q2.pc # "idle"
             /\ ReaderOK(q2, s2, o) /\ Pending(q2, s2) = Pending(q, s)
  <2>1. SubSeq(s, 1, n) \in Seq(Byte) /\ s2 \in Seq(Byte)
    BY <1>3
  <2>2. q2 \in RdType /\ q2.got = q.got \o SubSeq(s, 1, n) /\ q2.pc = "recv" /\ q2.size = q.size
    <3>1. q.got \o SubSeq(s, 1, n) \in Seq(Byte)
      BY <1>0, <2>1
    <3> QED BY <1>3, <3>1, SetGot
  <2>3. SubSeq(s, 1, n) \o s2 = SubSeq(s, 1, Len(s))
    <3>1. 1 \in 1..Len(s)+1 /\ n \in 1-1..Len(s) /\ Len(s) \in n..Len(s)
      BY <1>3
    <3> QED BY <1>3, <3>1, ConcatAdjacentSubSeq
  <2>4. SubSeq(s, 1, n) \o s2 = s
    BY <2>3, SubSeqFull
  <2>5. Pending(q2, s2) = Pending(q, s)
    <3>1. (q.got \o SubSeq(s, 1, n)) \o s2 = q.got \o (SubSeq(s, 1, n) \o s2)
      <4>1. \A a, b, c \in Seq(Byte) : (a \o b) \o c = a \o (b \o c)
        BY ConcatAssociative
      <4> QED BY <1>0, <2>1, <4>1
    <3> QED BY <2>2, <2>4, <3>1 DEF Pending
  <2>6. ASSUME Pending(q, s) \in Packets, q.size = Len(Pending(q, s))
        PROVE  ReaderOK(q2, s2, o)
    <3>1. Pending(q2, s2) \in Packets /\ q2.size = Len(Pending(q2, s2))
      BY <2>2, <2>5, <2>6
    <3>2. "recv" \notin {"idle", "peek"} /\ "recv" # "returned"
      OBVIOUS
    <3> QED BY <2>2, <3>1, <3>2, Zenon DEF ReaderOK
  <2>7. ASSUME q.got = <<>>, s = <<>>, ~o
        PROVE  ReaderOK(q2, s2, o)
    <3>1. SubSeq(s, 1, n) = <<>> /\ s2 = <<>>
      BY <1>3, <2>7
    <3>2. q2.got = <<>>
      BY <2>2, <2>7, <3>1
    <3>3. "recv" \notin {"idle", "peek"} /\ "recv" # "returned"
      OBVIOUS
    <3> QED BY <2>2, <2>7, <3>1, <3>2, <3>3, Zenon DEF ReaderOK
  <2> QED BY <1>3, <2>1, <2>2, <2>5, <2>6, <2>7 DEF ReaderOK
<1>4. ASSUME q.pc = "recv", Len(q.got) >= q.size, s2 = s,
             q2 = [q EXCEPT !.pc = "returned", !.result = Len(q.got)]
      PROVE  /\ q2 \in RdType /\ q2.pc # "idle"
             /\ ReaderOK(q2, s2, o) /\ Pending(q2, s2) = Pending(q, s)
  <2>1. q2 \in RdType /\ q2.got = q.got /\ q2.pc = "returned" /\ q2.result = Len(q.got)
    <3>1. Len(q.got) \in Int
      BY <1>0
    <3> QED BY <1>4, <3>1, SetResult
  <2>2. Pending(q2, s2) = Pending(q, s)
    BY <1>4, <2>1 DEF Pending
  <2>3. CASE Pending(q, s) \in Packets /\ q.size = Len(Pending(q, s))
    <3>1. Len(Pending(q, s)) = Len(q.got) + Len(s)
      BY <1>0, ConcatProperties DEF Pending
    <3>2. Len(s) = 0
      BY <1>0, <1>4, <2>3, <3>1
    <3>3. s = <<>>
      BY <3>2
    <3>4. Pending(q, s) = q.got
      BY <1>0, <3>3, ConcatEmptySeq DEF Pending
    <3> QED BY <1>4, <2>1, <2>2, <2>3, <3>3, <3>4 DEF ReaderOK
  <2>4. CASE q.got = <<>> /\ s = <<>> /\ ~o
    BY <1>4, <2>1, <2>2, <2>4 DEF ReaderOK
  <2> QED BY <1>4, <2>1, <2>2, <2>3, <2>4 DEF ReaderOK
<1> QED BY <1>1, <1>2, <1>3, <1>4 DEF CallStep
-----------------------------------------------------------------------------
\* The types of the two streams, field by field.
LEMMA StreamTypes ==
  TypeOK <=>
    /\ c2s \in Seq(Byte) /\ c2sOpen \in BOOLEAN /\ c2sRd \in [{"server"} -> RdType]
    /\ s2c \in Seq(Byte) /\ s2cOpen \in BOOLEAN /\ s2cRd \in [Workers -> RdType]
    /\ wpc \in [Workers -> {"loop", "send", "read", "done"}]
    /\ sent \in [Workers -> Payloads \cup {NoPayload}]
    /\ wstop \in [Workers -> BOOLEAN]
    /\ spc \in {"loop", "poll", "read", "send", "done"}
    /\ repbuf \in Seq(Byte)
    /\ sstop \in BOOLEAN
    /\ lost \subseteq {"client", "server"}
BY Zenon DEF TypeOK, ToServer!TypeOK, ToClient!TypeOK, RdType

\* One call changes.
LEMMA SetOne ==
  ASSUME NEW R, NEW f \in [R -> RdType], NEW r \in R, NEW q \in RdType
  PROVE  [f EXCEPT ![r] = q] \in [R -> RdType] /\ [f EXCEPT ![r] = q][r] = q
OBVIOUS

\* A step of ReadPacketData is a step of the call.
LEMMA ServerCallStep ==
  ASSUME ExchangeAssumption, TypeOK, ToServer!Step("server")
  PROVE  /\ CallStep(c2sRd["server"], c2s, c2sRd'["server"], c2s')
         /\ c2sRd' = [c2sRd EXCEPT !["server"] = c2sRd'["server"]]
         /\ c2sOpen' = c2sOpen
<1> DEFINE r == "server"
           q == c2sRd[r]
<1>1. /\ c2s \in Seq(Byte) /\ c2sRd \in [{"server"} -> RdType] /\ q \in RdType
      /\ Len(c2s) \in Nat /\ r \in {"server"}
  BY StreamTypes
<1>2. \A q2 : c2sRd' = [c2sRd EXCEPT ![r] = q2] =>
        c2sRd'[r] = q2 /\ c2sRd' = [c2sRd EXCEPT !["server"] = c2sRd'["server"]]
  BY <1>1
<1>3. ASSUME NEW n, ToServer!Returns(r, n)
      PROVE  c2sRd' = [c2sRd EXCEPT ![r] = [q EXCEPT !.pc = "returned", !.result = n]]
  BY <1>1, <1>3 DEF ToServer!Returns
<1>4. \A len : len \in Int => ToServer!Chunks(len) \subseteq 0..Len(c2s)
  BY <1>1 DEF ToServer!Chunks, ToServer!Lesser
<1> DEFINE Goal == /\ CallStep(c2sRd["server"], c2s, c2sRd'["server"], c2s')
                   /\ c2sRd' = [c2sRd EXCEPT !["server"] = c2sRd'["server"]]
<1>5. ASSUME ToServer!Returns(r, -1), c2s' = c2s
      PROVE  Goal
  <2>1. Fails(c2sRd["server"], c2sRd'["server"])
    BY <1>2, <1>3, <1>5 DEF Fails
  <2> QED BY <1>2, <1>3, <1>5, <2>1, Zenon DEF CallStep
<1>6. ASSUME ToServer!Peek(r)
      PROVE  Goal /\ c2sOpen' = c2sOpen
  <2>1. ASSUME NEW n \in ToServer!PeekedBytes, NEW size \in ToServer!HeaderSizes(n), size # -1,
               c2sRd' = [c2sRd EXCEPT ![r].pc = "recv", ![r].size = size]
        PROVE  Goal
    <3>1. n \in Nat /\ (c2s = <<>> => n = 0)
      BY <1>1, <2>1 DEF ToServer!PeekedBytes, ToServer!Chunks, ToServer!Lesser, ExchangeAssumption
    <3>2. c2s # <<>> => c2s[1] \in Byte
      BY <1>1
    <3>3. c2s # <<>> => c2s[1].size \in Nat
      BY <3>2 DEF Byte
    <3>4. size \in Nat
      BY <2>1, <3>1, <3>3 DEF ToServer!HeaderSizes, ExchangeAssumption
    <3>5. c2sRd' = [c2sRd EXCEPT ![r] = [q EXCEPT !.pc = "recv", !.size = size]]
      BY <1>1, <2>1
    <3>6. c2s' = c2s /\ q.pc = "peek"
      BY <1>6 DEF ToServer!Peek, ToServer!ReaderAt
    <3>7. c2sRd'[r] = [q EXCEPT !.pc = "recv", !.size = size] /\ c2sRd' = [c2sRd EXCEPT ![r] = c2sRd'[r]]
      BY <1>2, <3>5, Zenon
    <3> QED BY <3>4, <3>6, <3>7, Zenon DEF CallStep
  <2>2. c2s' = c2s /\ c2sOpen' = c2sOpen
    BY <1>6 DEF ToServer!Peek
  <2> QED BY <1>5, <1>6, <2>1, <2>2, Zenon DEF ToServer!Peek
<1>7. ASSUME ToServer!Recv(r)
      PROVE  Goal /\ c2sOpen' = c2sOpen
  <2>1. ASSUME NEW n \in ToServer!Chunks(ToServer!Asked(r)),
               c2sRd' = [c2sRd EXCEPT ![r].got = @ \o SubSeq(c2s, 1, n)],
               c2s' = SubSeq(c2s, n + 1, Len(c2s))
        PROVE  Goal
    <3>1. q.got \in Seq(Byte) /\ q.len \in Nat
      BY <1>1, Fields
    <3>2. ToServer!Asked(r) \in Int
      BY <3>1 DEF ToServer!Asked
    <3>3. n \in 0..Len(c2s)
      BY <1>4, <2>1, <3>2
    <3>4. c2sRd' = [c2sRd EXCEPT ![r] = [q EXCEPT !.got = q.got \o SubSeq(c2s, 1, n)]]
      BY <1>1, <2>1
    <3>5. q.pc = "recv"
      BY <1>7 DEF ToServer!Recv, ToServer!ReaderAt
    <3>6. c2sRd'[r] = [q EXCEPT !.got = q.got \o SubSeq(c2s, 1, n)] /\ c2sRd' = [c2sRd EXCEPT ![r] = c2sRd'[r]]
      BY <1>2, <3>4, Zenon
    <3> QED BY <2>1, <3>3, <3>5, <3>6, Zenon DEF CallStep
  <2> QED BY <1>5, <1>7, <2>1, Zenon DEF ToServer!Recv
<1>8. ASSUME ToServer!Complete(r)
      PROVE  Goal /\ c2sOpen' = c2sOpen
  <2>1. c2sRd'[r] = [q EXCEPT !.pc = "returned", !.result = Len(q.got)] /\ c2sRd' = [c2sRd EXCEPT ![r] = c2sRd'[r]]
    BY <1>2, <1>3, <1>8, Zenon DEF ToServer!Complete
  <2>2. q.pc = "recv" /\ Len(q.got) >= q.size /\ c2s' = c2s /\ c2sOpen' = c2sOpen
    BY <1>8 DEF ToServer!Complete, ToServer!ReaderAt
  <2> QED BY <2>1, <2>2, Zenon DEF CallStep
<1> QED BY <1>6, <1>7, <1>8, Zenon DEF ToServer!Step

\* The same for the worker.
LEMMA WorkerCallStep ==
  ASSUME NEW w \in Workers, ExchangeAssumption, TypeOK, ToClient!Step(w)
  PROVE  /\ CallStep(s2cRd[w], s2c, s2cRd'[w], s2c')
         /\ s2cRd' = [s2cRd EXCEPT ![w] = s2cRd'[w]]
         /\ s2cOpen' = s2cOpen
<1> DEFINE r == w
           q == s2cRd[r]
<1>1. /\ s2c \in Seq(Byte) /\ s2cRd \in [Workers -> RdType] /\ q \in RdType
      /\ Len(s2c) \in Nat /\ r \in Workers
  BY StreamTypes
<1>2. \A q2 : s2cRd' = [s2cRd EXCEPT ![r] = q2] =>
        s2cRd'[r] = q2 /\ s2cRd' = [s2cRd EXCEPT ![w] = s2cRd'[w]]
  BY <1>1
<1>3. ASSUME NEW n, ToClient!Returns(r, n)
      PROVE  s2cRd' = [s2cRd EXCEPT ![r] = [q EXCEPT !.pc = "returned", !.result = n]]
  BY <1>1, <1>3 DEF ToClient!Returns
<1>4. \A len : len \in Int => ToClient!Chunks(len) \subseteq 0..Len(s2c)
  BY <1>1 DEF ToClient!Chunks, ToClient!Lesser
<1> DEFINE Goal == /\ CallStep(s2cRd[w], s2c, s2cRd'[w], s2c')
                   /\ s2cRd' = [s2cRd EXCEPT ![w] = s2cRd'[w]]
<1>5. ASSUME ToClient!Returns(r, -1), s2c' = s2c
      PROVE  Goal
  <2>1. Fails(s2cRd[w], s2cRd'[w])
    BY <1>2, <1>3, <1>5 DEF Fails
  <2> QED BY <1>2, <1>3, <1>5, <2>1, Zenon DEF CallStep
<1>6. ASSUME ToClient!Peek(r)
      PROVE  Goal /\ s2cOpen' = s2cOpen
  <2>1. ASSUME NEW n \in ToClient!PeekedBytes, NEW size \in ToClient!HeaderSizes(n), size # -1,
               s2cRd' = [s2cRd EXCEPT ![r].pc = "recv", ![r].size = size]
        PROVE  Goal
    <3>1. n \in Nat /\ (s2c = <<>> => n = 0)
      BY <1>1, <2>1 DEF ToClient!PeekedBytes, ToClient!Chunks, ToClient!Lesser, ExchangeAssumption
    <3>2. s2c # <<>> => s2c[1] \in Byte
      BY <1>1
    <3>3. s2c # <<>> => s2c[1].size \in Nat
      BY <3>2 DEF Byte
    <3>4. size \in Nat
      BY <2>1, <3>1, <3>3 DEF ToClient!HeaderSizes, ExchangeAssumption
    <3>5. s2cRd' = [s2cRd EXCEPT ![r] = [q EXCEPT !.pc = "recv", !.size = size]]
      BY <1>1, <2>1
    <3>6. s2c' = s2c /\ q.pc = "peek"
      BY <1>6 DEF ToClient!Peek, ToClient!ReaderAt
    <3>7. s2cRd'[r] = [q EXCEPT !.pc = "recv", !.size = size] /\ s2cRd' = [s2cRd EXCEPT ![r] = s2cRd'[r]]
      BY <1>2, <3>5, Zenon
    <3> QED BY <3>4, <3>6, <3>7, Zenon DEF CallStep
  <2>2. s2c' = s2c /\ s2cOpen' = s2cOpen
    BY <1>6 DEF ToClient!Peek
  <2> QED BY <1>5, <1>6, <2>1, <2>2, Zenon DEF ToClient!Peek
<1>7. ASSUME ToClient!Recv(r)
      PROVE  Goal /\ s2cOpen' = s2cOpen
  <2>1. ASSUME NEW n \in ToClient!Chunks(ToClient!Asked(r)),
               s2cRd' = [s2cRd EXCEPT ![r].got = @ \o SubSeq(s2c, 1, n)],
               s2c' = SubSeq(s2c, n + 1, Len(s2c))
        PROVE  Goal
    <3>1. q.got \in Seq(Byte) /\ q.len \in Nat
      BY <1>1, Fields
    <3>2. ToClient!Asked(r) \in Int
      BY <3>1 DEF ToClient!Asked
    <3>3. n \in 0..Len(s2c)
      BY <1>4, <2>1, <3>2
    <3>4. s2cRd' = [s2cRd EXCEPT ![r] = [q EXCEPT !.got = q.got \o SubSeq(s2c, 1, n)]]
      BY <1>1, <2>1
    <3>5. q.pc = "recv"
      BY <1>7 DEF ToClient!Recv, ToClient!ReaderAt
    <3>6. s2cRd'[r] = [q EXCEPT !.got = q.got \o SubSeq(s2c, 1, n)] /\ s2cRd' = [s2cRd EXCEPT ![r] = s2cRd'[r]]
      BY <1>2, <3>4, Zenon
    <3> QED BY <2>1, <3>3, <3>5, <3>6, Zenon DEF CallStep
  <2> QED BY <1>5, <1>7, <2>1, Zenon DEF ToClient!Recv
<1>8. ASSUME ToClient!Complete(r)
      PROVE  Goal /\ s2cOpen' = s2cOpen
  <2>1. s2cRd'[r] = [q EXCEPT !.pc = "returned", !.result = Len(q.got)] /\ s2cRd' = [s2cRd EXCEPT ![r] = s2cRd'[r]]
    BY <1>2, <1>3, <1>8, Zenon DEF ToClient!Complete
  <2>2. q.pc = "recv" /\ Len(q.got) >= q.size /\ s2c' = s2c /\ s2cOpen' = s2cOpen
    BY <1>8 DEF ToClient!Complete, ToClient!ReaderAt
  <2> QED BY <2>1, <2>2, Zenon DEF CallStep
<1> QED BY <1>6, <1>7, <1>8, Zenon DEF ToClient!Step

\* When the peek succeeds, a header was there, whole, or the stream has ended.
LEMMA ServerPeekTrue ==
  ASSUME ExchangeAssumption, ~SplitHeaders, TypeOK, ToServer!Step("server"),
         ReaderOK(c2sRd["server"], c2s, c2sOpen),
         Pending(c2sRd["server"], c2s) \in Packets \cup {<<>>}
  PROVE  PeekTrue(c2sRd["server"], c2s, c2sOpen, c2sRd'["server"])
<1> DEFINE r == "server"
           q == c2sRd[r]
<1> SUFFICES ASSUME q.pc = "peek", c2sRd'[r].pc = "recv"
             PROVE  IF c2s = <<>> THEN ~c2sOpen ELSE c2sRd'[r].size = c2s[1].size
  BY DEF PeekTrue
<1>1. /\ c2s \in Seq(Byte) /\ c2sRd \in [{"server"} -> RdType] /\ q \in RdType
      /\ Len(c2s) \in Nat /\ r \in {"server"}
  BY StreamTypes
<1>2. c2s \in Packets \cup {<<>>}
  <2>1. q.got = <<>>
    BY DEF ReaderOK
  <2>2. Pending(q, c2s) = c2s
    BY <1>1, <2>1, ConcatEmptySeq DEF Pending
  <2> QED BY <2>2
<1>3. ASSUME NEW n, ToServer!Returns(r, n)
      PROVE  FALSE
  <2>1. c2sRd' = [c2sRd EXCEPT ![r] = [q EXCEPT !.pc = "returned", !.result = n]]
    BY <1>1, <1>3 DEF ToServer!Returns
  <2>2. c2sRd'[r] = [q EXCEPT !.pc = "returned", !.result = n]
    BY <1>1, <2>1
  <2>3. [q EXCEPT !.pc = "returned", !.result = n].pc = "returned"
    BY <1>1 DEF RdType
  <2> QED BY <2>2, <2>3
<1>4. PICK n \in ToServer!PeekedBytes : \E size \in ToServer!HeaderSizes(n) :
        c2sRd' = [c2sRd EXCEPT ![r].pc = "recv", ![r].size = size]
  <2>1. ToServer!Peek(r)
    BY DEF ToServer!Step, ToServer!Recv, ToServer!Complete, ToServer!ReaderAt
  <2> QED BY <1>3, <2>1, Zenon DEF ToServer!Peek
<1>5. PICK size \in ToServer!HeaderSizes(n) :
        c2sRd' = [c2sRd EXCEPT ![r].pc = "recv", ![r].size = size]
  BY <1>4, Zenon
<1>6. CASE c2s = <<>>
  <2>1. ToServer!Chunks(HeaderLen) # {}
    BY <1>4 DEF ToServer!PeekedBytes
  <2> QED BY <1>6, <2>1 DEF ToServer!Chunks
<1>7. CASE c2s # <<>>
  <2>1. c2s \in Packets
    BY <1>2, <1>7
  <2>2. /\ Len(c2s) >= HeaderLen /\ HeaderLen \in Nat \ {0}
        /\ \A i \in 1..HeaderLen : c2s[i].off = i - 1
    BY <2>1, PacketFacts DEF ExchangeAssumption
  <2>3. n = HeaderLen
    BY <1>1, <1>4, <1>7, <2>2 DEF ToServer!PeekedBytes, ToServer!Chunks, ToServer!Lesser
  <2>4. size = c2s[1].size
    BY <1>5, <2>2, <2>3 DEF ToServer!HeaderSizes
  <2>5. c2sRd'[r].size = size
    <3>1. c2sRd' = [c2sRd EXCEPT ![r] = [q EXCEPT !.pc = "recv", !.size = size]]
      BY <1>1, <1>5
    <3>2. c2sRd'[r] = [q EXCEPT !.pc = "recv", !.size = size]
      BY <1>1, <3>1
    <3>3. [q EXCEPT !.pc = "recv", !.size = size].size = size
      BY <1>1 DEF RdType
    <3> QED BY <3>2, <3>3
  <2> QED BY <1>7, <2>4, <2>5
<1> QED BY <1>6, <1>7

\* The same for the worker.
LEMMA WorkerPeekTrue ==
  ASSUME NEW w \in Workers, ExchangeAssumption, ~SplitHeaders, TypeOK, ToClient!Step(w),
         ReaderOK(s2cRd[w], s2c, s2cOpen),
         Pending(s2cRd[w], s2c) \in Packets \cup {<<>>}
  PROVE  PeekTrue(s2cRd[w], s2c, s2cOpen, s2cRd'[w])
<1> DEFINE r == w
           q == s2cRd[r]
<1> SUFFICES ASSUME q.pc = "peek", s2cRd'[r].pc = "recv"
             PROVE  IF s2c = <<>> THEN ~s2cOpen ELSE s2cRd'[r].size = s2c[1].size
  BY DEF PeekTrue
<1>1. /\ s2c \in Seq(Byte) /\ s2cRd \in [Workers -> RdType] /\ q \in RdType
      /\ Len(s2c) \in Nat /\ r \in Workers
  BY StreamTypes
<1>2. s2c \in Packets \cup {<<>>}
  <2>1. q.got = <<>>
    BY DEF ReaderOK
  <2>2. Pending(q, s2c) = s2c
    BY <1>1, <2>1, ConcatEmptySeq DEF Pending
  <2> QED BY <2>2
<1>3. ASSUME NEW n, ToClient!Returns(r, n)
      PROVE  FALSE
  <2>1. s2cRd' = [s2cRd EXCEPT ![r] = [q EXCEPT !.pc = "returned", !.result = n]]
    BY <1>1, <1>3 DEF ToClient!Returns
  <2>2. s2cRd'[r] = [q EXCEPT !.pc = "returned", !.result = n]
    BY <1>1, <2>1
  <2>3. [q EXCEPT !.pc = "returned", !.result = n].pc = "returned"
    BY <1>1 DEF RdType
  <2> QED BY <2>2, <2>3
<1>4. PICK n \in ToClient!PeekedBytes : \E size \in ToClient!HeaderSizes(n) :
        s2cRd' = [s2cRd EXCEPT ![r].pc = "recv", ![r].size = size]
  <2>1. ToClient!Peek(r)
    BY DEF ToClient!Step, ToClient!Recv, ToClient!Complete, ToClient!ReaderAt
  <2> QED BY <1>3, <2>1, Zenon DEF ToClient!Peek
<1>5. PICK size \in ToClient!HeaderSizes(n) :
        s2cRd' = [s2cRd EXCEPT ![r].pc = "recv", ![r].size = size]
  BY <1>4, Zenon
<1>6. CASE s2c = <<>>
  <2>1. ToClient!Chunks(HeaderLen) # {}
    BY <1>4 DEF ToClient!PeekedBytes
  <2> QED BY <1>6, <2>1 DEF ToClient!Chunks
<1>7. CASE s2c # <<>>
  <2>1. s2c \in Packets
    BY <1>2, <1>7
  <2>2. /\ Len(s2c) >= HeaderLen /\ HeaderLen \in Nat \ {0}
        /\ \A i \in 1..HeaderLen : s2c[i].off = i - 1
    BY <2>1, PacketFacts DEF ExchangeAssumption
  <2>3. n = HeaderLen
    BY <1>1, <1>4, <1>7, <2>2 DEF ToClient!PeekedBytes, ToClient!Chunks, ToClient!Lesser
  <2>4. size = s2c[1].size
    BY <1>5, <2>2, <2>3 DEF ToClient!HeaderSizes
  <2>5. s2cRd'[r].size = size
    <3>1. s2cRd' = [s2cRd EXCEPT ![r] = [q EXCEPT !.pc = "recv", !.size = size]]
      BY <1>1, <1>5
    <3>2. s2cRd'[r] = [q EXCEPT !.pc = "recv", !.size = size]
      BY <1>1, <3>1
    <3>3. [q EXCEPT !.pc = "recv", !.size = size].size = size
      BY <1>1 DEF RdType
    <3> QED BY <3>2, <3>3
  <2> QED BY <1>7, <2>4, <2>5
<1> QED BY <1>6, <1>7

-----------------------------------------------------------------------------
\* A call that has just been made, and one that nobody makes.
Fresh(q) ==
  q \in RdType /\ q.got = <<>> /\ (q.pc = "peek" \/ (q.pc = "returned" /\ q.result = -1))

Resting(q) == q \in RdType /\ q.pc = "idle" /\ q.got = <<>>

\* A call gets its buffer.
LEMMA SetLen ==
  ASSUME NEW q \in RdType, NEW n \in Nat
  PROVE  LET q2 == [q EXCEPT !.pc = "peek", !.len = n] IN
         /\ q2 \in RdType /\ q2.pc = "peek" /\ q2.got = q.got
<1> DEFINE p == [q EXCEPT !.pc = "peek"]
<1>1. p \in RdType /\ p.pc = "peek" /\ p.got = q.got
  BY DEF RdType
<1>2. [q EXCEPT !.pc = "peek", !.len = n] = [p EXCEPT !.len = n]
  OBVIOUS
<1> HIDE DEF p
<1>3. [p EXCEPT !.len = n] \in RdType
  BY <1>1 DEF RdType
<1>4. [p EXCEPT !.len = n].pc = p.pc /\ [p EXCEPT !.len = n].got = p.got
  BY <1>1 DEF RdType
<1> QED BY <1>1, <1>2, <1>3, <1>4

\* Idle is a call that nobody makes.
LEMMA IdleRests ==
  Resting(ToServer!Idle) /\ Resting(ToClient!Idle)
<1>1. <<>> \in Seq(Byte)
  OBVIOUS
<1> QED BY <1>1 DEF Resting, RdType, ToServer!Idle, ToClient!Idle

\* The two outcomes of Call.
LEMMA FreshCall ==
  ASSUME NEW i, Resting(i), NEW len \in Nat, NEW q,
         q = [i EXCEPT !.pc = "returned", !.result = -1] \/ q = [i EXCEPT !.pc = "peek", !.len = len]
  PROVE  Fresh(q)
<1>1. i \in RdType /\ i.got = <<>> /\ -1 \in Int
  BY DEF Resting
<1>2. CASE q = [i EXCEPT !.pc = "returned", !.result = -1]
  <2>1. q \in RdType /\ q.pc = "returned" /\ q.got = i.got /\ q.result = -1
    BY <1>1, <1>2, SetResult
  <2> QED BY <1>1, <2>1 DEF Fresh
<1>3. CASE q = [i EXCEPT !.pc = "peek", !.len = len]
  <2>1. q \in RdType /\ q.pc = "peek" /\ q.got = i.got
    BY <1>1, <1>3, SetLen
  <2> QED BY <1>1, <2>1 DEF Fresh
<1> QED BY <1>2, <1>3

\* A step of a call keeps its type.
LEMMA CallType ==
  ASSUME NEW q \in RdType, NEW s \in Seq(Byte), NEW q2, NEW s2, CallStep(q, s, q2, s2)
  PROVE  q2 \in RdType /\ s2 \in Seq(Byte)
<1>0. q.got \in Seq(Byte) /\ Len(q.got) \in Int /\ -1 \in Int
  BY Fields
<1>1. CASE Fails(q, q2) /\ s2 = s
  BY <1>0, <1>1, SetResult DEF Fails
<1>2. ASSUME s2 = s, NEW n \in Nat, q2 = [q EXCEPT !.pc = "recv", !.size = n]
      PROVE  q2 \in RdType /\ s2 \in Seq(Byte)
  BY <1>2, SetSize
<1>3. ASSUME NEW n \in 0..Len(s), q2 = [q EXCEPT !.got = q.got \o SubSeq(s, 1, n)],
             s2 = SubSeq(s, n + 1, Len(s))
      PROVE  q2 \in RdType /\ s2 \in Seq(Byte)
  <2>1. SubSeq(s, 1, n) \in Seq(Byte) /\ s2 \in Seq(Byte)
    BY <1>3
  <2>2. q.got \o SubSeq(s, 1, n) \in Seq(Byte)
    BY <1>0, <2>1
  <2> QED BY <1>3, <2>1, <2>2, SetGot
<1>4. ASSUME s2 = s, q2 = [q EXCEPT !.pc = "returned", !.result = Len(q.got)]
      PROVE  q2 \in RdType /\ s2 \in Seq(Byte)
  BY <1>0, <1>4, SetResult
<1> QED BY <1>1, <1>2, <1>3, <1>4, Zenon DEF CallStep

\* ReadPacketData is called, and left.
LEMMA ServerCalls ==
  ASSUME TypeOK, NEW len \in Nat, ToServer!Call("server", len)
  PROVE  /\ Fresh(c2sRd'["server"]) /\ c2sRd' \in [{"server"} -> RdType]
         /\ c2sRd' = [c2sRd EXCEPT !["server"] = c2sRd'["server"]]
         /\ c2s' = c2s /\ c2sOpen' = c2sOpen /\ c2sRd["server"].pc = "idle"
<1>1. c2sRd \in [{"server"} -> RdType] /\ "server" \in {"server"}
  BY StreamTypes
<1>2. PICK q : /\ c2sRd' = [c2sRd EXCEPT !["server"] = q]
               /\ q = [ToServer!Idle EXCEPT !.pc = "returned", !.result = -1]
                    \/ q = [ToServer!Idle EXCEPT !.pc = "peek", !.len = len]
  BY Zenon DEF ToServer!Call
<1>4. Fresh(q)
  BY <1>2, IdleRests, FreshCall, Zenon
<1>5. q \in RdType
  BY <1>4 DEF Fresh
<1>6. c2sRd' \in [{"server"} -> RdType] /\ c2sRd'["server"] = q
  BY <1>1, <1>2, <1>5, SetOne
<1>7. c2s' = c2s /\ c2sOpen' = c2sOpen /\ c2sRd["server"].pc = "idle"
  BY DEF ToServer!Call, ToServer!ReaderAt
<1> QED BY <1>2, <1>4, <1>6, <1>7, Zenon

\* The server client has looked at its packet.
LEMMA ServerLeaves ==
  ASSUME TypeOK, ToServer!Leave("server")
  PROVE  /\ Resting(c2sRd'["server"]) /\ c2sRd' \in [{"server"} -> RdType]
         /\ c2s' = c2s /\ c2sOpen' = c2sOpen
<1>1. c2sRd \in [{"server"} -> RdType] /\ "server" \in {"server"}
  BY StreamTypes
<1>2. ToServer!Idle \in RdType
  BY IdleRests DEF Resting
<1>3. c2sRd' \in [{"server"} -> RdType] /\ c2sRd'["server"] = ToServer!Idle
  BY <1>1, <1>2, SetOne DEF ToServer!Leave
<1> QED BY <1>3, IdleRests, Zenon DEF ToServer!Leave

\* The same for the worker.
LEMMA WorkerCalls ==
  ASSUME NEW w \in Workers, TypeOK, NEW len \in Nat, ToClient!Call(w, len)
  PROVE  /\ Fresh(s2cRd'[w]) /\ s2cRd' \in [Workers -> RdType]
         /\ s2cRd' = [s2cRd EXCEPT ![w] = s2cRd'[w]]
         /\ s2c' = s2c /\ s2cOpen' = s2cOpen /\ s2cRd[w].pc = "idle"
<1>1. s2cRd \in [Workers -> RdType]
  BY StreamTypes
<1>2. PICK q : /\ s2cRd' = [s2cRd EXCEPT ![w] = q]
               /\ q = [ToClient!Idle EXCEPT !.pc = "returned", !.result = -1]
                    \/ q = [ToClient!Idle EXCEPT !.pc = "peek", !.len = len]
  BY Zenon DEF ToClient!Call
<1>4. Fresh(q)
  BY <1>2, IdleRests, FreshCall, Zenon
<1>5. q \in RdType
  BY <1>4 DEF Fresh
<1>6. s2cRd' \in [Workers -> RdType] /\ s2cRd'[w] = q
  BY <1>1, <1>2, <1>5, SetOne
<1>7. s2c' = s2c /\ s2cOpen' = s2cOpen /\ s2cRd[w].pc = "idle"
  BY DEF ToClient!Call, ToClient!ReaderAt
<1> QED BY <1>2, <1>4, <1>6, <1>7, Zenon

\* The same for the worker.
LEMMA WorkerLeaves ==
  ASSUME NEW w \in Workers, TypeOK, ToClient!Leave(w)
  PROVE  /\ Resting(s2cRd'[w]) /\ s2cRd' \in [Workers -> RdType]
         /\ s2c' = s2c /\ s2cOpen' = s2cOpen
<1>1. s2cRd \in [Workers -> RdType]
  BY StreamTypes
<1>2. ToClient!Idle \in RdType
  BY IdleRests DEF Resting
<1>3. s2cRd' \in [Workers -> RdType] /\ s2cRd'[w] = ToClient!Idle
  BY <1>1, <1>2, SetOne DEF ToClient!Leave
<1> QED BY <1>3, IdleRests, Zenon DEF ToClient!Leave

-----------------------------------------------------------------------------
\* Types of what is sent.
LEMMA PayloadsType ==
  ASSUME ExchangeAssumption
  PROVE  Payloads \cup {NoPayload} \subseteq Seq(Byte) /\ \A p \in Payloads : Len(p) \in Nat
<1>1. Packets \subseteq Seq(Byte) /\ \A p \in Packets : Len(p) \in Nat
  BY PacketFacts
<1>2. NoPayload \in Seq(Byte)
  BY DEF NoPayload
<1> QED BY <1>1, <1>2, PayloadFacts

\* Types of what is answered.
LEMMA ReplyType ==
  ASSUME ExchangeAssumption, NEW b \in Seq(Byte)
  PROVE  ReplyTo(b) \in Seq(Byte)
<1>1. ToServer!Bytes(AckTag, HeaderLen) \in Packets
  BY DEF Packets, ExchangeAssumption, ToServer!Bytes, ToClient!Bytes
<1>2. ToServer!Bytes(AckTag, HeaderLen) \in Seq(Byte)
  BY <1>1, PacketFacts
<1> QED BY <1>2 DEF ReplyTo

ServerSide == c2s \in Seq(Byte) /\ c2sOpen \in BOOLEAN /\ c2sRd \in [{"server"} -> RdType]
ClientSide == s2c \in Seq(Byte) /\ s2cOpen \in BOOLEAN /\ s2cRd \in [Workers -> RdType]
WorkerTypes ==
  /\ wpc \in [Workers -> {"loop", "send", "read", "done"}]
  /\ sent \in [Workers -> Payloads \cup {NoPayload}]
  /\ wstop \in [Workers -> BOOLEAN]
ServerTypes ==
  /\ spc \in {"loop", "poll", "read", "send", "done"}
  /\ repbuf \in Seq(Byte)
  /\ sstop \in BOOLEAN

\* TypeOK in five parts, and how each is kept.
LEMMA Types ==
  TypeOK <=> ServerSide /\ ClientSide /\ WorkerTypes /\ ServerTypes /\ lost \subseteq {"client", "server"}
BY StreamTypes, Zenon DEF ServerSide, ClientSide, WorkerTypes, ServerTypes

LEMMA TypesNext ==
  ASSUME ServerSide', ClientSide', WorkerTypes', ServerTypes', lost' \subseteq {"client", "server"}
  PROVE  TypeOK'
BY Zenon DEF ServerSide, ClientSide, WorkerTypes, ServerTypes,
  TypeOK, ToServer!TypeOK, ToClient!TypeOK, RdType

\* The parts of the state that a step leaves alone keep their types.
LEMMA SameTypes ==
  ASSUME TypeOK
  PROVE  /\ UNCHANGED c2sVars => ServerSide'
         /\ UNCHANGED s2cVars => ClientSide'
         /\ UNCHANGED workerVars => WorkerTypes'
         /\ UNCHANGED serverVars => ServerTypes'
         /\ UNCHANGED lost => lost' \subseteq {"client", "server"}
<1>1. UNCHANGED c2sVars => ServerSide'
  BY Types DEF ServerSide, c2sVars
<1>2. UNCHANGED s2cVars => ClientSide'
  BY Types DEF ClientSide, s2cVars
<1>3. UNCHANGED workerVars => WorkerTypes'
  BY Types DEF WorkerTypes, workerVars
<1>4. UNCHANGED serverVars => ServerTypes'
  BY Types DEF ServerTypes, serverVars
<1>5. UNCHANGED lost => lost' \subseteq {"client", "server"}
  BY Types
<1> QED BY <1>1, <1>2, <1>3, <1>4, <1>5

LEMMA Goes ==
  ASSUME TypeOK, NEW w \in Workers, NEW pc \in {"loop", "send", "read", "done"}, WorkerGoes(w, pc)
  PROVE  wpc' \in [Workers -> {"loop", "send", "read", "done"}] /\ wstop' \in [Workers -> BOOLEAN] /\ wpc'[w] = pc
BY StreamTypes DEF WorkerGoes

LEMMA Gets ==
  ASSUME TypeOK, NEW w \in Workers, NEW p \in Payloads \cup {NoPayload}, sent' = [sent EXCEPT ![w] = p]
  PROVE  sent' \in [Workers -> Payloads \cup {NoPayload}] /\ sent'[w] = p
BY StreamTypes

\* One step per action of the worker.
LEMMA WorkerKeepsTypes ==
  ASSUME ExchangeAssumption, TypeOK, NEW w \in Workers, Worker(w)
  PROVE  TypeOK'
<1>1. CASE WorkerLoop(w)
  <2>1. WorkerTypes'
    <3>1. CASE wstop[w] /\ WorkerGoes(w, "done") /\ UNCHANGED sent
      BY <3>1, Goes, StreamTypes DEF WorkerTypes
    <3>2. ASSUME WorkerGoes(w, "send"), NEW p \in Payloads, sent' = [sent EXCEPT ![w] = p]
          PROVE  WorkerTypes'
      BY <3>2, Goes, Gets DEF WorkerTypes
    <3> QED BY <1>1, <3>1, <3>2, Zenon DEF WorkerLoop
  <2> QED BY <1>1, <2>1, SameTypes, TypesNext, Zenon DEF WorkerLoop
<1>2. CASE WorkerSends(w)
  <2>0. sent[w] \in Seq(Byte) /\ Len(sent[w]) \in Nat
    BY StreamTypes, PayloadsType, LenProperties
  <2>1. ServerSide'
    <3>1. ToServer!Write(sent[w]) => ServerSide'
      BY <2>0, StreamTypes DEF ToServer!Write, ServerSide
    <3> QED BY <1>2, <3>1, SameTypes, Zenon DEF WorkerSends
  <2>2. ClientSide'
    <3>1. ToClient!Call(w, Len(sent[w]))
      BY <1>2 DEF WorkerSends
    <3> QED BY <2>0, <3>1, WorkerCalls, Types DEF ClientSide
  <2>3. WorkerTypes' /\ lost' \subseteq {"client", "server"}
    <3>1. WorkerGoes(w, "read") /\ UNCHANGED sent /\ lost' \in {lost, lost \cup {"client"}}
      BY <1>2 DEF WorkerSends
    <3> QED BY <3>1, Goes, StreamTypes DEF WorkerTypes
  <2> QED BY <1>2, <2>1, <2>2, <2>3, SameTypes, TypesNext, Zenon DEF WorkerSends
<1>3. CASE WorkerSendFails(w)
  <2>1. ServerSide' /\ WorkerTypes'
    <3>1. CASE WorkerGoes(w, "done") /\ UNCHANGED c2sVars /\ UNCHANGED sent
      BY <3>1, SameTypes, Goes, StreamTypes DEF WorkerTypes
    <3>2. CASE ToServer!Close /\ UNCHANGED <<wpc, wstop, sent>>
      <4>1. ServerSide'
        BY <3>2, StreamTypes DEF ToServer!Close, ServerSide
      <4>2. UNCHANGED workerVars
        BY <3>2 DEF workerVars
      <4> QED BY <4>1, <4>2, SameTypes
    <3> QED BY <1>3, <3>1, <3>2 DEF WorkerSendFails
  <2> QED BY <1>3, <2>1, SameTypes, TypesNext, Zenon DEF WorkerSendFails
<1>4. CASE WorkerReads(w)
  <2>1. ToClient!Step(w)
    BY <1>4 DEF WorkerReads
  <2>2. /\ CallStep(s2cRd[w], s2c, s2cRd'[w], s2c') /\ s2cRd' = [s2cRd EXCEPT ![w] = s2cRd'[w]]
        /\ s2cOpen' = s2cOpen
    BY <2>1, WorkerCallStep
  <2>3. s2cRd \in [Workers -> RdType] /\ s2c \in Seq(Byte) /\ s2cOpen \in BOOLEAN /\ s2cRd[w] \in RdType
    BY StreamTypes
  <2>4. s2cRd'[w] \in RdType /\ s2c' \in Seq(Byte)
    BY <2>2, <2>3, CallType
  <2>5. ClientSide'
    BY <2>2, <2>3, <2>4, SetOne DEF ClientSide
  <2> QED BY <1>4, <2>5, SameTypes, TypesNext, Zenon DEF WorkerReads
<1>5. CASE WorkerTakesReply(w)
  <2>1. ToClient!Leave(w) /\ sent' = [sent EXCEPT ![w] = NoPayload]
    BY <1>5 DEF WorkerTakesReply
  <2>2. ClientSide'
    BY <2>1, WorkerLeaves, Types DEF ClientSide
  <2>3. \E pc \in {"loop", "done"} : WorkerGoes(w, pc)
    BY <1>5 DEF WorkerTakesReply
  <2>4. WorkerTypes'
    BY <2>1, <2>3, Goes, Gets DEF WorkerTypes
  <2> QED BY <1>5, <2>2, <2>4, SameTypes, TypesNext, Zenon DEF WorkerTakesReply
<1> QED BY <1>1, <1>2, <1>3, <1>4, <1>5 DEF Worker

\* One step per action of the server client.
LEMMA ServerKeepsTypes ==
  ASSUME ExchangeAssumption, TypeOK, Server
  PROVE  TypeOK'
<1>0. /\ c2s \in Seq(Byte) /\ c2sOpen \in BOOLEAN /\ c2sRd \in [{"server"} -> RdType]
      /\ c2sRd["server"] \in RdType
      /\ s2c \in Seq(Byte) /\ s2cOpen \in BOOLEAN /\ s2cRd \in [Workers -> RdType]
      /\ repbuf \in Seq(Byte) /\ sstop \in BOOLEAN
  BY StreamTypes
<1>1. CASE ServerLoop
  <2>1. ServerTypes'
    BY <1>0, <1>1 DEF ServerLoop, ServerGoes, ServerTypes
  <2> QED BY <1>1, <2>1, SameTypes, TypesNext, Zenon DEF ServerLoop
<1>2. CASE ServerPoll
  <2>1. ServerTypes'
    BY <1>0, <1>2 DEF ServerPoll, ServerGoes, ServerTypes
  <2>2. ServerSide'
    <3>1. MaxServerPacket \in Nat
      BY DEF ExchangeAssumption
    <3>2. ToServer!Call("server", MaxServerPacket) => ServerSide'
      BY <1>0, <3>1, ServerCalls DEF ServerSide
    <3> QED BY <1>2, <3>2, SameTypes, Zenon DEF ServerPoll
  <2> QED BY <1>2, <2>1, <2>2, SameTypes, TypesNext, Zenon DEF ServerPoll
<1>3. CASE ServerReads
  <2>1. ToServer!Step("server")
    BY <1>3 DEF ServerReads
  <2>2. /\ CallStep(c2sRd["server"], c2s, c2sRd'["server"], c2s')
        /\ c2sRd' = [c2sRd EXCEPT !["server"] = c2sRd'["server"]] /\ c2sOpen' = c2sOpen
    BY <2>1, ServerCallStep
  <2>3. c2sRd'["server"] \in RdType /\ c2s' \in Seq(Byte)
    BY <1>0, <2>2, CallType
  <2>4. ServerSide'
    BY <1>0, <2>2, <2>3, SetOne DEF ServerSide
  <2> QED BY <1>3, <2>4, SameTypes, TypesNext, Zenon DEF ServerReads
<1>4. CASE ServerTakesPacket
  <2>1. ServerSide'
    BY <1>0, <1>4, ServerLeaves DEF ServerTakesPacket, ServerSide
  <2>2. ServerTypes'
    <3>1. c2sRd["server"].got \in Seq(Byte)
      BY <1>0, Fields
    <3>2. ReplyTo(c2sRd["server"].got) \in Seq(Byte)
      BY <3>1, ReplyType
    <3> QED BY <1>0, <1>4, <3>2 DEF ServerTakesPacket, ServerGoes, ServerTypes
  <2> QED BY <1>4, <2>1, <2>2, SameTypes, TypesNext, Zenon DEF ServerTakesPacket
<1>5. CASE ServerSends
  <2>1. ClientSide'
    <3>1. ToClient!Write(repbuf) => ClientSide'
      BY <1>0 DEF ToClient!Write, ClientSide
    <3> QED BY <1>5, <3>1, SameTypes, Zenon DEF ServerSends
  <2>2. ServerTypes' /\ lost' \subseteq {"client", "server"}
    <3>1. ServerGoes("loop") /\ repbuf' = NoPayload /\ lost' \in {lost, lost \cup {"server"}}
      BY <1>5 DEF ServerSends
    <3> QED BY <1>0, <3>1, StreamTypes DEF ServerGoes, ServerTypes, NoPayload
  <2>3. UNCHANGED c2sVars /\ UNCHANGED workerVars
    BY <1>5 DEF ServerSends
  <2> QED BY <2>1, <2>2, <2>3, SameTypes, TypesNext, Zenon
<1>6. CASE ServerSendFails
  <2>1. ClientSide' /\ ServerTypes'
    <3>1. CASE ServerGoes("done") /\ repbuf' = NoPayload /\ UNCHANGED s2cVars
      BY <1>0, <3>1, SameTypes DEF ServerGoes, ServerTypes, NoPayload
    <3>2. CASE ToClient!Close /\ UNCHANGED serverVars
      <4>1. ClientSide'
        BY <1>0, <3>2 DEF ToClient!Close, ClientSide
      <4> QED BY <3>2, <4>1, SameTypes
    <3> QED BY <1>6, <3>1, <3>2 DEF ServerSendFails
  <2> QED BY <1>6, <2>1, SameTypes, TypesNext, Zenon DEF ServerSendFails
<1> QED BY <1>1, <1>2, <1>3, <1>4, <1>5, <1>6 DEF Server

LEMMA TypeStep ==
  ASSUME ExchangeAssumption, TypeOK, [Next]_vars
  PROVE  TypeOK'
<1>0. /\ c2s \in Seq(Byte) /\ c2sOpen \in BOOLEAN /\ c2sRd \in [{"server"} -> RdType]
      /\ s2c \in Seq(Byte) /\ s2cOpen \in BOOLEAN /\ s2cRd \in [Workers -> RdType]
      /\ repbuf \in Seq(Byte) /\ sstop \in BOOLEAN /\ wstop \in [Workers -> BOOLEAN]
      /\ lost \subseteq {"client", "server"}
  BY StreamTypes
<1>1. ASSUME NEW w \in Workers, ClientStops(w)
      PROVE  TypeOK'
  <2>1. WorkerTypes'
    BY <1>0, <1>1, StreamTypes DEF ClientStops, WorkerTypes
  <2> QED BY <1>1, <2>1, SameTypes, TypesNext, Zenon DEF ClientStops
<1>2. CASE ServerStops
  <2>1. ServerTypes'
    BY <1>0, <1>2, StreamTypes DEF ServerStops, ServerTypes
  <2> QED BY <1>2, <2>1, SameTypes, TypesNext, Zenon DEF ServerStops
<1>3. CASE ClientExits
  <2>1. ServerSide' /\ lost' \subseteq {"client", "server"}
    BY <1>0, <1>3 DEF ClientExits, ToServer!Close, ServerSide
  <2> QED BY <1>3, <2>1, SameTypes, TypesNext, Zenon DEF ClientExits
<1>4. CASE ServerExits
  <2>1. ClientSide' /\ lost' \subseteq {"client", "server"}
    BY <1>0, <1>4 DEF ServerExits, ToClient!Close, ClientSide
  <2> QED BY <1>4, <2>1, SameTypes, TypesNext, Zenon DEF ServerExits
<1>5. CASE UNCHANGED vars
  BY <1>5, SameTypes, TypesNext, Zenon DEF vars
<1> QED BY <1>1, <1>2, <1>3, <1>4, <1>5, WorkerKeepsTypes, ServerKeepsTypes DEF Next

LEMMA TypeInit ==
  ASSUME Init
  PROVE  TypeOK
<1>1. ServerSide /\ ClientSide
  <2>1. ToServer!Idle \in RdType /\ ToClient!Idle \in RdType
    BY IdleRests DEF Resting
  <2> QED BY <2>1 DEF Init, ToServer!Init, ToClient!Init, ServerSide, ClientSide
<1>2. WorkerTypes /\ ServerTypes /\ lost \subseteq {"client", "server"}
  <2>1. WorkerTypes
    BY DEF Init, WorkerTypes
  <2>2. ServerTypes /\ lost \subseteq {"client", "server"}
    <3>1. spc = "loop" /\ repbuf = <<>> /\ sstop = FALSE /\ lost = {}
      BY Zenon DEF Init, NoPayload
    <3>2. <<>> \in Seq(Byte)
      OBVIOUS
    <3> QED BY <3>1, <3>2 DEF ServerTypes
  <2> QED BY <2>1, <2>2
<1> QED BY <1>1, <1>2, Types

\* The state of both ends stays well formed, whatever the number of workers.
THEOREM TypeCorrect == Spec => []TypeOK
<1>1. Init => TypeOK
  BY TypeInit
<1>2. TypeOK /\ [Next]_vars => TypeOK'
  BY ExchangeAssumption, TypeStep
<1> QED BY <1>1, <1>2, PTL DEF Spec

-----------------------------------------------------------------------------
(***************************************************************************)
(* The invariant of a connection with one worker.  Ps are the bytes that   *)
(* the server has or will have read of a packet, Pw those the worker has   *)
(* or will have of a reply.                                                *)
(***************************************************************************)
Ps == Pending(c2sRd["server"], c2s)
Pw == Pending(s2cRd[W], s2c)
Reading == spc \in {"loop", "poll", "read"}

\* The server has no packet and makes no reply, now or later.
Unasked == spc # "send" /\ (Reading => Ps = <<>>)

\* Nobody is in ReadPacketData but a thread that waits for it,
CallsInv ==
  /\ spc # "read" => c2sRd["server"].pc = "idle" /\ c2sRd["server"].got = <<>>
  /\ wpc[W] # "read" => s2cRd[W].pc = "idle" /\ s2cRd[W].got = <<>>

\* and its calls are in order.
ReadersInv == ReaderOK(c2sRd["server"], c2s, c2sOpen) /\ ReaderOK(s2cRd[W], s2c, s2cOpen)

\* The server works on one packet.
ServerInv ==
  /\ Reading => Ps \in Packets \cup {<<>>}
  /\ spc = "send" => c2s = <<>> /\ repbuf \in Packets

\* When the worker is about to send, neither stream holds anything.
QuietInv ==
  wpc[W] \in {"loop", "send"} => s2c = <<>> /\ (ServerUp => Unasked)

\* While it waits, the packet is on its way, or at the server, or the reply is.
AskedInv ==
  /\ wpc[W] \in {"send", "read"} => sent[W] \in Payloads
  /\ wpc[W] = "read" =>
       /\ Pw \in {<<>>, ReplyTo(sent[W])}
       /\ ServerUp /\ Reading => Ps \in {<<>>, sent[W]}
       /\ ServerUp /\ spc = "send" => repbuf = ReplyTo(sent[W])

\* A reply that was sent was the only one due,
AnsweredInv == ServerUp /\ Pw # <<>> => Unasked

\* also when the client is gone.
LostInv == "server" \in lost => ~ClientUp /\ (ServerUp => Unasked)

IInv ==
  /\ CallsInv /\ ReadersInv /\ ServerInv
  /\ QuietInv /\ AskedInv /\ AnsweredInv /\ LostInv

\* There is exactly one worker.
LEMMA TheWorker ==
  ASSUME OneWorker
  PROVE  W \in Workers /\ (\A w \in Workers : w = W) /\ ~SplitHeaders
BY DEF OneWorker, W

\* The actions that touch neither stream.
LEMMA QuietSteps ==
  ASSUME ExchangeAssumption, OneWorker, TypeOK, IInv,
         UNCHANGED <<c2s, c2sRd, s2c, s2cRd, lost>>,
         \/ WorkerLoop(W) \/ ServerLoop
         \/ (\E w \in Workers : ClientStops(w)) \/ ServerStops \/ UNCHANGED vars
  PROVE  IInv'
<1> USE DEF IInv, CallsInv, ReadersInv, ServerInv, QuietInv, AskedInv, AnsweredInv, LostInv,
        Ps, Pw, Reading, Unasked, ClientUp, ServerUp
<1>0. W \in Workers /\ wpc \in [Workers -> {"loop", "send", "read", "done"}]
      /\ sent \in [Workers -> Payloads \cup {NoPayload}] /\ W' = W
  BY TheWorker, StreamTypes DEF W
<1>1. CASE WorkerLoop(W)
  <2>1. UNCHANGED <<c2sOpen, s2cOpen, spc, repbuf>> /\ wpc[W] = "loop"
    BY <1>1 DEF WorkerLoop, WorkerAt, c2sVars, s2cVars, serverVars
  <2>2. wpc'[W] = "done" \/ (wpc'[W] = "send" /\ sent'[W] \in Payloads)
    BY <1>0, <1>1 DEF WorkerLoop, WorkerGoes
  <2> QED BY <1>0, <2>1, <2>2
<1>2. CASE ServerLoop
  <2>1. UNCHANGED <<c2sOpen, s2cOpen, wpc, sent, repbuf>> /\ spc = "loop" /\ spc' \in {"poll", "done"}
    BY <1>2 DEF ServerLoop, ServerAt, ServerGoes, c2sVars, s2cVars, workerVars
  <2> QED BY <1>0, <2>1
<1>3. CASE UNCHANGED <<c2sOpen, s2cOpen, wpc, sent, spc, repbuf>>
  BY <1>0, <1>3
<1> QED BY <1>1, <1>2, <1>3 DEF ClientStops, ServerStops, vars, c2sVars, s2cVars, workerVars, serverVars

\* The actions that end a process, or fail.
LEMMA EndingSteps ==
  ASSUME ExchangeAssumption, OneWorker, TypeOK, IInv,
         WorkerSendFails(W) \/ ServerSendFails \/ ClientExits \/ ServerExits
  PROVE  IInv'
<1> USE DEF IInv, CallsInv, ReadersInv, ServerInv, QuietInv, AskedInv, AnsweredInv, LostInv,
        Ps, Pw, Reading, Unasked, ClientUp, ServerUp
<1>0. W \in Workers /\ wpc \in [Workers -> {"loop", "send", "read", "done"}]
      /\ s2cRd \in [Workers -> RdType] /\ s2c \in Seq(Byte) /\ W' = W
      /\ s2cRd[W] \in RdType
  BY TheWorker, StreamTypes DEF W
<1>1. \A q, s, o : ReaderOK(q, s, o) => ReaderOK(q, s, FALSE)
  BY Zenon DEF ReaderOK
<1>2. CASE WorkerSendFails(W)
  <2>1. /\ UNCHANGED <<c2s, c2sRd, s2c, s2cOpen, s2cRd, spc, repbuf, sent, lost>> /\ wpc[W] = "send"
        /\ \/ c2sOpen' = c2sOpen /\ wpc'[W] = "done"
           \/ c2sOpen' = FALSE /\ wpc' = wpc
    BY <1>0, <1>2 DEF WorkerSendFails, WorkerAt, WorkerGoes, ToServer!Close, c2sVars, s2cVars, serverVars
  <2>2. CASE c2sOpen' = c2sOpen /\ wpc'[W] = "done"
    BY <1>0, <2>1, <2>2
  <2>3. CASE c2sOpen' = FALSE /\ wpc' = wpc
    BY <1>0, <1>1, <2>1, <2>3
  <2> QED BY <2>1, <2>2, <2>3
<1>3. CASE ServerSendFails
  <2>1. /\ UNCHANGED <<c2s, c2sOpen, c2sRd, s2c, s2cRd, wpc, sent, lost>> /\ spc = "send"
        /\ \/ s2cOpen' = s2cOpen /\ spc' = "done"
           \/ s2cOpen' = FALSE /\ spc' = spc /\ repbuf' = repbuf
    BY <1>0, <1>3 DEF ServerSendFails, ServerAt, ServerGoes, ToClient!Close, c2sVars, s2cVars, serverVars, workerVars
  <2>2. CASE s2cOpen' = s2cOpen /\ spc' = "done"
    BY <1>0, <2>1, <2>2
  <2>3. CASE s2cOpen' = FALSE /\ spc' = spc /\ repbuf' = repbuf
    BY <1>0, <1>1, <2>1, <2>3
  <2> QED BY <2>1, <2>2, <2>3
<1>4. CASE ClientExits
  <2>1. /\ UNCHANGED <<c2s, c2sRd, s2c, s2cOpen, s2cRd, spc, repbuf, wpc, sent>>
        /\ c2sOpen' = FALSE
        /\ lost' = IF s2c = <<>> THEN lost ELSE lost \cup {"server"}
    BY <1>4 DEF ClientExits, ToServer!Close, s2cVars, serverVars, workerVars
  <2>2. s2c # <<>> => Pw # <<>>
    <3>1. s2cRd[W].got \in Seq(Byte)
      BY <1>0, Fields
    <3> QED BY <1>0, <3>1 DEF Pending
  <2>3. LostInv'
    BY <2>1, <2>2
  <2> QED BY <1>0, <1>1, <2>1, <2>3
<1>5. CASE ServerExits
  <2>1. /\ UNCHANGED <<c2s, c2sRd, s2c, c2sOpen, s2cRd, spc, repbuf, wpc, sent>>
        /\ s2cOpen' = FALSE
        /\ "server" \in lost' <=> "server" \in lost
    BY <1>5 DEF ServerExits, ToClient!Close, c2sVars, serverVars, workerVars
  <2> QED BY <1>0, <1>1, <2>1
<1> QED BY <1>2, <1>3, <1>4, <1>5

\* The packet goes into an empty stream.
LEMMA WorkerSendsStep ==
  ASSUME ExchangeAssumption, OneWorker, TypeOK, IInv, WorkerSends(W)
  PROVE  IInv'
<1> USE DEF IInv
<1>0. W \in Workers /\ wpc \in [Workers -> {"loop", "send", "read", "done"}] /\ W' = W
      /\ c2s \in Seq(Byte) /\ c2sRd["server"] \in RdType /\ s2c \in Seq(Byte)
  BY TheWorker, StreamTypes DEF W
<1>1. /\ wpc[W] = "send" /\ wpc'[W] = "read" /\ ClientUp /\ sent[W] \in Payloads
      /\ UNCHANGED <<sent, spc, repbuf, c2sRd, c2sOpen>>
      /\ \/ s2cOpen /\ c2s' = c2s \o sent[W] /\ lost' = lost
         \/ ~s2cOpen /\ c2s' = c2s /\ lost' = lost \cup {"client"}
  BY <1>0 DEF WorkerSends, WorkerAt, WorkerGoes, ToServer!Write, c2sVars, serverVars, AskedInv, ServerUp
<1>2. sent[W] \in Packets /\ sent[W] \in Seq(Byte) /\ Len(sent[W]) \in Nat /\ sent[W] # <<>>
  BY <1>1, PayloadFacts, PacketFacts
<1>3. Fresh(s2cRd'[W]) /\ s2c' = s2c /\ s2cOpen' = s2cOpen
  <2>1. ToClient!Call(W, Len(sent[W]))
    BY DEF WorkerSends
  <2> QED BY <1>0, <1>2, <2>1, WorkerCalls
<1>4. s2c = <<>> /\ (s2cOpen => Unasked)
  BY <1>1 DEF QuietInv, ServerUp
<1>5. Pw' = <<>>
  BY <1>0, <1>3, <1>4 DEF Pw, Pending, Fresh
<1>6. s2cOpen /\ Reading => c2s = <<>> /\ c2sRd["server"].got = <<>> /\ c2s' = sent[W] /\ Ps' = sent[W]
  <2>1. c2sRd["server"].got \in Seq(Byte)
    BY <1>0, Fields
  <2>2. s2cOpen /\ Reading => c2s = <<>> /\ c2sRd["server"].got = <<>>
    BY <1>0, <1>4, <2>1 DEF Unasked, Ps, Pending
  <2>3. <<>> \o sent[W] = sent[W]
    BY <1>2
  <2> QED BY <1>1, <2>2, <2>3 DEF Ps, Pending
<1>7. ~s2cOpen => Ps' = Ps
  BY <1>1 DEF Ps
<1>8. CallsInv'
  BY <1>0, <1>1 DEF CallsInv
<1>9. ReadersInv'
  <2>1. ReaderOK(s2cRd'[W], s2c', s2cOpen')
    BY <1>3 DEF ReaderOK, Fresh
  <2>2. ReaderOK(c2sRd'["server"], c2s', c2sOpen')
    <3>1. CASE ~s2cOpen
      BY <1>1, <3>1 DEF ReadersInv
    <3>2. CASE s2cOpen /\ Reading
      <4>1. ReaderOK(c2sRd["server"], <<>>, TRUE)
        BY <1>1, <1>6, <3>2, StreamTypes DEF ReadersInv, ClientUp
      <4>2. <<>> \notin Packets
        BY PacketFacts
      <4>3. Pending(c2sRd["server"], <<>>) = <<>>
        BY <1>6, <3>2 DEF Pending
      <4>4. ReaderOK(c2sRd["server"], sent[W], TRUE)
        BY <1>6, <3>2, <4>1, <4>2, <4>3, Zenon DEF ReaderOK
      <4> QED BY <1>1, <1>6, <3>2, <4>4, StreamTypes DEF ClientUp
    <3>3. CASE ~Reading
      <4>1. c2sRd["server"].pc = "idle" /\ c2sRd["server"].got = <<>>
        BY <3>3 DEF CallsInv, Reading
      <4> QED BY <1>1, <4>1 DEF ReaderOK
    <3> QED BY <3>1, <3>2, <3>3
  <2> QED BY <1>0, <2>1, <2>2 DEF ReadersInv
<1>10. ServerInv'
  <2>1. CASE ~s2cOpen
    BY <1>1, <1>7, <2>1 DEF ServerInv, Reading
  <2>2. CASE s2cOpen
    BY <1>1, <1>2, <1>4, <1>6, <2>2 DEF ServerInv, Reading, Unasked
  <2> QED BY <2>1, <2>2
<1>11. QuietInv'
  BY <1>0, <1>1 DEF QuietInv
<1>12. AskedInv'
  BY <1>0, <1>1, <1>3, <1>4, <1>5, <1>6 DEF AskedInv, Reading, Unasked, ServerUp
<1>13. AnsweredInv'
  BY <1>5 DEF AnsweredInv
<1>14. LostInv'
  BY <1>1 DEF LostInv, ClientUp
<1> QED BY <1>8, <1>9, <1>10, <1>11, <1>12, <1>13, <1>14

\* ReadPacketData of the worker.
LEMMA WorkerReadKeeps ==
  ASSUME ExchangeAssumption, OneWorker, TypeOK, IInv, WorkerReads(W)
  PROVE  s2cOpen' = s2cOpen /\ ReaderOK(s2cRd'[W], s2c', s2cOpen') /\ Pw' = Pw
<1> USE DEF IInv
<1>0. W \in Workers /\ W' = W /\ s2c \in Seq(Byte) /\ s2cRd[W] \in RdType
  BY TheWorker, StreamTypes DEF W
<1>1. /\ wpc[W] = "read" /\ ToClient!Step(W) /\ UNCHANGED <<c2s, c2sOpen, c2sRd, wpc, sent, spc, repbuf, lost>>
  BY DEF WorkerReads, WorkerAt, c2sVars, workerVars, serverVars
<1>2. Pw \in Packets \cup {<<>>}
  <2>1. sent[W] \in Packets
    BY <1>1, PayloadFacts DEF AskedInv
  <2> QED BY <1>1, <2>1, ReplyFacts DEF AskedInv
<1>3. CallStep(s2cRd[W], s2c, s2cRd'[W], s2c') /\ s2cOpen' = s2cOpen
  BY <1>0, <1>1, WorkerCallStep
<1>4. PeekTrue(s2cRd[W], s2c, s2cOpen, s2cRd'[W])
  BY <1>0, <1>1, <1>2, TheWorker, WorkerPeekTrue DEF Pw, ReadersInv
<1>5. ReaderOK(s2cRd'[W], s2c', s2cOpen') /\ Pw' = Pw
  <2>1. ReaderOK(s2cRd[W], s2c, s2cOpen)
    BY DEF ReadersInv
  <2>2. Pending(s2cRd[W], s2c) \in Packets \cup {<<>>}
    BY <1>2 DEF Pw
  <2>3. ReaderOK(s2cRd'[W], s2c', s2cOpen) /\ Pending(s2cRd'[W], s2c') = Pending(s2cRd[W], s2c)
    <3>1. s2c \in Seq(Byte) /\ s2cRd[W] \in RdType /\ CallStep(s2cRd[W], s2c, s2cRd'[W], s2c')
      BY <1>0, <1>3
    <3> HIDE DEF IInv
    <3> QED BY <3>1, <1>4, <2>1, <2>2, ReaderKeeps
  <2> QED BY <1>0, <1>3, <2>3 DEF Pw
<1> QED BY <1>3, <1>5

LEMMA WorkerReadsStep ==
  ASSUME ExchangeAssumption, OneWorker, TypeOK, IInv, WorkerReads(W)
  PROVE  IInv'
<1> USE DEF IInv
<1>0. W \in Workers /\ W' = W
  BY TheWorker DEF W
<1>1. wpc[W] = "read" /\ UNCHANGED <<c2s, c2sOpen, c2sRd, wpc, sent, spc, repbuf, lost>>
  BY DEF WorkerReads, WorkerAt, c2sVars, workerVars, serverVars
<1>5. s2cOpen' = s2cOpen /\ ReaderOK(s2cRd'[W], s2c', s2cOpen') /\ Pw' = Pw
  BY WorkerReadKeeps
<1>6. Ps' = Ps /\ Reading' = Reading /\ Unasked' = Unasked
  BY <1>1 DEF Ps, Reading, Unasked
<1>7. CallsInv' /\ ReadersInv'
  BY <1>0, <1>1, <1>5 DEF CallsInv, ReadersInv
<1>8. ServerInv' /\ QuietInv' /\ LostInv'
  BY <1>0, <1>1, <1>5, <1>6 DEF ServerInv, QuietInv, LostInv, ClientUp, ServerUp
<1>9. AskedInv' /\ AnsweredInv'
  BY <1>0, <1>1, <1>5, <1>6 DEF AskedInv, AnsweredInv, ServerUp
<1> QED BY <1>7, <1>8, <1>9

\* The worker has its reply, or gives up.
LEMMA WorkerTakesStep ==
  ASSUME ExchangeAssumption, OneWorker, TypeOK, IInv, WorkerTakesReply(W)
  PROVE  IInv'
<1> USE DEF IInv
<1>0. /\ W \in Workers /\ W' = W /\ s2c \in Seq(Byte) /\ s2cRd[W] \in RdType
      /\ wpc \in [Workers -> {"loop", "send", "read", "done"}] /\ s2cRd[W].got \in Seq(Byte)
      /\ s2cRd[W].result \in Int
  BY TheWorker, StreamTypes, Fields DEF W
<1>1. /\ wpc[W] = "read" /\ s2cRd[W].pc = "returned"
      /\ wpc'[W] = IF s2cRd[W].result < 0 THEN "done" ELSE "loop"
      /\ ToClient!Leave(W) /\ UNCHANGED <<c2s, c2sOpen, c2sRd, spc, repbuf, lost>>
  BY <1>0 DEF WorkerTakesReply, WorkerAt, WorkerGoes, ToClient!Returned, ToClient!ReaderAt, c2sVars, serverVars
<1>2. Resting(s2cRd'[W]) /\ s2c' = s2c /\ s2cOpen' = s2cOpen
  BY <1>0, <1>1, WorkerLeaves
<1>3. Ps' = Ps /\ Reading' = Reading /\ Unasked' = Unasked
  BY <1>1 DEF Ps, Reading, Unasked
<1>4. Pw' = s2c
  BY <1>0, <1>2 DEF Pw, Pending, Resting
<1>5. s2c # <<>> => Pw # <<>>
  BY <1>0 DEF Pw, Pending
<1>6. CallsInv' /\ ReadersInv'
  <2>1. ReaderOK(s2cRd'[W], s2c', s2cOpen')
    BY <1>2 DEF ReaderOK, Resting
  <2> QED BY <1>0, <1>1, <1>2, <2>1 DEF CallsInv, ReadersInv, Resting
<1>7. QuietInv'
  <2> SUFFICES ASSUME s2cRd[W].result >= 0
               PROVE  s2c = <<>> /\ (ServerUp => Unasked)
    BY <1>0, <1>1, <1>2, <1>3 DEF QuietInv, ServerUp
  <2>1. s2c = <<>> /\ (s2cRd[W].got \in Packets \/ ~s2cOpen)
    BY <1>1 DEF ReadersInv, ReaderOK
  <2>2. s2cRd[W].got \in Packets => Pw # <<>>
    <3>1. s2cRd[W].got \in Packets => s2cRd[W].got # <<>>
      BY PacketFacts
    <3> QED BY <1>0, <3>1 DEF Pw, Pending
  <2> QED BY <2>1, <2>2 DEF AnsweredInv, ServerUp
<1>8. ServerInv' /\ AskedInv'
  BY <1>0, <1>1, <1>3 DEF ServerInv, AskedInv
<1>9. AnsweredInv' /\ LostInv'
  BY <1>1, <1>2, <1>3, <1>4, <1>5 DEF AnsweredInv, LostInv, ServerUp, ClientUp
<1> QED BY <1>6, <1>7, <1>8, <1>9

\* The server client looks for a packet,
LEMMA ServerPollStep ==
  ASSUME ExchangeAssumption, OneWorker, TypeOK, IInv, ServerPoll
  PROVE  IInv'
<1> USE DEF IInv
<1>0. W \in Workers /\ W' = W /\ c2s \in Seq(Byte)
  BY TheWorker, StreamTypes DEF W
<1>1. spc = "poll" /\ ServerUp /\ UNCHANGED <<repbuf, s2c, s2cOpen, s2cRd, wpc, sent, lost>>
  BY DEF ServerPoll, ServerAt, s2cVars, workerVars
<1>2. Ps = c2s /\ c2sRd["server"].pc = "idle"
  BY <1>0, <1>1 DEF CallsInv, Ps, Pending
<1>3. /\ spc' \in {"loop", "read", "done"} /\ c2s' = c2s /\ c2sOpen' = c2sOpen /\ Ps' = Ps
      /\ spc' # "read" => c2sRd' = c2sRd
      /\ ReaderOK(c2sRd'["server"], c2s', c2sOpen')
  <2>1. CASE UNCHANGED c2sVars
    BY <2>1 DEF ServerPoll, ServerGoes, c2sVars, Ps, ReadersInv
  <2>2. CASE ServerGoes("read") /\ ToServer!Call("server", MaxServerPacket)
    <3>1. MaxServerPacket \in Nat
      BY DEF ExchangeAssumption
    <3>2. Fresh(c2sRd'["server"]) /\ c2s' = c2s /\ c2sOpen' = c2sOpen
      BY <2>2, <3>1, ServerCalls
    <3>3. ReaderOK(c2sRd'["server"], c2s', c2sOpen')
      BY <3>2 DEF ReaderOK, Fresh
    <3>4. Ps' = c2s
      BY <1>0, <3>2 DEF Ps, Pending, Fresh
    <3> QED BY <1>2, <2>2, <3>2, <3>3, <3>4 DEF ServerGoes
  <2> QED BY <2>1, <2>2 DEF ServerPoll
<1>4. Pw' = Pw /\ (Unasked => Unasked') /\ Reading
  BY <1>0, <1>1, <1>3 DEF Pw, Unasked, Reading
<1>5. CallsInv' /\ ReadersInv'
  BY <1>0, <1>1, <1>2, <1>3 DEF CallsInv, ReadersInv
<1>6. ServerInv' /\ AskedInv'
  BY <1>0, <1>1, <1>3, <1>4 DEF ServerInv, AskedInv, Reading, ServerUp
<1>7. QuietInv' /\ AnsweredInv' /\ LostInv'
  BY <1>0, <1>1, <1>3, <1>4 DEF QuietInv, AnsweredInv, LostInv, ServerUp, ClientUp
<1> QED BY <1>5, <1>6, <1>7

\* reads it,
LEMMA ServerReadKeeps ==
  ASSUME ExchangeAssumption, OneWorker, TypeOK, IInv, ServerReads
  PROVE  c2sOpen' = c2sOpen /\ ReaderOK(c2sRd'["server"], c2s', c2sOpen') /\ Ps' = Ps
<1> USE DEF IInv
<1>0. W \in Workers /\ W' = W /\ c2s \in Seq(Byte) /\ c2sRd["server"] \in RdType
  BY TheWorker, StreamTypes DEF W
<1>1. spc = "read" /\ ToServer!Step("server")
  BY DEF ServerReads, ServerAt
<1>2. Ps \in Packets \cup {<<>>}
  BY <1>1 DEF ServerInv, Reading
<1>3. CallStep(c2sRd["server"], c2s, c2sRd'["server"], c2s') /\ c2sOpen' = c2sOpen
  BY <1>1, ServerCallStep
<1>4. ReaderOK(c2sRd["server"], c2s, c2sOpen) /\ Pending(c2sRd["server"], c2s) \in Packets \cup {<<>>}
  BY <1>2 DEF ReadersInv, Ps
<1>5. PeekTrue(c2sRd["server"], c2s, c2sOpen, c2sRd'["server"])
  BY <1>1, <1>4, TheWorker, ServerPeekTrue
<1>6. /\ ReaderOK(c2sRd'["server"], c2s', c2sOpen)
      /\ Pending(c2sRd'["server"], c2s') = Pending(c2sRd["server"], c2s)
  <2>1. c2s \in Seq(Byte) /\ c2sRd["server"] \in RdType /\ CallStep(c2sRd["server"], c2s, c2sRd'["server"], c2s')
    BY <1>0, <1>3
  <2> HIDE DEF IInv
  <2> QED BY <2>1, <1>4, <1>5, ReaderKeeps
<1> QED BY <1>3, <1>6 DEF Ps

LEMMA ServerReadsStep ==
  ASSUME ExchangeAssumption, OneWorker, TypeOK, IInv, ServerReads
  PROVE  IInv'
<1> USE DEF IInv
<1>0. W \in Workers /\ W' = W
  BY TheWorker DEF W
<1>1. spc = "read" /\ UNCHANGED <<s2c, s2cOpen, s2cRd, wpc, sent, spc, repbuf, lost>>
  BY DEF ServerReads, ServerAt, s2cVars, workerVars, serverVars
<1>2. c2sOpen' = c2sOpen /\ ReaderOK(c2sRd'["server"], c2s', c2sOpen') /\ Ps' = Ps
  BY ServerReadKeeps
<1>3. Pw' = Pw /\ Reading' = Reading /\ Unasked' = Unasked
  BY <1>0, <1>1, <1>2 DEF Pw, Reading, Unasked
<1>4. CallsInv' /\ ReadersInv'
  BY <1>0, <1>1, <1>2 DEF CallsInv, ReadersInv
<1>5. ServerInv' /\ AskedInv'
  BY <1>0, <1>1, <1>2, <1>3 DEF ServerInv, AskedInv, ServerUp
<1>6. QuietInv' /\ AnsweredInv' /\ LostInv'
  BY <1>0, <1>1, <1>2, <1>3 DEF QuietInv, AnsweredInv, LostInv, ServerUp, ClientUp
<1> QED BY <1>4, <1>5, <1>6

\* makes the reply, or gives up,
LEMMA ServerTakesStep ==
  ASSUME ExchangeAssumption, OneWorker, TypeOK, IInv, ServerTakesPacket
  PROVE  IInv'
<1> USE DEF IInv
<1> DEFINE q == c2sRd["server"]
<1>0. /\ W \in Workers /\ W' = W /\ c2s \in Seq(Byte) /\ q \in RdType
      /\ q.got \in Seq(Byte) /\ q.result \in Int
  BY TheWorker, StreamTypes, Fields DEF W
<1>1. /\ spc = "read" /\ q.pc = "returned" /\ ServerUp
      /\ IF q.result <= 0 THEN spc' = "done" /\ repbuf' = repbuf
                          ELSE spc' = "send" /\ repbuf' = ReplyTo(q.got)
      /\ ToServer!Leave("server") /\ UNCHANGED <<s2c, s2cOpen, s2cRd, wpc, sent, lost>>
  BY DEF ServerTakesPacket, ServerAt, ServerGoes, ToServer!Returned, ToServer!ReaderAt, s2cVars, workerVars
<1>2. Resting(c2sRd'["server"]) /\ c2s' = c2s /\ c2sOpen' = c2sOpen
  BY <1>1, ServerLeaves
<1>3. q.result > 0 => c2s = <<>> /\ q.got \in Packets /\ Ps = q.got /\ q.got # <<>>
  <2> SUFFICES ASSUME q.result > 0
               PROVE  c2s = <<>> /\ q.got \in Packets /\ Ps = q.got /\ q.got # <<>>
    OBVIOUS
  <2>1. q.result = Len(q.got) /\ c2s = <<>> /\ (q.got \in Packets \/ q.got = <<>>)
    BY <1>0, <1>1 DEF ReadersInv, ReaderOK
  <2>2. q.got # <<>>
    BY <2>1
  <2> QED BY <1>0, <2>1, <2>2 DEF Ps, Pending
<1>4. Pw' = Pw /\ (Unasked => Unasked')
  <2>1. Unasked => ~(q.result > 0)
    BY <1>1, <1>3 DEF Unasked, Reading
  <2> QED BY <1>0, <1>1, <2>1 DEF Pw, Unasked, Reading
<1>5. CallsInv' /\ ReadersInv'
  <2>1. ReaderOK(c2sRd'["server"], c2s', c2sOpen')
    BY <1>2 DEF ReaderOK, Resting
  <2> QED BY <1>0, <1>1, <1>2, <2>1 DEF CallsInv, ReadersInv, Resting
<1>6. ServerInv'
  <2>1. q.result > 0 => ReplyTo(q.got) \in Packets
    BY <1>3, ReplyFacts
  <2> QED BY <1>0, <1>1, <1>2, <1>3, <2>1 DEF ServerInv, Reading
<1>7. AskedInv'
  <2>1. wpc[W] = "read" /\ q.result > 0 => Ps = sent[W]
    BY <1>1, <1>3 DEF AskedInv, Reading
  <2> QED BY <1>0, <1>1, <1>3, <1>4, <2>1 DEF AskedInv, Reading
<1>8. QuietInv' /\ AnsweredInv' /\ LostInv'
  BY <1>0, <1>1, <1>2, <1>4 DEF QuietInv, AnsweredInv, LostInv, ServerUp, ClientUp
<1> QED BY <1>5, <1>6, <1>7, <1>8

\* and sends it into an empty stream.
LEMMA ServerSendsStep ==
  ASSUME ExchangeAssumption, OneWorker, TypeOK, IInv, ServerSends
  PROVE  IInv'
<1> USE DEF IInv
<1>0. /\ W \in Workers /\ W' = W /\ s2c \in Seq(Byte) /\ s2cRd[W] \in RdType /\ repbuf \in Seq(Byte)
      /\ s2cRd[W].got \in Seq(Byte) /\ c2s \in Seq(Byte)
      /\ wpc \in [Workers -> {"loop", "send", "read", "done"}]
  BY TheWorker, StreamTypes, Fields DEF W
<1>1. /\ spc = "send" /\ spc' = "loop" /\ ServerUp
      /\ UNCHANGED <<c2s, c2sOpen, c2sRd, s2cOpen, s2cRd, wpc, sent>>
      /\ \/ ClientUp /\ s2c' = s2c \o repbuf /\ lost' = lost
         \/ ~ClientUp /\ s2c' = s2c /\ lost' = lost \cup {"server"}
  BY DEF ServerSends, ServerAt, ServerGoes, ToClient!Write, c2sVars, s2cVars, workerVars
<1>2. c2s = <<>> /\ repbuf \in Packets /\ c2sRd["server"].got = <<>> /\ c2sRd["server"].pc = "idle"
  BY <1>1 DEF ServerInv, CallsInv
<1>3. Ps' = <<>> /\ Unasked'
  <2>1. Ps' = <<>>
    BY <1>1, <1>2 DEF Ps, Pending
  <2> QED BY <1>1, <2>1 DEF Unasked, Reading
<1>4. Pw = <<>> /\ s2c = <<>> /\ s2cRd[W].got = <<>>
  <2>1. ~Unasked
    BY <1>1 DEF Unasked
  <2>2. Pw = <<>>
    BY <1>1, <2>1 DEF AnsweredInv
  <2> QED BY <1>0, <2>2 DEF Pw, Pending
<1>5. wpc[W] \notin {"loop", "send"}
  BY <1>1 DEF QuietInv, Unasked
<1>6. CallsInv' /\ ReadersInv'
  <2>1. <<>> \notin Packets
    BY PacketFacts
  <2>2. Pending(s2cRd[W], <<>>) = <<>>
    BY <1>4 DEF Pw
  <2>3. ReaderOK(s2cRd[W], <<>>, TRUE)
    BY <1>1, <1>4, StreamTypes DEF ReadersInv, ServerUp
  <2>4. \A s : ReaderOK(s2cRd[W], s, TRUE)
    BY <1>4, <2>1, <2>2, <2>3, Zenon DEF ReaderOK
  <2>5. s2cOpen = TRUE
    BY <1>1, StreamTypes DEF ServerUp
  <2> QED BY <1>0, <1>1, <1>2, <2>4, <2>5 DEF CallsInv, ReadersInv
<1>7. ServerInv'
  BY <1>1, <1>3 DEF ServerInv
<1>8. AskedInv'
  <2>1. wpc[W] = "read" => Pw' \in {<<>>, ReplyTo(sent[W])}
    <3>1. wpc[W] = "read" => repbuf = ReplyTo(sent[W])
      BY <1>1 DEF AskedInv
    <3>2. <<>> \o repbuf = repbuf
      BY <1>0
    <3> QED BY <1>0, <1>1, <1>4, <3>1, <3>2 DEF Pw, Pending
  <2> QED BY <1>0, <1>1, <1>3, <2>1 DEF AskedInv, ServerUp
<1>9. QuietInv' /\ AnsweredInv' /\ LostInv'
  <2>1. LostInv'
    BY <1>1, <1>3 DEF LostInv, ClientUp
  <2> QED BY <1>0, <1>1, <1>3, <1>5, <2>1 DEF QuietInv, AnsweredInv
<1> QED BY <1>6, <1>7, <1>8, <1>9

LEMMA InvInit ==
  ASSUME ExchangeAssumption, OneWorker, Init
  PROVE  IInv
<1>0. W \in Workers
  BY TheWorker
<1>1. /\ c2s = <<>> /\ s2c = <<>> /\ c2sRd["server"] = ToServer!Idle /\ s2cRd[W] = ToClient!Idle
      /\ wpc[W] = "loop" /\ spc = "loop" /\ lost = {}
  BY <1>0 DEF Init, ToServer!Init, ToClient!Init
<1>2. Resting(c2sRd["server"]) /\ Resting(s2cRd[W])
  BY <1>1, IdleRests
<1>3. Ps = <<>> /\ Pw = <<>>
  BY <1>1, <1>2 DEF Ps, Pw, Pending, Resting
<1>4. CallsInv /\ ReadersInv
  BY <1>2 DEF CallsInv, ReadersInv, ReaderOK, Resting
<1>5. ServerInv /\ QuietInv /\ AskedInv /\ AnsweredInv /\ LostInv
  BY <1>1, <1>3 DEF ServerInv, QuietInv, AskedInv, AnsweredInv, LostInv, Unasked, Reading
<1> QED BY <1>4, <1>5 DEF IInv

LEMMA InvStep ==
  ASSUME ExchangeAssumption, OneWorker, TypeOK, IInv, [Next]_vars
  PROVE  IInv'
<1>1. CASE \E w \in Workers : Worker(w)
  <2>1. Worker(W)
    BY <1>1, TheWorker
  <2>2. CASE WorkerLoop(W)
    <3>1. UNCHANGED <<c2s, c2sRd, s2c, s2cRd, lost>>
      BY <2>2 DEF WorkerLoop, c2sVars, s2cVars
    <3> QED BY <2>2, <3>1, QuietSteps
  <2> QED BY <2>1, <2>2, WorkerSendsStep, EndingSteps, WorkerReadsStep, WorkerTakesStep DEF Worker
<1>2. CASE Server
  <2>1. CASE ServerLoop
    <3>1. UNCHANGED <<c2s, c2sRd, s2c, s2cRd, lost>>
      BY <2>1 DEF ServerLoop, c2sVars, s2cVars
    <3> QED BY <2>1, <3>1, QuietSteps
  <2> QED BY <1>2, <2>1, ServerPollStep, ServerReadsStep, ServerTakesStep, ServerSendsStep, EndingSteps
      DEF Server
<1>3. CASE (\E w \in Workers : ClientStops(w)) \/ ServerStops \/ UNCHANGED vars
  <2>1. UNCHANGED <<c2s, c2sRd, s2c, s2cRd, lost>>
    BY <1>3 DEF ClientStops, ServerStops, vars, c2sVars, s2cVars
  <2> QED BY <1>3, <2>1, QuietSteps
<1> QED BY <1>1, <1>2, <1>3, EndingSteps DEF Next

\* The exchange of one worker keeps to its invariant, with either process
\* leaving at any time.
THEOREM Invariance ==
  ASSUME OneWorker
  PROVE  Spec => [](TypeOK /\ IInv)
<1>1. Init => TypeOK /\ IInv
  BY ExchangeAssumption, TypeInit, InvInit
<1>2. TypeOK /\ IInv /\ [Next]_vars => (TypeOK /\ IInv)'
  BY ExchangeAssumption, TypeStep, InvStep
<1> QED BY <1>1, <1>2, PTL DEF Spec

\* Every packet and every reply is read as it was sent.
THEOREM WholePacketsHolds ==
  ASSUME OneWorker
  PROVE  Spec => []WholePackets
<1>1. TypeOK /\ IInv => WholePackets
  <2> SUFFICES ASSUME TypeOK, IInv
               PROVE  WholePackets
    OBVIOUS
  <2>1. W \in Workers /\ (\A w \in Workers : w = W) /\ c2sRd["server"].result \in Int
        /\ s2cRd[W].result \in Int /\ Len(c2sRd["server"].got) \in Nat /\ Len(s2cRd[W].got) \in Nat
    BY TheWorker, StreamTypes, Fields
  <2>2. ASSUME NEW q, NEW s, NEW o, ReaderOK(q, s, o), q.pc = "returned", q.result > 0, q.result \in Int
        PROVE  q.got \in Packets
    <3>1. q.result = Len(q.got) /\ (q.got \in Packets \/ q.got = <<>>)
      BY <2>2 DEF ReaderOK
    <3> QED BY <2>2, <3>1
  <2>3. \A p \in Packets : ToServer!IsPacket(p) /\ ToClient!IsPacket(p)
    BY ExchangeAssumption, PacketFacts
  <2>4. ToServer!Returned("server") /\ c2sRd["server"].result > 0 => ToServer!IsPacket(c2sRd["server"].got)
    BY <2>1, <2>2, <2>3 DEF IInv, ReadersInv, ToServer!Returned, ToServer!ReaderAt
  <2>5. ToClient!Returned(W) /\ s2cRd[W].result > 0 => ToClient!IsPacket(s2cRd[W].got)
    BY <2>1, <2>2, <2>3 DEF IInv, ReadersInv, ToClient!Returned, ToClient!ReaderAt
  <2> QED BY <2>1, <2>4, <2>5 DEF WholePackets
<1> QED BY <1>1, Invariance, PTL

\* What the worker reads as a reply is the reply to what it sent.
THEOREM OwnReplyHolds ==
  ASSUME OneWorker
  PROVE  Spec => []OwnReply
<1>1. TypeOK /\ IInv => OwnReply
  <2> SUFFICES ASSUME TypeOK, IInv, ToClient!Returned(W), s2cRd[W].result > 0
               PROVE  s2cRd[W].got = ReplyTo(sent[W])
    BY TheWorker DEF OwnReply
  <2>1. s2cRd[W].got \in Seq(Byte) /\ s2cRd[W].result \in Int
    BY TheWorker, StreamTypes, Fields
  <2>2. s2cRd[W].pc = "returned" /\ wpc[W] = "read"
    BY DEF IInv, CallsInv, ToClient!Returned, ToClient!ReaderAt
  <2>3. s2c = <<>> /\ s2cRd[W].result = Len(s2cRd[W].got)
    BY <2>1, <2>2 DEF IInv, ReadersInv, ReaderOK
  <2>4. Pw = s2cRd[W].got /\ Pw # <<>>
    BY <2>1, <2>3 DEF Pw, Pending
  <2> QED BY <2>2, <2>4 DEF IInv, AskedInv
<1> QED BY <1>1, Invariance, PTL

\* The server never writes to a connection that was reset.
THEOREM ServerSurvivesHolds ==
  ASSUME OneWorker
  PROVE  Spec => []ServerSurvives
<1>1. IInv => ServerSurvives
  BY DEF IInv, LostInv, Unasked, ServerSurvives, ServerAt
<1> QED BY <1>1, Invariance, PTL

-----------------------------------------------------------------------------
(***************************************************************************)
(* Nobody waits for what will not come.                                    *)
(***************************************************************************)
\* While the worker waits, its packet or the reply to it is somewhere, or it
\* has given up, or the server_client has returned.
Due ==
  wpc[W] = "read" /\ ClientUp /\ ServerUp =>
    Ps # <<>> \/ spc \in {"send", "done"} \/ Pw # <<>> \/ s2cRd[W].pc = "returned"

\* What was in hand or in the stream is no less when something is written.
LEMMA WrittenPends ==
  ASSUME NEW g \in Seq(Byte), NEW s \in Seq(Byte), NEW p \in Seq(Byte), p # <<>>
  PROVE  g \o (s \o p) # <<>>
<1>1. s \o p \in Seq(Byte) /\ Len(s \o p) = Len(s) + Len(p) /\ Len(p) > 0
  BY ConcatProperties
<1>2. Len(g \o (s \o p)) > 0
  BY <1>1, ConcatProperties
<1> QED BY <1>2

LEMMA DueStep ==
  ASSUME ExchangeAssumption, OneWorker, TypeOK, IInv, Due, [Next]_vars
  PROVE  Due'
<1> USE DEF Due, ClientUp, ServerUp
<1>0. /\ W \in Workers /\ W' = W /\ (\A w \in Workers : w = W)
      /\ wpc \in [Workers -> {"loop", "send", "read", "done"}]
      /\ c2s \in Seq(Byte) /\ s2c \in Seq(Byte) /\ repbuf \in Seq(Byte)
      /\ c2sRd["server"].got \in Seq(Byte) /\ s2cRd[W].got \in Seq(Byte)
  BY TheWorker, StreamTypes, Fields DEF W
<1>1. CASE WorkerLoop(W) \/ WorkerSendFails(W) \/ WorkerTakesReply(W)
  <2>1. wpc'[W] # "read" \/ ~c2sOpen'
    BY <1>0, <1>1 DEF WorkerLoop, WorkerSendFails, WorkerTakesReply, WorkerGoes, WorkerAt, ToServer!Close
  <2> QED BY <1>0, <2>1
<1>2. CASE WorkerSends(W)
  <2>1. s2cOpen' => c2s' = c2s \o sent[W] /\ c2sRd' = c2sRd /\ wpc[W] = "send"
    BY <1>2 DEF WorkerSends, WorkerAt, ToServer!Write, ToClient!Call
  <2>2. wpc[W] = "send" => sent[W] \in Seq(Byte) /\ sent[W] # <<>>
    BY PayloadFacts, PacketFacts DEF IInv, AskedInv
  <2>3. s2cOpen' => Ps' # <<>>
    BY <1>0, <2>1, <2>2, WrittenPends DEF Ps, Pending
  <2> QED BY <2>3
<1>3. CASE WorkerReads(W)
  <2>1. UNCHANGED <<c2s, c2sOpen, c2sRd, wpc, spc>> /\ s2cRd[W].pc # "returned"
    BY <1>3 DEF WorkerReads, c2sVars, workerVars, serverVars,
                ToClient!Step, ToClient!Peek, ToClient!Recv, ToClient!Complete, ToClient!ReaderAt
  <2>2. s2cOpen' = s2cOpen /\ Pw' = Pw
    BY <1>3, WorkerReadKeeps
  <2> QED BY <1>0, <2>1, <2>2 DEF Ps
<1>4. CASE ServerLoop \/ (\E w \in Workers : ClientStops(w)) \/ ServerStops \/ UNCHANGED vars
  <2>1. UNCHANGED <<c2s, c2sOpen, c2sRd, s2c, s2cOpen, s2cRd, wpc>>
    BY <1>4 DEF ServerLoop, ClientStops, ServerStops, vars, c2sVars, s2cVars, workerVars
  <2>2. spc \in {"send", "done"} => spc' = spc
    BY <1>4 DEF ServerLoop, ServerAt, ClientStops, ServerStops, vars, serverVars
  <2> QED BY <1>0, <2>1, <2>2 DEF Ps, Pw
<1>5. CASE ServerPoll
  <2>1. UNCHANGED <<s2c, s2cOpen, s2cRd, wpc>> /\ spc = "poll" /\ c2sOpen' = c2sOpen
    BY <1>5 DEF ServerPoll, ServerAt, s2cVars, workerVars, c2sVars, ToServer!Call
  <2>2. Ps' = Ps
    <3>1. CASE UNCHANGED c2sVars
      BY <3>1 DEF c2sVars, Ps
    <3>2. CASE ToServer!Call("server", MaxServerPacket)
      <4>1. MaxServerPacket \in Nat
        BY DEF ExchangeAssumption
      <4>2. Fresh(c2sRd'["server"]) /\ c2s' = c2s
        BY <3>2, <4>1, ServerCalls
      <4>3. c2sRd["server"].got = <<>>
        BY <2>1 DEF IInv, CallsInv
      <4> QED BY <4>2, <4>3 DEF Ps, Pending, Fresh
    <3> QED BY <1>5, <3>1, <3>2 DEF ServerPoll
  <2> QED BY <1>0, <2>1, <2>2 DEF Pw
<1>6. CASE ServerReads
  <2>1. UNCHANGED <<s2c, s2cOpen, s2cRd, wpc, spc>>
    BY <1>6 DEF ServerReads, s2cVars, workerVars, serverVars
  <2>2. c2sOpen' = c2sOpen /\ Ps' = Ps
    BY <1>6, ServerReadKeeps
  <2> QED BY <1>0, <2>1, <2>2 DEF Pw
<1>7. CASE ServerTakesPacket \/ ServerSendFails
  <2>1. spc' \in {"send", "done"} \/ ~s2cOpen'
    BY <1>7 DEF ServerTakesPacket, ServerSendFails, ServerGoes, ToClient!Close
  <2> QED BY <2>1
<1>8. CASE ServerSends
  <2>1. c2sOpen' = c2sOpen /\ s2cRd' = s2cRd /\ (c2sOpen => s2c' = s2c \o repbuf)
    BY <1>8 DEF ServerSends, ToClient!Write, c2sVars, s2cVars
  <2>2. repbuf # <<>>
    BY <1>8, PacketFacts DEF IInv, ServerInv, ServerSends, ServerAt
  <2>3. c2sOpen' => Pw' # <<>>
    BY <1>0, <2>1, <2>2, WrittenPends DEF Pw, Pending
  <2> QED BY <2>3
<1>9. CASE ClientExits \/ ServerExits
  BY <1>9 DEF ClientExits, ServerExits, ToServer!Close, ToClient!Close
<1>10. (\E w \in Workers : Worker(w)) => Worker(W)
  BY <1>0
<1> QED BY <1>1, <1>2, <1>3, <1>4, <1>5, <1>6, <1>7, <1>8, <1>9, <1>10 DEF Next, Worker, Server

\* A call that waits has read nothing: it never waits for the rest of a
\* packet.
LEMMA WaitsForAll ==
  ASSUME NEW q \in RdType, ReaderOK(q, <<>>, TRUE),
         q.pc = "peek" \/ (q.pc = "recv" /\ Len(q.got) < q.size)
  PROVE  Pending(q, <<>>) = <<>>
<1>1. q.got \in Seq(Byte) /\ q.size \in Nat
  BY Fields
<1>2. Pending(q, <<>>) = q.got
  BY <1>1 DEF Pending
<1>3. CASE q.pc = "peek"
  BY <1>2, <1>3 DEF ReaderOK
<1>4. CASE q.pc = "recv"
  BY <1>1, <1>2, <1>4 DEF ReaderOK
<1> QED BY <1>3, <1>4

\* The worker and the server_client never wait for each other, with either
\* process leaving and any call failing.
THEOREM NeverBothWaitHolds ==
  ASSUME OneWorker
  PROVE  Spec => []NeverBothWait
<1>1. TypeOK /\ IInv /\ Due => NeverBothWait
  <2> SUFFICES ASSUME TypeOK, IInv, Due, ClientUp, ServerUp,
                      wpc[W] = "read", ToClient!Waits(W), ServerWaits
               PROVE  FALSE
    BY TheWorker DEF NeverBothWait
  <2>1. /\ c2s \in Seq(Byte) /\ s2c \in Seq(Byte)
        /\ c2sRd["server"] \in RdType /\ s2cRd[W] \in RdType
    BY TheWorker, StreamTypes
  <2>2. /\ s2c = <<>> /\ s2cOpen = TRUE
        /\ s2cRd[W].pc = "peek" \/ (s2cRd[W].pc = "recv" /\ Len(s2cRd[W].got) < s2cRd[W].size)
    BY StreamTypes DEF ToClient!Waits, ToClient!ReaderAt
  <2>3. Pw = <<>>
    <3>1. ReaderOK(s2cRd[W], <<>>, TRUE)
      BY <2>2 DEF IInv, ReadersInv
    <3>2. Pending(s2cRd[W], <<>>) = <<>>
      BY <2>1, <2>2, <3>1, WaitsForAll
    <3> QED BY <2>2, <3>2 DEF Pw
  <2>4. Ps = <<>> /\ spc \notin {"send", "done"}
    <3>1. CASE spc \in {"loop", "poll"} /\ c2s = <<>>
      <4>1. c2sRd["server"].got = <<>>
        BY <3>1 DEF IInv, CallsInv
      <4> QED BY <3>1, <4>1 DEF Ps, Pending
    <3>2. CASE spc = "read" /\ ToServer!Waits("server")
      <4>1. /\ c2s = <<>> /\ c2sOpen = TRUE
            /\ \/ c2sRd["server"].pc = "peek"
               \/ c2sRd["server"].pc = "recv" /\ Len(c2sRd["server"].got) < c2sRd["server"].size
        BY <3>2, StreamTypes DEF ToServer!Waits, ToServer!ReaderAt
      <4>2. ReaderOK(c2sRd["server"], <<>>, TRUE)
        BY <4>1 DEF IInv, ReadersInv
      <4>3. Pending(c2sRd["server"], <<>>) = <<>>
        BY <2>1, <4>1, <4>2, WaitsForAll
      <4> QED BY <3>2, <4>1, <4>3 DEF Ps
    <3> QED BY <3>1, <3>2 DEF ServerWaits
  <2> QED BY <2>2, <2>3, <2>4 DEF Due
<1>2. Init => Due
  BY TheWorker DEF Init, Due
<1>3. TypeOK /\ IInv /\ Due /\ [Next]_vars => Due'
  BY ExchangeAssumption, DueStep
<1> QED BY <1>1, <1>2, <1>3, Invariance, PTL DEF Spec

-----------------------------------------------------------------------------
(***************************************************************************)
(* The turns, as long as the server process stays: a worker takes the end  *)
(* of the stream for an empty reply when the memory its peek left unset    *)
(* says so, see HeaderSizes.                                               *)
(***************************************************************************)
Waiting == Turn \in {"server", "answered"}
Ask == IF Waiting THEN sent[W] ELSE NoPayload
Ans == IF Turn = "answered" THEN Arrived ELSE NoPayload

\* The turn, from the state of the worker and the bytes of the reply.
LEMMA TurnIs ==
  /\ Arrived = Pw
  /\ ~ClientUp \/ wpc[W] = "done" => Turn = "over"
  /\ ClientUp /\ wpc[W] \in {"loop", "send"} => Turn = "worker"
  /\ ClientUp /\ wpc[W] = "read" => Turn = IF Pw = <<>> THEN "server" ELSE "answered"
BY DEF Arrived, Pw, Pending, Turn

LEMMA TurnNext ==
  ASSUME W' = W
  PROVE  /\ Arrived' = Pw'
         /\ ~ClientUp' \/ wpc'[W] = "done" => Turn' = "over"
         /\ ClientUp' /\ wpc'[W] \in {"loop", "send"} => Turn' = "worker"
         /\ ClientUp' /\ wpc'[W] = "read" => Turn' = IF Pw' = <<>> THEN "server" ELSE "answered"
BY DEF Arrived, Pw, Pending, Turn

Stays == Turn' = Turn /\ Ask' = Ask /\ Ans' = Ans

\* Whoever is over stays over or goes there.
LEMMA GoesOver ==
  ASSUME Turn' = "over"
  PROVE  Turns!Next
BY DEF Turns!Next, Turns!GiveUp, Waiting

LEMMA SameTurn ==
  ASSUME Turn' = Turn, sent' = sent, W' = W, Turn = "answered" => Arrived' = Arrived
  PROVE  Stays
BY DEF Stays, Ask, Ans, Waiting

LEMMA WorkerInTurns ==
  ASSUME ExchangeAssumption, OneWorker, TypeOK, IInv, ServerUp, Worker(W)
  PROVE  Turns!Next \/ Stays
<1>0. /\ W \in Workers /\ W' = W /\ s2c \in Seq(Byte) /\ s2cRd[W] \in RdType
      /\ s2cRd[W].got \in Seq(Byte) /\ s2cRd[W].result \in Int
      /\ wpc \in [Workers -> {"loop", "send", "read", "done"}]
      /\ sent \in [Workers -> Payloads \cup {NoPayload}]
  BY TheWorker, StreamTypes, Fields DEF W
<1>1. CASE WorkerLoop(W)
  <2>1. ClientUp /\ ClientUp' /\ wpc[W] = "loop" /\ wpc'[W] \in {"send", "done"}
    BY <1>0, <1>1 DEF WorkerLoop, WorkerAt, WorkerGoes, ClientUp, c2sVars
  <2>2. CASE wpc'[W] = "done"
    BY <1>0, <2>2, TurnNext, GoesOver
  <2>3. CASE wpc'[W] = "send"
    <3>1. Turn = "worker" /\ Turn' = "worker"
      BY <1>0, <2>1, <2>3, TurnIs, TurnNext
    <3> QED BY <3>1 DEF Stays, Ask, Ans, Waiting
  <2> QED BY <2>1, <2>2, <2>3
<1>2. CASE WorkerSends(W)
  <2>1. ClientUp /\ ClientUp' /\ wpc[W] = "send" /\ wpc'[W] = "read" /\ sent'[W] = sent[W] /\ sent[W] \in Payloads
    BY <1>0, <1>2 DEF WorkerSends, WorkerAt, WorkerGoes, ClientUp, c2sVars, ToServer!Write, IInv, AskedInv
  <2>2. Pw' = <<>>
    <3>1. ToClient!Call(W, Len(sent[W]))
      BY <1>2 DEF WorkerSends
    <3>2. sent[W] \in Packets
      BY <2>1, PayloadFacts
    <3>3. Len(sent[W]) \in Nat
      BY <3>2, PacketFacts
    <3>4. Fresh(s2cRd'[W]) /\ s2c' = s2c
      BY <1>0, <3>1, <3>3, WorkerCalls
    <3>5. s2c = <<>>
      BY <2>1 DEF IInv, QuietInv
    <3> QED BY <1>0, <3>4, <3>5 DEF Pw, Pending, Fresh
  <2>3. Turn = "worker" /\ Turn' = "server"
    BY <1>0, <2>1, <2>2, TurnIs, TurnNext
  <2> QED BY <1>0, <2>1, <2>3 DEF Turns!Next, Turns!Ask
<1>3. CASE WorkerSendFails(W)
  <2>1. ~ClientUp' \/ wpc'[W] = "done"
    BY <1>0, <1>3 DEF WorkerSendFails, WorkerGoes, ClientUp, ToServer!Close
  <2> QED BY <1>0, <2>1, TurnNext, GoesOver
<1>4. CASE WorkerReads(W)
  <2>1. /\ ClientUp' = ClientUp /\ wpc' = wpc /\ sent' = sent
        /\ wpc[W] = "read" /\ ClientUp
    BY <1>4 DEF WorkerReads, WorkerAt, ClientUp, c2sVars, workerVars
  <2>2. Pw' = Pw
    BY <1>4, WorkerReadKeeps
  <2>3. Turn' = Turn /\ Arrived' = Arrived
    BY <1>0, <2>1, <2>2, TurnIs, TurnNext
  <2> QED BY <1>0, <2>1, <2>3, SameTurn
<1>5. CASE WorkerTakesReply(W)
  <2>1. /\ ClientUp /\ ClientUp' /\ wpc[W] = "read" /\ s2cRd[W].pc = "returned"
        /\ wpc'[W] = IF s2cRd[W].result < 0 THEN "done" ELSE "loop"
    BY <1>0, <1>5 DEF WorkerTakesReply, WorkerAt, WorkerGoes, ToClient!Returned, ToClient!ReaderAt, ClientUp, c2sVars
  <2>2. CASE s2cRd[W].result < 0
    BY <1>0, <2>1, <2>2, TurnNext, GoesOver
  <2>3. CASE s2cRd[W].result >= 0
    <3>1. s2cRd[W].got \in Packets
      BY <2>1, <2>3 DEF IInv, ReadersInv, ReaderOK, ServerUp
    <3>2. s2cRd[W].got # <<>>
      BY <3>1, PacketFacts
    <3>3. Pw # <<>>
      BY <1>0, <3>2 DEF Pw, Pending
    <3>4. wpc'[W] = "loop"
      BY <1>0, <2>1, <2>3
    <3>5. Turn = "answered" /\ Turn' = "worker"
      BY <1>0, <2>1, <3>3, <3>4, TurnIs, TurnNext
    <3> QED BY <3>5 DEF Turns!Next, Turns!Accept
  <2> QED BY <1>0, <2>2, <2>3
<1> QED BY <1>1, <1>2, <1>3, <1>4, <1>5 DEF Worker

LEMMA ServerInTurns ==
  ASSUME ExchangeAssumption, OneWorker, TypeOK, IInv, ServerUp, Server
  PROVE  Turns!Next \/ Stays
<1>0. /\ W \in Workers /\ W' = W /\ s2c \in Seq(Byte) /\ s2cRd[W] \in RdType
      /\ s2cRd[W].got \in Seq(Byte) /\ repbuf \in Seq(Byte)
      /\ wpc[W] \in {"loop", "send", "read", "done"}
  BY TheWorker, StreamTypes, Fields DEF W
<1>1. UNCHANGED <<wpc, sent, s2cRd>> /\ ClientUp' = ClientUp
  <2>1. UNCHANGED workerVars /\ s2cRd' = s2cRd
    BY DEF Server, ServerLoop, ServerPoll, ServerReads, ServerTakesPacket, ServerSends, ServerSendFails,
           s2cVars, ToClient!Write, ToClient!Close
  <2>2. ASSUME ServerReads PROVE c2sOpen' = c2sOpen
    <3>1. ToServer!Step("server")
      BY <2>2 DEF ServerReads
    <3>2. c2sOpen' = c2sOpen
      BY <3>1, ServerCallStep
    <3> QED BY <3>2
  <2>3. ASSUME ServerLoop \/ ServerPoll \/ ServerTakesPacket \/ ServerSends \/ ServerSendFails
        PROVE  c2sOpen' = c2sOpen
    <3>1. ServerPoll => c2sOpen' = c2sOpen
      BY DEF ServerPoll, c2sVars, ToServer!Call
    <3>2. ServerTakesPacket => c2sOpen' = c2sOpen
      BY DEF ServerTakesPacket, ToServer!Leave
    <3> QED BY <2>3, <3>1, <3>2 DEF ServerLoop, ServerSends, ServerSendFails, c2sVars
  <2> QED BY <2>1, <2>2, <2>3 DEF Server, workerVars, ClientUp
<1>2. CASE s2c' = s2c
  <2>1. Turn' = Turn /\ Arrived' = Arrived
    BY <1>0, <1>1, <1>2 DEF Turn, Arrived
  <2> QED BY <1>0, <1>1, <2>1, SameTurn
<1>3. CASE ServerSends /\ ClientUp
  <2>1. spc = "send" /\ s2c' = s2c \o repbuf
    BY <1>3 DEF ServerSends, ServerAt, ToClient!Write
  <2>2. Pw = <<>> /\ wpc[W] \notin {"loop", "send"} /\ repbuf \in Packets
    BY <2>1 DEF IInv, AnsweredInv, QuietInv, ServerInv, Unasked
  <2>3. CASE wpc[W] = "done"
    BY <1>0, <1>1, <2>3, TurnNext, GoesOver
  <2>4. CASE wpc[W] = "read"
    <3>1. repbuf = ReplyTo(sent[W]) /\ repbuf # <<>>
      BY <2>1, <2>2, <2>4, PacketFacts DEF IInv, AskedInv
    <3>2. s2c = <<>> /\ s2cRd[W].got = <<>>
      BY <1>0, <2>2 DEF Pw, Pending
    <3>3. <<>> \o repbuf = repbuf /\ <<>> \o <<>> = <<>>
      BY <1>0
    <3>4. Pw' = repbuf
      BY <1>0, <1>1, <2>1, <3>2, <3>3 DEF Pw, Pending
    <3>5. Turn = "server" /\ Turn' = "answered" /\ Arrived' = repbuf
      BY <1>0, <1>1, <1>3, <2>2, <2>4, <3>1, <3>4, TurnIs, TurnNext
    <3> QED BY <1>0, <1>1, <3>1, <3>5 DEF Turns!Next, Turns!Answer
  <2> QED BY <1>0, <2>2, <2>3, <2>4
<1> QED BY <1>2, <1>3 DEF Server, ServerLoop, ServerPoll, ServerReads, ServerTakesPacket, ServerSends,
           ServerSendFails, s2cVars, ToClient!Close

LEMMA StepInTurns ==
  ASSUME OneWorker, TypeOK, IInv, ServerUp, ~ServerMayExit, [Next]_vars
  PROVE  Turns!Next \/ Stays
<1>0. W \in Workers /\ (\A w \in Workers : w = W) /\ W' = W
  BY TheWorker DEF W
<1>1. CASE \E w \in Workers : Worker(w)
  BY <1>0, <1>1, WorkerInTurns, ExchangeAssumption
<1>2. CASE Server
  BY <1>2, ServerInTurns, ExchangeAssumption
<1>3. CASE ClientExits
  <2>1. ~ClientUp'
    BY <1>3 DEF ClientExits, ToServer!Close, ClientUp
  <2> QED BY <1>0, <2>1, TurnNext, GoesOver
<1>4. CASE UNCHANGED <<wpc, sent, s2c, s2cRd, c2sOpen>>
  <2>1. Turn' = Turn /\ Arrived' = Arrived
    BY <1>0, <1>4 DEF Turn, Arrived, ClientUp
  <2> QED BY <1>0, <1>4, <2>1, SameTurn
<1>5. CASE (\E w \in Workers : ClientStops(w)) \/ ServerStops \/ UNCHANGED vars
  BY <1>4, <1>5 DEF ClientStops, ServerStops, vars, c2sVars, s2cVars, workerVars
<1> QED BY <1>1, <1>2, <1>3, <1>5 DEF Next, ServerExits

LEMMA ServerStays ==
  ASSUME OneWorker, TypeOK, IInv, ServerUp, ~ServerMayExit, [Next]_vars
  PROVE  ServerUp'
<1>1. ASSUME NEW w \in Workers, Worker(w)
      PROVE  ServerUp'
  <2>1. CASE WorkerReads(w)
    BY <2>1, ExchangeAssumption, WorkerCallStep DEF WorkerReads, ServerUp
  <2>2. CASE WorkerLoop(w) \/ WorkerSends(w) \/ WorkerSendFails(w) \/ WorkerTakesReply(w)
    BY <2>2 DEF WorkerLoop, WorkerSends, WorkerSendFails, WorkerTakesReply, s2cVars, ServerUp,
                ToClient!Call, ToClient!Leave
  <2> QED BY <1>1, <2>1, <2>2 DEF Worker
<1>2. CASE ServerSendFails
  <2>1. "server" \notin lost
    BY <1>2 DEF ServerSendFails, ServerAt, IInv, LostInv, Unasked
  <2> QED BY <1>2, <2>1 DEF ServerSendFails, s2cVars, ServerUp
<1>3. CASE ServerLoop \/ ServerPoll \/ ServerReads \/ ServerTakesPacket \/ ServerSends
  BY <1>3 DEF ServerLoop, ServerPoll, ServerReads, ServerTakesPacket, ServerSends, s2cVars, ServerUp, ToClient!Write
<1> QED BY <1>1, <1>2, <1>3 DEF Next, Server, ClientStops, ServerStops, ClientExits, ServerExits,
           vars, s2cVars, ServerUp

\* One worker and its server client keep strict turns.
THEOREM InTurnsHolds ==
  ASSUME OneWorker, ~ServerMayExit
  PROVE  Spec => InTurns
<1>1. Init => Turns!Init /\ ServerUp
  <2> SUFFICES ASSUME Init
               PROVE  Turns!Init /\ ServerUp
    OBVIOUS
  <2>1. ClientUp /\ wpc[W] = "loop" /\ ServerUp
    BY TheWorker DEF Init, ToServer!Init, ToClient!Init, ClientUp, ServerUp
  <2>2. Turn = "worker"
    BY <2>1, TurnIs
  <2> QED BY <2>1, <2>2 DEF Turns!Init
<1>2. TypeOK /\ IInv /\ ServerUp /\ [Next]_vars => ServerUp'
  BY ServerStays
<1>3. TypeOK /\ IInv /\ ServerUp /\ [Next]_vars => Turns!Next \/ Stays
  BY StepInTurns
<1>4. Stays => UNCHANGED <<Turn,
                 IF Turn \in {"server", "answered"} THEN sent[W] ELSE NoPayload,
                 IF Turn = "answered" THEN Arrived ELSE NoPayload>>
  BY DEF Stays, Ask, Ans, Waiting
<1> QED BY <1>1, <1>2, <1>3, <1>4, Invariance, PTL DEF Spec, InTurns, Turns!Spec
=============================================================================
