---------------------------- MODULE Arguments_proofs ----------------------------
(***************************************************************************)
(* Theorems about what the program makes of its arguments.  First the      *)
(* payload generators, for every size of the words, the headers and the    *)
(* arguments of InitializePayload; then the parsers of the command line,   *)
(* for every line, every table of spellings and every set of plug-ins.     *)
(***************************************************************************)
EXTENDS Payload, CommandLine, TLAPS

\* Remainders of unsigned arithmetic stay in the word, and are the numbers
\* themselves when nothing wraps.
LEMMA InWord == ASSUME NEW n \in Int PROVE n % Word \in Sizes
  BY PayloadAssumption DEF Sizes

LEMMA NotWrapped == ASSUME NEW n \in Sizes PROVE n % Word = n
  BY PayloadAssumption DEF Sizes

LEMMA ConfigsInWord ==
  ASSUME NEW c \in Configs
  PROVE  c.min \in Sizes /\ c.max \in Sizes /\ c.increment \in Sizes /\ c.time \in Sizes
  BY PayloadAssumption DEF Configs, Sizes

LEMMA StepInWord == TypeOK => Step \in Nat
  BY ConfigsInWord, PayloadAssumption DEF TypeOK, Step, Sizes

LEMMA NewSizesInWord == TypeOK => NewSizes \subseteq Sizes
<1> SUFFICES ASSUME TypeOK, NEW size \in NewSizes PROVE size \in Sizes
  OBVIOUS
<1>1. config.min \in Sizes /\ config.max \in Sizes
  BY ConfigsInWord DEF TypeOK
<1>2. kind \in {"fixed", "increasing", "random"}
  BY PayloadAssumption DEF TypeOK
<1>3. CASE kind = "fixed"
  BY <1>1, <1>3 DEF NewSizes
<1>4. CASE kind = "increasing"
  <2>1. (cur + Step) % Word \in Sizes
    BY InWord, StepInWord DEF TypeOK, Sizes
  <2> QED BY <1>1, <1>4, <2>1 DEF NewSizes, Grown, TypeOK
<1>5. CASE kind = "random"
  <2>1. size \in {(config.min + d) % Word : d \in 0..Spread}
    BY <1>5 DEF NewSizes
  <2>2. PICK d \in 0..Spread : size = (config.min + d) % Word
    BY <2>1
  <2>3. config.min + d \in Int
    BY <1>1, <2>2 DEF Sizes
  <2> QED BY <2>2, <2>3, InWord
<1> QED BY <1>2, <1>3, <1>4, <1>5

-----------------------------------------------------------------------------
\* What InitializePayload sets up, and every call, keeps the types.
LEMMA TypeInit == Init => TypeOK
<1> SUFFICES ASSUME Init PROVE TypeOK
  OBVIOUS
<1>1. config.min \in Sizes
  BY ConfigsInWord DEF Init
<1>2. told \in [Workers -> Sizes]
  BY PayloadAssumption DEF Init, Sizes
<1> QED BY <1>1, <1>2, PayloadAssumption DEF Init, TypeOK

LEMMA TypeNext == TypeOK /\ [Next]_vars => TypeOK'
<1> SUFFICES ASSUME TypeOK, [Next]_vars PROVE TypeOK'
  OBVIOUS
<1> USE DEF TypeOK, handleVars, workerVars, counters
<1>1. ASSUME NEW w \in Workers, GetsOldPacket(w) PROVE TypeOK'
  <2>1. calls' \in 0..MaxCalls
    BY <1>1, PayloadAssumption DEF GetsOldPacket, Counted
  <2>2. told' \in [Workers -> Sizes]
    BY <1>1 DEF GetsOldPacket, Reusable, NoBuffer
  <2> QED BY <1>1, <2>1, <2>2 DEF GetsOldPacket
<1>2. ASSUME NEW w \in Workers, GetsNewPacket(w) PROVE TypeOK'
  <2>1. calls' \in 0..MaxCalls
    BY <1>2, PayloadAssumption DEF GetsNewPacket, Counted
  <2>2. PICK size \in NewSizes :
          /\ buf' = size
          /\ told' = [told EXCEPT ![w] = size]
          /\ cur' = IF kind = "increasing" THEN size ELSE cur
    BY <1>2 DEF GetsNewPacket
  <2>3. size \in Sizes
    BY NewSizesInWord
  <2>4. held' \in [Workers -> {"none", "current", "freed"}]
    BY <1>2 DEF GetsNewPacket, Dangling
  <2> QED BY <1>2, <2>1, <2>2, <2>3, <2>4 DEF GetsNewPacket
<1>3. ASSUME NEW w \in Workers, Sends(w) PROVE TypeOK'
  BY <1>3 DEF Sends
<1>4. CASE Reset
  <2>1. config.min \in Sizes
    BY ConfigsInWord
  <2> QED BY <1>4, <2>1, PayloadAssumption DEF Reset
<1>5. CASE UNCHANGED vars
  BY <1>5 DEF vars
<1> QED BY <1>1, <1>2, <1>3, <1>4, <1>5 DEF Next, GetPayload, GetsNothing

\* Sizes, counters and what the workers hold have their types, for every
\* word size and every set of arguments.
THEOREM TypeCorrect == Spec => []TypeOK
  BY TypeInit, TypeNext, PTL DEF Spec

-----------------------------------------------------------------------------
\* A handle that is not shared: what its worker sends is the packet it got,
\* still there, and as long as the worker believes.  The size a worker was
\* told has to survive the calls that do not tell it, so the invariant says
\* that it is that of the packet from the first packet on, held or not.
Remembers ==
  \A w \in Workers : held[w] # "freed" /\ (buf # NoBuffer => told[w] = buf)

NothingHeldOfNone == \A w \in Workers : held[w] = "current" => buf # NoBuffer

LEMMA RemembersNext ==
  ASSUME \A v, w \in Workers : v = w
  PROVE  TypeOK /\ Remembers /\ NothingHeldOfNone /\ [Next]_vars
           => Remembers' /\ NothingHeldOfNone'
<1> SUFFICES ASSUME TypeOK, Remembers, NothingHeldOfNone, [Next]_vars
             PROVE  Remembers' /\ NothingHeldOfNone'
  OBVIOUS
<1> USE DEF TypeOK, Remembers, NothingHeldOfNone, handleVars, workerVars
<1>1. ASSUME NEW w \in Workers, GetsOldPacket(w) PROVE Remembers' /\ NothingHeldOfNone'
  BY <1>1 DEF GetsOldPacket, Reusable
<1>2. ASSUME NEW w \in Workers, GetsNewPacket(w) PROVE Remembers' /\ NothingHeldOfNone'
  <2>1. PICK size \in NewSizes : buf' = size /\ told' = [told EXCEPT ![w] = size]
    BY <1>2 DEF GetsNewPacket
  <2>2. buf' # NoBuffer
    BY <2>1, NewSizesInWord DEF Sizes, NoBuffer
  <2>3. \A v \in Workers : v = w
    OBVIOUS
  <2>4. held'[w] = "current" /\ told'[w] = buf'
    BY <1>2, <2>1 DEF GetsNewPacket
  <2> QED BY <2>2, <2>3, <2>4
<1>3. ASSUME NEW w \in Workers, Sends(w) PROVE Remembers' /\ NothingHeldOfNone'
  BY <1>3 DEF Sends
<1>4. CASE Reset
  BY <1>4 DEF Reset
<1>5. CASE UNCHANGED vars
  BY <1>5 DEF vars
<1> QED BY <1>1, <1>2, <1>3, <1>4, <1>5 DEF Next, GetPayload, GetsNothing

\* With one worker to a handle every packet is sent whole and undeleted.
THEOREM SendsItsPacketHolds ==
  ASSUME \A v, w \in Workers : v = w
  PROVE  Spec => []SendsItsPacket
<1>1. Init => Remembers /\ NothingHeldOfNone
  BY DEF Init, Remembers, NothingHeldOfNone
<1>2. TypeOK /\ Remembers /\ NothingHeldOfNone /\ [Next]_vars
        => Remembers' /\ NothingHeldOfNone'
  BY RemembersNext
<1>3. TypeOK /\ Remembers /\ NothingHeldOfNone => SendsItsPacket
  BY DEF TypeOK, Remembers, NothingHeldOfNone, SendsItsPacket
<1> QED BY <1>1, <1>2, <1>3, TypeCorrect, PTL DEF Spec

-----------------------------------------------------------------------------
\* The header fits into every packet.  The size the next packet starts from
\* must hold a header too, and stay below the word with one more step.
CurHolds ==
  /\ Accepted(kind, config)
  /\ NoWrap /\ kind = "increasing" => cur >= HeaderLen /\ cur + Step < Word
  /\ HeaderFits

LEMMA NewSizesHold ==
  ASSUME TypeOK, CurHolds, NoWrap, NEW size \in NewSizes
  PROVE  /\ size >= HeaderLen
         /\ kind = "increasing" => size + Step < Word
<1>1. config.min \in Sizes /\ config.max \in Sizes /\ Step \in Nat
  BY ConfigsInWord, StepInWord DEF TypeOK
<1>2. kind \in {"fixed", "increasing", "random"}
  BY PayloadAssumption DEF TypeOK
<1> USE PayloadAssumption
<1>3. CASE kind = "fixed"
  BY <1>3 DEF NewSizes, CurHolds, Accepted
<1>4. CASE kind = "increasing"
  <2>1. cur \in Sizes /\ cur >= HeaderLen /\ cur + Step < Word /\ config.max + Step < Word
    BY <1>4 DEF CurHolds, NoWrap, TypeOK
  <2>2. (cur + Step) % Word = cur + Step
    BY <1>1, <2>1, NotWrapped DEF Sizes
  <2>3. config.max >= HeaderLen
    BY DEF CurHolds, Accepted
  <2>4. size = cur \/ size = Grown
    BY <1>4 DEF NewSizes
  <2>5. (Grown = cur + Step /\ Grown <= config.max) \/ Grown = config.max
    BY <1>1, <2>1, <2>2 DEF Grown, Sizes
  <2> QED BY <1>1, <2>1, <2>3, <2>4, <2>5 DEF Sizes
<1>5. CASE kind = "random"
  <2>1. config.min <= config.max /\ config.min >= HeaderLen
    BY <1>5 DEF NoWrap, CurHolds, Accepted
  <2>2. Spread = config.max - config.min
    BY <1>1, <2>1, NotWrapped DEF Spread, Sizes
  <2>3. size \in {(config.min + d) % Word : d \in 0..Spread}
    BY <1>5 DEF NewSizes
  <2>4. PICK d \in 0..Spread : size = (config.min + d) % Word
    BY <2>3
  <2>5. config.min + d \in Sizes
    BY <1>1, <2>1, <2>2, <2>4 DEF Sizes
  <2>6. size = config.min + d
    BY <2>4, <2>5, NotWrapped
  <2> QED BY <1>1, <1>5, <2>1, <2>2, <2>4, <2>6 DEF Sizes
<1> QED BY <1>2, <1>3, <1>4, <1>5

LEMMA CurHoldsNext == TypeOK /\ CurHolds /\ [Next]_vars => CurHolds'
<1> SUFFICES ASSUME TypeOK, CurHolds, [Next]_vars PROVE CurHolds'
  OBVIOUS
<1>1. kind' = kind /\ config' = config
  BY DEF Next, GetPayload, GetsOldPacket, GetsNewPacket, GetsNothing, Sends, Reset, vars
<1>2. Accepted(kind, config)' /\ (NoWrap' <=> NoWrap) /\ Step' = Step
  BY <1>1 DEF CurHolds, Accepted, NoWrap, Step
<1>3. CASE buf' = buf /\ cur' = cur
  BY <1>1, <1>2, <1>3 DEF CurHolds, HeaderFits
<1>4. ASSUME NEW w \in Workers, GetsNewPacket(w) PROVE CurHolds'
  <2>1. PICK size \in NewSizes :
          buf' = size /\ cur' = IF kind = "increasing" THEN size ELSE cur
    BY <1>4 DEF GetsNewPacket
  <2>2. NoWrap => size >= HeaderLen /\ (kind = "increasing" => size + Step < Word)
    BY NewSizesHold
  <2> QED BY <1>1, <1>2, <2>1, <2>2 DEF CurHolds, HeaderFits
<1>5. CASE buf' = NoBuffer /\ cur' = config.min
  <2>1. NoWrap /\ kind = "increasing" => config.min >= HeaderLen /\ config.min + Step < Word
    BY DEF CurHolds, Accepted, NoWrap
  <2> QED BY <1>1, <1>2, <1>5, <2>1 DEF CurHolds, HeaderFits
<1> QED
  BY <1>3, <1>4, <1>5
  DEF Next, GetPayload, GetsOldPacket, GetsNothing, Sends, Reset, vars, handleVars

\* Unless the arguments make the sizes wrap, no packet is shorter than the
\* header that GetPayload writes into it.
THEOREM HeaderFitsHolds == Spec => []HeaderFits
<1>1. Init => CurHolds
  BY DEF Init, CurHolds, HeaderFits, Accepted, NoWrap
<1>2. TypeOK /\ CurHolds /\ [Next]_vars => CurHolds'
  BY CurHoldsNext
<1>3. CurHolds => HeaderFits
  BY DEF CurHolds
<1> QED BY <1>1, <1>2, <1>3, TypeCorrect, PTL DEF Spec

-----------------------------------------------------------------------------
\* The sequence number counts the uses of the packet that exists, and stops
\* short of the number of times it may be used.
SequenceCounts ==
  kind # "fixed" => IF buf = NoBuffer THEN uses = 0
                    ELSE uses = sequence + 1 /\ uses <= Often

LEMMA SequenceCountsNext == TypeOK /\ SequenceCounts /\ [Next]_vars => SequenceCounts'
<1> SUFFICES ASSUME TypeOK, SequenceCounts, [Next]_vars, kind # "fixed"
             PROVE  SequenceCounts'
  BY DEF SequenceCounts, Next, GetPayload, GetsOldPacket, GetsNewPacket, GetsNothing,
         Sends, Reset, vars
<1>1. kind' = kind /\ config' = config /\ Often' = Often
  BY DEF Next, GetPayload, GetsOldPacket, GetsNewPacket, GetsNothing, Sends, Reset, vars, Often
<1>2. config.time \in Nat /\ Often \in Nat \ {0}
  BY ConfigsInWord, PayloadAssumption DEF TypeOK, Often, Sizes
<1>3. ASSUME NEW w \in Workers, GetsOldPacket(w) PROVE SequenceCounts'
  BY <1>1, <1>2, <1>3 DEF GetsOldPacket, Reusable, SequenceCounts, Often, TypeOK
<1>4. ASSUME NEW w \in Workers, GetsNewPacket(w) PROVE SequenceCounts'
  <2>1. buf' # NoBuffer
    BY <1>4, NewSizesInWord DEF GetsNewPacket, Sizes, NoBuffer
  <2> QED BY <1>1, <1>2, <1>4, <2>1 DEF GetsNewPacket, SequenceCounts
<1>5. CASE Reset
  BY <1>1, <1>5 DEF Reset, SequenceCounts
<1>6. CASE UNCHANGED <<kind, config, handleVars, uses>>
  BY <1>1, <1>6 DEF SequenceCounts, handleVars
<1> QED
  BY <1>3, <1>4, <1>5, <1>6
  DEF Next, GetPayload, GetsNothing, Sends, vars, handleVars, counters

LEMMA ReplacedInTime == TypeOK /\ SequenceCounts /\ [Next]_vars => (Replaced => uses = Often)
<1> SUFFICES ASSUME TypeOK, SequenceCounts, [Next]_vars, Replaced PROVE uses = Often
  OBVIOUS
<1>1. kind # "fixed" /\ uses # 0 /\ buf # NoBuffer
  BY DEF Replaced, SequenceCounts
<1>2. uses = sequence + 1 /\ uses <= Often /\ config.time \in Nat
  BY <1>1, ConfigsInWord DEF SequenceCounts, TypeOK, Sizes
<1>3. ASSUME NEW w \in Workers, GetsOldPacket(w) PROVE FALSE
  BY <1>1, <1>3 DEF GetsOldPacket, Replaced, TypeOK
<1>4. ASSUME NEW w \in Workers, GetsNewPacket(w) PROVE uses = Often
  <2>1. sequence + 1 >= config.time
    BY <1>1, <1>2, <1>4 DEF GetsNewPacket, Reusable, TypeOK
  <2> QED BY <1>2, <2>1 DEF Often, TypeOK
<1>5. ASSUME NEW w \in Workers, Sends(w) PROVE FALSE
  BY <1>5 DEF Sends, Replaced, TypeOK
<1>6. CASE Reset
  BY <1>1, <1>6 DEF Reset, Replaced
<1>7. CASE UNCHANGED vars
  BY <1>7 DEF vars, workerVars, Replaced
<1> QED BY <1>3, <1>4, <1>5, <1>6, <1>7 DEF Next, GetPayload, GetsNothing

\* A packet is replaced after exactly as many uses as were asked for.
THEOREM UsedTimeTimesHolds == Spec => UsedTimeTimes
<1>1. Init => SequenceCounts
  BY DEF Init, SequenceCounts
<1>2. TypeOK /\ SequenceCounts /\ [Next]_vars => SequenceCounts'
  BY SequenceCountsNext
<1>3. TypeOK /\ SequenceCounts /\ [Next]_vars => [Replaced => uses = Often]_vars
  BY ReplacedInTime
<1> QED BY <1>1, <1>2, <1>3, TypeCorrect, PTL DEF Spec, UsedTimeTimes
-----------------------------------------------------------------------------
(***************************************************************************)
(* The size of the calls-th packet.  calls counts calls, the plug-in only  *)
(* sizes and the uses of the packet that exists: the invariant relates     *)
(* them through the number of packets that were replaced.                  *)
(***************************************************************************)
LEMMA QuotientBelow ==
  ASSUME NEW a \in Int, a > 0, NEW m \in Int
  PROVE  m \div a \in Int /\ a * (m \div a) <= m
  BY SMTT(30)

LEMMA QuotientIs ==
  ASSUME NEW a \in Int, a > 0, NEW m \in Int, NEW q \in Int, a * q <= m, m < a * q + a
  PROVE  m \div a = q
  BY SMTT(30)

LEMMA TimesMonotone ==
  ASSUME NEW a \in Nat, NEW m \in Int, NEW n \in Int, m <= n
  PROVE  a * m <= a * n
<1>1. PICK d \in Nat : n = m + d
  <2>1. n - m \in Nat /\ n = m + (n - m)
    OBVIOUS
  <2> QED BY <2>1
<1>2. a * n = a * m + a * d /\ a * d \in Nat /\ a * m \in Int
  BY <1>1
<1> QED BY <1>2

LEMMA TimesSuccessor ==
  ASSUME NEW a \in Int, NEW n \in Int
  PROVE  a * n \in Int /\ a * (n + 1) = a * n + a
  OBVIOUS

\* The size after the packet was replaced n times.
Ramp(n) ==
  IF config.min + Step * n > config.max THEN config.max ELSE config.min + Step * n

\* calls is what n replaced packets and the uses of the next one add up to,
\* or has stopped short of that.
CallsAre(n) ==
  /\ calls < MaxCalls => calls = Often * n + uses
  /\ calls = MaxCalls => calls <= Often * n + uses

Climbs == kind = "increasing" /\ NoWrap /\ config.min <= config.max

RampFollowed ==
  Climbs => IF buf = NoBuffer THEN calls = 0 /\ cur = config.min
            ELSE buf = cur /\ \E n \in Nat : cur = Ramp(n) /\ CallsAre(n)

OthersInRange ==
  buf # NoBuffer =>
    /\ kind = "fixed" => buf = config.max
    /\ kind = "random" /\ NoWrap => buf \in config.min..config.max

SizesFollow == RampFollowed /\ OthersInRange

\* What the lemmas below use of the arguments.
LEMMA ArgumentTypes ==
  ASSUME TypeOK
  PROVE  /\ config.min \in Nat /\ config.max \in Nat /\ config.min < Word /\ config.max < Word
         /\ config.time \in Nat /\ Step \in Nat \ {0} /\ Often \in Nat \ {0}
         /\ cur \in Nat /\ calls \in Nat /\ uses \in Nat /\ MaxCalls \in Nat \ {0}
         /\ Word \in Nat \ {0} /\ calls <= MaxCalls
<1>1. config \in Configs
  BY DEF TypeOK
<1>2. config.min \in Sizes /\ config.max \in Sizes /\ config.increment \in Sizes /\ config.time \in Sizes
  BY <1>1, ConfigsInWord
<1> QED BY <1>2, PayloadAssumption DEF Sizes, Step, Often, TypeOK

\* A call is counted until MaxCalls is reached.
LEMMA CountedOnce ==
  ASSUME TypeOK, NEW n \in Nat, NEW total \in Nat, Counted,
         calls < MaxCalls => calls = total,
         calls = MaxCalls => calls <= total
  PROVE  /\ calls' < MaxCalls => calls' = total + 1
         /\ calls' = MaxCalls => calls' <= total + 1
  BY ArgumentTypes DEF Counted

\* One more packet is one more step of the ramp.
LEMMA GrownIsNext ==
  ASSUME TypeOK, Climbs, NEW n \in Nat, cur = Ramp(n)
  PROVE  Grown = Ramp(n + 1)
<1> DEFINE s == Step * n
<1>1. s \in Nat /\ Step * (n + 1) = s + Step
  BY ArgumentTypes, TimesSuccessor
<1>2. cur = IF config.min + s > config.max THEN config.max ELSE config.min + s
  BY DEF Ramp
<1>3. Ramp(n + 1) = IF config.min + (s + Step) > config.max THEN config.max
                    ELSE config.min + (s + Step)
  BY <1>1 DEF Ramp
<1>4. config.max + Step < Word
  BY DEF Climbs, NoWrap
<1> HIDE DEF s
<1>5. cur <= config.max /\ cur + Step \in 0..(Word - 1)
  BY <1>1, <1>2, <1>4, ArgumentTypes
<1>6. (cur + Step) % Word = cur + Step
  BY <1>5, NotWrapped DEF Sizes
<1>7. Grown = IF cur + Step > config.max THEN config.max ELSE cur + Step
  BY <1>6 DEF Grown
<1> QED BY <1>1, <1>2, <1>3, <1>7, ArgumentTypes

LEMMA RandomInRange ==
  ASSUME TypeOK, kind = "random", NoWrap, NEW size \in NewSizes
  PROVE  size \in config.min..config.max
<1>1. config.min <= config.max
  BY DEF NoWrap
<1>2. Spread = config.max - config.min
  BY <1>1, ArgumentTypes, NotWrapped DEF Spread, Sizes
<1>3. PICK d \in 0..Spread : size = (config.min + d) % Word
  BY DEF NewSizes
<1>4. config.min + d \in config.min..config.max
  BY <1>1, <1>2, <1>3, ArgumentTypes
<1>5. (config.min + d) % Word = config.min + d
  BY <1>4, ArgumentTypes, NotWrapped DEF Sizes
<1> QED BY <1>3, <1>4, <1>5

LEMMA SizesFollowInit == Init => SizesFollow
  BY DEF Init, SizesFollow, RampFollowed, OthersInRange

\* A packet that is used again is one more use of the same packet.
LEMMA OldPacketFollows ==
  ASSUME TypeOK, SequenceCounts, SizesFollow, NEW w \in Workers, GetsOldPacket(w)
  PROVE  SizesFollow'
<1>1. kind' = kind /\ config' = config /\ buf' = buf /\ cur' = cur /\ buf # NoBuffer /\ Counted
  BY DEF GetsOldPacket, Reusable
<1>2. Often' = Often /\ (Climbs' <=> Climbs) /\ \A n : Ramp(n)' = Ramp(n)
  BY <1>1 DEF Often, Climbs, NoWrap, Step, Ramp
<1>3. OthersInRange'
  BY <1>1, <1>2 DEF SizesFollow, OthersInRange, NoWrap, Step
<1>4. CASE Climbs
  <2>1. uses' = uses + 1
    BY <1>4 DEF GetsOldPacket, Climbs
  <2>2. PICK n \in Nat : cur = Ramp(n) /\ CallsAre(n)
    BY <1>1, <1>4 DEF SizesFollow, RampFollowed
  <2>3. Often * n \in Nat
    BY ArgumentTypes
  <2>4. CallsAre(n)'
    <3> DEFINE total == Often * n + uses
    <3>1. total \in Nat /\ Often * n + (uses + 1) = total + 1
      BY <2>3, ArgumentTypes
    <3>2. (calls < MaxCalls => calls = total) /\ (calls = MaxCalls => calls <= total)
      BY <2>2 DEF CallsAre
    <3> HIDE DEF total
    <3>3. /\ calls' < MaxCalls => calls' = total + 1
          /\ calls' = MaxCalls => calls' <= total + 1
      BY <1>1, <3>1, <3>2, CountedOnce
    <3> QED BY <1>2, <2>1, <3>1, <3>3 DEF CallsAre
  <2>5. buf = cur
    BY <1>1, <1>4 DEF SizesFollow, RampFollowed
  <2> QED BY <1>1, <1>2, <1>3, <2>2, <2>4, <2>5 DEF SizesFollow, RampFollowed
<1> QED BY <1>2, <1>3, <1>4 DEF SizesFollow, RampFollowed

\* A new packet is the first of the ramp, or follows one used often enough.
LEMMA NewPacketFollows ==
  ASSUME TypeOK, SequenceCounts, SizesFollow, NEW w \in Workers, GetsNewPacket(w)
  PROVE  SizesFollow'
<1>1. kind' = kind /\ config' = config /\ uses' = 1 /\ Counted /\ ~Reusable
  BY DEF GetsNewPacket
<1>2. Often' = Often /\ (Climbs' <=> Climbs) /\ \A n : Ramp(n)' = Ramp(n)
  BY <1>1 DEF Often, Climbs, NoWrap, Step, Ramp
<1>3. PICK size \in NewSizes : buf' = size /\ cur' = IF kind = "increasing" THEN size ELSE cur
  BY DEF GetsNewPacket
<1>4. buf' # NoBuffer
  BY <1>3, NewSizesInWord DEF Sizes, NoBuffer
<1>5. OthersInRange'
  <2>1. kind = "fixed" => size = config.max
    BY DEF NewSizes
  <2> QED BY <1>1, <1>3, <2>1, RandomInRange DEF OthersInRange, NoWrap, Step
<1>6. ASSUME Climbs PROVE buf' = cur' /\ \E n \in Nat : cur' = Ramp(n) /\ CallsAre(n)'
  <2>1. kind = "increasing" /\ config.min <= config.max
    BY <1>6 DEF Climbs
  <2>2. buf' = cur' /\ cur' = IF buf = NoBuffer THEN cur ELSE Grown
    BY <1>3, <2>1 DEF NewSizes
  <2>3. CASE buf = NoBuffer
    <3>1. calls = 0 /\ cur = config.min
      BY <1>6, <2>3 DEF SizesFollow, RampFollowed
    <3>2. Step * 0 = 0 /\ Often * 0 = 0
      BY ArgumentTypes
    <3>3. cur = Ramp(0)
      BY <2>1, <3>1, <3>2, ArgumentTypes DEF Ramp
    <3>4. calls' = 1
      BY <1>1, <3>1, ArgumentTypes DEF Counted
    <3>5. CallsAre(0)'
      BY <1>1, <1>2, <3>2, <3>4 DEF CallsAre
    <3> QED BY <2>2, <2>3, <3>3, <3>5
  <2>4. CASE buf # NoBuffer
    <3>1. PICK n \in Nat : cur = Ramp(n) /\ CallsAre(n)
      BY <1>6, <2>4 DEF SizesFollow, RampFollowed
    <3>2. uses = Often
      <4>1. uses = sequence + 1 /\ uses <= Often
        BY <2>1, <2>4 DEF SequenceCounts
      <4>2. sequence + 1 >= config.time
        BY <1>1, <2>1, <2>4, ArgumentTypes DEF Reusable, TypeOK
      <4> QED BY <4>1, <4>2, ArgumentTypes DEF Often, TypeOK
    <3>3. cur' = Ramp(n + 1)
      BY <1>6, <2>2, <2>4, <3>1, GrownIsNext
    <3>4. CallsAre(n + 1)'
      <4> DEFINE total == Often * n + uses
      <4>1. total \in Nat /\ Often * (n + 1) + 1 = total + 1
        BY <3>2, TimesSuccessor, ArgumentTypes
      <4>2. (calls < MaxCalls => calls = total) /\ (calls = MaxCalls => calls <= total)
        BY <3>1 DEF CallsAre
      <4> HIDE DEF total
      <4>3. /\ calls' < MaxCalls => calls' = total + 1
            /\ calls' = MaxCalls => calls' <= total + 1
        BY <1>1, <4>1, <4>2, CountedOnce
      <4> QED BY <1>1, <1>2, <4>1, <4>3 DEF CallsAre
    <3> QED BY <2>2, <3>3, <3>4
  <2> QED BY <2>3, <2>4
<1> QED BY <1>2, <1>4, <1>5, <1>6 DEF SizesFollow, RampFollowed

LEMMA SizesFollowNext ==
  TypeOK /\ SequenceCounts /\ SizesFollow /\ [Next]_vars => SizesFollow'
<1> SUFFICES ASSUME TypeOK, SequenceCounts, SizesFollow, [Next]_vars PROVE SizesFollow'
  OBVIOUS
<1>1. CASE Reset
  <2>1. kind' = kind /\ config' = config
    BY <1>1 DEF Reset
  <2>2. CASE kind = "fixed"
    BY <1>1, <2>1, <2>2
    DEF Reset, SizesFollow, RampFollowed, OthersInRange, Climbs, handleVars
  <2>3. CASE kind # "fixed"
    BY <1>1, <2>1, <2>3 DEF Reset, SizesFollow, RampFollowed, OthersInRange
  <2> QED BY <2>2, <2>3
<1>2. CASE UNCHANGED <<kind, config, buf, cur, calls, uses>>
  BY <1>2
  DEF SizesFollow, RampFollowed, OthersInRange, Climbs, NoWrap, Step, Ramp, CallsAre, Often
<1> QED
  BY <1>1, <1>2, OldPacketFollows, NewPacketFollows
  DEF Next, GetPayload, GetsNothing, Sends, vars, handleVars, counters

\* Where calls has stopped, the ramp that it stands for has ended.
LEMMA RampIsDocumented ==
  ASSUME RampsEnd, TypeOK, Climbs, uses \in 1..Often, calls > 0,
         NEW n \in Nat, CallsAre(n)
  PROVE  Documented(Ramp(n))
<1> DEFINE q == (calls - 1) \div Often
<1>0. Often \in Int /\ Often > 0 /\ calls \in Nat /\ Often * n \in Nat
  BY ArgumentTypes
<1>1. Documented(Ramp(n)) <=> Ramp(n) = Ramp(q)
  BY DEF Documented, Climbs, Ramp
<1>2. CASE calls < MaxCalls
  <2>1. calls = Often * n + uses
    BY <1>2 DEF CallsAre
  <2>2. Often * n <= calls - 1 /\ calls - 1 < Often * n + Often
    BY <1>0, <2>1
  <2>3. q = n
    BY <1>0, <2>2, QuotientIs
  <2> QED BY <1>1, <2>3
<1>3. CASE calls = MaxCalls
  <2>1. q \in Int /\ Often * q <= calls - 1
    BY <1>0, QuotientBelow
  <2>2. calls <= Often * n + uses
    BY <1>3 DEF CallsAre
  <2>3. config.min + Step * q >= config.max
    BY <1>3 DEF RampsEnd, TypeOK, Step, Often
  <2> HIDE DEF q
  <2>4. q <= n
    <3>1. SUFFICES ASSUME n + 1 <= q PROVE FALSE
      BY <2>1
    <3>2. Often * (n + 1) <= Often * q
      BY <1>0, <2>1, <3>1, TimesMonotone
    <3>3. Often * (n + 1) = Often * n + Often /\ Often * q \in Int
      BY <1>0, <2>1, TimesSuccessor
    <3> QED BY <1>0, <2>1, <2>2, <3>2, <3>3
  <2>5. Step * q <= Step * n /\ Step * q \in Int /\ Step * n \in Int
    BY <2>1, <2>4, ArgumentTypes, TimesMonotone
  <2>6. Ramp(n) = config.max /\ Ramp(q) = config.max
    BY <2>3, <2>5, ArgumentTypes DEF Ramp
  <2> QED BY <1>1, <2>6
<1> QED BY <1>2, <1>3, ArgumentTypes

\* Every packet has the size that the documentation of its payload promises
\* for the calls-th call, for every set of arguments that does not make the
\* sizes wrap, and however many workers share the handle.
THEOREM SizeAsDocumentedHolds ==
  ASSUME RampsEnd
  PROVE  Spec => []SizeAsDocumented
<1>1. Init => SequenceCounts
  BY DEF Init, SequenceCounts
<1>2. TypeOK /\ SequenceCounts /\ SizesFollow => SizeAsDocumented
  <2> SUFFICES ASSUME TypeOK, SequenceCounts, SizesFollow, NoWrap,
                      kind = "fixed" \/ config.min <= config.max, calls > 0, buf # NoBuffer
               PROVE  Documented(buf)
    BY DEF SizeAsDocumented
  <2>1. kind \in {"fixed", "increasing", "random"}
    BY PayloadAssumption DEF TypeOK
  <2>2. CASE kind \in {"fixed", "random"}
    BY <2>2 DEF SizesFollow, OthersInRange, Documented
  <2>3. CASE kind = "increasing"
    <3>1. Climbs
      BY <2>3 DEF Climbs
    <3>2. PICK n \in Nat : cur = Ramp(n) /\ CallsAre(n)
      BY <3>1 DEF SizesFollow, RampFollowed
    <3>3. uses \in 1..Often
      BY <2>3, ArgumentTypes DEF SequenceCounts, TypeOK
    <3>4. Documented(Ramp(n))
      BY <3>1, <3>2, <3>3, RampIsDocumented
    <3> QED BY <3>1, <3>2, <3>4 DEF SizesFollow, RampFollowed
  <2> QED BY <2>1, <2>2, <2>3
<1> QED
  BY <1>1, <1>2, SequenceCountsNext, SizesFollowInit, SizesFollowNext, TypeCorrect, PTL DEF Spec

-----------------------------------------------------------------------------
(***************************************************************************)
(* The parsers of the command line.  The loop reads two arguments at a     *)
(* time, so the invariant speaks of the pairs before cnt: they are pairs   *)
(* as help() describes them, and the fields hold what they say.            *)
(***************************************************************************)

\* Reading is over for a pair before n, and only for those.
Before(n) == {i \in Keys : i < n}

\* p is the place of the value that the pairs before n give option o, or 0.
LastUse(o, n, p) ==
  \/ p = 0 /\ Uses(o) \cap Before(n) = {}
  \/ /\ p - 1 \in Uses(o) \cap Before(n)
     /\ \A i \in Uses(o) \cap Before(n) : i <= p - 1

NumberFrom(o, p) ==
  IF p # 0 THEN ToInt(Atol(argv[p])) ELSE IF o = "-n" THEN 1 ELSE 0

EntriesBefore(n) ==
  /\ entries \in Seq(Nat)
  /\ {entries[i] : i \in DOMAIN entries} = {i \in Before(n) : argv[i] \notin Dashed}
  /\ \A i, j \in DOMAIN entries : i < j => entries[i] < entries[j]

FieldsBefore(n) ==
  /\ \A o \in PositionOptions : LastUse(o, n, at[o])
  /\ \A o \in NumberOptions :
       \E q \in 0..Len(argv) : LastUse(o, n, q) /\ number[o] = NumberFrom(o, q)
  /\ \A o \in AddressOptions : LastUse(o, n, address)
  /\ EntriesBefore(n)

PairsBefore(n) == \A i \in Before(n) : IsPair(i)

Describes == (\A i \in Keys : IsPair(i)) /\ Complete

Parsed ==
  /\ cnt % 2 = 1
  /\ outcome = "start" => cnt = 1
  /\ PairsBefore(cnt) /\ FieldsBefore(cnt)
  /\ outcome = "ok" => cnt > Len(argv) /\ Describes
  /\ outcome \in Errors \cup {"version"} => ~Describes

ParserInv == ParserTypeOK /\ Parsed

\* The largest element, and the smallest of a few.
LEMMA MaxIs ==
  ASSUME NEW S \in SUBSET Int, NEW m \in S, \A i \in S : i <= m
  PROVE  Max(S) = m
<1>1. \A y \in S : m >= y
  OBVIOUS
<1>2. Max(S) \in S /\ \A y \in S : Max(S) >= y
  BY <1>1 DEF Max
<1>3. Max(S) >= m /\ m >= Max(S) /\ m \in Int /\ Max(S) \in Int
  BY <1>1, <1>2
<1> HIDE DEF Max
<1> QED BY <1>3

LEMMA MinOfFew ==
  ASSUME NEW S \in SUBSET (1..7), S # {}
  PROVE  Min(S) \in S
<1>1. PICK m \in S : \A i \in S : m <= i
  <2>1. CASE 1 \in S  BY <2>1
  <2>2. CASE 1 \notin S /\ 2 \in S  BY <2>2
  <2>3. CASE {1, 2} \cap S = {} /\ 3 \in S  BY <2>3
  <2>4. CASE {1, 2, 3} \cap S = {} /\ 4 \in S  BY <2>4
  <2>5. CASE {1, 2, 3, 4} \cap S = {} /\ 5 \in S  BY <2>5
  <2>6. CASE {1, 2, 3, 4, 5} \cap S = {} /\ 6 \in S  BY <2>6
  <2>7. CASE {1, 2, 3, 4, 5, 6} \cap S = {}
    <3>1. \A i \in S : i = 7
      BY <2>7
    <3>2. 7 \in S
      BY <3>1
    <3> QED BY <3>1, <3>2
  <2> QED BY <2>1, <2>2, <2>3, <2>4, <2>5, <2>6, <2>7
<1> QED BY <1>1 DEF Min

\* atol returns a number, and an int keeps one.
LEMMA NumberTypes ==
  ASSUME NEW arg
  PROVE  Atol(arg) \in Int /\ ToInt(Atol(arg)) \in Int
<1>1. Atol(arg) \in Int
  BY CommandLineAssumption DEF Atol
<1>2. Atol(arg) % IntRange \in Int /\ IntRange \in Int
  BY <1>1, CommandLineAssumption
<1> QED BY <1>1, <1>2 DEF ToInt

\* One turn of the loop passes one key.
LEMMA NextKey ==
  ASSUME ParserTypeOK, cnt % 2 = 1, cnt <= Len(argv)
  PROVE  cnt \in Keys /\ Before(cnt + 2) = Before(cnt) \cup {cnt} /\ (cnt + 2) % 2 = 1
<1>1. Len(argv) \in Nat /\ cnt \in Nat /\ cnt >= 1
  BY DEF ParserTypeOK
<1>2. cnt \in Keys
  BY <1>1 DEF Keys
<1>3. \A i \in Keys : i < cnt + 2 <=> i < cnt \/ i = cnt
  BY <1>1 DEF Keys
<1>4. (cnt + 2) % 2 = 1
  BY <1>1
<1> QED BY <1>1, <1>2, <1>3, <1>4 DEF Before

LEMMA LastUseSkips ==
  ASSUME ParserTypeOK, cnt % 2 = 1, cnt <= Len(argv),
         NEW o, NEW p, cnt \notin Uses(o), LastUse(o, cnt, p)
  PROVE  LastUse(o, cnt + 2, p)
  BY NextKey DEF LastUse

LEMMA LastUseTakes ==
  ASSUME ParserTypeOK, cnt % 2 = 1, cnt <= Len(argv), NEW o, cnt \in Uses(o)
  PROVE  LastUse(o, cnt + 2, cnt + 1)
<1>1. \A i \in Before(cnt) : i <= cnt
  BY DEF Before, Keys, ParserTypeOK
<1>2. (cnt + 1) - 1 = cnt /\ cnt <= cnt
  BY DEF ParserTypeOK
<1> QED BY <1>1, <1>2, NextKey DEF LastUse

\* At the end of the line the last use is the one that counts.
LEMMA LastUseIsGiven ==
  ASSUME ParserTypeOK, cnt > Len(argv), NEW o, NEW p \in 0..Len(argv), LastUse(o, cnt, p)
  PROVE  p = Given(o)
<1>1. Before(cnt) = Keys /\ Uses(o) \subseteq Keys /\ Keys \subseteq Int
  BY DEF Before, Keys, ParserTypeOK, Uses
<1>2. CASE p = 0 /\ Uses(o) = {}
  BY <1>2 DEF Given
<1>3. CASE p - 1 \in Uses(o) /\ \A i \in Uses(o) : i <= p - 1
  <2>1. Max(Uses(o)) = p - 1
    BY <1>1, <1>3, MaxIs
  <2> QED BY <1>3, <2>1 DEF Given
<1> QED BY <1>1, <1>2, <1>3 DEF LastUse

-----------------------------------------------------------------------------
\* The steps that do not end the loop, one lemma for each kind of pair.
LEMMA PairsGrow ==
  ASSUME ParserTypeOK, Parsed, cnt <= Len(argv), IsPair(cnt)
  PROVE  PairsBefore(cnt + 2)
  BY NextKey DEF Parsed, PairsBefore

\* A pair that starts with an option is no entry of the server.
LEMMA EntriesStay ==
  ASSUME ParserTypeOK, Parsed, cnt <= Len(argv), argv[cnt] \in Dashed
  PROVE  EntriesBefore(cnt + 2)
<1>1. {i \in Before(cnt + 2) : argv[i] \notin Dashed} = {i \in Before(cnt) : argv[i] \notin Dashed}
  BY NextKey DEF Parsed
<1> QED BY <1>1 DEF Parsed, FieldsBefore, EntriesBefore

\* A pair that uses another option says nothing of o.
LEMMA OtherOption ==
  ASSUME ParserTypeOK, Parsed, cnt <= Len(argv), NEW o, Here # o \/ argv[cnt] \notin Dashed
  PROVE  cnt \notin Uses(o)
  BY DEF Uses, Here

LEMMA SameOption ==
  ASSUME ParserTypeOK, Parsed, cnt <= Len(argv), argv[cnt] \in Dashed
  PROVE  cnt \in Uses(Here)
  BY NextKey DEF Uses, Here, Parsed

\* What a pair leaves alone it leaves as it was.
LEMMA PositionsSkip ==
  ASSUME ParserTypeOK, Parsed, cnt <= Len(argv),
         NEW o \in PositionOptions, Here # o \/ argv[cnt] \notin Dashed
  PROVE  LastUse(o, cnt + 2, at[o])
  BY OtherOption, LastUseSkips DEF Parsed, FieldsBefore

LEMMA NumbersSkip ==
  ASSUME ParserTypeOK, Parsed, cnt <= Len(argv),
         NEW o \in NumberOptions, Here # o \/ argv[cnt] \notin Dashed
  PROVE  \E q \in 0..Len(argv) : LastUse(o, cnt + 2, q) /\ number[o] = NumberFrom(o, q)
<1>1. PICK q \in 0..Len(argv) : LastUse(o, cnt, q) /\ number[o] = NumberFrom(o, q)
  BY DEF Parsed, FieldsBefore
<1>2. LastUse(o, cnt + 2, q)
  BY <1>1, OtherOption, LastUseSkips DEF Parsed
<1> QED BY <1>1, <1>2

LEMMA AddressSkips ==
  ASSUME ParserTypeOK, Parsed, cnt <= Len(argv),
         NEW o \in AddressOptions, Here # o \/ argv[cnt] \notin Dashed
  PROVE  LastUse(o, cnt + 2, address)
  BY OtherOption, LastUseSkips DEF Parsed, FieldsBefore

\* Reading a pair changes neither the line nor what is said of its places.
LEMMA SameLine ==
  ASSUME program' = program, argv' = argv
  PROVE  /\ Len(argv)' = Len(argv) /\ Keys' = Keys
         /\ PositionOptions' = PositionOptions /\ NumberOptions' = NumberOptions
         /\ AddressOptions' = AddressOptions
         /\ \A i : IsPair(i)' <=> IsPair(i)
         /\ \A o : Uses(o)' = Uses(o)
         /\ \A o, q : NumberFrom(o, q)' = NumberFrom(o, q)
         /\ Describes' <=> Describes
  BY DEF Keys, PositionOptions, NumberOptions, AddressOptions, Options, Uses, NumberFrom,
         Describes, Complete, IsPair, Plugin, Positive, Given

\* The options of one program set different fields.
LEMMA FieldsDiffer ==
  /\ PositionOptions \cap NumberOptions = {}
  /\ PositionOptions \cap AddressOptions = {}
  /\ NumberOptions \cap AddressOptions = {}
  BY DEF PositionOptions, NumberOptions, AddressOptions

\* What is left to show of a step that reads a pair and goes on.
LEMMA PairRead ==
  ASSUME ParserInv, ParserTypeOK', Reading, Takes, IsPair(cnt),
         \A o \in PositionOptions : LastUse(o, cnt + 2, at'[o]),
         \A o \in NumberOptions :
           \E q \in 0..Len(argv) : LastUse(o, cnt + 2, q) /\ number'[o] = NumberFrom(o, q),
         \A o \in AddressOptions : LastUse(o, cnt + 2, address'),
         EntriesBefore(cnt)'
  PROVE  ParserInv'
<1>1. program' = program /\ argv' = argv /\ cnt' = cnt + 2 /\ outcome' = "reading" /\ cnt <= Len(argv)
  BY DEF Takes, Reading
<1>2. PairsBefore(cnt + 2)
  BY <1>1, PairsGrow DEF ParserInv
<1>3. (cnt' % 2 = 1) /\ PairsBefore(cnt)' /\ EntriesBefore(cnt)'
  BY <1>1, <1>2, NextKey, SameLine DEF ParserInv, Parsed, EntriesBefore, PairsBefore, Before
<1>4. FieldsBefore(cnt)'
  <2>1. \A o \in PositionOptions' : LastUse(o, cnt, at[o])'
    BY <1>1, SameLine DEF LastUse, Before
  <2>2. \A o \in NumberOptions' :
          \E q \in (0..Len(argv))' : (LastUse(o, cnt, q) /\ number[o] = NumberFrom(o, q))'
    BY <1>1, SameLine DEF LastUse, Before
  <2>3. \A o \in AddressOptions' : LastUse(o, cnt, address)'
    BY <1>1, SameLine DEF LastUse, Before
  <2> QED BY <1>3, <2>1, <2>2, <2>3 DEF FieldsBefore
<1> QED BY <1>1, <1>3, <1>4 DEF ParserInv, Parsed, Errors

\* A pair of an option and its value.
LEMMA OptionPair ==
  ASSUME ParserInv, Reading, argv[cnt] \in Dashed, HasValue, Here \in Options
  PROVE  IsPair(cnt) /\ cnt + 1 \in 0..Len(argv) /\ cnt + 2 \in 1..(Len(argv) + 1)
  BY DEF ParserInv, ParserTypeOK, Reading, HasValue, Here, IsPair

LEMMA TakesPositionInv ==
  ASSUME ParserInv, TakesPosition
  PROVE  ParserInv'
<1>1. /\ Reading /\ argv[cnt] \in Dashed /\ Here \in PositionOptions /\ HasValue /\ Takes
      /\ at' = [at EXCEPT ![Here] = cnt + 1]
      /\ UNCHANGED <<number, address, entries>>
  BY DEF TakesPosition
<1>2. program' = program /\ argv' = argv /\ cnt' = cnt + 2 /\ outcome' = outcome /\ cnt <= Len(argv)
  BY <1>1 DEF Takes, Reading
<1>3. IsPair(cnt) /\ cnt + 1 \in 0..Len(argv) /\ cnt + 2 \in 1..(Len(argv) + 1)
  BY <1>1, OptionPair DEF Options
<1>4. ParserTypeOK'
  BY <1>1, <1>2, <1>3, SameLine DEF ParserInv, ParserTypeOK
<1>5. ASSUME NEW o \in PositionOptions PROVE LastUse(o, cnt + 2, at'[o])
  <2>1. CASE o = Here
    <3>1. at'[o] = cnt + 1
      BY <1>1, <2>1 DEF ParserInv, ParserTypeOK
    <3>2. LastUse(o, cnt + 2, cnt + 1)
      BY <1>1, <1>2, <2>1, SameOption, LastUseTakes DEF ParserInv, Parsed
    <3> QED BY <3>1, <3>2
  <2>2. CASE o # Here
    <3>1. at'[o] = at[o]
      BY <1>1, <2>2 DEF ParserInv, ParserTypeOK
    <3> QED BY <1>2, <2>2, <3>1, PositionsSkip DEF ParserInv
  <2> QED BY <2>1, <2>2
<1>6. ASSUME NEW o \in NumberOptions
      PROVE  \E q \in 0..Len(argv) : LastUse(o, cnt + 2, q) /\ number'[o] = NumberFrom(o, q)
  BY <1>1, <1>2, FieldsDiffer, NumbersSkip DEF ParserInv
<1>7. ASSUME NEW o \in AddressOptions PROVE LastUse(o, cnt + 2, address')
  BY <1>1, <1>2, FieldsDiffer, AddressSkips DEF ParserInv
<1>8. EntriesBefore(cnt)'
  <2>1. EntriesBefore(cnt + 2)
    BY <1>1, <1>2, EntriesStay DEF ParserInv
  <2> QED BY <1>1, <1>2, <2>1, SameLine DEF EntriesBefore, Before
<1> QED BY <1>1, <1>3, <1>4, <1>5, <1>6, <1>7, <1>8, PairRead

LEMMA TakesNumberInv ==
  ASSUME ParserInv, TakesNumber
  PROVE  ParserInv'
<1>1. /\ Reading /\ argv[cnt] \in Dashed /\ Here \in NumberOptions /\ HasValue /\ Takes
      /\ number' = [number EXCEPT ![Here] = ToInt(Atol(argv[cnt + 1]))]
      /\ UNCHANGED <<at, address, entries>>
  BY DEF TakesNumber
<1>2. program' = program /\ argv' = argv /\ cnt' = cnt + 2 /\ outcome' = outcome /\ cnt <= Len(argv)
  BY <1>1 DEF Takes, Reading
<1>3. IsPair(cnt) /\ cnt + 1 \in 0..Len(argv) /\ cnt + 2 \in 1..(Len(argv) + 1)
  BY <1>1, OptionPair DEF Options
<1>4. ParserTypeOK'
  <2>1. ToInt(Atol(argv[cnt + 1])) \in Int
    BY NumberTypes
  <2> QED BY <1>1, <1>2, <1>3, <2>1, SameLine DEF ParserInv, ParserTypeOK
<1>5. ASSUME NEW o \in PositionOptions PROVE LastUse(o, cnt + 2, at'[o])
  BY <1>1, <1>2, FieldsDiffer, PositionsSkip DEF ParserInv
<1>6. ASSUME NEW o \in NumberOptions
      PROVE  \E q \in 0..Len(argv) : LastUse(o, cnt + 2, q) /\ number'[o] = NumberFrom(o, q)
  <2>1. CASE o = Here
    <3>1. LastUse(o, cnt + 2, cnt + 1)
      BY <1>1, <1>2, <2>1, SameOption, LastUseTakes DEF ParserInv, Parsed
    <3>2. number'[o] = ToInt(Atol(argv[cnt + 1]))
      BY <1>1, <2>1 DEF ParserInv, ParserTypeOK
    <3>3. NumberFrom(o, cnt + 1) = ToInt(Atol(argv[cnt + 1]))
      BY DEF NumberFrom, ParserInv, ParserTypeOK
    <3> QED BY <1>3, <3>1, <3>2, <3>3
  <2>2. CASE o # Here
    <3>1. number'[o] = number[o]
      BY <1>1, <2>2 DEF ParserInv, ParserTypeOK
    <3> QED BY <1>2, <2>2, <3>1, NumbersSkip DEF ParserInv
  <2> QED BY <2>1, <2>2
<1>7. ASSUME NEW o \in AddressOptions PROVE LastUse(o, cnt + 2, address')
  BY <1>1, <1>2, FieldsDiffer, AddressSkips DEF ParserInv
<1>8. EntriesBefore(cnt)'
  <2>1. EntriesBefore(cnt + 2)
    BY <1>1, <1>2, EntriesStay DEF ParserInv
  <2> QED BY <1>1, <1>2, <2>1, SameLine DEF EntriesBefore, Before
<1> QED BY <1>1, <1>3, <1>4, <1>5, <1>6, <1>7, <1>8, PairRead

LEMMA TakesAddressInv ==
  ASSUME ParserInv, TakesAddress
  PROVE  ParserInv'
<1>1. /\ Reading /\ argv[cnt] \in Dashed /\ Here \in AddressOptions /\ HasValue /\ Takes
      /\ address' = cnt + 1
      /\ UNCHANGED <<at, number, entries>>
  BY DEF TakesAddress
<1>2. program' = program /\ argv' = argv /\ cnt' = cnt + 2 /\ outcome' = outcome /\ cnt <= Len(argv)
  BY <1>1 DEF Takes, Reading
<1>3. IsPair(cnt) /\ cnt + 1 \in 0..Len(argv) /\ cnt + 2 \in 1..(Len(argv) + 1)
  BY <1>1, OptionPair DEF Options
<1>4. ParserTypeOK'
  BY <1>1, <1>2, <1>3, SameLine DEF ParserInv, ParserTypeOK
<1>5. ASSUME NEW o \in PositionOptions PROVE LastUse(o, cnt + 2, at'[o])
  BY <1>1, <1>2, FieldsDiffer, PositionsSkip DEF ParserInv
<1>6. ASSUME NEW o \in NumberOptions
      PROVE  \E q \in 0..Len(argv) : LastUse(o, cnt + 2, q) /\ number'[o] = NumberFrom(o, q)
  BY <1>1, <1>2, FieldsDiffer, NumbersSkip DEF ParserInv
<1>7. ASSUME NEW o \in AddressOptions PROVE LastUse(o, cnt + 2, address')
  <2>1. o = Here
    BY <1>1 DEF AddressOptions
  <2> QED BY <1>1, <1>2, <2>1, SameOption, LastUseTakes DEF ParserInv, Parsed
<1>8. EntriesBefore(cnt)'
  <2>1. EntriesBefore(cnt + 2)
    BY <1>1, <1>2, EntriesStay DEF ParserInv
  <2> QED BY <1>1, <1>2, <2>1, SameLine DEF EntriesBefore, Before
<1> QED BY <1>1, <1>3, <1>4, <1>5, <1>6, <1>7, <1>8, PairRead

LEMMA TakesEntryInv ==
  ASSUME ParserInv, TakesEntry
  PROVE  ParserInv'
<1>1. /\ program = "server" /\ Reading /\ argv[cnt] \notin Dashed
      /\ HasValue /\ IsPort(argv[cnt + 1]) /\ Takes
      /\ entries' = Append(entries, cnt)
      /\ UNCHANGED <<at, number, address>>
  BY DEF TakesEntry
<1>2. program' = program /\ argv' = argv /\ cnt' = cnt + 2 /\ outcome' = outcome /\ cnt <= Len(argv)
  BY <1>1 DEF Takes, Reading
<1>3. IsPair(cnt) /\ cnt + 2 \in 1..(Len(argv) + 1) /\ cnt \in 1..Len(argv)
  BY <1>1, <1>2 DEF ParserInv, ParserTypeOK, HasValue, IsPair
<1>4. ParserTypeOK'
  BY <1>1, <1>2, <1>3, SameLine DEF ParserInv, ParserTypeOK
<1>5. ASSUME NEW o \in PositionOptions PROVE LastUse(o, cnt + 2, at'[o])
  BY <1>1, <1>2, PositionsSkip DEF ParserInv
<1>6. ASSUME NEW o \in NumberOptions
      PROVE  \E q \in 0..Len(argv) : LastUse(o, cnt + 2, q) /\ number'[o] = NumberFrom(o, q)
  BY <1>1, <1>2, NumbersSkip DEF ParserInv
<1>7. ASSUME NEW o \in AddressOptions PROVE LastUse(o, cnt + 2, address')
  BY <1>1, <1>2, AddressSkips DEF ParserInv
<1>8. EntriesBefore(cnt)'
  <2>1. EntriesBefore(cnt)
    BY DEF ParserInv, Parsed, FieldsBefore
  <2>2. entries \in Seq(Nat) /\ entries' \in Seq(Nat) /\ Len(entries) \in Nat /\ cnt \in Nat
    BY <1>1, <1>3, <2>1 DEF EntriesBefore
  <2>3. /\ DOMAIN entries = 1..Len(entries) /\ DOMAIN entries' = 1..(Len(entries) + 1)
        /\ \A i \in 1..Len(entries) : entries'[i] = entries[i]
        /\ entries'[Len(entries) + 1] = cnt
    BY <1>1, <2>2
  <2>4. Before(cnt + 2) = Before(cnt) \cup {cnt}
    BY <1>2, NextKey DEF ParserInv, Parsed
  <2>5. \A i \in 1..Len(entries) : entries[i] < cnt
    BY <2>1, <2>3 DEF EntriesBefore, Before
  <2>6. {entries'[i] : i \in DOMAIN entries'} = {entries[i] : i \in DOMAIN entries} \cup {cnt}
    BY <2>2, <2>3
  <2>7. {i \in Before(cnt + 2) : argv[i] \notin Dashed}
          = {i \in Before(cnt) : argv[i] \notin Dashed} \cup {cnt}
    BY <1>1, <2>4
  <2>8. {entries'[i] : i \in DOMAIN entries'} = {i \in Before(cnt + 2) : argv[i] \notin Dashed}
    BY <2>1, <2>6, <2>7 DEF EntriesBefore
  <2>9. \A i, j \in DOMAIN entries' : i < j => entries'[i] < entries'[j]
    <3> SUFFICES ASSUME NEW i \in 1..(Len(entries) + 1), NEW j \in 1..(Len(entries) + 1), i < j
                 PROVE  entries'[i] < entries'[j]
      BY <2>3
    <3>1. CASE j = Len(entries) + 1
      BY <2>2, <2>3, <2>5, <3>1
    <3>2. CASE j # Len(entries) + 1
      BY <2>1, <2>2, <2>3, <3>2 DEF EntriesBefore
    <3> QED BY <3>1, <3>2
  <2> QED BY <1>2, <2>2, <2>8, <2>9, SameLine DEF EntriesBefore, Before
<1> QED BY <1>1, <1>3, <1>4, <1>5, <1>6, <1>7, <1>8, PairRead

-----------------------------------------------------------------------------
\* A step that only decides how it goes on leaves the fields alone.
LEMMA EndsInv ==
  ASSUME ParserInv, NEW result, Ends(result),
         result \in {"start", "reading", "ok", "version"} \cup Errors,
         result = "start" => cnt = 1,
         result = "ok" => cnt > Len(argv) /\ Describes,
         result \in Errors \cup {"version"} => ~Describes
  PROVE  ParserInv'
<1>1. /\ outcome' = result /\ program' = program /\ argv' = argv /\ cnt' = cnt
      /\ at' = at /\ number' = number /\ address' = address /\ entries' = entries
  BY DEF Ends
<1>2. ParserTypeOK'
  BY <1>1, SameLine DEF ParserInv, ParserTypeOK
<1>3. PairsBefore(cnt)' /\ EntriesBefore(cnt)'
  BY <1>1, SameLine DEF ParserInv, Parsed, FieldsBefore, PairsBefore, EntriesBefore, Before
<1>4. FieldsBefore(cnt)'
  <2>1. \A o \in PositionOptions' : LastUse(o, cnt, at[o])'
    BY <1>1, SameLine DEF ParserInv, Parsed, FieldsBefore, LastUse, Before
  <2>2. \A o \in NumberOptions' :
          \E q \in (0..Len(argv))' : (LastUse(o, cnt, q) /\ number[o] = NumberFrom(o, q))'
    BY <1>1, SameLine DEF ParserInv, Parsed, FieldsBefore, LastUse, Before
  <2>3. \A o \in AddressOptions' : LastUse(o, cnt, address)'
    BY <1>1, SameLine DEF ParserInv, Parsed, FieldsBefore, LastUse, Before
  <2> QED BY <1>3, <2>1, <2>2, <2>3 DEF FieldsBefore
<1>5. (cnt % 2 = 1)' /\ (outcome = "start" => cnt = 1)'
  BY <1>1 DEF ParserInv, Parsed
<1>6. Describes' <=> Describes
  BY <1>1, SameLine
<1> QED BY <1>1, <1>2, <1>3, <1>4, <1>5, <1>6, SameLine DEF ParserInv, Parsed

LEMMA StartsInv ==
  ASSUME ParserInv, Starts
  PROVE  ParserInv'
<1>1. cnt = 1 /\ Len(argv) \in Nat /\ program \in {"client", "server"}
  <2>1. cnt = 1
    BY DEF ParserInv, Parsed, Starts
  <2>2. Len(argv) \in Nat /\ program \in {"client", "server"}
    BY DEF ParserInv, ParserTypeOK
  <2> QED BY <2>1, <2>2
<1>2. CASE Len(argv) \in 1..(Fewest - 1) /\ argv[1] # "-v"
  <2>1. Ends("too few")
    BY <1>2 DEF Starts
  <2>2. ~Describes
    <3>1. CASE program = "client"
      <4>1. 1 \in Keys /\ ~(1 < Len(argv))
        BY <1>1, <1>2, <3>1 DEF Fewest, Keys
      <4> QED BY <4>1 DEF Describes, IsPair
    <3>2. CASE program = "server"
      <4>1. Fewest = 5
        BY <3>2 DEF Fewest
      <4>2. PICK n \in 1..(5 - 1) : n = Len(argv)
        BY <1>2, <4>1
      <4>3. ~(n >= 5)
        OBVIOUS
      <4> QED BY <3>2, <4>2, <4>3 DEF Describes, Complete
    <3> QED BY <1>1, <3>1, <3>2
  <2> QED BY <2>1, <2>2, EndsInv DEF Errors
<1>3. CASE ~(Len(argv) \in 1..(Fewest - 1) /\ argv[1] # "-v")
  <2>1. Ends("reading")
    BY <1>3 DEF Starts
  <2> QED BY <2>1, EndsInv DEF Errors
<1> QED BY <1>2, <1>3

\* The loop ends early only at a pair that help() does not describe.
LEMMA RefusesInv ==
  ASSUME ParserInv,
         RefusesEntry \/ RefusesWord \/ TakesVersion \/ RefusesNoValue \/ RefusesUnknown
  PROVE  ParserInv'
<1>1. cnt \in Keys
  <2>1. cnt <= Len(argv)
    BY DEF RefusesEntry, RefusesWord, TakesVersion, RefusesNoValue, RefusesUnknown, Reading
  <2> QED BY <2>1, NextKey DEF ParserInv, Parsed
<1>2. ~IsPair(cnt)
  <2>1. CASE RefusesEntry
    BY <2>1 DEF RefusesEntry, HasValue, IsPair
  <2>2. CASE RefusesWord
    BY <2>2 DEF RefusesWord, IsPair
  <2>3. CASE TakesVersion
    BY <2>3 DEF TakesVersion, Here, IsPair, Options, PositionOptions, NumberOptions, AddressOptions
  <2>4. CASE RefusesNoValue
    BY <2>4 DEF RefusesNoValue, HasValue, IsPair
  <2>5. CASE RefusesUnknown
    BY <2>5 DEF RefusesUnknown, Here, IsPair
  <2> QED BY <2>1, <2>2, <2>3, <2>4, <2>5
<1>3. ~Describes
  BY <1>1, <1>2 DEF Describes
<1>4. \E result \in Errors \cup {"version"} : Ends(result)
  BY DEF RefusesEntry, RefusesWord, TakesVersion, RefusesNoValue, RefusesUnknown, Errors
<1>5. PICK result \in Errors \cup {"version"} : Ends(result)
  BY <1>4
<1>6. result \notin {"ok", "start"}
  BY DEF Errors
<1> QED BY <1>3, <1>5, <1>6, EndsInv

-----------------------------------------------------------------------------
\* At the end of the line the fields are as given.
LEMMA FieldsGiven ==
  ASSUME ParserInv, cnt > Len(argv)
  PROVE  /\ Before(cnt) = Keys
         /\ \A i \in Keys : IsPair(i)
         /\ \A o \in PositionOptions : at[o] = Given(o)
         /\ \A o \in NumberOptions : number[o] = NumberFrom(o, Given(o))
         /\ program = "client" => address = Given("-da")
<1>1. Before(cnt) = Keys
  BY DEF Before, Keys, ParserInv, ParserTypeOK
<1>2. \A i \in Keys : IsPair(i)
  BY <1>1 DEF ParserInv, Parsed, PairsBefore
<1>3. ASSUME NEW o \in PositionOptions PROVE at[o] = Given(o)
  <2>1. at[o] \in 0..Len(argv) /\ LastUse(o, cnt, at[o])
    BY DEF ParserInv, ParserTypeOK, Parsed, FieldsBefore
  <2> QED BY <2>1, LastUseIsGiven DEF ParserInv
<1>4. ASSUME NEW o \in NumberOptions PROVE number[o] = NumberFrom(o, Given(o))
  <2>1. PICK q \in 0..Len(argv) : LastUse(o, cnt, q) /\ number[o] = NumberFrom(o, q)
    BY DEF ParserInv, Parsed, FieldsBefore
  <2>2. q = Given(o)
    BY <2>1, LastUseIsGiven DEF ParserInv
  <2> QED BY <2>1, <2>2
<1>5. ASSUME program = "client" PROVE address = Given("-da")
  <2>1. "-da" \in AddressOptions
    BY <1>5 DEF AddressOptions
  <2>2. address \in 0..Len(argv) /\ LastUse("-da", cnt, address)
    BY <2>1 DEF ParserInv, ParserTypeOK, Parsed, FieldsBefore
  <2> QED BY <2>2, LastUseIsGiven DEF ParserInv
<1> QED BY <1>1, <1>2, <1>3, <1>4, <1>5

LEMMA FindsPlugin ==
  ASSUME ParserInv, cnt > Len(argv), NEW sort, NEW o \in PositionOptions
  PROVE  Finds(sort, o) <=> Plugin(sort, o)
<1>1. "-L" \in PositionOptions
  BY DEF PositionOptions
<1>2. at[o] = Given(o) /\ at["-L"] = Given("-L")
  BY <1>1, FieldsGiven
<1> QED BY <1>2 DEF Finds, FoundIn, Plugin

\* How many checks there are.
LEMMA ClientChecksAre == DOMAIN ClientChecks = 1..7
  BY DEF ClientChecks

LEMMA ServerChecksAre == DOMAIN ServerChecks = 1..5
  BY DEF ServerChecks

\* What the checks after the loop test is what the line has to have.
LEMMA ClientComplete ==
  ASSUME ParserInv, cnt > Len(argv), program = "client"
  PROVE  Complete <=> \A i \in DOMAIN ClientChecks : ClientChecks[i].holds
<1>1. {"-dn", "-cn", "-pn"} \subseteq PositionOptions /\ {"-n", "-dp"} \subseteq NumberOptions
  BY DEF PositionOptions, NumberOptions
<1>2. /\ at["-dn"] = Given("-dn") /\ at["-cn"] = Given("-cn") /\ at["-pn"] = Given("-pn")
      /\ number["-n"] = NumberFrom("-n", Given("-n"))
      /\ number["-dp"] = NumberFrom("-dp", Given("-dp"))
      /\ address = Given("-da")
  BY <1>1, FieldsGiven
<1>3. /\ Finds("protocol", "-dn") <=> Plugin("protocol", "-dn")
      /\ Finds("client", "-cn") <=> Plugin("client", "-cn")
      /\ Finds("payload", "-pn") <=> Plugin("payload", "-pn")
  BY <1>1, FindsPlugin
<1>4. (number["-n"] >= 1) <=> (Given("-n") # 0 => Positive("-n"))
  BY <1>2, NumberTypes DEF NumberFrom, Positive
<1>5. (number["-dp"] > 0) <=> Positive("-dp")
  BY <1>2, NumberTypes DEF NumberFrom, Positive
<1>6. (\A i \in DOMAIN ClientChecks : ClientChecks[i].holds) <=>
        /\ at["-dn"] # 0 /\ at["-cn"] # 0 /\ at["-pn"] # 0
        /\ number["-n"] >= 1
        /\ Finds("protocol", "-dn") /\ Finds("client", "-cn") /\ Finds("payload", "-pn")
        /\ number["-dp"] > 0
        /\ address # 0
  <2>1. DOMAIN ClientChecks = 1..7
    BY ClientChecksAre
  <2>2. /\ ClientChecks[1].holds <=> at["-dn"] # 0 /\ at["-cn"] # 0 /\ at["-pn"] # 0
        /\ ClientChecks[2].holds <=> number["-n"] >= 1
        /\ ClientChecks[3].holds <=> Finds("protocol", "-dn")
        /\ ClientChecks[4].holds <=> Finds("client", "-cn")
        /\ ClientChecks[5].holds <=> Finds("payload", "-pn")
        /\ ClientChecks[6].holds <=> number["-dp"] > 0
        /\ ClientChecks[7].holds <=> address # 0
    BY DEF ClientChecks, Check
  <2>3. \A i \in 1..7 : i = 1 \/ i = 2 \/ i = 3 \/ i = 4 \/ i = 5 \/ i = 6 \/ i = 7
    OBVIOUS
  <2> QED BY <2>1, <2>2, <2>3
<1>7. Complete <=>
        /\ Plugin("protocol", "-dn") /\ Plugin("client", "-cn") /\ Plugin("payload", "-pn")
        /\ Given("-n") # 0 => Positive("-n")
        /\ Positive("-dp") /\ Given("-da") # 0
  BY DEF Complete
<1>8. \A sort, o : Plugin(sort, o) => Given(o) # 0
  BY DEF Plugin
<1> QED BY <1>2, <1>3, <1>4, <1>5, <1>6, <1>7, <1>8

LEMMA ServerComplete ==
  ASSUME ParserInv, cnt > Len(argv), program = "server"
  PROVE  Complete <=> \A i \in DOMAIN ServerChecks : ServerChecks[i].holds
<1>1. {"-sn", "-rn"} \subseteq PositionOptions
  BY DEF PositionOptions
<1>2. at["-sn"] = Given("-sn") /\ at["-rn"] = Given("-rn")
  BY <1>1, FieldsGiven
<1>3. /\ Finds("server", "-sn") <=> Plugin("server", "-sn")
      /\ Finds("reply", "-rn") <=> Plugin("reply", "-rn")
  BY <1>1, FindsPlugin
<1>4. (entries # <<>>) <=> \E i \in Keys : argv[i] \notin Dashed
  <2>1. /\ entries \in Seq(Nat)
        /\ {entries[i] : i \in DOMAIN entries} = {i \in Keys : argv[i] \notin Dashed}
    BY FieldsGiven DEF ParserInv, Parsed, FieldsBefore, EntriesBefore
  <2>2. DOMAIN entries = {} <=> entries = <<>>
    BY <2>1
  <2> QED BY <2>1, <2>2
<1>5. (\A i \in DOMAIN ServerChecks : ServerChecks[i].holds) <=>
        /\ entries # <<>>
        /\ at["-sn"] # 0 /\ Finds("server", "-sn")
        /\ at["-rn"] # 0 /\ Finds("reply", "-rn")
  <2>1. DOMAIN ServerChecks = 1..5
    BY ServerChecksAre
  <2>2. /\ ServerChecks[1].holds <=> entries # <<>>
        /\ ServerChecks[2].holds <=> at["-sn"] # 0
        /\ ServerChecks[3].holds <=> Finds("server", "-sn")
        /\ ServerChecks[4].holds <=> at["-rn"] # 0
        /\ ServerChecks[5].holds <=> Finds("reply", "-rn")
    BY DEF ServerChecks, Check
  <2>3. \A i \in 1..5 : i = 1 \/ i = 2 \/ i = 3 \/ i = 4 \/ i = 5
    OBVIOUS
  <2> QED BY <2>1, <2>2, <2>3
<1>6. Complete <=>
        /\ Len(argv) >= 5
        /\ Plugin("server", "-sn") /\ Plugin("reply", "-rn")
        /\ \E i \in Keys : argv[i] \notin Dashed
  BY DEF Complete
<1>7. \A sort, o : Plugin(sort, o) => Given(o) # 0
  BY DEF Plugin
<1>8. ASSUME Given("-sn") # 0, Given("-rn") # 0, \E i \in Keys : argv[i] \notin Dashed
      PROVE  Len(argv) >= 5
  <2>1. PICK i \in Keys : argv[i] \notin Dashed
    BY <1>8
  <2>2. ASSUME NEW o \in {"-sn", "-rn"} PROVE \E j \in Uses(o) : TRUE
    BY <1>8, <2>2 DEF Given
  <2>3. PICK j \in Uses("-sn") : TRUE
    BY <2>2
  <2>4. PICK k \in Uses("-rn") : TRUE
    BY <2>2
  <2>5. i # j /\ i # k /\ j # k
    BY <2>1, <2>3, <2>4 DEF Uses
  <2>6. /\ i \in Nat /\ j \in Nat /\ k \in Nat /\ Len(argv) \in Nat
        /\ 1 <= i /\ i <= Len(argv) /\ i % 2 = 1
        /\ 1 <= j /\ j <= Len(argv) /\ j % 2 = 1
        /\ 1 <= k /\ k <= Len(argv) /\ k % 2 = 1
    BY <2>1, <2>3, <2>4 DEF Uses, Keys, ParserInv, ParserTypeOK
  <2> QED BY <2>5, <2>6
<1> QED BY <1>2, <1>3, <1>4, <1>5, <1>6, <1>7, <1>8

\* The first check that does not hold is there, and names an error.
LEMMA FirstBadCheck ==
  ASSUME NEW checks \in {ClientChecks, ServerChecks},
         NEW bad, bad = {i \in DOMAIN checks : ~checks[i].holds}, bad # {}
  PROVE  checks[Min(bad)].error \in Errors
<1>1. DOMAIN checks \subseteq 1..7
  BY ClientChecksAre, ServerChecksAre
<1>2. Min(bad) \in DOMAIN checks
  <2>1. bad \in SUBSET (1..7) /\ bad \subseteq DOMAIN checks
    BY <1>1
  <2> QED BY <2>1, MinOfFew
<1>3. \A i \in DOMAIN checks : checks[i].error \in Errors
  <2>1. CASE checks = ClientChecks
    <3>1. DOMAIN ClientChecks = 1..7
      BY ClientChecksAre
    <3>2. /\ ClientChecks[1].error = "names" /\ ClientChecks[2].error = "clients"
          /\ ClientChecks[3].error = "protocol" /\ ClientChecks[4].error = "client"
          /\ ClientChecks[5].error = "payload" /\ ClientChecks[6].error = "port"
          /\ ClientChecks[7].error = "address"
      BY DEF ClientChecks, Check
    <3>3. \A i \in 1..7 : i = 1 \/ i = 2 \/ i = 3 \/ i = 4 \/ i = 5 \/ i = 6 \/ i = 7
      OBVIOUS
    <3> QED BY <2>1, <3>1, <3>2, <3>3 DEF Errors
  <2>2. CASE checks = ServerChecks
    <3>1. DOMAIN ServerChecks = 1..5
      BY ServerChecksAre
    <3>2. /\ ServerChecks[1].error = "entries" /\ ServerChecks[2].error = "server name"
          /\ ServerChecks[3].error = "server" /\ ServerChecks[4].error = "reply name"
          /\ ServerChecks[5].error = "reply"
      BY DEF ServerChecks, Check
    <3>3. \A i \in 1..5 : i = 1 \/ i = 2 \/ i = 3 \/ i = 4 \/ i = 5
      OBVIOUS
    <3> QED BY <2>2, <3>1, <3>2, <3>3 DEF Errors
  <2> QED BY <2>1, <2>2
<1> QED BY <1>2, <1>3

LEMMA ConcludesInv ==
  ASSUME ParserInv, Concludes
  PROVE  ParserInv'
<1> DEFINE checks == IF program = "client" THEN ClientChecks ELSE ServerChecks
           bad == {i \in DOMAIN checks : ~checks[i].holds}
<1>1. cnt > Len(argv)
  BY DEF Concludes
<1>2. Ends(IF bad = {} THEN "ok" ELSE checks[Min(bad)].error)
  BY DEF Concludes
<1>3. Complete <=> bad = {}
  <2>1. program \in {"client", "server"}
    BY DEF ParserInv, ParserTypeOK
  <2>2. Complete <=> \A i \in DOMAIN checks : checks[i].holds
    BY <1>1, <2>1, ClientComplete, ServerComplete
  <2> QED BY <2>2
<1>4. Describes <=> bad = {}
  BY <1>1, <1>3, FieldsGiven DEF Describes
<1>5. bad # {} => checks[Min(bad)].error \in Errors
  <2>1. checks \in {ClientChecks, ServerChecks} /\ bad = {i \in DOMAIN checks : ~checks[i].holds}
    OBVIOUS
  <2> HIDE DEF checks, bad
  <2> QED BY <2>1, FirstBadCheck
<1> HIDE DEF checks, bad
<1>6. CASE bad = {}
  <2>1. Ends("ok")
    BY <1>2, <1>6
  <2> QED BY <1>1, <1>4, <1>6, <2>1, EndsInv DEF Errors
<1>7. CASE bad # {}
  <2>1. PICK result \in Errors : Ends(result)
    BY <1>2, <1>5, <1>7
  <2>2. result \notin {"ok", "start"}
    BY DEF Errors
  <2> QED BY <1>4, <1>7, <2>1, <2>2, EndsInv
<1> QED BY <1>6, <1>7

-----------------------------------------------------------------------------
LEMMA ParserInitInv == ParserInit => ParserInv
<1> SUFFICES ASSUME ParserInit PROVE ParserInv
  OBVIOUS
<1>1. program \in {"client", "server"} /\ argv \in Seq(STRING) /\ Len(argv) \in Nat
  BY CommandLineAssumption DEF ParserInit
<1>2. ParserTypeOK
  BY <1>1 DEF ParserInit, ParserTypeOK
<1>3. Before(1) = {}
  BY DEF Before, Keys
<1>4. \A o : LastUse(o, 1, 0)
  BY <1>3 DEF LastUse
<1>5. FieldsBefore(1)
  <2>1. EntriesBefore(1)
    BY <1>3 DEF EntriesBefore, ParserInit
  <2>2. \A o \in NumberOptions : number[o] = NumberFrom(o, 0) /\ 0 \in 0..Len(argv)
    BY <1>1 DEF ParserInit, NumberFrom
  <2> QED BY <1>4, <2>1, <2>2 DEF FieldsBefore, ParserInit
<1>6. PairsBefore(1)
  BY <1>3 DEF PairsBefore
<1> QED BY <1>2, <1>5, <1>6 DEF ParserInv, Parsed, ParserInit, Errors

LEMMA ParserNextInv == ParserInv /\ [ParserNext]_parserVars => ParserInv'
<1> SUFFICES ASSUME ParserInv, [ParserNext]_parserVars PROVE ParserInv'
  OBVIOUS
<1>1. CASE UNCHANGED parserVars
  <2>1. Ends(outcome)
    BY <1>1 DEF parserVars, Ends
  <2> QED BY <2>1, EndsInv DEF ParserInv, ParserTypeOK, Parsed
<1> QED
  BY <1>1, StartsInv, TakesPositionInv, TakesNumberInv, TakesAddressInv, TakesEntryInv,
     RefusesInv, ConcludesInv DEF ParserNext

\* The strengthened invariant: what the parsers have read, they have read as
\* help() describes it, and the fields hold what the pairs so far say.
THEOREM ParserInvariance == ParserSpec => []ParserInv
  BY ParserInitInv, ParserNextInv, PTL DEF ParserSpec

\* The loop never reads beyond the line, and every position that the parsers
\* keep is one of the line.
THEOREM ParserTypeCorrect == ParserSpec => []ParserTypeOK
<1>1. ParserInv => ParserTypeOK
  BY DEF ParserInv
<1> QED BY <1>1, ParserInvariance, PTL

\* For every command line: the program goes on exactly when the line is a
\* list of known options with their values and has all that is needed.
THEOREM AcceptsExactlyHolds == ParserSpec => []AcceptsExactly
<1>1. ParserInv => AcceptsExactly
  BY DEF ParserInv, ParserTypeOK, Parsed, AcceptsExactly, Describes, Errors
<1> QED BY <1>1, ParserInvariance, PTL

\* For every command line that is accepted: the last of several equal
\* options counts, the others keep their defaults, and the server's entries
\* are its pairs, each once and in their order.
THEOREM OptionsAsGivenHolds == ParserSpec => []OptionsAsGiven
<1>1. ParserInv => OptionsAsGiven
  <2> SUFFICES ASSUME ParserInv, outcome = "ok" PROVE OptionsAsGiven
    BY DEF OptionsAsGiven
  <2>1. cnt > Len(argv)
    BY DEF ParserInv, Parsed
  <2>2. EntriesBefore(cnt)
    BY DEF ParserInv, Parsed, FieldsBefore
  <2> QED BY <2>1, <2>2, FieldsGiven DEF OptionsAsGiven, EntriesBefore, NumberFrom
<1> QED BY <1>1, ParserInvariance, PTL
=============================================================================
