------------------------------- MODULE Payload -------------------------------
(***************************************************************************)
(* The payload plug-ins (payload/fixed, payload/increasing and             *)
(* payload/random): one handle, and the worker threads that get packets    *)
(* from it.  A handle keeps the packet it made last and hands the same     *)
(* buffer out again until it has been used often enough; ReleasePayload    *)
(* does nothing.                                                           *)
(*                                                                         *)
(* fixed_client gives each worker a handle of its own when there are as    *)
(* many payloads as workers, and shares them out when there are fewer.     *)
(* Each call is one step: the plug-ins have no lock, and calls of two      *)
(* workers that overlap can only add to what goes wrong when they share.   *)
(***************************************************************************)
EXTENDS Integers

CONSTANTS
  Workers,    \* the workers that use the handle
  Kinds,      \* the plug-ins: "fixed", "increasing", "random"
  Mins, Maxs, Increments, Times,  \* arguments of InitializePayload
  Word,       \* 2^32: sizes are unsigned
  HeaderLen,  \* sizeof( struct payload_header ), 8 in the program
  RandMax,    \* RAND_MAX
  LeftOver,   \* what the uninitialised size in a worker's Run() may hold
  MaxCalls    \* calls is not counted any further

ASSUME PayloadAssumption ==
  /\ Word \in Nat \ {0}
  /\ HeaderLen \in Nat \ {0} /\ RandMax \in Nat
  /\ MaxCalls \in Nat \ {0}
  /\ Kinds \subseteq {"fixed", "increasing", "random"}
  /\ LeftOver \subseteq 0..(Word - 1)
  /\ Mins \cup Maxs \cup Increments \cup Times \subseteq 0..(Word - 1)

VARIABLES
  kind, config,  \* the plug-in, and the arguments it was initialised with
  buf,       \* size of the packet in oldpayload (data in payload/fixed)
  sequence,  \* payload_stuff::sequence
  cur,       \* payload_stuff::cur_size
  held,      \* what each worker's buf points to
  told,      \* the size variable of each worker's Run(), which keeps its place
             \* on the stack, and what it holds, from one turn to the next
  calls,     \* packets handed out since the start or a reset, see MaxCalls
  uses       \* how many of them were the buffer that exists now

handleVars == <<buf, sequence, cur>>
workerVars == <<held, told>>
counters == <<calls, uses>>
vars == <<kind, config, handleVars, workerVars, counters>>

Sizes == 0..(Word - 1)
NoBuffer == -1
Configs == [min : Mins, max : Maxs, increment : Increments, time : Times]

TypeOK ==
  /\ kind \in Kinds /\ config \in Configs
  /\ buf \in Sizes \cup {NoBuffer}
  /\ sequence \in Nat
  /\ cur \in Sizes
  /\ held \in [Workers -> {"none", "current", "freed"}]
  /\ told \in [Workers -> Sizes]
  /\ calls \in 0..MaxCalls
  /\ uses \in Nat

\* Mutant of Accepted: the minimum is not looked at.
AcceptedByMaximum(k, c) == c.max >= HeaderLen

\* The arguments InitializePayload does not refuse.
Accepted(k, c) ==
  /\ c.max >= HeaderLen
  /\ k # "fixed" => c.min >= HeaderLen
  /\ k = "random" => c.max <= RandMax

\* An increment of zero becomes one.
Step == IF config.increment = 0 THEN 1 ELSE config.increment

Init ==
  /\ kind \in Kinds /\ config \in Configs /\ Accepted(kind, config)
  /\ buf = NoBuffer /\ sequence = 0 /\ cur = config.min
  /\ held = [w \in Workers |-> "none"]
  /\ told \in [Workers -> LeftOver]
  /\ calls = 0 /\ uses = 0

-----------------------------------------------------------------------------
\* Mutant of Reusable: the sequence is tested before it is incremented.
ReusableOnceMore ==
  buf # NoBuffer /\ (kind = "fixed" \/ sequence < config.time)

\* The old packet is handed out again.
Reusable == buf # NoBuffer /\ (kind = "fixed" \/ sequence + 1 < config.time)

\* cur_size += increment, as unsigned numbers, up to the maximum.
Grown ==
  LET sum == (cur + Step) % Word
  IN  IF sum > config.max THEN config.max ELSE sum

\* max_size-min_size, unsigned, in payload/random.
Spread == (config.max - config.min) % Word

\* The sizes of a new packet.  payload/random returns NULL when the range
\* is zero, and scales random() to any number up to the range, included.
NewSizes ==
  CASE kind = "fixed"      -> {config.max}
    [] kind = "increasing" -> IF buf = NoBuffer THEN {cur} ELSE {Grown}
    [] kind = "random"     ->
         IF Spread = 0 THEN {} ELSE {(config.min + d) % Word : d \in 0..Spread}

Counted == calls' = IF calls < MaxCalls THEN calls + 1 ELSE calls

\* GetPayload with a packet that may be used again: only payload/fixed
\* stores the size for the caller.
GetsOldPacket(w) ==
  /\ held[w] = "none" /\ Reusable
  /\ held' = [held EXCEPT ![w] = "current"]
  /\ told' = IF kind = "fixed" THEN [told EXCEPT ![w] = buf] ELSE told
  /\ sequence' = IF kind = "fixed" THEN sequence ELSE sequence + 1
  /\ uses' = IF kind = "fixed" THEN uses ELSE uses + 1
  /\ Counted
  /\ UNCHANGED <<kind, config, buf, cur>>

\* The buffer of the handle is deleted, whoever holds it.
Dangling(v) == IF held[v] = "current" THEN "freed" ELSE held[v]

\* Mutant of GetsNewPacket: the size is stored before the packet grows.
GetsNewPacketToldOld(w) ==
  /\ held[w] = "none" /\ ~Reusable
  /\ \E size \in NewSizes :
       /\ buf' = size
       /\ told' = [told EXCEPT ![w] = cur]
       /\ cur' = IF kind = "increasing" THEN size ELSE cur
  /\ held' = [v \in Workers |-> IF v = w THEN "current" ELSE Dangling(v)]
  /\ sequence' = 0 /\ uses' = 1
  /\ Counted
  /\ UNCHANGED <<kind, config>>

\* GetPayload deletes the old packet and makes a new one.
GetsNewPacket(w) ==
  /\ held[w] = "none" /\ ~Reusable
  /\ \E size \in NewSizes :
       /\ buf' = size
       /\ told' = [told EXCEPT ![w] = size]
       /\ cur' = IF kind = "increasing" THEN size ELSE cur
  /\ held' = [v \in Workers |-> IF v = w THEN "current" ELSE Dangling(v)]
  /\ sequence' = 0 /\ uses' = 1
  /\ Counted
  /\ UNCHANGED <<kind, config>>

\* GetPayload returns NULL, and the worker tries again at once.
GetsNothing(w) == held[w] = "none" /\ ~Reusable /\ NewSizes = {} /\ UNCHANGED vars

\* SendConnectionData reads told[w] bytes of the packet; then ReleasePayload.
Sends(w) ==
  /\ held[w] # "none"
  /\ held' = [held EXCEPT ![w] = "none"]
  /\ UNCHANGED <<kind, config, handleVars, told, counters>>

\* Mutant of Reset: the packet is deleted, the size goes on from where it was.
ResetKeepsSize ==
  /\ \A w \in Workers : held[w] = "none"
  /\ buf' = NoBuffer /\ sequence' = 0 /\ calls' = 0 /\ uses' = 0
  /\ UNCHANGED <<kind, config, cur, workerVars>>

\* ResetPayloadSequence, while the client is stopped; nothing to do in
\* payload/fixed, whose packet stays.
Reset ==
  /\ \A w \in Workers : held[w] = "none"
  /\ IF kind = "fixed"
     THEN UNCHANGED <<handleVars, uses>>
     ELSE buf' = NoBuffer /\ sequence' = 0 /\ cur' = config.min /\ uses' = 0
  /\ calls' = 0
  /\ UNCHANGED <<kind, config, workerVars>>

GetPayload(w) == GetsOldPacket(w) \/ GetsNewPacket(w) \/ GetsNothing(w)

Next == Reset \/ \E w \in Workers : GetPayload(w) \/ Sends(w)

\* Every worker is a thread that goes on.
Fairness == \A w \in Workers : WF_vars(GetPayload(w)) /\ WF_vars(Sends(w))

Spec == Init /\ [][Next]_vars /\ Fairness

-----------------------------------------------------------------------------
(***************************************************************************)
(* Properties                                                              *)
(***************************************************************************)

\* The arguments with which unsigned sizes do not wrap, and, for the random
\* payload, the range is not negative.
NoWrap ==
  CASE kind = "fixed"      -> TRUE
    [] kind = "increasing" -> config.min + Step < Word /\ config.max + Step < Word
    [] kind = "random"     -> config.min <= config.max

\* A packet has room for the header that GetPayload writes into it.
HeaderFits == NoWrap /\ buf # NoBuffer => buf >= HeaderLen

\* What a worker sends is the packet it got, which nobody has deleted, and
\* all of it.  GetPayload tells its size only when it makes the packet: the
\* worker's own variable has to remember it.
SendsItsPacket ==
  \A w \in Workers : held[w] # "none" => held[w] = "current" /\ told[w] = buf

\* The size the documentation of each payload promises for the calls-th
\* packet after the start or a reset: the maximum; a ramp from minimum to
\* maximum with Times packets of each size; anything in the range.
Often == IF config.time = 0 THEN 1 ELSE config.time
Documented(size) ==
  CASE kind = "fixed"      -> size = config.max
    [] kind = "increasing" ->
         LET ramp == config.min + Step * ((calls - 1) \div Often)
         IN  size = IF ramp > config.max THEN config.max ELSE ramp
    [] kind = "random"     -> size \in config.min..config.max

SizeAsDocumented ==
  NoWrap /\ (kind = "fixed" \/ config.min <= config.max) /\ calls > 0 /\ buf # NoBuffer => Documented(buf)

\* MaxCalls is large enough: calls stops counting only after every ramp has
\* reached its maximum.
RampsEnd ==
  \A c \in Configs :
    LET step == IF c.increment = 0 THEN 1 ELSE c.increment
        often == IF c.time = 0 THEN 1 ELSE c.time
    IN  c.min + step * ((MaxCalls - 1) \div often) >= c.max

\* The increasing and the random payload replace a packet after it was used
\* time times, not earlier or later.
Replaced ==
  kind # "fixed" /\ uses # 0 /\ uses' = 1 /\ \E w \in Workers : held[w] = "none" /\ held'[w] # "none"

UsedTimeTimes == [][Replaced => uses = Often]_vars
=============================================================================
