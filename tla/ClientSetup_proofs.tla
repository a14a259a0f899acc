-------------------------- MODULE ClientSetup_proofs --------------------------
(***************************************************************************)
(* Proofs about set-up and clean-up of the client, for any number of       *)
(* connections and starts, all front ends and both protocol libraries.     *)
(***************************************************************************)
EXTENDS ClientSetup, TLAPS

Preparing == {"loadPayload", "payloads", "protocol", "connect", "again", "client", "running"}

\* The two numbers, and the failures so far.
NumbersFit ==
  /\ main \in Preparing => start >= 1 /\ numClients >= 1
  /\ front = "kylix" => clientMax = 0 \/ clientMax = numClients
  /\ front = "borland" => clientMax = 0 \/ clientMax >= numClients
  /\ main \in Preparing \ {"again"} => failed[start] = "none"
  /\ main = "again" => failed[start] = "connection"
  /\ \A s \in StartNumbers : s > start => failed[s] = "none"

\* Which of the three pointers are set.
HaveFits ==
  /\ main \in {"idle", "loadPayload", "payloads", "ended"} => have = {}
  /\ main \in {"protocol", "connect", "again"} => have = {"payload"}
  /\ main = "protocol" => cnt = 1
  /\ main = "client" => have = {"payload", "protocol"}
  /\ main = "freeConnections" => "payload" \notin have
  /\ main = "freeClient" => have \subseteq {"client"}

\* Payloads from the one cleanup is at.
FirstPayload == IF main = "freePayloads" THEN cnt ELSE 1

PayloadsLive ==
  /\ main = "payloads" =>
       /\ cnt <= numClients + 1 /\ This("payloadLibrary") \in live
       /\ \A j \in 1..(cnt - 1) : Nth("payload", j) \in live
  /\ "payload" \in have =>
       /\ This("payloadLibrary") \in live
       /\ \A j \in FirstPayload..numClients : Nth("payload", j) \in live

\* The deque holds the connections in the order they were made, from the one
\* cleanup is at.
FirstConnection == IF main = "freeConnections" THEN cnt ELSE 1

Deque(first, last) ==
  /\ Len(connections) = IF first <= last THEN last - first + 1 ELSE 0
  /\ \A i \in 1..Len(connections) : connections[i] = first + i - 1

ConnectionsLive ==
  /\ main = "connect" =>
       /\ cnt <= numClients + 1 /\ Deque(1, cnt - 1)
       /\ {This("protocolLibrary"), This("protocol")} \subseteq live
       /\ \A j \in 1..(cnt - 1) : Nth("socket", j) \in live
  /\ "protocol" \in have =>
       /\ Deque(FirstConnection, numClients)
       /\ {This("protocolLibrary"), This("protocol")} \subseteq live
       /\ \A j \in 1..numClients : Nth("socket", j) \in live

ClientLive ==
  "client" \in have => {This("clientLibrary"), This("client")} \subseteq live

\* What may be left of a start, as GivenBack has it.
Left(o) ==
  \/ o[1] = "socket"
  \/ o[1] = "payloadLibrary" /\ failed[o[2]] = "payload"
  \/ o[1] = "protocol" /\ front = "kylix" /\ failed[o[2]] = "connection"

\* What the start under way has and will give back.
Owned(o) ==
  /\ o[2] = start
  /\ \/ o[1] = "payloadLibrary" /\ o[3] = 0 /\ (main = "payloads" \/ "payload" \in have)
     \/ o[1] = "payload" /\ main = "payloads"
     \/ o[1] = "payload" /\ "payload" \in have /\ FirstPayload <= o[3] /\ o[3] <= numClients
     \/ o[1] \in {"protocolLibrary", "protocol"} /\ o[3] = 0
          /\ (main \in {"connect", "again"} \/ "protocol" \in have)
     \/ o[1] \in {"clientLibrary", "client"} /\ o[3] = 0 /\ "client" \in have
     \/ o[1] = "network" /\ o[3] = 0
          /\ main \notin {"idle", "ended", "loadPayload", "payloads"}

NothingElse ==
  /\ \A o \in live : o[2] <= start
  /\ \A o \in live : Left(o) \/ Owned(o)
  /\ main = "payloads" => \A o \in live : o[1] = "payload" => 1 <= o[3] /\ o[3] < cnt

Sane == PayloadsLive /\ ConnectionsLive /\ ClientLive /\ NothingElse

IInv ==
  /\ TypeOK /\ SetUpSurvives
  /\ main \notin Wild => NumbersFit /\ HaveFits /\ Sane

-----------------------------------------------------------------------------
LEMMA TypeInit == Init => TypeOK
  BY ClientSetupAssumption DEF Init, TypeOK, StartNumbers, Entries, Places

\* Erasing the front leaves a deque.
\* Erasing the front leaves a deque.
LEMMA ErasesType ==
  ASSUME connections \in Seq(Entries), NEW i, Erases(i)
  PROVE  connections' \in Seq(Entries)
<1>1. CASE i \in InDeque
  <2>1. connections # <<>> BY <1>1 DEF InDeque
  <2>2. Tail(connections) \in Seq(Entries) BY <2>1
  <2> QED BY <1>1, <2>2 DEF Erases
<1>2. CASE i \notin InDeque BY <1>2 DEF Erases
<1> QED BY <1>1, <1>2

\* Destroying the protocol leaves an empty deque.
LEMMA DestroysType ==
  ASSUME DestroysProtocol
  PROVE  live' \subseteq live /\ connections' \in Seq(Entries)
BY DEF DestroysProtocol

\* Objects of the start under way are objects.
LEMMA ObjectType ==
  ASSUME TypeOK, start >= 1, NEW kind \in Kinds
  PROVE  /\ This(kind) \in Objects
         /\ \A i \in 0..MaxClients : Nth(kind, i) \in Objects
BY ClientSetupAssumption, Z3 DEF Objects, TypeOK, StartNumbers, This, Nth

Typed == TypeOK /\ (main \in Preparing => start >= 1 /\ numClients >= 1)

\* Going on keeps the types, when the place is one.
LEMMA TypedSetup == Typed /\ Setup => Typed'
<1> SUFFICES ASSUME Typed, Setup PROVE Typed' OBVIOUS
<1> USE ClientSetupAssumption DEF Typed, TypeOK, numbers, Preparing, Places, Wild
<1>0. \A kind \in Kinds : start >= 1 =>
        /\ This(kind) \in Objects
        /\ \A i \in 0..MaxClients : Nth(kind, i) \in Objects
  BY ObjectType
<1>2. CASE Start
  BY <1>2 DEF Start
<1>3. CASE LoadPayload
  <2>1. This("payloadLibrary") \in Objects
    BY <1>0, <1>3 DEF LoadPayload, Kinds
  <2> QED BY <1>3, <2>1 DEF LoadPayload, Goes, GiveUp
<1>4. CASE InitializePayload
  <2>1. Nth("payload", cnt) \in Objects
    BY <1>0, <1>4 DEF InitializePayload, Kinds
  <2> QED BY <1>4, <2>1 DEF InitializePayload, Goes
<1>5. CASE PayloadRefused
  BY <1>5 DEF PayloadRefused, Goes, GiveUp, Fails
<1>6. CASE PayloadsReady
  <2>1. This("network") \in Objects
    BY <1>0, <1>6 DEF PayloadsReady, Kinds
  <2> QED BY <1>6, <2>1 DEF PayloadsReady, Goes
<1>7. CASE LoadProtocol
  <2>1. {This("protocolLibrary"), This("protocol")} \subseteq Objects
    BY <1>0, <1>7 DEF LoadProtocol, Kinds
  <2>2. CASE CleansUp /\ UNCHANGED <<connections, live>>
    BY <1>7, <2>2 DEF LoadProtocol, CleansUp, GiveUp
  <2>3. CASE /\ Goes("connect") /\ UNCHANGED cnt /\ connections' = <<>>
             /\ live' = live \cup {This("protocolLibrary"), This("protocol")}
    <3>1. live' \subseteq Objects /\ connections' \in Seq(Entries) BY <2>1, <2>3
    <3>2. UNCHANGED <<numbers, after, start, cnt, failed, have>> /\ main = "protocol" /\ main' = "connect"
      BY <1>7, <2>3 DEF LoadProtocol, Goes
    <3> QED BY <3>1, <3>2
  <2> QED BY <1>7, <2>2, <2>3 DEF LoadProtocol
<1>8. CASE CreateConnection
  <2>1. Nth("socket", cnt) \in Objects /\ cnt \in Entries
    BY <1>0, <1>8 DEF CreateConnection, Kinds, Entries
  <2> QED BY <1>8, <2>1 DEF CreateConnection, Goes
<1>9. CASE KylixConnectionFails
  <2>1. live' \subseteq Objects BY <1>9 DEF KylixConnectionFails
  <2>2. failed' \in [StartNumbers -> {"none", "payload", "connection"}]
    BY <1>9 DEF KylixConnectionFails, Fails
  <2>3. UNCHANGED <<numbers, start, have, connections>> /\ main' = "freePayloads" /\ after' \in {"idle", "ended"} /\ cnt' = 1
    BY <1>9 DEF KylixConnectionFails, CleansUp, GiveUp
  <2> QED BY <2>1, <2>2, <2>3
<1>10. CASE FirstConnectionFails
  <2>1. live' \subseteq Objects /\ connections' \in Seq(Entries)
    BY <1>10, DestroysType DEF FirstConnectionFails
  <2>2. failed' \in [StartNumbers -> {"none", "payload", "connection"}]
    BY <1>10 DEF FirstConnectionFails, Fails
  <2>3. UNCHANGED <<numbers, start, have>> /\ main' = "freePayloads" /\ after' \in {"idle", "ended"} /\ cnt' = 1
    BY <1>10 DEF FirstConnectionFails, CleansUp, GiveUp
  <2> QED BY <2>1, <2>2, <2>3
<1>11. CASE LaterConnectionFails
  BY <1>11 DEF LaterConnectionFails, Goes, Fails
<1>12. CASE ConnectionsReady
  BY <1>12 DEF ConnectionsReady, Goes
<1>13. CASE LoadClient
  <2>1. {This("clientLibrary"), This("client")} \subseteq Objects
    BY <1>0, <1>13 DEF LoadClient, Kinds
  <2>2. CASE CleansUp /\ UNCHANGED <<have, live>>
    BY <1>13, <2>2 DEF LoadClient, CleansUp, GiveUp
  <2>3. CASE ~(CleansUp /\ UNCHANGED <<have, live>>)
    <3>1. live' \subseteq Objects BY <1>13, <2>1, <2>3 DEF LoadClient
    <3>2. /\ UNCHANGED <<numbers, after, start, cnt, failed, connections>>
          /\ main = "client" /\ main' = "running" /\ have' = have \cup {"client"}
      BY <1>13, <2>3 DEF LoadClient, Goes
    <3> QED BY <3>1, <3>2
  <2> QED BY <2>2, <2>3
<1> QED BY <1>2, <1>3, <1>4, <1>5, <1>6, <1>7, <1>8, <1>9, <1>10, <1>11, <1>12, <1>13 DEF Setup

LEMMA TypedNext == Typed /\ [Next]_vars => Typed'
<1> SUFFICES ASSUME Typed, [Next]_vars PROVE Typed' OBVIOUS
<1>1. CASE Setup BY <1>1, TypedSetup
<1> USE ClientSetupAssumption DEF Typed, TypeOK, numbers, Preparing, Places, Wild
<1>2. CASE Edit
  BY <1>2 DEF Edit, EditPayload, KylixEditConnections, BorlandEditConnections, EditMaximum, AtRest
<1>3. CASE DestroyFirstAgain
  <2>1. connections' \in Seq(Entries) BY <1>3, ErasesType DEF DestroyFirstAgain
  <2> QED BY <1>3, <2>1 DEF DestroyFirstAgain
<1>4. CASE LoopOverflows
  <2>1. live' \subseteq Objects /\ connections' \in Seq(Entries)
    BY <1>4, DestroysType DEF LoopOverflows
  <2> QED BY <1>4, <2>1 DEF LoopOverflows, CleansUp, GiveUp, Goes
<1>5. CASE ENTERorStop
  BY <1>5 DEF ENTERorStop, CleansUp, GiveUp
<1>6. CASE FormClose
  BY <1>6 DEF FormClose
<1>7. CASE FreePayload
  BY <1>7 DEF FreePayload, Goes
<1>8. CASE FreePayloadLibrary
  BY <1>8 DEF FreePayloadLibrary, Goes
<1>9. CASE FreeConnection
  <2>1. connections' \in Seq(Entries) BY <1>9, ErasesType DEF FreeConnection
  <2> QED BY <1>9, <2>1 DEF FreeConnection, Goes
<1>10. CASE FreePastArray
  BY <1>10 DEF FreePastArray, Goes, ConnectionsToFree
<1>11. CASE FreeProtocol
  <2>1. live' \subseteq Objects /\ connections' \in Seq(Entries)
    BY <1>11, DestroysType DEF FreeProtocol
  <2>2. UNCHANGED <<numbers, after, start, cnt, failed>> /\ main' \in {"freeClient", "wildFront"}
    BY <1>11 DEF FreeProtocol, Goes
  <2>3. have' = have \ {"protocol"} BY <1>11 DEF FreeProtocol
  <2> QED BY <2>1, <2>2, <2>3
<1>12. CASE FreeClient
  BY <1>12 DEF FreeClient
<1>13. CASE UNCHANGED vars
  BY <1>13 DEF vars
<1> QED BY <1>1, <1>2, <1>3, <1>4, <1>5, <1>6, <1>7, <1>8, <1>9, <1>10, <1>11, <1>12, <1>13
  DEF Next, Cleanup

\* Within one start the names of objects stay.
LEMMA SameStart ==
  ASSUME UNCHANGED start
  PROVE  (\A kind : This(kind)' = This(kind)) /\ (\A kind, i : Nth(kind, i)' = Nth(kind, i))
BY DEF This, Nth

LEMMA ObjectNamed ==
  ASSUME NEW o \in Objects, o[2] = start
  PROVE  o = Nth(o[1], o[3])
BY DEF Objects, Nth

LEMMA EditInvariant ==
  ASSUME IInv, TypeOK, TypeOK', Edit
  PROVE  IInv'
<1> USE ClientSetupAssumption DEF TypeOK, numbers, Places, Wild
<1>0. main \notin Wild /\ NumbersFit /\ HaveFits /\ PayloadsLive /\ ConnectionsLive /\ ClientLive /\ NothingElse
  BY DEF IInv, Sane, Edit, EditPayload, KylixEditConnections, BorlandEditConnections, EditMaximum, AtRest, IsForm
<1>1. NumbersFit'
  BY <1>0 DEF Edit, EditPayload, KylixEditConnections, BorlandEditConnections, EditMaximum, AtRest, IsForm, NumbersFit, Preparing, StartNumbers
<1>2. HaveFits'
  BY <1>0 DEF Edit, EditPayload, KylixEditConnections, BorlandEditConnections, EditMaximum, AtRest, IsForm, HaveFits
<1>3. SetUpSurvives'
  BY <1>0 DEF Edit, EditPayload, KylixEditConnections, BorlandEditConnections, EditMaximum, AtRest, IsForm, SetUpSurvives, NumbersFit, Preparing
<1>4. PayloadsLive'
  BY <1>0 DEF Edit, EditPayload, KylixEditConnections, BorlandEditConnections, EditMaximum, AtRest, IsForm, PayloadsLive, HaveFits, FirstPayload, This, Nth
<1>5. ConnectionsLive'
  BY <1>0 DEF Edit, EditPayload, KylixEditConnections, BorlandEditConnections, EditMaximum, AtRest, IsForm, ConnectionsLive, HaveFits, FirstConnection, Deque, This, Nth
<1>6. ClientLive'
  BY <1>0 DEF Edit, EditPayload, KylixEditConnections, BorlandEditConnections, EditMaximum, AtRest, IsForm, ClientLive, HaveFits, This
<1>7. NothingElse'
  BY <1>0 DEF Edit, EditPayload, KylixEditConnections, BorlandEditConnections, EditMaximum, AtRest, IsForm, NothingElse, NumbersFit, Preparing, HaveFits, Left, Owned, FirstPayload, This, Nth
<1> QED BY <1>1, <1>2, <1>3, <1>4, <1>5, <1>6, <1>7 DEF IInv, Sane

LEMMA StartInvariant ==
  ASSUME IInv, TypeOK, TypeOK', Start
  PROVE  IInv'
<1> USE ClientSetupAssumption DEF TypeOK, numbers, Places, Wild
<1>0. main \notin Wild /\ NumbersFit /\ HaveFits /\ PayloadsLive /\ ConnectionsLive /\ ClientLive /\ NothingElse
  BY DEF IInv, Sane, Start
<1>1. NumbersFit'
  <2>1. start' = start + 1 /\ start + 1 \in StartNumbers /\ numClients' >= 1 /\ main' = "loadPayload" /\ main = "idle"
    BY <1>0 DEF Start, StartNumbers
  <2>2. failed' = failed /\ UNCHANGED numbers BY DEF Start
  <2>3. failed'[start'] = "none" BY <1>0, <2>1, <2>2 DEF NumbersFit, StartNumbers
  <2> QED BY <1>0, <2>1, <2>2, <2>3 DEF NumbersFit, Preparing, StartNumbers
<1>2. HaveFits'
  BY <1>0 DEF Start, HaveFits
<1>3. SetUpSurvives'
  BY <1>0 DEF Start, SetUpSurvives, NumbersFit, Preparing
<1>4. PayloadsLive'
  BY <1>0 DEF Start, PayloadsLive, HaveFits, FirstPayload, This, Nth
<1>5. ConnectionsLive'
  BY <1>0 DEF Start, ConnectionsLive, HaveFits, FirstConnection, Deque, This, Nth
<1>6. ClientLive'
  BY <1>0 DEF Start, ClientLive, HaveFits, This
<1>7. NothingElse'
  <2>1. main = "idle" /\ main' = "loadPayload" /\ start' = start + 1 /\ have = {}
    BY <1>0 DEF Start, HaveFits
  <2>2. UNCHANGED <<live, failed, front>> BY DEF Start
  <2>3. \A o \in live : Left(o)
    BY <1>0, <2>1 DEF NothingElse, Owned
  <2>4. \A o \in live : Left(o)' BY <2>2, <2>3 DEF Left
  <2>5. \A o \in live : o[2] <= start + 1
    BY <1>0 DEF NothingElse, Objects, StartNumbers
  <2> QED BY <2>1, <2>2, <2>4, <2>5 DEF NothingElse
<1> QED BY <1>1, <1>2, <1>3, <1>4, <1>5, <1>6, <1>7 DEF IInv, Sane

LEMMA LoadPayloadInvariant ==
  ASSUME IInv, TypeOK, TypeOK', LoadPayload
  PROVE  IInv'
<1> USE ClientSetupAssumption DEF TypeOK, numbers, Places, Wild
<1>0. main \notin Wild /\ NumbersFit /\ HaveFits /\ PayloadsLive /\ ConnectionsLive /\ ClientLive /\ NothingElse
  BY DEF IInv, Sane, LoadPayload, Goes, GiveUp
<1>1. NumbersFit'
  BY <1>0 DEF LoadPayload, Goes, GiveUp, NumbersFit, Preparing, StartNumbers
<1>2. HaveFits'
  BY <1>0 DEF LoadPayload, Goes, GiveUp, HaveFits
<1>3. SetUpSurvives'
  BY <1>0 DEF LoadPayload, Goes, GiveUp, SetUpSurvives, NumbersFit, Preparing
<1>4. PayloadsLive'
  <2>1. have' = {} /\ cnt' = 1 /\ UNCHANGED start BY <1>0 DEF LoadPayload, Goes, HaveFits
  <2>2. main' = "payloads" => This("payloadLibrary") \in live'
    BY <1>0 DEF LoadPayload, Goes, GiveUp
  <2>3. \A j \in 1..(cnt' - 1) : Nth("payload", j) \in live' BY <2>1
  <2>4. numClients' = numClients BY DEF LoadPayload, Goes
  <2>5. cnt' <= numClients' + 1 BY <2>1, <2>4
  <2> QED BY <2>1, <2>2, <2>3, <2>5, SameStart DEF PayloadsLive
<1>5. ConnectionsLive'
  BY <1>0 DEF LoadPayload, Goes, GiveUp, ConnectionsLive, HaveFits, FirstConnection, Deque, This, Nth
<1>6. ClientLive'
  BY <1>0 DEF LoadPayload, Goes, GiveUp, ClientLive, HaveFits, This
<1>7. NothingElse'
  BY <1>0 DEF LoadPayload, Goes, GiveUp, NothingElse, NumbersFit, Preparing, HaveFits, Left, Owned, FirstPayload, This, Nth
<1> QED BY <1>1, <1>2, <1>3, <1>4, <1>5, <1>6, <1>7 DEF IInv, Sane

LEMMA InitializePayloadInvariant ==
  ASSUME IInv, TypeOK, TypeOK', InitializePayload
  PROVE  IInv'
<1> USE ClientSetupAssumption DEF TypeOK, numbers, Places, Wild
<1>0. main \notin Wild /\ NumbersFit /\ HaveFits /\ PayloadsLive /\ ConnectionsLive /\ ClientLive /\ NothingElse
  BY DEF IInv, Sane, InitializePayload, Goes
<1>1. NumbersFit'
  BY <1>0 DEF InitializePayload, Goes, NumbersFit, Preparing, StartNumbers
<1>2. HaveFits'
  BY <1>0 DEF InitializePayload, Goes, HaveFits
<1>3. SetUpSurvives'
  BY <1>0 DEF InitializePayload, Goes, SetUpSurvives, NumbersFit, Preparing
<1>4. PayloadsLive'
  <2>1. /\ have' = {} /\ cnt' = cnt + 1 /\ UNCHANGED <<start, numClients>> /\ cnt <= numClients
        /\ main = "payloads" /\ live' = live \cup {Nth("payload", cnt)}
    BY <1>0 DEF InitializePayload, Goes, HaveFits
  <2>2. \A j \in 1..(cnt' - 1) : Nth("payload", j) \in live'
    BY <1>0, <2>1 DEF PayloadsLive
  <2>3. This("payloadLibrary") \in live' /\ cnt' <= numClients' + 1
    BY <1>0, <2>1 DEF PayloadsLive
  <2> QED BY <2>1, <2>2, <2>3, SameStart DEF PayloadsLive
<1>5. ConnectionsLive'
  BY <1>0 DEF InitializePayload, Goes, ConnectionsLive, HaveFits, FirstConnection, Deque, This, Nth
<1>6. ClientLive'
  BY <1>0 DEF InitializePayload, Goes, ClientLive, HaveFits, This
<1>7. NothingElse'
  <2>1. /\ have' = {} /\ have = {} /\ cnt' = cnt + 1 /\ UNCHANGED <<start, failed, front>> /\ main' = main
        /\ main = "payloads" /\ live' = live \cup {Nth("payload", cnt)}
    BY <1>0 DEF InitializePayload, Goes, HaveFits
  <2>2. ASSUME NEW o \in live
        PROVE  /\ o[2] <= start /\ (o[1] = "payload" => 1 <= o[3] /\ o[3] < cnt')
               /\ Left(o)' \/ Owned(o)'
    <3>1. o[3] \in 0..MaxClients BY DEF Objects
    <3>2. o[2] <= start /\ (o[1] = "payload" => 1 <= o[3] /\ o[3] < cnt) /\ (Left(o) \/ Owned(o))
      BY <1>0, <2>1 DEF NothingElse
    <3>3. Left(o) => Left(o)' BY <2>1 DEF Left
    <3>4. Owned(o) => Owned(o)' BY <2>1 DEF Owned
    <3> QED BY <2>1, <3>1, <3>2, <3>3, <3>4
  <2>3. ASSUME NEW o, o = Nth("payload", cnt)
        PROVE  /\ o[2] <= start /\ 1 <= o[3] /\ o[3] < cnt'
               /\ Left(o)' \/ Owned(o)'
    BY <2>1, <2>3 DEF Nth, Owned
  <2> QED BY <2>1, <2>2, <2>3 DEF NothingElse
<1> QED BY <1>1, <1>2, <1>3, <1>4, <1>5, <1>6, <1>7 DEF IInv, Sane

LEMMA PayloadRefusedInvariant ==
  ASSUME IInv, TypeOK, TypeOK', PayloadRefused
  PROVE  IInv'
<1> USE ClientSetupAssumption DEF TypeOK, numbers, Places, Wild
<1>0. main \notin Wild /\ NumbersFit /\ HaveFits /\ PayloadsLive /\ ConnectionsLive /\ ClientLive /\ NothingElse
  BY DEF IInv, Sane, PayloadRefused, Goes, GiveUp, Fails
<1>1. NumbersFit'
  BY <1>0 DEF PayloadRefused, Goes, GiveUp, Fails, NumbersFit, Preparing, StartNumbers
<1>2. HaveFits'
  BY <1>0 DEF PayloadRefused, Goes, GiveUp, Fails, HaveFits
<1>3. SetUpSurvives'
  BY <1>0 DEF PayloadRefused, Goes, GiveUp, Fails, SetUpSurvives, NumbersFit, Preparing
<1>4. PayloadsLive'
  BY <1>0 DEF PayloadRefused, Goes, GiveUp, Fails, PayloadsLive, HaveFits, FirstPayload, This, Nth
<1>5. ConnectionsLive'
  BY <1>0 DEF PayloadRefused, Goes, GiveUp, Fails, ConnectionsLive, HaveFits, FirstConnection, Deque, This, Nth
<1>6. ClientLive'
  BY <1>0 DEF PayloadRefused, Goes, GiveUp, Fails, ClientLive, HaveFits, This
<1>7. main' \notin Wild => NothingElse'
  <2>1. /\ have' = {} /\ have = {} /\ UNCHANGED <<start, live, front>> /\ cnt = 1 /\ main = "payloads"
        /\ main' \in {"idle", "ended", "wildPayload"}
        /\ failed' = [failed EXCEPT ![start] = "payload"] /\ failed[start] = "none"
        /\ start \in StartNumbers
    BY <1>0 DEF PayloadRefused, Goes, GiveUp, Fails, HaveFits, NumbersFit, Preparing, StartNumbers
  <2>2. ASSUME NEW o \in live
        PROVE  o[2] <= start /\ (Left(o)' \/ Owned(o)')
    <3>1. o[3] \in 0..MaxClients BY DEF Objects
    <3>2. o[2] <= start BY <1>0 DEF NothingElse
    <3>3. CASE Left(o) BY <2>1, <3>2, <3>3 DEF Left
    <3>4. CASE Owned(o)
      <4>1. ~(o[1] = "payload") BY <1>0, <2>1, <3>1 DEF NothingElse
      <4>2. o[1] = "payloadLibrary" /\ o[2] = start BY <2>1, <3>4, <4>1 DEF Owned
      <4> QED BY <2>1, <4>2, <3>2 DEF Left
    <3> QED BY <1>0, <3>2, <3>3, <3>4 DEF NothingElse
  <2> QED BY <2>1, <2>2 DEF NothingElse
<1> QED BY <1>1, <1>2, <1>3, <1>4, <1>5, <1>6, <1>7 DEF IInv, Sane

LEMMA PayloadsReadyInvariant ==
  ASSUME IInv, TypeOK, TypeOK', PayloadsReady
  PROVE  IInv'
<1> USE ClientSetupAssumption DEF TypeOK, numbers, Places, Wild
<1>0. main \notin Wild /\ NumbersFit /\ HaveFits /\ PayloadsLive /\ ConnectionsLive /\ ClientLive /\ NothingElse
  BY DEF IInv, Sane, PayloadsReady, Goes
<1>1. NumbersFit'
  BY <1>0 DEF PayloadsReady, Goes, NumbersFit, Preparing, StartNumbers
<1>2. HaveFits'
  BY <1>0 DEF PayloadsReady, Goes, HaveFits
<1>3. SetUpSurvives'
  BY <1>0 DEF PayloadsReady, Goes, SetUpSurvives, NumbersFit, Preparing
<1>4. PayloadsLive'
  <2>1. /\ main' = "protocol" /\ cnt > numClients /\ UNCHANGED <<start, numClients>>
        /\ main = "payloads" /\ live \subseteq live'
    BY <1>0 DEF PayloadsReady, Goes
  <2>2. This("payloadLibrary") \in live' /\ \A j \in 1..numClients : Nth("payload", j) \in live'
    BY <1>0, <2>1 DEF PayloadsLive
  <2> QED BY <2>1, <2>2, SameStart DEF PayloadsLive, FirstPayload
<1>5. ConnectionsLive'
  BY <1>0 DEF PayloadsReady, Goes, ConnectionsLive, HaveFits, FirstConnection, Deque, This, Nth
<1>6. ClientLive'
  BY <1>0 DEF PayloadsReady, Goes, ClientLive, HaveFits, This
<1>7. NothingElse'
  <2>1. /\ have = {} /\ have' = {"payload"} /\ UNCHANGED <<start, failed, front, numClients>> /\ main' = "protocol"
        /\ main = "payloads" /\ live' = live \cup {This("network")} /\ cnt <= numClients + 1
    BY <1>0 DEF PayloadsReady, Goes, HaveFits, PayloadsLive
  <2>2. ASSUME NEW o \in live
        PROVE  o[2] <= start /\ (Left(o)' \/ Owned(o)')
    <3>1. o[3] \in 0..MaxClients BY DEF Objects
    <3> QED BY <1>0, <2>1, <3>1 DEF NothingElse, Left, Owned, FirstPayload
  <2>3. ASSUME NEW o, o = This("network")
        PROVE  o[2] <= start /\ Owned(o)'
    BY <2>1, <2>3 DEF This, Owned
  <2> QED BY <2>1, <2>2, <2>3 DEF NothingElse
<1> QED BY <1>1, <1>2, <1>3, <1>4, <1>5, <1>6, <1>7 DEF IInv, Sane

LEMMA LoadProtocolInvariant ==
  ASSUME IInv, TypeOK, TypeOK', LoadProtocol
  PROVE  IInv'
<1> USE ClientSetupAssumption DEF TypeOK, numbers, Places, Wild
<1>0. main \notin Wild /\ NumbersFit /\ HaveFits /\ PayloadsLive /\ ConnectionsLive /\ ClientLive /\ NothingElse
  BY DEF IInv, Sane, LoadProtocol, Goes, CleansUp
<1>1. NumbersFit'
  BY <1>0 DEF LoadProtocol, Goes, CleansUp, NumbersFit, Preparing, StartNumbers
<1>2. HaveFits'
  BY <1>0 DEF LoadProtocol, Goes, CleansUp, HaveFits
<1>3. SetUpSurvives'
  BY <1>0 DEF LoadProtocol, Goes, CleansUp, SetUpSurvives, NumbersFit, Preparing
<1>4. PayloadsLive'
  BY <1>0 DEF LoadProtocol, Goes, CleansUp, PayloadsLive, HaveFits, FirstPayload, This, Nth
<1>5. ConnectionsLive'
  <2>1. have' = {"payload"} /\ UNCHANGED <<start, numClients>> BY <1>0 DEF LoadProtocol, Goes, CleansUp, HaveFits
  <2>2. main' = "connect" => /\ connections' = <<>> /\ cnt' = cnt
                            /\ {This("protocolLibrary"), This("protocol")} \subseteq live'
    BY <1>0 DEF LoadProtocol, Goes, CleansUp
  <2>3. cnt = 1 BY <1>0 DEF HaveFits, LoadProtocol
  <2>4. main' = "connect" => Deque(1, cnt - 1)' BY <2>2, <2>3 DEF Deque
  <2>5. main' = "connect" => \A j \in 1..(cnt' - 1) : Nth("socket", j) \in live'
    BY <2>2, <2>3
  <2>6. main' = "connect" => cnt' <= numClients' + 1
    BY <2>1, <2>2, <2>3
  <2> QED BY <2>1, <2>2, <2>4, <2>5, <2>6, SameStart DEF ConnectionsLive
<1>6. ClientLive'
  BY <1>0 DEF LoadProtocol, Goes, CleansUp, ClientLive, HaveFits, This
<1>7. NothingElse'
  BY <1>0 DEF LoadProtocol, Goes, CleansUp, NothingElse, NumbersFit, Preparing, HaveFits, Left, Owned, FirstPayload, This, Nth
<1> QED BY <1>1, <1>2, <1>3, <1>4, <1>5, <1>6, <1>7 DEF IInv, Sane

LEMMA CreateConnectionInvariant ==
  ASSUME IInv, TypeOK, TypeOK', CreateConnection
  PROVE  IInv'
<1> USE ClientSetupAssumption DEF TypeOK, numbers, Places, Wild
<1>0. main \notin Wild /\ NumbersFit /\ HaveFits /\ PayloadsLive /\ ConnectionsLive /\ ClientLive /\ NothingElse
  BY DEF IInv, Sane, CreateConnection, Goes
<1>1. NumbersFit'
  BY <1>0 DEF CreateConnection, Goes, NumbersFit, Preparing, StartNumbers
<1>2. HaveFits'
  BY <1>0 DEF CreateConnection, Goes, HaveFits
<1>3. SetUpSurvives'
  BY <1>0 DEF CreateConnection, Goes, SetUpSurvives, NumbersFit, Preparing
<1>4. PayloadsLive'
  BY <1>0 DEF CreateConnection, Goes, PayloadsLive, HaveFits, FirstPayload, This, Nth
<1>5. ConnectionsLive'
  <2>1. /\ have' = {"payload"} /\ UNCHANGED <<start, numClients>> /\ main = "connect" /\ main' = "connect"
        /\ cnt' = cnt + 1 /\ cnt <= numClients /\ cnt \in Entries
        /\ connections' = Append(connections, cnt) /\ live' = live \cup {Nth("socket", cnt)}
    BY <1>0 DEF CreateConnection, Goes, HaveFits, Entries
  <2>2. Deque(1, cnt - 1) BY <1>0, <2>1 DEF ConnectionsLive
  <2>3. Len(connections) = cnt - 1 /\ \A i \in 1..(cnt - 1) : connections[i] = i
    BY <2>1, <2>2 DEF Deque
  <2>4. Len(connections') = cnt /\ \A i \in 1..cnt : connections'[i] = i
    BY <2>1, <2>3
  <2>5. Deque(1, cnt - 1)' BY <2>1, <2>4 DEF Deque
  <2>6. \A j \in 1..(cnt' - 1) : Nth("socket", j) \in live'
    BY <1>0, <2>1 DEF ConnectionsLive
  <2>7. {This("protocolLibrary"), This("protocol")} \subseteq live'
    BY <1>0, <2>1 DEF ConnectionsLive
  <2> QED BY <2>1, <2>5, <2>6, <2>7, SameStart DEF ConnectionsLive
<1>6. ClientLive'
  BY <1>0 DEF CreateConnection, Goes, ClientLive, HaveFits, This
<1>7. NothingElse'
  BY <1>0 DEF CreateConnection, Goes, NothingElse, NumbersFit, Preparing, HaveFits, Left, Owned, FirstPayload, This, Nth
<1> QED BY <1>1, <1>2, <1>3, <1>4, <1>5, <1>6, <1>7 DEF IInv, Sane

LEMMA KylixConnectionFailsInvariant ==
  ASSUME IInv, TypeOK, TypeOK', KylixConnectionFails
  PROVE  IInv'
<1> USE ClientSetupAssumption DEF TypeOK, numbers, Places, Wild
<1>0. main \notin Wild /\ NumbersFit /\ HaveFits /\ PayloadsLive /\ ConnectionsLive /\ ClientLive /\ NothingElse
  BY DEF IInv, Sane, KylixConnectionFails, CleansUp, Fails
<1>1. NumbersFit'
  BY <1>0 DEF KylixConnectionFails, CleansUp, Fails, NumbersFit, Preparing, StartNumbers
<1>2. HaveFits'
  BY <1>0 DEF KylixConnectionFails, CleansUp, Fails, HaveFits
<1>3. SetUpSurvives'
  BY <1>0 DEF KylixConnectionFails, CleansUp, Fails, SetUpSurvives, NumbersFit, Preparing
<1>4. PayloadsLive'
  BY <1>0 DEF KylixConnectionFails, CleansUp, Fails, PayloadsLive, HaveFits, FirstPayload, This, Nth
<1>5. ConnectionsLive'
  BY <1>0 DEF KylixConnectionFails, CleansUp, Fails, ConnectionsLive, HaveFits, FirstConnection, Deque, This, Nth
<1>6. ClientLive'
  BY <1>0 DEF KylixConnectionFails, CleansUp, Fails, ClientLive, HaveFits, This
<1>7. NothingElse'
  <2>1. /\ have = {"payload"} /\ have' = have /\ UNCHANGED <<start, front, numClients>>
        /\ main' = "freePayloads" /\ cnt' = 1
        /\ main = "connect" /\ front = "kylix" /\ live' = live \ {This("protocolLibrary")}
        /\ failed' = [failed EXCEPT ![start] = "connection"] /\ start \in StartNumbers
        /\ failed[start] \in {"none", "connection"}
    BY <1>0 DEF KylixConnectionFails, CleansUp, Fails, HaveFits, NumbersFit, Preparing, StartNumbers
  <2>2. ASSUME NEW o \in live, Left(o)
        PROVE  Left(o)'
    BY <2>1, <2>2 DEF Left
  <2>3. ASSUME NEW o \in live'
        PROVE  o[2] <= start /\ (Left(o)' \/ Owned(o)')
    <3>1. o \in live /\ o \in Objects /\ o # This("protocolLibrary") BY <2>1
    <3>2. o[2] <= start BY <1>0, <3>1 DEF NothingElse
    <3>3. CASE Left(o) BY <2>2, <3>1, <3>2, <3>3
    <3>4. CASE Owned(o)
      <4>1. o = Nth(o[1], o[3]) BY <3>1, <3>4, ObjectNamed DEF Owned
      <4>2. ~(o[1] = "protocolLibrary" /\ o[3] = 0) BY <3>1, <4>1 DEF This, Nth
      <4>3. CASE o[1] = "protocol" BY <2>1, <3>4, <4>3 DEF Owned, Left
      <4> QED BY <2>1, <3>1, <3>2, <3>4, <4>2, <4>3 DEF Owned, FirstPayload, Objects
    <3> QED BY <1>0, <3>1, <3>3, <3>4 DEF NothingElse
  <2> QED BY <2>1, <2>3 DEF NothingElse
<1> QED BY <1>1, <1>2, <1>3, <1>4, <1>5, <1>6, <1>7 DEF IInv, Sane

LEMMA FirstConnectionFailsInvariant ==
  ASSUME IInv, TypeOK, TypeOK', FirstConnectionFails
  PROVE  IInv'
<1> USE ClientSetupAssumption DEF TypeOK, numbers, Places, Wild
<1>0. main \notin Wild /\ NumbersFit /\ HaveFits /\ PayloadsLive /\ ConnectionsLive /\ ClientLive /\ NothingElse
  BY DEF IInv, Sane, FirstConnectionFails, CleansUp, Fails, DestroysProtocol
<1>1. NumbersFit'
  BY <1>0 DEF FirstConnectionFails, CleansUp, Fails, DestroysProtocol, NumbersFit, Preparing, StartNumbers
<1>2. HaveFits'
  BY <1>0 DEF FirstConnectionFails, CleansUp, Fails, DestroysProtocol, HaveFits
<1>3. SetUpSurvives'
  BY <1>0 DEF FirstConnectionFails, CleansUp, Fails, DestroysProtocol, SetUpSurvives, NumbersFit, Preparing
<1>4. PayloadsLive'
  BY <1>0 DEF FirstConnectionFails, CleansUp, Fails, DestroysProtocol, PayloadsLive, HaveFits, FirstPayload, This, Nth
<1>5. ConnectionsLive'
  BY <1>0 DEF FirstConnectionFails, CleansUp, Fails, DestroysProtocol, ConnectionsLive, HaveFits, FirstConnection, Deque, This, Nth
<1>6. ClientLive'
  BY <1>0 DEF FirstConnectionFails, CleansUp, Fails, DestroysProtocol, ClientLive, HaveFits, This
<1>7. NothingElse'
  <2>1. /\ have = {"payload"} /\ have' = have /\ UNCHANGED <<start, front, numClients>>
        /\ main' = "freePayloads" /\ cnt' = 1
        /\ main = "connect" /\ DestroysProtocol
        /\ failed' = [failed EXCEPT ![start] = "connection"] /\ start \in StartNumbers
        /\ failed[start] \in {"none", "connection"}
    BY <1>0 DEF FirstConnectionFails, CleansUp, Fails, HaveFits, NumbersFit, Preparing, StartNumbers
  <2>2. ASSUME NEW o \in live, Left(o)
        PROVE  Left(o)'
    BY <2>1, <2>2 DEF Left
  <2>3. ASSUME NEW o \in live'
        PROVE  o[2] <= start /\ (Left(o)' \/ Owned(o)')
    <3>1. o \in live /\ o \in Objects /\ o # This("protocolLibrary") /\ o # This("protocol")
      BY <2>1 DEF DestroysProtocol
    <3>2. o[2] <= start BY <1>0, <3>1 DEF NothingElse
    <3>3. CASE Left(o) BY <2>2, <3>1, <3>2, <3>3
    <3>4. CASE Owned(o)
      <4>1. o = Nth(o[1], o[3]) BY <3>1, <3>4, ObjectNamed DEF Owned
      <4>2. ~(o[1] \in {"protocolLibrary", "protocol"} /\ o[3] = 0) BY <3>1, <4>1 DEF This, Nth
      <4> QED BY <2>1, <3>1, <3>2, <3>4, <4>2 DEF Owned, FirstPayload, Objects
    <3> QED BY <1>0, <3>1, <3>3, <3>4 DEF NothingElse
  <2> QED BY <2>1, <2>3 DEF NothingElse
<1> QED BY <1>1, <1>2, <1>3, <1>4, <1>5, <1>6, <1>7 DEF IInv, Sane

LEMMA LaterConnectionFailsInvariant ==
  ASSUME IInv, TypeOK, TypeOK', LaterConnectionFails
  PROVE  IInv'
<1> USE ClientSetupAssumption DEF TypeOK, numbers, Places, Wild
<1>0. main \notin Wild /\ NumbersFit /\ HaveFits /\ PayloadsLive /\ ConnectionsLive /\ ClientLive /\ NothingElse
  BY DEF IInv, Sane, LaterConnectionFails, Goes, Fails
<1>1. NumbersFit'
  BY <1>0 DEF LaterConnectionFails, Goes, Fails, NumbersFit, Preparing, StartNumbers
<1>2. HaveFits'
  BY <1>0 DEF LaterConnectionFails, Goes, Fails, HaveFits
<1>3. SetUpSurvives'
  BY <1>0 DEF LaterConnectionFails, Goes, Fails, SetUpSurvives, NumbersFit, Preparing
<1>4. PayloadsLive'
  BY <1>0 DEF LaterConnectionFails, Goes, Fails, PayloadsLive, HaveFits, FirstPayload, This, Nth
<1>5. ConnectionsLive'
  BY <1>0 DEF LaterConnectionFails, Goes, Fails, ConnectionsLive, HaveFits, FirstConnection, Deque, This, Nth
<1>6. ClientLive'
  BY <1>0 DEF LaterConnectionFails, Goes, Fails, ClientLive, HaveFits, This
<1>7. NothingElse'
  BY <1>0 DEF LaterConnectionFails, Goes, Fails, NothingElse, NumbersFit, Preparing, HaveFits, Left, Owned, FirstPayload, This, Nth
<1> QED BY <1>1, <1>2, <1>3, <1>4, <1>5, <1>6, <1>7 DEF IInv, Sane

LEMMA ConnectionsReadyInvariant ==
  ASSUME IInv, TypeOK, TypeOK', ConnectionsReady
  PROVE  IInv'
<1> USE ClientSetupAssumption DEF TypeOK, numbers, Places, Wild
<1>0. main \notin Wild /\ NumbersFit /\ HaveFits /\ PayloadsLive /\ ConnectionsLive /\ ClientLive /\ NothingElse
  BY DEF IInv, Sane, ConnectionsReady, Goes
<1>1. NumbersFit'
  BY <1>0 DEF ConnectionsReady, Goes, NumbersFit, Preparing, StartNumbers
<1>2. HaveFits'
  BY <1>0 DEF ConnectionsReady, Goes, HaveFits
<1>3. SetUpSurvives'
  BY <1>0 DEF ConnectionsReady, Goes, SetUpSurvives, NumbersFit, Preparing
<1>4. PayloadsLive'
  BY <1>0 DEF ConnectionsReady, Goes, PayloadsLive, HaveFits, FirstPayload, This, Nth
<1>5. ConnectionsLive'
  BY <1>0 DEF ConnectionsReady, Goes, ConnectionsLive, HaveFits, FirstConnection, Deque, This, Nth
<1>6. ClientLive'
  BY <1>0 DEF ConnectionsReady, Goes, ClientLive, HaveFits, This
<1>7. NothingElse'
  BY <1>0 DEF ConnectionsReady, Goes, NothingElse, NumbersFit, Preparing, HaveFits, Left, Owned, FirstPayload, This, Nth
<1> QED BY <1>1, <1>2, <1>3, <1>4, <1>5, <1>6, <1>7 DEF IInv, Sane

LEMMA LoadClientInvariant ==
  ASSUME IInv, TypeOK, TypeOK', LoadClient
  PROVE  IInv'
<1> USE ClientSetupAssumption DEF TypeOK, numbers, Places, Wild
<1>0. main \notin Wild /\ NumbersFit /\ HaveFits /\ PayloadsLive /\ ConnectionsLive /\ ClientLive /\ NothingElse
  BY DEF IInv, Sane, LoadClient, Goes, CleansUp
<1>1. NumbersFit'
  BY <1>0 DEF LoadClient, Goes, CleansUp, NumbersFit, Preparing, StartNumbers
<1>2. HaveFits'
  BY <1>0 DEF LoadClient, Goes, CleansUp, HaveFits
<1>3. SetUpSurvives'
  BY <1>0 DEF LoadClient, Goes, CleansUp, SetUpSurvives, NumbersFit, Preparing
<1>4. PayloadsLive'
  BY <1>0 DEF LoadClient, Goes, CleansUp, PayloadsLive, HaveFits, FirstPayload, This, Nth
<1>5. ConnectionsLive'
  BY <1>0 DEF LoadClient, Goes, CleansUp, ConnectionsLive, HaveFits, FirstConnection, Deque, This, Nth
<1>6. ClientLive'
  BY <1>0 DEF LoadClient, Goes, CleansUp, ClientLive, HaveFits, This
<1>7. NothingElse'
  BY <1>0 DEF LoadClient, Goes, CleansUp, NothingElse, NumbersFit, Preparing, HaveFits, Left, Owned, FirstPayload, This, Nth
<1> QED BY <1>1, <1>2, <1>3, <1>4, <1>5, <1>6, <1>7 DEF IInv, Sane

LEMMA DestroyFirstAgainInvariant ==
  ASSUME IInv, TypeOK, TypeOK', DestroyFirstAgain
  PROVE  IInv'
<1> USE ClientSetupAssumption DEF TypeOK, numbers, Places, Wild
<1>0. main \notin Wild /\ NumbersFit /\ HaveFits /\ PayloadsLive /\ ConnectionsLive /\ ClientLive /\ NothingElse
  BY DEF IInv, Sane, DestroyFirstAgain
<1>1. NumbersFit'
  BY <1>0 DEF DestroyFirstAgain, NumbersFit, Preparing, StartNumbers
<1>2. HaveFits'
  BY <1>0 DEF DestroyFirstAgain, HaveFits
<1>3. SetUpSurvives'
  BY <1>0 DEF DestroyFirstAgain, SetUpSurvives, NumbersFit, Preparing
<1>4. PayloadsLive'
  BY <1>0 DEF DestroyFirstAgain, PayloadsLive, HaveFits, FirstPayload, This, Nth
<1>5. ConnectionsLive'
  BY <1>0 DEF DestroyFirstAgain, ConnectionsLive, HaveFits, FirstConnection, Deque, This, Nth
<1>6. ClientLive'
  BY <1>0 DEF DestroyFirstAgain, ClientLive, HaveFits, This
<1>7. NothingElse'
  BY <1>0 DEF DestroyFirstAgain, NothingElse, NumbersFit, Preparing, HaveFits, Left, Owned, FirstPayload, This, Nth
<1> QED BY <1>1, <1>2, <1>3, <1>4, <1>5, <1>6, <1>7 DEF IInv, Sane

LEMMA LoopOverflowsInvariant ==
  ASSUME IInv, TypeOK, TypeOK', LoopOverflows
  PROVE  IInv'
<1> USE ClientSetupAssumption DEF TypeOK, numbers, Places, Wild
<1>0. main \notin Wild /\ NumbersFit /\ HaveFits /\ PayloadsLive /\ ConnectionsLive /\ ClientLive /\ NothingElse
  BY DEF IInv, Sane, LoopOverflows, CleansUp, Goes, DestroysProtocol, ReadsEmptyFront
<1>1. NumbersFit'
  BY <1>0 DEF LoopOverflows, CleansUp, Goes, DestroysProtocol, ReadsEmptyFront, NumbersFit, Preparing, StartNumbers
<1>2. HaveFits'
  BY <1>0 DEF LoopOverflows, CleansUp, Goes, DestroysProtocol, ReadsEmptyFront, HaveFits
<1>3. SetUpSurvives'
  BY <1>0 DEF LoopOverflows, CleansUp, Goes, DestroysProtocol, ReadsEmptyFront, SetUpSurvives, NumbersFit, Preparing
<1>4. PayloadsLive'
  BY <1>0 DEF LoopOverflows, CleansUp, Goes, DestroysProtocol, ReadsEmptyFront, PayloadsLive, HaveFits, FirstPayload, This, Nth
<1>5. ConnectionsLive'
  BY <1>0 DEF LoopOverflows, CleansUp, Goes, DestroysProtocol, ReadsEmptyFront, ConnectionsLive, HaveFits, FirstConnection, Deque, This, Nth
<1>6. ClientLive'
  BY <1>0 DEF LoopOverflows, CleansUp, Goes, DestroysProtocol, ReadsEmptyFront, ClientLive, HaveFits, This
<1>7. main' \notin Wild => NothingElse'
  <2> SUFFICES ASSUME main' \notin Wild PROVE NothingElse' OBVIOUS
  <2>1. /\ have = {"payload"} /\ have' = have /\ UNCHANGED <<start, front, numClients, failed>>
        /\ main' = "freePayloads" /\ cnt' = 1 /\ main = "again"
        /\ DestroysProtocol
    BY <1>0 DEF LoopOverflows, CleansUp, Goes, HaveFits
  <2>2. ASSUME NEW o \in live, Left(o)
        PROVE  Left(o)'
    BY <2>1, <2>2 DEF Left
  <2>3. ASSUME NEW o \in live'
        PROVE  o[2] <= start /\ (Left(o)' \/ Owned(o)')
    <3>1. o \in live /\ o \in Objects /\ o # This("protocolLibrary") /\ o # This("protocol")
      BY <2>1 DEF DestroysProtocol
    <3>2. o[2] <= start BY <1>0, <3>1 DEF NothingElse
    <3>3. CASE Left(o) BY <2>2, <3>1, <3>2, <3>3
    <3>4. CASE Owned(o)
      <4>1. o = Nth(o[1], o[3]) BY <3>1, <3>4, ObjectNamed DEF Owned
      <4>2. ~(o[1] \in {"protocolLibrary", "protocol"} /\ o[3] = 0) BY <3>1, <4>1 DEF This, Nth
      <4> QED BY <2>1, <3>1, <3>2, <3>4, <4>2 DEF Owned, FirstPayload, Objects
    <3> QED BY <1>0, <3>1, <3>3, <3>4 DEF NothingElse
  <2> QED BY <2>1, <2>3 DEF NothingElse
<1> QED BY <1>1, <1>2, <1>3, <1>4, <1>5, <1>6, <1>7 DEF IInv, Sane

LEMMA ENTERorStopInvariant ==
  ASSUME IInv, TypeOK, TypeOK', ENTERorStop
  PROVE  IInv'
<1> USE ClientSetupAssumption DEF TypeOK, numbers, Places, Wild
<1>0. main \notin Wild /\ NumbersFit /\ HaveFits /\ PayloadsLive /\ ConnectionsLive /\ ClientLive /\ NothingElse
  BY DEF IInv, Sane, ENTERorStop, CleansUp
<1>1. NumbersFit'
  BY <1>0 DEF ENTERorStop, CleansUp, NumbersFit, Preparing, StartNumbers
<1>2. HaveFits'
  BY <1>0 DEF ENTERorStop, CleansUp, HaveFits
<1>3. SetUpSurvives'
  BY <1>0 DEF ENTERorStop, CleansUp, SetUpSurvives, NumbersFit, Preparing
<1>4. PayloadsLive'
  BY <1>0 DEF ENTERorStop, CleansUp, PayloadsLive, HaveFits, FirstPayload, This, Nth
<1>5. ConnectionsLive'
  BY <1>0 DEF ENTERorStop, CleansUp, ConnectionsLive, HaveFits, FirstConnection, Deque, This, Nth
<1>6. ClientLive'
  BY <1>0 DEF ENTERorStop, CleansUp, ClientLive, HaveFits, This
<1>7. NothingElse'
  BY <1>0 DEF ENTERorStop, CleansUp, NothingElse, NumbersFit, Preparing, HaveFits, Left, Owned, FirstPayload, This, Nth
<1> QED BY <1>1, <1>2, <1>3, <1>4, <1>5, <1>6, <1>7 DEF IInv, Sane

LEMMA FormCloseInvariant ==
  ASSUME IInv, TypeOK, TypeOK', FormClose
  PROVE  IInv'
<1> USE ClientSetupAssumption DEF TypeOK, numbers, Places, Wild
<1>0. main \notin Wild /\ NumbersFit /\ HaveFits /\ PayloadsLive /\ ConnectionsLive /\ ClientLive /\ NothingElse
  BY DEF IInv, Sane, FormClose
<1>1. NumbersFit'
  BY <1>0 DEF FormClose, NumbersFit, Preparing, StartNumbers
<1>2. HaveFits'
  BY <1>0 DEF FormClose, HaveFits
<1>3. SetUpSurvives'
  BY <1>0 DEF FormClose, SetUpSurvives, NumbersFit, Preparing
<1>4. PayloadsLive'
  BY <1>0 DEF FormClose, PayloadsLive, HaveFits, FirstPayload, This, Nth
<1>5. ConnectionsLive'
  BY <1>0 DEF FormClose, ConnectionsLive, HaveFits, FirstConnection, Deque, This, Nth
<1>6. ClientLive'
  BY <1>0 DEF FormClose, ClientLive, HaveFits, This
<1>7. NothingElse'
  BY <1>0 DEF FormClose, NothingElse, NumbersFit, Preparing, HaveFits, Left, Owned, FirstPayload, This, Nth
<1> QED BY <1>1, <1>2, <1>3, <1>4, <1>5, <1>6, <1>7 DEF IInv, Sane

LEMMA FreePayloadInvariant ==
  ASSUME IInv, TypeOK, TypeOK', FreePayload
  PROVE  IInv'
<1> USE ClientSetupAssumption DEF TypeOK, numbers, Places, Wild
<1>0. main \notin Wild /\ NumbersFit /\ HaveFits /\ PayloadsLive /\ ConnectionsLive /\ ClientLive /\ NothingElse
  BY DEF IInv, Sane, FreePayload, Goes
<1>1. NumbersFit'
  BY <1>0 DEF FreePayload, Goes, NumbersFit, Preparing, StartNumbers
<1>2. HaveFits'
  BY <1>0 DEF FreePayload, Goes, HaveFits
<1>3. SetUpSurvives'
  BY <1>0 DEF FreePayload, Goes, SetUpSurvives, NumbersFit, Preparing
<1>4. PayloadsLive'
  <2>1. /\ have' = have /\ UNCHANGED <<start, numClients>> /\ cnt' = cnt + 1
        /\ main = "freePayloads" /\ main' = "freePayloads" /\ "payload" \in have
        /\ live' = live \ {Nth("payload", cnt)}
    BY DEF FreePayload, Goes
  <2>2. \A j \in (cnt + 1)..numClients : Nth("payload", j) # Nth("payload", cnt)
    BY DEF Nth
  <2>3. \A j \in (cnt + 1)..numClients : Nth("payload", j) \in live'
    BY <1>0, <2>1, <2>2 DEF PayloadsLive, FirstPayload
  <2>4. This("payloadLibrary") \in live'
    BY <1>0, <2>1 DEF PayloadsLive, This, Nth
  <2> QED BY <2>1, <2>3, <2>4, SameStart DEF PayloadsLive, FirstPayload
<1>5. ConnectionsLive'
  BY <1>0 DEF FreePayload, Goes, ConnectionsLive, HaveFits, FirstConnection, Deque, This, Nth
<1>6. ClientLive'
  <2>1. UNCHANGED <<start, have>> /\ live' = live \ {Nth("payload", cnt)} BY DEF FreePayload, Goes
  <2>2. Nth("payload", cnt) \notin {This("clientLibrary"), This("client")} BY DEF Nth, This
  <2> QED BY <1>0, <2>1, <2>2, SameStart DEF ClientLive
<1>7. NothingElse'
  <2>1. /\ have' = have /\ UNCHANGED <<start, numClients, failed, front>> /\ cnt' = cnt + 1
        /\ main = "freePayloads" /\ main' = "freePayloads" /\ "payload" \in have
        /\ live' = live \ {Nth("payload", cnt)}
    BY DEF FreePayload, Goes
  <2>2. ASSUME NEW o \in live'
        PROVE  o[2] <= start /\ (Left(o)' \/ Owned(o)')
    <3>1. o \in live /\ o \in Objects /\ o # Nth("payload", cnt) BY <2>1
    <3>2. o[2] <= start BY <1>0, <3>1 DEF NothingElse
    <3>3. CASE Left(o) BY <2>1, <3>2, <3>3 DEF Left
    <3>4. CASE Owned(o)
      <4>1. o = Nth(o[1], o[3]) BY <3>1, <3>4, ObjectNamed DEF Owned
      <4>2. ~(o[1] = "payload" /\ o[3] = cnt) BY <3>1, <4>1
      <4>3. o[3] \in 0..MaxClients BY <3>1 DEF Objects
      <4>4. CASE o[1] = "payload"
        <5>1. o[2] = start /\ cnt <= o[3] /\ o[3] <= numClients BY <2>1, <3>4, <4>4 DEF Owned, FirstPayload
        <5>2. cnt + 1 <= o[3] BY <4>2, <4>3, <4>4, <5>1
        <5> QED BY <2>1, <3>2, <4>4, <5>1, <5>2 DEF Owned, FirstPayload
      <4>5. CASE o[1] # "payload" BY <2>1, <3>2, <3>4, <4>5 DEF Owned
      <4> QED BY <4>4, <4>5
    <3> QED BY <1>0, <3>1, <3>3, <3>4 DEF NothingElse
  <2> QED BY <2>1, <2>2 DEF NothingElse
<1> QED BY <1>1, <1>2, <1>3, <1>4, <1>5, <1>6, <1>7 DEF IInv, Sane

LEMMA FreePayloadLibraryInvariant ==
  ASSUME IInv, TypeOK, TypeOK', FreePayloadLibrary
  PROVE  IInv'
<1> USE ClientSetupAssumption DEF TypeOK, numbers, Places, Wild
<1>0. main \notin Wild /\ NumbersFit /\ HaveFits /\ PayloadsLive /\ ConnectionsLive /\ ClientLive /\ NothingElse
  BY DEF IInv, Sane, FreePayloadLibrary, Goes
<1>1. NumbersFit'
  BY <1>0 DEF FreePayloadLibrary, Goes, NumbersFit, Preparing, StartNumbers
<1>2. HaveFits'
  BY <1>0 DEF FreePayloadLibrary, Goes, HaveFits
<1>3. SetUpSurvives'
  BY <1>0 DEF FreePayloadLibrary, Goes, SetUpSurvives, NumbersFit, Preparing
<1>4. PayloadsLive'
  BY <1>0 DEF FreePayloadLibrary, Goes, PayloadsLive, HaveFits, FirstPayload, This, Nth
<1>5. ConnectionsLive'
  BY <1>0 DEF FreePayloadLibrary, Goes, ConnectionsLive, HaveFits, FirstConnection, Deque, This, Nth
<1>6. ClientLive'
  BY <1>0 DEF FreePayloadLibrary, Goes, ClientLive, HaveFits, This
<1>7. NothingElse'
  <2>1. /\ have' = have \ {"payload"} /\ UNCHANGED <<start, numClients, failed, front>>
        /\ main = "freePayloads" /\ main' = "freeConnections"
        /\ "payload" \in have => cnt > numClients /\ live' = live \ {This("payloadLibrary")}
        /\ "payload" \notin have => live' = live
    BY DEF FreePayloadLibrary, Goes
  <2>2. ASSUME NEW o \in live'
        PROVE  o[2] <= start /\ (Left(o)' \/ Owned(o)')
    <3>1. o \in live /\ o \in Objects /\ ("payload" \in have => o # This("payloadLibrary")) BY <2>1
    <3>2. o[2] <= start BY <1>0, <3>1 DEF NothingElse
    <3>3. CASE Left(o) BY <2>1, <3>2, <3>3 DEF Left
    <3>4. CASE Owned(o)
      <4>1. o = Nth(o[1], o[3]) BY <3>1, <3>4, ObjectNamed DEF Owned
      <4>2. ~(o[1] = "payloadLibrary" /\ o[3] = 0 /\ "payload" \in have) BY <3>1, <4>1 DEF This, Nth
      <4>3. o[3] \in 0..MaxClients BY <3>1 DEF Objects
      <4>4. o[1] # "payload" BY <2>1, <3>4, <4>3 DEF Owned, FirstPayload
      <4> QED BY <2>1, <3>2, <3>4, <4>2, <4>4 DEF Owned
    <3> QED BY <1>0, <3>1, <3>3, <3>4 DEF NothingElse
  <2> QED BY <2>1, <2>2 DEF NothingElse
<1> QED BY <1>1, <1>2, <1>3, <1>4, <1>5, <1>6, <1>7 DEF IInv, Sane

LEMMA FreeConnectionInvariant ==
  ASSUME IInv, TypeOK, TypeOK', FreeConnection
  PROVE  IInv'
<1> USE ClientSetupAssumption DEF TypeOK, numbers, Places, Wild
<1>0. main \notin Wild /\ NumbersFit /\ HaveFits /\ PayloadsLive /\ ConnectionsLive /\ ClientLive /\ NothingElse
  BY DEF IInv, Sane, FreeConnection, Goes, Erases, InDeque
<1>1. NumbersFit'
  BY <1>0 DEF FreeConnection, Goes, Erases, InDeque, NumbersFit, Preparing, StartNumbers
<1>2. HaveFits'
  BY <1>0 DEF FreeConnection, Goes, Erases, InDeque, HaveFits
<1>3. SetUpSurvives'
  BY <1>0 DEF FreeConnection, Goes, Erases, InDeque, SetUpSurvives, NumbersFit, Preparing
<1>4. PayloadsLive'
  BY <1>0 DEF FreeConnection, Goes, Erases, InDeque, PayloadsLive, HaveFits, FirstPayload, This, Nth
<1>5. ConnectionsLive'
  <2>1. /\ UNCHANGED <<start, have, live, numClients>> /\ cnt' = cnt + 1 /\ cnt <= numClients /\ "protocol" \in have
        /\ main = "freeConnections" /\ main' = "freeConnections" /\ Erases(cnt)
    BY DEF FreeConnection, Goes
  <2>2. Deque(cnt, numClients) BY <1>0, <2>1 DEF ConnectionsLive, FirstConnection
  <2>3. /\ Len(connections) = numClients - cnt + 1 /\ connections \in Seq(Entries)
        /\ \A i \in 1..(numClients - cnt + 1) : connections[i] = cnt + i - 1
    BY <2>1, <2>2 DEF Deque
  <2>4. cnt \in InDeque
    <3>1. 1 \in DOMAIN connections /\ connections[1] = cnt BY <2>1, <2>3
    <3> QED BY <3>1 DEF InDeque
  <2>5. connections' = Tail(connections) BY <2>1, <2>4 DEF Erases
  <2>6. /\ Len(connections') = numClients - cnt
        /\ \A i \in 1..(numClients - cnt) : connections'[i] = connections[i + 1]
    BY <2>1, <2>3, <2>5
  <2>7. \A i \in 1..(numClients - cnt) : connections'[i] = (cnt + 1) + i - 1
    BY <2>3, <2>6
  <2>8. Deque(cnt, numClients)'
    BY <2>1, <2>6, <2>7 DEF Deque
  <2> QED BY <1>0, <2>1, <2>8, SameStart DEF ConnectionsLive, FirstConnection
<1>6. ClientLive'
  BY <1>0 DEF FreeConnection, Goes, Erases, InDeque, ClientLive, HaveFits, This
<1>7. NothingElse'
  BY <1>0 DEF FreeConnection, Goes, Erases, InDeque, NothingElse, NumbersFit, Preparing, HaveFits, Left, Owned, FirstPayload, This, Nth
<1> QED BY <1>1, <1>2, <1>3, <1>4, <1>5, <1>6, <1>7 DEF IInv, Sane

LEMMA FreePastArrayInvariant ==
  ASSUME IInv, TypeOK, TypeOK', FreePastArray
  PROVE  IInv'
<1> USE ClientSetupAssumption DEF TypeOK, numbers, Places, Wild
<1>0. main \notin Wild /\ NumbersFit /\ HaveFits /\ PayloadsLive /\ ConnectionsLive /\ ClientLive /\ NothingElse
  BY DEF IInv, Sane, FreePastArray, Goes, ConnectionsToFree, IsForm
<1>1. NumbersFit'
  BY <1>0 DEF FreePastArray, Goes, ConnectionsToFree, IsForm, NumbersFit, Preparing, StartNumbers
<1>2. HaveFits'
  BY <1>0 DEF FreePastArray, Goes, ConnectionsToFree, IsForm, HaveFits
<1>3. SetUpSurvives'
  <2>1. /\ main' \in {"freeConnections", "wildArray"} /\ UNCHANGED numbers
        /\ cnt > numClients /\ cnt <= ConnectionsToFree
    BY DEF FreePastArray, Goes
  <2>2. IsForm /\ clientMax > numClients BY <2>1 DEF ConnectionsToFree
  <2>3. front = "borland"
    <3>1. front \in {"kylix", "borland"} BY <2>2 DEF IsForm
    <3>2. front = "kylix" => clientMax = 0 \/ clientMax = numClients BY <1>0 DEF NumbersFit
    <3> QED BY <2>2, <3>1, <3>2
  <2> QED BY <2>1, <2>2, <2>3 DEF SetUpSurvives
<1>4. PayloadsLive'
  BY <1>0 DEF FreePastArray, Goes, ConnectionsToFree, IsForm, PayloadsLive, HaveFits, FirstPayload, This, Nth
<1>5. main' \notin Wild => ConnectionsLive'
  <2>1. /\ UNCHANGED <<start, have, live, numClients, connections>> /\ cnt' = cnt + 1 /\ cnt > numClients
        /\ "protocol" \in have /\ main = "freeConnections" /\ main' \in {"freeConnections", "wildArray"}
    BY DEF FreePastArray, Goes
  <2>2. Deque(cnt, numClients) BY <1>0, <2>1 DEF ConnectionsLive, FirstConnection
  <2>3. Len(connections) = 0 BY <2>1, <2>2 DEF Deque
  <2>4. main' = "freeConnections" => Deque(cnt, numClients)' BY <2>1, <2>3 DEF Deque
  <2> QED BY <1>0, <2>1, <2>4, SameStart DEF ConnectionsLive, FirstConnection
<1>6. ClientLive'
  BY <1>0 DEF FreePastArray, Goes, ConnectionsToFree, IsForm, ClientLive, HaveFits, This
<1>7. NothingElse'
  BY <1>0 DEF FreePastArray, Goes, ConnectionsToFree, IsForm, NothingElse, NumbersFit, Preparing, HaveFits, Left, Owned, FirstPayload, This, Nth
<1> QED BY <1>1, <1>2, <1>3, <1>4, <1>5, <1>6, <1>7 DEF IInv, Sane

LEMMA FreeProtocolInvariant ==
  ASSUME IInv, TypeOK, TypeOK', FreeProtocol
  PROVE  IInv'
<1> USE ClientSetupAssumption DEF TypeOK, numbers, Places, Wild
<1>0. main \notin Wild /\ NumbersFit /\ HaveFits /\ PayloadsLive /\ ConnectionsLive /\ ClientLive /\ NothingElse
  BY DEF IInv, Sane, FreeProtocol, Goes, DestroysProtocol, ReadsEmptyFront, ConnectionsToFree, IsForm
<1>1. NumbersFit'
  BY <1>0 DEF FreeProtocol, Goes, DestroysProtocol, ReadsEmptyFront, ConnectionsToFree, IsForm, NumbersFit, Preparing, StartNumbers
<1>2. HaveFits'
  BY <1>0 DEF FreeProtocol, Goes, DestroysProtocol, ReadsEmptyFront, ConnectionsToFree, IsForm, HaveFits
<1>3. SetUpSurvives'
  <2>1. main' \in {"freeClient", "wildFront"} /\ UNCHANGED numbers BY DEF FreeProtocol, Goes
  <2>2. ASSUME main' = "wildFront" PROVE library = "tcp" /\ clientMax = 0
    <3>1. /\ main = "freeConnections" /\ "protocol" \in have /\ cnt > ConnectionsToFree
          /\ library = "tcp" /\ connections # <<>>
      BY <2>2 DEF FreeProtocol, Goes, ReadsEmptyFront
    <3>2. Deque(cnt, numClients) BY <1>0, <3>1 DEF ConnectionsLive, FirstConnection
    <3>3. cnt <= numClients BY <3>1, <3>2 DEF Deque
    <3>4. IsForm /\ clientMax < numClients BY <3>1, <3>3 DEF ConnectionsToFree
    <3>5. front \in {"kylix", "borland"} BY <3>4 DEF IsForm
    <3>6. /\ front = "kylix" => clientMax = 0 \/ clientMax = numClients
          /\ front = "borland" => clientMax = 0 \/ clientMax >= numClients
      BY <1>0 DEF NumbersFit
    <3> QED BY <3>1, <3>4, <3>5, <3>6
  <2> QED BY <2>1, <2>2 DEF SetUpSurvives
<1>4. PayloadsLive'
  BY <1>0 DEF FreeProtocol, Goes, DestroysProtocol, ReadsEmptyFront, ConnectionsToFree, IsForm, PayloadsLive, HaveFits, FirstPayload, This, Nth
<1>5. ConnectionsLive'
  BY <1>0 DEF FreeProtocol, Goes, DestroysProtocol, ReadsEmptyFront, ConnectionsToFree, IsForm, ConnectionsLive, HaveFits, FirstConnection, Deque, This, Nth
<1>6. ClientLive'
  <2>1. /\ UNCHANGED start /\ have' \subseteq have
        /\ live' = live \/ live' = live \ ({This("protocol"), This("protocolLibrary")}
                                              \cup {Nth("socket", j) : j \in InDeque})
    BY DEF FreeProtocol, Goes, DestroysProtocol
  <2>2. {This("clientLibrary"), This("client")} \cap
          ({This("protocol"), This("protocolLibrary")} \cup {Nth("socket", j) : j \in InDeque}) = {}
    BY DEF This, Nth
  <2>3. "client" \in have' => {This("clientLibrary"), This("client")} \subseteq live'
    BY <1>0, <2>1, <2>2 DEF ClientLive
  <2> QED BY <2>1, <2>3, SameStart DEF ClientLive
<1>7. main' \notin Wild => NothingElse'
  <2> SUFFICES ASSUME main' \notin Wild PROVE NothingElse' OBVIOUS
  <2>1. /\ have' = have \ {"protocol"} /\ UNCHANGED <<start, numClients, failed, front>>
        /\ main = "freeConnections" /\ main' = "freeClient" /\ "payload" \notin have
    BY <1>0 DEF FreeProtocol, Goes, HaveFits
  <2>2. /\ live' \subseteq live
        /\ "protocol" \in have => live' \cap {This("protocol"), This("protocolLibrary")} = {}
    BY DEF FreeProtocol, DestroysProtocol
  <2>3. ASSUME NEW o \in live'
        PROVE  o[2] <= start /\ (Left(o)' \/ Owned(o)')
    <3>1. o \in live /\ o \in Objects BY <2>2
    <3>2. o[2] <= start BY <1>0, <3>1 DEF NothingElse
    <3>3. CASE Left(o) BY <2>1, <3>2, <3>3 DEF Left
    <3>4. CASE Owned(o)
      <4>1. o = Nth(o[1], o[3]) BY <3>1, <3>4, ObjectNamed DEF Owned
      <4>2. ~(o[1] \in {"protocolLibrary", "protocol"} /\ o[3] = 0 /\ "protocol" \in have)
        BY <2>2, <2>3, <4>1 DEF This, Nth
      <4> QED BY <2>1, <3>2, <3>4, <4>2 DEF Owned
    <3> QED BY <1>0, <3>1, <3>3, <3>4 DEF NothingElse
  <2> QED BY <2>1, <2>3 DEF NothingElse
<1> QED BY <1>1, <1>2, <1>3, <1>4, <1>5, <1>6, <1>7 DEF IInv, Sane

LEMMA FreeClientInvariant ==
  ASSUME IInv, TypeOK, TypeOK', FreeClient
  PROVE  IInv'
<1> USE ClientSetupAssumption DEF TypeOK, numbers, Places, Wild
<1>0. main \notin Wild /\ NumbersFit /\ HaveFits /\ PayloadsLive /\ ConnectionsLive /\ ClientLive /\ NothingElse
  BY DEF IInv, Sane, FreeClient
<1>1. NumbersFit'
  BY <1>0 DEF FreeClient, NumbersFit, Preparing, StartNumbers
<1>2. HaveFits'
  BY <1>0 DEF FreeClient, HaveFits
<1>3. SetUpSurvives'
  BY <1>0 DEF FreeClient, SetUpSurvives, NumbersFit, Preparing
<1>4. PayloadsLive'
  BY <1>0 DEF FreeClient, PayloadsLive, HaveFits, FirstPayload, This, Nth
<1>5. ConnectionsLive'
  BY <1>0 DEF FreeClient, ConnectionsLive, HaveFits, FirstConnection, Deque, This, Nth
<1>6. ClientLive'
  BY <1>0 DEF FreeClient, ClientLive, HaveFits, This
<1>7. NothingElse'
  <2>1. /\ have' = {} /\ UNCHANGED <<start, failed, front>> /\ have \subseteq {"client"}
        /\ main = "freeClient" /\ main' \in {"idle", "ended"}
        /\ live' = live \ {This("client"), This("clientLibrary"), This("network")}
    BY <1>0 DEF FreeClient, HaveFits
  <2>2. ASSUME NEW o \in live'
        PROVE  o[2] <= start /\ Left(o)'
    <3>1. o \in live /\ o \in Objects /\ o \notin {This("client"), This("clientLibrary"), This("network")}
      BY <2>1
    <3>2. o[2] <= start BY <1>0, <3>1 DEF NothingElse
    <3>3. CASE Left(o) BY <2>1, <3>2, <3>3 DEF Left
    <3>4. CASE Owned(o)
      <4>1. o = Nth(o[1], o[3]) BY <3>1, <3>4, ObjectNamed DEF Owned
      <4>2. ~(o[1] \in {"client", "clientLibrary", "network"} /\ o[3] = 0) BY <3>1, <4>1 DEF This, Nth
      <4> QED BY <2>1, <3>4, <4>2 DEF Owned
    <3> QED BY <1>0, <3>1, <3>3, <3>4 DEF NothingElse
  <2> QED BY <2>1, <2>2 DEF NothingElse
<1> QED BY <1>1, <1>2, <1>3, <1>4, <1>5, <1>6, <1>7 DEF IInv, Sane

LEMMA InitInvariant == Init => IInv
<1> SUFFICES ASSUME Init PROVE IInv OBVIOUS
<1>1. TypeOK BY TypeInit
<1>2. main = "idle" /\ start = 0 /\ have = {} /\ live = {} /\ failed = [s \in StartNumbers |-> "none"]
  BY DEF Init
<1>3. NumbersFit
  <2>1. main \notin Preparing BY <1>2 DEF Preparing
  <2>2. front = "kylix" => clientMax = numClients
    BY DEF Init, FirstNumbers
  <2>3. front = "borland" => clientMax >= numClients
    BY ClientSetupAssumption DEF Init, FirstNumbers
  <2>4. \A s \in StartNumbers : failed[s] = "none" BY <1>2
  <2> QED BY <1>2, <2>1, <2>2, <2>3, <2>4 DEF NumbersFit
<1>4. HaveFits /\ SetUpSurvives BY <1>2 DEF HaveFits, SetUpSurvives
<1>5. Sane
  BY <1>2 DEF Sane, PayloadsLive, ConnectionsLive, ClientLive, NothingElse
<1> QED BY <1>1, <1>3, <1>4, <1>5 DEF IInv

\* Every action finds IInv and leaves it.
LEMMA NextInvariant == IInv /\ [Next]_vars /\ TypeOK' => IInv'
<1> SUFFICES ASSUME IInv, [Next]_vars, TypeOK' PROVE IInv' OBVIOUS
<1>0. TypeOK BY DEF IInv
<1>1. CASE Edit
  BY <1>0, <1>1, EditInvariant
<1>2. CASE Setup
  BY <1>0, <1>2, StartInvariant, LoadPayloadInvariant, InitializePayloadInvariant,
     PayloadRefusedInvariant, PayloadsReadyInvariant, LoadProtocolInvariant,
     CreateConnectionInvariant, KylixConnectionFailsInvariant,
     FirstConnectionFailsInvariant, LaterConnectionFailsInvariant,
     ConnectionsReadyInvariant, LoadClientInvariant DEF Setup
<1>3. CASE DestroyFirstAgain
  BY <1>0, <1>3, DestroyFirstAgainInvariant
<1>4. CASE LoopOverflows
  BY <1>0, <1>4, LoopOverflowsInvariant
<1>5. CASE ENTERorStop
  BY <1>0, <1>5, ENTERorStopInvariant
<1>6. CASE FormClose
  BY <1>0, <1>6, FormCloseInvariant
<1>7. CASE Cleanup
  BY <1>0, <1>7, FreePayloadInvariant, FreePayloadLibraryInvariant,
     FreeConnectionInvariant, FreePastArrayInvariant, FreeProtocolInvariant,
     FreeClientInvariant DEF Cleanup
<1>8. CASE UNCHANGED vars
  BY <1>0, <1>8, SameStart
  DEF vars, numbers, IInv, TypeOK, SetUpSurvives, NumbersFit, HaveFits, Sane, PayloadsLive, FirstPayload,
      ConnectionsLive, FirstConnection, Deque, ClientLive, NothingElse, Left, Owned
<1> QED BY <1>1, <1>2, <1>3, <1>4, <1>5, <1>6, <1>7, <1>8 DEF Next

\* The inductive invariant of the client's set-up.
THEOREM Invariance == Spec => []IInv
<1>1. Init => Typed BY TypeInit DEF Init, Typed, Preparing
<1>2. Typed => TypeOK BY DEF Typed
<1>3. Spec => []TypeOK BY <1>1, <1>2, TypedNext, PTL DEF Spec
<1> QED BY <1>3, InitInvariant, NextInvariant, PTL DEF Spec

\* Types, for any number of connections and starts.
THEOREM TypeCorrect == Spec => []TypeOK
<1>1. IInv => TypeOK BY DEF IInv
<1> QED BY <1>1, Invariance, PTL

\* Cleanup uses and destroys only what exists, and the front of the deque is
\* the connection it asks for.
THEOREM DestroysWhatExistsHolds == Spec => []DestroysWhatExists
<1>1. ASSUME IInv PROVE DestroysWhatExists
  <2> USE <1>1, ClientSetupAssumption DEF IInv, TypeOK
  <2>1. CASE main = "freePayloads" /\ "payload" \in have
    BY <2>1 DEF Wild, Sane, PayloadsLive, FirstPayload, DestroysWhatExists
  <2>2. CASE main = "freeConnections" /\ "protocol" \in have
    <3>1. {This("protocolLibrary"), This("protocol")} \subseteq live
      BY <2>2 DEF Wild, Sane, ConnectionsLive
    <3>2. ASSUME cnt <= numClients
          PROVE  Nth("socket", cnt) \in live /\ connections # <<>> /\ Head(connections) = cnt
      <4>1. Deque(cnt, numClients) /\ Nth("socket", cnt) \in live
        BY <2>2, <3>2 DEF Wild, Sane, ConnectionsLive, FirstConnection
      <4>2. Len(connections) >= 1 /\ connections[1] = cnt BY <3>2, <4>1 DEF Deque
      <4> QED BY <4>1, <4>2
    <3> QED BY <2>2, <3>1, <3>2 DEF DestroysWhatExists
  <2>3. CASE main = "freeClient" /\ "client" \in have
    BY <2>3 DEF Wild, Sane, ClientLive, DestroysWhatExists
  <2> QED BY <2>1, <2>2, <2>3 DEF DestroysWhatExists
<1> QED BY <1>1, Invariance, PTL

\* When no client runs, only the sockets and what two known failures leave
\* behind are not given back.
THEOREM GivenBackHolds == Spec => []GivenBack
<1>1. IInv => GivenBack
  BY DEF IInv, Wild, Sane, NothingElse, Left, Owned, HaveFits, GivenBack
<1> QED BY <1>1, Invariance, PTL

\* Memory that is not the program's is read only in the ways SetUpSurvives
\* lists.
THEOREM SetUpSurvivesHolds == Spec => []SetUpSurvives
<1>1. IInv => SetUpSurvives BY DEF IInv
<1> QED BY <1>1, Invariance, PTL

=============================================================================
