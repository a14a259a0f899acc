----------------------------- MODULE ClientSetup -----------------------------
(***************************************************************************)
(* How the client program gets and gives back what it works with: the      *)
(* allocate and cleanup functions of interface/cmdline/trafclient.cpp and  *)
(* of the Kylix and Borland forms, the two numbers a form shows, its Start *)
(* and Stop buttons, and the deque of connections kept by tcp_proto and    *)
(* udp_proto.                                                              *)
(*                                                                         *)
(* The user asks for a number of connections.  There is one payload handle *)
(* and one connection for each, all of one payload library and one         *)
(* protocol handle.  Loading, InitProtocol, CreateConnection and           *)
(* InitClient may fail.  What happens while the client runs is in          *)
(* FixedClient.                                                            *)
(***************************************************************************)
EXTENDS Integers, Sequences

CONSTANTS
  FrontEnds,   \* which of "cmdline", "kylix" and "borland" to look at
  MaxClients,  \* bound of the numbers the user gives
  MaxStarts    \* how often Start may be pressed

ASSUME ClientSetupAssumption ==
  /\ FrontEnds \subseteq {"cmdline", "kylix", "borland"}
  /\ MaxClients \in Nat \ {0} /\ MaxStarts \in Nat

VARIABLES
  front,       \* the front end
  library,     \* the protocol library, "tcp" or "udp"
  arguments,   \* what the payload library makes of its arguments
  numClients,  \* -n, or NumConnectionsEdit; 0 is text that is no number
  clientMax,   \* -cmax, or ClientMaxEdit
  main,        \* where the main thread is
  after,       \* where it goes at the end of cleanup
  cnt,         \* its loop variable
  start,       \* the starts so far
  failed,      \* for each start, the call whose failure ended it, or "none"
  have,        \* which of cp, cd and cc are not NULL
  connections, \* tcp_proto::connections of the handle in use
  live         \* objects, libraries and sockets that exist, as <<kind, start, i>>

numbers == <<front, library, arguments, numClients, clientMax>>
vars == <<numbers, main, after, cnt, start, failed, have, connections, live>>

Entries == 1..MaxClients
StartNumbers == 1..MaxStarts
Kinds == {"payloadLibrary", "payload", "protocolLibrary", "protocol", "socket",
          "clientLibrary", "client", "network"}
Objects == Kinds \X StartNumbers \X (0..MaxClients)
Wild == {"wildPayload", "wildArray", "wildFront"}
Places ==
  {"idle", "loadPayload", "payloads", "protocol", "connect", "again", "client",
   "running", "freePayloads", "freeConnections", "freeClient", "ended"} \cup Wild

\* An object of the start that is under way.
This(kind) == <<kind, start, 0>>
Nth(kind, i) == <<kind, start, i>>

TypeOK ==
  /\ front \in FrontEnds /\ library \in {"tcp", "udp"} /\ arguments \in {"accepted", "refused"}
  /\ numClients \in 0..MaxClients /\ clientMax \in 0..MaxClients
  /\ main \in Places
  /\ after \in {"idle", "ended"}
  /\ cnt \in 1..(MaxClients + 1) /\ start \in 0..MaxStarts
  /\ failed \in [StartNumbers -> {"none", "payload", "connection"}]
  /\ have \subseteq {"payload", "protocol", "client"}
  /\ connections \in Seq(Entries)
  /\ live \subseteq Objects

\* The command line gives at least one client (client_config.cpp:89) and any
\* -cmax, 0 when there is none.  The Kylix form opens with twice the same
\* number, the Borland form with 1 connection and a maximum of 1000.
FirstNumbers(n, m) ==
  /\ n >= 1
  /\ front = "kylix" => m = n
  /\ front = "borland" => n = 1 /\ m = MaxClients

Init ==
  /\ front \in FrontEnds /\ library \in {"tcp", "udp"} /\ arguments \in {"accepted", "refused"}
  /\ numClients \in 0..MaxClients /\ clientMax \in 0..MaxClients
  /\ FirstNumbers(numClients, clientMax)
  /\ main = "idle" /\ after = "ended" /\ cnt = 1 /\ start = 0
  /\ failed = [s \in StartNumbers |-> "none"]
  /\ have = {}
  /\ connections = <<>> /\ live = {}

-----------------------------------------------------------------------------
(***************************************************************************)
(* The form while its SettingsPanel is enabled                             *)
(***************************************************************************)
IsForm == front # "cmdline"
AtRest == UNCHANGED <<front, library, main, after, cnt, start, failed, have, connections, live>>

\* The payload's fields may hold anything.
EditPayload ==
  /\ IsForm /\ main = "idle"
  /\ arguments' \in {"accepted", "refused"}
  /\ AtRest /\ UNCHANGED <<numClients, clientMax>>

\* Kylix: the maximum follows the number of connections.
KylixEditConnections ==
  /\ front = "kylix" /\ main = "idle"
  /\ \E n \in 0..MaxClients : numClients' = n /\ clientMax' = n
  /\ AtRest /\ UNCHANGED arguments

\* Borland: it follows only a number above 0.
BorlandEditConnections ==
  /\ front = "borland" /\ main = "idle"
  /\ \E n \in 0..MaxClients :
       numClients' = n /\ clientMax' = IF n < 1 THEN clientMax ELSE n
  /\ AtRest /\ UNCHANGED arguments

\* Mutant of EditMaximum: the number of connections does not follow.
EditMaximumOnly ==
  /\ IsForm /\ main = "idle"
  /\ \E m \in 0..MaxClients : clientMax' = m /\ UNCHANGED numClients
  /\ AtRest /\ UNCHANGED arguments

\* The number of connections follows a maximum above 0.
EditMaximum ==
  /\ IsForm /\ main = "idle"
  /\ \E m \in 0..MaxClients :
       clientMax' = m /\ numClients' = IF m < 1 THEN numClients ELSE m
  /\ AtRest /\ UNCHANGED arguments

-----------------------------------------------------------------------------
(***************************************************************************)
(* Starting                                                                *)
(***************************************************************************)
Goes(pc) == main' = pc /\ UNCHANGED <<numbers, after, start>>

\* An error return before anything is kept: the program returns, the form
\* enables its panel again.
GiveUp == IF IsForm THEN "idle" ELSE "ended"

\* Error returns that first call cleanup.
CleansUp ==
  /\ main' = "freePayloads" /\ after' = GiveUp /\ cnt' = 1
  /\ UNCHANGED <<numbers, start>>

Fails(call) == failed' = [failed EXCEPT ![start] = call]

\* main() of the command line, or StartBitBtnClick, which refuses fewer than
\* one connection: the arrays get one entry for each client.
Start ==
  /\ main = "idle" /\ start < MaxStarts /\ numClients >= 1
  /\ main' = "loadPayload" /\ start' = start + 1
  /\ UNCHANGED <<numbers, after, cnt, failed, have, connections, live>>

LoadPayload ==
  /\ main = "loadPayload"
  /\ \/ Goes(GiveUp) /\ UNCHANGED live
     \/ Goes("payloads") /\ live' = live \cup {This("payloadLibrary")}
  /\ cnt' = 1
  /\ UNCHANGED <<failed, have, connections>>

\* Mutant of InitializePayload: the loop does not count.
InitializePayloadAgain ==
  /\ main = "payloads" /\ cnt <= numClients /\ arguments = "accepted"
  /\ Goes("payloads")
  /\ live' = live \cup {Nth("payload", cnt)}
  /\ UNCHANGED <<cnt, failed, have, connections>>

InitializePayload ==
  /\ main = "payloads" /\ cnt <= numClients /\ arguments = "accepted"
  /\ Goes("payloads") /\ cnt' = cnt + 1
  /\ live' = live \cup {Nth("payload", cnt)}
  /\ UNCHANGED <<failed, have, connections>>

\* The library refuses its arguments, which are the same for all entries, so
\* it is the first that fails.  "delete tmp[0].pld" reads an entry that
\* nobody has set; when that happens to be NULL nothing is deleted.
PayloadRefused ==
  /\ main = "payloads" /\ cnt = 1 /\ arguments = "refused"
  /\ Goes(GiveUp) \/ Goes("wildPayload")
  /\ Fails("payload")
  /\ UNCHANGED <<cnt, have, connections, live>>

\* The array is complete; InitNetwork.
PayloadsReady ==
  /\ main = "payloads" /\ cnt > numClients
  /\ Goes("protocol") /\ cnt' = 1
  /\ have' = {"payload"}
  /\ live' = live \cup {This("network")}
  /\ UNCHANGED <<failed, connections>>

\* The protocol's library is loaded and InitProtocol called.  When either
\* fails nothing of the two remains.
LoadProtocol ==
  /\ main = "protocol"
  /\ \/ CleansUp /\ UNCHANGED <<connections, live>>
     \/ /\ Goes("connect") /\ UNCHANGED cnt
        /\ connections' = <<>>
        /\ live' = live \cup {This("protocolLibrary"), This("protocol")}
  /\ UNCHANGED <<failed, have>>

\* Mutant of CreateConnection: the new connection is put at the front.
CreateConnectionInFront ==
  /\ main = "connect" /\ cnt <= numClients
  /\ Goes("connect") /\ cnt' = cnt + 1
  /\ connections' = <<cnt>> \o connections
  /\ live' = live \cup {Nth("socket", cnt)}
  /\ UNCHANGED <<failed, have>>

\* tcp_proto::create_connection succeeds.
CreateConnection ==
  /\ main = "connect" /\ cnt <= numClients
  /\ Goes("connect") /\ cnt' = cnt + 1
  /\ connections' = Append(connections, cnt)
  /\ live' = live \cup {Nth("socket", cnt)}
  /\ UNCHANGED <<failed, have>>

(***************************************************************************)
(* DestroyProtocol and the delete of the protocol object.  The destructors *)
(* of tcp_proto and udp_proto delete every connection in the deque.        *)
(* udp_proto looks for a next one only in a deque that has one; tcp_proto  *)
(* takes the front of the empty deque, which may be anything.              *)
(***************************************************************************)
InDeque == {connections[i] : i \in DOMAIN connections}

ReadsEmptyFront == library = "tcp" /\ connections # <<>>

DestroysProtocol ==
  /\ connections' = <<>>
  /\ live' = live \ ({This("protocol"), This("protocolLibrary")}
                       \cup {Nth("socket", i) : i \in InDeque})

\* CreateConnection fails in a Kylix form: only the protocol object is
\* deleted, the calls that destroy connections and handle are commented out.
KylixConnectionFails ==
  /\ main = "connect" /\ cnt <= numClients /\ front = "kylix"
  /\ CleansUp /\ Fails("connection")
  /\ live' = live \ {This("protocolLibrary")}
  /\ UNCHANGED <<have, connections>>

\* The first CreateConnection fails on the command line or in Borland.
FirstConnectionFails ==
  /\ main = "connect" /\ cnt = 1 /\ front # "kylix"
  /\ CleansUp /\ Fails("connection")
  /\ DestroysProtocol
  /\ UNCHANGED have

\* A later one fails: the loop that is to destroy the connections made so
\* far counts cnt up and not cnt2.
LaterConnectionFails ==
  /\ main = "connect" /\ cnt \in 2..numClients /\ front # "kylix"
  /\ Goes("again") /\ Fails("connection")
  /\ UNCHANGED <<cnt, have, connections, live>>

\* tcp_proto::destroy_connection: the deque is searched for the connection,
\* and when it is there the front is erased.  The connection itself is not
\* deleted, so its socket stays open.
Erases(i) ==
  connections' = IF i \in InDeque THEN Tail(connections) ELSE connections

\* A turn of that loop, always for tmp[0].
DestroyFirstAgain ==
  /\ main = "again"
  /\ Erases(1)
  /\ UNCHANGED <<numbers, main, after, cnt, start, failed, have, live>>

\* cnt overflows, which has no defined result: the loop may go on or end.
LoopOverflows ==
  /\ main = "again" /\ 1 \notin InDeque
  /\ \/ CleansUp
     \/ /\ ReadsEmptyFront /\ Goes("wildFront") /\ UNCHANGED cnt
  /\ DestroysProtocol
  /\ UNCHANGED <<failed, have>>

ConnectionsReady ==
  /\ main = "connect" /\ cnt > numClients
  /\ Goes("client")
  /\ have' = have \cup {"protocol"}
  /\ UNCHANGED <<cnt, failed, connections, live>>

\* allocate_clients: InitClient refuses a maximum of 0 (fixed_client.cpp:13).
LoadClient ==
  /\ main = "client"
  /\ \/ CleansUp /\ UNCHANGED <<have, live>>
     \/ /\ clientMax >= 1 /\ Goes("running") /\ UNCHANGED cnt
        /\ have' = have \cup {"client"}
        /\ live' = live \cup {This("clientLibrary"), This("client")}
  /\ UNCHANGED <<failed, connections>>

-----------------------------------------------------------------------------
(***************************************************************************)
(* Stopping, and cleanup( cp, cd, cc )                                     *)
(***************************************************************************)
ENTERorStop ==
  /\ main = "running"
  /\ CleansUp
  /\ UNCHANGED <<failed, have, connections, live>>

\* The form's window is closed: cleanup, whatever the form is doing.
FormClose ==
  /\ IsForm /\ main \in {"idle", "running"}
  /\ main' = "freePayloads" /\ after' = "ended" /\ cnt' = 1
  /\ UNCHANGED <<numbers, start, failed, have, connections, live>>

\* Mutant of FreePayload: the loop stops one entry short.
FreePayloadExceptLast ==
  /\ main = "freePayloads" /\ "payload" \in have /\ cnt <= numClients
  /\ Goes("freePayloads") /\ cnt' = cnt + 1
  /\ live' = IF cnt = numClients THEN live ELSE live \ {Nth("payload", cnt)}
  /\ UNCHANGED <<failed, have, connections>>

FreePayload ==
  /\ main = "freePayloads" /\ "payload" \in have /\ cnt <= numClients
  /\ Goes("freePayloads") /\ cnt' = cnt + 1
  /\ live' = live \ {Nth("payload", cnt)}
  /\ UNCHANGED <<failed, have, connections>>

\* The payload library is closed and the array deleted.
FreePayloadLibrary ==
  /\ main = "freePayloads"
  /\ \/ "payload" \notin have /\ UNCHANGED live
     \/ "payload" \in have /\ cnt > numClients /\ live' = live \ {This("payloadLibrary")}
  /\ Goes("freeConnections") /\ cnt' = 1
  /\ have' = have \ {"payload"}
  /\ UNCHANGED <<failed, connections>>

\* The loop over the connections: the forms count to the client's maximum.
ConnectionsToFree == IF IsForm THEN clientMax ELSE numClients

FreeConnection ==
  /\ main = "freeConnections" /\ "protocol" \in have /\ cnt <= ConnectionsToFree
  /\ cnt <= numClients
  /\ Goes("freeConnections") /\ cnt' = cnt + 1
  /\ Erases(cnt)
  /\ UNCHANGED <<failed, have, live>>

\* An entry past the array may hold anything: NULL, or pointers to follow.
FreePastArray ==
  /\ main = "freeConnections" /\ "protocol" \in have /\ cnt <= ConnectionsToFree
  /\ cnt > numClients
  /\ Goes("freeConnections") \/ Goes("wildArray")
  /\ cnt' = cnt + 1
  /\ UNCHANGED <<failed, have, connections, live>>

FreeProtocol ==
  /\ main = "freeConnections"
  /\ \/ "protocol" \notin have /\ Goes("freeClient") /\ UNCHANGED <<connections, live>>
     \/ /\ "protocol" \in have /\ cnt > ConnectionsToFree
        /\ Goes("freeClient") \/ (ReadsEmptyFront /\ Goes("wildFront"))
        /\ DestroysProtocol
  /\ have' = have \ {"protocol"}
  /\ UNCHANGED <<cnt, failed>>

\* The client goes last; ShutdownNetwork.
FreeClient ==
  /\ main = "freeClient"
  /\ main' = after
  /\ live' = live \ {This("client"), This("clientLibrary"), This("network")}
  /\ have' = {}
  /\ UNCHANGED <<numbers, after, cnt, start, failed, connections>>

Setup ==
  \/ Start \/ LoadPayload \/ InitializePayload \/ PayloadRefused \/ PayloadsReady
  \/ LoadProtocol \/ CreateConnection \/ KylixConnectionFails \/ FirstConnectionFails
  \/ LaterConnectionFails \/ ConnectionsReady \/ LoadClient

Cleanup ==
  \/ FreePayload \/ FreePayloadLibrary
  \/ FreeConnection \/ FreePastArray \/ FreeProtocol \/ FreeClient

Edit == EditPayload \/ KylixEditConnections \/ BorlandEditConnections \/ EditMaximum

Next ==
  \/ Edit \/ Setup \/ DestroyFirstAgain \/ LoopOverflows
  \/ ENTERorStop \/ FormClose \/ Cleanup

\* A handler that has begun goes on.  Nothing is assumed of the user, nor of
\* what an overflow does.
Spec == Init /\ [][Next]_vars /\ WF_vars(Setup /\ main # "idle") /\ WF_vars(Cleanup)

-----------------------------------------------------------------------------
(***************************************************************************)
(* Properties                                                              *)
(***************************************************************************)
Resting == {"idle", "running", "ended"} \cup Wild

\* What cleanup is about to use exists, and its library is still mapped: the
\* handle of every payload, then the library; every connection, then the
\* protocol handle; then the client.  The connection it destroys is the
\* front of the deque, which is the one tcp_proto::destroy_connection
\* erases whatever it is asked for (tcp_proto.cpp:74).
DestroysWhatExists ==
  /\ main = "freePayloads" /\ "payload" \in have =>
       /\ This("payloadLibrary") \in live
       /\ cnt <= numClients => Nth("payload", cnt) \in live
  /\ main = "freeConnections" /\ "protocol" \in have =>
       /\ {This("protocolLibrary"), This("protocol")} \subseteq live
       /\ cnt <= numClients /\ cnt <= ConnectionsToFree =>
            /\ Nth("socket", cnt) \in live
            /\ connections # <<>> /\ Head(connections) = cnt
  /\ main = "freeClient" /\ "client" \in have =>
       {This("clientLibrary"), This("client")} \subseteq live

\* When no client runs, all that is left of the starts before are the
\* sockets, which destroy_connection does not close, the library of a payload
\* that was refused (trafclient.cpp:79) and the protocol handle of a Kylix
\* form whose connection failed (kylix/traffic_client.cpp:311).
GivenBack ==
  main \in {"idle", "ended"} =>
    \A o \in live :
      \/ o[1] = "socket"
      \/ o[1] = "payloadLibrary" /\ failed[o[2]] = "payload"
      \/ o[1] = "protocol" /\ front = "kylix" /\ failed[o[2]] = "connection"

\* The program reads memory it does not own only in three ways: after a
\* payload was refused; when the TCP protocol is destroyed while the deque
\* still has a connection, for which the maximum must be no number or a
\* connection must have failed; and in the Borland form while its two
\* numbers differ.  The Kylix form keeps them together.
SetUpSurvives ==
  /\ main = "wildPayload" => failed[start] = "payload"
  /\ main = "wildFront" =>
       library = "tcp" /\ (clientMax = 0 \/ failed[start] = "connection")
  /\ main = "wildArray" => front = "borland" /\ clientMax > numClients

\* A start comes to an end: the client runs, or the program or the form has
\* given up and cleaned up; unless a later connection failed, when the loop
\* in allocate_protocol does not end (trafclient.cpp:141).
SetUpEnds == main = "loadPayload" ~> main \in Resting \cup {"again"}
=============================================================================
