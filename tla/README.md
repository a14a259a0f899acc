# Traffic generator: TLA+ models and proofs

The traffic generator is two programs. `trafserver` listens on TCP or UDP
ports, and answers every packet with a reply. `trafclient` opens connections,
sends generated payloads and waits for the reply to each before it sends the
next. Each program loads its parts as shared libraries: a protocol (`tcp`,
`udp`), and a server (`basic`) with a reply (`ack`, `echo`), or a client
(`fixed`) with a payload (`fixed`, `increasing`, `random`). Command line, Kylix
and Borland front ends drive the same libraries.

The code has threads and no lock. What keeps it correct is *order*: who joins
which thread before which object is deleted and which library is unloaded, and
at the two ends of a connection, strict turns. That order is what the modules
describe, the runs check and the theorems prove.

## Inventory

| component | state it keeps | operations | modelled in |
|---|---|---|---|
| thread class, `os/linux/threads.cpp` | `status`, `stopping`, the pthread | `Start`, `Stop` (sets `stopping`, joins), destructor (calls `Stop`) | `MThread`; abstract: `ThreadLife` |
| basic server, `server/basic` | an array of `server_listener` threads, each with a deque of `server_client` threads; a reply handle for each client | `InitServer`, `StartServer`, `StopServer`, `DestroyServer`, `ServerTransferedData`, both `Run()` | `BasicServer` (threads), `Exchange` and `UdpExchange` (packets) |
| server front ends, `trafserver.cpp`, `kylix/traffic_server.cpp`, `borland/server_gui.cpp` | loaded libraries, protocol handles, listening sockets, the map `known_prot` | allocate, start, stop, `cleanup`, timer, close of the window | `ServerSetup` (one start and its `cleanup`), `ServerForm` (many, and the ports in use), main thread of `BasicServer` (the rest) |
| fixed client, `client/fixed` | an array of `fixed_workers` threads | `InitClient`, `StartClient`, `StopClient`, `DestroyClient`, `Run()`, data counters, `ResetClientSequence` | `FixedClient` (threads), `Exchange` and `UdpExchange` (packets) |
| client front ends, `trafclient.cpp`, `kylix/traffic_client.cpp`, `borland/client_gui.cpp` | libraries, connections, payload handles, the numbers a form shows | allocate, start, stop, `cleanup`, edits, close of the window | `ClientSetup`; main thread of `FixedClient` |
| packet reader, `protocols/loadprotocol.cpp` | a call's buffer and byte count | `SendConnectionData`, `ReceiveConnectionData`, `GetCurrentReadPacketSize`, `ReadPacketData` | `PacketStream` (bytes), `UdpExchange` (datagrams) |
| replies, `reply/ack`, `reply/echo` | the last reply's size and buffer | `InitReply`, `GetReply`, `DeleteReply`, `DestroyReply` | inside `Exchange`, `UdpExchange` and `BasicServer` |
| TCP protocol, `protocols/tcp` | sockets, byte counters, deques of servers and connections | `create`, `listen`, `accept`, `read`, `write`, `ready`, `destroy_*`, `transfered` | `PacketStream` for read, write and ready; `ServerSetup` for listen and the deque of servers; `ServerForm` for accept; `ClientSetup` and `FixedClient` for the deque of connections |
| UDP protocol, `protocols/udp` | one socket for each client connection, one for a server and all its peers, the last peer's address | the same; a server accepts once | `UdpExchange`; `ClientSetup` for the deque of connections |
| payloads, `payload/*` | current size, a buffer | `InitializePayload`, `GetPayload`, `ReleasePayload`, `ResetPayloadSequence`, `DestroyPayload` | `Payload`; their handles also in `FixedClient` and `ClientSetup` |
| command line, `client_config.cpp`, `server_config.cpp` | the options, as positions in `argv` and numbers | two loops over the arguments, then checks | `CommandLine` |
| library path, `os/linux/libpath.cpp` | the directory given with `-L` | the look-up of a plug-in | `CommandLine` |
| forms, Kylix and Borland | widgets, the list of protocols, three pointers | the handlers of buttons and fields | `ServerForm`, `ClientSetup` |
| library loaders, `load*.cpp`, `dlfunc.cpp` | handles and symbols | `dlopen`, `dlsym` | only *when* a library is mapped; the rest is I/O |
| test programs, build files | | | no |

How they interact: the front end's main thread calls the server or client
library; that library's threads call the protocol library (through
`loadprotocol.cpp`) and the reply or payload library. Main and worker threads
share thread objects (`status`, `stopping`), the deque of clients of a
listener, the payload and protocol handles, and the mapped libraries. Client
and server processes share two byte streams for each TCP connection, or the
datagrams that reach one UDP socket.

What is hard, and which property is about it:

* *Interleaving.* Every step of `Start` and `Stop` interleaves with the new
  thread; a listener accepts while it is being stopped; a timer walks a deque
  that a listener pushes to. `ThreadsLiveOnce`, `NoDequeRace`,
  `StoppedListenerAcceptsNone`.
* *Freeing in order.* Objects, reply handles, payloads, connections and
  libraries are freed while threads that use them may run, and a connection is
  found in one place of a deque and erased from another. `NoUseAfterFree`,
  `DequesHoldObjects`, `DestroyServerStopsAll`, `OnlySocketsLeft`,
  `StoppedClientIsSilent`, `DestroysWhatExists`.
* *Framing and turns.* Packets are read from a byte stream with a reader that
  asks for more bytes than the packet has; over UDP one address and one socket
  serve all peers; each end blocks until the other writes. `WholePackets`,
  `OwnReply`, `InTurns`, `OneUnderWay`, `NeverBothWait`.
* *Failure.* Calls fail, datagrams are lost, reordered or find the socket full,
  a process exits, a write after a reset raises a signal. The same properties,
  and `ServerSurvives`.
* *Sharing and partial failure.* Entries of the server share protocol objects
  and handles, any of them may fail to load or to listen, and each must be
  destroyed once; a client's start can fail at the third connection of four.
  `EntriesExist`, `PortsFreed`, `ServesAll`, `RightPlugin`, `SendsItsPacket`,
  `SetUpSurvives`, and over many starts the two properties `GivenBack`.
* *Stale state.* `cleanup` counts by the number a field shows now, and the
  arrays were allocated by the number it showed then. `ServesWhatIsShown`,
  `SetUpSurvives`.
* *Counting.* Sizes are unsigned 32 bit numbers that may wrap; how often a
  packet is used depends on the order of increment, test and reset; a number on
  the command line is a `long` kept in an `int`. `HeaderFits`,
  `SizeAsDocumented`, `UsedTimeTimes`, `OptionsAsGiven`.
* *Ending.* Every stop joins a thread that may be blocked. `ServerEnds`,
  `ClientEnds`, `WorkersStop`, `Answered`, `SetUpEnds`.

`PROJECT.json` lists the hazards one by one, at their lines.

## Modules

    MThread   <- BasicServer  <- MCBasicServer, BasicServer_proofs
              <- FixedClient  <- MCFixedClient, FixedClient_proofs
    ThreadLife   is what BasicServer and FixedClient implement
    PacketStream <- Exchange  <- MCExchange, Exchange_proofs   (instantiated once per direction)
    UdpExchange  <- MCUdpExchange, UdpExchange_proofs
    RequestReply is what Exchange and UdpExchange implement
    Payload      <- MCPayload, Arguments_proofs
    ServerSetup  <- MCServerSetup, ServerSetup_proofs
    ServerForm   <- MCServerForm, ServerForm_proofs
    ClientSetup  <- MCClientSetup, ClientSetup_proofs
    CommandLine  <- MCCommandLine, Arguments_proofs            (proved next to Payload)

**MThread** is the thread class. `Start()` is two steps, `CreateThread` and
`MarkRunning`, because the new thread runs before the caller has set `status`
(`threads.cpp:29-31`). `Stop()` is `Stoppable`, `BeginStop` and `Join`. Next to
the fields of the class the module keeps the operating system thread (`os`:
none, live, returned, joined), which no field shows. It has no next-state
relation: its owners put its operators into their own steps.

**ThreadLife** is the abstract life of thread objects: constructed, run at most
once, destroyed, never destroyed while `Run()` executes.

**BasicServer** has one action for each stretch of `server_listener::Run` and
`server_client::Run` between two shared accesses, and one for each step of the
main thread, whose loops are a program counter `main` and the loop variable
`cnt`. `push_back` is two steps (`ListenerPushBegins`, `ListenerPushEnds`), so
that another thread can meet a deque that is being changed. `~server_listener`
is modelled as C++ runs it: the body deletes and pops clients, then the deque
member is destroyed (`DestroyDeque`), and only then `~MThread` joins the
listener's own thread. `fresh` is `tmp_client`, `replies` the reply handles
that exist, `loaded` the libraries and the protocol handle. Socket calls are
their possible results; a client whose peer has closed can enter `spin`, the
loop of `ReadPacketData` that ignores `stopping`.

**FixedClient** is the same for the client, whose `cleanup` has the opposite
order: payloads, connections and libraries go first and the client last.
`conns` are the entries of the array of connections that are not NULL, `listed`
the deque of the protocol handle and `sockets` the connection objects with their
sockets. `destroy_connection` only erases the front of the deque
(`DestroyConnection`); the objects are deleted by the destructor of the protocol,
which deletes what it finds in the deque (`DestroyProtocol`), and by then
`cleanup` has emptied it.

**PacketStream** is one direction of a connection: the bytes in flight, and
each reader's call of `ReadPacketData` in three steps (`Peek`, `Recv`,
`Complete`). A byte carries its packet's tag and size and its offset, which is
enough to tell whether a piece of the stream is a packet. `recv` may return any
non-empty part of what it is asked for, and it is asked for `len-total` bytes,
the room left in the buffer, as in the code. A peek of fewer than `HeaderLen`
bytes leaves the rest of `tmp` uninitialised: `HeaderSizes` allows any size of
`LeftOver`, or no header.

**Exchange** puts two `PacketStream`s between the workers of a client and one
`server_client`, with processes that may exit, calls that fail, resets and
SIGPIPE (Linux TCP, modelled from how the code uses it).

**UdpExchange** is the same exchange over datagrams. A datagram is its tag, the
size its header tells and the bytes it has. Each worker has a connected socket;
the server has one queue of bounded length, and `udp_server` accepts once
(`ReadyToAccept`, `server_ok`), so one `server_client` serves every peer. A
read of the server is a peek and a `recvfrom`, both of which set `addr`, and
the reply goes to the last of them (`HeardFrom`). `With` is `recvfrom` into a
buffer that may be too small. The network loses and reorders, and a full queue
drops; it does not duplicate, and what it lost is in the history variable
`lost`. `sendto` refuses what is longer than `MaxDatagram`.

**RequestReply** is what both ends promise: ask, answer, accept, in turns. Over
TCP it is checked for the one worker of a connection, over UDP for each worker
that shares the server's socket.

**Payload** is one handle of a payload plug-in and the workers that use it. A
call of `GetPayload` is one step, either with the old packet (`GetsOldPacket`)
or with a new one (`GetsNewPacket`), or it returns NULL (`GetsNothing`, the
random payload whose minimum is its maximum). `told` is the variable `size` of
a worker's `Run()`: it is declared inside the loop and never initialised, but
keeps its place on the stack, so it holds what an earlier turn left there. The
increasing and random plug-ins rely on that, because they store the size only
with a new packet. `calls` and `uses` count for the properties, and decide
nothing.

**ServerSetup** is the server's front end before and after the threads of
`BasicServer` run: `allocate_protocol` entry by entry, where each step may
fail (`LoadFails`, `InitProtocolFails`, `FirstListen`, `ListenAgain`),
`InitServer`, which refuses an entry that is not whole, and the loop of
`cleanup` with the destructor of `tcp_proto`. Objects are named by the entry
they were created for, so an entry that shares has the name of another in
`proto` and `handle`. `KeysFreed` distinguishes the forms from the command
line: they delete the string that is the key of a map entry before they look
the next one up, and `Found` then is any entry or none.

**ServerForm** is the two server forms over any number of presses. A handler
runs to its end before the next event, so each is one step: `TypePort`,
`PortUpDownClick`, `AddButtonClick`, `RemoveButtonClick`, `ClearButtonClick`,
`StartButtonClick`, `StopButtonClick`, `FormClose`. The state is what the
handlers read: the list, the enabled widgets, whether `sr`, `sp` and `ss` are
NULL, and the ports in use. `StartButtonClick` is any outcome
`ServerSetup` allows, the Kylix error return that leaves sockets bound
included; those go into the history variable `lost`.

A text for a port is the number that `ToIntDef` reads and how it is spelt. Kylix
has a spin edit, so that its texts are the decimal numbers 1 to 65534. Borland's
is a free text field, and `AddButtonClick` takes any text but one whose number is
0. `ListensOn` is what becomes of it: `atoi` reads no hexadecimal, `htons` drops
what is above 16 bits, and port 0 is any port that is free. So "70000" listens
on 4464 and "$1F90" anywhere, and "1" and "01" are two entries with one port,
because the list compares text.

`Accepts` is a connection that some client has opened. The server deletes its
structure, and nothing closes its socket (`server_client.cpp:31`), so after
`StopButtonClick` the port is in `kept`. `tcp_server.cpp:35` binds without
`SO_REUSEADDR`, which on Linux refuses such a port (`Refused`). `KNOWNBUGS:4`
says "Kylix version seems to do weird things when you press Stop and then Start
again", and the module has a behaviour that fits: a client connects, Stop, Start.
The entry cannot listen, `InitServer` refuses it (`NoServer`), and the Kylix
error path enables the Start button again but not the settings panel (`Fails`).
So the port cannot be changed any more, and every further Start is refused too.
Borland leaves its Stop button enabled, which enables the panel.

**ClientSetup** is the client's front ends. `allocate_payload`,
`allocate_protocol` and `allocate_clients` are one step for each object, each of
which may fail, with the error path of that front end as an action of its own
(`PayloadRefused`, `FirstConnectionFails`, `LaterConnectionFails`,
`KylixConnectionFails`). `live` holds what exists, named by its kind, the start
it belongs to and its number; `connections` is the deque of `tcp_proto` or
`udp_proto`, of which `destroy_connection` erases the front; `have` the pointers
that are not NULL. Undefined behaviour ends the modelled run in one of three
places (`wildPayload`, `wildArray`, `wildFront`), and `again` is the loop that
increments the wrong variable.

**CommandLine** is the two constructors that read `argv`: one step for a pair
of arguments, then the checks in their order (`ClientChecks`, `ServerChecks`)
with the error each raises. Tables say what the code reads out of an argument:
whether it starts with a dash, which option its first letters spell, what
`atol` returns. `set_library_path` is the look-up in `Installed` and `InLibDir`.

In all modules the operators introduced by the comment `Mutant of X` are not
part of the model. Each is a plausible wrong version of the definition below
it, and documents which property would notice.

## Runs

Runs that pass:

| run | instance | states | properties |
|---|---|---|---|
| `MCBasicServer` | 2 listeners, 2 connections, stopped and then cleaned up | 58,055 | `NoUseAfterFree DequesHoldObjects NoDequeRace DestroyServerStopsAll StoppedListenerAcceptsNone ThreadsLiveOnce ServerEnds` |
| `ServerGui` | 1 listener, 2 connections, timer, peers that leave, window that may close; clients symmetric | 54,702 | `NoUseAfterFree` |
| `ExchangeEcho` | 1 worker, echo, packets of 2, 3 and 4 bytes | 282 | `OwnReply InTurns Answered WorkersStop` |
| `ExchangeExits` | 1 worker, ack, failing calls, an oversize packet, both processes may exit | 41,248 | `WholePackets NeverBothWait ServerSurvives` |
| `MCUdpExchange` | 2 workers, 2 possible server threads, a queue of 1, loss, reordering, failing calls | 173,166 | `OneUnderWay OwnReply InTurns Answered` |
| `MCPayload` | 1 worker, three generators, 480 argument tuples each, 4 bit sizes | 178,064 | `HeaderFits SendsItsPacket SizeAsDocumented UsedTimeTimes` |
| `MCServerSetup` | 4 entries, 3 plug-ins (symmetric), any failure | 23,598 | `EntriesExist ServesAll PortsFreed RightPlugin` |
| `MCServerForm` | both forms, 2 plug-ins, 2 ports, texts that wrap or are hexadecimal, a list of up to 2, any number of presses and connections | 336,768 | `GivenBack ServesWhatIsShown` |
| `MCClientSetup` | three front ends, TCP and UDP, up to 3 connections, 2 starts, any failure | 33,291 | `DestroysWhatExists GivenBack SetUpSurvives SetUpEnds` |
| `MCFixedClient` | 3 workers on 2 connections, stopped or closed | 2,791 | `NoUseAfterFree OnlySocketsLeft StoppedClientIsSilent ThreadsLiveOnce ClientEnds` |
| `MCCommandLine` | both programs, every line two changes away from a good one | 59,987 | `AcceptsExactly OptionsAsGiven` |

What they show. `MCBasicServer` and `MCFixedClient`: in the order the code stops,
joins, deletes and unloads, nothing is used after it was freed, every thread
object is an instance of `ThreadLife`, and the program ends, the client unless a
worker's `send` or `recv` never returns; the client then leaves the socket of
every connection to the operating system, and nothing else. `ServerGui`: the
first of these stays true with the timer and with peers that leave.
`ExchangeEcho`, `ExchangeExits` and `MCUdpExchange`: packets and replies are
whole, belong together and take turns, and nobody waits for what will not
come while both ends are there. `MCPayload`: what is sent is what was
generated, of the size the help text promises. `MCServerSetup` and
`MCServerForm`: every mixture of failures is cleaned up after, but for the ports
that `lost` and `kept` name, and a running server serves the list on the screen,
where that shows the decimal number of a port. `MCClientSetup`: which failures leave
what behind, and the three ways, no more, in which a start can read memory it
does not own. `MCCommandLine`: a line is accepted exactly when it is complete.

One run has TLC refute a statement of the repository:

| run | statement | what the code does |
|---|---|---|
| `ServerTimerRace` | `KNOWNBUGS:18` lists the crash with new clients as done | the GUI's timer walks a deque while the listener pushes to it |

Bounds, and why they are enough. Two listeners and two connections give every
pair of actors (listener and listener, listener and main, client and client,
two clients in one deque or in two). One listener with two connections is
enough for what the GUI adds, which concerns one deque. Three workers on two
connections give a shared and an unshared payload. A header of 2 bytes is the
shortest that can be split; sizes of 2 to 4 bytes give an empty payload, a
packet that ends inside a `recv` and one that does not, and a size above
`MaxServerPacket` the refusal. Two tags tell two payloads apart. The number of
connections a listener accepts is bounded by `Clients`; turns repeat and the
state returns.

`MCUdpExchange` has two workers, the fewest that compete for the server's
address, and a queue of 1, which the second of them finds full. Its sizes are
an empty payload, the longest datagram and one that `sendto` refuses. Two
server threads would be enough to see a second accept.

`MCPayload` has `Word` 16 for 2^32, a header of 2 bytes for 8 and `RandMax` 7
for 2^31-1: the arguments lie below, at and above the header's size and
`RandMax`, and `Increments` includes one that wraps. `calls` stops counting at
`MaxCalls`; the assumption `RampsEnd` of `MCPayload` has TLC check that every
ramp has reached its maximum by then. Four entries give two pairs that share,
one shared by three, and failures before, between and after them.

`MCServerForm` has two ports, so that a press of Start can find one in use since
an earlier one, and two entries, which may share a plug-in, a port, or both by
two spellings; a longer list adds no other pair. `PortRange` 3 stands for 65536:
the number 4 wraps to port 1 and -1 to port 2, and 0 is refused. `MCClientSetup`
has three connections, so that the second of three can fail, with one before it
and one after it, and two starts, of which the second meets what the first left.
`MaxStarts` bounds `live` and `failed`, which are the only history. In
`MCCommandLine` two changes of a pair suffice for an option given twice, one
that is missing while another is wrong, a value that is an option, and a number
that wraps (`IntRange` is 65536, and the argument `wraps` is that number).

Fairness. Each thread has weak fairness on its own steps: pthreads are
scheduled, and no code gives one thread priority over another. In `FixedClient`
that excludes `WorkerSends` and `WorkerReceives`: calls on a socket have no
timeout (fixed_workers.cpp:51, loadprotocol.cpp:112), and whether they return is
up to the server. `ClientEnds` therefore says that the program exits or waits
for ever in the join of one worker that is in such a call, as can happen to
workers 1 and 3 of the instance, which share a connection; a worker anywhere else
ends, and cleanup does. When the reply does come is a matter of `Exchange`, where
both ends are modelled. `ClientSpins`
has none and needs none, being a step that changes nothing. In `ClientSetup`
the steps of a start and of `cleanup` are fair once begun, because they are one
thread's straight-line code. In `UdpExchange` the network is fair for each
worker: a datagram arrives, or is lost, which is a choice of that same step.
Nothing is assumed of the user, the timer, or failures. The liveness runs leave
out what refutes them, and this is worth knowing: with peers that leave
(`PeerMayLeave`) `ServerEnds` fails, because a `server_client` in the read loop
cannot be joined; with `ServerMayStop` a worker can wait for a reply for ever,
so `WorkersStop` fails; with payloads over 102400 bytes the server's thread ends
silently and `Answered` fails; with `ServerMayExit` `InTurns` fails, because
the end of the stream is accepted as a reply of no bytes, and the worker goes
round for ever. Over UDP a lost datagram, or a server thread that has returned,
leaves the worker in its read for ever: `Answered` says that nothing else does.

What the instances leave out because the code does not survive it:

* A header that arrives in two parts (`SplitHeaders`). The peek then reads
  uninitialised memory, and `OwnReply` fails.
* Two workers on one connection, which `client.h:15` allows. `recv` takes bytes
  of the next packet, the server gives up and the workers hang; and a client
  that exits then leaves two packets outstanding, the second reply is written
  after a reset, and `ServerSurvives` fails with SIGPIPE.
* Two workers on one payload handle. One sends a buffer the other has deleted,
  or with a size it was never told.
* Freed map keys (`KeysFreed`, the Kylix and Borland forms). `RightPlugin`
  fails; `ServerForm` allows the wrong plug-in, and its properties hold anyway.

`ServerGui` and `MCFixedClient` allow the window to close, but most properties
say `~closed`: what they check is that the rest of the program stays right when
that path exists. Without `~closed` TLC refutes them: `FormClose` calls
`cleanup` with the threads running, so that on the server `~server_listener`
deletes the clients while its thread accepts another, which survives
`DestroyServer`, and on the client payloads are freed under the workers.

`CHECK_DEADLOCK FALSE` stands where the system really stops: in `ExchangeExits`
and `MCUdpExchange`, where the other end may wait for ever; in `MCServerSetup`,
`MCServerForm` and `MCClientSetup`, whose program or form ends; and in
`MCCommandLine`, where the constructor returns.

## Theorems

The eight proof modules prove, for any number of listeners, connections,
workers, entries and list items, any plug-ins and ports, and any payload
arguments, packet sizes and word size:

| theorem | says |
|---|---|
| `TypeCorrect` (all eight), `ParserTypeCorrect` | `Spec => []TypeOK`, for `CommandLine` `ParserSpec => []ParserTypeOK` |
| `Invariance` (all but `Payload` and `ServerSetup`), `ParserInvariance` | the inductive invariant of the module |
| `NoUseAfterFreeHolds` (server and client) | `Spec => []NoUseAfterFree` |
| `DequesHoldObjectsHolds` | `Spec => []DequesHoldObjects` |
| `DestroyServerStopsAllHolds` | `Spec => []DestroyServerStopsAll` |
| `StoppedListenerAcceptsNoneHolds` | `Spec => StoppedListenerAcceptsNone` |
| `OnlySocketsLeftHolds` | `Spec => []OnlySocketsLeft`, also when the window is closed |
| `JoinsEndHolds` (server and client) | `Spec => []JoinsEnd`: whoever `pthread_join` waits for exists, was not joined before and has been told to stop; for the server without the window |
| `StoppedClientIsSilentHolds` | `Spec => StoppedClientIsSilent` |
| `NoDequeRaceHolds` | without timer and window, `Spec => []NoDequeRace` |
| `ThreadsLiveOnceHolds` (server and client) | `Spec => ThreadsLiveOnce`, the refinement of `ThreadLife`; for the server without the window |
| `WholePacketsHolds`, `OwnReplyHolds`, `ServerSurvivesHolds` | TCP, one worker and whole headers: `Spec => []WholePackets`, and so on, with either process leaving at any time |
| `NeverBothWaitHolds` | TCP and one worker: `Spec => []NeverBothWait`, whatever fails and whenever either process leaves |
| `InTurnsHolds` (TCP) | the same, while the server process stays: `Spec => InTurns`, the refinement of `RequestReply` |
| `OneUnderWayHolds`, `OwnReplyHolds` (UDP) | `Spec => []OneUnderWay`, `Spec => []OwnReply` |
| `InTurnsHolds` (UDP) | `Spec => InTurns`, the refinement of `RequestReply` by each worker |
| `SendsItsPacketHolds` | for one worker, `Spec => []SendsItsPacket` |
| `HeaderFitsHolds` | `Spec => []HeaderFits` |
| `UsedTimeTimesHolds` | `Spec => UsedTimeTimes` |
| `SizeAsDocumentedHolds` | where `MaxCalls` is past every ramp, `Spec => []SizeAsDocumented`, for any number of workers on the handle |
| `AcceptsExactlyHolds`, `OptionsAsGivenHolds` | `ParserSpec => []AcceptsExactly`, `ParserSpec => []OptionsAsGiven`, for every line of any length |
| `EntriesExistHolds`, `ServesAllHolds`, `PortsFreedHolds` | `Spec => []EntriesExist`, and so on |
| `RightPluginHolds` | where keys are not freed, `Spec => []RightPlugin` |
| `DestroysWhatExistsHolds`, `SetUpSurvivesHolds`, `GivenBackHolds` (client) | `Spec => []DestroysWhatExists`, and so on |
| `ServesWhatIsShownHolds`, `GivenBackHolds` (server forms) | `Spec => []ServesWhatIsShown`, `Spec => []GivenBack` |

Assumptions: `ServerAssumption` (a natural number of listeners, client objects
that are no listeners, three Boolean flags) and `ClientAssumption` (at least
one worker and one connection: `InitClient` refuses fewer, fixed_client.cpp:13,
and the command line refuses `-n` below 1, client_config.cpp:89). The set of
clients may be infinite. `PayloadAssumption` says that sizes are smaller than
`Word`, `SetupAssumption` that the number of entries is natural and `KeysFreed`
a Boolean, `FormAssumption` and `ClientSetupAssumption` the same of their
bounds, the former also that `MaxPort` is below `PortRange`, and that `Typed` are
texts with any integers as their numbers. `ExchangeAssumption` and `UdpExchangeAssumption` say that a payload has
room for its header, the latter also that the server's buffer has room for the
longest datagram (102400 and 65507 in the program). `CommandLineAssumption`
gives the tables their types and says that what spells an option starts with a
dash. `RampsEnd` is a hypothesis of `SizeAsDocumentedHolds` and concerns only
the bound `MaxCalls` of the counter: TLC finds it true of `MCPayload`'s
constants, and for any `Configs` of bounded sizes a `MaxCalls` meets it.

The argument for a TCP connection. `recv` may take more bytes than the packet
has, so a packet is whole only because no second one is ever in the stream, and
that depends on both ends. `IInv` speaks of `Ps`, the bytes the server's reader
has taken and those still in the stream, and `Pw`, the same for the worker: no
step of a reader changes either (`ReaderKeeps`). `ServerInv` says that `Ps` is
empty or one packet, `AskedInv` that it is the one the worker sent and that `Pw`
is empty or the reply to it, and `Unasked` that the server has nothing to do
now and will have nothing until it is asked. A worker about to send
(`QuietInv`), a reply on its way (`AnsweredInv`) and a reset sent to the server
(`LostInv`) each imply `Unasked`; the last is why it never writes again.
`ReaderOK` is what a call has established at each of its steps, the end of the
stream included. `NeverBothWait` needs one thing more, `Due`: while the worker
waits, its packet or the reply to it is in one of the streams or in somebody's
hands, or the server thread has ended.

The argument over UDP. `IInv` says where what belongs to a worker may be:
nowhere before it sends, and afterwards in one of five places, once (`Apart`,
`Single`). It carries what was sent or the reply to it (`PacketsTrue`,
`RepliesTrue`). There is one server thread (`OneThread`), so that the datagram
it peeked is the one it reads, and the address is that of the packet in its
hands (`ThreadsTrue`). That a waiting worker has exactly one packet or reply
under way, and not none, is `Kept`: no step of the network, of a worker or of a
thread forgets one. `Due` and `Kept` are the safety half of `Answered`.

The argument for the client's set-up. `NumbersFit` says how the two numbers of
a form are related and how far the loops have come, `HaveFits` which pointers
may be set at which place, and `Sane` that exactly the payloads, connections
and libraries up to the loop variable exist and that the deque lists the
connections in order. Then the connection `cleanup` asks for is the front of
the deque. All of it is claimed until memory is read that is not the program's.

The argument for the server forms. The two properties carry each other, with
`Held`: `lost` is bound, a running server has its sockets and the lost ones bound,
and accepts no connection once it is gone. Which widgets are enabled follows from
whether `ss` is NULL, so the list cannot change under a running server; that its
sockets are none of `lost` nor, in the Kylix form, of `kept` is what `bind`
refused (`Refused`). `Spun` says that the Kylix form has only texts of its spin
edit, whose ports `ListensOn` leaves alone (`SpinTextsAreDecimal`,
`DecimalIsKept`).

The argument for the server's set-up. `IInv` says that the proto and the handle
of a whole entry have the same name and exist, that the deque of that handle
has the entry's socket, and the converse: an open socket, or one in a deque,
belongs to a whole entry with that handle. So when `cleanup` destroys a handle,
the entries whose sockets close are exactly the one at hand and its `Sharers`,
which are no longer whole afterwards; entries before it are not whole already.
`RightPlugin` then follows with `Remembered`: an entry in the map owns its
protocol object.

The argument for command lines. `Parsed` relates the fields to the pairs before
`cnt`, not to the run of the loop that set them: each of those pairs is an
option with its value, and a field is what the last of them that names it says,
or its default. One turn of the loop adds one pair, so no induction over the
line is needed. At the end, the checks are all that a complete line asks for.

The argument for payloads. With one worker, `told` is the size of the buffer
whenever there is one, held or not, because only the call that makes a buffer
changes either. For `HeaderFits`, `cur` holds a header and one more step
stays below `Word`; for `UsedTimeTimes`, `uses` is
`sequence + 1` and at most `Often`. For `SizeAsDocumented` there is a number `n`
of packets already replaced: the size is that of the ramp after `n` steps, and
`calls` is `Often * n + uses` (`SizesFollow`), so that the step of `n` follows
from when a packet is replaced.

The argument for the server. None of the properties is inductive: that a live
client is not freed says nothing of what the main thread is about to do.
`IInv` adds (a) `Settled`, what `status` says of the operating system thread
behind it, except between `CreateThread` and `MarkRunning`, when the object is
in the hands of whoever starts it; (b) `ListenersStopped`, that in StopServer
the listeners below `cnt` have no live thread, and none has one when the
deleting begins, so that from then on nothing is pushed; (c)
`EveryClientOwned`, that every client object is in a deque or in `tmp_client`
on its way into one, and in one place only, which is why deleting the deques
deletes every client; (d) `FrontCoherent`, what has happened to the front
client at each step of its deletion. All of (a) to (d) is claimed only while
the window was not closed; types, and that `Head` and `Append` have operands,
hold always and are proved first. Each kind of step has its own lemma
(`ClientOrderly`, `MovesOrderly`, ..., `OnClientOrderly`). The client's proof
has the same shape with less state. Its `OnlySocketsLeft` needs `Freed` as well:
what each loop of `cleanup` and of `DestroyClient` has already freed, how far
`cnt` has come in the loop it is in, and that every loop begins at one; and
`Listed`, that the deque holds the connections from `cnt` on, so that the front
which is erased is the connection asked for (`FrontIs`), the deque is empty when
the protocol is destroyed, and no socket was closed.

`ServerEnds` and `ClientEnds` are liveness, but the part of them that could go
wrong in the code is safety, and proved: `JoinsEnd`, from `AskedToStop`, that
whoever is `STOPPING` was told so, and was told before it was joined.

Only model-checked: liveness under fairness, for which this prover has no
rules, that is `ServerEnds`, `ClientEnds`, `Answered`, `WorkersStop` and
`SetUpEnds`. TLC checks the instances above and no others. Every other property
of a passing run is a theorem.

## Not modelled

* The Windows thread class and the Windows `libpath.cpp`: other code for the
  same interface.
* The loaders: `dlopen` and a null test for each symbol. What matters of them,
  when a library is mapped, is in the modules that use it.
* Byte counters (`transfered`, `GetClientDataTransfered`): they are read for
  display. They count peeked bytes as read (tcp_connection.cpp:113).
* `ResetClientSequence`, which nothing calls, and functions that only forward.
* Which payload field of a form is enabled, help and about boxes, messages.
* Characters. A text is the number it stands for and one of the spellings that
  differ in what they do; `CommandLine` has tables. What `htons` does to a port
  is in `ServerForm` and not in `CommandLine`, which ends with the number.
* On Windows a port with connections is taken as free for `bind`, or not, as
  `Listening` may fail anyway; nothing is claimed of it.
* Test drivers and build files.

## Plan

1. *Done:* threads, server, client, both protocols, payloads, set-up and
   clean-up on both sides, the forms over many presses, command lines.
2. *Done:* proofs of every safety property and of every refinement, and of
   the safety half of three of the liveness properties.
3. Left: A composition of `ServerForm` with `BasicServer`, so that a second
   start meets threads that outlived the first, which so far rests on
   `DestroyServerStopsAll`. Several listeners of one server in `UdpExchange`.
