----------------------------- MODULE ServerSetup -----------------------------
(***************************************************************************)
(* How the server program gets and gives back its protocols: the           *)
(* allocate_protocol, allocate_servers and cleanup functions of            *)
(* interface/cmdline/trafserver.cpp and of the Kylix and Borland forms,    *)
(* and the registry of listening sockets in protocols/tcp/tcp_proto.cpp.   *)
(*                                                                         *)
(* The user asks for a list of plug-in and port pairs.  Entries with the   *)
(* same plug-in share one protocol object and one handle, found again in   *)
(* the map known_prot.  Loading a library, InitProtocol and                *)
(* ListenForConnections may each fail.  What happens between StartServer   *)
(* and DestroyServer is in BasicServer.                                    *)
(***************************************************************************)
EXTENDS Naturals

CONSTANTS
  NumProtocols,  \* entries the user asked for
  Plugins,       \* protocol libraries
  KeysFreed      \* the forms: the key of a map entry is freed when the next
                 \* entry is looked up; the command line keeps its strings

ASSUME SetupAssumption == NumProtocols \in Nat /\ KeysFreed \in BOOLEAN

Entries == 1..NumProtocols
None == 0

VARIABLES
  plugin,   \* the library of each entry
  sp,       \* the array of client_protocol: proto, proto_handle, connection.
            \* Objects are named by the entry they were created for
  known,    \* the entries in known_prot
  main,     \* where the main thread is
  cnt,      \* its loop variable
  loaded,   \* protocol objects that exist, each with its library mapped
  handles,  \* protocol handles that exist
  servers,  \* tcp_proto::servers of each handle: the entries it listens for
  open      \* the entries whose listening socket is open

resourceVars == <<loaded, handles, servers, open>>
vars == <<plugin, sp, known, main, cnt, resourceVars>>

Pointer == Entries \cup {None}
Protocol == [proto : Pointer, handle : Pointer, conn : Pointer]
Empty == [proto |-> None, handle |-> None, conn |-> None]

TypeOK ==
  /\ plugin \in [Entries -> Plugins]
  /\ sp \in [Entries -> Protocol]
  /\ known \subseteq Entries
  /\ main \in {"allocate", "init", "serve", "cleanup", "exited"}
  /\ cnt \in 1..(NumProtocols + 1)
  /\ loaded \subseteq Entries /\ handles \subseteq Entries /\ open \subseteq Entries
  /\ servers \in [Entries -> SUBSET Entries]

Init ==
  /\ plugin \in [Entries -> Plugins]
  /\ sp = [i \in Entries |-> Empty]
  /\ known = {} /\ main = "allocate" /\ cnt = 1
  /\ loaded = {} /\ handles = {} /\ open = {}
  /\ servers = [i \in Entries |-> {}]

-----------------------------------------------------------------------------
\* Mutant of Found: the plug-in is not compared.
FoundAny(i) == known

\* The entries known_prot.find may return.  Once keys are freed their memory
\* may hold anything, the string that is looked up included.
Found(i) ==
  IF KeysFreed THEN known ELSE {k \in known : plugin[k] = plugin[i]}

FindFails(i) == KeysFreed \/ Found(i) = {}

Allocating == main = "allocate" /\ cnt \in Entries

Allocated(entry) ==
  /\ sp' = [sp EXCEPT ![cnt] = entry]
  /\ cnt' = cnt + 1
  /\ UNCHANGED <<plugin, main>>

\* tcp_proto::listen: a socket that listens goes into the deque, whose order
\* does not matter here.
Listens(h) ==
  /\ servers' = [servers EXCEPT ![h] = @ \cup {cnt}]
  /\ open' = open \cup {cnt}

\* The library cannot be loaded; the entry stays empty.
LoadFails ==
  /\ Allocating /\ FindFails(cnt)
  /\ Allocated(Empty)
  /\ UNCHANGED <<known, resourceVars>>

\* InitProtocol returns NULL.
InitProtocolFails ==
  /\ Allocating /\ FindFails(cnt)
  /\ loaded' = loaded \cup {cnt}
  /\ Allocated([proto |-> cnt, handle |-> None, conn |-> None])
  /\ UNCHANGED <<known, handles, servers, open>>

\* "first time this protocol comes up": only one that listens is remembered.
FirstListen ==
  /\ Allocating /\ FindFails(cnt)
  /\ loaded' = loaded \cup {cnt} /\ handles' = handles \cup {cnt}
  /\ \E conn \in {None, cnt} :
       /\ Allocated([proto |-> cnt, handle |-> cnt, conn |-> conn])
       /\ IF conn # None THEN Listens(cnt) /\ known' = known \cup {cnt}
          ELSE UNCHANGED <<servers, open, known>>

\* "we have seen this protocol before - so just a new connection"
ListenAgain ==
  /\ Allocating
  /\ \E k \in Found(cnt), conn \in {None, cnt} :
       /\ Allocated([proto |-> sp[k].proto, handle |-> sp[k].handle, conn |-> conn])
       /\ IF conn # None THEN Listens(sp[k].handle) ELSE UNCHANGED <<servers, open>>
  /\ UNCHANGED <<known, loaded, handles>>

AllocateEnds ==
  /\ main = "allocate" /\ cnt > NumProtocols
  /\ main' = "init" /\ cnt' = 1
  /\ UNCHANGED <<plugin, sp, known, resourceVars>>

Whole(i) == sp[i].proto # None /\ sp[i].handle # None /\ sp[i].conn # None

\* Mutant of InitServer: an entry without a socket is not noticed.
InitServerRegardless ==
  /\ main = "init"
  /\ main' \in {"serve", "cleanup"}
  /\ UNCHANGED <<plugin, sp, known, cnt, resourceVars>>

\* allocate_servers: InitServer refuses an entry that is not whole, and the
\* library may be missing.
InitServer ==
  /\ main = "init"
  /\ main' \in {"cleanup"} \cup {pc \in {"serve"} : \A i \in Entries : Whole(i)}
  /\ UNCHANGED <<plugin, sp, known, cnt, resourceVars>>

\* StartServer, StopServer, and DestroyServer in cleanup.
Serve ==
  /\ main = "serve"
  /\ main' = "cleanup"
  /\ UNCHANGED <<plugin, sp, known, cnt, resourceVars>>

-----------------------------------------------------------------------------
\* Mutant of DestroyProtocol: the destructor closes the front socket only.
DestroyProtocolFront(h) ==
  /\ handles' = handles \ {h}
  /\ open' = open \ {h}
  /\ servers' = [servers EXCEPT ![h] = {}]

\* ~tcp_proto deletes every server in its deque, which closes its socket.
DestroyProtocol(h) ==
  /\ handles' = handles \ {h}
  /\ open' = open \ servers[h]
  /\ servers' = [servers EXCEPT ![h] = {}]

\* Entries that share the handle of entry i, which cleanup forgets before it
\* destroys the handle.  DestroyConnection looks for a listening socket among
\* the connections, of which a server has none.
Sharers(i) ==
  {j \in (i + 1)..NumProtocols : sp[j].handle = sp[i].handle /\ sp[j].conn # None}

\* Mutant of CleanEntry: entries that share the handle keep it.
CleanEntryOnly ==
  /\ main = "cleanup" /\ cnt \in Entries
  /\ IF Whole(cnt)
     THEN /\ DestroyProtocol(sp[cnt].handle)
          /\ loaded' = loaded \ {sp[cnt].proto}
          /\ sp' = [sp EXCEPT ![cnt] = [Empty EXCEPT !.conn = sp[cnt].conn]]
     ELSE UNCHANGED <<sp, resourceVars>>
  /\ cnt' = cnt + 1
  /\ UNCHANGED <<plugin, known, main>>

\* One turn of the loop of cleanup.
CleanEntry ==
  /\ main = "cleanup" /\ cnt \in Entries
  /\ IF Whole(cnt)
     THEN /\ DestroyProtocol(sp[cnt].handle)
          /\ loaded' = loaded \ {sp[cnt].proto}
          /\ sp' = [i \in Entries |->
                      IF i = cnt THEN [Empty EXCEPT !.conn = sp[i].conn]
                      ELSE IF i \in Sharers(cnt) THEN [Empty EXCEPT !.proto = sp[i].proto]
                      ELSE sp[i]]
     ELSE UNCHANGED <<sp, resourceVars>>
  /\ cnt' = cnt + 1
  /\ UNCHANGED <<plugin, known, main>>

CleanupEnds ==
  /\ main = "cleanup" /\ cnt > NumProtocols
  /\ main' = "exited"
  /\ UNCHANGED <<plugin, sp, known, cnt, resourceVars>>

Next ==
  \/ LoadFails \/ InitProtocolFails \/ FirstListen \/ ListenAgain
  \/ AllocateEnds \/ InitServer \/ Serve \/ CleanEntry \/ CleanupEnds

Spec == Init /\ [][Next]_vars

-----------------------------------------------------------------------------
(***************************************************************************)
(* Properties                                                              *)
(***************************************************************************)

\* Whatever cleanup is still going to use exists: no protocol object is used
\* or deleted, and no handle destroyed, a second time.
EntriesExist ==
  \A i \in Entries : Whole(i) =>
    sp[i].proto \in loaded /\ sp[i].handle \in handles /\ i \in open

\* The server runs only when it listens on every port it was asked for.
ServesAll == main = "serve" => open = Entries

\* No listening socket is open when cleanup has ended, however many entries
\* shared a handle and whatever failed.  (A connection that was accepted stays
\* open on its port: see ServerForm.)
PortsFreed == main = "exited" => open = {}

\* An entry is served by the plug-in it names.
RightPlugin ==
  \A i \in Entries : sp[i].proto # None => plugin[sp[i].proto] = plugin[i]
=============================================================================
