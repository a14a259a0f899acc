------------------------------ MODULE ServerForm ------------------------------
(***************************************************************************)
(* The server's forms, interface/kylix/traffic_server.cpp and              *)
(* interface/borland/server_gui.cpp, over many presses of their buttons:   *)
(* the list of protocols and ports, the three widgets that say what may be *)
(* pressed, the three pointers sr, sp and ss, and the ports in use: those  *)
(* listened on, and those of accepted connections, which nothing closes.   *)
(*                                                                         *)
(* Every handler runs to its end before the next event, so each is one     *)
(* step.  Inside a press of Start the entries are allocated as in          *)
(* ServerSetup, whose theorem PortsFreedHolds is why cleanup is taken here *)
(* to close the socket of every entry it counts.                           *)
(***************************************************************************)
EXTENDS Integers, Sequences, SequencesExt

CONSTANTS
  Forms,      \* which of "kylix" and "borland" to look at
  Plugins,    \* protocol libraries
  Streams,    \* those whose accept makes a socket: tcp
  MaxPort,    \* 65534 in the program
  PortRange,  \* 65536: htons keeps 16 bits
  Typed,      \* texts for Borland's edit field
  MaxEntries  \* bound of the list

\* A port as text: the number that ToIntDef reads, 0 if it reads none, and
\* how it is spelt.
Spellings == {"plain", "padded", "hex"}
Text(n, spelling) == [number |-> n, spelling |-> spelling]
Plain(n) == Text(n, "plain")

ASSUME FormAssumption ==
  /\ Forms \subseteq {"kylix", "borland"}
  /\ Streams \subseteq Plugins
  /\ MaxPort \in Nat \ {0} /\ MaxEntries \in Nat
  /\ PortRange \in Nat /\ MaxPort < PortRange
  /\ Typed \subseteq [number : Int, spelling : Spellings]

VARIABLES
  form,       \* which form
  edit,       \* the text in PortEdit
  list,       \* ProtocolsListBox
  panel, start, stop, timer,  \* Enabled of SettingsPanel, StartButton, StopButton, ActivityTimer
  sr,         \* sr is not NULL
  sp,         \* the connection of each entry of the array sp; <<>> when sp is NULL
  ss,         \* ss is not NULL
  bound,      \* the listening sockets that are open
  lost,       \* those of them that no pointer leads to (history)
  accepted,   \* listening sockets of the running server that accepted a connection
  kept,       \* those of earlier servers: their connections hold the port
  closed      \* the window has been closed

widgets == <<panel, start, stop, timer>>
pointers == <<sr, sp, ss>>
ports == <<bound, lost, accepted, kept>>
vars == <<form, edit, list, widgets, pointers, ports, closed>>

SpinTexts == {Plain(n) : n \in 1..MaxPort}
Texts == SpinTexts \cup Typed
Ports == 1..(PortRange - 1)

Items == [plugin : Plugins, text : Texts]
Sockets == [plugin : Plugins, port : Ports]
NoSocket == [port |-> 0]

TypeOK ==
  /\ form \in Forms
  /\ edit \in Texts
  /\ list \in Seq(Items)
  /\ panel \in BOOLEAN /\ start \in BOOLEAN /\ stop \in BOOLEAN /\ timer \in BOOLEAN
  /\ sr \in BOOLEAN /\ ss \in BOOLEAN /\ closed \in BOOLEAN
  /\ sp \in Seq(Sockets \cup {NoSocket})
  /\ bound \subseteq Sockets /\ lost \subseteq Sockets
  /\ accepted \subseteq Sockets /\ kept \subseteq Sockets

Init ==
  /\ form \in Forms
  /\ edit = Plain(1) /\ list = <<>>
  /\ panel = TRUE /\ start = TRUE /\ stop = FALSE /\ timer = FALSE
  /\ sr = FALSE /\ sp = <<>> /\ ss = FALSE
  /\ bound = {} /\ lost = {} /\ accepted = {} /\ kept = {} /\ closed = FALSE

-----------------------------------------------------------------------------
(***************************************************************************)
(* The settings                                                            *)
(***************************************************************************)
Settings ==
  /\ panel /\ ~closed
  /\ UNCHANGED <<form, widgets, pointers, ports, closed>>

\* Kylix has a spin edit from 1 to MaxPort, Borland a text field for anything.
TypePort ==
  /\ Settings
  /\ edit' \in IF form = "kylix" THEN SpinTexts ELSE Typed
  /\ UNCHANGED list

Clamp(n) == IF n < 1 THEN 1 ELSE IF n > MaxPort THEN MaxPort ELSE n

\* Borland: the arrows beside the field.
PortUpDownClick ==
  /\ Settings /\ form = "borland"
  /\ \E step \in {1, -1} : edit' = Plain(Clamp(edit.number + step))
  /\ UNCHANGED list

\* Any number but 0, and "do not allow duplicates", of the same text.
AddButtonClick ==
  /\ Settings /\ edit.number # 0 /\ Len(list) < MaxEntries
  /\ \E p \in Plugins :
       LET item == [plugin |-> p, text |-> edit] IN
       /\ \A i \in DOMAIN list : list[i] # item
       /\ list' = Append(list, item)
  /\ UNCHANGED edit

RemoveButtonClick ==
  /\ Settings
  /\ \E i \in DOMAIN list : list' = RemoveAt(list, i)
  /\ UNCHANGED edit

ClearButtonClick ==
  /\ Settings
  /\ list' = <<>>
  /\ UNCHANGED edit

-----------------------------------------------------------------------------
(***************************************************************************)
(* Starting                                                                *)
(***************************************************************************)
\* StartButtonClick refuses an empty list.
Starting ==
  /\ start /\ ~closed /\ list # <<>>
  /\ UNCHANGED <<form, edit, list, accepted, kept, closed>>

\* On an error the Kylix form takes back what it did to the buttons, and the
\* Borland form does not; neither enables its panel again.
Fails ==
  /\ panel' = FALSE /\ start' = (form = "kylix") /\ stop' = (form = "borland")
  /\ UNCHANGED timer

\* atoi reads decimal digits and htons keeps 16 bits; bound to port 0, a
\* socket gets any port that is free.
ListensOn(text) ==
  LET n == (IF text.spelling = "hex" THEN 0 ELSE text.number) % PortRange
  IN  IF n = 0 THEN Ports ELSE {n}

\* What bind refuses without SO_REUSEADDR.  On Linux a connection holds the
\* port it was accepted on; on Windows it may not.
Refused == IF form = "kylix" THEN bound \cup kept ELSE bound

(***************************************************************************)
(* allocate_protocol up to entry n: what each entry listens on.  A port    *)
(* in use is refused, and any may be.  The plug-in may be that of an       *)
(* earlier entry, found under a key whose memory was freed.                *)
(***************************************************************************)
Listening(r, i) ==
  r[i] # NoSocket =>
    /\ r[i].port \in ListensOn(list[i].text)
    /\ r[i] \notin Refused
    /\ \A j \in 1..(i - 1) : r[j] # r[i]
    /\ \/ r[i].plugin = list[i].plugin
       \/ \E j \in 1..(i - 1) : r[j] # NoSocket /\ r[j].plugin = r[i].plugin

Results(n) ==
  {r \in [1..n -> Sockets \cup {NoSocket}] : \A i \in 1..n : Listening(r, i)}

SocketsOf(r) == {r[i] : i \in DOMAIN r} \ {NoSocket}

\* cleanup( ss, sr, sp ) counts the items of the list.
AfterCleanup(open, r) == open \ {r[i] : i \in DOMAIN list \cap DOMAIN r}

NoReply ==
  /\ Starting /\ Fails
  /\ sr' = FALSE
  /\ UNCHANGED <<sp, ss, bound, lost>>

\* set_library_path finds no library for entry n + 1: allocate_protocol
\* returns at once, and forgets the entries before it.
NoProtocols ==
  /\ Starting /\ Fails
  /\ \E n \in 0..(Len(list) - 1) : \E r \in Results(n) :
       /\ bound' = bound \cup SocketsOf(r)
       /\ lost' = lost \cup SocketsOf(r)
  /\ sr' = FALSE /\ sp' = <<>>
  /\ UNCHANGED ss

\* Mutant of NoServer: cleanup( NULL, sr, NULL ).
NoServerKeepsProtocols ==
  /\ Starting /\ Fails
  /\ \E r \in Results(Len(list)) : bound' = bound \cup SocketsOf(r)
  /\ sr' = FALSE /\ sp' = <<>> /\ ss' = FALSE
  /\ UNCHANGED lost

\* The server library cannot be loaded, or InitServer refuses an entry.
NoServer ==
  /\ Starting /\ Fails
  /\ \E r \in Results(Len(list)) : bound' = AfterCleanup(bound \cup SocketsOf(r), r)
  /\ sr' = FALSE /\ sp' = <<>> /\ ss' = FALSE
  /\ UNCHANGED lost

\* Mutant of Locks: the panel stays enabled.
LocksButtons == start' = FALSE /\ stop' = TRUE /\ UNCHANGED panel

Locks == start' = FALSE /\ stop' = TRUE /\ panel' = FALSE

\* InitServer takes only entries that are whole; StartServer.
Serves ==
  /\ Starting /\ Locks
  /\ timer' = TRUE
  /\ \E r \in Results(Len(list)) :
       /\ NoSocket \notin {r[i] : i \in DOMAIN r}
       /\ sp' = r
       /\ bound' = bound \cup SocketsOf(r)
  /\ sr' = TRUE /\ ss' = TRUE
  /\ UNCHANGED lost

StartButtonClick == NoReply \/ NoProtocols \/ NoServer \/ Serves

-----------------------------------------------------------------------------
\* A listener of the server accepts a connection on a socket of its own.
\* The server deletes its structure and never closes it, whoever leaves first.
Accepts ==
  /\ ss /\ ~closed
  /\ \E i \in DOMAIN sp : sp[i].plugin \in Streams /\ accepted' = accepted \cup {sp[i]}
  /\ UNCHANGED <<form, edit, list, widgets, pointers, bound, lost, kept, closed>>

\* The end of a server: the listening sockets close, the connections stay.
ServerGone ==
  /\ bound' = AfterCleanup(bound, sp)
  /\ kept' = kept \cup accepted /\ accepted' = {}

\* StopServer and cleanup.
StopButtonClick ==
  /\ stop /\ ~closed
  /\ timer' = FALSE
  /\ ServerGone
  /\ sr' = FALSE /\ sp' = <<>> /\ ss' = FALSE
  /\ panel' = TRUE /\ start' = TRUE /\ stop' = FALSE
  /\ UNCHANGED <<form, edit, list, lost, closed>>

\* Cleanup without StopServer; the pointers stay.
FormClose ==
  /\ ~closed /\ closed' = TRUE
  /\ ServerGone
  /\ UNCHANGED <<form, edit, list, widgets, pointers, lost>>

Next ==
  \/ TypePort \/ PortUpDownClick \/ AddButtonClick \/ RemoveButtonClick \/ ClearButtonClick
  \/ StartButtonClick \/ Accepts \/ StopButtonClick \/ FormClose

Spec == Init /\ [][Next]_vars

-----------------------------------------------------------------------------
(***************************************************************************)
(* Properties                                                              *)
(***************************************************************************)
\* However often the buttons were pressed and whatever failed: when no server
\* runs, the form holds nothing and its timer is off.  The ports still in use
\* are those of entries before one whose library was not found
\* (kylix/traffic_server.cpp:192), and those on which a server that is gone
\* accepted a connection.  Start cannot be pressed while a server runs, when
\* it would overwrite the three pointers.
InUse == bound \cup accepted \cup kept

GivenBack ==
  /\ ~ss => ~sr /\ sp = <<>> /\ ~timer
  /\ ~ss \/ closed => bound = lost /\ InUse = lost \cup kept
  /\ start => ~ss

\* The text is the decimal number of a port, so that one sees what it means.
Decimal(text) == text.spelling # "hex" /\ text.number \in Ports

\* While a server runs, cleanup and InitServer, which count the items of the
\* list and not the entries of the array, are right to do so: there is one
\* entry for each item, no two share a socket, and none has one that an
\* earlier start left open.  An entry listens on the port the list shows if
\* that is a decimal number: always in the Kylix form, but in the Borland form
\* "70000", "-5" and "$1F90" are taken, too (server_gui.cpp:49, 207).  The
\* Kylix form never listens again where a connection was accepted before it
\* was stopped.
ServesWhatIsShown ==
  ss =>
    /\ Len(sp) = Len(list)
    /\ \A i \in DOMAIN sp : sp[i] # NoSocket
    /\ \A i \in DOMAIN sp : Decimal(list[i].text) => sp[i].port = list[i].text.number
    /\ form = "kylix" => \A i \in DOMAIN list : Decimal(list[i].text)
    /\ \A i, j \in DOMAIN sp : i # j => sp[i] # sp[j]
    /\ SocketsOf(sp) \cap lost = {}
    /\ form = "kylix" /\ ~closed => SocketsOf(sp) \cap kept = {}
=============================================================================
