-------------------------- MODULE ServerForm_proofs --------------------------
(***************************************************************************)
(* Proofs about the server's forms: what they hold when no server runs,    *)
(* and that the list shows what a server that runs listens on.             *)
(***************************************************************************)
EXTENDS ServerForm, TLAPS

\* What connects the pointers, the widgets and the open sockets: the panel is
\* locked while a server runs, and its sockets and the lost ones are all
\* there are.
Held ==
  /\ lost \subseteq bound
  /\ ss => ~panel
  /\ ss /\ ~closed => bound = lost \cup SocketsOf(sp)
  /\ ~ss \/ closed => accepted = {}

\* The Kylix form's edit field holds nothing but ports, and so does its list.
SpinItems == [plugin : Plugins, text : SpinTexts]

Spun == form = "kylix" => edit \in SpinTexts /\ list \in Seq(SpinItems)

IInv == TypeOK /\ GivenBack /\ ServesWhatIsShown /\ Held /\ Spun

\* What a spin edit shows is the decimal number of a port.
LEMMA SpinTextsAreDecimal == \A t \in SpinTexts : Decimal(t)
<1> SUFFICES ASSUME NEW n \in 1..MaxPort PROVE Decimal(Plain(n))
  BY DEF SpinTexts
<1> QED BY FormAssumption DEF Decimal, Plain, Text, Ports

\* Clamp returns a port that a spin edit could show.
LEMMA ClampType == ASSUME NEW n \in Int PROVE Plain(Clamp(n)) \in SpinTexts
<1>1. Clamp(n) \in 1..MaxPort BY FormAssumption DEF Clamp
<1> QED BY <1>1 DEF SpinTexts

LEMMA TextsHaveNumbers == \A t \in Texts : t.number \in Int
<1>1. \A t \in SpinTexts : t.number \in Int
  BY FormAssumption DEF SpinTexts, Plain, Text
<1>2. \A t \in Typed : t.number \in Int BY FormAssumption
<1> QED BY <1>1, <1>2 DEF Texts

\* A decimal number of a port is kept by atoi and htons.
LEMMA DecimalIsKept ==
  ASSUME NEW t, Decimal(t)
  PROVE  ListensOn(t) = {t.number}
<1>1. t.number \in 1..(PortRange - 1) /\ PortRange \in Nat
  BY FormAssumption DEF Decimal, Ports
<1>2. t.number % PortRange = t.number BY <1>1
<1> QED BY <1>1, <1>2 DEF ListensOn, Decimal

\* NoSocket is no socket: its port is 0.
LEMMA NoSocketIsNone == NoSocket \notin Sockets
<1>1. NoSocket.port = 0 BY DEF NoSocket
<1>2. \A s \in Sockets : s.port # 0 BY FormAssumption DEF Sockets, Ports
<1> QED BY <1>1, <1>2

\* What allocate_protocol may return has an entry for each item it looked at,
\* and what the entries listen on was not bound before.
LEMMA ResultsType ==
  ASSUME NEW n \in 0..Len(list), NEW r \in Results(n), TypeOK
  PROVE  /\ r \in Seq(Sockets \cup {NoSocket})
         /\ Len(r) = n /\ DOMAIN r = 1..n
         /\ SocketsOf(r) \subseteq Sockets
         /\ SocketsOf(r) \cap Refused = {} /\ SocketsOf(r) \cap bound = {}
         /\ \A i \in 1..n : Listening(r, i)
<1>1. n \in Nat BY DEF TypeOK
<1>2. r \in [1..n -> Sockets \cup {NoSocket}] /\ \A i \in 1..n : Listening(r, i)
  BY DEF Results
<1>3. r \in Seq(Sockets \cup {NoSocket}) /\ Len(r) = n /\ DOMAIN r = 1..n
  BY <1>1, <1>2
<1>4. \A i \in 1..n : r[i] # NoSocket => r[i] \in Sockets /\ r[i] \notin Refused
  BY <1>2 DEF Listening
<1>5. bound \subseteq Refused BY DEF Refused
<1> QED BY <1>2, <1>3, <1>4, <1>5 DEF SocketsOf

\* Taking one item out of a list leaves a list.
LEMMA RemoveAtType ==
  ASSUME NEW S, NEW l \in Seq(S), NEW i \in DOMAIN l
  PROVE  RemoveAt(l, i) \in Seq(S)
BY DEF RemoveAt

LEMMA InitInvariant == Init => IInv
<1> SUFFICES ASSUME Init PROVE IInv OBVIOUS
<1>1. edit \in SpinTexts BY FormAssumption DEF Init, SpinTexts
<1>2. list = <<>> /\ sp = <<>> BY DEF Init
<1>3. {panel, start, stop, timer, sr, ss, closed} \subseteq BOOLEAN BY Zenon DEF Init
<1>4. form \in Forms /\ bound = {} /\ lost = {} /\ accepted = {} /\ kept = {} BY DEF Init
<1>5. TypeOK BY <1>1, <1>2, <1>3, <1>4 DEF TypeOK, Texts
<1>6. Spun BY <1>1, <1>2 DEF Spun
<1> QED BY <1>5, <1>6 DEF Init, IInv, GivenBack, InUse, ServesWhatIsShown, Held, SocketsOf

\* The settings change only while no server runs.
LEMMA SettingsInvariant ==
  ASSUME IInv, TypePort \/ PortUpDownClick \/ AddButtonClick \/ RemoveButtonClick \/ ClearButtonClick
  PROVE  IInv'
<1>1. panel /\ ~closed /\ UNCHANGED <<form, widgets, pointers, ports, closed>>
  BY DEF TypePort, PortUpDownClick, AddButtonClick, RemoveButtonClick, ClearButtonClick, Settings
<1>2. ~ss BY <1>1 DEF IInv, Held
<1>3. edit' \in Texts /\ (form = "kylix" => edit' \in SpinTexts)
  <2>1. CASE TypePort BY <2>1 DEF TypePort, Texts
  <2>2. CASE PortUpDownClick
    <3>1. PICK step \in {1, -1} : edit' = Plain(Clamp(edit.number + step))
      BY <2>2 DEF PortUpDownClick
    <3>2. edit.number + step \in Int BY TextsHaveNumbers DEF IInv, TypeOK
    <3> QED BY <3>1, <3>2, ClampType DEF Texts
  <2>3. CASE UNCHANGED edit BY <2>3 DEF IInv, TypeOK, Spun
  <2> QED BY <2>1, <2>2, <2>3 DEF AddButtonClick, RemoveButtonClick, ClearButtonClick
<1>4. list' \in Seq(Items) /\ (form = "kylix" => list' \in Seq(SpinItems))
  <2>1. CASE AddButtonClick
    <3>1. PICK p \in Plugins : list' = Append(list, [plugin |-> p, text |-> edit])
      BY <2>1 DEF AddButtonClick
    <3>2. [plugin |-> p, text |-> edit] \in Items BY DEF Items, IInv, TypeOK
    <3>3. form = "kylix" => [plugin |-> p, text |-> edit] \in SpinItems
      BY DEF SpinItems, IInv, Spun
    <3> QED BY <3>1, <3>2, <3>3 DEF IInv, TypeOK, Spun
  <2>2. CASE RemoveButtonClick
    <3>1. PICK i \in DOMAIN list : list' = RemoveAt(list, i)
      BY <2>2 DEF RemoveButtonClick
    <3>2. list \in Seq(Items) /\ (form = "kylix" => list \in Seq(SpinItems))
      BY DEF IInv, TypeOK, Spun
    <3> QED BY <3>1, <3>2, RemoveAtType
  <2>3. CASE ClearButtonClick BY <2>3 DEF ClearButtonClick
  <2>4. CASE UNCHANGED list BY <2>4 DEF IInv, TypeOK, Spun
  <2> QED BY <2>1, <2>2, <2>3, <2>4 DEF TypePort, PortUpDownClick
<1>5. TypeOK' /\ Spun'
  BY <1>1, <1>3, <1>4 DEF IInv, TypeOK, Spun, widgets, pointers, ports
<1> QED BY <1>1, <1>2, <1>5
  DEF IInv, GivenBack, InUse, ServesWhatIsShown, Held, widgets, pointers, ports

\* A press of Start that fails holds nothing afterwards, and binds nothing
\* but what is lost.
LEMMA FailedStartInvariant ==
  ASSUME IInv, NoReply \/ NoProtocols \/ NoServer
  PROVE  IInv'
<1>1. Starting /\ Fails BY DEF NoReply, NoProtocols, NoServer
<1>2. ~ss /\ ~sr /\ sp = <<>> /\ ~timer /\ bound = lost /\ accepted = {} /\ ~closed
  BY <1>1 DEF Starting, IInv, GivenBack, Held
<1>3. ~ss' /\ ~sr' /\ sp' = <<>> /\ ~timer'
  BY <1>1, <1>2 DEF NoReply, NoProtocols, NoServer, Fails
<1>4. bound' = lost' /\ lost' \subseteq Sockets
  <2>1. CASE NoReply BY <2>1, <1>2 DEF NoReply, IInv, TypeOK
  <2>2. CASE NoProtocols
    <3>1. PICK n \in 0..(Len(list) - 1) : \E r \in Results(n) :
             /\ bound' = bound \cup SocketsOf(r)
             /\ lost' = lost \cup SocketsOf(r)
      BY <2>2 DEF NoProtocols
    <3>2. PICK r \in Results(n) :
             /\ bound' = bound \cup SocketsOf(r)
             /\ lost' = lost \cup SocketsOf(r)
      BY <3>1
    <3>3. n \in 0..Len(list) BY DEF IInv, TypeOK
    <3>4. SocketsOf(r) \subseteq Sockets BY <3>3, ResultsType DEF IInv
    <3> QED BY <3>2, <3>4, <1>2 DEF IInv, TypeOK
  <2>3. CASE NoServer
    <3>1. PICK r \in Results(Len(list)) : bound' = AfterCleanup(bound \cup SocketsOf(r), r)
      BY <2>3 DEF NoServer
    <3>2. Len(list) \in 0..Len(list) /\ DOMAIN list = 1..Len(list) BY DEF IInv, TypeOK
    <3>3. DOMAIN r = 1..Len(list) /\ SocketsOf(r) \cap bound = {}
      BY <3>2, ResultsType DEF IInv
    <3>4. NoSocket \notin bound BY NoSocketIsNone DEF IInv, TypeOK
    <3>5. bound' = bound
      BY <3>1, <3>2, <3>3, <3>4 DEF AfterCleanup, SocketsOf
    <3> QED BY <2>3, <3>5, <1>2 DEF NoServer, IInv, TypeOK
  <2> QED BY <2>1, <2>2, <2>3
<1>5. TypeOK'
  <2>1. {panel', start', stop', timer', sr', ss', closed'} \subseteq BOOLEAN
    <3>1. closed' = closed /\ timer' = timer /\ sr' = FALSE /\ ss' = FALSE
      BY <1>1, <1>3, <1>2 DEF Starting, Fails
    <3>2. panel' \in BOOLEAN /\ start' \in BOOLEAN /\ stop' \in BOOLEAN
      BY <1>1, Zenon DEF Fails
    <3> QED BY <3>1, <3>2, <1>2 DEF IInv, TypeOK
  <2>2. sp' \in Seq(Sockets \cup {NoSocket}) BY <1>3
  <2>3. /\ form' \in Forms /\ edit' \in Texts /\ list' \in Seq(Items)
        /\ accepted' \subseteq Sockets /\ kept' \subseteq Sockets
    BY <1>1 DEF Starting, IInv, TypeOK
  <2> QED BY <2>1, <2>2, <2>3, <1>4 DEF TypeOK
<1>6. Spun' /\ accepted' = {} /\ kept' = kept BY <1>1, <1>2 DEF Starting, IInv, Spun
<1> QED BY <1>1, <1>3, <1>4, <1>5, <1>6
  DEF IInv, GivenBack, InUse, ServesWhatIsShown, Held, Starting

\* A server that runs listens on what the list shows.
LEMMA ServesInvariant ==
  ASSUME IInv, Serves
  PROVE  IInv'
<1>1. ~ss /\ bound = lost /\ ~closed /\ accepted = {}
  BY DEF Serves, Starting, IInv, GivenBack, Held
<1>2. PICK r \in Results(Len(list)) :
        /\ NoSocket \notin {r[i] : i \in DOMAIN r}
        /\ sp' = r
        /\ bound' = bound \cup SocketsOf(r)
  BY DEF Serves
<1>3. Len(list) \in 0..Len(list) /\ DOMAIN list = 1..Len(list) BY DEF IInv, TypeOK
<1>4. /\ r \in Seq(Sockets \cup {NoSocket})
      /\ Len(r) = Len(list) /\ DOMAIN r = 1..Len(list)
      /\ SocketsOf(r) \subseteq Sockets
      /\ SocketsOf(r) \cap Refused = {} /\ SocketsOf(r) \cap bound = {}
      /\ \A i \in 1..Len(list) : Listening(r, i)
  BY <1>3, ResultsType DEF IInv
<1>5. /\ UNCHANGED <<form, edit, list, closed, lost, accepted, kept>>
      /\ ~start' /\ stop' = TRUE /\ ~panel' /\ timer' = TRUE /\ start' \in BOOLEAN /\ panel' \in BOOLEAN
      /\ sr' = TRUE /\ ss' = TRUE
  BY DEF Serves, Starting, Locks
<1>6. TypeOK' BY <1>2, <1>4, <1>5 DEF IInv, TypeOK
<1>7. \A i \in DOMAIN r : r[i] # NoSocket BY <1>2
<1>8. \A i \in DOMAIN r : Decimal(list[i].text) => r[i].port = list[i].text.number
  BY <1>4, <1>7, DecimalIsKept DEF Listening
<1>9. \A i, j \in DOMAIN r : i # j => r[i] # r[j]
  <2>1. \A i, j \in DOMAIN r : j < i => r[j] # r[i]
    <3> SUFFICES ASSUME NEW i \in DOMAIN r, NEW j \in DOMAIN r, j < i
                 PROVE  r[j] # r[i]
      OBVIOUS
    <3>1. j \in 1..(i - 1) /\ i \in 1..Len(list) BY <1>3, <1>4
    <3> QED BY <1>4, <1>7, <3>1 DEF Listening
  <2> QED BY <2>1, <1>3, <1>4
<1>10. form = "kylix" => \A i \in DOMAIN list : Decimal(list[i].text)
  <2> SUFFICES ASSUME form = "kylix", NEW i \in DOMAIN list PROVE Decimal(list[i].text)
    OBVIOUS
  <2>1. list[i] \in SpinItems BY DEF IInv, Spun
  <2> QED BY <2>1, SpinTextsAreDecimal DEF SpinItems
<1>11. form = "kylix" => SocketsOf(r) \cap kept = {} BY <1>4 DEF Refused
<1>12. ServesWhatIsShown'
  <2>1. \A t : Decimal(t)' <=> Decimal(t) BY DEF Decimal, Ports
  <2> QED
    BY <1>1, <1>2, <1>4, <1>5, <1>7, <1>8, <1>9, <1>10, <1>11, <2>1 DEF ServesWhatIsShown, SocketsOf
<1>13. GivenBack' /\ Held' /\ Spun'
  BY <1>1, <1>2, <1>5 DEF GivenBack, Held, Spun, IInv
<1> QED BY <1>6, <1>12, <1>13 DEF IInv

\* What cleanup of a server that runs leaves are the lost sockets.
LEMMA CleanupLeavesLost ==
  ASSUME IInv, ~closed
  PROVE  AfterCleanup(bound, sp) = lost
<1>1. CASE ~ss
  BY <1>1 DEF IInv, GivenBack, AfterCleanup
<1>2. CASE ss
  <2>1. DOMAIN list \cap DOMAIN sp = DOMAIN sp
    <3>1. DOMAIN list = 1..Len(list) /\ DOMAIN sp = 1..Len(sp) /\ Len(list) = Len(sp)
      BY <1>2 DEF IInv, TypeOK, ServesWhatIsShown
    <3> QED BY <3>1
  <2>2. bound = lost \cup SocketsOf(sp) /\ SocketsOf(sp) \cap lost = {}
    BY <1>2 DEF IInv, Held, ServesWhatIsShown
  <2>3. SocketsOf(sp) = {sp[i] : i \in DOMAIN sp}
    BY <1>2 DEF IInv, ServesWhatIsShown, SocketsOf
  <2> QED BY <2>1, <2>2, <2>3 DEF AfterCleanup
<1> QED BY <1>1, <1>2

\* A connection that is accepted changes no listening socket.
LEMMA AcceptsInvariant ==
  ASSUME IInv, Accepts
  PROVE  IInv'
<1>1. /\ ss /\ ~closed
      /\ UNCHANGED <<form, edit, list, panel, start, stop, timer, sr, sp, ss, bound, lost, kept, closed>>
  BY DEF Accepts, widgets, pointers
<1>2. accepted' \subseteq Sockets
  <2>1. PICK i \in DOMAIN sp : accepted' = accepted \cup {sp[i]} BY DEF Accepts
  <2>2. sp[i] \in Sockets BY <1>1 DEF IInv, TypeOK, ServesWhatIsShown
  <2> QED BY <2>1, <2>2 DEF IInv, TypeOK
<1>3. TypeOK' /\ Spun' BY <1>1, <1>2 DEF IInv, TypeOK, Spun
<1>4. \A t : Decimal(t)' <=> Decimal(t) BY DEF Decimal, Ports
<1> QED BY <1>1, <1>3, <1>4 DEF IInv, GivenBack, ServesWhatIsShown, Held, SocketsOf

\* Where a server ends, what it listened on is closed and what it accepted
\* is kept.
LEMMA GoneLeaves ==
  ASSUME IInv, ~closed, ServerGone
  PROVE  /\ bound' = lost /\ accepted' = {} /\ kept' \subseteq Sockets
  BY CleanupLeavesLost DEF ServerGone, IInv, TypeOK

LEMMA StopInvariant ==
  ASSUME IInv, StopButtonClick
  PROVE  IInv'
<1>1. bound' = lost /\ accepted' = {} /\ kept' \subseteq Sockets
  BY GoneLeaves DEF StopButtonClick
<1>2. TypeOK'
  <2>1. {panel', start', stop', timer', sr', ss', closed'} \subseteq BOOLEAN
    BY Zenon DEF StopButtonClick, IInv, TypeOK
  <2>2. sp' \in Seq(Sockets \cup {NoSocket}) BY DEF StopButtonClick
  <2> QED BY <1>1, <2>1, <2>2 DEF StopButtonClick, IInv, TypeOK
<1>3. Spun' BY DEF StopButtonClick, IInv, Spun
<1> QED BY <1>1, <1>2, <1>3
  DEF StopButtonClick, IInv, GivenBack, InUse, ServesWhatIsShown, Held

LEMMA CloseInvariant ==
  ASSUME IInv, FormClose
  PROVE  IInv'
<1>1. bound' = lost /\ accepted' = {} /\ kept' \subseteq Sockets
  BY GoneLeaves DEF FormClose
<1>2. UNCHANGED <<form, edit, list, panel, start, stop, timer, sr, sp, ss, lost>> /\ closed' = TRUE
  BY DEF FormClose, widgets, pointers
<1>3. TypeOK' /\ Spun' BY <1>1, <1>2 DEF IInv, TypeOK, Spun
<1>4. \A t : Decimal(t)' <=> Decimal(t) BY DEF Decimal, Ports
<1> QED BY <1>1, <1>2, <1>3, <1>4
  DEF IInv, GivenBack, InUse, ServesWhatIsShown, Held, SocketsOf

\* The inductive invariant of the forms.
THEOREM Invariance == Spec => []IInv
<1>1. ASSUME IInv, [Next]_vars PROVE IInv'
  <2>1. CASE Next
    BY <1>1, <2>1, SettingsInvariant, FailedStartInvariant, ServesInvariant, AcceptsInvariant,
       StopInvariant, CloseInvariant DEF Next, StartButtonClick
  <2>2. CASE UNCHANGED vars
    <3>1. \A t : Decimal(t)' <=> Decimal(t) BY DEF Decimal, Ports
    <3> QED BY <1>1, <2>2, <3>1 DEF vars, widgets, pointers, ports, IInv, TypeOK, GivenBack,
       InUse, ServesWhatIsShown, Held, Spun, SocketsOf
  <2> QED BY <1>1, <2>1, <2>2
<1> QED BY InitInvariant, <1>1, PTL DEF Spec

\* Types of the list, the array and the widgets, whatever is pressed.
THEOREM TypeCorrect == Spec => []TypeOK
<1>1. IInv => TypeOK BY DEF IInv
<1> QED BY <1>1, Invariance, PTL

\* When no server runs the form holds nothing, and the ports in use are those
\* lost by one error path and those of connections that earlier servers
\* accepted, for any list and after any sequence of presses and failures.
THEOREM GivenBackHolds == Spec => []GivenBack
<1>1. IInv => GivenBack BY DEF IInv
<1> QED BY <1>1, Invariance, PTL

\* A server that runs has one entry for each item of the list, so that the
\* loops of cleanup and InitServer over the list stay within the array, and
\* listens on the ports it shows as decimal numbers, which in the Kylix form
\* is all of them; there, on none on which a connection is left open.
THEOREM ServesWhatIsShownHolds == Spec => []ServesWhatIsShown
<1>1. IInv => ServesWhatIsShown BY DEF IInv
<1> QED BY <1>1, Invariance, PTL
=============================================================================
