-------------------------- MODULE ServerSetup_proofs --------------------------
(***************************************************************************)
(* Theorems about set-up and clean-up of the server, for any number of     *)
(* entries and any plug-ins.                                               *)
(***************************************************************************)
EXTENDS ServerSetup, TLAPS

LEMMA TypeInit == Init => TypeOK
  BY SetupAssumption DEF Init, TypeOK, Protocol, Pointer, Empty, Entries, None

LEMMA ListensTyped ==
  ASSUME TypeOK, cnt \in Entries, NEW h \in Pointer, Listens(h)
  PROVE  servers' \in [Entries -> SUBSET Entries] /\ open' \subseteq Entries
<1>1. open' \subseteq Entries
  BY DEF Listens, TypeOK
<1>2. CASE h \in Entries
  BY <1>1, <1>2 DEF Listens, TypeOK
<1>3. CASE h \notin Entries
  <2>1. servers' = servers
    BY <1>3 DEF Listens, TypeOK
  <2> QED BY <1>1, <2>1 DEF TypeOK
<1> QED BY <1>2, <1>3

LEMMA TypeNext == TypeOK /\ [Next]_vars => TypeOK'
<1> SUFFICES ASSUME TypeOK, [Next]_vars PROVE TypeOK'
  OBVIOUS
<1> USE SetupAssumption DEF TypeOK, Protocol, Pointer, resourceVars
<1>1. CASE LoadFails
  BY <1>1 DEF LoadFails, Allocating, Allocated, Empty, Entries
<1>2. CASE InitProtocolFails
  BY <1>2 DEF InitProtocolFails, Allocating, Allocated, Empty, Entries
<1>3. CASE FirstListen
  <2>1. PICK conn \in {None, cnt} :
          /\ Allocated([proto |-> cnt, handle |-> cnt, conn |-> conn])
          /\ IF conn # None THEN Listens(cnt) /\ known' = known \cup {cnt}
             ELSE UNCHANGED <<servers, open, known>>
    BY <1>3 DEF FirstListen
  <2>2. cnt \in Entries /\ loaded' = loaded \cup {cnt} /\ handles' = handles \cup {cnt}
    BY <1>3 DEF FirstListen, Allocating
  <2>3. servers' \in [Entries -> SUBSET Entries] /\ open' \subseteq Entries /\ known' \subseteq Entries
    BY <2>1, <2>2, ListensTyped
  <2> QED BY <2>1, <2>2, <2>3 DEF Allocated, Entries
<1>4. CASE ListenAgain
  <2>1. PICK k \in Found(cnt), conn \in {None, cnt} :
          /\ Allocated([proto |-> sp[k].proto, handle |-> sp[k].handle, conn |-> conn])
          /\ IF conn # None THEN Listens(sp[k].handle) ELSE UNCHANGED <<servers, open>>
    BY <1>4 DEF ListenAgain
  <2>2. k \in Entries /\ cnt \in Entries
    BY <1>4 DEF Found, ListenAgain, Allocating
  <2>3. cnt' \in 1..(NumProtocols + 1)
    BY <2>1, <2>2 DEF Allocated, Entries
  <2>4. servers' \in [Entries -> SUBSET Entries] /\ open' \subseteq Entries
    BY <2>1, <2>2, ListensTyped
  <2>5. [proto |-> sp[k].proto, handle |-> sp[k].handle, conn |-> conn] \in Protocol
    BY <2>2
  <2>6. sp' \in [Entries -> Protocol]
    <3> HIDE DEF Protocol
    <3> QED BY <2>1, <2>5 DEF Allocated
  <2> QED BY <1>4, <2>1, <2>3, <2>4, <2>6 DEF ListenAgain, Allocated
<1>5. CASE AllocateEnds
  BY <1>5 DEF AllocateEnds
<1>6. CASE InitServer
  BY <1>6 DEF InitServer
<1>7. CASE Serve
  BY <1>7 DEF Serve
<1>8. CASE CleanEntry
  <2>1. cnt' \in 1..(NumProtocols + 1)
    BY <1>8 DEF CleanEntry, Entries
  <2>2. sp' \in [Entries -> Protocol]
    BY <1>8 DEF CleanEntry, Empty
  <2> QED BY <1>8, <2>1, <2>2 DEF CleanEntry, DestroyProtocol
<1>9. CASE CleanupEnds
  BY <1>9 DEF CleanupEnds
<1>10. CASE UNCHANGED vars
  BY <1>10 DEF vars
<1> QED BY <1>1, <1>2, <1>3, <1>4, <1>5, <1>6, <1>7, <1>8, <1>9, <1>10 DEF Next

\* The array, the deques and the loop variable have their types.
THEOREM TypeCorrect == Spec => []TypeOK
  BY TypeInit, TypeNext, PTL DEF Spec

-----------------------------------------------------------------------------
(***************************************************************************)
(* The invariant.  An entry that is whole has proto and handle from the    *)
(* same entry, both exist, and its open socket is in the deque of that     *)
(* handle; only whole entries have open sockets, each in one deque.  Entries the first    *)
(* loop has not reached are empty, entries cleanup has passed not whole.   *)
(***************************************************************************)
Coherent(i) ==
  Whole(i) => /\ sp[i].proto = sp[i].handle
              /\ sp[i].proto \in loaded /\ sp[i].handle \in handles
              /\ i \in servers[sp[i].handle] /\ i \in open

Remembered(k) == Whole(k) /\ sp[k].proto = k /\ k < cnt

IInv ==
  /\ \A i \in Entries : Coherent(i)
  /\ \A i \in open : Whole(i)
  /\ \A h \in Entries : \A i \in servers[h] : Whole(i) /\ sp[i].handle = h
  /\ main = "allocate" =>
       /\ \A k \in known : Remembered(k)
       /\ \A i \in Entries : i >= cnt => sp[i] = Empty
  /\ main = "init" => cnt = 1
  /\ main = "serve" => cnt = 1 /\ \A i \in Entries : Whole(i)
  /\ main \in {"cleanup", "exited"} => \A i \in Entries : i < cnt => ~Whole(i)
  /\ main = "exited" => cnt > NumProtocols

LEMMA Initially == Init => IInv
  BY DEF Init, IInv, Coherent, Whole, Empty, None

\* A turn of the first loop, at entry n, that leaves the other entries and
\* their resources alone, and entry n coherent, keeps the invariant.
LEMMA AllocatedKeeps ==
  ASSUME TypeOK, TypeOK', IInv, Allocating, NEW n \in Entries, n = cnt,
         NEW entry, Allocated(entry),
         loaded \subseteq loaded', handles \subseteq handles',
         \A h \in Entries : servers[h] \subseteq servers'[h],
         \A h \in Entries : \A i \in servers'[h] :
           i \in servers[h] \/ (i = n /\ Whole(n)' /\ entry.handle = h),
         open \subseteq open', open' \subseteq open \cup {n},
         Coherent(n)', n \in open' => Whole(n)',
         known' \subseteq known \cup {n},
         n \in known' => Whole(n)' /\ entry.proto = n
  PROVE  IInv'
<1>1. n \in Nat /\ cnt' = n + 1 /\ main' = main /\ main = "allocate"
  BY SetupAssumption DEF Allocating, Allocated, Entries
<1>2. \A i \in Entries : i # n => sp'[i] = sp[i]
  BY DEF Allocated, TypeOK
<1>3. sp'[n] = entry
  BY <1>1 DEF Allocated, TypeOK
<1>4. \A i \in Entries : i # n => (Whole(i)' <=> Whole(i))
  BY <1>2 DEF Whole
<1>5. ASSUME NEW i \in Entries PROVE Coherent(i)'
  <2>1. CASE i = n
    BY <2>1
  <2>2. CASE i # n
    <3>1. Coherent(i)
      BY DEF IInv
    <3>2. Whole(i) => sp[i].handle \in Entries
      BY DEF Whole, TypeOK, Protocol, Pointer
    <3>3. sp'[i] = sp[i] /\ (Whole(i)' <=> Whole(i))
      BY <1>2, <1>4, <2>2
    <3> QED BY <3>1, <3>2, <3>3 DEF Coherent
  <2> QED BY <2>1, <2>2
<1>6. \A i \in open' : Whole(i)'
  BY <1>4 DEF IInv, TypeOK
<1>7. \A h \in Entries : \A i \in servers'[h] : Whole(i)' /\ sp'[i].handle = h
  <2> TAKE h \in Entries
  <2> TAKE i \in servers'[h]
  <2>1. i \in Entries
    BY DEF TypeOK
  <2>2. CASE i \in servers[h] /\ i # n
    BY <1>2, <1>4, <2>1, <2>2 DEF IInv
  <2>3. CASE i \in servers[h] /\ i = n
    <3>1. Whole(n) /\ sp[n] = Empty
      BY <1>1, <2>3 DEF IInv, Entries
    <3> QED BY <3>1 DEF Whole, Empty
  <2>4. CASE i = n /\ Whole(n)' /\ entry.handle = h
    BY <1>3, <2>4
  <2> QED BY <2>2, <2>3, <2>4
<1>8. ASSUME NEW k \in known' PROVE Remembered(k)'
  <2>1. CASE k = n
    BY <1>1, <1>3, <2>1 DEF Remembered
  <2>2. CASE k # n
    <3>1. k \in Entries /\ k \in Nat /\ Remembered(k)
      BY <1>1, <2>2, SetupAssumption DEF IInv, TypeOK, Entries
    <3> QED BY <1>1, <1>2, <1>4, <2>2, <3>1 DEF Remembered
  <2> QED BY <2>1, <2>2
<1>9. \A i \in Entries : i >= cnt' => sp'[i] = Empty
  BY <1>1, <1>2, SetupAssumption DEF IInv, Entries
<1> QED BY <1>1, <1>5, <1>6, <1>7, <1>8, <1>9 DEF IInv

LEMMA AllocationKeeps ==
  TypeOK /\ TypeOK' /\ IInv /\ (LoadFails \/ InitProtocolFails \/ FirstListen \/ ListenAgain) => IInv'
<1> SUFFICES ASSUME TypeOK, TypeOK', IInv,
                    LoadFails \/ InitProtocolFails \/ FirstListen \/ ListenAgain
             PROVE  IInv'
  OBVIOUS
<1>a. Allocating /\ cnt \in Entries
  BY DEF LoadFails, InitProtocolFails, FirstListen, ListenAgain, Allocating
<1> PICK n \in Entries : n = cnt
  BY <1>a
<1>b. n \notin open /\ n \notin known /\ n # None /\ \A h \in Entries : n \notin servers[h]
  <2>1. sp[n] = Empty /\ n \in Nat /\ n # 0
    BY <1>a, SetupAssumption DEF IInv, Allocating, Entries
  <2>2. ~Whole(n)
    BY <2>1 DEF Whole, Empty
  <2> QED BY <1>a, <2>1, <2>2 DEF IInv, Remembered, Allocating, None
<1> USE <1>a, <1>b
<1>1. CASE LoadFails
  <2>1. Allocated(Empty) /\ UNCHANGED <<known, loaded, handles, servers, open>>
    BY <1>1 DEF LoadFails, resourceVars
  <2>2. sp'[n] = Empty
    BY <2>1 DEF Allocated, TypeOK
  <2>3. ~Whole(n)'
    BY <2>2 DEF Whole, Empty
  <2>4. /\ Coherent(n)'
        /\ \A h \in Entries : servers[h] \subseteq servers'[h]
        /\ \A h \in Entries : \A i \in servers'[h] : i \in servers[h]
        /\ open \subseteq open' /\ open' \subseteq open \cup {n} /\ n \notin open'
        /\ known' \subseteq known \cup {n} /\ n \notin known'
        /\ loaded \subseteq loaded' /\ handles \subseteq handles'
    BY <2>1, <2>3 DEF Coherent
  <2> QED BY <2>1, <2>4, AllocatedKeeps
<1>2. CASE InitProtocolFails
  <2> DEFINE entry == [proto |-> n, handle |-> None, conn |-> None]
  <2>1. Allocated(entry) /\ UNCHANGED <<known, handles, servers, open>> /\ loaded \subseteq loaded'
    BY <1>2 DEF InitProtocolFails
  <2>2. sp'[n] = entry
    BY <2>1 DEF Allocated, TypeOK
  <2>3. ~Whole(n)'
    BY <2>2 DEF Whole
  <2> HIDE DEF entry
  <2>4. /\ Coherent(n)'
        /\ \A h \in Entries : servers[h] \subseteq servers'[h]
        /\ \A h \in Entries : \A i \in servers'[h] : i \in servers[h]
        /\ open \subseteq open' /\ open' \subseteq open \cup {n} /\ n \notin open'
        /\ known' \subseteq known \cup {n} /\ n \notin known'
        /\ loaded \subseteq loaded' /\ handles \subseteq handles'
    BY <2>1, <2>3 DEF Coherent
  <2> QED BY <2>1, <2>4, AllocatedKeeps
<1>3. CASE FirstListen
  <2>1. PICK conn \in {None, n} :
          /\ Allocated([proto |-> n, handle |-> n, conn |-> conn])
          /\ IF conn # None THEN Listens(n) /\ known' = known \cup {n}
             ELSE UNCHANGED <<servers, open, known>>
    BY <1>3 DEF FirstListen
  <2> DEFINE entry == [proto |-> n, handle |-> n, conn |-> conn]
  <2>2. loaded' = loaded \cup {n} /\ handles' = handles \cup {n}
    BY <1>3 DEF FirstListen
  <2>3. sp'[n] = entry
    BY <2>1 DEF Allocated, TypeOK
  <2>4. Whole(n)' <=> conn # None
    BY <2>3 DEF Whole
  <2>5. /\ \A h \in Entries : servers[h] \subseteq servers'[h]
        /\ \A h \in Entries : \A i \in servers'[h] :
             i \in servers[h] \/ (i = n /\ conn # None /\ n = h)
        /\ open \subseteq open' /\ open' \subseteq open \cup {n}
        /\ known' \subseteq known \cup {n}
        /\ conn # None => n \in servers'[n] /\ n \in open'
        /\ conn = None => n \notin open' /\ n \notin known'
    <3>1. CASE conn = None
      BY <2>1, <3>1
    <3>2. CASE conn # None
      <4>1. servers' = [servers EXCEPT ![n] = servers[n] \cup {n}] /\ open' = open \cup {n}
            /\ known' = known \cup {n}
        BY <2>1, <3>2 DEF Listens
      <4> QED BY <3>2, <4>1 DEF TypeOK
    <3> QED BY <3>1, <3>2
  <2>6. Coherent(n)'
    BY <2>2, <2>3, <2>4, <2>5 DEF Coherent
  <2>7. entry.proto = n /\ entry.handle = n
    OBVIOUS
  <2>8. Allocated(entry)
    BY <2>1
  <2> HIDE DEF entry
  <2> QED BY <2>2, <2>4, <2>5, <2>6, <2>7, <2>8, AllocatedKeeps
<1>4. CASE ListenAgain
  <2>1. PICK k \in Found(n), conn \in {None, n} :
          /\ Allocated([proto |-> sp[k].proto, handle |-> sp[k].handle, conn |-> conn])
          /\ IF conn # None THEN Listens(sp[k].handle) ELSE UNCHANGED <<servers, open>>
    BY <1>4 DEF ListenAgain
  <2> DEFINE entry == [proto |-> sp[k].proto, handle |-> sp[k].handle, conn |-> conn]
  <2>2. UNCHANGED <<known, loaded, handles>>
    BY <1>4 DEF ListenAgain
  <2>3. k \in known /\ k \in Entries
    BY DEF Found, TypeOK
  <2>4. Whole(k) /\ Coherent(k)
    BY <2>3 DEF IInv, Remembered, Allocating
  <2>5. sp'[n] = entry
    BY <2>1 DEF Allocated, TypeOK
  <2>6. /\ sp'[n].proto = sp[k].proto /\ sp'[n].handle = sp[k].handle
        /\ sp'[n].conn = conn
    BY <2>3, <2>5 DEF TypeOK
  <2>7. Whole(n)' <=> conn # None
    BY <2>4, <2>6 DEF Whole
  <2>8. sp[k].handle \in Entries
    BY <2>3, <2>4 DEF TypeOK, Whole, Protocol, Pointer
  <2>9. /\ \A h \in Entries : servers[h] \subseteq servers'[h]
        /\ \A h \in Entries : \A i \in servers'[h] :
             i \in servers[h] \/ (i = n /\ conn # None /\ sp[k].handle = h)
        /\ open \subseteq open' /\ open' \subseteq open \cup {n}
        /\ conn # None => n \in servers'[sp[k].handle] /\ n \in open'
        /\ conn = None => n \notin open'
    <3>1. CASE conn = None
      BY <2>1, <3>1
    <3>2. CASE conn # None
      <4>1. /\ servers' = [servers EXCEPT ![sp[k].handle] = servers[sp[k].handle] \cup {n}]
            /\ open' = open \cup {n}
        BY <2>1, <3>2 DEF Listens
      <4> QED BY <2>8, <3>2, <4>1 DEF TypeOK
    <3> QED BY <3>1, <3>2
  <2>10. Coherent(n)'
    BY <2>2, <2>4, <2>6, <2>7, <2>9 DEF Coherent
  <2>11. Allocated(entry) /\ entry.handle = sp[k].handle
    BY <2>1
  <2> HIDE DEF entry
  <2> QED BY <2>2, <2>7, <2>9, <2>10, <2>11, AllocatedKeeps
<1> QED BY <1>1, <1>2, <1>3, <1>4

\* One turn of cleanup, at entry n: every whole entry with the handle is n or
\* shares it, so that none is left behind; all others are untouched.
LEMMA CleaningKeeps == TypeOK /\ IInv /\ CleanEntry => IInv'
<1> SUFFICES ASSUME TypeOK, IInv, CleanEntry PROVE IInv'
  OBVIOUS
<1> PICK n \in Entries : n = cnt
  BY DEF CleanEntry
<1>1. main = "cleanup" /\ main' = main /\ n \in Nat /\ cnt' = n + 1
  BY SetupAssumption DEF CleanEntry, Entries
<1>2. CASE ~Whole(n)
  <2>1. UNCHANGED <<sp, loaded, handles, servers, open>>
    BY <1>2 DEF CleanEntry, resourceVars
  <2>2. \A i \in Entries : (Whole(i)' <=> Whole(i)) /\ (Coherent(i)' <=> Coherent(i))
    BY <2>1 DEF Whole, Coherent
  <2>3. \A i \in Entries : i < cnt' => ~Whole(i)'
    BY <1>1, <1>2, <2>2, SetupAssumption DEF IInv, Entries
  <2> QED BY <1>1, <2>1, <2>2, <2>3 DEF IInv, TypeOK
<1>3. CASE Whole(n)
  <2> DEFINE h == sp[n].handle
  <2>1. h \in Entries /\ sp[n].proto = h
    BY <1>3 DEF IInv, Coherent, Whole, TypeOK, Protocol, Pointer
  <2>2. /\ handles' = handles \ {h} /\ loaded' = loaded \ {h}
        /\ open' = open \ servers[h] /\ servers'[h] = {}
        /\ \A g \in Entries : g # h => servers'[g] = servers[g]
    BY <1>3, <2>1 DEF CleanEntry, DestroyProtocol, TypeOK
  <2>3. \A i \in Entries : Whole(i) /\ sp[i].handle = h => i = n \/ i \in Sharers(n)
    BY <1>1, SetupAssumption DEF IInv, Sharers, Whole, Entries
  <2>4. \A i \in Entries : i = n \/ i \in Sharers(n) => ~Whole(i)'
    BY <1>3 DEF CleanEntry, Whole, TypeOK, Protocol, Empty
  <2>5. \A i \in Entries : ~(i = n \/ i \in Sharers(n)) => sp'[i] = sp[i]
    BY <1>3 DEF CleanEntry
  <2>6. \A i \in Entries :
          Whole(i) /\ sp[i].handle # h => Whole(i)' /\ sp'[i] = sp[i]
    <3>1. \A i \in Entries : i = n \/ i \in Sharers(n) => sp[i].handle = h
      BY DEF Sharers
    <3> QED BY <2>5, <3>1 DEF Whole
  <2>7. \A i \in Entries :
          Whole(i)' => Whole(i) /\ sp'[i] = sp[i] /\ sp[i].handle # h
    BY <2>3, <2>4, <2>5 DEF Whole
  <2>8. ASSUME NEW i \in Entries PROVE Coherent(i)'
    <3> SUFFICES ASSUME Whole(i)' PROVE Coherent(i)'
      BY DEF Coherent
    <3>1. Whole(i) /\ sp'[i] = sp[i] /\ sp[i].handle # h /\ Coherent(i)
      BY <2>7 DEF IInv
    <3>2. sp[i].handle \in Entries
      BY <3>1 DEF Whole, TypeOK, Protocol, Pointer
    <3>3. i \notin servers[h]
      BY <2>1, <3>1 DEF IInv
    <3> QED BY <2>2, <3>1, <3>2, <3>3 DEF Coherent
  <2>9. ASSUME NEW i \in open' PROVE Whole(i)'
    <3>1. i \in Entries /\ i \in open /\ i \notin servers[h]
      BY <2>2 DEF TypeOK
    <3>2. Whole(i) /\ Coherent(i)
      BY <3>1 DEF IInv
    <3>3. sp[i].handle # h
      BY <3>1, <3>2 DEF Coherent
    <3> QED BY <2>6, <3>1, <3>2, <3>3
  <2>10. ASSUME NEW g \in Entries, NEW i \in servers'[g]
         PROVE  Whole(i)' /\ sp'[i].handle = g
    <3>1. g # h /\ i \in servers[g]
      BY <2>2
    <3>2. i \in Entries
      BY <3>1 DEF TypeOK
    <3>3. Whole(i) /\ sp[i].handle = g
      BY <3>1 DEF IInv
    <3> QED BY <2>6, <3>1, <3>2, <3>3
  <2>11. \A i \in Entries : i < cnt' => ~Whole(i)'
    BY <1>1, <2>4, <2>7, SetupAssumption DEF IInv, Entries
  <2> QED BY <1>1, <2>8, <2>9, <2>10, <2>11 DEF IInv
<1> QED BY <1>2, <1>3

LEMMA InvariantNext == TypeOK /\ TypeOK' /\ IInv /\ [Next]_vars => IInv'
<1> SUFFICES ASSUME TypeOK, TypeOK', IInv, [Next]_vars PROVE IInv'
  OBVIOUS
<1>1. CASE LoadFails \/ InitProtocolFails \/ FirstListen \/ ListenAgain
  BY <1>1, AllocationKeeps
<1>2. CASE CleanEntry
  BY <1>2, CleaningKeeps
<1>3. ASSUME UNCHANGED <<sp, loaded, handles, servers, open>>
      PROVE  /\ \A i \in Entries : Coherent(i)'
             /\ \A i \in open' : Whole(i)'
             /\ \A h \in Entries : \A i \in servers'[h] : Whole(i)' /\ sp'[i].handle = h
             /\ \A i \in Entries : Whole(i)' <=> Whole(i)
  <2>1. \A i : Whole(i)' <=> Whole(i)
    BY <1>3 DEF Whole
  <2> QED BY <1>3, <2>1 DEF IInv, Coherent
<1>4. CASE AllocateEnds
  BY <1>3, <1>4 DEF AllocateEnds, IInv, resourceVars
<1>5. CASE InitServer
  <2>1. UNCHANGED <<sp, loaded, handles, servers, open>> /\ cnt' = cnt /\ cnt = 1
    BY <1>5 DEF InitServer, IInv, resourceVars
  <2>2. main' \in {"serve", "cleanup"} /\ (main' = "serve" => \A i \in Entries : Whole(i))
    BY <1>5 DEF InitServer
  <2>3. \A i \in Entries : ~(i < 1)
    BY SetupAssumption DEF Entries
  <2> QED BY <1>3, <2>1, <2>2, <2>3 DEF IInv
<1>6. CASE Serve
  <2>1. \A i \in Entries : ~(i < 1)
    BY SetupAssumption DEF Entries
  <2> QED BY <1>3, <1>6, <2>1 DEF Serve, IInv, resourceVars
<1>7. CASE CleanupEnds
  BY <1>3, <1>7 DEF CleanupEnds, IInv, resourceVars
<1>8. CASE UNCHANGED vars
  <2>1. \A k : Remembered(k)' <=> Remembered(k)
    BY <1>8 DEF vars, resourceVars, Remembered, Whole
  <2> QED BY <1>3, <1>8, <2>1 DEF vars, resourceVars, IInv
<1> QED BY <1>1, <1>2, <1>4, <1>5, <1>6, <1>7, <1>8 DEF Next

LEMMA Invariance == Spec => [](TypeOK /\ IInv)
<1>1. Init => TypeOK /\ IInv
  BY TypeInit, Initially
<1>2. TypeOK /\ IInv /\ [Next]_vars => (TypeOK /\ IInv)'
  BY TypeNext, InvariantNext
<1> QED BY <1>1, <1>2, PTL DEF Spec

\* Whatever failed while the entries were set up, cleanup uses and destroys
\* no protocol object, handle or socket that is gone already.
THEOREM EntriesExistHolds == Spec => []EntriesExist
<1>1. TypeOK /\ IInv => EntriesExist
  BY DEF IInv, EntriesExist, Coherent
<1> QED BY <1>1, Invariance, PTL

\* The server runs only while it listens on every port asked for.
THEOREM ServesAllHolds == Spec => []ServesAll
<1>1. TypeOK /\ IInv => ServesAll
  BY DEF TypeOK, IInv, ServesAll, Coherent
<1> QED BY <1>1, Invariance, PTL

\* Cleanup closes every listening socket, however many entries share a
\* protocol handle: no whole entry is left, and only whole ones are open.
THEOREM PortsFreedHolds == Spec => []PortsFreed
<1>1. TypeOK /\ IInv => PortsFreed
  BY SetupAssumption DEF TypeOK, IInv, PortsFreed, Entries
<1> QED BY <1>1, Invariance, PTL

\* Where the keys of known_prot live as long as the map, as on the command
\* line, an entry is served by the plug-in it names.  A remembered entry owns
\* its protocol object, so that the one found for an equal name is right.
THEOREM RightPluginHolds == ASSUME ~KeysFreed PROVE Spec => []RightPlugin
<1>1. Init => RightPlugin
  BY DEF Init, RightPlugin, Empty
<1>2. TypeOK /\ IInv /\ RightPlugin /\ [Next]_vars => RightPlugin'
  <2> SUFFICES ASSUME TypeOK, IInv, RightPlugin, [Next]_vars,
                      NEW i \in Entries, sp'[i].proto # None
               PROVE  plugin'[sp'[i].proto] = plugin'[i]
    BY DEF RightPlugin
  <2>1. plugin' = plugin
    BY DEF Next, LoadFails, InitProtocolFails, FirstListen, ListenAgain, Allocated,
           AllocateEnds, InitServer, Serve, CleanEntry, CleanupEnds, vars
  <2>2. CASE sp'[i].proto = sp[i].proto
    BY <2>1, <2>2 DEF RightPlugin
  <2>3. CASE LoadFails
    BY <2>1, <2>2, <2>3 DEF LoadFails, Allocated, TypeOK, Empty
  <2>4. CASE InitProtocolFails
    BY <2>1, <2>2, <2>4 DEF InitProtocolFails, Allocated, TypeOK
  <2>5. CASE FirstListen
    BY <2>1, <2>2, <2>5 DEF FirstListen, Allocated, TypeOK
  <2>6. CASE ListenAgain
    <3>1. PICK k \in Found(cnt), conn \in {None, cnt} :
            sp' = [sp EXCEPT ![cnt] = [proto |-> sp[k].proto, handle |-> sp[k].handle, conn |-> conn]]
      BY <2>6 DEF ListenAgain, Allocated
    <3>2. CASE i # cnt
      BY <2>2, <3>1, <3>2 DEF TypeOK
    <3>3. CASE i = cnt
      <4>1. sp[k].proto = k /\ plugin[k] = plugin[i]
        BY <2>6, <3>3 DEF Found, IInv, Remembered, ListenAgain, Allocating
      <4>2. sp'[i].proto = k
        BY <3>1, <3>3, <4>1 DEF TypeOK
      <4> QED BY <2>1, <4>1, <4>2
    <3> QED BY <3>2, <3>3
  <2>7. CASE CleanEntry
    <3>1. sp'[i].proto = sp[i].proto \/ sp'[i].proto = None
      BY <2>7 DEF CleanEntry, TypeOK, Protocol, Empty, resourceVars
    <3> QED BY <2>2, <3>1
  <2>8. CASE sp' = sp
    BY <2>2, <2>8
  <2> QED BY <2>3, <2>4, <2>5, <2>6, <2>7, <2>8
          DEF Next, AllocateEnds, InitServer, Serve, CleanupEnds, vars
<1> QED BY <1>1, <1>2, Invariance, PTL DEF Spec
=============================================================================
