----------------------------- MODULE RequestReply -----------------------------
(***************************************************************************)
(* What a client worker and a server client promise each other over one    *)
(* connection: strict turns.  The worker asks with one packet, the server  *)
(* answers that packet once, and the worker asks again only after it has   *)
(* the answer.  Either side may give up.  Exchange implements this with    *)
(* two byte streams, UdpExchange with datagrams.                           *)
(***************************************************************************)
CONSTANTS Packets, ReplyTo(_), None
VARIABLES turn,   \* whose move it is, or "over"
          ask,    \* the packet that waits for an answer
          ans     \* the answer on its way to the worker

Init == turn = "worker" /\ ask = None /\ ans = None

Ask ==
  /\ turn = "worker" /\ turn' = "server"
  /\ ask' \in Packets
  /\ UNCHANGED ans

Answer ==
  /\ turn = "server" /\ turn' = "answered"
  /\ ans' = ReplyTo(ask)
  /\ UNCHANGED ask

Accept ==
  /\ turn = "answered" /\ turn' = "worker"
  /\ ask' = None /\ ans' = None

GiveUp ==
  /\ turn' = "over" /\ ask' = None /\ ans' = None

Next == Ask \/ Answer \/ Accept \/ GiveUp

Spec == Init /\ [][Next]_<<turn, ask, ans>>
=============================================================================
