\* The GUI timer reads the deque while the listener pushes to it.
CONSTANTS
  NumListeners = 1
  Clients = {c1}
  NoClient = NoClient
  Timer = TRUE
  PeerMayLeave = FALSE
  WindowMayClose = FALSE
SPECIFICATION Spec
INVARIANT NoDequeRace
