\* The timer of the GUI fires, peers may leave, and the window may be closed.
CONSTANTS
  NumListeners = 1
  Clients = {c1, c2}
  NoClient = NoClient
  Timer = TRUE
  PeerMayLeave = TRUE
  WindowMayClose = TRUE
SPECIFICATION Spec
SYMMETRY ClientSymmetry
INVARIANT NoUseAfterFree
