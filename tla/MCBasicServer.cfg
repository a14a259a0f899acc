\* Two listeners and two connections; the server is stopped before cleanup.
CONSTANTS
  NumListeners = 2
  Clients = {c1, c2}
  NoClient = NoClient
  Timer = FALSE
  PeerMayLeave = FALSE
  WindowMayClose = FALSE
SPECIFICATION Spec
INVARIANTS NoUseAfterFree DequesHoldObjects NoDequeRace DestroyServerStopsAll
PROPERTIES StoppedListenerAcceptsNone ThreadsLiveOnce ServerEnds
