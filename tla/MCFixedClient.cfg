\* Three workers on two connections; the client is stopped, or its window closed.
CONSTANTS
  NumWorkers = 3
  NumConnections = 2
SPECIFICATION Spec
INVARIANTS NoUseAfterFree OnlySocketsLeft
PROPERTIES StoppedClientIsSilent ThreadsLiveOnce ClientEnds
