\* Ack replies; calls fail, a payload exceeds the server's limit, either process may exit.
CONSTANTS
  Workers = {w1}
  HeaderLen = 2
  LeftOver = {0, 2, 3}
  SplitHeaders = FALSE
  CallsFail = TRUE
  Sizes = {2, 3, 5}
  Tags = {"p", "q"}
  MaxServerPacket = 4
  Reply = "ack"
  ClientMayExit = TRUE
  ServerMayExit = TRUE
  ServerMayStop = TRUE
SPECIFICATION Spec
INVARIANTS WholePackets NeverBothWait ServerSurvives
\* Once a process or a thread is gone, the other end may wait for ever.
CHECK_DEADLOCK FALSE
