\* One worker, nothing fails, echo replies.
CONSTANTS
  Workers = {w1}
  HeaderLen = 2
  LeftOver = {0, 2, 3}
  SplitHeaders = FALSE
  CallsFail = FALSE
  Sizes = {2, 3, 4}
  Tags = {"p", "q"}
  MaxServerPacket = 4
  Reply = "echo"
  ClientMayExit = FALSE
  ServerMayExit = FALSE
  ServerMayStop = FALSE
SPECIFICATION Spec
INVARIANT OwnReply
PROPERTIES InTurns Answered WorkersStop
