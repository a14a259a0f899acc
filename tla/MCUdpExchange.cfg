\* Two workers, datagrams that are lost or find the server's socket full, calls that fail.
CONSTANTS
  Workers = {w1, w2}
  Threads = {t1, t2}
  Sizes = {2, 3, 5}
  Tags = {"a"}
  HeaderLen = 2
  MaxDatagram = 3
  MaxServerPacket = 6
  QueueLen = 1
  Reply = "echo"
  MayLose = TRUE
  CallsFail = TRUE
  NoWorker = NoWorker
SPECIFICATION Spec
INVARIANTS OneUnderWay OwnReply
PROPERTIES InTurns Answered
\* A worker whose reply was lost waits for ever.
CHECK_DEADLOCK FALSE
