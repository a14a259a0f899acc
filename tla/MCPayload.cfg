\* One worker on its own handle; sizes are 4 bits wide and the header 2 bytes.
CONSTANTS
  Workers = {w1}
  Kinds = {"fixed", "increasing", "random"}
  Mins = {1, 2, 5, 6}
  Maxs = {1, 2, 5, 7, 8, 15}
  Increments = {0, 1, 2, 3, 15}
  Times = {0, 1, 2, 3}
  Word = 16
  HeaderLen = 2
  RandMax = 7
  LeftOver = {0, 9}
  MaxCalls = 45
SPECIFICATION Spec
INVARIANTS HeaderFits SendsItsPacket SizeAsDocumented
PROPERTY UsedTimeTimes
