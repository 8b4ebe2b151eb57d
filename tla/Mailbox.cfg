SPECIFICATION FairSpec
CONSTANTS
  Transport = "tcp"
  BufferMsg = TRUE
  MaxReplies = 2
  r1 = r1
  r2 = r2
  r3 = r3
  Reqs = {r1, r2, r3}
INVARIANTS
  TimerPerRequest
  OneVerdict
  RepliesMatch
  WireInOrder
PROPERTIES
  ClosedTakesNothing
  CallSpec
CHECK_DEADLOCK FALSE
