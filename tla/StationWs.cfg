SPECIFICATION FairSpec
CONSTANTS
  Transport = "ws"
  AsyncFilter = FALSE
  PendingSize = 1
  MaxBoxes = 4
  MaxStarts = 1
  s1 = s1
  r1 = r1
  r2 = r2
  r3 = r3
  Servers = {s1}
  Reqs = {r1, r2, r3}
  FilterTargets = {}
INVARIANTS
  PendingBounded
  PendingOnlyWhileConnecting
PROPERTIES
  InFlightCalled
  UnreadyOnlyByLate
  LostOnlyToLate
CHECK_DEADLOCK FALSE
