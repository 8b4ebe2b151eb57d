SPECIFICATION Spec
CONSTANTS
  Transport = "sio"
  AsyncFilter = TRUE
  PendingSize = 1
  MaxBoxes = 3
  MaxStarts = 2
  s1 = s1
  s2 = s2
  r1 = r1
  r2 = r2
  r3 = r3
  Servers = {s1, s2}
  Reqs = {r1, r2, r3}
  FilterTargets = {s1, s2}
SYMMETRY Symmetry
INVARIANTS
  TypeOK
  RoutingTableConsistent
  NoRequestVanishes
  LiveMailboxRegistered
  StopClosesAll
  ReadyUnlessConnecting
  SentAtMostOnce
CHECK_DEADLOCK FALSE
