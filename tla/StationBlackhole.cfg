SPECIFICATION Spec
CONSTANTS
  Transport = "sio"
  AsyncFilter = FALSE
  PendingSize = 1
  MaxBoxes = 2
  MaxStarts = 1
  s1 = s1
  r1 = r1
  r2 = r2
  Servers = {s1}
  Reqs = {r1, r2}
  FilterTargets = {}
SYMMETRY Symmetry
PROPERTIES
  AddServerClearsBlackhole
CHECK_DEADLOCK FALSE
