SPECIFICATION Spec
CONSTANTS
  s1 = s1
  s2 = s2
  c1 = c1
  Servers = {s1, s2}
  Calls = {c1}
  Modes = {"failfast", "failover", "failsafe"}
  RetryTimes = 1
  MaxAttempts = 4
  MaxBoxes = 2
  MaxStarts = 2
  MaxChanges = 1
SYMMETRY Symmetry
INVARIANTS
  RetriesBounded
  BroadcastComplete
  NoCallVanishes
  OnlyKnownThrows
CHECK_DEADLOCK FALSE
