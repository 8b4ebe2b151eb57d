SPECIFICATION Spec
CONSTANTS
  Transport = "sio"
  ClientBuffers = TRUE
  ServerBuffers = TRUE
  MaxAnswers = 2
  r1 = r1
  r2 = r2
  Reqs = {r1, r2}
SYMMETRY Symmetry
INVARIANTS
  HandledAtMostOnce
PROPERTIES
  MailboxSpec
CHECK_DEADLOCK FALSE
