SPECIFICATION Spec
CONSTANTS
  Transport = "sio"
  BufferMsg = FALSE
  MaxReplies = 1
  r1 = r1
  Reqs = {r1}
SYMMETRY Symmetry
INVARIANTS
  AtMostOneCallback
CHECK_DEADLOCK FALSE
