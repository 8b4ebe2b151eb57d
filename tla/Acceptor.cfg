SPECIFICATION FairSpec
CONSTANTS
  Transport = "sio"
  BufferMsg = TRUE
  Whitelist = TRUE
  MaxAnswers = 3
  s1 = s1
  s2 = s2
  p1 = p1
  p2 = p2
  p3 = p3
  Sockets = {s1, s2}
  Pkgs = {p1, p2, p3}
INVARIANT
  EveryAnswerOnce
PROPERTIES
  QuietAfterStop
  OrphansFreed
  AnswersWritten
CHECK_DEADLOCK FALSE
