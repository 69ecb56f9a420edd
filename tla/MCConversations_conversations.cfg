SPECIFICATION FairSpec
CONSTANTS
  s1 = s1  s2 = s2  p1 = p1  p2 = p2  None = None
  Projects = {p1, p2}
  Sends = {s1, s2}
  Explicit = {s1, s2}
  Made <- AnyTwo
  About <- Crossing
  Selections = {p1}
  Faults = {"crash", "answer", "locked", "refused"}
  MaxCrashes = 1
INVARIANTS TypeOK BuildsAreMeant
PROPERTIES OneAnswerEach TurnsEnd
CHECK_DEADLOCK FALSE
