SPECIFICATION Spec
CONSTANTS
  t1 = t1  t2 = t2  t3 = t3  c1 = c1  c2 = c2  c3 = c3  p1 = p1  p2 = p2  None = None
  Tasks = {t1, t2}
  Attempts = {a1, a2, a3, a4, a5}
  Accounts = {c1, c2}
  Projects = {p1}
  ProjectOf <- OneProject
  Overlapping <- NoOverlap
  Goals <- Planned
  Plans <- OneBuild
  Reviewed = {t1, t2}
  Directed = {t1, t2}
  Roles <- SplitRoles
  MaxSlots = 1  MaxRepairs = 0  MaxRetries = 1  MaxRecoveries = 1  MaxAnswers = 1  MaxPending = 1
  Faults = {}
  Requests = {"instruct", "answer"}
  Ends = {"throttled"}
INVARIANTS TypeOK OnlyVettedWorkIsStaged DirectedInstructionsBuilt
