SPECIFICATION Spec
CONSTANTS
  t1 = t1  t2 = t2  t3 = t3  c1 = c1  c2 = c2  c3 = c3  p1 = p1  p2 = p2  None = None
  Tasks = {t1}
  Attempts = {a1, a2}
  Accounts = {c1, c2}
  Projects = {p1}
  ProjectOf <- OneProject
  Overlapping <- NoOverlap
  Goals <- AllAtOnce
  Plans <- NoPlans
  Reviewed = {t1}
  Directed = {}
  Roles <- AllRoles
  MaxSlots = 2  MaxRepairs = 1  MaxRetries = 1  MaxRecoveries = 1  MaxAnswers = 0  MaxPending = 0
  Faults = {"kill"}
  Requests = {}
  Ends = {}
INVARIANTS ReleasedChildStopped
