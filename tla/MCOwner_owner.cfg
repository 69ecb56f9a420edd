SPECIFICATION OwnerSpec
CONSTANTS
  t1 = t1  t2 = t2  c1 = c1  c2 = c2  p1 = p1  None = None
  Unpinned = Unpinned
  Tasks = {t1, t2}
  Attempts = {a1, a2, a3}
  Accounts = {c1, c2}
  Projects = {p1}
  ProjectOf <- OneProject
  GoalOf <- Own
  Overlapping = {}
  Goals <- Chained
  Plans <- NoPlans
  Reviewed = {t1}
  Directed = {}
  Roles <- SplitRoles
  MaxSlots = 2  MaxRepairs = 0  MaxRetries = 0  MaxRecoveries = 0  MaxAnswers = 0  MaxPending = 0
  Faults = {"denied", "noroute", "unconfirmed"}
  Requests = {"stop-all", "resume", "project"}
  Ends = {"needs_auth"}
INVARIANTS StopAllStops WorkFollowsItsDependencies FailuresAreCharged ArchivedProjectsRest RoutesAndPlansAreSound
CHECK_DEADLOCK FALSE
