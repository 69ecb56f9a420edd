SPECIFICATION HostSpec
CONSTANTS
  task1 = task1  account1 = account1  account2 = account2  project1 = project1  None = None
  r1 = r1  r2 = r2  r3 = r3  base = base
  tap1 = tap1  tap2 = tap2  new1 = new1  new2 = new2  source = source  secret = secret
  phone = phone  tablet = tablet  code1 = code1  code2 = code2  mac = mac  api = api
  first = first  second = second  Off = Off
  Tasks = {task1}
  Attempts = {a1, a2, a3}
  Accounts = {account1, account2}
  Projects = {project1}
  ProjectOf <- OneProject
  Overlapping = {}
  Goals <- Alone
  Plans <- NoPlans
  Reviewed = {task1}
  Directed = {}
  Roles <- SplitRoles
  MaxSlots = 1  MaxRepairs = 1  MaxRetries = 0  MaxRecoveries = 0  MaxAnswers = 0  MaxPending = 0
  Faults = {"unconfirmed"}
  Requests = {"cancel", "retry"}
  Ends = {"throttled"}
SYMMETRY RequestSymmetry
INVARIANTS ClonesStay ReleasesAreSound ProductsAreTheOwners OutreachIsSound
PROPERTY DevicesAreKept
CHECK_DEADLOCK FALSE
