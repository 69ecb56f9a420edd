SPECIFICATION Spec
CONSTANTS
  t1 = t1  t2 = t2  t3 = t3  None = None  Owner = Owner
  Tasks = {t1}
  Reviewed = {t1}
  MaxTries = 2  MaxToken = 2  MaxCommits = 1
  Faults = {}
  Requests = {"malformed"}
INVARIANT NoFalseAlarm
