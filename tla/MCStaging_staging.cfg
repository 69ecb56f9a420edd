SPECIFICATION Spec
CONSTANTS
  t1 = t1  t2 = t2  t3 = t3  None = None  Owner = Owner
  Tasks = {t1, t2}
  Reviewed = {t1}
  MaxTries = 1  MaxToken = 2  MaxCommits = 1
  Faults = {"crash"}
  Requests = {"malformed", "policy", "pause"}
INVARIANTS TypeOK StagingIsExplained StagedWorkStays WaitingWorkIsShown
PROPERTY WorkCompletesAsAccepted
