SPECIFICATION Spec
CONSTANTS
  t1 = t1  t2 = t2  t3 = t3  None = None  Owner = Owner
  Tasks = {t1, t2, t3}
  Reviewed = {}
  MaxTries = 1  MaxToken = 1  MaxCommits = 0
  Faults = {"crash"}
  Requests = {"policy"}
SYMMETRY AnyOrder
PROPERTY SentBackWorkWaits
