SPECIFICATION FairSpec
CONSTANTS
  t1 = t1  t2 = t2  t3 = t3  None = None  Owner = Owner
  Tasks = {t1, t2}
  Reviewed = {t1}
  MaxTries = 1  MaxToken = 1  MaxCommits = 1
  Faults = {"crash", "locked", "git", "unread"}
  Requests = {}
INVARIANTS ComposedOnce IntegratedIsInMain
PROPERTIES IntegrationsEnd PublicationsEnd ImplementsLocalMain
