SPECIFICATION BenchSpec
CONSTANTS
  call1 = call1  call2 = call2  branch = branch
  MaxSteps = 2
  Hackathon = TRUE
  Faults = {"error", "provider", "unconfirmed", "interrupt"}
  Calls = {call1, call2}
  Branch <- SameBranch
  Engineers = {engineer1, engineer2}
  Rounds = 1  Judge = TRUE  Band = 0  MaxScore = 1  MaxUnconfirmed = 1
  ArenaFaults = {"error", "provider", "interrupt", "reuse"}
  QueueSteps = 2  QueueChecks = 2
  QueueFaults = {"refused", "pricing", "symlink", "unstoppable", "disk", "interrupt", "stop",
                 "stopfile"}
INVARIANTS ResultsAreProven EndsLeaveNothingBehind
PROPERTY RunsEnd
CHECK_DEADLOCK FALSE
