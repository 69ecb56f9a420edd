---------------------------- MODULE HostProofs ----------------------------
(***************************************************************************)
(* Machine-checked proofs about what runs on the host (MCHost).            *)
(*                                                                         *)
(* Clones: while the scheduler, guardians and the owner go on, pruning     *)
(* removes neither the build a review is to read, nor the clone an agent   *)
(* works in.  The pruner acts on a reading of the ledger that is out of    *)
(* date by the time it removes a clone.  What makes that safe is that the  *)
(* verdict cannot turn: an attempt that ended stays as it is, a child that *)
(* is gone stays gone, and a build nobody will review again is never asked *)
(* for again, for a task comes back to a review only with a retry left, or *)
(* with a newer build.                                                     *)
(*                                                                         *)
(* Releases, products and devices are proved for any commits, taps and     *)
(* devices in ServiceProofs and ProvisioningProofs.  Here those theorems   *)
(* are applied to the instances that run beside the scheduler: whichever   *)
(* part of the host a behaviour explores, each of them moves as its module *)
(* says, or not at all.                                                    *)
(***************************************************************************)
EXTENDS MCHost, LeaseProofs

-------------------------------------------------------------------------------
(* Clones: the inductive invariant *)

\* A build that is, or may be, reviewed.
NeededBy(t, b) ==
  /\ task[t].build_attempt = b /\ task[t].phase \in Judged
  /\ task[t].state \notin PrunableStates
       \/ (task[t].state = "blocked" /\ task[t].repairs < MaxRepairs)

\* What a guardian at a point of its run has started and written.
GuardiansAccount ==
  /\ pc = "spawn" => guard[slot] = "none"
  /\ \A a \in Attempts :
       /\ guard[a] \in {"none", "starting", "up"} => child[a] = "none"
       /\ guard[a] = "cli" => child[a] # "none"
       /\ guard[a] = "judging" => child[a] = "dead"
       /\ outcome[a] # "none" => guard[a] \in {"done", "dead"}
       /\ outcome[a] \in {"passed", "clarify"} => child[a] # "none"
       /\ child[a] \in {"unrecorded", "recorded"} => outcome[a] \in {"none", "unconfirmed"}
       /\ child[a] = "unrecorded" => guard[a] = "cli" \/ "kill" \in Faults

ClonesAreKept ==
  /\ \A a \in Leased : child[a] # "none" => a \in dirs
  /\ doomed # None => doomed \in Attempts /\ att[doomed].state \notin Active \cup {"unused"}
  /\ \A t \in Tasks, b \in Attempts : NeededBy(t, b) => b \in dirs /\ doomed # b

PruningInvariant == WorkInvariant /\ GuardiansAccount /\ ClonesAreKept

-------------------------------------------------------------------------------
(* What a step does to a guardian, its child and its result *)

Steady(a) == guard'[a] = guard[a] /\ outcome'[a] = outcome[a] /\ child'[a] = child[a]

\* A guardian reports once it is done, and what it may report tells what became of its child.
Reports(a) ==
  /\ guard'[a] = "done" /\ child'[a] = child[a]
  /\ \/ guard[a] = "up" /\ outcome'[a] \notin {"passed", "clarify", "none"}
     \/ guard[a] = "cli" /\ child[a] = "dead" /\ outcome'[a] # "none"
     \/ guard[a] = "cli" /\ child[a] = "recorded" /\ outcome'[a] = "unconfirmed"
     \/ guard[a] = "judging" /\ outcome'[a] # "none"

WorldStep(a) ==
  \/ Steady(a)
  \/ guard[a] = "none" /\ guard'[a] = "starting" /\ pc = "spawn" /\ slot = a
       /\ outcome'[a] = outcome[a] /\ child'[a] = child[a] /\ pc' = "idle"
  \/ guard[a] = "starting" /\ guard'[a] = "up" /\ att[a].state = "leased"
       /\ outcome'[a] = outcome[a] /\ child'[a] = child[a]
  \/ guard[a] = "starting" /\ guard'[a] = "dead" /\ child'[a] = child[a]
       /\ outcome'[a] \in {outcome[a], "needs_permission"}
  \/ guard[a] = "up" /\ guard'[a] = "cli" /\ child'[a] = "unrecorded"
       /\ outcome'[a] = outcome[a]
  \/ guard[a] = "cli" /\ guard'[a] = "cli" /\ outcome'[a] = outcome[a]
       /\ child[a] \in {"unrecorded", "gone"}
       /\ child'[a] = IF child[a] = "gone" THEN "dead" ELSE "recorded"
  \/ guard'[a] = guard[a] /\ outcome'[a] = outcome[a]
       /\ child[a] \in {"unrecorded", "recorded"} /\ child'[a] \in {"gone", "dead"}
  \/ guard[a] = "cli" /\ guard'[a] = "judging" /\ child[a] = "dead"
       /\ child'[a] = child[a] /\ outcome'[a] = outcome[a]
  \/ Reports(a)
  \/ guard'[a] = "dead" /\ outcome'[a] = outcome[a] /\ child'[a] = child[a]
       /\ (guard[a] = "done" \/ (guard[a] \in Up /\ "kill" \in Faults))

LEMMA World ==
  ASSUME LeaseInvariant
  PROVE  /\ guard \in [Attempts -> Up \cup {"none", "dead"}]
         /\ child \in [Attempts -> {"none", "unrecorded", "gone", "recorded", "dead"}]
         /\ outcome \in [Attempts -> Outcomes \cup {"none"}]
         /\ stop \in [Attempts -> BOOLEAN]
  BY DEF LeaseInvariant, TypeOK, TypeWorld

LEMMA ReportsOnce ==
  ASSUME LeaseInvariant, NEW a \in Attempts, NEW result \in Outcomes, Report(a, result)
  PROVE  Reports(a)
  <1>1. guard'[a] = "done" /\ child' = child /\ outcome'[a] = result
    BY World DEF Report
  <1>2. result # "none"
    BY DEF Outcomes, Results
  <1>3. guard[a] = "up" /\ result \in EarlyEnds(a) => result \notin {"passed", "clarify"}
    BY DEF EarlyEnds
  <1> QED
    BY <1>1, <1>2, <1>3 DEF Report, Reports

LEMMA WorldOfGuardians ==
  ASSUME LeaseInvariant, NEW a \in Attempts,
         Guardian(a) \/ ChildExits(a) \/ GuardianKilled(a)
  PROVE  \A b \in Attempts : WorldStep(b)
  <1>1. \A b \in Attempts \ {a} : Steady(b)
    BY World DEF Guardian, Register, RegistrationRefused, RegistrationDenied, Launch, RecordChild,
       Verify, Report, GuardianExits, ChildExits, GuardianKilled, Steady
  <1>2. WorldStep(a)
    <2>1. CASE Register(a) \/ RegistrationRefused(a) \/ RegistrationDenied(a)
      BY <2>1, World
      DEF Register, MayRegister, RegistrationRefused, RegistrationDenied, WorldStep
    <2>2. CASE Launch(a)
      BY <2>2, World DEF Launch, WorldStep
    <2>3. CASE RecordChild(a)
      BY <2>3, World DEF RecordChild, WorldStep
    <2>4. CASE Verify(a)
      BY <2>4, World DEF Verify, WorldStep
    <2>5. CASE \E result \in Outcomes : Report(a, result)
      BY <2>5, ReportsOnce DEF WorldStep
    <2>6. CASE GuardianExits(a) \/ GuardianKilled(a)
      BY <2>6, World DEF GuardianExits, GuardianKilled, WorldStep
    <2>7. CASE ChildExits(a)
      BY <2>7, World DEF ChildExits, WorldStep
    <2> QED
      BY <2>1, <2>2, <2>3, <2>4, <2>5, <2>6, <2>7 DEF Guardian
  <1> QED
    BY <1>1, <1>2 DEF WorldStep

LEMMA EveryWorldStep ==
  ASSUME LeaseInvariant, pc = "spawn" => guard[slot] = "none", [Next]_vars
  PROVE  \A b \in Attempts : WorldStep(b)
  <1>0. UNCHANGED <<guard, child, outcome>> => \A b \in Attempts : WorldStep(b)
    BY DEF WorldStep, Steady
  <1>1. CASE \E a \in Attempts : Guardian(a) \/ ChildExits(a) \/ GuardianKilled(a)
    BY <1>1, WorldOfGuardians
  <1>2. CASE Spawn
    <2>1. slot \in Attempts
      BY SMTT(30), <1>2 DEF Spawn, LeaseInvariant, TypeOK, TypeThread
    <2> QED
      BY <1>2, <2>1, World DEF Spawn, WorldStep, Steady
  <1>3. CASE \/ ControllerRestarts \/ TickBegins \/ Release \/ DispatchBegins \/ NothingStartable
             \/ AtCapacity \/ DispatchPaused \/ ControllerCrash
             \/ \E t \in Tasks, c \in Accounts : Claim(t, c)
    BY <1>0, <1>3
    DEF ControllerRestarts, TickBegins, Release, DispatchBegins, NothingStartable, AtCapacity,
        DispatchPaused, ControllerCrash, Claim, world
  <1>4. CASE \E a \in Attempts : Inspect(a)
    <2>1. PICK a \in Attempts : Inspect(a)
      BY <1>4
    <2>2. CASE InspectionDenied(a) \/ LeftAlone(a) \/ OrphanHeld(a) \/ OrphanFound(a)
      BY SMTT(30), <1>0, <2>2 DEF InspectionDenied, LeftAlone, OrphanHeld, OrphanFound, world
    <2>3. CASE Finish(a)
      BY <1>0, <2>3
      DEF Finish, FinishUnconfirmed, FinishCancelled, FinishOutdated, FinishClarify, FinishPlan,
          FinishReplan, FinishBuild, FinishReview, FinishDirect, FinishTrouble, FinishRetry,
          FinishRepair, FinishBlocked, EndsWith, world
    <2> QED
      BY <2>1, <2>2, <2>3 DEF Inspect
  <1>5. CASE Owner \/ Staging \/ Clock \/ (\E t \in Tasks : Signal(t)) \/ UNCHANGED vars
    <2>1. UNCHANGED <<guard, child, outcome>>
      BY <1>5
      DEF Owner, AddGoal, Answer, Instruct, Cancel, Retry, StopAll, PauseDispatch,
          ResumeDispatch, SetCapacity, SetProject, SetAccount, Staging, IntegrationSucceeds,
          IntegrationFails, Decide, Clock, CooldownEnds, AccountRests, Signal, world, vars
    <2> QED
      BY SMTT(30), <1>0, <2>1
  <1> QED
    BY <1>1, <1>2, <1>3, <1>4, <1>5 DEF Next, Scheduler

LEMMA GuardiansAccountStep ==
  ASSUME WorkInvariant, GuardiansAccount, [Next]_vars
  PROVE  GuardiansAccount' /\ \A a \in Attempts : WorldStep(a)
  <1>0. LeaseInvariant /\ PlannersAsk
    BY DEF WorkInvariant
  <1>1. \A a \in Attempts : WorldStep(a)
    BY <1>0, EveryWorldStep DEF GuardiansAccount
  <1>2. (\A b \in Attempts : GuardianStep(b)) /\ ThreadStep
    BY <1>0, EveryGuardianStep
  <1>3. ASSUME pc' = "spawn" PROVE guard'[slot'] = "none"
    <2>1. pc = "spawn" => slot \in Attempts
      BY <1>0 DEF LeaseInvariant, TypeOK, TypeThread
    <2>2. slot' \in Attempts /\ guard[slot'] = "none"
      BY <1>0, <1>2, <1>3, <2>1 DEF ThreadStep, GuardiansAccount, PlannersAsk, UnusedAttempt
    <2> QED
      BY <1>2, <1>3, <2>2 DEF GuardianStep, Working, Up
  <1>4. ASSUME NEW a \in Attempts
        PROVE  /\ guard'[a] \in {"none", "starting", "up"} => child'[a] = "none"
               /\ guard'[a] = "cli" => child'[a] # "none"
               /\ guard'[a] = "judging" => child'[a] = "dead"
               /\ outcome'[a] # "none" => guard'[a] \in {"done", "dead"}
               /\ outcome'[a] \in {"passed", "clarify"} => child'[a] # "none"
               /\ child'[a] \in {"unrecorded", "recorded"} => outcome'[a] \in {"none", "unconfirmed"}
               /\ child'[a] = "unrecorded" => guard'[a] = "cli" \/ "kill" \in Faults
    <2>1. /\ guard[a] \in {"none", "starting", "up"} => child[a] = "none"
          /\ guard[a] = "cli" => child[a] # "none"
          /\ guard[a] = "judging" => child[a] = "dead"
          /\ outcome[a] # "none" => guard[a] \in {"done", "dead"}
          /\ outcome[a] \in {"passed", "clarify"} => child[a] # "none"
          /\ child[a] \in {"unrecorded", "recorded"} => outcome[a] \in {"none", "unconfirmed"}
          /\ child[a] = "unrecorded" => guard[a] = "cli" \/ "kill" \in Faults
      BY DEF GuardiansAccount
    <2>2. WorldStep(a)
      BY <1>1
    <2> QED
      BY <2>1, <2>2 DEF WorldStep, Steady, Reports
  <1> QED
    BY <1>1, <1>3, <1>4 DEF GuardiansAccount

-------------------------------------------------------------------------------
(* What a step of the ledger leaves of the builds that are needed *)

\* A build becomes needed by being built, and no other way.
LEMMA NeededBefore ==
  ASSUME WorkInvariant, [Next]_vars, NEW t \in Tasks, NEW b \in Attempts, NeededBy(t, b)'
  PROVE  NeededBy(t, b) \/ (b \in Leased /\ EndsWork(b) /\ BuildMade(b))
  <1>0. WorkStep /\ LeaseInvariant /\ PhasesAreEarned /\ LeasesCarryWork
    BY WorkInvariantStep DEF WorkInvariant
  <1>1. /\ task'[t].build_attempt = b /\ task'[t].phase \in Judged
        /\ task'[t].state \notin PrunableStates
             \/ (task'[t].state = "blocked" /\ task'[t].repairs < MaxRepairs)
    BY DEF NeededBy
  <1>2. b # None
    BY NoneIsNoAttempt
  <1>3. ASSUME Idles(t) PROVE NeededBy(t, b)
    <2>1. CASE task'[t] = task[t]
      BY <1>1, <2>1 DEF NeededBy
    <2>2. CASE Created(t)
      BY <1>1, <1>2, <2>2, NewTaskFields DEF Created
    <2>3. CASE GoesOn(t)
      BY <1>1, <2>3 DEF GoesOn, SameBuilds, NeededBy, Active, PrunableStates
    <2>4. CASE Moves(t)
      <3>1. task[t].build_attempt = b /\ task[t].phase \in Judged
        BY <1>1, <2>4 DEF Moves, SameBuilds, Rework, Judged
      <3>2. task[t].state \in {"cancelled", "completed"} => task'[t].state = task[t].state
        BY <1>0, EveryMove DEF RowMove
      <3>3. CASE task[t].state = "blocked" /\ ~(task[t].repairs < MaxRepairs)
        BY <1>1, <2>4, <3>3 DEF Moves, PrunableStates
      <3> QED
        BY <1>1, <3>1, <3>2, <3>3 DEF NeededBy, PrunableStates
    <2> QED
      BY <1>3, <2>1, <2>2, <2>3, <2>4 DEF Idles
  <1>4. ASSUME NEW a \in Attempts, EndsWork(a), att[a].task = t
        PROVE  NeededBy(t, b) \/ (b \in Leased /\ BuildMade(b) /\ a = b)
    <2>1. a \in Leased /\ task[t].state \in Active
      BY <1>0, <1>4, OwnedRow DEF EndsWork
    <2>2. att[a].phase = task[t].phase
      BY <1>0, <1>4, <2>1 DEF LeasesCarryWork
    <2>3. task[t].build_attempt = b /\ task[t].phase \in Judged => NeededBy(t, b)
      BY <2>1 DEF NeededBy, Active, PrunableStates
    <2>4. CASE Redone(a)
      BY <1>1, <1>4, <2>2, <2>3, <2>4 DEF Redone, SameBuilds, Judged
    <2>5. CASE PlanMade(a) \/ BuildMade(a) \/ ReviewMade(a) \/ DirectionMade(a)
      BY <1>0, <1>1, <1>4, <2>1, <2>2, <2>3, <2>5, MadeRow DEF SameBuilds, Judged
    <2> QED
      BY <1>4, <2>4, <2>5 DEF EndsWork
  <1>5. ASSUME NEW a \in Attempts, NEW c \in Accounts, GrantsWork(t, a, c)
        PROVE  NeededBy(t, b)
    BY <1>0, <1>1, <1>5, ClaimedRow DEF SameBuilds, NeededBy, Waiting, PrunableStates
  <1> QED
    BY <1>0, <1>3, <1>4, <1>5, RowsAfter

\* A build that is needed is an attempt of the task that needs it.
LEMMA NeededBuild ==
  ASSUME WorkInvariant, NEW t \in Tasks, NEW b \in Attempts, NeededBy(t, b)
  PROVE  att[b].task = t
  <1>1. PassedAttempt(b, t, "build")
    BY NoneIsNoAttempt DEF NeededBy, WorkInvariant, PhasesAreEarned
  <1> QED
    BY <1>1 DEF PassedAttempt

\* Work that passed had a child, whatever became of it.
LEMMA BuiltByAChild ==
  ASSUME WorkInvariant, GuardiansAccount, [Next]_vars, NEW b \in Leased, BuildMade(b)
  PROVE  child[b] # "none"
  <1>1. LeaseInvariant /\ b \in Attempts
    BY DEF WorkInvariant, Leased
  <1>2. att'[b].state = "passed"
    BY DEF BuildMade, PassedAs
  <1>3. b \notin Leased'
    BY <1>2 DEF Leased, Active
  <1>4. AttemptResult(b) = "passed"
    BY <1>1, <1>2, <1>3, EndedByTheThread
  <1>5. outcome[b] \in {"passed", "clarify"}
    BY <1>4 DEF AttemptResult
  <1> QED
    BY <1>1, <1>5 DEF GuardiansAccount

LEMMA LedgerKeepsClones ==
  ASSUME PruningInvariant, Ledger
  PROVE  ClonesAreKept'
  <1>0. /\ WorkInvariant /\ LeaseInvariant /\ GuardiansAccount /\ ClonesAreKept
        /\ Next /\ UNCHANGED <<dirs, plan, doomed>>
    BY DEF PruningInvariant, WorkInvariant, Ledger, wsvars
  <1>1. WorkStep /\ \A a \in Attempts : WorldStep(a)
    BY <1>0, WorkInvariantStep, GuardiansAccountStep
  <1>2. ASSUME NEW a \in Leased', child'[a] # "none" PROVE a \in dirs
    <2>1. a \in Attempts
      BY DEF Leased
    <2>2. CASE child[a] = "none"
      <3>1. guard[a] = "up" /\ guard'[a] = "cli"
        BY <1>1, <1>2, <2>1, <2>2 DEF WorldStep, Steady, Reports
      <3> QED
        BY <2>1, <3>1 DEF Ledger
    <2>3. CASE child[a] # "none"
      <3>1. att[a].state # "unused"
        BY <1>0, <2>1, <2>3 DEF WorkInvariant, PlannersAsk, GuardiansAccount
      <3>2. a \in Leased
        <4>1. \A t \in Tasks, c \in Accounts : ~GrantsWork(t, a, c)
          BY <1>0, <2>1, <3>1, ClaimedRow
        <4> QED
          BY <1>0, <1>1, <1>2, <2>1, <4>1, LeasedAfterWork DEF WorkStep
      <3> QED
        BY <1>0, <2>3, <3>2 DEF ClonesAreKept
    <2> QED
      BY <2>2, <2>3
  <1>3. ASSUME doomed # None
        PROVE  doomed \in Attempts /\ att'[doomed].state \notin Active \cup {"unused"}
    BY <1>0, <1>1, <1>3, AttemptsAfter DEF ClonesAreKept
  <1>4. ASSUME NEW t \in Tasks, NEW b \in Attempts, NeededBy(t, b)'
        PROVE  b \in dirs /\ doomed # b
    <2>1. CASE NeededBy(t, b)
      BY <1>0, <2>1 DEF ClonesAreKept
    <2>2. CASE b \in Leased /\ BuildMade(b)
      <3>1. child[b] # "none"
        BY <1>0, <2>2, BuiltByAChild
      <3>2. b # None /\ b \in dirs
        BY <1>0, <2>2, <3>1, NoneIsNoAttempt DEF ClonesAreKept
      <3> QED
        BY <1>0, <2>2, <3>2 DEF ClonesAreKept, Leased
    <2>3. NeededBy(t, b) \/ (b \in Leased /\ BuildMade(b))
      BY <1>0, <1>4, NeededBefore
    <2> QED
      BY <2>1, <2>2, <2>3
  <1> QED
    BY <1>0, <1>2, <1>3, <1>4 DEF ClonesAreKept

\* The pruner's own steps, and a guardian's clone.
LEMMA PruningKeepsClones ==
  ASSUME PruningInvariant,
         \/ Survey \/ Remove \/ PrunerStops \/ UNCHANGED <<vars, wsvars>>
         \/ \E a \in Attempts : Clone(a) \/ Recheck(a)
  PROVE  ClonesAreKept' /\ UNCHANGED vars
  <1>0. WorkInvariant /\ ClonesAreKept
    BY DEF PruningInvariant
  <1>1. UNCHANGED vars
    BY DEF Survey, Remove, PrunerStops, Clone, Recheck
  <1>2. UNCHANGED <<task, att, child>> /\ Leased' = Leased
        /\ \A t, b : NeededBy(t, b)' <=> NeededBy(t, b)
    BY <1>1 DEF vars, Leased, NeededBy
  <1>3. CASE PrunerStops \/ UNCHANGED <<vars, wsvars>> \/ (\E a \in Attempts : Clone(a))
    BY <1>0, <1>2, <1>3, NoneIsNoAttempt DEF ClonesAreKept, PrunerStops, Clone, wsvars
  <1>4. CASE Survey
    BY <1>0, <1>2, <1>4 DEF ClonesAreKept, Survey
  <1>5. CASE Remove
    BY <1>0, <1>2, <1>5, NoneIsNoAttempt DEF ClonesAreKept, Remove, Leased
  <1>6. ASSUME NEW a \in Attempts, Recheck(a) PROVE ClonesAreKept'
    <2>1. Prunable(a) => att[a].state \notin Active \cup {"unused"}
      BY DEF Prunable
    <2>2. \A t \in Tasks : NeededBy(t, a) => ~Prunable(a)
      BY <1>0, <1>6, NeededBuild DEF NeededBy, Prunable, RetryReads, Judged
    <2>3. dirs' = dirs /\ doomed' = IF Prunable(a) THEN a ELSE None
      BY <1>6 DEF Recheck
    <2> QED
      BY <1>0, <1>2, <2>1, <2>2, <2>3, NoneIsNoAttempt DEF ClonesAreKept
  <1> QED
    BY <1>1, <1>3, <1>4, <1>5, <1>6

-------------------------------------------------------------------------------
(* The invariant, and the builds that are reviewed *)

LEMMA PruningSteps ==
  ASSUME [WorkspacesNext]_<<vars, wsvars>>
  PROVE  [Next]_vars /\ (Ledger \/ UNCHANGED vars)
  BY DEF WorkspacesNext, Ledger, Survey, Remove, PrunerStops, Clone, Recheck

LEMMA PruningInvariantStep ==
  ASSUME PruningInvariant, [WorkspacesNext]_<<vars, wsvars>>
  PROVE  PruningInvariant'
  <1>1. WorkInvariant' /\ GuardiansAccount'
    BY PruningSteps, WorkInvariantStep, GuardiansAccountStep DEF PruningInvariant
  <1>2. ClonesAreKept'
    BY LedgerKeepsClones, PruningKeepsClones DEF WorkspacesNext
  <1> QED
    BY <1>1, <1>2 DEF PruningInvariant

LEMMA InitPruningInvariant == WorkspacesInit => PruningInvariant
  <1> SUFFICES ASSUME WorkspacesInit PROVE PruningInvariant
    OBVIOUS
  <1>1. /\ \A t \in Tasks : task[t] = Absent
        /\ \A a \in Attempts : /\ att[a] = UnusedAttempt /\ guard[a] = "none"
                               /\ outcome[a] = "none" /\ child[a] = "none"
        /\ pc = "idle" /\ doomed = None
    BY DEF WorkspacesInit, Init
  <1>2. Absent.build_attempt = None
    BY DEF Absent, NewTask
  <1>3. ClonesAreKept
    BY <1>1, <1>2, NoneIsNoAttempt DEF ClonesAreKept, NeededBy, Leased
  <1> QED
    BY <1>1, <1>3, InitWorkInvariant DEF PruningInvariant, GuardiansAccount, WorkspacesInit

\* What pruning relies on, in every reachable state and whatever fails.
THEOREM PruningInvariantHolds == WorkspacesSpec => []PruningInvariant
  <1>1. PruningInvariant /\ [WorkspacesNext]_<<vars, wsvars>> => PruningInvariant'
    BY PruningInvariantStep
  <1> QED
    BY <1>1, InitPruningInvariant, PTL DEF WorkspacesSpec

LEMMA ReviewsRead ==
  ASSUME PruningInvariant
  PROVE  ReviewedBuildsStay
  <1> SUFFICES ASSUME NEW a \in Leased, ReadsBuild(a) PROVE att[a].base \in dirs
    BY DEF ReviewedBuildsStay
  <1>0. WorkInvariant /\ LeaseInvariant /\ ClonesAreKept
    BY DEF PruningInvariant, WorkInvariant
  <1>1. PICK t \in Tasks : t = att[a].task /\ task[t].state \in Active
    BY <1>0, OwnedRow
  <1>2. att[a].phase = task[t].phase /\ att[a].base = task[t].build_attempt
        /\ task[t].phase \in Judged
    BY <1>0, <1>1 DEF WorkInvariant, LeasesCarryWork, ReadsBuild, Judged
  <1>3. PassedAttempt(task[t].build_attempt, t, "build")
    BY <1>0, <1>2 DEF WorkInvariant, PhasesAreEarned
  <1>4. NeededBy(t, task[t].build_attempt) /\ task[t].build_attempt \in Attempts
    BY <1>1, <1>2, <1>3 DEF NeededBy, PassedAttempt, Active, PrunableStates
  <1> QED
    BY <1>0, <1>2, <1>4 DEF ClonesAreKept

\* Whatever is pruned, retried, killed or denied meanwhile, a review or a director's check whose
\* lease stands finds the clone of the build it is to read.
THEOREM ReviewsFindTheirBuild == WorkspacesSpec => []ReviewedBuildsStay
  BY PruningInvariantHolds, ReviewsRead, PTL

-------------------------------------------------------------------------------
(* Agents at work *)

\* Children the scheduler knows of.  One that its guardian was killed before recording is
\* known to nobody.
Living(a) == child[a] = "recorded" \/ (child[a] = "unrecorded" /\ "kill" \notin Faults)

AgentsHoldClones ==
  /\ pc = "release" => ~Living(slot)
  /\ \A a \in Attempts :
       Living(a) => a \in dirs /\ doomed # a /\ (a \in Leased \/ Unconfirmed(a))

AgentsInvariant == PruningInvariant /\ GuardiansHoldLeases /\ AgentsHoldClones

\* The lease of a guardian at work stands, and the step that ends it is not this one.
LEMMA WorkingKeepsLease ==
  ASSUME AgentsInvariant, [Next]_vars, NEW a \in Attempts, guard[a] \in Working
  PROVE  a \in Leased /\ a \in Leased'
  <1>1. LeaseInvariant /\ GuardiansHoldLeases
    BY DEF AgentsInvariant, PruningInvariant, WorkInvariant
  <1>2. a \in Leased /\ outcome[a] = "none"
    BY <1>1 DEF GuardiansHoldLeases
  <1>3. pc = "release" => slot # a
    BY <1>1 DEF GuardiansHoldLeases, Working, Up
  <1> QED
    BY <1>1, <1>2, <1>3, EndedByTheThread DEF Collecting

LEMMA LedgerKeepsAgents ==
  ASSUME AgentsInvariant, Ledger, "slow" \notin Faults
  PROVE  AgentsHoldClones'
  <1>0. /\ PruningInvariant /\ WorkInvariant /\ LeaseInvariant /\ GuardiansAccount
        /\ ClonesAreKept /\ GuardiansHoldLeases /\ AgentsHoldClones
        /\ [Next]_vars /\ UNCHANGED <<dirs, plan, doomed>>
    BY DEF AgentsInvariant, PruningInvariant, WorkInvariant, Ledger, wsvars
  <1>1. /\ WorkStep /\ ThreadStep
        /\ \A a \in Attempts : WorldStep(a)
    BY <1>0, WorkInvariantStep, GuardiansAccountStep, EveryGuardianStep
  <1>2. ClonesAreKept'
    BY <1>0, LedgerKeepsClones
  <1>3. ASSUME NEW a \in Attempts, Living(a)', guard[a] \notin Working
        PROVE  Living(a) /\ child'[a] = child[a]
    <2>1. child'[a] \in {"recorded", "unrecorded"}
      BY <1>3 DEF Living
    <2>2. child'[a] = child[a]
      BY <1>0, <1>1, <1>3, <2>1 DEF WorldStep, Steady, Reports, Working
    <2> QED
      BY <1>3, <2>2 DEF Living
  <1>4. ASSUME pc' = "release" PROVE ~Living(slot)'
    <2>1. pc = "release" => slot \in Attempts
      BY <1>0 DEF LeaseInvariant, TypeOK, TypeThread
    <2>2. slot' \in Attempts
      BY <1>1, <1>4, <2>1 DEF ThreadStep
    <2>3. PICK a \in Attempts : a = slot'
      BY <2>2
    <2>4. guard[a] \notin Up /\ ~Living(a)
      BY <1>0, <1>1, <1>4, <2>1, <2>3
      DEF ThreadStep, AgentsHoldClones, GuardiansHoldLeases, GuardiansAccount, Living, Up
    <2>5. ~Living(a)'
      BY <1>3, <2>4 DEF Working, Up
    <2> QED
      BY <2>3, <2>5 DEF Living
  <1>5. ASSUME NEW a \in Attempts, Living(a)'
        PROVE  a \in dirs /\ doomed # a /\ (a \in Leased' \/ Unconfirmed(a)')
    <2>1. CASE guard[a] \in Working
      <3>1. a \in Leased /\ a \in Leased' /\ child'[a] # "none"
        BY <1>0, <1>5, <2>1, WorkingKeepsLease DEF Living
      <3>2. a \in dirs
        BY <1>0, <1>2, <3>1 DEF ClonesAreKept
      <3>3. doomed # a
        BY <1>0, <3>1, NoneIsNoAttempt DEF ClonesAreKept, Leased
      <3> QED
        BY <3>1, <3>2, <3>3
    <2>2. CASE guard[a] \notin Working
      <3>1. Living(a) /\ child'[a] = child[a] /\ child[a] \in {"recorded", "unrecorded"}
        BY <1>3, <1>5, <2>2 DEF Living
      <3>2. a \in dirs /\ doomed # a /\ (a \in Leased \/ Unconfirmed(a))
        BY <1>0, <3>1 DEF AgentsHoldClones
      <3>3. outcome[a] # "none" => outcome[a] = "unconfirmed" /\ outcome'[a] = outcome[a]
        <4>1. outcome[a] # "none" => outcome[a] = "unconfirmed" /\ guard[a] \in {"done", "dead"}
          BY <1>0, <3>1 DEF GuardiansAccount
        <4> QED
          BY <1>1, <4>1 DEF WorldStep, Steady, Reports
      <3>4. CASE Unconfirmed(a)
        <4>1. att'[a] = att[a]
          BY <1>0, <1>1, <3>4, AttemptsAfter DEF Unconfirmed, Active
        <4> QED
          BY <3>2, <3>3, <3>4, <4>1 DEF Unconfirmed
      <3>5. CASE a \in Leased /\ a \notin Leased'
        <4>1. Collecting(a) /\ att'[a].state = AttemptResult(a)
          BY <1>0, <3>1, <3>5, EndedByTheThread DEF AgentsHoldClones
        <4>2. outcome[a] = "unconfirmed" /\ outcome'[a] = "unconfirmed"
          BY <3>3, <4>1 DEF Collecting
        <4>3. att'[a].state = "failed"
          BY <4>1, <4>2 DEF AttemptResult
        <4> QED
          BY <3>2, <4>2, <4>3 DEF Unconfirmed
      <3> QED
        BY <3>2, <3>4, <3>5
    <2> QED
      BY <2>1, <2>2
  <1> QED
    BY <1>0, <1>4, <1>5 DEF AgentsHoldClones

LEMMA PruningKeepsAgents ==
  ASSUME AgentsInvariant,
         \/ Survey \/ Remove \/ PrunerStops \/ UNCHANGED <<vars, wsvars>>
         \/ \E a \in Attempts : Clone(a) \/ Recheck(a)
  PROVE  AgentsHoldClones'
  <1>0. AgentsHoldClones /\ UNCHANGED vars
    BY PruningKeepsClones DEF AgentsInvariant
  <1>1. UNCHANGED <<pc, slot, att, child, outcome>> /\ Leased' = Leased
        /\ \A a : (Living(a)' <=> Living(a)) /\ (Unconfirmed(a)' <=> Unconfirmed(a))
    BY <1>0 DEF vars, Leased, Living, Unconfirmed
  <1>2. CASE Survey \/ PrunerStops \/ UNCHANGED <<vars, wsvars>> \/ (\E a \in Attempts : Clone(a))
    BY <1>0, <1>1, <1>2, NoneIsNoAttempt DEF AgentsHoldClones, Survey, PrunerStops, Clone, wsvars
  <1>3. CASE Remove
    BY <1>0, <1>1, <1>3, NoneIsNoAttempt DEF AgentsHoldClones, Remove
  <1>4. ASSUME NEW a \in Attempts, Recheck(a) PROVE AgentsHoldClones'
    <2>1. dirs' = dirs /\ doomed' = IF Prunable(a) THEN a ELSE None
      BY <1>4 DEF Recheck
    <2>2. Living(a) => ~Prunable(a)
      BY <1>0 DEF AgentsHoldClones, Prunable, Leased
    <2> QED
      BY <1>0, <1>1, <2>1, <2>2, NoneIsNoAttempt DEF AgentsHoldClones
  <1> QED
    BY <1>2, <1>3, <1>4

\* Where no guardian is slow to register, an agent that was recorded has its clone for as long
\* as it lives, also when its stop could not be confirmed.
THEOREM AgentsInvariantHolds ==
  "slow" \notin Faults => (WorkspacesSpec => []AgentsInvariant)
  <1> SUFFICES ASSUME "slow" \notin Faults PROVE WorkspacesSpec => []AgentsInvariant
    OBVIOUS
  <1>1. WorkspacesInit => AgentsInvariant
    <2> SUFFICES ASSUME WorkspacesInit PROVE AgentsInvariant
      OBVIOUS
    <2>1. PruningInvariant /\ GuardiansHoldLeases
      BY InitPruningInvariant, InitGuardiansInvariant DEF WorkspacesInit, GuardiansInvariant
    <2>2. pc = "idle" /\ \A a \in Attempts : child[a] = "none"
      BY DEF WorkspacesInit, Init
    <2> QED
      BY <2>1, <2>2 DEF AgentsInvariant, AgentsHoldClones, Living
  <1>2. AgentsInvariant /\ [WorkspacesNext]_<<vars, wsvars>> => AgentsInvariant'
    <2> SUFFICES ASSUME AgentsInvariant, [WorkspacesNext]_<<vars, wsvars>>
                 PROVE  AgentsInvariant'
      OBVIOUS
    <2>1. PruningInvariant'
      BY PruningInvariantStep DEF AgentsInvariant
    <2>2. GuardiansHoldLeases'
      BY PruningSteps, GuardiansStep DEF AgentsInvariant, PruningInvariant, GuardiansInvariant
    <2>3. AgentsHoldClones'
      BY LedgerKeepsAgents, PruningKeepsAgents DEF WorkspacesNext
    <2> QED
      BY <2>1, <2>2, <2>3 DEF AgentsInvariant
  <1> QED
    BY <1>1, <1>2, PTL DEF WorkspacesSpec

\* Where moreover no guardian is killed before it has recorded its child, no agent at all loses
\* the clone it works in, and every review finds its build.
THEOREM ClonesAlwaysStay ==
  {"slow", "kill"} \cap Faults = {} => (WorkspacesSpec => []ClonesStay)
  <1> SUFFICES ASSUME {"slow", "kill"} \cap Faults = {} PROVE WorkspacesSpec => []ClonesStay
    OBVIOUS
  <1>1. "slow" \notin Faults /\ "kill" \notin Faults
    OBVIOUS
  <1>2. AgentsInvariant => ClonesStay
    BY <1>1, ReviewsRead
    DEF AgentsInvariant, AgentsHoldClones, Living, ClonesStay, AgentsKeepTheirClones
  <1> QED
    BY <1>1, <1>2, AgentsInvariantHolds, PTL
-------------------------------------------------------------------------------
(* Releases and devices, as ServiceProofs reasons about them *)

\* The releases, and the codes that pair devices.
CP == INSTANCE ServiceProofs WITH
  job <- activators, Commits <- {r1, r2, r3}, MaxJobs <- 3, Base <- base, Spare <- 1,
  Overlaps <- TRUE, Faults <- {"prepare", "bootout", "bootstrap", "health", "die"},
  Devices <- {phone, tablet}, Codes <- {code1, code2}, Issuers <- {mac, api}, Slots <- {},
  CodeLife <- 1, SessionLife <- 3, RenewAfter <- 1, MaxSession <- 3, Away <- 1,
  MaxClock <- 3

\* The releases, and the sessions of one device.
SP == INSTANCE ServiceProofs WITH
  job <- activators, Commits <- {r1, r2, r3}, MaxJobs <- 3, Base <- base, Spare <- 1,
  Overlaps <- TRUE, Faults <- {"prepare", "bootout", "bootstrap", "health", "die"},
  Devices <- {phone}, Codes <- {code1}, Issuers <- {mac}, Slots <- {first, second},
  CodeLife <- 1, SessionLife <- 3, RenewAfter <- 1, MaxSession <- 3, Away <- 1,
  MaxClock <- 4

LEMMA SameReleases ==
  /\ HostAssumption => SP!BaseIsNoRelease
  /\ Releases!Init => SP!Init
  /\ Releases!Next => SP!Next
  /\ UNCHANGED releases => UNCHANGED SP!vars
  /\ SP!TypeOK /\ SP!ReleasesAreSound => Releases!TypeOK /\ Releases!ReleasesAreSound
<1>1. HostAssumption => SP!BaseIsNoRelease
  BY DEF HostAssumption, Releases!BaseIsNoRelease, SP!BaseIsNoRelease
<1>2. Releases!Init => SP!Init
  BY SMTT(30) DEF Releases!Init, SP!Init, Releases!Idle, SP!Idle, Releases!Jobs, SP!Jobs
<1>3. Releases!Next => SP!Next
  BY DEF Releases!Jobs, SP!Jobs, Releases!vars, SP!vars, Releases!Idle, SP!Idle,
         Releases!AtWork, SP!AtWork, Releases!Goes, SP!Goes, Releases!Stops, SP!Stops,
         Releases!Begins, SP!Begins, Releases!Activate, SP!Activate, Releases!Rollback,
         SP!Rollback, Releases!Added, SP!Added, Releases!Recorded, SP!Recorded,
         Releases!Prepare, SP!Prepare, Releases!PrepareFails, SP!PrepareFails,
         Releases!Save, SP!Save, Releases!Unload, SP!Unload, Releases!Source, SP!Source,
         Releases!Install, SP!Install, Releases!Load, SP!Load, Releases!GivesUp,
         SP!GivesUp, Releases!SwapFails, SP!SwapFails, Releases!SwapDies, SP!SwapDies,
         Releases!Unhealthy, SP!Unhealthy, Releases!Decided, SP!Decided,
         Releases!Healthy, SP!Healthy, Releases!Kept, SP!Kept, Releases!Pruned,
         SP!Pruned, Releases!Prune, SP!Prune, Releases!Die, SP!Die, Releases!Login,
         SP!Login, Releases!Step, SP!Step, Releases!Next, SP!Next, Releases!Cardinality,
         SP!Cardinality
<1>4. UNCHANGED releases => UNCHANGED SP!vars
  BY DEF releases, SP!vars
<1>5. SP!TypeOK /\ SP!ReleasesAreSound => Releases!TypeOK /\ Releases!ReleasesAreSound
  BY DEF Releases!EndsHealthy, SP!EndsHealthy, Releases!StaysLoaded, SP!StaysLoaded,
         Releases!RecordAgrees, SP!RecordAgrees, Releases!InUseIsKept, SP!InUseIsKept,
         Releases!ReleasesAreSound, SP!ReleasesAreSound, Releases!TypeOK, SP!TypeOK,
         Releases!Quiet, SP!Quiet, Releases!OnRecord, SP!OnRecord, Releases!OnBooks,
         SP!OnBooks, Releases!AtWork, SP!AtWork, Releases!Jobs, SP!Jobs
<1> QED BY <1>1, <1>2, <1>3, <1>4, <1>5

LEMMA SameCodes ==
  /\ HostAssumption => CP!AccessAssumption
  /\ Pairings!AccessInit => CP!AccessInit
  /\ Pairings!AccessNext => CP!AccessNext
  /\ UNCHANGED access => UNCHANGED CP!acvars
  /\ CP!Trusted => Pairings!Trusted
  /\ CP!AbsencesGrow => Pairings!AbsencesGrow
<1>1. HostAssumption => CP!AccessAssumption
  BY DEF HostAssumption, Pairings!AccessAssumption, CP!AccessAssumption
<1>2. Pairings!AccessInit => CP!AccessInit
  BY DEF Pairings!AccessInit, CP!AccessInit, Pairings!NoRow, CP!NoRow, Pairings!NoRequest,
         CP!NoRequest
<1>3. Pairings!AccessNext => CP!AccessNext
  BY DEF Pairings!AccessNext, CP!AccessNext, Pairings!Outstanding, CP!Outstanding,
         Pairings!Handed, CP!Handed, Pairings!ReadCodes, CP!ReadCodes, Pairings!WriteCodes,
         CP!WriteCodes, Pairings!ReplaceCodes, CP!ReplaceCodes, Pairings!Pair, CP!Pair,
         Pairings!LiveRow, CP!LiveRow, Pairings!Arrive, CP!Arrive, Pairings!At, CP!At,
         Pairings!GoesOn, CP!GoesOn, Pairings!Served, CP!Served, Pairings!Of, CP!Of,
         Pairings!Poll, CP!Poll, Pairings!ReadSession, CP!ReadSession, Pairings!Since,
         CP!Since, Pairings!WriteAbsence, CP!WriteAbsence, Pairings!Seen, CP!Seen,
         Pairings!SignedOut, CP!SignedOut, Pairings!Revoke, CP!Revoke, Pairings!Logout,
         CP!Logout, Pairings!RevokeAll, CP!RevokeAll, Pairings!Renews, CP!Renews,
         Pairings!Touched, CP!Touched, Pairings!Touch, CP!Touch, Pairings!Tick, CP!Tick,
         Pairings!NoRow, CP!NoRow, Pairings!NoRequest, CP!NoRequest, Pairings!acvars, CP!acvars
<1>4. UNCHANGED access => UNCHANGED CP!acvars
  BY DEF access, CP!acvars
<1>5. CP!Trusted => Pairings!Trusted
  BY DEF Pairings!Trusted, CP!Trusted, Pairings!NoRow, CP!NoRow
<1>6. CP!AbsencesGrow => Pairings!AbsencesGrow
  BY DEF Pairings!AbsencesGrow, CP!AbsencesGrow
<1> QED BY <1>1, <1>2, <1>3, <1>4, <1>5, <1>6

LEMMA SameSessions ==
  /\ HostAssumption => SP!AccessAssumption
  /\ Sessions!AccessInit => SP!AccessInit
  /\ Sessions!AccessNext => SP!AccessNext
  /\ UNCHANGED access => UNCHANGED SP!acvars
  /\ SP!Trusted => Sessions!Trusted
  /\ SP!AbsencesGrow => Sessions!AbsencesGrow
<1>1. HostAssumption => SP!AccessAssumption
  BY DEF HostAssumption, Sessions!AccessAssumption, SP!AccessAssumption
<1>2. Sessions!AccessInit => SP!AccessInit
  BY SMTT(30) DEF Sessions!AccessInit, SP!AccessInit, Sessions!NoRow, SP!NoRow, Sessions!NoRequest,
         SP!NoRequest
<1>3. Sessions!AccessNext => SP!AccessNext
  BY DEF Sessions!AccessNext, SP!AccessNext, Sessions!Outstanding, SP!Outstanding,
         Sessions!Handed, SP!Handed, Sessions!ReadCodes, SP!ReadCodes, Sessions!WriteCodes,
         SP!WriteCodes, Sessions!ReplaceCodes, SP!ReplaceCodes, Sessions!Pair, SP!Pair,
         Sessions!LiveRow, SP!LiveRow, Sessions!Arrive, SP!Arrive, Sessions!At, SP!At,
         Sessions!GoesOn, SP!GoesOn, Sessions!Served, SP!Served, Sessions!Of, SP!Of,
         Sessions!Poll, SP!Poll, Sessions!ReadSession, SP!ReadSession, Sessions!Since,
         SP!Since, Sessions!WriteAbsence, SP!WriteAbsence, Sessions!Seen, SP!Seen,
         Sessions!SignedOut, SP!SignedOut, Sessions!Revoke, SP!Revoke, Sessions!Logout,
         SP!Logout, Sessions!RevokeAll, SP!RevokeAll, Sessions!Renews, SP!Renews,
         Sessions!Touched, SP!Touched, Sessions!Touch, SP!Touch, Sessions!Tick, SP!Tick,
         Sessions!NoRow, SP!NoRow, Sessions!NoRequest, SP!NoRequest, Sessions!acvars, SP!acvars
<1>4. UNCHANGED access => UNCHANGED SP!acvars
  BY DEF access, SP!acvars
<1>5. SP!Trusted => Sessions!Trusted
  BY DEF Sessions!Trusted, SP!Trusted, Sessions!NoRow, SP!NoRow
<1>6. SP!AbsencesGrow => Sessions!AbsencesGrow
  BY DEF Sessions!AbsencesGrow, SP!AbsencesGrow
<1> QED BY <1>1, <1>2, <1>3, <1>4, <1>5, <1>6

-------------------------------------------------------------------------------
(* Products, as ProvisioningProofs reasons about them *)

TT == INSTANCE ProvisioningProofs WITH
  Taps <- {tap1, tap2}, Key <- [t \in {tap1, tap2} |-> "key"], Checkpoint <- {tap1, tap2},
  Provisions <- {}, Jobs <- Everyone, Files <- {source, secret}, Secret <- secret,
  MaxMoves <- 3, MaxRestarts <- 1, Nested <- FALSE

LEMMA SameTwoTaps ==
  /\ HostAssumption => TT!ProvisioningAssumption
  /\ TwoTaps!Init => TT!Init
  /\ TwoTaps!Next => TT!Next
  /\ UNCHANGED products => UNCHANGED TT!vars
  /\ TT!HistoryIsTheOwners /\ TT!EnrolledOnce /\ TT!DoneIsItsOwn =>
       TwoTaps!HistoryIsTheOwners /\ TwoTaps!EnrolledOnce /\ TwoTaps!DoneIsItsOwn
<1>1. HostAssumption => TT!ProvisioningAssumption
  BY DEF HostAssumption, TwoTaps!ProvisioningAssumption, TT!ProvisioningAssumption, TwoTaps!Owner,
         TT!Owner, TwoTaps!Nobody, TT!Nobody
<1>2. TwoTaps!Init => TT!Init
  <2>1. TwoTaps!NewJob = TT!NewJob /\ TwoTaps!Alone = TT!Alone
    BY DEF TwoTaps!NewJob, TT!NewJob, TwoTaps!Alone, TT!Alone, TwoTaps!Nobody, TT!Nobody
  <2> QED BY <2>1 DEF TwoTaps!Init, TT!Init, TwoTaps!EnrolmentInit, TT!EnrolmentInit,
             TwoTaps!Owner, TT!Owner, TwoTaps!Nobody, TT!Nobody
<1>3. TwoTaps!Next => TT!Next
  BY DEF TwoTaps!Listed, TT!Listed, TwoTaps!Looked, TT!Looked, TwoTaps!Meddles, TT!Meddles, TwoTaps!Remember, TT!Remember,
         TwoTaps!evars, TT!evars, TwoTaps!Nobody, TT!Nobody, TwoTaps!Owner, TT!Owner,
         TwoTaps!Unsaved, TT!Unsaved, TwoTaps!HeadNow, TT!HeadNow, TwoTaps!OwnerMoves,
         TT!OwnerMoves, TwoTaps!Archive, TT!Archive, TwoTaps!Goes, TT!Goes,
         TwoTaps!OnlyJob, TT!OnlyJob, TwoTaps!Refused, TT!Refused, TwoTaps!Receive,
         TT!Receive, TwoTaps!Examine, TT!Examine, TwoTaps!Describe, TT!Describe,
         TwoTaps!LookAgain, TT!LookAgain, TwoTaps!ListChanges, TT!ListChanges,
         TwoTaps!Staged, TT!Staged, TwoTaps!StageListed, TT!StageListed,
         TwoTaps!CommitStaged, TT!CommitStaged, TwoTaps!Clean, TT!Clean,
         TwoTaps!ReadHead, TT!ReadHead, TwoTaps!OnMain, TT!OnMain, TwoTaps!Clone,
         TT!Clone, TwoTaps!Insert, TT!Insert, TwoTaps!EngineEnrols, TT!EngineEnrols,
         TwoTaps!Stored, TT!Stored, TwoTaps!Record, TT!Record, TwoTaps!Tap, TT!Tap,
         TwoTaps!Restart, TT!Restart, TwoTaps!prvars, TT!prvars, TwoTaps!vars, TT!vars,
         TwoTaps!README, TT!README, TwoTaps!OnlyProvision, TT!OnlyProvision,
         TwoTaps!Approve, TT!Approve, TwoTaps!LookForFolder, TT!LookForFolder,
         TwoTaps!WriteFolder, TT!WriteFolder, TwoTaps!CommitFolder, TT!CommitFolder,
         TwoTaps!LookForRemote, TT!LookForRemote, TwoTaps!CreateRemote, TT!CreateRemote,
         TwoTaps!Request, TT!Request, TwoTaps!Provision, TT!Provision, TwoTaps!Works,
         TT!Works, TwoTaps!Next, TT!Next
<1>4. UNCHANGED products => UNCHANGED TT!vars
  BY DEF products, TT!vars, TT!evars, TT!prvars
<1>5. TT!HistoryIsTheOwners /\ TT!EnrolledOnce /\ TT!DoneIsItsOwn =>
        TwoTaps!HistoryIsTheOwners /\ TwoTaps!EnrolledOnce /\ TwoTaps!DoneIsItsOwn
  BY DEF TwoTaps!HistoryIsTheOwners, TT!HistoryIsTheOwners, TwoTaps!EnrolledOnce,
         TT!EnrolledOnce, TwoTaps!DoneIsItsOwn, TT!DoneIsItsOwn, TwoTaps!Cardinality,
         TT!Cardinality
<1> QED BY <1>1, <1>2, <1>3, <1>4, <1>5

NP == INSTANCE ProvisioningProofs WITH
  Taps <- {tap1}, Key <- [t \in {tap1} |-> "key"], Checkpoint <- {tap1},
  Provisions <- {new1, new2}, Jobs <- Everyone, Files <- {source, secret}, Secret <- secret,
  MaxMoves <- 1, MaxRestarts <- 1, Nested <- FALSE

LEMMA SameProposals ==
  /\ HostAssumption => NP!ProvisioningAssumption
  /\ Proposals!Init => NP!Init
  /\ Proposals!Next => NP!Next
  /\ UNCHANGED products => UNCHANGED NP!vars
  /\ NP!HistoryIsTheOwners /\ NP!EnrolledOnce /\ NP!DoneIsItsOwn =>
       Proposals!HistoryIsTheOwners /\ Proposals!EnrolledOnce /\ Proposals!DoneIsItsOwn
<1>1. HostAssumption => NP!ProvisioningAssumption
  BY DEF HostAssumption, Proposals!ProvisioningAssumption, NP!ProvisioningAssumption, Proposals!Owner,
         NP!Owner, Proposals!Nobody, NP!Nobody
<1>2. Proposals!Init => NP!Init
  BY DEF Proposals!Init, NP!Init, Proposals!EnrolmentInit, NP!EnrolmentInit,
         Proposals!Alone, NP!Alone, Proposals!NewJob, NP!NewJob, Proposals!Owner, NP!Owner, Proposals!Nobody,
         NP!Nobody
<1>3. Proposals!Next => NP!Next
  BY DEF Proposals!Listed, NP!Listed, Proposals!Looked, NP!Looked, Proposals!Meddles, NP!Meddles, Proposals!Remember, NP!Remember,
         Proposals!evars, NP!evars, Proposals!Nobody, NP!Nobody, Proposals!Owner,
         NP!Owner, Proposals!Unsaved, NP!Unsaved, Proposals!HeadNow, NP!HeadNow,
         Proposals!OwnerMoves, NP!OwnerMoves, Proposals!Archive, NP!Archive,
         Proposals!Goes, NP!Goes, Proposals!OnlyJob, NP!OnlyJob, Proposals!Refused,
         NP!Refused, Proposals!Receive, NP!Receive, Proposals!Examine, NP!Examine,
         Proposals!Describe, NP!Describe, Proposals!LookAgain, NP!LookAgain,
         Proposals!ListChanges, NP!ListChanges, Proposals!Staged, NP!Staged,
         Proposals!StageListed, NP!StageListed, Proposals!CommitStaged, NP!CommitStaged,
         Proposals!Clean, NP!Clean, Proposals!ReadHead, NP!ReadHead, Proposals!OnMain,
         NP!OnMain, Proposals!Clone, NP!Clone, Proposals!Insert, NP!Insert,
         Proposals!EngineEnrols, NP!EngineEnrols, Proposals!Stored, NP!Stored,
         Proposals!Record, NP!Record, Proposals!Tap, NP!Tap, Proposals!Restart,
         NP!Restart, Proposals!prvars, NP!prvars, Proposals!vars, NP!vars,
         Proposals!README, NP!README, Proposals!OnlyProvision, NP!OnlyProvision,
         Proposals!Approve, NP!Approve, Proposals!LookForFolder, NP!LookForFolder,
         Proposals!WriteFolder, NP!WriteFolder, Proposals!CommitFolder, NP!CommitFolder,
         Proposals!LookForRemote, NP!LookForRemote, Proposals!CreateRemote,
         NP!CreateRemote, Proposals!Request, NP!Request, Proposals!Provision,
         NP!Provision, Proposals!Works, NP!Works, Proposals!Next, NP!Next
<1>4. UNCHANGED products => UNCHANGED NP!vars
  BY DEF products, NP!vars, NP!evars, NP!prvars
<1>5. NP!HistoryIsTheOwners /\ NP!EnrolledOnce /\ NP!DoneIsItsOwn =>
        Proposals!HistoryIsTheOwners /\ Proposals!EnrolledOnce /\ Proposals!DoneIsItsOwn
  BY DEF Proposals!HistoryIsTheOwners, NP!HistoryIsTheOwners, Proposals!EnrolledOnce,
         NP!EnrolledOnce, Proposals!DoneIsItsOwn, NP!DoneIsItsOwn, Proposals!Cardinality,
         NP!Cardinality
<1> QED BY <1>1, <1>2, <1>3, <1>4, <1>5

-------------------------------------------------------------------------------
(* What runs on the host, together *)

\* Whichever part is explored, releases move as Releases says, or not at all.
LEMMA ReleasesGoOn ==
  /\ HostInit => SP!Init
  /\ [HostNext]_hostvars => [SP!Next]_SP!vars
<1>1. HostInit => SP!Init
  BY SameReleases DEF HostInit
<1>2. HostNext => Releases!Next \/ UNCHANGED releases
  BY DEF HostNext
<1> QED BY <1>1, <1>2, SameReleases DEF hostvars

\* In the part "proposals" two proposals are created, in any other two taps enrol.
ProductsInvariant ==
  /\ part = "proposals" => NP!ProvisioningInvariant
  /\ part # "proposals" => TT!ProvisioningInvariant

LEMMA ProductsStep ==
  ASSUME ProductsInvariant, [HostNext]_hostvars
  PROVE  ProductsInvariant'
<1>1. TT!ProvisioningAssumption /\ NP!ProvisioningAssumption
  BY HostAssumption, SameTwoTaps, SameProposals
<1>2. part' = part
  BY DEF HostNext, hostvars
<1>3. CASE part = "proposals"
  <2>1. Proposals!Next \/ UNCHANGED products
    BY <1>3 DEF HostNext, hostvars
  <2>2. NP!ProvisioningInvariant /\ [NP!Next]_NP!vars
    BY <1>3, <2>1, SameProposals DEF ProductsInvariant
  <2> QED BY <1>1, <1>2, <1>3, <2>2, NP!ProvisioningStep DEF ProductsInvariant
<1>4. CASE part # "proposals"
  <2>1. TwoTaps!Next \/ UNCHANGED products
    BY <1>4 DEF HostNext, hostvars
  <2>2. TT!ProvisioningInvariant /\ [TT!Next]_TT!vars
    BY <1>4, <2>1, SameTwoTaps DEF ProductsInvariant
  <2> QED BY <1>1, <1>2, <1>4, <2>2, TT!ProvisioningStep DEF ProductsInvariant
<1> QED BY <1>3, <1>4

\* Activations and rollbacks, as ActivationsEndSound of ServiceProofs has them for any commits and
\* activators, beside everything else that runs on the host.
THEOREM ReleasesStaySound == HostSpec => []ReleasesAreSound
<1>1. SP!BaseIsNoRelease
  BY HostAssumption, SameReleases
<1>2. SP!Init /\ [][SP!Next]_SP!vars => [](SP!ReleaseInvariant /\ SP!ReleasesAreSound)
  BY <1>1, SP!ReleaseInvariantHolds, SP!ActivationsEndSound, PTL DEF SP!Spec
<1>3. SP!ReleaseInvariant /\ SP!ReleasesAreSound => ReleasesAreSound
  BY SameReleases DEF SP!ReleaseInvariant, ReleasesAreSound
<1> QED BY <1>2, <1>3, ReleasesGoOn, PTL DEF HostSpec

\* A repository that is enrolled, and one that is created, as OwnersRepositoryIsSafe of
\* ProvisioningProofs has them for any taps, proposals and files.
THEOREM ProductsStayTheOwners == HostSpec => []ProductsAreTheOwners
<1>1. HostInit => ProductsInvariant
  <2>1. TT!ProvisioningAssumption /\ NP!ProvisioningAssumption
    BY HostAssumption, SameTwoTaps, SameProposals
  <2>2. ASSUME HostInit, part = "proposals" PROVE NP!ProvisioningInvariant
    <3>1. NP!Init
      BY <2>2, SameProposals DEF HostInit
    <3> QED BY <2>1, <3>1, NP!ProvisioningStarts
  <2>3. ASSUME HostInit, part # "proposals" PROVE TT!ProvisioningInvariant
    <3>1. TT!Init
      BY <2>3, SameTwoTaps DEF HostInit
    <3> QED BY <2>1, <3>1, TT!ProvisioningStarts
  <2> QED BY <2>2, <2>3 DEF ProductsInvariant
<1>2. ProductsInvariant => ProductsAreTheOwners
  <2>1. TT!ProvisioningAssumption /\ NP!ProvisioningAssumption
    BY HostAssumption, SameTwoTaps, SameProposals
  <2>2. ASSUME ProductsInvariant, part = "proposals"
        PROVE  Proposals!HistoryIsTheOwners /\ Proposals!EnrolledOnce /\ Proposals!DoneIsItsOwn
    <3>1. NP!HistoryIsTheOwners /\ NP!EnrolledOnce /\ NP!DoneIsItsOwn
      BY <2>1, <2>2, NP!ProductsAreSound DEF ProductsInvariant
    <3> QED BY <3>1, SameProposals
  <2>3. ASSUME ProductsInvariant, part = "taps"
        PROVE  TwoTaps!HistoryIsTheOwners /\ TwoTaps!EnrolledOnce
    <3>1. TT!HistoryIsTheOwners /\ TT!EnrolledOnce /\ TT!DoneIsItsOwn
      BY <2>1, <2>3, TT!ProductsAreSound DEF ProductsInvariant
    <3> QED BY <3>1, SameTwoTaps
  <2> QED BY <2>2, <2>3 DEF ProductsAreTheOwners
<1> QED BY <1>1, <1>2, ProductsStep, PTL DEF HostSpec

\* In the part "codes" two codes are minted and used, in any other one device is served.
DevicesInvariant ==
  /\ part = "codes" => CP!AccessInvariant
  /\ part # "codes" => SP!AccessInvariant

LEMMA DevicesStep ==
  ASSUME DevicesInvariant, [HostNext]_hostvars
  PROVE  /\ DevicesInvariant'
         /\ part = "sessions" => Sessions!AbsencesGrow
<1>1. CP!AccessAssumption /\ SP!AccessAssumption
  BY HostAssumption, SameCodes, SameSessions
<1>2. part' = part
  BY DEF HostNext, hostvars
<1>3. CASE part = "codes"
  <2>1. Pairings!AccessNext \/ UNCHANGED access
    BY <1>3 DEF HostNext, hostvars
  <2>2. CP!AccessInvariant /\ [CP!AccessNext]_CP!acvars
    BY <1>3, <2>1, SameCodes DEF DevicesInvariant
  <2> QED BY <1>1, <1>2, <1>3, <2>2, CP!AccessSteps DEF DevicesInvariant
<1>4. CASE part # "codes"
  <2>1. Sessions!AccessNext \/ UNCHANGED access
    BY <1>4 DEF HostNext, hostvars
  <2>2. SP!AccessInvariant /\ [SP!AccessNext]_SP!acvars
    BY <1>4, <2>1, SameSessions DEF DevicesInvariant
  <2> QED BY <1>1, <1>2, <1>4, <2>2, SP!AccessSteps, SameSessions DEF DevicesInvariant
<1> QED BY <1>3, <1>4

\* Codes that pair, and sessions that are renewed, signed out and found absent by two requests at
\* once, as TrustIsKept of ServiceProofs has them for any devices, codes, requests and periods.
THEOREM DevicesStayKept == HostSpec => DevicesAreKept
<1>1. HostInit => DevicesInvariant
  <2>1. HostInit /\ part = "codes" => CP!AccessInvariant
    BY SameCodes, CP!AccessStarts DEF HostInit
  <2>2. HostInit /\ part # "codes" => SP!AccessInvariant
    BY SameSessions, SP!AccessStarts DEF HostInit
  <2> QED BY <2>1, <2>2 DEF DevicesInvariant
<1>2. DevicesInvariant =>
        /\ part = "codes" => Pairings!Trusted
        /\ part = "sessions" => Sessions!Trusted
  BY SameCodes, SameSessions, CP!TrustFollows, SP!TrustFollows DEF DevicesInvariant
<1>3. DevicesInvariant /\ [HostNext]_hostvars => [part = "sessions" => Sessions!AbsencesGrow]_access
  BY DevicesStep
<1> QED BY <1>1, <1>2, <1>3, DevicesStep, PTL DEF HostSpec, DevicesAreKept
===============================================================================
