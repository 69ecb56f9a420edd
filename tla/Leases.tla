-------------------------------- MODULE Leases --------------------------------
(***************************************************************************)
(* The controller's scheduler, the guardians it spawns and the owner.      *)
(*                                                                         *)
(* A task is owned by at most one attempt at a time: claim() leases it,    *)
(* a guardian process runs one CLI child for it and leaves a result file,  *)
(* and the scheduler's tick() collects the file, or takes the lease back   *)
(* from a guardian that died.  The tables `task' and `att' are the SQLite  *)
(* store: a change of theirs is one BEGIN IMMEDIATE transaction.  The      *)
(* other variables are the world the store does not hold: processes, the   *)
(* files they leave, and the scheduler's place in its loop.                *)
(***************************************************************************)
EXTENDS Naturals, FiniteSets

CONSTANTS
  Tasks,        \* identities of task rows, those a plan may still create included
  Attempts,     \* supply of attempt identities (a bound: claim() draws fresh ones)
  Accounts,     \* enrolled CLI subscriptions
  Projects,
  None,         \* Python's None
  ProjectOf,    \* task -> project
  Overlapping,  \* symmetric relation: tasks whose declared scopes overlap
  Goals,        \* goal -> the dependencies the owner declares for it
  Plans,        \* task -> validated plans, each a map from new tasks to dependencies
  Reviewed,     \* tasks created with review=True
  Directed,     \* tasks created with director=True
  Roles,        \* account -> phases it may serve; "plan" includes directing
  MaxSlots,     \* the largest capacity the owner can set
  MaxRepairs, MaxRetries, MaxRecoveries, MaxAnswers,   \* budgets, 2 in the source
  MaxPending,   \* bound: instructions the owner sends to one task
  Faults,       \* bound: the failures the world may inject
  Requests,     \* bound: the requests the owner may make
  Ends          \* bound: how a guardian's run may end besides succeeding

Active  == {"leased", "running", "verifying", "reviewing", "recovering"}
Success == {"ready_for_approval", "completed"}
Waiting == {"ready", "waiting_capacity", "waiting_dependency", "repair_queued", "cooldown"}
Stopped == {"blocked", "interrupted", "needs_auth", "needs_permission"}
TaskStates == Active \cup Success \cup Waiting \cup Stopped
                \cup {"absent", "integrating", "awaiting_input", "cancelled"}
Phases  == {"plan", "replan", "build", "review", "direct"}
Results == {"passed", "failed", "cancelled", "needs_auth", "needs_permission",
            "throttled", "model_unavailable"}
\* What a result file says.  A clarifying plan is a passed one that asks a question;
\* "unconfirmed" is a failed one carrying termination_unconfirmed.
Outcomes == Results \cup {"clarify", "unconfirmed"}

LeaseAssumptions ==
  /\ None \notin Attempts \cup Tasks
  /\ ProjectOf \in [Tasks -> Projects] /\ Reviewed \cup Directed \subseteq Tasks
  /\ Overlapping \subseteq Tasks \X Tasks
  /\ \A t, u \in Tasks : <<t, u>> \in Overlapping => <<u, t>> \in Overlapping
  /\ DOMAIN Goals \subseteq Tasks
  /\ \A t \in DOMAIN Goals : Goals[t] \subseteq Tasks
  /\ DOMAIN Plans = Tasks
  /\ \A t \in Tasks : \A plan \in Plans[t] :
        /\ DOMAIN plan \subseteq Tasks \ {t} /\ IsFiniteSet(DOMAIN plan)
        /\ \A u \in DOMAIN plan :     \* build tasks inherit what the request was given
              /\ plan[u] \subseteq DOMAIN plan
              /\ ProjectOf[u] = ProjectOf[t]
              /\ u \in Directed <=> t \in Directed
              /\ u \in Reviewed <=> t \in Reviewed
  /\ DOMAIN Roles = Accounts
  /\ MaxSlots \in Nat \ {0}
  /\ {MaxRepairs, MaxRetries, MaxRecoveries, MaxAnswers, MaxPending} \subseteq Nat
  /\ Ends \subseteq {"failed", "needs_auth", "needs_permission", "throttled",
                  "model_unavailable"}
ASSUME LeaseAssumption == LeaseAssumptions

VARIABLES
  task, deps, att,                      \* tables tasks, task_dependencies, attempts
  paused, limit, enabled, healthy, tired,   \* settings, projects, accounts
  guard, stop, child, outcome,          \* guardian processes, their children and files
  pc, todo, seen, slot,                 \* the scheduler thread inside tick()
  signals                               \* cancel requests whose SIGTERM is still to be sent

store   == <<task, deps, att>>
policy  == <<paused, limit, enabled, healthy, tired>>
world   == <<guard, stop, child, outcome>>
sched   == <<pc, todo, seen, slot>>
vars    == <<task, deps, att, paused, limit, enabled, healthy, tired,
             guard, stop, child, outcome, pc, todo, seen, slot, signals>>

-------------------------------------------------------------------------------
(* Rows of the tables *)

NewTask(phase) ==
  [state |-> "ready", phase |-> phase, token |-> 0, attempt_id |-> None,
   cancel_requested |-> FALSE, cooling |-> FALSE,
   repairs |-> 0, retries |-> 0, recoveries |-> 0, clarifications |-> 0,
   instructions_pending |-> 0,
   build_attempt |-> None, review_attempt |-> None, director_review_attempt |-> None]

Absent == [NewTask("build") EXCEPT !.state = "absent"]

UnusedAttempt ==
  [state |-> "unused", task |-> None, account |-> None, token |-> 0,
   phase |-> "build", base |-> None, instruction_count |-> 0, identity |-> FALSE]

Leased == {a \in Attempts : att[a].state \in Active}

\* The candidate commit under review was made by the task's latest passed build attempt,
\* and that attempt's account is the task's author_account.
Author(t) == IF task[t].build_attempt = None THEN None ELSE att[task[t].build_attempt].account

\* The phase a task is rebuilt in: a directed task goes back to its director first.
Rework(t) == IF t \in Directed THEN "replan" ELSE "build"

Init ==
  /\ task = [t \in Tasks |-> Absent]
  /\ deps = [t \in Tasks |-> {}]
  /\ att = [a \in Attempts |-> UnusedAttempt]
  /\ paused = FALSE /\ limit = MaxSlots
  /\ enabled = [p \in Projects |-> TRUE]
  /\ healthy = [c \in Accounts |-> TRUE]
  /\ tired = [c \in Accounts |-> FALSE]
  /\ guard = [a \in Attempts |-> "none"]
  /\ stop = [a \in Attempts |-> FALSE]
  /\ child = [a \in Attempts |-> "none"]
  /\ outcome = [a \in Attempts |-> "none"]
  /\ pc = "idle" /\ todo = {} /\ seen = {} /\ slot = None
  /\ signals = {}

-------------------------------------------------------------------------------
(* tick(): reconciling the leased attempts it read when it started *)

\* The loop runs over rows read at its start; whether the guardian had registered its
\* identity is part of that reading and may be out of date when it is used.
TickBegins ==
  /\ pc = "idle"
  /\ pc' = "tick"
  /\ todo' = Leased
  /\ seen' = {a \in Leased : att[a].identity}
  /\ UNCHANGED <<store, policy, world, slot, signals>>

Handled(a) == todo' = todo \ {a} /\ seen' = seen \ {a}

Up == {"starting", "up", "cli", "judging", "done"}

\* alive(): no recorded identity reads as not alive.
Alive(a) == a \in seen /\ guard[a] \in Up

Park(a) ==
  task' = [task EXCEPT ![att[a].task].state = "recovering"]

\* Inspecting a live process may be denied: the lease is retained.
InspectionDenied(a) ==
  /\ pc = "tick" /\ a \in todo
  /\ "denied" \in Faults /\ Alive(a)
  /\ Park(a) /\ Handled(a)
  /\ UNCHANGED <<deps, att, policy, world, pc, slot, signals>>

Current(a) == att[a].state \in Active /\ task[att[a].task].token = att[a].token

\* A live guardian owns its timeout and its result; a lease younger than 15 s may still be
\* registering; a result for a lease that no longer stands is dropped.  Time is not
\* modelled: a lease without a result may be found young or not.
LeftAlone(a) ==
  /\ pc = "tick" /\ a \in todo
  /\ Alive(a) \/ outcome[a] = "none" \/ ~Current(a)
  /\ Handled(a)
  /\ UNCHANGED <<store, policy, world, pc, slot, signals>>

\* A guardian is slow when its registration may come later than 15 s after its claim.
\* Mutant: an unregistered lease is taken for lost at any age.
LostAtAnyAge(a) == TRUE
Overdue(a) == guard[a] \notin Up \/ "slow" \in Faults

Orphaned(a) == pc = "tick" /\ a \in todo /\ ~Alive(a) /\ outcome[a] = "none" /\ Overdue(a)

\* orphan_stopped(): a recorded child must be seen dead; with no record, an attempt that
\* had not registered owns no child, and one that had is released after 120 s of grace.
\* Mutant: a child that was never recorded is waited for all the same.
ChildNeverAssumedGone(a) == child[a] = "dead"
ChildStopped(a) == child[a] # "recorded"
GraceApplies(a) == child[a] \notin {"recorded", "dead"} /\ a \in seen

\* A recorded child is signalled and the lease retained until it is seen dead.
OrphanHeld(a) ==
  /\ Orphaned(a) /\ (~ChildStopped(a) \/ GraceApplies(a))
  /\ Park(a) /\ Handled(a)
  /\ UNCHANGED <<deps, att, policy, world, pc, slot, signals>>

OrphanFound(a) ==
  /\ Orphaned(a) /\ ChildStopped(a)
  /\ Handled(a)
  /\ pc' = "release" /\ slot' = a
  /\ UNCHANGED <<store, policy, world, signals>>

\* Mutant: recovery has no budget.
AfterReleaseUnbounded(t) == IF task[t].cancel_requested THEN "cancelled" ELSE "cooldown"
\* Mutant: recovery forgets the owner's stop.
AfterReleaseUncancelled(t) ==
  IF task[t].recoveries < MaxRecoveries THEN "cooldown" ELSE "interrupted"
AfterRelease(t) ==
  IF task[t].cancel_requested THEN "cancelled"
  ELSE IF task[t].recoveries < MaxRecoveries THEN "cooldown" ELSE "interrupted"

\* The transaction that takes the lease back looks only at the attempt's state, which no
\* one but this thread ends.
Release ==
  LET t == att[slot].task IN
  /\ pc = "release" /\ att[slot].state \in Active
  /\ pc' = "tick" /\ slot' = None
  /\ att' = [att EXCEPT ![slot].state = "interrupted"]
  /\ task' = [task EXCEPT
       ![t].token = @ + 1,
       ![t].recoveries = @ + 1,
       ![t].cooling = TRUE,
       ![t].state = AfterRelease(t)]
  /\ UNCHANGED <<deps, policy, world, todo, seen, signals>>

-------------------------------------------------------------------------------
(* finish(): one transaction applies a result file to its attempt and task *)

\* A completion counts only after the guardian exits, and only for the current lease.
Collecting(a) ==
  /\ pc = "tick" /\ a \in todo
  /\ ~Alive(a) /\ outcome[a] # "none" /\ Current(a)

\* Mutant: the result's status is stored as it was written.
RawResult(a) == outcome[a]
AttemptResult(a) == CASE outcome[a] = "clarify" -> "passed"
                      [] outcome[a] = "unconfirmed" -> "failed"
                      [] OTHER -> outcome[a]

\* Every branch of finish() ends the attempt; `after' is the task's new row.
EndsWith(a, after) ==
  /\ att' = [att EXCEPT ![a].state = AttemptResult(a)]
  /\ task' = [task EXCEPT ![att[a].task] = after]
  /\ Handled(a)
  /\ UNCHANGED <<world, paused, limit, enabled, pc, slot, signals>>

FinishUnconfirmed(a) ==
  LET row == task[att[a].task] IN
  /\ Collecting(a) /\ outcome[a] = "unconfirmed"
  /\ EndsWith(a, [row EXCEPT !.state = "interrupted"])
  /\ UNCHANGED <<deps, healthy, tired>>

FinishCancelled(a) ==
  LET row == task[att[a].task] IN
  /\ Collecting(a) /\ outcome[a] # "unconfirmed"
  /\ row.cancel_requested \/ outcome[a] = "cancelled"
  /\ EndsWith(a, [row EXCEPT !.state = "cancelled"])
  /\ UNCHANGED <<deps, healthy, tired>>

\* Mutant: a result is applied without looking for a cancel request.
CancelIgnored(a) == Collecting(a) /\ outcome[a] \notin {"unconfirmed", "cancelled"}

\* The branches below are reached by results that were neither stopped nor cancelled.
Uncancelled(a) ==
  /\ Collecting(a)
  /\ outcome[a] \notin {"unconfirmed", "cancelled"}
  /\ ~task[att[a].task].cancel_requested

\* Mutant: instructions that arrived during the attempt are not noticed.
NeverOutdated(a) == FALSE

\* Instructions that arrived since the claim send passed work back to be redone.
Outdated(a) == task[att[a].task].instructions_pending > att[a].instruction_count

Succeeded(a) == Uncancelled(a) /\ outcome[a] \in {"passed", "clarify"}

FinishOutdated(a) ==
  LET t == att[a].task IN
  /\ Succeeded(a) /\ Outdated(a)
  /\ EndsWith(a, [task[t] EXCEPT
       !.state = "ready",
       !.phase = IF att[a].phase = "plan" THEN "plan" ELSE Rework(t)])
  /\ UNCHANGED <<deps, healthy, tired>>

FinishClarify(a) ==
  LET row == task[att[a].task] IN
  /\ Succeeded(a) /\ ~Outdated(a) /\ outcome[a] = "clarify"
  /\ EndsWith(a, [row EXCEPT !.state = "awaiting_input"])
  /\ UNCHANGED <<deps, healthy, tired>>

Passed(a, phase) ==
  /\ Succeeded(a) /\ ~Outdated(a)
  /\ outcome[a] = "passed" /\ att[a].phase = phase

\* A validated plan completes the planning task and creates its build tasks.
FinishPlan(a, plan) ==
  LET t == att[a].task IN
  /\ Passed(a, "plan") /\ plan \in Plans[t]
  /\ \A u \in DOMAIN plan : task[u].state = "absent"
  /\ att' = [att EXCEPT ![a].state = "passed"]
  /\ task' = [u \in Tasks |-> IF u = t THEN [task[u] EXCEPT !.state = "completed"]
                              ELSE IF u \in DOMAIN plan THEN NewTask("build")
                              ELSE task[u]]
  /\ deps' = [u \in Tasks |-> IF u \in DOMAIN plan THEN plan[u] \cup deps[t] ELSE deps[u]]
  /\ Handled(a)
  /\ UNCHANGED <<world, policy, pc, slot, signals>>

FinishReplan(a) ==
  LET row == task[att[a].task] IN
  /\ Passed(a, "replan")
  /\ EndsWith(a, [row EXCEPT !.state = "ready", !.phase = "build"])
  /\ UNCHANGED <<deps, healthy, tired>>

FinishBuild(a) ==
  LET t == att[a].task
      review == t \in Reviewed IN
  /\ Passed(a, "build")
  /\ EndsWith(a, [task[t] EXCEPT
       !.state = IF review THEN "ready" ELSE "integrating",
       !.phase = IF review THEN "review" ELSE "build",
       !.build_attempt = a])
  /\ UNCHANGED <<deps, healthy, tired>>

FinishReview(a) ==
  LET t == att[a].task
      direct == t \in Directed IN
  /\ Passed(a, "review")
  /\ EndsWith(a, [task[t] EXCEPT
       !.state = IF direct THEN "ready" ELSE "integrating",
       !.phase = IF direct THEN "direct" ELSE "review",
       !.review_attempt = a])
  /\ UNCHANGED <<deps, healthy, tired>>

FinishDirect(a) ==
  LET row == task[att[a].task] IN
  /\ Passed(a, "direct")
  /\ EndsWith(a, [row EXCEPT !.state = "integrating", !.director_review_attempt = a])
  /\ UNCHANGED <<deps, healthy, tired>>

\* Lost login or permission stops the task and takes its account out of service.
FinishTrouble(a) ==
  LET row == task[att[a].task] IN
  /\ Uncancelled(a) /\ outcome[a] \in {"needs_auth", "needs_permission"}
  /\ EndsWith(a, [row EXCEPT !.state = outcome[a]])
  /\ healthy' = [healthy EXCEPT ![att[a].account] = FALSE]
  /\ UNCHANGED <<deps, tired>>

Retriable(a) ==
  /\ outcome[a] \in {"throttled", "model_unavailable"}
  /\ task[att[a].task].retries < MaxRetries

FinishRetry(a) ==
  LET row == task[att[a].task] IN
  /\ Uncancelled(a) /\ Retriable(a)
  /\ EndsWith(a, [row EXCEPT !.state = "cooldown", !.cooling = TRUE, !.retries = @ + 1])
  /\ tired' = [tired EXCEPT ![att[a].account] = TRUE]
  /\ UNCHANGED <<deps, healthy>>

Repairable(a) ==
  /\ outcome[a] \in {"failed", "model_unavailable"}
  /\ task[att[a].task].repairs < MaxRepairs
  /\ att[a].phase # "plan" \/ att[a].task \in Directed

\* Mutant: a repair is queued without being charged.
FinishRepairFree(a) ==
  LET t == att[a].task IN
  /\ Uncancelled(a) /\ ~Retriable(a) /\ Repairable(a)
  /\ EndsWith(a, [task[t] EXCEPT
       !.state = "repair_queued",
       !.phase = IF att[a].phase = "plan" THEN "plan" ELSE Rework(t)])
  /\ UNCHANGED <<deps, healthy, tired>>

FinishRepair(a) ==
  LET t == att[a].task IN
  /\ Uncancelled(a) /\ ~Retriable(a) /\ Repairable(a)
  /\ EndsWith(a, [task[t] EXCEPT
       !.state = "repair_queued",
       !.repairs = @ + 1,
       !.phase = IF att[a].phase = "plan" THEN "plan" ELSE Rework(t)])
  /\ UNCHANGED <<deps, healthy, tired>>

FinishBlocked(a) ==
  LET row == task[att[a].task] IN
  /\ Uncancelled(a) /\ outcome[a] \in {"failed", "throttled", "model_unavailable"}
  /\ ~Retriable(a) /\ ~Repairable(a)
  /\ EndsWith(a, [row EXCEPT !.state = "blocked"])
  /\ UNCHANGED <<deps, healthy, tired>>

Finish(a) ==
  \/ FinishUnconfirmed(a) \/ FinishCancelled(a) \/ FinishOutdated(a) \/ FinishClarify(a)
  \/ \E plan \in UNION {Plans[t] : t \in Tasks} : FinishPlan(a, plan)
  \/ FinishReplan(a) \/ FinishBuild(a) \/ FinishReview(a) \/ FinishDirect(a)
  \/ FinishTrouble(a) \/ FinishRetry(a) \/ FinishRepair(a) \/ FinishBlocked(a)

-------------------------------------------------------------------------------
(* claim(): one transaction examines the queue in order and leases one task *)

Candidates ==
  {t \in Tasks : task[t].state \in Waiting /\ enabled[ProjectOf[t]] /\ ~task[t].cooling}

\* Mutant: work waits for its dependencies to be built, not staged.
BlockedUntilBuilt(t) == \E d \in deps[t] : task[d].build_attempt = None
Blocked(t) == \E d \in deps[t] : task[d].state \notin Success

\* Work of the same project that holds its scope: owned, being staged, or built and queued.
Peers(t) ==
  {u \in Tasks \ {t} :
     /\ ProjectOf[u] = ProjectOf[t]
     /\ \/ task[u].state \in Active \cup {"integrating"}
        \/ /\ task[u].build_attempt # None
           /\ task[u].state \in {"ready", "waiting_capacity", "repair_queued", "cooldown"}}

\* Mutant: two writers are counted, the scopes of peers are not compared.
CrowdedByCount(t) ==
  task[t].phase = "build" /\ Cardinality({u \in Peers(t) : task[u].phase = "build"}) >= 2

Crowded(t) ==
  /\ task[t].phase = "build"
  /\ \/ Cardinality({u \in Peers(t) : task[u].phase = "build"}) >= 2
     \/ \E u \in Peers(t) : <<u, t>> \in Overlapping

Role(t) == IF task[t].phase \in {"direct", "replan"} THEN "plan" ELSE task[t].phase

\* Mutant: an account's current lease is not considered.
FreeOrLeased == {c \in Accounts : healthy[c] /\ ~tired[c]}
Free == {c \in Accounts : healthy[c] /\ ~tired[c] /\ \A a \in Leased : att[a].account # c}

\* Mutant: the author may review its own candidate.
EligibleAuthor(t) == {c \in Free : Role(t) \in Roles[c]}

Eligible(t) ==
  {c \in Free : Role(t) \in Roles[c] /\ (task[t].phase = "review" => c # Author(t))}

Startable(t) == ~Blocked(t) /\ ~Crowded(t) /\ Eligible(t) # {}

\* Reviews and repairs go first; age and project priority order the rest.
Urgent(t) == task[t].phase = "review" \/ task[t].repairs > 0

\* What examining a task without leasing it does to it.  A startable task is passed over
\* only when select_route() finds no model for it, which blocks the task.
PassedOver(t) == IF Blocked(t) THEN "waiting_dependency"
                 ELSE IF Startable(t) THEN "blocked" ELSE "waiting_capacity"

MayPassOver(t) == Startable(t) => "noroute" \in Faults

\* uid(): a fresh identity, which one being immaterial.
Spent == \A a \in Attempts : att[a] # UnusedAttempt
Fresh == CHOOSE a \in Attempts : att[a] = UnusedAttempt

\* tick() reads the pause before claim() reads it again inside its transaction.
\* Mutant: claim() relies on the first reading.
PausedBefore == FALSE
PausedNow == paused

DispatchBegins ==
  /\ pc = "tick" /\ todo = {} /\ ~paused
  /\ pc' = "claim"
  /\ UNCHANGED <<store, policy, world, todo, seen, slot, signals>>

Dispatching == pc = "claim" /\ ~PausedNow /\ ~Spent

Claim(t, c) ==
  LET a == Fresh IN
  /\ Dispatching /\ Cardinality(Leased) < limit
  /\ t \in Candidates /\ Startable(t) /\ c \in Eligible(t)
  /\ \E skipped \in SUBSET (Candidates \ {t}) :
       /\ \A u \in skipped : MayPassOver(u) /\ (Urgent(t) => Urgent(u))
       /\ \A u \in Candidates \ {t} : Urgent(u) /\ ~Urgent(t) => u \in skipped
       /\ task' = [u \in Tasks |->
            IF u = t THEN [task[u] EXCEPT !.state = "leased", !.token = @ + 1,
                                          !.attempt_id = a]
            ELSE IF u \in skipped THEN [task[u] EXCEPT !.state = PassedOver(u)]
            ELSE task[u]]
  /\ att' = [att EXCEPT ![a] =
       [state |-> "leased", task |-> t, account |-> c, token |-> task[t].token + 1,
        phase |-> task[t].phase,
        base |-> IF task[t].phase \in {"review", "direct"} THEN task[t].build_attempt
                 ELSE None,
        instruction_count |-> task[t].instructions_pending,
        identity |-> FALSE]]
  /\ pc' = "spawn" /\ slot' = a
  /\ UNCHANGED <<deps, policy, world, todo, seen, signals>>

NothingStartable ==
  /\ Dispatching /\ Cardinality(Leased) < limit
  /\ \A t \in Candidates : MayPassOver(t)
  /\ task' = [t \in Tasks |-> IF t \in Candidates
                              THEN [task[t] EXCEPT !.state = PassedOver(t)] ELSE task[t]]
  /\ pc' = "idle"
  /\ UNCHANGED <<deps, att, policy, world, todo, seen, slot, signals>>

AtCapacity ==
  /\ Dispatching /\ Cardinality(Leased) >= limit
  /\ task' = [t \in Tasks |-> IF task[t].state = "ready"
                              THEN [task[t] EXCEPT !.state = "waiting_capacity"] ELSE task[t]]
  /\ pc' = "idle"
  /\ UNCHANGED <<deps, att, policy, world, todo, seen, slot, signals>>

\* Bound: dispatch also rests once the supply of identities is spent.
DispatchPaused ==
  /\ \/ pc = "tick" /\ todo = {} /\ paused
     \/ pc = "claim" /\ (PausedNow \/ Spent)
  /\ pc' = "idle"
  /\ UNCHANGED <<store, policy, world, todo, seen, slot, signals>>

\* The guardian is started after the claim has committed.
Spawn ==
  /\ pc = "spawn"
  /\ guard' = [guard EXCEPT ![slot] = "starting"]
  /\ pc' = "idle" /\ slot' = None
  /\ UNCHANGED <<store, policy, stop, child, outcome, todo, seen, signals>>

\* The controller may die at any point.  The one that takes the scheduler lock after it
\* remembers nothing that is not in the store; guardians outlive both.
ControllerCrash ==
  /\ "crash" \in Faults /\ pc # "down"
  /\ pc' = "down" /\ todo' = {} /\ seen' = {} /\ slot' = None /\ signals' = {}
  /\ UNCHANGED <<store, policy, world>>

ControllerRestarts ==
  /\ pc = "down"
  /\ pc' = "idle"
  /\ UNCHANGED <<store, policy, world, todo, seen, slot, signals>>

Inspect(a) == InspectionDenied(a) \/ LeftAlone(a) \/ OrphanHeld(a) \/ OrphanFound(a)
                \/ Finish(a)

Scheduler ==
  \/ ControllerRestarts \/ TickBegins \/ Release \/ Spawn
  \/ \E a \in Attempts : Inspect(a)
  \/ \E t \in Tasks, c \in Accounts : Claim(t, c)
  \/ DispatchBegins \/ NothingStartable \/ AtCapacity \/ DispatchPaused

-------------------------------------------------------------------------------
(* worker.main(): a guardian, and the CLI child it runs in a session of its own *)

\* Mutant: a guardian registers whatever became of its lease.
RegistersAnyway(a) == ~task[att[a].task].cancel_requested

MayRegister(a) ==
  /\ task[att[a].task].token = att[a].token
  /\ att[a].state = "leased"
  /\ ~task[att[a].task].cancel_requested

\* Registration is a transaction: it publishes the identity the lease is checked against.
Register(a) ==
  /\ guard[a] = "starting" /\ MayRegister(a)
  /\ att' = [att EXCEPT ![a].state = "running", ![a].identity = TRUE]
  /\ task' = [task EXCEPT ![att[a].task].state =
                IF att[a].phase = "review" THEN "reviewing" ELSE "running"]
  /\ guard' = [guard EXCEPT ![a] = "up"]
  /\ UNCHANGED <<deps, policy, stop, child, outcome, sched, signals>>

RegistrationRefused(a) ==
  /\ guard[a] = "starting" /\ ~MayRegister(a)
  /\ guard' = [guard EXCEPT ![a] = "dead"]
  /\ UNCHANGED <<store, policy, stop, child, outcome, sched, signals>>

\* A guardian that may not read its own identity leaves a result and no registration.
RegistrationDenied(a) ==
  /\ "denied" \in Faults
  /\ guard[a] = "starting" /\ MayRegister(a)
  /\ outcome' = [outcome EXCEPT ![a] = "needs_permission"]
  /\ guard' = [guard EXCEPT ![a] = "dead"]
  /\ UNCHANGED <<store, policy, stop, child, sched, signals>>

\* The runner starts no child once a stop has arrived.
Launch(a) ==
  /\ guard[a] = "up" /\ ~stop[a]
  /\ guard' = [guard EXCEPT ![a] = "cli"]
  /\ child' = [child EXCEPT ![a] = "unrecorded"]
  /\ UNCHANGED <<store, policy, stop, outcome, sched, signals>>

\* child.json: the record a later recovery needs to find an orphaned child.  A child that
\* has exited is recorded all the same, for nobody has waited for it yet.
RecordChild(a) ==
  /\ guard[a] = "cli" /\ child[a] \in {"unrecorded", "gone"}
  /\ child' = [child EXCEPT ![a] = IF @ = "gone" THEN "dead" ELSE "recorded"]
  /\ UNCHANGED <<store, policy, guard, stop, outcome, sched, signals>>

ChildExits(a) ==
  /\ child[a] \in {"unrecorded", "recorded"}
  /\ child' = [child EXCEPT ![a] = IF @ = "recorded" THEN "dead" ELSE "gone"]
  /\ UNCHANGED <<store, policy, guard, stop, outcome, sched, signals>>

\* A build enters verification only while its lease still stands.
\* Mutant: verification starts whatever became of the lease.
LeasePresumed(a) == TRUE
LeaseStands(a) == task[att[a].task].token = att[a].token /\ att[a].state = "running"

Verify(a) ==
  /\ guard[a] = "cli" /\ child[a] = "dead"
  /\ att[a].phase = "build" /\ ~stop[a] /\ LeaseStands(a)
  /\ att' = [att EXCEPT ![a].state = "verifying"]
  /\ task' = [task EXCEPT ![att[a].task].state = "verifying"]
  /\ guard' = [guard EXCEPT ![a] = "judging"]
  /\ UNCHANGED <<deps, policy, stop, child, outcome, sched, signals>>

\* The outcomes a guardian can write at each point of its run; `Ends' bounds the failures.
EarlyEnds(a) ==
  (IF stop[a] THEN {"cancelled"} ELSE {"failed"} \cap Ends)
    \cup (Ends \cap {"needs_auth", "needs_permission"})
CliResults(a) ==
  LET ends == Ends \ {"needs_permission"} IN
  CASE stop[a] -> {"cancelled"}
    [] ~stop[a] /\ att[a].phase = "build" -> ends \cup (IF LeaseStands(a) THEN {} ELSE {"failed"})
    [] ~stop[a] /\ att[a].phase \in {"review", "direct"} -> ends \cup {"passed"}
    [] OTHER -> ends \cup {"passed"} \cup (IF att[a].task \in Directed THEN {"clarify"} ELSE {})
Verdicts(a) == {"passed"} \cup ({"failed"} \cap Ends) \cup (IF stop[a] THEN {"cancelled"} ELSE {})

\* result.json is written once, atomically, in the guardian's finally clause.  The stop of a CLI
\* and of a check alike may remain unconfirmed.
Report(a, result) ==
  /\ \/ guard[a] = "up" /\ result \in EarlyEnds(a)
     \/ guard[a] = "cli" /\ child[a] = "dead" /\ result \in CliResults(a)
     \/ guard[a] = "judging" /\ result \in Verdicts(a)
     \/ /\ guard[a] = "judging" \/ (guard[a] = "cli" /\ child[a] = "recorded")
        /\ "unconfirmed" \in Faults /\ result = "unconfirmed"
  /\ outcome' = [outcome EXCEPT ![a] = result]
  /\ guard' = [guard EXCEPT ![a] = "done"]
  /\ UNCHANGED <<store, policy, stop, child, sched, signals>>

GuardianExits(a) ==
  /\ guard[a] = "done"
  /\ guard' = [guard EXCEPT ![a] = "dead"]
  /\ UNCHANGED <<store, policy, stop, child, outcome, sched, signals>>

\* A killed guardian leaves no result, and its child running.
GuardianKilled(a) ==
  /\ "kill" \in Faults /\ guard[a] \in Up \ {"done"}
  /\ guard' = [guard EXCEPT ![a] = "dead"]
  /\ UNCHANGED <<store, policy, stop, child, outcome, sched, signals>>

Guardian(a) ==
  \/ Register(a) \/ RegistrationRefused(a) \/ RegistrationDenied(a)
  \/ Launch(a) \/ RecordChild(a) \/ Verify(a)
  \/ \E result \in Outcomes : Report(a, result)
  \/ GuardianExits(a)

-------------------------------------------------------------------------------
(* The owner's requests, each one transaction of the HTTP service *)

AddGoal(t) ==
  /\ t \in DOMAIN Goals /\ task[t].state = "absent"
  /\ \A d \in Goals[t] : /\ task[d].state # "absent" /\ task[d].phase # "plan"
                        /\ ProjectOf[d] = ProjectOf[t]
  /\ task' = [task EXCEPT ![t] = NewTask(IF Plans[t] = {} THEN "build" ELSE "plan")]
  /\ deps' = [deps EXCEPT ![t] = Goals[t]]
  /\ UNCHANGED <<att, policy, world, sched, signals>>

\* task_action() refuses work that is staged, complete or cancelled.
Open(t) == task[t].state \notin {"absent", "integrating", "completed",
                                "ready_for_approval", "cancelled"}

Answer(t) ==
  /\ "answer" \in Requests
  /\ task[t].state = "awaiting_input" /\ task[t].clarifications < MaxAnswers
  /\ task[t].instructions_pending < MaxPending
  /\ task' = [task EXCEPT ![t].state = "ready",
                          ![t].instructions_pending = @ + 1,
                          ![t].clarifications = @ + 1]
  /\ UNCHANGED <<deps, att, policy, world, sched, signals>>

\* A directed task that nobody owns goes back to its director with the instruction.
Instruct(t) ==
  LET redirect == t \in Directed /\ task[t].state \notin Active IN
  /\ "instruct" \in Requests
  /\ Open(t) /\ task[t].instructions_pending < MaxPending
  /\ task' = [task EXCEPT
       ![t].instructions_pending = @ + 1,
       ![t].state = IF redirect THEN "ready" ELSE @,
       ![t].phase = IF redirect /\ @ # "plan" THEN "replan" ELSE @]
  /\ UNCHANGED <<deps, att, policy, world, sched, signals>>

\* The request is recorded in one transaction; the SIGTERM follows it, and reaches no one
\* when the task is not owned.
Cancel(t) ==
  /\ "cancel" \in Requests /\ Open(t)
  /\ task' = [task EXCEPT ![t].cancel_requested = TRUE,
                          ![t].state = IF @ \in Active THEN @ ELSE "cancelled"]
  /\ signals' = IF task[t].state \in Active THEN signals \cup {t} ELSE signals
  /\ UNCHANGED <<deps, att, policy, world, sched>>

StopAll ==
  /\ "stop-all" \in Requests
  /\ paused' = TRUE
  /\ task' = [t \in Tasks |-> IF task[t].state \in Active
                              THEN [task[t] EXCEPT !.cancel_requested = TRUE] ELSE task[t]]
  /\ signals' = signals \cup {t \in Tasks : task[t].state \in Active}
  /\ UNCHANGED <<deps, att, limit, enabled, healthy, tired, world, sched>>

\* engine.cancel(): only a guardian that has registered and is inspectable is signalled.
Signal(t) ==
  /\ t \in signals
  /\ LET reached == {a \in Leased : att[a].task = t /\ att[a].identity /\ guard[a] \in Up} IN
     \/ stop' = [a \in Attempts |-> stop[a] \/ a \in reached]
     \/ "denied" \in Faults /\ reached # {} /\ stop' = stop
  /\ signals' = signals \ {t}
  /\ UNCHANGED <<store, policy, guard, child, outcome, sched>>

Retry(t) ==
  /\ "retry" \in Requests
  /\ task[t].state \in Stopped /\ task[t].repairs < MaxRepairs
  /\ \A a \in Leased : att[a].task # t
  /\ task' = [task EXCEPT ![t].state = "ready", ![t].repairs = @ + 1,
                          ![t].cancel_requested = FALSE]
  /\ UNCHANGED <<deps, att, policy, world, sched, signals>>

PauseDispatch ==
  /\ "pause" \in Requests /\ paused' = TRUE
  /\ UNCHANGED <<store, limit, enabled, healthy, tired, world, sched, signals>>

ResumeDispatch ==
  /\ "resume" \in Requests /\ paused' = FALSE
  /\ UNCHANGED <<store, limit, enabled, healthy, tired, world, sched, signals>>

SetCapacity(n) ==
  /\ "capacity" \in Requests /\ limit' = n
  /\ UNCHANGED <<store, paused, enabled, healthy, tired, world, sched, signals>>

SetProject(p, on) ==
  /\ "project" \in Requests /\ enabled' = [enabled EXCEPT ![p] = on]
  /\ UNCHANGED <<store, paused, limit, healthy, tired, world, sched, signals>>

\* Enabling presumes the host's health check has passed again.
SetAccount(c, on) ==
  /\ "account" \in Requests /\ healthy' = [healthy EXCEPT ![c] = on]
  /\ UNCHANGED <<store, paused, limit, enabled, tired, world, sched, signals>>

Owner ==
  \/ \E t \in Tasks : AddGoal(t) \/ Answer(t) \/ Instruct(t) \/ Cancel(t) \/ Retry(t)
  \/ StopAll \/ PauseDispatch \/ ResumeDispatch
  \/ \E n \in 1..MaxSlots : SetCapacity(n)
  \/ \E on \in BOOLEAN : (\E p \in Projects : SetProject(p, on))
                        \/ (\E c \in Accounts : SetAccount(c, on))

-------------------------------------------------------------------------------
(* Composition into staging, as the task table sees it, and the passage of time *)

IntegrationSucceeds(t) ==
  /\ task[t].state = "integrating"
  /\ task' = [task EXCEPT ![t].state = "ready_for_approval"]
  /\ UNCHANGED <<deps, att, policy, world, sched, signals>>

IntegrationFails(t) ==
  /\ task[t].state = "integrating"
  /\ task' = [task EXCEPT ![t].state = "blocked", ![t].phase = Rework(t)]
  /\ UNCHANGED <<deps, att, policy, world, sched, signals>>

\* One approval covers every staged task of its project, and so does the decision on it.
Decide(p, accept) ==
  LET covered == {t \in Tasks : ProjectOf[t] = p /\ task[t].state = "ready_for_approval"} IN
  /\ covered # {}
  /\ task' = [t \in Tasks |-> IF t \in covered
                 THEN [task[t] EXCEPT !.state = IF accept THEN "completed" ELSE "blocked"]
                 ELSE task[t]]
  /\ enabled' = [enabled EXCEPT ![p] = @ /\ accept]
  /\ UNCHANGED <<deps, att, paused, limit, healthy, tired, world, sched, signals>>

CooldownEnds(t) ==
  /\ task[t].cooling
  /\ task' = [task EXCEPT ![t].cooling = FALSE]
  /\ UNCHANGED <<deps, att, policy, world, sched, signals>>

AccountRests(c) ==
  /\ tired[c] /\ tired' = [tired EXCEPT ![c] = FALSE]
  /\ UNCHANGED <<store, paused, limit, enabled, healthy, world, sched, signals>>

Staging == \/ \E t \in Tasks : IntegrationSucceeds(t) \/ IntegrationFails(t)
           \/ \E p \in Projects, accept \in BOOLEAN : Decide(p, accept)

Clock == \/ \E t \in Tasks : CooldownEnds(t)
         \/ \E c \in Accounts : AccountRests(c)

Next ==
  \/ Scheduler \/ Clock \/ ControllerCrash
  \/ pc # "down" /\ (Owner \/ Staging)
  \/ \E t \in Tasks : Signal(t)
  \/ \E a \in Attempts : Guardian(a) \/ ChildExits(a) \/ GuardianKilled(a)

Spec == Init /\ [][Next]_vars

===============================================================================
