------------------------------ MODULE LeaseProofs ------------------------------
(***************************************************************************)
(* Proofs about Leases, for every set of tasks, attempts, accounts and     *)
(* projects, every plan and every bound.                                   *)
(*                                                                         *)
(* The first part is about who holds what: every step of the system keeps  *)
(* all leases, ends one of them, or grants one (LeaseStep).  Each theorem  *)
(* then looks at three kinds of step where the system has some fifty       *)
(* actions.                                                                *)
(*                                                                         *)
(* The second part needs more of a step than which leases it keeps: what a *)
(* task carries from attempt to attempt (its phase, the candidate under    *)
(* review, its instructions, its budgets), and so what may be staged; and  *)
(* who is at work at once: which tasks are being built, which guardians    *)
(* run, and what stopping everything stops.  A step rests (no lease ends), *)
(* ends one lease in one of five ways, or grants one (WorkStep).           *)
(***************************************************************************)
EXTENDS Archive, LeaseProperties, FiniteSetTheorems, TLAPS

\* The leases the scheduler is still to look at stand, and are not the one it is releasing.
ThreadHoldsLeases == todo \subseteq Leased \ {slot}

\* The inductive invariant.  LeaseMatchesTask alone is not inductive: parking the task of a
\* lease that had ended meanwhile would make it look owned.
LeaseInvariant ==
  TypeOK /\ LeaseMatchesTask /\ OneLeasePerAccount /\ ThreadHoldsLeases

-------------------------------------------------------------------------------
(* The three kinds of step *)

SameAttempt(a) ==
  /\ att'[a].task = att[a].task
  /\ att'[a].token = att[a].token
  /\ att'[a].account = att[a].account
  /\ att'[a].state = att[a].state \/ {att[a].state, att'[a].state} \subseteq Active

SameOwner(t) ==
  /\ task'[t].state \in Active <=> task[t].state \in Active
  /\ task[t].state \in Active => /\ task'[t].attempt_id = task[t].attempt_id
                                 /\ task'[t].token = task[t].token

KeepsLeases ==
  /\ \A a \in Attempts : SameAttempt(a)
  /\ \A t \in Tasks : SameOwner(t)
  /\ todo' \subseteq Leased \ {slot'}

EndsLease(a) ==
  /\ a \in Leased
  /\ att'[a].state \in Results \cup {"interrupted"}
  /\ task'[att[a].task].state \notin Active
  /\ \A b \in Attempts \ {a} : SameAttempt(b)
  /\ \A t \in Tasks \ {att[a].task} : SameOwner(t)
  /\ todo' \subseteq Leased \ {a, slot'}

GrantsLease(t, a, c) ==
  /\ task[t].state \notin Active /\ att[a].state = "unused" /\ c \in Free
  /\ att'[a].state \in Active /\ att'[a].task = t /\ att'[a].account = c
  /\ task'[t].state \in Active /\ task'[t].attempt_id = a /\ task'[t].token = att'[a].token
  /\ \A b \in Attempts \ {a} : SameAttempt(b)
  /\ \A u \in Tasks \ {t} : SameOwner(u)
  /\ todo' \subseteq Leased \ {slot'}

LeaseStep ==
  \/ KeepsLeases
  \/ \E a \in Attempts : EndsLease(a)
  \/ \E t \in Tasks, a \in Attempts, c \in Accounts : GrantsLease(t, a, c)

-------------------------------------------------------------------------------
(* Initial states *)

\* The parts of the assumption on the constants that the proofs use.
LEMMA CapacityPositive == MaxSlots \in Nat \ {0}
  BY LeaseAssumption DEF LeaseAssumptions

LEMMA NoneIsNoAttempt == None \notin Attempts
  BY LeaseAssumption DEF LeaseAssumptions

LEMMA PlansAreMaps ==
  ASSUME NEW t \in Tasks, NEW plan \in Plans[t], NEW u \in DOMAIN plan
  PROVE  u \in Tasks /\ plan[u] \subseteq Tasks
  BY LeaseAssumption DEF LeaseAssumptions

LEMMA GoalsAreTasks ==
  ASSUME NEW t \in DOMAIN Goals
  PROVE  Goals[t] \subseteq Tasks
  BY LeaseAssumption DEF LeaseAssumptions

LEMMA NewTaskRow ==
  ASSUME NEW phase \in Phases
  PROVE  NewTask(phase) \in TaskRows /\ NewTask(phase).state = "ready"
  BY DEF NewTask, TaskRows, TaskStates, Waiting, Names

LEMMA InitLeaseInvariant == Init => LeaseInvariant
  <1> SUFFICES ASSUME Init PROVE LeaseInvariant
    OBVIOUS
  <1>1. Absent \in TaskRows /\ Absent.state \notin Active
    BY DEF Absent, NewTask, TaskRows, TaskStates, Phases, Names, Active
  <1>2. UnusedAttempt \in AttemptRows /\ UnusedAttempt.state \notin Active
    BY DEF UnusedAttempt, AttemptRows, Phases, Names, Active
  <1>3. TypeStore
    BY <1>1, <1>2 DEF Init, TypeStore
  <1>4. TypePolicy
    <2>1. limit \in 1..MaxSlots
      BY CapacityPositive DEF Init
    <2> QED
      BY <2>1 DEF Init, TypePolicy
  <1>5. TypeWorld /\ TypeThread
    BY DEF Init, TypeWorld, TypeThread
  <1>6. Leased = {} /\ LeaseMatchesTask /\ OneLeasePerAccount /\ ThreadHoldsLeases
    BY <1>1, <1>2 DEF Init, Leased, LeaseMatchesTask, OneLeasePerAccount, ThreadHoldsLeases
  <1> QED
    BY <1>3, <1>4, <1>5, <1>6 DEF LeaseInvariant, TypeOK

-------------------------------------------------------------------------------
(* Steps that leave the store alone *)

LEMMA UnchangedStoreKeepsLeases ==
  ASSUME UNCHANGED <<task, att>>, todo' \subseteq Leased \ {slot'}
  PROVE  KeepsLeases
  BY DEF KeepsLeases, SameAttempt, SameOwner

LEMMA ThreadSteps ==
  ASSUME LeaseInvariant,
         \/ TickBegins \/ DispatchBegins \/ DispatchPaused \/ Spawn
         \/ ControllerCrash \/ ControllerRestarts
         \/ \E a \in Attempts : LeftAlone(a) \/ OrphanFound(a)
  PROVE  TypeOK' /\ LeaseStep
  <1>0. TypeOK /\ todo \subseteq Leased \ {slot} /\ Leased \subseteq Attempts
    BY DEF LeaseInvariant, ThreadHoldsLeases, Leased
  <1>1. CASE TickBegins
    <2>1. slot' = None /\ None \notin Leased
      BY <1>0, <1>1, NoneIsNoAttempt DEF TickBegins, TypeOK, TypeThread
    <2>2. TypeThread'
      BY <1>0, <1>1, <2>1 DEF TickBegins, TypeOK, TypeThread
    <2> QED
      BY <1>0, <1>1, <2>1, <2>2, UnchangedStoreKeepsLeases
      DEF TickBegins, LeaseStep, TypeOK, TypeStore, TypePolicy, TypeWorld,
          store, policy, world
  <1>2. CASE DispatchBegins \/ DispatchPaused \/ ControllerRestarts
    BY <1>0, <1>2, UnchangedStoreKeepsLeases
    DEF DispatchBegins, DispatchPaused, ControllerRestarts, LeaseStep, TypeOK, TypeStore, TypePolicy,
        TypeWorld, TypeThread, store, policy, world
  <1>3. CASE Spawn
    <2>1. slot' = None /\ None \notin Leased
      BY <1>0, <1>3, NoneIsNoAttempt DEF Spawn
    <2>2. TypeThread'
      BY <1>0, <1>3, <2>1 DEF Spawn, TypeOK, TypeThread
    <2>3. TypeWorld'
      BY <1>0, <1>3 DEF Spawn, TypeOK, TypeWorld, TypeThread, Up
    <2>4. KeepsLeases
      BY <1>0, <1>3, <2>1, UnchangedStoreKeepsLeases DEF Spawn, store
    <2> QED
      BY <1>0, <1>3, <2>2, <2>3, <2>4
      DEF Spawn, LeaseStep, TypeOK, TypeStore, TypePolicy, store, policy
  <1>4. CASE ControllerCrash
    BY <1>0, <1>4, UnchangedStoreKeepsLeases
    DEF ControllerCrash, LeaseStep, TypeOK, TypeStore, TypePolicy, TypeWorld, TypeThread,
        store, policy, world
  <1>5. CASE \E a \in Attempts : LeftAlone(a)
    BY <1>0, <1>5, UnchangedStoreKeepsLeases
    DEF LeftAlone, Handled, LeaseStep, TypeOK, TypeStore, TypePolicy, TypeWorld,
        TypeThread, store, policy, world
  <1>6. CASE \E a \in Attempts : OrphanFound(a)
    BY <1>0, <1>6, UnchangedStoreKeepsLeases
    DEF OrphanFound, Orphaned, Handled, LeaseStep, TypeOK, TypeStore, TypePolicy,
        TypeWorld, TypeThread, store, policy, world
  <1> QED
    BY <1>1, <1>2, <1>3, <1>4, <1>5, <1>6

\* Processes, the policy and the clock for accounts change neither the store nor the thread.
OutsideStore ==
  \/ \E a \in Attempts :
       \/ RegistrationRefused(a) \/ RegistrationDenied(a) \/ Launch(a) \/ RecordChild(a)
       \/ ChildExits(a) \/ GuardianExits(a) \/ GuardianKilled(a)
       \/ \E result \in Outcomes : Report(a, result)
  \/ \E t \in Tasks : Signal(t)
  \/ PauseDispatch \/ ResumeDispatch
  \/ \E n \in 1..MaxSlots : SetCapacity(n)
  \/ \E on \in BOOLEAN : \/ \E p \in Projects : SetProject(p, on)
                         \/ \E c \in Accounts : SetAccount(c, on)
  \/ \E c \in Accounts : AccountRests(c)

LEMMA OutsideSteps ==
  ASSUME LeaseInvariant, OutsideStore
  PROVE  TypeOK' /\ LeaseStep
  <1>1. UNCHANGED <<task, deps, att, pc, todo, seen, slot>>
    BY DEF OutsideStore, RegistrationRefused, RegistrationDenied, Launch, RecordChild,
       ChildExits, GuardianExits, GuardianKilled, Report, Signal, PauseDispatch,
       ResumeDispatch, SetCapacity, SetProject, SetAccount, AccountRests, store, sched
  <1>2. KeepsLeases
    BY <1>1, UnchangedStoreKeepsLeases DEF LeaseInvariant, ThreadHoldsLeases
  <1>3. TypePolicy'
    BY DEF OutsideStore, RegistrationRefused, RegistrationDenied, Launch, RecordChild,
       ChildExits, GuardianExits, GuardianKilled, Report, Signal, PauseDispatch,
       ResumeDispatch, SetCapacity, SetProject, SetAccount, AccountRests, policy,
       LeaseInvariant, TypeOK, TypePolicy
  <1>4. signals' \subseteq Tasks
    BY DEF OutsideStore, RegistrationRefused, RegistrationDenied, Launch, RecordChild,
       ChildExits, GuardianExits, GuardianKilled, Report, Signal, PauseDispatch,
       ResumeDispatch, SetCapacity, SetProject, SetAccount, AccountRests,
       LeaseInvariant, TypeOK, TypeThread
  <1>5. TypeWorld'
    <2>1. TypeWorld
      BY DEF LeaseInvariant, TypeOK
    <2>2. CASE \E a \in Attempts : RegistrationRefused(a) \/ RegistrationDenied(a)
      BY <2>1, <2>2 DEF RegistrationRefused, RegistrationDenied, TypeWorld, Outcomes, Results
    <2>3. CASE \E a \in Attempts : Launch(a) \/ RecordChild(a) \/ ChildExits(a)
      BY <2>1, <2>3 DEF Launch, RecordChild, ChildExits, TypeWorld, Up
    <2>4. CASE \E a \in Attempts : \/ GuardianExits(a) \/ GuardianKilled(a)
                                   \/ \E result \in Outcomes : Report(a, result)
      BY <2>1, <2>4 DEF GuardianExits, GuardianKilled, Report, TypeWorld, Up
    <2>5. CASE \E t \in Tasks : Signal(t)
      BY <2>1, <2>5 DEF Signal, TypeWorld
    <2> QED
      BY <2>1, <2>2, <2>3, <2>4, <2>5
      DEF OutsideStore, PauseDispatch, ResumeDispatch, SetCapacity, SetProject, SetAccount,
          AccountRests, world, TypeWorld
  <1> QED
    BY <1>1, <1>2, <1>3, <1>4, <1>5
    DEF LeaseStep, LeaseInvariant, TypeOK, TypeStore, TypeThread

-------------------------------------------------------------------------------
(* Steps that change rows and keep every lease *)

\* A step that rewrites task rows, and nothing a lease is made of.
LEMMA RowsStep ==
  ASSUME LeaseInvariant,
         task' \in [Tasks -> TaskRows], \A t \in Tasks : SameOwner(t),
         deps' \in [Tasks -> SUBSET Tasks], signals' \subseteq Tasks, TypePolicy',
         UNCHANGED <<att, world, todo, seen, slot>>, pc' = pc \/ (pc = "claim" /\ pc' = "idle")
  PROVE  TypeOK' /\ LeaseStep
  <1>1. TypeStore' /\ TypeWorld'
    BY DEF LeaseInvariant, TypeOK, TypeStore, TypeWorld, world
  <1>2. TypeThread'
    BY DEF LeaseInvariant, TypeOK, TypeThread
  <1>3. KeepsLeases
    BY DEF LeaseInvariant, ThreadHoldsLeases, KeepsLeases, SameAttempt
  <1> QED
    BY <1>1, <1>2, <1>3 DEF TypeOK, LeaseStep

LEMMA OneRowStep ==
  ASSUME LeaseInvariant, NEW t \in Tasks, NEW row \in TaskRows,
         task' = [task EXCEPT ![t] = row],
         row.state \in Active <=> task[t].state \in Active,
         task[t].state \in Active => /\ row.attempt_id = task[t].attempt_id
                                     /\ row.token = task[t].token,
         deps' \in [Tasks -> SUBSET Tasks], signals' \subseteq Tasks,
         UNCHANGED <<att, policy, world, sched>>
  PROVE  TypeOK' /\ LeaseStep
  <1>1. task \in [Tasks -> TaskRows] /\ TypePolicy
    BY DEF LeaseInvariant, TypeOK, TypeStore
  <1>2. task' \in [Tasks -> TaskRows] /\ \A u \in Tasks : SameOwner(u)
    BY <1>1 DEF SameOwner
  <1>3. TypePolicy'
    BY <1>1 DEF TypePolicy, policy
  <1> QED
    BY <1>2, <1>3, RowsStep DEF sched

LEMMA RequestSteps ==
  ASSUME LeaseInvariant, NEW t \in Tasks,
         \/ AddGoal(t) \/ Answer(t) \/ Instruct(t) \/ Cancel(t) \/ Retry(t)
         \/ IntegrationSucceeds(t) \/ IntegrationFails(t) \/ CooldownEnds(t)
  PROVE  TypeOK' /\ LeaseStep
  <1>0. /\ task \in [Tasks -> TaskRows] /\ deps \in [Tasks -> SUBSET Tasks]
        /\ signals \subseteq Tasks
    BY DEF LeaseInvariant, TypeOK, TypeStore, TypeThread
  <1>1. task[t] \in TaskRows
    BY <1>0
  <1>c. /\ task[t].instructions_pending + 1 \in Nat
        /\ task[t].clarifications + 1 \in Nat /\ task[t].repairs + 1 \in Nat
    BY <1>1 DEF TaskRows
  <1>2. CASE AddGoal(t)
    <2>1. PICK row : row = NewTask(IF Plans[t] = {} THEN "build" ELSE "plan")
      OBVIOUS
    <2>2. row \in TaskRows /\ row.state \notin Active
      BY <2>1, NewTaskRow DEF Phases, Active
    <2>3. task' = [task EXCEPT ![t] = row] /\ task[t].state \notin Active
      BY <1>2, <2>1 DEF AddGoal, Active
    <2>4. deps' \in [Tasks -> SUBSET Tasks] /\ UNCHANGED <<att, policy, world, sched, signals>>
      BY <1>0, <1>2, GoalsAreTasks DEF AddGoal
    <2> QED
      BY <1>0, <2>2, <2>3, <2>4, OneRowStep
  <1>3. CASE Answer(t)
    <2>1. PICK row : row = [task[t] EXCEPT !.state = "ready",
                                           !.instructions_pending = @ + 1,
                                           !.clarifications = @ + 1]
      OBVIOUS
    <2>2. row \in TaskRows /\ row.state \notin Active
      BY <1>1, <1>c, <2>1 DEF TaskRows, TaskStates, Waiting, Active
    <2>3. task' = [task EXCEPT ![t] = row] /\ task[t].state \notin Active
      BY <1>0, <1>3, <2>1 DEF Answer, Active
    <2> QED
      BY <1>0, <1>3, <2>2, <2>3, OneRowStep DEF Answer
  <1>4. CASE Instruct(t)
    <2>1. PICK redirect : redirect = (t \in Directed /\ task[t].state \notin Active)
      OBVIOUS
    <2>2. PICK row : row = [task[t] EXCEPT
                              !.instructions_pending = @ + 1,
                              !.state = IF redirect THEN "ready" ELSE @,
                              !.phase = IF redirect /\ @ # "plan" THEN "replan" ELSE @]
      OBVIOUS
    <2>3. row \in TaskRows
      <3>1. /\ (IF redirect THEN "ready" ELSE task[t].state) \in TaskStates
            /\ (IF redirect /\ task[t].phase # "plan" THEN "replan" ELSE task[t].phase) \in Phases
        BY <1>1 DEF TaskRows, TaskStates, Waiting, Phases
      <3> QED
        BY <1>1, <1>c, <2>2, <3>1 DEF TaskRows
    <2>4. /\ row.state \in Active <=> task[t].state \in Active
          /\ row.attempt_id = task[t].attempt_id /\ row.token = task[t].token
      BY <1>1, <2>1, <2>2 DEF TaskRows, Active
    <2>5. task' = [task EXCEPT ![t] = row]
      BY <1>0, <1>4, <2>1, <2>2 DEF Instruct
    <2> QED
      BY <1>0, <1>4, <2>3, <2>4, <2>5, OneRowStep DEF Instruct
  <1>5. CASE Cancel(t)
    <2>1. PICK row : row = [task[t] EXCEPT
                              !.cancel_requested = TRUE,
                              !.state = IF @ \in Active THEN @ ELSE "cancelled"]
      OBVIOUS
    <2>2. row \in TaskRows
      BY <1>1, <2>1 DEF TaskRows, TaskStates
    <2>3. /\ row.state \in Active <=> task[t].state \in Active
          /\ row.attempt_id = task[t].attempt_id /\ row.token = task[t].token
      BY <1>1, <2>1 DEF TaskRows, Active
    <2>4. task' = [task EXCEPT ![t] = row]
      BY <1>0, <1>5, <2>1 DEF Cancel
    <2>5. signals' \subseteq Tasks /\ UNCHANGED <<deps, att, policy, world, sched>>
      BY <1>0, <1>5 DEF Cancel
    <2> QED
      BY <1>0, <2>2, <2>3, <2>4, <2>5, OneRowStep
  <1>6. CASE Retry(t)
    <2>1. PICK row : row = [task[t] EXCEPT !.state = "ready", !.repairs = @ + 1,
                                           !.cancel_requested = FALSE]
      OBVIOUS
    <2>2. row \in TaskRows /\ row.state \notin Active
      BY <1>1, <1>c, <2>1 DEF TaskRows, TaskStates, Waiting, Active
    <2>3. task' = [task EXCEPT ![t] = row] /\ task[t].state \notin Active
      BY <1>0, <1>6, <2>1 DEF Retry, Stopped, Active
    <2> QED
      BY <1>0, <1>6, <2>2, <2>3, OneRowStep DEF Retry
  <1>7. CASE IntegrationSucceeds(t)
    <2>1. PICK row : row = [task[t] EXCEPT !.state = "ready_for_approval"]
      OBVIOUS
    <2>2. row \in TaskRows /\ row.state \notin Active
      BY <1>1, <2>1 DEF TaskRows, TaskStates, Success, Active
    <2>3. task' = [task EXCEPT ![t] = row] /\ task[t].state \notin Active
      BY <1>0, <1>7, <2>1 DEF IntegrationSucceeds, Active
    <2> QED
      BY <1>0, <1>7, <2>2, <2>3, OneRowStep DEF IntegrationSucceeds
  <1>8. CASE IntegrationFails(t)
    <2>1. PICK row : row = [task[t] EXCEPT !.state = "blocked", !.phase = Rework(t)]
      OBVIOUS
    <2>2. row \in TaskRows /\ row.state \notin Active
      BY <1>1, <2>1 DEF TaskRows, TaskStates, Stopped, Phases, Rework, Active
    <2>3. task' = [task EXCEPT ![t] = row] /\ task[t].state \notin Active
      BY <1>0, <1>8, <2>1 DEF IntegrationFails, Active
    <2> QED
      BY <1>0, <1>8, <2>2, <2>3, OneRowStep DEF IntegrationFails
  <1>9. CASE CooldownEnds(t)
    <2>1. PICK row : row = [task[t] EXCEPT !.cooling = FALSE]
      OBVIOUS
    <2>2. /\ row \in TaskRows /\ row.state = task[t].state
          /\ row.attempt_id = task[t].attempt_id /\ row.token = task[t].token
      BY <1>1, <2>1 DEF TaskRows
    <2>3. task' = [task EXCEPT ![t] = row]
      BY <1>0, <1>9, <2>1 DEF CooldownEnds
    <2> QED
      BY <1>0, <1>9, <2>2, <2>3, OneRowStep DEF CooldownEnds
  <1> QED
    BY <1>2, <1>3, <1>4, <1>5, <1>6, <1>7, <1>8, <1>9

\* Requests that rewrite many rows at once.
LEMMA ManyRowSteps ==
  ASSUME LeaseInvariant,
         \/ StopAll \/ NothingStartable \/ AtCapacity
         \/ \E p \in Projects, accept \in BOOLEAN : Decide(p, accept)
  PROVE  TypeOK' /\ LeaseStep
  <1>0. /\ task \in [Tasks -> TaskRows] /\ deps \in [Tasks -> SUBSET Tasks]
        /\ signals \subseteq Tasks /\ TypePolicy
    BY DEF LeaseInvariant, TypeOK, TypeStore, TypeThread
  <1>1. ASSUME NEW t \in Tasks, NEW s \in TaskStates \ Active
        PROVE  /\ [task[t] EXCEPT !.state = s] \in TaskRows
               /\ [task[t] EXCEPT !.state = s].state \notin Active
    <2>1. task[t] \in TaskRows
      BY <1>0
    <2> QED
      BY <2>1 DEF TaskRows
  <1>2. CASE StopAll
    <2>1. ASSUME NEW t \in Tasks
          PROVE  task'[t] \in TaskRows /\ SameOwner(t)
      <3>1. task[t] \in TaskRows
        BY <1>0
      <3>2. PICK row : row = [task[t] EXCEPT !.cancel_requested = TRUE]
        OBVIOUS
      <3>3. /\ row \in TaskRows /\ row.state = task[t].state
            /\ row.attempt_id = task[t].attempt_id /\ row.token = task[t].token
        BY <3>1, <3>2 DEF TaskRows
      <3>4. task'[t] = row \/ task'[t] = task[t]
        BY <1>2, <3>2 DEF StopAll
      <3> QED
        BY <3>1, <3>3, <3>4 DEF SameOwner
    <2>2. task' \in [Tasks -> TaskRows]
      BY <1>2, <2>1 DEF StopAll
    <2>3. TypePolicy' /\ signals' \subseteq Tasks
      BY <1>0, <1>2 DEF StopAll, TypePolicy
    <2> QED
      BY <1>0, <1>2, <2>1, <2>2, <2>3, RowsStep DEF StopAll, sched
  <1>3. CASE NothingStartable \/ AtCapacity
    <2>1. ASSUME NEW t \in Tasks
          PROVE  task'[t] \in TaskRows /\ SameOwner(t)
      <3>1. PassedOver(t) \in TaskStates \ Active /\ "waiting_capacity" \in TaskStates \ Active
        BY DEF PassedOver, TaskStates, Waiting, Stopped, Active
      <3>2. \/ task'[t] = task[t]
            \/ /\ task[t].state \notin Active
               /\ \E s \in TaskStates \ Active : task'[t] = [task[t] EXCEPT !.state = s]
        BY <1>3, <3>1 DEF NothingStartable, AtCapacity, Candidates, Waiting, Active
      <3> QED
        BY <1>0, <1>1, <3>2 DEF SameOwner
    <2>2. task' \in [Tasks -> TaskRows]
      BY <1>3, <2>1 DEF NothingStartable, AtCapacity
    <2>3. TypePolicy'
      BY <1>0, <1>3 DEF NothingStartable, AtCapacity, TypePolicy, policy
    <2> QED
      BY <1>0, <1>3, <2>1, <2>2, <2>3, RowsStep
      DEF NothingStartable, AtCapacity, Dispatching
  <1>4. CASE \E p \in Projects, accept \in BOOLEAN : Decide(p, accept)
    <2>0. PICK p \in Projects, accept \in BOOLEAN : Decide(p, accept)
      BY <1>4
    <2>1. ASSUME NEW t \in Tasks
          PROVE  task'[t] \in TaskRows /\ SameOwner(t)
      <3>1. {"completed", "blocked"} \subseteq TaskStates \ Active
        BY DEF TaskStates, Success, Stopped, Active
      <3>2. \/ task'[t] = task[t]
            \/ /\ task[t].state \notin Active
               /\ \E s \in TaskStates \ Active : task'[t] = [task[t] EXCEPT !.state = s]
        BY <2>0, <3>1 DEF Decide, Active
      <3> QED
        BY <1>0, <1>1, <3>2 DEF SameOwner
    <2>2. task' \in [Tasks -> TaskRows]
      BY <2>0, <2>1 DEF Decide
    <2>3. TypePolicy'
      BY <1>0, <2>0 DEF Decide, TypePolicy
    <2> QED
      BY <1>0, <2>0, <2>1, <2>2, <2>3, RowsStep DEF Decide, sched
  <1> QED
    BY <1>2, <1>3, <1>4

\* The scheduler parks a task it cannot judge; the lease stands.
LEMMA ParkSteps ==
  ASSUME LeaseInvariant, NEW a \in Attempts, InspectionDenied(a) \/ OrphanHeld(a)
  PROVE  TypeOK' /\ LeaseStep
  <1>1. a \in Leased /\ att[a].task \in Tasks /\ task[att[a].task].state \in Active
    BY DEF InspectionDenied, OrphanHeld, Orphaned, LeaseInvariant, ThreadHoldsLeases,
       LeaseMatchesTask
  <1>2. PICK t \in Tasks : t = att[a].task
    BY <1>1
  <1>3. task \in [Tasks -> TaskRows] /\ task[t] \in TaskRows
    BY DEF LeaseInvariant, TypeOK, TypeStore
  <1>4. PICK row : row = [task[t] EXCEPT !.state = "recovering"]
    OBVIOUS
  <1>5. /\ row \in TaskRows /\ row.state \in Active
        /\ row.attempt_id = task[t].attempt_id /\ row.token = task[t].token
    BY <1>3, <1>4 DEF TaskRows, TaskStates, Active
  <1>6. task' = [task EXCEPT ![t] = row]
    BY <1>2, <1>3, <1>4 DEF InspectionDenied, OrphanHeld, Park
  <1>7. UNCHANGED <<deps, att, policy, world, pc, slot, signals>> /\ Handled(a)
    BY DEF InspectionDenied, OrphanHeld
  <1>8. task' \in [Tasks -> TaskRows] /\ \A u \in Tasks : SameOwner(u)
    BY <1>1, <1>2, <1>3, <1>5, <1>6 DEF SameOwner
  <1>9. KeepsLeases
    BY <1>7, <1>8 DEF Handled, KeepsLeases, SameAttempt, LeaseInvariant, ThreadHoldsLeases
  <1> QED
    BY <1>7, <1>8, <1>9
    DEF Handled, LeaseStep, LeaseInvariant, TypeOK, TypeStore, TypePolicy, TypeWorld,
        TypeThread, policy, world

\* A guardian's transactions check the lease they act under.
LEMMA GuardianSteps ==
  ASSUME LeaseInvariant, NEW a \in Attempts, Register(a) \/ Verify(a)
  PROVE  TypeOK' /\ LeaseStep
  <1>1. a \in Leased /\ att[a].task \in Tasks /\ task[att[a].task].state \in Active
    BY DEF Register, MayRegister, Verify, LeaseStands, Active, Leased, LeaseInvariant,
       LeaseMatchesTask
  <1>2. PICK t \in Tasks : t = att[a].task
    BY <1>1
  <1>3. PICK s \in Active : task' = [task EXCEPT ![t].state = s]
    BY <1>2 DEF Register, Verify, Active
  <1>4. PICK r \in Active, i \in BOOLEAN :
          att' = [att EXCEPT ![a].state = r, ![a].identity = i]
    <2>1. CASE Register(a)
      BY <2>1 DEF Register, Active
    <2>2. CASE Verify(a)
      <3>1. att[a].identity \in BOOLEAN /\ att \in [Attempts -> AttemptRows]
        BY DEF LeaseInvariant, TypeOK, TypeStore, AttemptRows
      <3>2. att' = [att EXCEPT ![a].state = "verifying", ![a].identity = att[a].identity]
        BY <2>2, <3>1 DEF Verify, AttemptRows
      <3> QED
        BY <3>1, <3>2 DEF Active
    <2> QED
      BY <2>1, <2>2
  <1>5. task \in [Tasks -> TaskRows] /\ att \in [Attempts -> AttemptRows]
    BY DEF LeaseInvariant, TypeOK, TypeStore
  <1>6. PICK row : row = [task[t] EXCEPT !.state = s]
    OBVIOUS
  <1>7. /\ row \in TaskRows /\ row.state \in Active
        /\ row.attempt_id = task[t].attempt_id /\ row.token = task[t].token
    <2>1. task[t] \in TaskRows /\ s \in TaskStates
      BY <1>5 DEF TaskStates
    <2> QED
      BY <1>6, <2>1 DEF TaskRows
  <1>8. PICK lease : lease = [att[a] EXCEPT !.state = r, !.identity = i]
    OBVIOUS
  <1>9. /\ lease \in AttemptRows /\ lease.state \in Active /\ lease.task = att[a].task
        /\ lease.token = att[a].token /\ lease.account = att[a].account
    <2>1. att[a] \in AttemptRows
      BY <1>5
    <2> QED
      BY <1>8, <2>1 DEF AttemptRows
  <1>10. task' = [task EXCEPT ![t] = row] /\ att' = [att EXCEPT ![a] = lease]
    BY <1>3, <1>4, <1>5, <1>6, <1>8
  <1>11. TypeStore'
    BY <1>5, <1>7, <1>9, <1>10
    DEF Register, Verify, LeaseInvariant, TypeOK, TypeStore
  <1>12. UNCHANGED <<policy, stop, child, outcome, sched, signals>>
         /\ guard' \in [Attempts -> Up \cup {"none", "dead"}]
    BY DEF Register, Verify, Up, LeaseInvariant, TypeOK, TypeWorld
  <1>13. KeepsLeases
    <2>1. \A b \in Attempts : SameAttempt(b)
      BY <1>1, <1>5, <1>9, <1>10 DEF SameAttempt, Leased
    <2>2. \A u \in Tasks : SameOwner(u)
      BY <1>1, <1>2, <1>5, <1>7, <1>10 DEF SameOwner
    <2> QED
      BY <1>12, <2>1, <2>2 DEF KeepsLeases, LeaseInvariant, ThreadHoldsLeases, sched
  <1> QED
    BY <1>11, <1>12, <1>13
    DEF LeaseStep, LeaseInvariant, TypeOK, TypePolicy, TypeWorld, TypeThread, policy, sched

-------------------------------------------------------------------------------
(* Steps that end a lease *)

LEMMA CollectedResult ==
  ASSUME LeaseInvariant, NEW a \in Attempts, Collecting(a)
  PROVE  /\ AttemptResult(a) \in Results
         /\ a \in todo /\ a \in Leased
         /\ att[a].task \in Tasks /\ task[att[a].task] \in TaskRows
  <1>1. AttemptResult(a) \in Results
    <2>1. outcome[a] \in Outcomes
      BY DEF Collecting, LeaseInvariant, TypeOK, TypeWorld
    <2> QED
      BY <2>1 DEF AttemptResult, Outcomes, Results
  <1>2. a \in todo /\ a \in Leased /\ att[a].task \in Tasks
    BY DEF Collecting, LeaseInvariant, ThreadHoldsLeases, LeaseMatchesTask
  <1> QED
    BY <1>1, <1>2 DEF LeaseInvariant, TypeOK, TypeStore

\* What every branch of finish() comes to: the attempt ends and its task is no longer owned.
LEMMA EndingStep ==
  ASSUME LeaseInvariant, NEW a \in Attempts, a \in Leased, NEW result \in Results,
         att' = [att EXCEPT ![a].state = result],
         task' \in [Tasks -> TaskRows], task'[att[a].task].state \notin Active,
         \A t \in Tasks \ {att[a].task} : SameOwner(t),
         deps' \in [Tasks -> SUBSET Tasks], TypePolicy',
         a \in todo, Handled(a), UNCHANGED <<world, pc, slot, signals>>
  PROVE  TypeOK' /\ LeaseStep
  <1>1. att \in [Attempts -> AttemptRows]
    BY DEF LeaseInvariant, TypeOK, TypeStore
  <1>2. att' \in [Attempts -> AttemptRows]
    <2>1. att[a] \in AttemptRows
      BY <1>1
    <2>2. [att[a] EXCEPT !.state = result] \in AttemptRows
      BY <2>1 DEF AttemptRows
    <2> QED
      BY <1>1, <2>2
  <1>3. EndsLease(a)
    <2>1. att'[a].state = result
      BY <1>1 DEF AttemptRows
    <2>2. \A b \in Attempts \ {a} : SameAttempt(b)
      BY <1>1 DEF SameAttempt
    <2>3. todo' \subseteq Leased \ {a, slot'}
      BY DEF Handled, LeaseInvariant, ThreadHoldsLeases
    <2> QED
      BY <2>1, <2>2, <2>3 DEF EndsLease
  <1> QED
    BY <1>2, <1>3
    DEF LeaseStep, Handled, LeaseInvariant, TypeOK, TypeStore, TypeWorld, TypeThread, world

LEMMA EndsWithStep ==
  ASSUME LeaseInvariant, NEW a \in Attempts, Collecting(a),
         NEW after \in TaskRows, after.state \notin Active, EndsWith(a, after),
         UNCHANGED deps,
         healthy' \in [Accounts -> BOOLEAN], tired' \in [Accounts -> BOOLEAN]
  PROVE  TypeOK' /\ LeaseStep
  <1>1. task \in [Tasks -> TaskRows] /\ deps \in [Tasks -> SUBSET Tasks] /\ TypePolicy
    BY DEF LeaseInvariant, TypeOK, TypeStore
  <1>2. PICK t \in Tasks : t = att[a].task
    BY CollectedResult
  <1>3. task' = [task EXCEPT ![t] = after]
    BY <1>2 DEF EndsWith
  <1>4. task' \in [Tasks -> TaskRows] /\ task'[t].state \notin Active
    BY <1>1, <1>3
  <1>5. \A u \in Tasks \ {t} : SameOwner(u)
    BY <1>1, <1>3 DEF SameOwner
  <1>6. TypePolicy'
    BY <1>1 DEF EndsWith, TypePolicy
  <1> QED
    BY <1>1, <1>2, <1>4, <1>5, <1>6, CollectedResult, EndingStep DEF EndsWith

LEMMA FinishSteps ==
  ASSUME LeaseInvariant, NEW a \in Attempts,
         \/ FinishUnconfirmed(a) \/ FinishCancelled(a) \/ FinishOutdated(a)
         \/ FinishClarify(a) \/ FinishReplan(a) \/ FinishBuild(a) \/ FinishReview(a)
         \/ FinishDirect(a) \/ FinishTrouble(a) \/ FinishRetry(a) \/ FinishRepair(a)
         \/ FinishBlocked(a)
  PROVE  TypeOK' /\ LeaseStep
  <1>1. healthy \in [Accounts -> BOOLEAN] /\ tired \in [Accounts -> BOOLEAN]
    BY DEF LeaseInvariant, TypeOK, TypePolicy
  <1>2. task[att[a].task] \in TaskRows
    <2>1. Collecting(a)
      BY DEF FinishUnconfirmed, FinishCancelled, FinishOutdated, FinishClarify, FinishReplan,
         FinishBuild, FinishReview, FinishDirect, FinishTrouble, FinishRetry, FinishRepair,
         FinishBlocked, Passed, Succeeded, Uncancelled
    <2> QED
      BY <2>1, CollectedResult
  <1>3. task[att[a].task].retries + 1 \in Nat /\ task[att[a].task].repairs + 1 \in Nat
    BY <1>2 DEF TaskRows
  <1>4. CASE FinishUnconfirmed(a)
    <2>1. Collecting(a)
      BY <1>4 DEF FinishUnconfirmed
    <2>2. PICK after : after = [task[att[a].task] EXCEPT !.state = "interrupted"]
      OBVIOUS
    <2>3. after \in TaskRows /\ after.state \notin Active
      BY <1>4, <1>2, <1>3, <2>2 DEF TaskRows, TaskStates, Stopped, Active
    <2>4. EndsWith(a, after) /\ UNCHANGED deps
      BY <1>4, <2>2 DEF FinishUnconfirmed
    <2> QED
      BY <1>1, <1>4, <2>1, <2>3, <2>4, EndsWithStep DEF FinishUnconfirmed
  <1>5. CASE FinishCancelled(a)
    <2>1. Collecting(a)
      BY <1>5 DEF FinishCancelled
    <2>2. PICK after : after = [task[att[a].task] EXCEPT !.state = "cancelled"]
      OBVIOUS
    <2>3. after \in TaskRows /\ after.state \notin Active
      BY <1>5, <1>2, <1>3, <2>2 DEF TaskRows, TaskStates, Active
    <2>4. EndsWith(a, after) /\ UNCHANGED deps
      BY <1>5, <2>2 DEF FinishCancelled
    <2> QED
      BY <1>1, <1>5, <2>1, <2>3, <2>4, EndsWithStep DEF FinishCancelled
  <1>6. CASE FinishOutdated(a)
    <2>1. Collecting(a)
      BY <1>6 DEF FinishOutdated, Succeeded, Uncancelled
    <2>2. PICK after : after = [task[att[a].task] EXCEPT !.state = "ready",
          !.phase = IF att[a].phase = "plan" THEN "plan" ELSE Rework(att[a].task)]
      OBVIOUS
    <2>3. after \in TaskRows /\ after.state \notin Active
      BY <1>6, <1>2, <1>3, <2>2 DEF TaskRows, TaskStates, Waiting, Phases, Rework, Active
    <2>4. EndsWith(a, after) /\ UNCHANGED deps
      BY <1>6, <2>2 DEF FinishOutdated
    <2> QED
      BY <1>1, <1>6, <2>1, <2>3, <2>4, EndsWithStep DEF FinishOutdated
  <1>7. CASE FinishClarify(a)
    <2>1. Collecting(a)
      BY <1>7 DEF FinishClarify, Succeeded, Uncancelled
    <2>2. PICK after : after = [task[att[a].task] EXCEPT !.state = "awaiting_input"]
      OBVIOUS
    <2>3. after \in TaskRows /\ after.state \notin Active
      BY <1>7, <1>2, <1>3, <2>2 DEF TaskRows, TaskStates, Active
    <2>4. EndsWith(a, after) /\ UNCHANGED deps
      BY <1>7, <2>2 DEF FinishClarify
    <2> QED
      BY <1>1, <1>7, <2>1, <2>3, <2>4, EndsWithStep DEF FinishClarify
  <1>8. CASE FinishReplan(a)
    <2>1. Collecting(a)
      BY <1>8 DEF FinishReplan, Passed, Succeeded, Uncancelled
    <2>2. PICK after : after = [task[att[a].task] EXCEPT !.state = "ready", !.phase = "build"]
      OBVIOUS
    <2>3. after \in TaskRows /\ after.state \notin Active
      BY <1>8, <1>2, <1>3, <2>2 DEF TaskRows, TaskStates, Waiting, Phases, Active
    <2>4. EndsWith(a, after) /\ UNCHANGED deps
      BY <1>8, <2>2 DEF FinishReplan
    <2> QED
      BY <1>1, <1>8, <2>1, <2>3, <2>4, EndsWithStep DEF FinishReplan
  <1>9. CASE FinishBuild(a)
    <2>1. Collecting(a)
      BY <1>9 DEF FinishBuild, Passed, Succeeded, Uncancelled
    <2>2. PICK after : after = [task[att[a].task] EXCEPT
          !.state = IF att[a].task \in Reviewed THEN "ready" ELSE "integrating",
          !.phase = IF att[a].task \in Reviewed THEN "review" ELSE "build",
          !.build_attempt = a]
      OBVIOUS
    <2>3. after \in TaskRows /\ after.state \notin Active
      <3>1. /\ {"ready", "integrating"} \subseteq TaskStates \ Active
            /\ {"build", "review", "direct"} \subseteq Phases /\ a \in Names
        BY DEF TaskStates, Waiting, Active, Phases, Names
      <3>2. PICK s \in {"ready", "integrating"}, p \in {"build", "review", "direct"} :
              after = [task[att[a].task] EXCEPT
                         !.state = s, !.phase = p, !.build_attempt = a]
        BY <2>2
      <3> QED
        BY <1>2, <3>1, <3>2 DEF TaskRows
    <2>4. EndsWith(a, after) /\ UNCHANGED deps
      BY <1>9, <2>2 DEF FinishBuild
    <2> QED
      BY <1>1, <1>9, <2>1, <2>3, <2>4, EndsWithStep DEF FinishBuild
  <1>10. CASE FinishReview(a)
    <2>1. Collecting(a)
      BY <1>10 DEF FinishReview, Passed, Succeeded, Uncancelled
    <2>2. PICK after : after = [task[att[a].task] EXCEPT
          !.state = IF att[a].task \in Directed THEN "ready" ELSE "integrating",
          !.phase = IF att[a].task \in Directed THEN "direct" ELSE "review",
          !.review_attempt = a]
      OBVIOUS
    <2>3. after \in TaskRows /\ after.state \notin Active
      <3>1. /\ {"ready", "integrating"} \subseteq TaskStates \ Active
            /\ {"build", "review", "direct"} \subseteq Phases /\ a \in Names
        BY DEF TaskStates, Waiting, Active, Phases, Names
      <3>2. PICK s \in {"ready", "integrating"}, p \in {"build", "review", "direct"} :
              after = [task[att[a].task] EXCEPT
                         !.state = s, !.phase = p, !.review_attempt = a]
        BY <2>2
      <3> QED
        BY <1>2, <3>1, <3>2 DEF TaskRows
    <2>4. EndsWith(a, after) /\ UNCHANGED deps
      BY <1>10, <2>2 DEF FinishReview
    <2> QED
      BY <1>1, <1>10, <2>1, <2>3, <2>4, EndsWithStep DEF FinishReview
  <1>11. CASE FinishDirect(a)
    <2>1. Collecting(a)
      BY <1>11 DEF FinishDirect, Passed, Succeeded, Uncancelled
    <2>2. PICK after : after = [task[att[a].task] EXCEPT !.state = "integrating",
          !.director_review_attempt = a]
      OBVIOUS
    <2>3. after \in TaskRows /\ after.state \notin Active
      BY <1>11, <1>2, <1>3, <2>2 DEF TaskRows, TaskStates, Names, Active
    <2>4. EndsWith(a, after) /\ UNCHANGED deps
      BY <1>11, <2>2 DEF FinishDirect
    <2> QED
      BY <1>1, <1>11, <2>1, <2>3, <2>4, EndsWithStep DEF FinishDirect
  <1>12. CASE FinishTrouble(a)
    <2>1. Collecting(a)
      BY <1>12 DEF FinishTrouble, Uncancelled
    <2>2. PICK after : after = [task[att[a].task] EXCEPT !.state = outcome[a]]
      OBVIOUS
    <2>3. after \in TaskRows /\ after.state \notin Active
      BY <1>12, <1>2, <1>3, <2>2 DEF FinishTrouble, TaskRows, TaskStates, Stopped, Active
    <2>4. EndsWith(a, after) /\ UNCHANGED deps
      BY <1>12, <2>2 DEF FinishTrouble
    <2>5. healthy' \in [Accounts -> BOOLEAN] /\ tired' \in [Accounts -> BOOLEAN]
      BY <1>1, <1>12 DEF FinishTrouble
    <2> QED
      BY <2>1, <2>3, <2>4, <2>5, EndsWithStep
  <1>13. CASE FinishRetry(a)
    <2>1. Collecting(a)
      BY <1>13 DEF FinishRetry, Uncancelled
    <2>2. PICK after : after = [task[att[a].task] EXCEPT !.state = "cooldown",
          !.cooling = TRUE, !.retries = task[att[a].task].retries + 1]
      OBVIOUS
    <2>3. after \in TaskRows /\ after.state \notin Active
      <3>1. "cooldown" \in TaskStates \ Active
        BY DEF TaskStates, Waiting, Active
      <3> QED
        BY <1>2, <1>3, <2>2, <3>1 DEF TaskRows
    <2>4. EndsWith(a, after) /\ UNCHANGED deps
      BY <1>13, <2>2 DEF FinishRetry
    <2>5. healthy' \in [Accounts -> BOOLEAN] /\ tired' \in [Accounts -> BOOLEAN]
      BY <1>1, <1>13 DEF FinishRetry
    <2> QED
      BY <2>1, <2>3, <2>4, <2>5, EndsWithStep
  <1>14. CASE FinishRepair(a)
    <2>1. Collecting(a)
      BY <1>14 DEF FinishRepair, Uncancelled
    <2>2. PICK after : after = [task[att[a].task] EXCEPT !.state = "repair_queued",
          !.repairs = task[att[a].task].repairs + 1,
          !.phase = IF att[a].phase = "plan" THEN "plan" ELSE Rework(att[a].task)]
      OBVIOUS
    <2>3. after \in TaskRows /\ after.state \notin Active
      <3>1. "repair_queued" \in TaskStates \ Active
        BY DEF TaskStates, Waiting, Active
      <3>2. (IF att[a].phase = "plan" THEN "plan" ELSE Rework(att[a].task)) \in Phases
        BY DEF Phases, Rework
      <3> QED
        BY <1>2, <1>3, <2>2, <3>1, <3>2 DEF TaskRows
    <2>4. EndsWith(a, after) /\ UNCHANGED deps
      BY <1>14, <2>2 DEF FinishRepair
    <2> QED
      BY <1>1, <1>14, <2>1, <2>3, <2>4, EndsWithStep DEF FinishRepair
  <1>15. CASE FinishBlocked(a)
    <2>1. Collecting(a)
      BY <1>15 DEF FinishBlocked, Uncancelled
    <2>2. PICK after : after = [task[att[a].task] EXCEPT !.state = "blocked"]
      OBVIOUS
    <2>3. after \in TaskRows /\ after.state \notin Active
      BY <1>15, <1>2, <1>3, <2>2 DEF TaskRows, TaskStates, Stopped, Active
    <2>4. EndsWith(a, after) /\ UNCHANGED deps
      BY <1>15, <2>2 DEF FinishBlocked
    <2> QED
      BY <1>1, <1>15, <2>1, <2>3, <2>4, EndsWithStep DEF FinishBlocked
  <1> QED
    BY <1>4, <1>5, <1>6, <1>7, <1>8, <1>9, <1>10, <1>11, <1>12, <1>13, <1>14, <1>15

\* A validated plan completes its own task and creates others.
LEMMA PlanSteps ==
  ASSUME LeaseInvariant, NEW a \in Attempts,
         NEW plan \in UNION {Plans[t] : t \in Tasks}, FinishPlan(a, plan)
  PROVE  TypeOK' /\ LeaseStep
  <1>1. Collecting(a)
    BY DEF FinishPlan, Passed, Succeeded, Uncancelled
  <1>2. PICK t \in Tasks : t = att[a].task
    BY <1>1, CollectedResult
  <1>3. plan \in Plans[t] /\ \A u \in DOMAIN plan : plan[u] \subseteq Tasks
    BY <1>2, PlansAreMaps DEF FinishPlan
  <1>4. /\ task \in [Tasks -> TaskRows] /\ deps \in [Tasks -> SUBSET Tasks] /\ TypePolicy
        /\ "passed" \in Results
    BY DEF LeaseInvariant, TypeOK, TypeStore, Results
  <1>5. PICK done : done = [task[t] EXCEPT !.state = "completed"]
    OBVIOUS
  <1>6. done \in TaskRows /\ done.state \notin Active
    <2>1. task[t] \in TaskRows
      BY <1>4
    <2> QED
      BY <1>5, <2>1 DEF TaskRows, TaskStates, Success, Active
  <1>7. NewTask("build") \in TaskRows /\ NewTask("build").state \notin Active
    BY NewTaskRow DEF Phases, Active
  <1>8. task' = [u \in Tasks |-> IF u = t THEN done
                                 ELSE IF u \in DOMAIN plan THEN NewTask("build") ELSE task[u]]
    BY <1>2, <1>5 DEF FinishPlan
  <1>9. task' \in [Tasks -> TaskRows] /\ task'[t].state \notin Active
    BY <1>4, <1>6, <1>7, <1>8
  <1>10. \A u \in Tasks \ {t} : SameOwner(u)
    <2>1. \A u \in DOMAIN plan : task[u].state \notin Active
      BY DEF FinishPlan, Active
    <2> QED
      BY <1>7, <1>8, <2>1 DEF SameOwner
  <1>11. deps' \in [Tasks -> SUBSET Tasks]
    BY <1>2, <1>3, <1>4 DEF FinishPlan
  <1>12. TypePolicy'
    BY <1>4 DEF FinishPlan, TypePolicy, policy
  <1> QED
    BY <1>1, <1>2, <1>4, <1>9, <1>10, <1>11, <1>12, CollectedResult, EndingStep
    DEF FinishPlan

\* Recovery takes the lease back in one transaction.
LEMMA ReleaseStep ==
  ASSUME LeaseInvariant, Release
  PROVE  TypeOK' /\ LeaseStep
  <1>1. PICK a \in Attempts : a = slot
    BY DEF Release, LeaseInvariant, TypeOK, TypeThread
  <1>2. a \in Leased /\ att[a].task \in Tasks
    BY <1>1 DEF Release, Leased, LeaseInvariant, LeaseMatchesTask
  <1>3. PICK t \in Tasks : t = att[a].task
    BY <1>2
  <1>4. task \in [Tasks -> TaskRows] /\ task[t] \in TaskRows /\ att \in [Attempts -> AttemptRows]
    BY DEF LeaseInvariant, TypeOK, TypeStore
  <1>5. PICK row : row = [task[t] EXCEPT !.token = @ + 1, !.recoveries = @ + 1,
                                         !.cooling = TRUE, !.state = AfterRelease(t)]
    OBVIOUS
  <1>6. row \in TaskRows /\ row.state \notin Active
    <2>1. task[t].token + 1 \in Nat /\ task[t].recoveries + 1 \in Nat
      BY <1>4 DEF TaskRows
    <2>2. AfterRelease(t) \in TaskStates \ Active
      BY DEF AfterRelease, TaskStates, Waiting, Stopped, Active
    <2> QED
      BY <1>4, <1>5, <2>1, <2>2 DEF TaskRows
  <1>7. task' = [task EXCEPT ![t] = row]
    BY <1>1, <1>3, <1>4, <1>5 DEF Release
  <1>8. PICK lease : lease = [att[a] EXCEPT !.state = "interrupted"]
    OBVIOUS
  <1>9. lease \in AttemptRows /\ lease.state = "interrupted"
    <2>1. att[a] \in AttemptRows
      BY <1>4
    <2> QED
      BY <1>8, <2>1 DEF AttemptRows
  <1>10. att' = [att EXCEPT ![a] = lease]
    BY <1>1, <1>8 DEF Release
  <1>11. EndsLease(a)
    <2>1. \A b \in Attempts \ {a} : SameAttempt(b)
      BY <1>4, <1>10 DEF SameAttempt
    <2>2. \A u \in Tasks \ {t} : SameOwner(u)
      BY <1>4, <1>7 DEF SameOwner
    <2>3. todo' \subseteq Leased \ {a, slot'}
      BY <1>1, NoneIsNoAttempt DEF Release, LeaseInvariant, ThreadHoldsLeases, Leased
    <2> QED
      BY <1>2, <1>3, <1>4, <1>6, <1>7, <1>9, <1>10, <2>1, <2>2, <2>3 DEF EndsLease
  <1>12. TypeStore'
    <2>1. deps' \in [Tasks -> SUBSET Tasks]
      BY DEF Release, LeaseInvariant, TypeOK, TypeStore
    <2> QED
      BY <1>4, <1>6, <1>7, <1>9, <1>10, <2>1 DEF TypeStore
  <1>13. TypePolicy' /\ TypeWorld' /\ TypeThread'
    BY DEF Release, LeaseInvariant, TypeOK, TypePolicy, TypeWorld, TypeThread, policy, world
  <1> QED
    BY <1>11, <1>12, <1>13 DEF TypeOK, LeaseStep

-------------------------------------------------------------------------------
(* The step that grants a lease *)

LEMMA ClaimStep ==
  ASSUME LeaseInvariant, NEW t \in Tasks, NEW c \in Accounts, Claim(t, c)
  PROVE  TypeOK' /\ LeaseStep
  <1>1. PICK a \in Attempts : a = Fresh /\ att[a] = UnusedAttempt
    BY DEF Claim, Dispatching, Spent, Fresh
  <1>2. /\ task \in [Tasks -> TaskRows] /\ task[t] \in TaskRows
        /\ att \in [Attempts -> AttemptRows]
    BY DEF LeaseInvariant, TypeOK, TypeStore
  <1>3. PICK base \in Names : base = (IF task[t].phase \in {"review", "direct"}
                                      THEN task[t].build_attempt ELSE None)
    BY <1>2 DEF TaskRows, Names
  <1>4. PICK lease : lease =
          [state |-> "leased", task |-> t, account |-> c, token |-> task[t].token + 1,
           phase |-> task[t].phase, base |-> base,
           instruction_count |-> task[t].instructions_pending, identity |-> FALSE]
    OBVIOUS
  <1>5. lease \in AttemptRows
    <2>1. /\ task[t].token + 1 \in Nat /\ task[t].phase \in Phases
          /\ task[t].instructions_pending \in Nat
      BY <1>2 DEF TaskRows
    <2> QED
      BY <1>4, <2>1 DEF AttemptRows, Active
  <1>6. att' = [att EXCEPT ![a] = lease]
    BY <1>1, <1>3, <1>4 DEF Claim
  <1>7. PICK row : row = [task[t] EXCEPT !.state = "leased", !.token = task[t].token + 1,
                                         !.attempt_id = a]
    OBVIOUS
  <1>8. /\ row \in TaskRows /\ row.state \in Active /\ row.attempt_id = a
        /\ row.token = task[t].token + 1
    <2>1. task[t].token + 1 \in Nat /\ a \in Names /\ "leased" \in TaskStates \cap Active
      BY <1>2 DEF TaskRows, TaskStates, Active, Names
    <2> QED
      BY <1>2, <1>7, <2>1 DEF TaskRows
  <1>9. task'[t] = row
    BY <1>1, <1>2, <1>7 DEF Claim, TaskRows
  <1>10. ASSUME NEW u \in Tasks \ {t}
         PROVE  task'[u] \in TaskRows /\ SameOwner(u)
    <2>1. task[u] \in TaskRows
      BY <1>2
    <2>2. \/ task'[u] = task[u]
          \/ task[u].state \in Waiting /\ task'[u] = [task[u] EXCEPT !.state = PassedOver(u)]
      BY DEF Claim, Candidates
    <2>3. PassedOver(u) \in TaskStates \ Active /\ Waiting \cap Active = {}
      BY DEF PassedOver, TaskStates, Waiting, Stopped, Active
    <2> QED
      BY <2>1, <2>2, <2>3 DEF SameOwner, TaskRows
  <1>11. task' \in [Tasks -> TaskRows]
    BY <1>8, <1>9, <1>10 DEF Claim
  <1>12. GrantsLease(t, a, c)
    <2>1. task[t].state \notin Active
      BY DEF Claim, Candidates, Waiting, Active
    <2>2. att[a].state = "unused" /\ a \notin Leased
      BY <1>1 DEF UnusedAttempt, Leased, Active
    <2>3. c \in Free
      BY DEF Claim, Eligible
    <2>4. \A b \in Attempts \ {a} : SameAttempt(b)
      BY <1>2, <1>6 DEF SameAttempt
    <2>5. todo' \subseteq Leased \ {slot'}
      BY <1>1, <2>2 DEF Claim, LeaseInvariant, ThreadHoldsLeases
    <2>6. att'[a] = lease
      BY <1>2, <1>6
    <2> QED
      BY <1>4, <1>8, <1>9, <1>10, <2>1, <2>2, <2>3, <2>4, <2>5, <2>6
      DEF GrantsLease, Active
  <1>13. TypeStore'
    <2>1. att' \in [Attempts -> AttemptRows]
      BY <1>2, <1>5, <1>6
    <2>2. deps' \in [Tasks -> SUBSET Tasks]
      BY DEF Claim, LeaseInvariant, TypeOK, TypeStore
    <2> QED
      BY <1>11, <2>1, <2>2 DEF TypeStore
  <1>14. TypePolicy' /\ TypeWorld' /\ TypeThread'
    BY <1>1
    DEF Claim, Dispatching, LeaseInvariant, TypeOK, TypePolicy, TypeWorld, TypeThread,
        policy, world
  <1> QED
    BY <1>12, <1>13, <1>14 DEF TypeOK, LeaseStep

-------------------------------------------------------------------------------
(* Every step is a lease step, and lease steps preserve the invariant *)

LEMMA EveryStep ==
  ASSUME LeaseInvariant, [Next]_vars
  PROVE  TypeOK' /\ LeaseStep
  <1>1. CASE UNCHANGED vars
    <2>1. TypeOK'
      BY <1>1
      DEF vars, LeaseInvariant, TypeOK, TypeStore, TypePolicy, TypeWorld, TypeThread
    <2>2. KeepsLeases
      BY <1>1, UnchangedStoreKeepsLeases DEF vars, LeaseInvariant, ThreadHoldsLeases
    <2> QED
      BY <2>1, <2>2 DEF LeaseStep
  <1>2. CASE Scheduler
    <2>1. CASE \E a \in Attempts : Inspect(a)
      BY <2>1, ThreadSteps, ParkSteps, FinishSteps, PlanSteps DEF Inspect, Finish
    <2> QED
      BY <1>2, <2>1, ThreadSteps, ReleaseStep, ClaimStep, ManyRowSteps DEF Scheduler
  <1>3. CASE Owner
    BY <1>3, RequestSteps, ManyRowSteps, OutsideSteps DEF Owner, OutsideStore
  <1>4. CASE Staging \/ Clock
    BY <1>4, RequestSteps, ManyRowSteps, OutsideSteps DEF Staging, Clock, OutsideStore
  <1>5. CASE ControllerCrash \/ \E t \in Tasks : Signal(t)
    BY <1>5, ThreadSteps, OutsideSteps DEF OutsideStore
  <1>6. CASE \E a \in Attempts : Guardian(a) \/ ChildExits(a) \/ GuardianKilled(a)
    BY <1>6, GuardianSteps, OutsideSteps DEF Guardian, OutsideStore
  <1> QED
    BY <1>1, <1>2, <1>3, <1>4, <1>5, <1>6 DEF Next

\* Which attempts hold a lease after a step of each kind.
LEMMA LeasedAfter ==
  /\ KeepsLeases => Leased' = Leased
  /\ \A a \in Attempts : EndsLease(a) => Leased' = Leased \ {a}
  /\ \A t \in Tasks, a \in Attempts, c \in Accounts :
       GrantsLease(t, a, c) => Leased' = Leased \cup {a} /\ a \notin Leased
  <1>1. \A a \in Attempts : SameAttempt(a) => (a \in Leased' <=> a \in Leased)
    BY DEF SameAttempt, Leased
  <1>2. (Results \cup {"interrupted", "unused"}) \cap Active = {}
    BY DEF Results, Active
  <1>3. ASSUME KeepsLeases PROVE Leased' = Leased
    BY <1>1, <1>3 DEF KeepsLeases, Leased
  <1>4. ASSUME NEW a \in Attempts, EndsLease(a) PROVE Leased' = Leased \ {a}
    <2>1. a \notin Leased'
      BY <1>2, <1>4 DEF EndsLease, Leased
    <2> QED
      BY <1>1, <1>4, <2>1 DEF EndsLease, Leased
  <1>5. ASSUME NEW t \in Tasks, NEW a \in Attempts, NEW c \in Accounts, GrantsLease(t, a, c)
        PROVE  Leased' = Leased \cup {a} /\ a \notin Leased
    <2>1. a \in Leased' /\ a \notin Leased
      BY <1>2, <1>5 DEF GrantsLease, Leased
    <2> QED
      BY <1>1, <1>5, <2>1 DEF GrantsLease, Leased
  <1> QED
    BY <1>3, <1>4, <1>5

LEMMA LeaseStepInvariant ==
  ASSUME LeaseInvariant, TypeOK', LeaseStep
  PROVE  LeaseInvariant'
  <1>0. LeaseMatchesTask /\ OneLeasePerAccount /\ Leased \subseteq Attempts
    BY DEF LeaseInvariant, Leased
  <1>1. CASE KeepsLeases
    <2>1. Leased' = Leased
      BY <1>1, LeasedAfter
    <2>2. LeaseMatchesTask'
      BY <1>0, <1>1, <2>1 DEF KeepsLeases, SameAttempt, SameOwner, LeaseMatchesTask
    <2>3. OneLeasePerAccount' /\ ThreadHoldsLeases'
      BY <1>0, <1>1, <2>1
      DEF KeepsLeases, SameAttempt, OneLeasePerAccount, ThreadHoldsLeases
    <2> QED
      BY <2>2, <2>3 DEF LeaseInvariant
  <1>2. ASSUME NEW a \in Attempts, EndsLease(a)
        PROVE  LeaseInvariant'
    <2>1. Leased' = Leased \ {a} /\ a \in Leased
      BY <1>2, LeasedAfter DEF EndsLease
    <2>2. PICK t \in Tasks : t = att[a].task /\ task[t].attempt_id = a
      BY <1>0, <2>1 DEF LeaseMatchesTask
    <2>3. ASSUME NEW b \in Leased \ {a}
          PROVE  att[b].task # t /\ SameAttempt(b) /\ SameOwner(att[b].task)
      BY <1>0, <1>2, <2>2 DEF EndsLease, LeaseMatchesTask
    <2>4. LeaseMatchesTask'
      <3>1. ASSUME NEW b \in Leased'
            PROVE  /\ att'[b].task \in Tasks /\ task'[att'[b].task].state \in Active
                   /\ task'[att'[b].task].attempt_id = b
                   /\ task'[att'[b].task].token = att'[b].token
        BY <1>0, <2>1, <2>3 DEF SameAttempt, SameOwner, LeaseMatchesTask
      <3>2. ASSUME NEW u \in Tasks, task'[u].state \in Active
            PROVE  task'[u].attempt_id \in Leased' /\ att'[task'[u].attempt_id].task = u
        <4>1. u # t /\ SameOwner(u)
          BY <1>2, <2>2, <3>2 DEF EndsLease
        <4>2. /\ task'[u].attempt_id = task[u].attempt_id
              /\ task[u].attempt_id \in Leased \ {a} /\ att[task[u].attempt_id].task = u
          BY <1>0, <2>2, <3>2, <4>1 DEF SameOwner, LeaseMatchesTask
        <4> QED
          BY <2>1, <2>3, <4>2 DEF SameAttempt
      <3> QED
        BY <3>1, <3>2 DEF LeaseMatchesTask
    <2>5. OneLeasePerAccount'
      BY <1>0, <2>1, <2>3 DEF SameAttempt, OneLeasePerAccount
    <2>6. ThreadHoldsLeases'
      BY <1>2, <2>1 DEF EndsLease, ThreadHoldsLeases
    <2> QED
      BY <2>4, <2>5, <2>6 DEF LeaseInvariant
  <1>3. ASSUME NEW t \in Tasks, NEW a \in Attempts, NEW c \in Accounts, GrantsLease(t, a, c)
        PROVE  LeaseInvariant'
    <2>1. Leased' = Leased \cup {a} /\ a \notin Leased
      BY <1>3, LeasedAfter
    <2>2. ASSUME NEW b \in Leased
          PROVE  att[b].task # t /\ att[b].account # c /\ SameAttempt(b) /\ SameOwner(att[b].task)
      BY <1>0, <1>3, <2>1 DEF GrantsLease, LeaseMatchesTask, Free
    <2>3. LeaseMatchesTask'
      <3>1. ASSUME NEW b \in Leased'
            PROVE  /\ att'[b].task \in Tasks /\ task'[att'[b].task].state \in Active
                   /\ task'[att'[b].task].attempt_id = b
                   /\ task'[att'[b].task].token = att'[b].token
        <4>1. CASE b = a
          BY <1>3, <4>1 DEF GrantsLease
        <4>2. CASE b \in Leased
          BY <1>0, <2>2, <4>2 DEF SameAttempt, SameOwner, LeaseMatchesTask
        <4> QED
          BY <2>1, <4>1, <4>2
      <3>2. ASSUME NEW u \in Tasks, task'[u].state \in Active
            PROVE  task'[u].attempt_id \in Leased' /\ att'[task'[u].attempt_id].task = u
        <4>1. CASE u = t
          BY <1>3, <2>1, <4>1 DEF GrantsLease
        <4>2. CASE u # t
          <5>1. /\ task'[u].attempt_id = task[u].attempt_id
                /\ task[u].attempt_id \in Leased /\ att[task[u].attempt_id].task = u
            BY <1>0, <1>3, <3>2, <4>2 DEF GrantsLease, SameOwner, LeaseMatchesTask
          <5> QED
            BY <2>1, <2>2, <5>1 DEF SameAttempt
        <4> QED
          BY <4>1, <4>2
      <3> QED
        BY <3>1, <3>2 DEF LeaseMatchesTask
    <2>4. OneLeasePerAccount'
      BY <1>0, <1>3, <2>1, <2>2 DEF GrantsLease, SameAttempt, OneLeasePerAccount
    <2>5. ThreadHoldsLeases'
      BY <1>3, <2>1 DEF GrantsLease, ThreadHoldsLeases
    <2> QED
      BY <2>3, <2>4, <2>5 DEF LeaseInvariant
  <1> QED
    BY <1>1, <1>2, <1>3 DEF LeaseStep

-------------------------------------------------------------------------------
(* Theorems *)

\* The invariant is inductive: it holds of every reachable state.
THEOREM LeaseInvariantHolds == Spec => []LeaseInvariant
  <1>1. LeaseInvariant /\ [Next]_vars => LeaseInvariant'
    BY EveryStep, LeaseStepInvariant
  <1> QED
    BY InitLeaseInvariant, <1>1, PTL DEF Spec

\* Every variable keeps its type, whatever the interleaving of controller, guardians,
\* crashes and requests.
THEOREM TypeCorrect == Spec => []TypeOK
  <1>1. LeaseInvariant => TypeOK
    BY DEF LeaseInvariant
  <1> QED
    BY LeaseInvariantHolds, <1>1, PTL

\* Leases and owned tasks pair up in every state: claim(), the guardian's transactions,
\* finish(), recovery and the owner's requests never separate the two tables.
THEOREM LeasesMatchTasks == Spec => []LeaseMatchesTask
  <1>1. LeaseInvariant => LeaseMatchesTask
    BY DEF LeaseInvariant
  <1> QED
    BY LeaseInvariantHolds, <1>1, PTL

\* claim() never gives a subscription a second lease.
THEOREM AccountsServeOneLease == Spec => []OneLeasePerAccount
  <1>1. LeaseInvariant => OneLeasePerAccount
    BY DEF LeaseInvariant
  <1> QED
    BY LeaseInvariantHolds, <1>1, PTL

\* No late result, recovery or registration brings an ended attempt back.
THEOREM EndedAttemptsNeverRevive == Spec => EndedAttemptsStayEnded
  <1>1. LeaseInvariant /\ [Next]_vars =>
          [\A a \in Attempts : att[a].state \notin Active \cup {"unused"} =>
             att'[a].state = att[a].state]_vars
    <2> SUFFICES ASSUME LeaseInvariant, [Next]_vars, NEW a \in Attempts,
                        att[a].state \notin Active \cup {"unused"}
                 PROVE  att'[a].state = att[a].state
      OBVIOUS
    <2>1. LeaseStep
      BY EveryStep
    <2>2. CASE SameAttempt(a)
      BY <2>2 DEF SameAttempt
    <2> QED
      BY <2>1, <2>2 DEF LeaseStep, KeepsLeases, EndsLease, GrantsLease, Leased
  <1> QED
    BY LeaseInvariantHolds, <1>1, PTL DEF Spec, EndedAttemptsStayEnded

\* The store implements Ownership: each step grants one task to one unused attempt of a
\* free account, revokes one lease, or changes no ownership.
THEOREM LeasesImplementOwnership == Spec => ImplementsOwnership
  <1> DEFINE owner == [t \in Tasks |-> IF task[t].state \in Active THEN task[t].attempt_id
                                                                 ELSE None]
             holds == {<<a, att[a].account>> : a \in Leased}
             spent == {a \in Attempts : att[a].state # "unused"}
  <1>1. Init => Owners!Init
    BY DEF Init, Owners!Init, Absent, NewTask, UnusedAttempt, Leased, Active
  <1>2. LeaseInvariant /\ [Next]_vars => [Owners!Next]_(Owners!ownership)
    <2> SUFFICES ASSUME LeaseInvariant, [Next]_vars
                 PROVE  Owners!Next \/ UNCHANGED <<owner, holds, spent>>
      BY DEF Owners!ownership
    <2>0. LeaseStep /\ LeaseMatchesTask /\ Leased \subseteq Attempts
      BY EveryStep DEF LeaseInvariant, Leased
    <2>1. \A a \in Attempts : SameAttempt(a) =>
            /\ a \in Leased' <=> a \in Leased
            /\ att'[a].account = att[a].account
            /\ a \in spent' <=> a \in spent
      BY DEF SameAttempt, Leased, Active
    <2>2. \A t \in Tasks : SameOwner(t) => owner'[t] = owner[t]
      BY DEF SameOwner
    <2>3. CASE KeepsLeases
      <3>1. owner' = owner
        BY <2>2, <2>3 DEF KeepsLeases
      <3>2. holds' = holds /\ spent' = spent
        BY <2>1, <2>3, LeasedAfter, <2>0 DEF KeepsLeases
      <3> QED
        BY <3>1, <3>2
    <2>4. ASSUME NEW a \in Attempts, EndsLease(a)
          PROVE  Owners!Next
      <3>1. PICK t \in Tasks : t = att[a].task /\ owner[t] = a
        BY <2>0, <2>4 DEF EndsLease, LeaseMatchesTask
      <3>2. owner' = [owner EXCEPT ![t] = None]
        BY <2>2, <2>4, <3>1 DEF EndsLease
      <3>3. holds' = {h \in holds : h[1] # owner[t]}
        BY <2>0, <2>1, <2>4, <3>1, LeasedAfter DEF EndsLease
      <3>4. spent' = spent
        BY <2>1, <2>4 DEF EndsLease, Leased, Active, Results
      <3>5. owner[t] # None
        BY <3>1, NoneIsNoAttempt
      <3>6. Owners!Revoke(t)
        BY <3>2, <3>3, <3>4, <3>5 DEF Owners!Revoke
      <3> QED
        BY <3>6 DEF Owners!Next
    <2>5. ASSUME NEW t \in Tasks, NEW a \in Attempts, NEW c \in Accounts, GrantsLease(t, a, c)
          PROVE  Owners!Next
      <3>1. owner[t] = None /\ a \notin spent
        BY <2>5 DEF GrantsLease
      <3>2. \A h \in holds : h[2] # c
        BY <2>5 DEF GrantsLease, Free
      <3>3. owner' = [owner EXCEPT ![t] = a]
        BY <2>2, <2>5 DEF GrantsLease
      <3>4. holds' = holds \cup {<<a, c>>}
        BY <2>0, <2>1, <2>5, LeasedAfter DEF GrantsLease
      <3>5. spent' = spent \cup {a}
        BY <2>1, <2>5 DEF GrantsLease, Active
      <3>6. Owners!Grant(t, a, c)
        BY <3>1, <3>2, <3>3, <3>4, <3>5 DEF Owners!Grant
      <3> QED
        BY <3>6 DEF Owners!Next
    <2> QED
      BY <2>0, <2>3, <2>4, <2>5 DEF LeaseStep
  <1> QED
    BY LeaseInvariantHolds, <1>1, <1>2, PTL DEF Spec, ImplementsOwnership, Owners!Spec

-------------------------------------------------------------------------------
(* What a step may do to a row, whoever takes it *)

Settled == {"integrating", "ready_for_approval", "completed"}

RowMove(t) ==
  /\ task[t].state \in {"cancelled", "completed"} => task'[t].state = task[t].state
  /\ task'[t].state \in Settled => task[t].state \in Settled \/ ~task'[t].cancel_requested
  /\ task'[t].cancel_requested => task[t].cancel_requested \/ task'[t].state \notin Settled

LEMMA OneRowMoves ==
  ASSUME LeaseInvariant, NEW t \in Tasks, NEW row,
         task' = [task EXCEPT ![t] = row], NEW u \in Tasks,
         task[t].state \in {"cancelled", "completed"} => row.state = task[t].state,
         row.state \in Settled => task[t].state \in Settled \/ ~row.cancel_requested,
         row.cancel_requested => task[t].cancel_requested \/ row.state \notin Settled
  PROVE  RowMove(u)
  BY DEF RowMove, LeaseInvariant, TypeOK, TypeStore

\* Work is owned while its result is applied, so it is neither cancelled nor completed, and
\* it is staged or completed only when no stop was requested.
LEMMA EndingMoves ==
  ASSUME LeaseInvariant, NEW a \in Attempts, Collecting(a),
         NEW after, EndsWith(a, after), NEW u \in Tasks,
         after.cancel_requested = task[att[a].task].cancel_requested,
         after.state \in Settled => ~task[att[a].task].cancel_requested
  PROVE  RowMove(u)
  <1>1. PICK t \in Tasks : t = att[a].task
    BY CollectedResult
  <1>2. task[t].state \in Active
    BY <1>1, CollectedResult DEF LeaseInvariant, LeaseMatchesTask
  <1>3. task' = [task EXCEPT ![t] = after]
    BY <1>1 DEF EndsWith
  <1> QED
    BY <1>1, <1>2, <1>3, OneRowMoves DEF Active

LEMMA RequestMoves ==
  ASSUME LeaseInvariant, NEW t \in Tasks, NEW u \in Tasks,
         \/ AddGoal(t) \/ Answer(t) \/ Instruct(t) \/ Cancel(t) \/ Retry(t)
         \/ IntegrationSucceeds(t) \/ IntegrationFails(t) \/ CooldownEnds(t)
  PROVE  RowMove(u)
  <1>1. task \in [Tasks -> TaskRows] /\ task[t] \in TaskRows
    BY DEF LeaseInvariant, TypeOK, TypeStore
  <1>2. CASE u # t
    BY <1>1, <1>2
    DEF AddGoal, Answer, Instruct, Cancel, Retry, IntegrationSucceeds, IntegrationFails,
        CooldownEnds, RowMove
  <1>3. CASE u = t /\ AddGoal(t)
    BY <1>1, <1>3 DEF AddGoal, RowMove, TaskRows, Settled, NewTask, Absent
  <1>4. CASE u = t /\ Answer(t)
    BY <1>1, <1>4 DEF Answer, RowMove, TaskRows, Settled
  <1>5. CASE u = t /\ Instruct(t)
    BY <1>1, <1>5 DEF Instruct, RowMove, TaskRows, Settled, Open, Active
  <1>6. CASE u = t /\ Cancel(t)
    BY <1>1, <1>6 DEF Cancel, RowMove, TaskRows, Settled, Open, Active
  <1>7. CASE u = t /\ Retry(t)
    BY <1>1, <1>7 DEF Retry, RowMove, TaskRows, Settled, Stopped
  <1>8. CASE u = t /\ IntegrationSucceeds(t)
    BY <1>1, <1>8 DEF IntegrationSucceeds, RowMove, TaskRows, Settled
  <1>9. CASE u = t /\ IntegrationFails(t)
    BY <1>1, <1>9 DEF IntegrationFails, RowMove, TaskRows, Settled
  <1>10. CASE u = t /\ CooldownEnds(t)
    BY <1>1, <1>10 DEF CooldownEnds, RowMove, TaskRows, Settled
  <1> QED
    BY <1>2, <1>3, <1>4, <1>5, <1>6, <1>7, <1>8, <1>9, <1>10

LEMMA ManyRowMoves ==
  ASSUME LeaseInvariant, NEW u \in Tasks,
         \/ StopAll \/ NothingStartable \/ AtCapacity
         \/ \E p \in Projects, accept \in BOOLEAN : Decide(p, accept)
         \/ \E t \in Tasks, c \in Accounts : Claim(t, c)
  PROVE  RowMove(u)
  <1>1. task \in [Tasks -> TaskRows] /\ task[u] \in TaskRows
    BY DEF LeaseInvariant, TypeOK, TypeStore
  <1>2. CASE StopAll
    BY <1>1, <1>2 DEF StopAll, RowMove, TaskRows, Settled, Active
  <1>3. CASE NothingStartable
    BY <1>1, <1>3 DEF NothingStartable, Candidates, PassedOver, RowMove, TaskRows, Settled, Waiting
  <1>4. CASE AtCapacity
    BY <1>1, <1>4 DEF AtCapacity, RowMove, TaskRows, Settled
  <1>5. CASE \E p \in Projects, accept \in BOOLEAN : Decide(p, accept)
    BY <1>1, <1>5 DEF Decide, RowMove, TaskRows, Settled
  <1>6. ASSUME NEW t \in Tasks, NEW c \in Accounts, Claim(t, c)
        PROVE  RowMove(u)
    <2>1. CASE u = t
      <3>1. task[u].state \in Waiting /\ task'[u].state = "leased"
        <4>1. task'[u] = [task[u] EXCEPT !.state = "leased", !.token = task[u].token + 1,
                                         !.attempt_id = Fresh]
          BY <1>6, <2>1 DEF Claim
        <4>2. task'[u].state = "leased"
          BY <1>1, <4>1 DEF TaskRows
        <4> QED
          BY <1>6, <2>1, <4>2 DEF Claim, Candidates
      <3> QED
        BY <3>1 DEF RowMove, Settled, Waiting
    <2>2. CASE u # t
      <3>1. \/ task'[u] = task[u]
            \/ task[u].state \in Waiting /\ task'[u] = [task[u] EXCEPT !.state = PassedOver(u)]
        BY <1>6, <2>2 DEF Claim, Candidates
      <3>2. PassedOver(u) \in {"waiting_dependency", "blocked", "waiting_capacity"}
        BY DEF PassedOver
      <3> QED
        BY <1>1, <3>1, <3>2 DEF RowMove, Settled, Waiting, TaskRows
    <2> QED
      BY <2>1, <2>2
  <1> QED
    BY <1>2, <1>3, <1>4, <1>5, <1>6

LEMMA LeaseMoves ==
  ASSUME LeaseInvariant, NEW a \in Attempts, NEW u \in Tasks,
         InspectionDenied(a) \/ OrphanHeld(a) \/ Register(a) \/ Verify(a)
           \/ (Release /\ a = slot)
  PROVE  RowMove(u)
  <1>1. a \in Leased
    BY DEF InspectionDenied, OrphanHeld, Orphaned, Register, MayRegister, Verify, LeaseStands,
       Release, LeaseInvariant, ThreadHoldsLeases, Leased, Active
  <1>2. PICK t \in Tasks : t = att[a].task /\ task[t].state \in Active
    BY <1>1 DEF LeaseInvariant, LeaseMatchesTask
  <1>3. task \in [Tasks -> TaskRows] /\ task[t] \in TaskRows
    BY DEF LeaseInvariant, TypeOK, TypeStore
  <1>4. u # t => task'[u] = task[u]
    BY <1>2, <1>3 DEF InspectionDenied, OrphanHeld, Park, Register, Verify, Release
  <1>5. task'[t].state \in Active \cup {"cancelled", "cooldown", "interrupted"}
    <2>1. CASE InspectionDenied(a) \/ OrphanHeld(a) \/ Register(a) \/ Verify(a)
      BY <1>2, <1>3, <2>1
      DEF InspectionDenied, OrphanHeld, Park, Register, Verify, TaskRows, Active
    <2>2. CASE Release /\ a = slot
      BY <1>2, <1>3, <2>2 DEF Release, AfterRelease, TaskRows
    <2> QED
      BY <2>1, <2>2
  <1> QED
    BY <1>2, <1>4, <1>5 DEF RowMove, Settled, Active

LEMMA FinishMoves ==
  ASSUME LeaseInvariant, NEW a \in Attempts, Collecting(a), NEW u \in Tasks,
         \/ FinishUnconfirmed(a) \/ FinishCancelled(a) \/ FinishOutdated(a)
         \/ FinishClarify(a) \/ FinishReplan(a) \/ FinishBuild(a) \/ FinishReview(a)
         \/ FinishDirect(a) \/ FinishTrouble(a) \/ FinishRetry(a) \/ FinishRepair(a)
         \/ FinishBlocked(a)
  PROVE  RowMove(u)
  <1>1. task[att[a].task] \in TaskRows
    BY CollectedResult
  <1>2. CASE FinishUnconfirmed(a)
    <2>1. PICK after : after = [task[att[a].task] EXCEPT !.state = "interrupted"]
      OBVIOUS
    <2>2. after.cancel_requested = task[att[a].task].cancel_requested /\ after.state \notin Settled
      BY <1>1, <2>1 DEF TaskRows, Settled
    <2>3. EndsWith(a, after)
      BY <1>2, <2>1 DEF FinishUnconfirmed
    <2> QED
      BY <2>2, <2>3, EndingMoves
  <1>3. CASE FinishCancelled(a)
    <2>1. PICK after : after = [task[att[a].task] EXCEPT !.state = "cancelled"]
      OBVIOUS
    <2>2. after.cancel_requested = task[att[a].task].cancel_requested /\ after.state \notin Settled
      BY <1>1, <2>1 DEF TaskRows, Settled
    <2>3. EndsWith(a, after)
      BY <1>3, <2>1 DEF FinishCancelled
    <2> QED
      BY <2>2, <2>3, EndingMoves
  <1>4. CASE FinishOutdated(a)
    <2>1. PICK after : after = [task[att[a].task] EXCEPT !.state = "ready",
          !.phase = IF att[a].phase = "plan" THEN "plan" ELSE Rework(att[a].task)]
      OBVIOUS
    <2>2. /\ after.cancel_requested = task[att[a].task].cancel_requested
          /\ after.state \in Settled => ~task[att[a].task].cancel_requested
      BY <1>1, <1>4, <2>1 DEF FinishOutdated, Succeeded, Uncancelled, TaskRows, Settled
    <2>3. EndsWith(a, after)
      BY <1>4, <2>1 DEF FinishOutdated
    <2> QED
      BY <2>2, <2>3, EndingMoves
  <1>5. CASE FinishClarify(a)
    <2>1. PICK after : after = [task[att[a].task] EXCEPT !.state = "awaiting_input"]
      OBVIOUS
    <2>2. /\ after.cancel_requested = task[att[a].task].cancel_requested
          /\ after.state \in Settled => ~task[att[a].task].cancel_requested
      BY <1>1, <1>5, <2>1 DEF FinishClarify, Succeeded, Uncancelled, TaskRows, Settled
    <2>3. EndsWith(a, after)
      BY <1>5, <2>1 DEF FinishClarify
    <2> QED
      BY <2>2, <2>3, EndingMoves
  <1>6. CASE FinishReplan(a)
    <2>1. PICK after : after = [task[att[a].task] EXCEPT !.state = "ready", !.phase = "build"]
      OBVIOUS
    <2>2. /\ after.cancel_requested = task[att[a].task].cancel_requested
          /\ after.state \in Settled => ~task[att[a].task].cancel_requested
      BY <1>1, <1>6, <2>1 DEF FinishReplan, Passed, Succeeded, Uncancelled, TaskRows, Settled
    <2>3. EndsWith(a, after)
      BY <1>6, <2>1 DEF FinishReplan
    <2> QED
      BY <2>2, <2>3, EndingMoves
  <1>7. CASE FinishBuild(a)
    <2>1. PICK after : after = [task[att[a].task] EXCEPT
          !.state = IF att[a].task \in Reviewed THEN "ready" ELSE "integrating",
          !.phase = IF att[a].task \in Reviewed THEN "review" ELSE "build",
          !.build_attempt = a]
      OBVIOUS
    <2>2. /\ after.cancel_requested = task[att[a].task].cancel_requested
          /\ after.state \in Settled => ~task[att[a].task].cancel_requested
      BY <1>1, <1>7, <2>1 DEF FinishBuild, Passed, Succeeded, Uncancelled, TaskRows, Settled
    <2>3. EndsWith(a, after)
      BY <1>7, <2>1 DEF FinishBuild
    <2> QED
      BY <2>2, <2>3, EndingMoves
  <1>8. CASE FinishReview(a)
    <2>1. PICK after : after = [task[att[a].task] EXCEPT
          !.state = IF att[a].task \in Directed THEN "ready" ELSE "integrating",
          !.phase = IF att[a].task \in Directed THEN "direct" ELSE "review",
          !.review_attempt = a]
      OBVIOUS
    <2>2. /\ after.cancel_requested = task[att[a].task].cancel_requested
          /\ after.state \in Settled => ~task[att[a].task].cancel_requested
      BY <1>1, <1>8, <2>1 DEF FinishReview, Passed, Succeeded, Uncancelled, TaskRows, Settled
    <2>3. EndsWith(a, after)
      BY <1>8, <2>1 DEF FinishReview
    <2> QED
      BY <2>2, <2>3, EndingMoves
  <1>9. CASE FinishDirect(a)
    <2>1. PICK after : after = [task[att[a].task] EXCEPT !.state = "integrating",
          !.director_review_attempt = a]
      OBVIOUS
    <2>2. /\ after.cancel_requested = task[att[a].task].cancel_requested
          /\ after.state \in Settled => ~task[att[a].task].cancel_requested
      BY <1>1, <1>9, <2>1 DEF FinishDirect, Passed, Succeeded, Uncancelled, TaskRows, Settled
    <2>3. EndsWith(a, after)
      BY <1>9, <2>1 DEF FinishDirect
    <2> QED
      BY <2>2, <2>3, EndingMoves
  <1>10. CASE FinishTrouble(a)
    <2>1. PICK after : after = [task[att[a].task] EXCEPT !.state = outcome[a]]
      OBVIOUS
    <2>2. /\ after.cancel_requested = task[att[a].task].cancel_requested
          /\ after.state \in Settled => ~task[att[a].task].cancel_requested
      BY <1>1, <1>10, <2>1 DEF FinishTrouble, Uncancelled, TaskRows, Settled
    <2>3. EndsWith(a, after)
      BY <1>10, <2>1 DEF FinishTrouble
    <2> QED
      BY <2>2, <2>3, EndingMoves
  <1>11. CASE FinishRetry(a)
    <2>1. PICK after : after = [task[att[a].task] EXCEPT !.state = "cooldown",
          !.cooling = TRUE, !.retries = @ + 1]
      OBVIOUS
    <2>2. /\ after.cancel_requested = task[att[a].task].cancel_requested
          /\ after.state \in Settled => ~task[att[a].task].cancel_requested
      BY <1>1, <1>11, <2>1 DEF FinishRetry, Uncancelled, TaskRows, Settled
    <2>3. EndsWith(a, after)
      BY <1>11, <2>1 DEF FinishRetry
    <2> QED
      BY <2>2, <2>3, EndingMoves
  <1>12. CASE FinishRepair(a)
    <2>1. PICK after : after = [task[att[a].task] EXCEPT !.state = "repair_queued", !.repairs = @ + 1,
          !.phase = IF att[a].phase = "plan" THEN "plan" ELSE Rework(att[a].task)]
      OBVIOUS
    <2>2. /\ after.cancel_requested = task[att[a].task].cancel_requested
          /\ after.state \in Settled => ~task[att[a].task].cancel_requested
      BY <1>1, <1>12, <2>1 DEF FinishRepair, Uncancelled, TaskRows, Settled
    <2>3. EndsWith(a, after)
      BY <1>12, <2>1 DEF FinishRepair
    <2> QED
      BY <2>2, <2>3, EndingMoves
  <1>13. CASE FinishBlocked(a)
    <2>1. PICK after : after = [task[att[a].task] EXCEPT !.state = "blocked"]
      OBVIOUS
    <2>2. /\ after.cancel_requested = task[att[a].task].cancel_requested
          /\ after.state \in Settled => ~task[att[a].task].cancel_requested
      BY <1>1, <1>13, <2>1 DEF FinishBlocked, Uncancelled, TaskRows, Settled
    <2>3. EndsWith(a, after)
      BY <1>13, <2>1 DEF FinishBlocked
    <2> QED
      BY <2>2, <2>3, EndingMoves
  <1> QED
    BY <1>2, <1>3, <1>4, <1>5, <1>6, <1>7, <1>8, <1>9, <1>10, <1>11, <1>12, <1>13

LEMMA PlanMoves ==
  ASSUME LeaseInvariant, NEW a \in Attempts, NEW u \in Tasks,
         NEW plan \in UNION {Plans[t] : t \in Tasks}, FinishPlan(a, plan)
  PROVE  RowMove(u)
  <1>1. Collecting(a) /\ ~task[att[a].task].cancel_requested
    BY DEF FinishPlan, Passed, Succeeded, Uncancelled
  <1>2. PICK t \in Tasks : t = att[a].task /\ task[t] \in TaskRows /\ task[t].state \in Active
    BY <1>1, CollectedResult DEF LeaseInvariant, LeaseMatchesTask
  <1>3. CASE u = t
    <2>1. task'[u] = [task[t] EXCEPT !.state = "completed"]
      BY <1>2, <1>3 DEF FinishPlan
    <2> QED
      BY <1>1, <1>2, <1>3, <2>1 DEF RowMove, Settled, Active, TaskRows
  <1>4. CASE u # t
    <2>1. \/ task'[u] = task[u]
          \/ task[u].state = "absent" /\ task'[u] = NewTask("build")
      BY <1>2, <1>4 DEF FinishPlan
    <2> QED
      BY <2>1 DEF RowMove, Settled, NewTask
  <1> QED
    BY <1>3, <1>4

LEMMA EveryMove ==
  ASSUME LeaseInvariant, [Next]_vars, NEW u \in Tasks
  PROVE  RowMove(u)
  <1>0. UNCHANGED task => RowMove(u)
    BY DEF RowMove
  <1>1. CASE UNCHANGED vars
    BY <1>0, <1>1 DEF vars
  <1>2. CASE Scheduler
    <2>1. CASE \E a \in Attempts : Inspect(a)
      <3>1. PICK a \in Attempts : Inspect(a)
        BY <2>1
      <3>2. CASE Finish(a)
        <4>1. Collecting(a)
          BY <3>2
          DEF Finish, FinishUnconfirmed, FinishCancelled, FinishOutdated, FinishClarify,
              FinishPlan, FinishReplan, FinishBuild, FinishReview, FinishDirect, FinishTrouble,
              FinishRetry, FinishRepair, FinishBlocked, Passed, Succeeded, Uncancelled
        <4> QED
          BY <3>2, <4>1, FinishMoves, PlanMoves DEF Finish
      <3>3. CASE LeftAlone(a) \/ OrphanFound(a)
        BY <1>0, <3>3 DEF LeftAlone, OrphanFound, store
      <3> QED
        BY <3>1, <3>2, <3>3, LeaseMoves DEF Inspect
    <2>2. CASE ControllerRestarts \/ TickBegins \/ Spawn \/ DispatchBegins \/ DispatchPaused
      BY <1>0, <2>2
      DEF ControllerRestarts, TickBegins, Spawn, DispatchBegins, DispatchPaused, store
    <2>3. CASE Release
      <3>1. slot \in Attempts
        BY <2>3 DEF Release, LeaseInvariant, TypeOK, TypeThread
      <3> QED
        BY <2>3, <3>1, LeaseMoves
    <2> QED
      BY <1>2, <2>1, <2>2, <2>3, ManyRowMoves DEF Scheduler
  <1>3. CASE Owner
    <2>1. CASE \/ PauseDispatch \/ ResumeDispatch \/ \E n \in 1..MaxSlots : SetCapacity(n)
               \/ \E on \in BOOLEAN : \/ \E p \in Projects : SetProject(p, on)
                                      \/ \E c \in Accounts : SetAccount(c, on)
      BY <1>0, <2>1 DEF PauseDispatch, ResumeDispatch, SetCapacity, SetProject, SetAccount, store
    <2> QED
      BY <1>3, <2>1, RequestMoves, ManyRowMoves DEF Owner
  <1>4. CASE Staging \/ Clock
    <2>1. CASE \E c \in Accounts : AccountRests(c)
      BY <1>0, <2>1 DEF AccountRests, store
    <2> QED
      BY <1>4, <2>1, RequestMoves, ManyRowMoves DEF Staging, Clock
  <1>5. CASE ControllerCrash \/ \E t \in Tasks : Signal(t)
    BY <1>0, <1>5 DEF ControllerCrash, Signal, store
  <1>6. CASE \E a \in Attempts : Guardian(a) \/ ChildExits(a) \/ GuardianKilled(a)
    <2>1. PICK a \in Attempts : Guardian(a) \/ ChildExits(a) \/ GuardianKilled(a)
      BY <1>6
    <2>2. CASE Register(a) \/ Verify(a)
      BY <2>2, LeaseMoves
    <2> QED
      BY <1>0, <2>1, <2>2
      DEF Guardian, RegistrationRefused, RegistrationDenied, Launch, RecordChild, Report,
          GuardianExits, ChildExits, GuardianKilled, store
  <1> QED
    BY <1>1, <1>2, <1>3, <1>4, <1>5, <1>6 DEF Next

\* A stop, once requested, keeps work from being staged: finish() looks at the request in the
\* transaction that would stage it, and cancel and stop-all never touch staged work.
THEOREM StoppedWorkIsNeverStaged == Spec => []CancelledNeverStaged
  <1>1. Init => CancelledNeverStaged
    BY DEF Init, Absent, NewTask, CancelledNeverStaged
  <1>2. LeaseInvariant /\ CancelledNeverStaged /\ [Next]_vars => CancelledNeverStaged'
    BY EveryMove DEF CancelledNeverStaged, RowMove, Settled
  <1> QED
    BY LeaseInvariantHolds, <1>1, <1>2, PTL DEF Spec

\* No result, recovery, request or decision moves a cancelled or completed task.
THEOREM FinalStatesAreFinal == Spec => CancelledAndCompletedAreFinal
  <1>1. LeaseInvariant /\ [Next]_vars =>
          [\A t \in Tasks : task[t].state \in {"cancelled", "completed"} =>
             task'[t].state = task[t].state]_vars
    BY EveryMove DEF RowMove
  <1> QED
    BY LeaseInvariantHolds, <1>1, PTL DEF Spec, CancelledAndCompletedAreFinal

\* Ended attempts and tasks stay ended, whatever arrives late.
THEOREM WhatEndedStaysEnded == Spec => EndsAreFinal
  BY EndedAttemptsNeverRevive, FinalStatesAreFinal DEF EndsAreFinal


-------------------------------------------------------------------------------
(* The kinds of step *)

SameWork(a) ==
  /\ att'[a].task = att[a].task /\ att'[a].token = att[a].token
  /\ att'[a].account = att[a].account /\ att'[a].phase = att[a].phase
  /\ att'[a].base = att[a].base /\ att'[a].instruction_count = att[a].instruction_count

SameLease(a) == att'[a] = att[a] \/ (SameWork(a) /\ {att[a].state, att'[a].state} \subseteq Active)

SameBuilds(u) ==
  /\ task'[u].build_attempt = task[u].build_attempt
  /\ task'[u].review_attempt = task[u].review_attempt
  /\ task'[u].director_review_attempt = task[u].director_review_attempt

Charges(row) == row.repairs + row.retries + row.recoveries
AtRest == Stopped \cup {"cancelled"}
Judged == {"review", "direct"}       \* phases that judge a candidate
Staged == {"integrating", "ready_for_approval"}

Created(u) ==
  task[u].state = "absent" /\ (task'[u] = NewTask("build") \/ task'[u] = NewTask("plan"))

\* Owned work goes on: it may be asked to stop, and hear of one more instruction.
GoesOn(u) ==
  /\ task[u].state \in Active /\ task'[u].state \in Active
  /\ SameBuilds(u) /\ task'[u].phase = task[u].phase
  /\ task'[u].token = task[u].token /\ task'[u].attempt_id = task[u].attempt_id
  /\ task'[u].instructions_pending >= task[u].instructions_pending
  /\ Charges(task'[u]) = Charges(task[u])
  /\ task[u].cancel_requested => task'[u].cancel_requested

\* Work nobody owns is passed over, sent back, stopped, asked for again or decided on.
Moves(u) ==
  /\ task[u].state \notin Active \cup {"absent"} /\ task'[u].state \notin Active \cup {"absent"}
  /\ task[u].state = "cancelled" => task'[u].state = "cancelled"
  /\ SameBuilds(u) /\ task'[u].token = task[u].token
  /\ task'[u].phase \in {task[u].phase, Rework(u)}
  /\ task'[u].state \in Staged =>
       task[u].state \in Staged /\ task'[u].phase = task[u].phase
  /\ task'[u].state = "completed" =>
       /\ task[u].state \in {"ready_for_approval", "completed"}
       /\ task'[u].phase = task[u].phase
  /\ task'[u].state = "awaiting_input" =>
       task[u].state = "awaiting_input" /\ task'[u].phase = task[u].phase
  /\ \/ task'[u].instructions_pending = task[u].instructions_pending
     \/ /\ task'[u].instructions_pending > task[u].instructions_pending
        /\ u \in Directed => /\ task'[u].state \notin Staged
                             /\ task'[u].phase \notin Judged \/ task[u].state = "awaiting_input"
  /\ Charges(task'[u]) >= Charges(task[u])
  /\ \/ task[u].state \in AtRest => task'[u].state \in AtRest
     \/ Charges(task'[u]) > Charges(task[u])
     \/ u \in Directed
  /\ task[u].state = "blocked" =>
       \/ task[u].repairs < MaxRepairs
       \/ task'[u].phase \notin Judged
       \/ task'[u].state = "cancelled"
       \/ task'[u].state = "blocked" /\ task'[u].repairs = task[u].repairs

Idles(u) == task'[u] = task[u] \/ Created(u) \/ GoesOn(u) \/ Moves(u)

\* New work may depend on existing work, on work created with it, and on what its plan's own
\* request depended on.
Depends ==
  \A u \in Tasks : \/ deps'[u] = deps[u]
                   \/ /\ Created(u)
                      /\ \A d \in deps'[u] :
                           \/ Created(d) /\ task'[d] = NewTask("build")
                           \/ task[d].state # "absent" /\ task[d].phase # "plan"
                           \/ \E t \in Tasks : d \in deps[t]

Rests ==
  /\ \A a \in Attempts : SameLease(a)
  /\ \A u \in Tasks : Idles(u)
  /\ \A u, v \in Tasks : Created(u) /\ Created(v) => u = v

\* The task comes away from the attempt without a new candidate or verdict.
Redone(a) ==
  LET t == att[a].task IN
  /\ SameBuilds(t) /\ task'[t].token >= task[t].token
  /\ task'[t].instructions_pending = task[t].instructions_pending
  /\ task'[t].state \notin Active \cup Settled \cup {"absent"}
  /\ \/ task'[t].phase \in {task[t].phase, "replan", "build"}
     \/ task'[t].phase = "plan" /\ att[a].phase = "plan"
  /\ task'[t].state = "awaiting_input" =>
       outcome[a] = "clarify" /\ task'[t].phase = task[t].phase
  /\ IF att'[a].state = "passed"
     THEN /\ task'[t].state = "cancelled" \/ task'[t].phase \notin Judged \/ ~Outdated(a)
          /\ Charges(task'[t]) = Charges(task[t])
     ELSE /\ Charges(task'[t]) >= Charges(task[t])
          /\ task'[t].state \in AtRest \/ Charges(task'[t]) > Charges(task[t])

PassedAs(a, phase) == att'[a].state = "passed" /\ att[a].phase = phase /\ ~Outdated(a)

PlanMade(a) ==
  /\ PassedAs(a, "plan")
  /\ task'[att[a].task] = [task[att[a].task] EXCEPT !.state = "completed"]

BuildMade(a) ==
  LET t == att[a].task
      review == t \in Reviewed IN
  /\ PassedAs(a, "build")
  /\ task'[t] = [task[t] EXCEPT !.state = IF review THEN "ready" ELSE "integrating",
                                !.phase = IF review THEN "review" ELSE "build",
                                !.build_attempt = a]

ReviewMade(a) ==
  LET t == att[a].task
      direct == t \in Directed IN
  /\ PassedAs(a, "review")
  /\ task'[t] = [task[t] EXCEPT !.state = IF direct THEN "ready" ELSE "integrating",
                                !.phase = IF direct THEN "direct" ELSE "review",
                                !.review_attempt = a]

DirectionMade(a) ==
  /\ PassedAs(a, "direct")
  /\ task'[att[a].task] = [task[att[a].task] EXCEPT !.state = "integrating",
                                                    !.director_review_attempt = a]

EndsWork(a) ==
  /\ a \in Leased /\ SameWork(a) /\ att'[a].state \in Results \cup {"interrupted"}
  /\ \A b \in Attempts \ {a} : att'[b] = att[b]
  /\ \A u \in Tasks \ {att[a].task} : task'[u] = task[u] \/ Created(u)
  /\ IsFiniteSet({u \in Tasks : Created(u)})
  /\ Redone(a) \/ PlanMade(a) \/ BuildMade(a) \/ ReviewMade(a) \/ DirectionMade(a)

Lease(t, c) ==
  [state |-> "leased", task |-> t, account |-> c, token |-> task[t].token + 1,
   phase |-> task[t].phase,
   base |-> IF task[t].phase \in Judged THEN task[t].build_attempt ELSE None,
   instruction_count |-> task[t].instructions_pending, identity |-> FALSE]

GrantsWork(t, a, c) ==
  /\ ~paused /\ Cardinality(Leased) < limit
  /\ t \in Candidates /\ Startable(t) /\ c \in Eligible(t)
  /\ att[a] = UnusedAttempt /\ att' = [att EXCEPT ![a] = Lease(t, c)]
  /\ task'[t] = [task[t] EXCEPT !.state = "leased", !.token = task[t].token + 1,
                                !.attempt_id = a]
  /\ \A u \in Tasks \ {t} : task'[u] = task[u] \/ Moves(u)
  /\ UNCHANGED deps

WorkStep ==
  /\ Depends
  /\ \/ Rests
     \/ \E a \in Attempts : EndsWork(a)
     \/ \E t \in Tasks, a \in Attempts, c \in Accounts : GrantsWork(t, a, c)

-------------------------------------------------------------------------------
(* The inductive invariant *)

\* A row that is not there says nothing.
AbsentTasksAreBlank == \A t \in Tasks : task[t].state = "absent" => task[t] = Absent

\* An attempt is unused, row and files, or it was claimed for a task that exists.
AttemptsAreClaimed ==
  \A a \in Attempts :
    IF att[a].state = "unused" THEN att[a] = UnusedAttempt
    ELSE att[a].task \in Tasks /\ task[att[a].task].state # "absent"

\* What a lease was granted for is still what its task asks for.
LeasesCarryWork ==
  \A a \in Leased :
    LET t == att[a].task IN
    /\ att[a].phase = task[t].phase
    /\ att[a].phase \in Judged => att[a].base = task[t].build_attempt
    /\ att[a].phase = "review" => att[a].account # Author(t)
    /\ att[a].instruction_count <= task[t].instructions_pending

\* Tokens order the attempts of a task, and the one that is leased is the last.
TokensGrow ==
  /\ \A a \in Attempts : att[a].task \in Tasks => att[a].token <= task[att[a].task].token
  /\ \A a \in Leased : \A b \in Attempts \ {a} :
       att[b].task = att[a].task => att[b].token < att[a].token

Approved(t) ==
  /\ PassedAttempt(task[t].review_attempt, t, "review")
  /\ att[task[t].review_attempt].base = task[t].build_attempt
  /\ att[task[t].review_attempt].account # Author(t)

\* A task is in a phase that judges a candidate only with a candidate to judge.
PhasesAreEarned ==
  \A t \in Tasks :
    /\ task[t].build_attempt # None => PassedAttempt(task[t].build_attempt, t, "build")
    /\ task[t].phase \in Judged => t \in Reviewed /\ task[t].build_attempt # None
    /\ task[t].phase = "direct" => t \in Directed /\ Approved(t)
    /\ task[t].state = "awaiting_input" => task[t].phase \notin Judged

\* Nothing waits for a request that is still to be planned, and what is completed was vetted
\* once, unless it was a plan.
DependenciesExist ==
  /\ \A t \in Tasks : \A d \in deps[t] : task[d].state # "absent" /\ task[d].phase # "plan"
  /\ \A t \in Tasks : task[t].state = "completed" /\ task[t].phase # "plan" => OnceVetted(t)

\* Nobody has worked for an attempt that was never claimed, and only an agent that plans asks
\* the owner back.
PlannersAsk ==
  /\ pc = "spawn" => att[slot].state # "unused"
  /\ \A a \in Attempts :
       /\ att[a].state = "unused" => guard[a] = "none" /\ outcome[a] = "none"
       /\ outcome[a] = "clarify" => att[a].phase \in {"plan", "replan"}

WorkInvariant ==
  /\ LeaseInvariant /\ AbsentTasksAreBlank /\ AttemptsAreClaimed /\ LeasesCarryWork
  /\ TokensGrow /\ PhasesAreEarned /\ PlannersAsk

\* A director's work that is judged or staged knows every instruction sent to it, but for those
\* the attempt at work, or one that came to nothing, did not know of.
InstructionsKnown ==
  \A t \in Directed \cap Tasks :
    task[t].state \in Staged \/ (task[t].phase \in Judged /\ task[t].state # "cancelled") =>
      \/ task[t].instructions_pending <= att[task[t].build_attempt].instruction_count
      \/ Repeated(t)
      \/ /\ task[t].state \in Active
         /\ att[task[t].attempt_id].instruction_count < task[t].instructions_pending

FailuresAreFinite == \A t \in Tasks : IsFiniteSet(Failures(t))

-------------------------------------------------------------------------------
(* Every step is a work step *)

LEMMA Rows ==
  ASSUME LeaseInvariant
  PROVE  /\ task \in [Tasks -> TaskRows] /\ deps \in [Tasks -> SUBSET Tasks]
         /\ att \in [Attempts -> AttemptRows]
         /\ \A t \in Tasks : task[t] \in TaskRows
         /\ \A a \in Attempts : att[a] \in AttemptRows
  BY DEF LeaseInvariant, TypeOK, TypeStore

LEMMA RowsThen ==
  ASSUME LeaseInvariant'
  PROVE  /\ \A t \in Tasks : task'[t] \in TaskRows
         /\ \A a \in Attempts : att'[a] \in AttemptRows
  BY DEF LeaseInvariant, TypeOK, TypeStore

LEMMA NewTaskFields ==
  ASSUME NEW phase
  PROVE  LET row == NewTask(phase) IN
         /\ row.state = "ready" /\ row.phase = phase /\ row.token = 0
         /\ ~row.cancel_requested /\ row.instructions_pending = 0
         /\ row.repairs = 0 /\ row.retries = 0 /\ row.recoveries = 0
         /\ row.build_attempt = None /\ row.review_attempt = None
         /\ row.director_review_attempt = None
  BY DEF NewTask

LEMMA UntouchedStore ==
  ASSUME UNCHANGED <<task, deps, att>>
  PROVE  WorkStep
  <1>1. \A u \in Tasks : ~Created(u)
    BY NewTaskFields DEF Created
  <1> QED
    BY <1>1 DEF WorkStep, Depends, Rests, SameLease, Idles

LEMMA NotCreated ==
  ASSUME NEW u \in Tasks, task'[u] = task[u] \/ GoesOn(u) \/ Moves(u)
  PROVE  ~Created(u)
  BY NewTaskFields DEF Created, GoesOn, Moves, Active

\* A step that rewrites one row rests, whatever it does to it among the moves.
LEMMA OneRowRests ==
  ASSUME LeaseInvariant, NEW t \in Tasks, NEW row, task' = [task EXCEPT ![t] = row],
         UNCHANGED deps, \A a \in Attempts : SameLease(a), GoesOn(t) \/ Moves(t)
  PROVE  WorkStep
  <1>1. \A u \in Tasks \ {t} : task'[u] = task[u]
    BY Rows
  <1>2. \A u \in Tasks : ~Created(u)
    BY <1>1, NotCreated
  <1> QED
    BY <1>1, <1>2 DEF WorkStep, Depends, Rests, Idles

LEMMA RequestWork ==
  ASSUME LeaseInvariant, AbsentTasksAreBlank, NEW t \in Tasks,
         \/ AddGoal(t) \/ Answer(t) \/ Instruct(t) \/ Cancel(t) \/ Retry(t)
         \/ IntegrationSucceeds(t) \/ IntegrationFails(t) \/ CooldownEnds(t)
  PROVE  WorkStep
  <1>1. task \in [Tasks -> TaskRows] /\ task[t] \in TaskRows
    BY Rows
  <1>2. Charges(task[t]) \in Nat /\ task[t].instructions_pending \in Nat
    BY <1>1 DEF TaskRows, Charges
  <1>3. \A a \in Attempts : SameLease(a)
    BY DEF AddGoal, Answer, Instruct, Cancel, Retry, IntegrationSucceeds, IntegrationFails,
           CooldownEnds, SameLease
  <1>4. CASE AddGoal(t)
    <2>1. \A u \in Tasks \ {t} : task'[u] = task[u] /\ deps'[u] = deps[u] /\ ~Created(u)
      BY <1>1, <1>4, Rows, NewTaskFields DEF AddGoal, Created
    <2>2. Created(t) /\ deps'[t] = Goals[t]
      BY <1>1, <1>4, Rows DEF AddGoal, Created
    <2>3. Goals[t] \subseteq Tasks
      BY <1>4, GoalsAreTasks DEF AddGoal
    <2>4. Depends
      BY <1>4, <2>1, <2>2, <2>3 DEF Depends, AddGoal
    <2> QED
      BY <1>3, <2>1, <2>2, <2>4 DEF WorkStep, Rests, Idles
  <1>5. CASE Answer(t)
    <2>1. PICK row : row = [task[t] EXCEPT !.state = "ready",
                                           !.instructions_pending = @ + 1,
                                           !.clarifications = @ + 1]
      OBVIOUS
    <2>2. task' = [task EXCEPT ![t] = row] /\ task'[t] = row
      BY <1>1, <1>5, <2>1 DEF Answer
    <2>3. Moves(t)
      BY <1>1, <1>2, <1>5, <2>1, <2>2
      DEF Answer, Moves, SameBuilds, Charges, TaskRows, Active, Staged, AtRest, Stopped
    <2> QED
      BY <1>3, <1>5, <2>2, <2>3, OneRowRests DEF Answer
  <1>6. CASE Instruct(t)
    <2>1. PICK redirect : redirect = (t \in Directed /\ task[t].state \notin Active)
      OBVIOUS
    <2>2. PICK row : row = [task[t] EXCEPT
                              !.instructions_pending = @ + 1,
                              !.state = IF redirect THEN "ready" ELSE @,
                              !.phase = IF redirect /\ @ # "plan" THEN "replan" ELSE @]
      OBVIOUS
    <2>3. task' = [task EXCEPT ![t] = row] /\ task'[t] = row
      BY <1>1, <1>6, <2>1, <2>2 DEF Instruct
    <2>4. ASSUME task[t].state \in Active PROVE GoesOn(t)
      <3>1. ~redirect
        BY <2>1, <2>4
      <3>2. row = [task[t] EXCEPT !.instructions_pending = task[t].instructions_pending + 1,
                                  !.state = task[t].state, !.phase = task[t].phase]
        BY <2>2, <3>1
      <3> QED
        BY <1>1, <1>2, <2>3, <2>4, <3>2 DEF GoesOn, SameBuilds, Charges, TaskRows
    <2>5. ASSUME task[t].state \notin Active PROVE Moves(t)
      BY <1>1, <1>2, <1>6, <2>1, <2>2, <2>3, <2>5
      DEF Instruct, Open, Moves, Rework, SameBuilds, Charges, TaskRows, Active, Staged, Judged,
          AtRest, Stopped
    <2> QED
      BY <1>3, <1>6, <2>3, <2>4, <2>5, OneRowRests DEF Instruct
  <1>7. CASE Cancel(t)
    <2>1. PICK row : row = [task[t] EXCEPT
                              !.cancel_requested = TRUE,
                              !.state = IF @ \in Active THEN @ ELSE "cancelled"]
      OBVIOUS
    <2>2. task' = [task EXCEPT ![t] = row] /\ task'[t] = row
      BY <1>1, <1>7, <2>1 DEF Cancel
    <2>3. ASSUME task[t].state \in Active PROVE GoesOn(t)
      BY <1>1, <1>2, <2>1, <2>2, <2>3 DEF GoesOn, SameBuilds, Charges, TaskRows
    <2>4. ASSUME task[t].state \notin Active PROVE Moves(t)
      BY <1>1, <1>2, <1>7, <2>1, <2>2, <2>4
      DEF Cancel, Open, Moves, SameBuilds, Charges, TaskRows, Active, Staged, AtRest
    <2> QED
      BY <1>3, <1>7, <2>2, <2>3, <2>4, OneRowRests DEF Cancel
  <1>8. CASE Retry(t)
    <2>1. PICK row : row = [task[t] EXCEPT !.state = "ready", !.repairs = @ + 1,
                                           !.cancel_requested = FALSE]
      OBVIOUS
    <2>2. task' = [task EXCEPT ![t] = row] /\ task'[t] = row
      BY <1>1, <1>8, <2>1 DEF Retry
    <2>3. Moves(t)
      BY <1>1, <1>2, <1>8, <2>1, <2>2
      DEF Retry, Moves, SameBuilds, Charges, TaskRows, Active, Staged, Stopped
    <2> QED
      BY <1>3, <1>8, <2>2, <2>3, OneRowRests DEF Retry
  <1>9. CASE IntegrationSucceeds(t)
    <2>1. PICK row : row = [task[t] EXCEPT !.state = "ready_for_approval"]
      OBVIOUS
    <2>2. task' = [task EXCEPT ![t] = row] /\ task'[t] = row
      BY <1>1, <1>9, <2>1 DEF IntegrationSucceeds
    <2>3. Moves(t)
      BY <1>1, <1>2, <1>9, <2>1, <2>2
      DEF IntegrationSucceeds, Moves, SameBuilds, Charges, TaskRows, Active, Staged, AtRest,
          Stopped
    <2> QED
      BY <1>3, <1>9, <2>2, <2>3, OneRowRests DEF IntegrationSucceeds
  <1>10. CASE IntegrationFails(t)
    <2>1. PICK row : row = [task[t] EXCEPT !.state = "blocked", !.phase = Rework(t)]
      OBVIOUS
    <2>2. task' = [task EXCEPT ![t] = row] /\ task'[t] = row
      BY <1>1, <1>10, <2>1 DEF IntegrationFails
    <2>3. Moves(t)
      BY <1>1, <1>2, <1>10, <2>1, <2>2
      DEF IntegrationFails, Moves, SameBuilds, Charges, TaskRows, Active, Staged, AtRest,
          Stopped
    <2> QED
      BY <1>3, <1>10, <2>2, <2>3, OneRowRests DEF IntegrationFails
  <1>11. CASE CooldownEnds(t)
    <2>1. PICK row : row = [task[t] EXCEPT !.cooling = FALSE]
      OBVIOUS
    <2>2. task' = [task EXCEPT ![t] = row] /\ task'[t] = row
      BY <1>1, <1>11, <2>1 DEF CooldownEnds
    <2>3. task[t].state # "absent"
      BY <1>11 DEF CooldownEnds, AbsentTasksAreBlank, Absent, NewTask
    <2>4. ASSUME task[t].state \in Active PROVE GoesOn(t)
      BY <1>1, <1>2, <2>1, <2>2, <2>4 DEF GoesOn, SameBuilds, Charges, TaskRows
    <2>5. ASSUME task[t].state \notin Active PROVE Moves(t)
      BY <1>1, <1>2, <2>1, <2>2, <2>3, <2>5
      DEF Moves, SameBuilds, Charges, TaskRows, Staged
    <2> QED
      BY <1>3, <1>11, <2>2, <2>4, <2>5, OneRowRests DEF CooldownEnds
  <1> QED
    BY <1>4, <1>5, <1>6, <1>7, <1>8, <1>9, <1>10, <1>11

\* What claim() does to the tasks it looks at without leasing one.
LEMMA PassingOverMoves ==
  ASSUME LeaseInvariant, NEW u \in Tasks, task[u].state \in Waiting,
         NEW s \in {"waiting_dependency", "waiting_capacity", "blocked"},
         task'[u] = [task[u] EXCEPT !.state = s]
  PROVE  Moves(u)
  <1>1. task[u] \in TaskRows
    BY Rows
  <1>2. Charges(task[u]) \in Nat
    BY <1>1 DEF TaskRows, Charges
  <1> QED
    BY <1>1, <1>2
    DEF Moves, SameBuilds, Charges, TaskRows, Active, Waiting, Staged, AtRest, Stopped

LEMMA ManyRowWork ==
  ASSUME LeaseInvariant,
         \/ StopAll \/ NothingStartable \/ AtCapacity
         \/ \E p \in Projects, accept \in BOOLEAN : Decide(p, accept)
  PROVE  WorkStep
  <1>1. UNCHANGED <<deps, att>>
    BY DEF StopAll, NothingStartable, AtCapacity, Decide
  <1>2. ASSUME NEW u \in Tasks
        PROVE  task'[u] = task[u] \/ GoesOn(u) \/ Moves(u)
    <2>1. task[u] \in TaskRows
      BY Rows
    <2>2. Charges(task[u]) \in Nat
      BY <2>1 DEF TaskRows, Charges
    <2>3. CASE StopAll
      <3>1. PICK row : row = [task[u] EXCEPT !.cancel_requested = TRUE]
        OBVIOUS
      <3>2. task'[u] = task[u] \/ (task[u].state \in Active /\ task'[u] = row)
        BY <2>3, <3>1 DEF StopAll
      <3> QED
        BY <2>1, <2>2, <3>1, <3>2 DEF GoesOn, SameBuilds, Charges, TaskRows
    <2>4. CASE NothingStartable \/ AtCapacity
      <3>1. PassedOver(u) \in {"waiting_dependency", "waiting_capacity", "blocked"}
        BY DEF PassedOver
      <3>2. \/ task'[u] = task[u]
            \/ /\ task[u].state \in Waiting
               /\ \E s \in {"waiting_dependency", "waiting_capacity", "blocked"} :
                    task'[u] = [task[u] EXCEPT !.state = s]
        BY <2>4, <3>1 DEF NothingStartable, AtCapacity, Candidates, Waiting
      <3> QED
        BY <3>2, PassingOverMoves
    <2>5. CASE \E p \in Projects, accept \in BOOLEAN : Decide(p, accept)
      <3>1. \/ task'[u] = task[u]
            \/ /\ task[u].state = "ready_for_approval"
               /\ \E s \in {"completed", "blocked"} : task'[u] = [task[u] EXCEPT !.state = s]
        BY <2>5 DEF Decide
      <3> QED
        BY <2>1, <2>2, <3>1
        DEF Moves, SameBuilds, Charges, TaskRows, Active, Staged, AtRest, Stopped
    <2> QED
      BY <2>3, <2>4, <2>5
  <1>3. \A u \in Tasks : ~Created(u)
    BY <1>2, NotCreated
  <1> QED
    BY <1>1, <1>2, <1>3 DEF WorkStep, Depends, Rests, SameLease, Idles

\* The scheduler parks a task it cannot judge; a guardian registers or starts to verify.
LEMMA OwnedWorkGoesOn ==
  ASSUME LeaseInvariant, NEW a \in Attempts,
         InspectionDenied(a) \/ OrphanHeld(a) \/ Register(a) \/ Verify(a)
  PROVE  WorkStep
  <1>1. a \in Leased
    BY DEF InspectionDenied, OrphanHeld, Orphaned, Register, MayRegister, Verify, LeaseStands,
       LeaseInvariant, ThreadHoldsLeases, Leased, Active
  <1>2. PICK t \in Tasks : t = att[a].task /\ task[t].state \in Active
    BY <1>1 DEF LeaseInvariant, LeaseMatchesTask
  <1>3. PICK s \in Active : task' = [task EXCEPT ![t].state = s]
    BY <1>2 DEF InspectionDenied, OrphanHeld, Park, Register, Verify, Active
  <1>4. task[t] \in TaskRows /\ att[a] \in AttemptRows
    BY Rows
  <1>5. PICK row : row = [task[t] EXCEPT !.state = s]
    OBVIOUS
  <1>6. task' = [task EXCEPT ![t] = row] /\ task'[t] = row
    BY <1>3, <1>5, Rows
  <1>7. GoesOn(t)
    BY <1>2, <1>4, <1>5, <1>6 DEF GoesOn, SameBuilds, Charges, TaskRows
  <1>8. \A b \in Attempts : SameLease(b)
    <2>1. CASE InspectionDenied(a) \/ OrphanHeld(a)
      BY <2>1 DEF InspectionDenied, OrphanHeld, SameLease
    <2>2. CASE Register(a) \/ Verify(a)
      <3>1. \A b \in Attempts \ {a} : att'[b] = att[b]
        BY <2>2, Rows DEF Register, Verify
      <3>2. \/ att'[a] = [att[a] EXCEPT !.state = "running", !.identity = TRUE]
            \/ att'[a] = [att[a] EXCEPT !.state = "verifying"]
        BY <2>2, Rows DEF Register, Verify
      <3>3. SameLease(a)
        BY <1>1, <1>4, <3>2 DEF SameLease, SameWork, Leased, Active, AttemptRows
      <3> QED
        BY <3>1, <3>3 DEF SameLease
    <2> QED
      BY <2>1, <2>2
  <1>9. UNCHANGED deps
    BY DEF InspectionDenied, OrphanHeld, Register, Verify
  <1> QED
    BY <1>6, <1>7, <1>8, <1>9, OneRowRests

-------------------------------------------------------------------------------
(* Steps that end a lease *)

\* Every branch of finish() that creates no work: the attempt ends, one row is rewritten.
LEMMA EndingWork ==
  ASSUME LeaseInvariant, NEW a \in Attempts, Collecting(a), NEW after, EndsWith(a, after),
         UNCHANGED deps,
         \/ Redone(a) \/ BuildMade(a) \/ ReviewMade(a) \/ DirectionMade(a)
  PROVE  WorkStep
  <1>1. PICK t \in Tasks : t = att[a].task
    BY CollectedResult
  <1>2. task' = [task EXCEPT ![t] = after]
    BY <1>1 DEF EndsWith
  <1>3. att[a] \in AttemptRows /\ AttemptResult(a) \in Results /\ a \in Leased
    BY Rows, CollectedResult
  <1>4. att'[a] = [att[a] EXCEPT !.state = AttemptResult(a)]
        /\ \A b \in Attempts \ {a} : att'[b] = att[b]
    BY Rows DEF EndsWith
  <1>5. SameWork(a) /\ att'[a].state \in Results
    BY <1>3, <1>4 DEF SameWork, AttemptRows
  <1>6. \A u \in Tasks \ {t} : task'[u] = task[u]
    BY <1>2, Rows
  <1>7. {u \in Tasks : Created(u)} = {}
    <2>1. ~Created(t)
      BY <1>1, CollectedResult DEF Created, LeaseInvariant, LeaseMatchesTask, Active
    <2> QED
      BY <1>6, <2>1, NotCreated
  <1>8. EndsWork(a)
    BY <1>1, <1>3, <1>4, <1>5, <1>6, <1>7, FS_EmptySet DEF EndsWork
  <1>9. Depends
    BY DEF Depends
  <1> QED
    BY <1>8, <1>9 DEF WorkStep

\* The result of an attempt whose work is to be done again, or was stopped.
LEMMA RedoneWork ==
  ASSUME LeaseInvariant, NEW a \in Attempts, Collecting(a), NEW after, EndsWith(a, after),
         UNCHANGED deps,
         LET t == att[a].task
             row == task[t] IN
         /\ after.build_attempt = row.build_attempt /\ after.review_attempt = row.review_attempt
         /\ after.director_review_attempt = row.director_review_attempt
         /\ after.token = row.token /\ after.instructions_pending = row.instructions_pending
         /\ after.state \notin Active \cup Settled \cup {"absent"}
         /\ \/ after.phase \in {row.phase, "replan", "build"}
            \/ after.phase = "plan" /\ att[a].phase = "plan"
         /\ after.state = "awaiting_input" => outcome[a] = "clarify" /\ after.phase = row.phase
         /\ IF AttemptResult(a) = "passed"
            THEN /\ after.state = "cancelled" \/ after.phase \notin Judged \/ ~Outdated(a)
                 /\ Charges(after) = Charges(row)
            ELSE /\ Charges(after) >= Charges(row)
                 /\ after.state \in AtRest \/ Charges(after) > Charges(row)
  PROVE  WorkStep
  <1>1. PICK t \in Tasks : t = att[a].task /\ task[t] \in TaskRows
    BY CollectedResult
  <1>2. task'[t] = after
    BY <1>1, Rows DEF EndsWith
  <1>3. att[a] \in AttemptRows /\ att'[a] = [att[a] EXCEPT !.state = AttemptResult(a)]
    BY Rows DEF EndsWith
  <1>4. att'[a].state = AttemptResult(a)
    BY <1>3 DEF AttemptRows
  <1>5. task'[t].token >= task[t].token
    BY <1>1, <1>2 DEF TaskRows
  <1>6. Redone(a)
    BY <1>1, <1>2, <1>4, <1>5 DEF Redone, SameBuilds
  <1> QED
    BY <1>6, EndingWork

LEMMA FinishRedone ==
  ASSUME LeaseInvariant, NEW a \in Attempts,
         \/ FinishUnconfirmed(a) \/ FinishCancelled(a) \/ FinishOutdated(a)
         \/ FinishClarify(a) \/ FinishReplan(a) \/ FinishTrouble(a) \/ FinishRetry(a)
         \/ FinishRepair(a) \/ FinishBlocked(a)
  PROVE  WorkStep
  <1>0. Collecting(a) /\ UNCHANGED deps
    BY DEF FinishUnconfirmed, FinishCancelled, FinishOutdated, FinishClarify, FinishReplan,
       FinishTrouble, FinishRetry, FinishRepair, FinishBlocked, Passed, Succeeded, Uncancelled
  <1>1. PICK t : t = att[a].task
    OBVIOUS
  <1>2. task[t] \in TaskRows /\ AttemptResult(a) \in Results
    BY <1>0, <1>1, CollectedResult
  <1>3. Charges(task[t]) \in Nat
    BY <1>2 DEF Charges, TaskRows
  <1>4. CASE FinishUnconfirmed(a)
    <2>1. PICK after : after = [task[t] EXCEPT !.state = "interrupted"]
      OBVIOUS
    <2>2. EndsWith(a, after) /\ AttemptResult(a) = "failed"
      BY <1>1, <1>4, <2>1 DEF FinishUnconfirmed, AttemptResult
    <2> QED
      BY <1>0, <1>1, <1>2, <1>3, <2>1, <2>2, RedoneWork
      DEF TaskRows, Charges, Active, Settled, AtRest, Stopped
  <1>5. CASE FinishCancelled(a)
    <2>1. PICK after : after = [task[t] EXCEPT !.state = "cancelled"]
      OBVIOUS
    <2>2. EndsWith(a, after)
      BY <1>1, <1>5, <2>1 DEF FinishCancelled
    <2> QED
      BY <1>0, <1>1, <1>2, <1>3, <2>1, <2>2, RedoneWork
      DEF TaskRows, Charges, Active, Settled, AtRest
  <1>6. CASE FinishOutdated(a)
    <2>1. PICK phase \in {"plan", "replan", "build"} :
            /\ phase = (IF att[a].phase = "plan" THEN "plan" ELSE Rework(t))
            /\ phase = "plan" => att[a].phase = "plan"
      BY DEF Rework
    <2>2. PICK after : after = [task[t] EXCEPT !.state = "ready", !.phase = phase]
      OBVIOUS
    <2>3. EndsWith(a, after) /\ AttemptResult(a) = "passed"
      BY <1>1, <1>6, <2>1, <2>2 DEF FinishOutdated, Succeeded, AttemptResult
    <2> QED
      BY <1>0, <1>1, <1>2, <1>3, <2>1, <2>2, <2>3, RedoneWork
      DEF TaskRows, Charges, Active, Settled, Judged
  <1>7. CASE FinishClarify(a)
    <2>1. PICK after : after = [task[t] EXCEPT !.state = "awaiting_input"]
      OBVIOUS
    <2>2. /\ EndsWith(a, after) /\ AttemptResult(a) = "passed"
          /\ outcome[a] = "clarify" /\ ~Outdated(a)
      BY <1>1, <1>7, <2>1 DEF FinishClarify, AttemptResult
    <2> QED
      BY <1>0, <1>1, <1>2, <1>3, <2>1, <2>2, RedoneWork
      DEF TaskRows, Charges, Active, Settled
  <1>8. CASE FinishReplan(a)
    <2>1. PICK after : after = [task[t] EXCEPT !.state = "ready", !.phase = "build"]
      OBVIOUS
    <2>2. EndsWith(a, after) /\ AttemptResult(a) = "passed"
      BY <1>1, <1>8, <2>1 DEF FinishReplan, Passed, AttemptResult
    <2> QED
      BY <1>0, <1>1, <1>2, <1>3, <2>1, <2>2, RedoneWork
      DEF TaskRows, Charges, Active, Settled, Judged
  <1>9. CASE FinishTrouble(a)
    <2>1. PICK after : after = [task[t] EXCEPT !.state = outcome[a]]
      OBVIOUS
    <2>2. /\ EndsWith(a, after) /\ AttemptResult(a) = outcome[a]
          /\ outcome[a] \in {"needs_auth", "needs_permission"}
      BY <1>1, <1>9, <2>1 DEF FinishTrouble, AttemptResult
    <2> QED
      BY <1>0, <1>1, <1>2, <1>3, <2>1, <2>2, RedoneWork
      DEF TaskRows, Charges, Active, Settled, AtRest, Stopped
  <1>10. CASE FinishRetry(a)
    <2>1. PICK after : after = [task[t] EXCEPT !.state = "cooldown", !.cooling = TRUE,
                                               !.retries = task[t].retries + 1]
      OBVIOUS
    <2>2. EndsWith(a, after) /\ AttemptResult(a) # "passed"
      BY <1>1, <1>10, <2>1 DEF FinishRetry, Retriable, AttemptResult
    <2>3. Charges(after) = Charges(task[t]) + 1
      BY <1>2, <2>1 DEF TaskRows, Charges
    <2>4. Charges(after) > Charges(task[t]) /\ Charges(after) >= Charges(task[t])
      BY <1>3, <2>3
    <2> QED
      BY <1>0, <1>1, <1>2, <2>1, <2>2, <2>4, RedoneWork DEF TaskRows, Active, Settled
  <1>11. CASE FinishRepair(a)
    <2>1. PICK phase \in {"plan", "replan", "build"} :
            /\ phase = (IF att[a].phase = "plan" THEN "plan" ELSE Rework(t))
            /\ phase = "plan" => att[a].phase = "plan"
      BY DEF Rework
    <2>2. PICK after : after = [task[t] EXCEPT !.state = "repair_queued",
                                  !.repairs = task[t].repairs + 1, !.phase = phase]
      OBVIOUS
    <2>3. EndsWith(a, after) /\ AttemptResult(a) # "passed"
      BY <1>1, <1>11, <2>1, <2>2 DEF FinishRepair, Repairable, AttemptResult
    <2>4. Charges(after) = Charges(task[t]) + 1
      BY <1>2, <2>2 DEF TaskRows, Charges
    <2>5. Charges(after) > Charges(task[t]) /\ Charges(after) >= Charges(task[t])
      BY <1>3, <2>4
    <2> QED
      BY <1>0, <1>1, <1>2, <2>1, <2>2, <2>3, <2>5, RedoneWork DEF TaskRows, Active, Settled
  <1>12. CASE FinishBlocked(a)
    <2>1. PICK after : after = [task[t] EXCEPT !.state = "blocked"]
      OBVIOUS
    <2>2. EndsWith(a, after) /\ AttemptResult(a) # "passed"
      BY <1>1, <1>12, <2>1 DEF FinishBlocked, AttemptResult
    <2> QED
      BY <1>0, <1>1, <1>2, <1>3, <2>1, <2>2, RedoneWork
      DEF TaskRows, Charges, Active, Settled, AtRest, Stopped
  <1> QED
    BY <1>4, <1>5, <1>6, <1>7, <1>8, <1>9, <1>10, <1>11, <1>12

LEMMA FinishVerdicts ==
  ASSUME LeaseInvariant, NEW a \in Attempts, FinishBuild(a) \/ FinishReview(a) \/ FinishDirect(a)
  PROVE  WorkStep
  <1>0. Collecting(a) /\ UNCHANGED deps /\ ~Outdated(a) /\ AttemptResult(a) = "passed"
    BY DEF FinishBuild, FinishReview, FinishDirect, Passed, Succeeded, Uncancelled, AttemptResult
  <1>1. PICK t \in Tasks : t = att[a].task /\ task[t] \in TaskRows
    BY <1>0, CollectedResult
  <1>2. task \in [Tasks -> TaskRows] /\ att \in [Attempts -> AttemptRows]
        /\ att[a] \in AttemptRows
    BY Rows
  <1>3. ASSUME NEW after, EndsWith(a, after)
        PROVE  task'[t] = after /\ att'[a].state = "passed"
    BY <1>0, <1>1, <1>2, <1>3 DEF EndsWith, AttemptRows
  <1>4. CASE FinishBuild(a)
    <2>1. PICK after : after = [task[t] EXCEPT
            !.state = IF t \in Reviewed THEN "ready" ELSE "integrating",
            !.phase = IF t \in Reviewed THEN "review" ELSE "build",
            !.build_attempt = a]
      OBVIOUS
    <2>2. EndsWith(a, after) /\ att[a].phase = "build"
      BY <1>1, <1>4, <2>1 DEF FinishBuild, Passed
    <2>3. BuildMade(a)
      BY <1>0, <1>1, <1>3, <2>1, <2>2 DEF BuildMade, PassedAs
    <2> QED
      BY <1>0, <2>2, <2>3, EndingWork
  <1>5. CASE FinishReview(a)
    <2>1. PICK after : after = [task[t] EXCEPT
            !.state = IF t \in Directed THEN "ready" ELSE "integrating",
            !.phase = IF t \in Directed THEN "direct" ELSE "review",
            !.review_attempt = a]
      OBVIOUS
    <2>2. EndsWith(a, after) /\ att[a].phase = "review"
      BY <1>1, <1>5, <2>1 DEF FinishReview, Passed
    <2>3. ReviewMade(a)
      BY <1>0, <1>1, <1>3, <2>1, <2>2 DEF ReviewMade, PassedAs
    <2> QED
      BY <1>0, <2>2, <2>3, EndingWork
  <1>6. CASE FinishDirect(a)
    <2>1. PICK after : after = [task[t] EXCEPT !.state = "integrating",
                                               !.director_review_attempt = a]
      OBVIOUS
    <2>2. EndsWith(a, after) /\ att[a].phase = "direct"
      BY <1>1, <1>6, <2>1 DEF FinishDirect, Passed
    <2>3. DirectionMade(a)
      BY <1>0, <1>1, <1>3, <2>1, <2>2 DEF DirectionMade, PassedAs
    <2> QED
      BY <1>0, <2>2, <2>3, EndingWork
  <1> QED
    BY <1>4, <1>5, <1>6

LEMMA FinishPlanWork ==
  ASSUME LeaseInvariant, NEW a \in Attempts,
         NEW plan \in UNION {Plans[t] : t \in Tasks}, FinishPlan(a, plan)
  PROVE  WorkStep
  <1>1. Collecting(a) /\ outcome[a] = "passed" /\ ~Outdated(a) /\ att[a].phase = "plan"
    BY DEF FinishPlan, Passed, Succeeded, Uncancelled
  <1>2. PICK t \in Tasks : t = att[a].task
    BY <1>1, CollectedResult
  <1>3. /\ plan \in Plans[t] /\ DOMAIN plan \subseteq Tasks \ {t} /\ IsFiniteSet(DOMAIN plan)
        /\ \A u \in DOMAIN plan : plan[u] \subseteq DOMAIN plan
    BY <1>2, LeaseAssumption DEF FinishPlan, LeaseAssumptions
  <1>4. task'[t] = [task[t] EXCEPT !.state = "completed"]
    BY <1>2 DEF FinishPlan
  <1>5. \A u \in DOMAIN plan : Created(u) /\ task'[u] = NewTask("build")
    BY <1>2, <1>3 DEF FinishPlan, Created
  <1>6. \A u \in Tasks \ ({t} \cup DOMAIN plan) : task'[u] = task[u]
    BY <1>2 DEF FinishPlan
  <1>7. ~Created(t)
    BY <1>1, <1>2, CollectedResult DEF Created, LeaseInvariant, LeaseMatchesTask, Active
  <1>8. {u \in Tasks : Created(u)} \subseteq DOMAIN plan
    BY <1>6, <1>7, NotCreated
  <1>9. IsFiniteSet({u \in Tasks : Created(u)})
    BY <1>3, <1>8, FS_Subset
  <1>10. att[a] \in AttemptRows /\ a \in Leased
    BY <1>1, Rows, CollectedResult
  <1>11. att'[a] = [att[a] EXCEPT !.state = "passed"] /\ \A b \in Attempts \ {a} : att'[b] = att[b]
    BY Rows DEF FinishPlan
  <1>12. SameWork(a) /\ att'[a].state = "passed"
    BY <1>10, <1>11 DEF SameWork, AttemptRows
  <1>13. PlanMade(a)
    BY <1>1, <1>2, <1>4, <1>12 DEF PlanMade, PassedAs
  <1>14. EndsWork(a)
    BY <1>2, <1>5, <1>6, <1>9, <1>10, <1>11, <1>12, <1>13 DEF EndsWork, Results
  <1>15. Depends
    <2>1. \A u \in DOMAIN plan : deps'[u] = plan[u] \cup deps[t]
      BY <1>2, <1>3 DEF FinishPlan
    <2>2. \A u \in Tasks \ DOMAIN plan : deps'[u] = deps[u]
      BY DEF FinishPlan
    <2> QED
      BY <1>3, <1>5, <2>1, <2>2 DEF Depends
  <1> QED
    BY <1>14, <1>15 DEF WorkStep

LEMMA ReleasedWork ==
  ASSUME LeaseInvariant, Release
  PROVE  WorkStep
  <1>1. PICK a \in Attempts : a = slot
    BY DEF Release, LeaseInvariant, TypeOK, TypeThread
  <1>2. a \in Leased
    BY <1>1 DEF Release, Leased
  <1>3. PICK t \in Tasks : t = att[a].task /\ task[t].state \in Active
    BY <1>2 DEF LeaseInvariant, LeaseMatchesTask
  <1>4. task[t] \in TaskRows /\ att[a] \in AttemptRows
    BY Rows
  <1>5. PICK row : row = [task[t] EXCEPT !.token = task[t].token + 1,
                            !.recoveries = task[t].recoveries + 1,
                            !.cooling = TRUE, !.state = AfterRelease(t)]
    OBVIOUS
  <1>6. task'[t] = row /\ \A u \in Tasks \ {t} : task'[u] = task[u]
    BY <1>1, <1>3, <1>5, Rows DEF Release
  <1>7. att'[a] = [att[a] EXCEPT !.state = "interrupted"] /\ \A b \in Attempts \ {a} : att'[b] = att[b]
    BY <1>1, Rows DEF Release
  <1>8. SameWork(a) /\ att'[a].state = "interrupted"
    BY <1>4, <1>7 DEF SameWork, AttemptRows
  <1>9. Charges(task'[t]) = Charges(task[t]) + 1 /\ Charges(task[t]) \in Nat
    BY <1>4, <1>5, <1>6 DEF TaskRows, Charges
  <1>10. Charges(task'[t]) > Charges(task[t]) /\ Charges(task'[t]) >= Charges(task[t])
    BY <1>9
  <1>11. task'[t].state \notin Active \cup Settled \cup {"absent", "awaiting_input"}
    <2>1. AfterRelease(t) \in {"cancelled", "cooldown", "interrupted"}
      BY DEF AfterRelease
    <2> QED
      BY <1>4, <1>5, <1>6, <2>1 DEF TaskRows, Active, Settled
  <1>12. Redone(a)
    BY <1>3, <1>4, <1>5, <1>6, <1>8, <1>10, <1>11 DEF Redone, SameBuilds, TaskRows
  <1>13. {u \in Tasks : Created(u)} = {}
    BY <1>3, <1>6, NotCreated DEF Created, Active
  <1>14. EndsWork(a)
    BY <1>2, <1>3, <1>6, <1>7, <1>8, <1>12, <1>13, FS_EmptySet DEF EndsWork
  <1>15. Depends
    BY DEF Release, Depends
  <1> QED
    BY <1>14, <1>15 DEF WorkStep

-------------------------------------------------------------------------------
(* The step that grants a lease, and all steps *)

LEMMA ClaimedWork ==
  ASSUME LeaseInvariant, NEW t \in Tasks, NEW c \in Accounts, Claim(t, c)
  PROVE  WorkStep
  <1>1. PICK a \in Attempts : a = Fresh /\ att[a] = UnusedAttempt
    BY DEF Claim, Dispatching, Spent, Fresh
  <1>2. att' = [att EXCEPT ![a] = Lease(t, c)] /\ UNCHANGED deps
    BY <1>1 DEF Claim, Lease, Judged
  <1>3. task'[t] = [task[t] EXCEPT !.state = "leased", !.token = task[t].token + 1,
                                   !.attempt_id = a]
    BY <1>1 DEF Claim
  <1>4. ASSUME NEW u \in Tasks \ {t}
        PROVE  task'[u] = task[u] \/ Moves(u)
    <2>1. PassedOver(u) \in {"waiting_dependency", "waiting_capacity", "blocked"}
      BY DEF PassedOver
    <2>2. \/ task'[u] = task[u]
          \/ task[u].state \in Waiting /\ task'[u] = [task[u] EXCEPT !.state = PassedOver(u)]
      BY DEF Claim, Candidates
    <2> QED
      BY <2>1, <2>2, PassingOverMoves
  <1>5. /\ ~paused /\ Cardinality(Leased) < limit
        /\ t \in Candidates /\ Startable(t) /\ c \in Eligible(t)
    BY DEF Claim, Dispatching, PausedNow
  <1>6. GrantsWork(t, a, c)
    BY <1>1, <1>2, <1>3, <1>4, <1>5 DEF GrantsWork
  <1>7. Depends
    BY <1>2 DEF Depends
  <1> QED
    BY <1>6, <1>7 DEF WorkStep

LEMMA EveryWorkStep ==
  ASSUME LeaseInvariant, AbsentTasksAreBlank, [Next]_vars
  PROVE  WorkStep
  <1>1. CASE UNCHANGED vars
    BY <1>1, UntouchedStore DEF vars
  <1>2. CASE Scheduler
    <2>1. CASE \E a \in Attempts : Inspect(a)
      <3>1. PICK a \in Attempts : Inspect(a)
        BY <2>1
      <3>2. CASE LeftAlone(a) \/ OrphanFound(a)
        BY <3>2, UntouchedStore DEF LeftAlone, OrphanFound, store
      <3> QED
        BY <3>1, <3>2, OwnedWorkGoesOn, FinishRedone, FinishVerdicts, FinishPlanWork
        DEF Inspect, Finish
    <2>2. CASE ControllerRestarts \/ TickBegins \/ Spawn \/ DispatchBegins \/ DispatchPaused
      BY <2>2, UntouchedStore
      DEF ControllerRestarts, TickBegins, Spawn, DispatchBegins, DispatchPaused, store
    <2> QED
      BY <1>2, <2>1, <2>2, ReleasedWork, ClaimedWork, ManyRowWork DEF Scheduler
  <1>3. CASE OutsideStore
    BY <1>3, UntouchedStore
    DEF OutsideStore, RegistrationRefused, RegistrationDenied, Launch, RecordChild,
        ChildExits, GuardianExits, GuardianKilled, Report, Signal, PauseDispatch,
        ResumeDispatch, SetCapacity, SetProject, SetAccount, AccountRests, store
  <1>4. CASE ControllerCrash
    BY <1>4, UntouchedStore DEF ControllerCrash, store
  <1>5. CASE Owner \/ Staging \/ Clock
    BY <1>3, <1>5, RequestWork, ManyRowWork DEF Owner, Staging, Clock, OutsideStore
  <1>6. CASE \E a \in Attempts : Guardian(a) \/ ChildExits(a) \/ GuardianKilled(a)
    BY <1>3, <1>6, OwnedWorkGoesOn DEF Guardian, OutsideStore
  <1> QED
    BY <1>1, <1>2, <1>3, <1>4, <1>5, <1>6 DEF Next, OutsideStore

-------------------------------------------------------------------------------
(* What a step leaves of an attempt and of a task *)

LEMMA AttemptsAfter ==
  ASSUME LeaseInvariant, WorkStep, NEW b \in Attempts
  PROVE  /\ att[b].state # "unused" => SameWork(b) /\ att'[b].state # "unused"
         /\ att[b].state \notin Active \cup {"unused"} => att'[b] = att[b]
         /\ \/ SameWork(b) /\ (att'[b].state = "unused" => att'[b] = att[b])
            \/ \E t \in Tasks, c \in Accounts : GrantsWork(t, b, c)
  <1>1. CASE Rests
    BY <1>1 DEF Rests, SameLease, SameWork, Active
  <1>2. CASE \E a \in Attempts : EndsWork(a)
    BY <1>2 DEF EndsWork, SameWork, Leased, Active, Results
  <1>3. ASSUME NEW t \in Tasks, NEW a \in Attempts, NEW c \in Accounts, GrantsWork(t, a, c)
        PROVE  /\ b # a => att'[b] = att[b]
               /\ b = a => att[b].state = "unused"
    BY <1>3, Rows DEF GrantsWork, UnusedAttempt
  <1> QED
    BY <1>1, <1>2, <1>3 DEF WorkStep, SameWork

LEMMA LeasedAfterWork ==
  ASSUME LeaseInvariant
  PROVE  /\ Rests => Leased' = Leased
         /\ \A a \in Attempts : EndsWork(a) => Leased' = Leased \ {a}
         /\ \A t \in Tasks, a \in Attempts, c \in Accounts :
              GrantsWork(t, a, c) => Leased' = Leased \cup {a} /\ a \notin Leased
  <1>1. ASSUME Rests PROVE Leased' = Leased
    BY <1>1 DEF Rests, SameLease, Leased
  <1>2. ASSUME NEW a \in Attempts, EndsWork(a) PROVE Leased' = Leased \ {a}
    <2>1. att'[a].state \notin Active /\ \A b \in Attempts \ {a} : att'[b] = att[b]
      BY <1>2 DEF EndsWork, Results, Active
    <2> QED
      BY <2>1 DEF Leased
  <1>3. ASSUME NEW t \in Tasks, NEW a \in Attempts, NEW c \in Accounts, GrantsWork(t, a, c)
        PROVE  Leased' = Leased \cup {a} /\ a \notin Leased
    <2>1. att'[a] = Lease(t, c) /\ \A b \in Attempts \ {a} : att'[b] = att[b]
      BY <1>3, Rows DEF GrantsWork
    <2>2. att'[a].state \in Active /\ att[a].state \notin Active
      BY <1>3, <2>1 DEF Lease, GrantsWork, UnusedAttempt, Active
    <2> QED
      BY <2>1, <2>2 DEF Leased
  <1> QED
    BY <1>1, <1>2, <1>3

LEMMA RowsAfter ==
  ASSUME LeaseInvariant, WorkStep, NEW u \in Tasks
  PROVE  \/ Idles(u)
         \/ \E a \in Attempts : EndsWork(a) /\ att[a].task = u
         \/ \E a \in Attempts, c \in Accounts : GrantsWork(u, a, c)
  BY DEF WorkStep, Rests, EndsWork, GrantsWork, Idles

\* The row of a leased attempt's task, and of the task that is claimed.
LEMMA OwnedRow ==
  ASSUME LeaseInvariant, NEW a \in Leased
  PROVE  /\ a \in Attempts /\ att[a].task \in Tasks /\ task[att[a].task].state \in Active
         /\ task[att[a].task].attempt_id = a /\ task[att[a].task].token = att[a].token
         /\ \A b \in Leased \ {a} : att[b].task # att[a].task
  BY DEF LeaseInvariant, LeaseMatchesTask, Leased

LEMMA ClaimedRow ==
  ASSUME LeaseInvariant, NEW t \in Tasks, NEW a \in Attempts, NEW c \in Accounts,
         GrantsWork(t, a, c)
  PROVE  /\ task[t].state \in Waiting /\ task'[t].state = "leased"
         /\ SameBuilds(t) /\ task'[t].phase = task[t].phase
         /\ task'[t].token = task[t].token + 1 /\ task'[t].attempt_id = a
         /\ task'[t].instructions_pending = task[t].instructions_pending
         /\ Charges(task'[t]) = Charges(task[t])
         /\ task'[t].cancel_requested = task[t].cancel_requested
         /\ att'[a].task = t /\ att'[a].account = c /\ att'[a].state = "leased"
         /\ att'[a].token = task[t].token + 1 /\ att'[a].phase = task[t].phase
         /\ att'[a].base = IF task[t].phase \in Judged THEN task[t].build_attempt ELSE None
         /\ att'[a].instruction_count = task[t].instructions_pending
         /\ att[a].state = "unused" /\ att[a].task = None
         /\ \A b \in Attempts \ {a} : att'[b] = att[b]
  <1>1. task[t] \in TaskRows
    BY Rows
  <1>2. task[t].state \in Waiting
    BY DEF GrantsWork, Candidates
  <1>3. PICK row : row = [task[t] EXCEPT !.state = "leased", !.token = task[t].token + 1,
                                         !.attempt_id = a]
    OBVIOUS
  <1>4. task'[t] = row
    BY <1>3 DEF GrantsWork
  <1>5. att'[a] = Lease(t, c) /\ \A b \in Attempts \ {a} : att'[b] = att[b]
    BY Rows DEF GrantsWork
  <1>6. att[a].state = "unused" /\ att[a].task = None
    BY DEF GrantsWork, UnusedAttempt
  <1> QED
    BY <1>1, <1>2, <1>3, <1>4, <1>5, <1>6 DEF Lease, SameBuilds, Charges, TaskRows

\* What the made rows of a task say.
LEMMA MadeRow ==
  ASSUME LeaseInvariant, NEW a \in Leased,
         PlanMade(a) \/ BuildMade(a) \/ ReviewMade(a) \/ DirectionMade(a)
  PROVE  LET t == att[a].task IN
         /\ task'[t].token = task[t].token /\ Charges(task'[t]) = Charges(task[t])
         /\ task'[t].instructions_pending = task[t].instructions_pending
         /\ att'[a].state = "passed" /\ ~Outdated(a)
         /\ \/ PlanMade(a) /\ SameBuilds(t) /\ task'[t].phase = task[t].phase
               /\ task'[t].state = "completed" /\ att[a].phase = "plan"
            \/ BuildMade(a) /\ att[a].phase = "build" /\ task'[t].build_attempt = a
               /\ task'[t].review_attempt = task[t].review_attempt
               /\ task'[t].director_review_attempt = task[t].director_review_attempt
               /\ IF t \in Reviewed
                  THEN task'[t].state = "ready" /\ task'[t].phase = "review"
                  ELSE task'[t].state = "integrating" /\ task'[t].phase = "build"
            \/ ReviewMade(a) /\ att[a].phase = "review" /\ task'[t].review_attempt = a
               /\ task'[t].build_attempt = task[t].build_attempt
               /\ task'[t].director_review_attempt = task[t].director_review_attempt
               /\ IF t \in Directed
                  THEN task'[t].state = "ready" /\ task'[t].phase = "direct"
                  ELSE task'[t].state = "integrating" /\ task'[t].phase = "review"
            \/ DirectionMade(a) /\ att[a].phase = "direct" /\ task'[t].director_review_attempt = a
               /\ task'[t].build_attempt = task[t].build_attempt
               /\ task'[t].review_attempt = task[t].review_attempt
               /\ task'[t].state = "integrating" /\ task'[t].phase = task[t].phase
  <1>1. PICK t \in Tasks : t = att[a].task /\ task[t] \in TaskRows
    BY OwnedRow, Rows
  <1>2. CASE PlanMade(a)
    BY <1>1, <1>2 DEF PlanMade, PassedAs, SameBuilds, Charges, TaskRows
  <1>3. CASE BuildMade(a)
    BY <1>1, <1>3 DEF BuildMade, PassedAs, Charges, TaskRows
  <1>4. CASE ReviewMade(a)
    BY <1>1, <1>4 DEF ReviewMade, PassedAs, Charges, TaskRows
  <1>5. CASE DirectionMade(a)
    BY <1>1, <1>5 DEF DirectionMade, PassedAs, Charges, TaskRows
  <1> QED
    BY <1>2, <1>3, <1>4, <1>5

\* Work that exists stays, with the candidates it has named, and with its place in the order.
LEMMA RowsGrow ==
  ASSUME LeaseInvariant, AbsentTasksAreBlank, WorkStep, NEW u \in Tasks
  PROVE  /\ task[u].state # "absent" => task'[u].state # "absent"
         /\ task'[u].token >= task[u].token
         /\ Created(u) => /\ task[u].token = 0 /\ task[u].build_attempt = None
                          /\ Charges(task[u]) = 0
  <1>1. task[u] \in TaskRows
    BY Rows
  <1>2. CASE Idles(u)
    <2>1. CASE Created(u)
      <3>1. task[u] = Absent /\ task'[u].token = 0 /\ task'[u].state = "ready"
        BY <2>1, NewTaskFields DEF Created, AbsentTasksAreBlank
      <3>2. task[u].token = 0 /\ task[u].build_attempt = None /\ Charges(task[u]) = 0
        BY <3>1 DEF Absent, NewTask, Charges
      <3> QED
        BY <3>1, <3>2
    <2>2. CASE task'[u] = task[u] \/ GoesOn(u) \/ Moves(u)
      <3>1. ~Created(u) /\ task'[u].token = task[u].token
        BY <2>2, NotCreated DEF GoesOn, Moves
      <3> QED
        BY <1>1, <2>2, <3>1 DEF GoesOn, Moves, Active, TaskRows
    <2> QED
      BY <1>2, <2>1, <2>2 DEF Idles
  <1>3. ASSUME NEW a \in Attempts, EndsWork(a), att[a].task = u
        PROVE  /\ task'[u].state # "absent" /\ task'[u].token >= task[u].token /\ ~Created(u)
    <2>1. a \in Leased /\ task[u].state \in Active
      BY <1>3, OwnedRow DEF EndsWork
    <2>2. CASE Redone(a)
      BY <1>3, <2>1, <2>2 DEF Redone, Created, Active
    <2>3. CASE PlanMade(a) \/ BuildMade(a) \/ ReviewMade(a) \/ DirectionMade(a)
      BY <1>1, <1>3, <2>1, <2>3, MadeRow DEF Created, TaskRows, Active, Settled
    <2> QED
      BY <1>3, <2>2, <2>3 DEF EndsWork
  <1>4. ASSUME NEW a \in Attempts, NEW c \in Accounts, GrantsWork(u, a, c)
        PROVE  /\ task'[u].state # "absent" /\ task'[u].token >= task[u].token /\ ~Created(u)
    BY <1>1, <1>4, ClaimedRow DEF Created, TaskRows, Waiting
  <1> QED
    BY <1>2, <1>3, <1>4, RowsAfter

LEMMA AbsentTasksStep ==
  ASSUME LeaseInvariant, AbsentTasksAreBlank, WorkStep
  PROVE  AbsentTasksAreBlank'
  <1>1. ASSUME NEW u \in Tasks, task'[u].state = "absent"
        PROVE  task'[u] = Absent
    <2>1. task[u].state = "absent"
      BY <1>1, RowsGrow
    <2>2. ~\E a \in Attempts : EndsWork(a) /\ att[a].task = u
      BY <2>1, OwnedRow DEF EndsWork, Active
    <2>3. ~\E a \in Attempts, c \in Accounts : GrantsWork(u, a, c)
      BY <2>1, ClaimedRow DEF Waiting
    <2>4. task'[u] = task[u]
      BY <1>1, <2>1, <2>2, <2>3, RowsAfter, NewTaskFields
      DEF Idles, Created, GoesOn, Moves, Active
    <2> QED
      BY <2>1, <2>4 DEF AbsentTasksAreBlank
  <1> QED
    BY <1>1 DEF AbsentTasksAreBlank

LEMMA NoneIsNoTask == None \notin Tasks
  BY LeaseAssumption DEF LeaseAssumptions

LEMMA AttemptsClaimedStep ==
  ASSUME WorkInvariant, WorkStep
  PROVE  AttemptsAreClaimed'
  <1>0. LeaseInvariant /\ AbsentTasksAreBlank /\ AttemptsAreClaimed
    BY DEF WorkInvariant
  <1>1. ASSUME NEW a \in Attempts
        PROVE  IF att'[a].state = "unused" THEN att'[a] = UnusedAttempt
               ELSE att'[a].task \in Tasks /\ task'[att'[a].task].state # "absent"
    <2>1. CASE SameWork(a) /\ (att'[a].state = "unused" => att'[a] = att[a])
      <3>1. CASE att[a].state = "unused"
        <4>1. att[a] = UnusedAttempt /\ att[a].task \notin Tasks
          <5>1. att[a] = UnusedAttempt
            BY <1>0, <3>1 DEF AttemptsAreClaimed
          <5>2. UnusedAttempt.task = None
            BY DEF UnusedAttempt
          <5> QED
            BY <5>1, <5>2, NoneIsNoTask
        <4>2. a \notin Leased
          BY <3>1 DEF Leased, Active
        <4>3. CASE Rests
          BY <3>1, <4>1, <4>3 DEF Rests, SameLease, Active
        <4>4. CASE \E b \in Attempts : EndsWork(b)
          <5>1. PICK b \in Attempts : EndsWork(b)
            BY <4>4
          <5>2. a # b /\ att'[a] = att[a]
            BY <4>2, <5>1 DEF EndsWork
          <5> QED
            BY <3>1, <4>1, <5>2
        <4>5. CASE \E t \in Tasks, b \in Attempts, c \in Accounts : GrantsWork(t, b, c)
          <5>1. PICK t \in Tasks, b \in Attempts, c \in Accounts : GrantsWork(t, b, c)
            BY <4>5
          <5>2. b # a
            BY <1>0, <2>1, <4>1, <5>1, ClaimedRow DEF SameWork
          <5>3. att'[a] = att[a]
            BY <1>0, <5>1, <5>2, ClaimedRow
          <5> QED
            BY <3>1, <4>1, <5>3
        <4> QED
          BY <3>1, <4>1, <4>3, <4>4, <4>5 DEF WorkStep
      <3>2. CASE att[a].state # "unused"
        <4>1. att[a].task \in Tasks /\ task[att[a].task].state # "absent"
          BY <1>0, <3>2 DEF AttemptsAreClaimed
        <4>2. att'[a].task = att[a].task /\ att'[a].state # "unused"
          BY <1>0, <3>2, AttemptsAfter DEF SameWork
        <4> QED
          BY <1>0, <4>1, <4>2, RowsGrow
      <3> QED
        BY <3>1, <3>2
    <2>2. CASE \E t \in Tasks, c \in Accounts : GrantsWork(t, a, c)
      BY <1>0, <2>2, ClaimedRow
    <2> QED
      BY <1>0, <2>1, <2>2, AttemptsAfter
  <1> QED
    BY <1>1 DEF AttemptsAreClaimed

\* A candidate, a verdict, and the author of the candidate, outlast the step.
LEMMA PassedStays ==
  ASSUME LeaseInvariant, WorkStep, NEW x, NEW t, NEW phase, PassedAttempt(x, t, phase)
  PROVE  PassedAttempt(x, t, phase)' /\ att'[x] = att[x] /\ x # None
         /\ x \in Attempts /\ x \notin Leased
  <1>1. x \in Attempts /\ att'[x] = att[x]
    BY AttemptsAfter DEF PassedAttempt, Active
  <1> QED
    BY <1>1, NoneIsNoAttempt DEF PassedAttempt, Leased, Active

LEMMA AuthorStays ==
  ASSUME LeaseInvariant, PhasesAreEarned, WorkStep, NEW t \in Tasks,
         task'[t].build_attempt = task[t].build_attempt
  PROVE  Author(t)' = Author(t)
  BY PassedStays DEF PhasesAreEarned, Author

LEMMA ApprovedStays ==
  ASSUME LeaseInvariant, PhasesAreEarned, WorkStep, NEW t \in Tasks, Approved(t),
         task'[t].build_attempt = task[t].build_attempt,
         task'[t].review_attempt = task[t].review_attempt
  PROVE  Approved(t)'
  BY PassedStays, AuthorStays DEF Approved

LEMMA LeasesCarryWorkStep ==
  ASSUME WorkInvariant, WorkStep, LeaseInvariant'
  PROVE  LeasesCarryWork'
  <1>0. LeaseInvariant /\ AbsentTasksAreBlank /\ LeasesCarryWork /\ PhasesAreEarned
    BY DEF WorkInvariant
  <1> DEFINE Carries(b) ==
        LET t == att[b].task IN
        /\ att[b].phase = task[t].phase
        /\ att[b].phase \in Judged => att[b].base = task[t].build_attempt
        /\ att[b].phase = "review" => att[b].account # Author(t)
        /\ att[b].instruction_count <= task[t].instructions_pending
  \* A lease that stands carries its work on when its task's row does.
  <1>1. ASSUME NEW b \in Leased, SameWork(b), LET t == att[b].task IN
               /\ task'[t].phase = task[t].phase
               /\ task'[t].build_attempt = task[t].build_attempt
               /\ task'[t].instructions_pending >= task[t].instructions_pending
        PROVE  Carries(b)'
    <2>1. PICK t \in Tasks : t = att[b].task /\ b \in Attempts
      BY <1>0, OwnedRow
    <2>2. Author(t)' = Author(t)
      BY <1>0, <1>1, <2>1, AuthorStays
    <2>3. Carries(b)
      BY <1>0 DEF LeasesCarryWork
    <2>4. /\ att'[b].task = t /\ att'[b].phase = att[b].phase /\ att'[b].base = att[b].base
          /\ att'[b].account = att[b].account
          /\ att'[b].instruction_count = att[b].instruction_count
      BY <1>1, <2>1 DEF SameWork
    <2>5. att'[b].instruction_count <= task'[t].instructions_pending
      <3>1. att[b] \in AttemptRows /\ task[t] \in TaskRows
        BY <1>0, <2>1, Rows
      <3>2. att[b].instruction_count \in Nat /\ task[t].instructions_pending \in Nat
        BY <3>1 DEF AttemptRows, TaskRows
      <3>3. task'[t].instructions_pending \in Nat
        BY <1>0, <2>1, RowsThen DEF TaskRows
      <3> QED
        BY <1>1, <2>1, <2>3, <2>4, <3>2, <3>3
    <2> QED
      BY <1>1, <2>1, <2>2, <2>3, <2>4, <2>5
  <1>2. ASSUME NEW b \in Leased, task'[att[b].task] = task[att[b].task] \/ Idles(att[b].task)
        PROVE  LET t == att[b].task IN
               /\ task'[t].phase = task[t].phase
               /\ task'[t].build_attempt = task[t].build_attempt
               /\ task'[t].instructions_pending >= task[t].instructions_pending
    <2>1. PICK t \in Tasks : t = att[b].task /\ task[t].state \in Active /\ task[t] \in TaskRows
      BY <1>0, OwnedRow, Rows
    <2>2. task'[t] = task[t] \/ GoesOn(t)
      BY <1>2, <2>1 DEF Idles, Created, Moves, Active
    <2> QED
      BY <2>1, <2>2 DEF GoesOn, SameBuilds, TaskRows
  <1>3. CASE Rests
    <2>1. ASSUME NEW b \in Leased' PROVE Carries(b)'
      <3>1. b \in Leased /\ SameWork(b) /\ att[b].task \in Tasks
        BY <1>0, <1>3, <2>1, LeasedAfterWork, OwnedRow DEF Rests, SameLease, SameWork
      <3> QED
        BY <1>1, <1>2, <1>3, <3>1 DEF Rests
    <2> QED
      BY <2>1 DEF LeasesCarryWork
  <1>4. ASSUME NEW a \in Attempts, EndsWork(a) PROVE LeasesCarryWork'
    <2>1. ASSUME NEW b \in Leased' PROVE Carries(b)'
      <3>1. b \in Leased \ {a} /\ b \in Attempts /\ att'[b] = att[b] /\ a \in Leased
        BY <1>0, <1>4, <2>1, LeasedAfterWork, OwnedRow DEF EndsWork
      <3>2. att[b].task \in Tasks \ {att[a].task}
        BY <1>0, <3>1, OwnedRow
      <3>3. Idles(att[b].task)
        BY <1>4, <3>2 DEF EndsWork, Idles
      <3> QED
        BY <1>1, <1>2, <3>1, <3>3 DEF SameWork
    <2> QED
      BY <2>1 DEF LeasesCarryWork
  <1>5. ASSUME NEW t \in Tasks, NEW a \in Attempts, NEW c \in Accounts, GrantsWork(t, a, c)
        PROVE  LeasesCarryWork'
    <2>1. ASSUME NEW b \in Leased' PROVE Carries(b)'
      <3>1. CASE b = a
        <4>1. /\ att'[a].task = t /\ att'[a].phase = task'[t].phase
              /\ att'[a].phase \in Judged => att'[a].base = task'[t].build_attempt
              /\ att'[a].instruction_count = task'[t].instructions_pending
              /\ att'[a].account = c /\ att'[a].phase = task[t].phase
              /\ task'[t].build_attempt = task[t].build_attempt
          BY <1>0, <1>5, ClaimedRow DEF SameBuilds
        <4>2. att'[a].phase = "review" => c # Author(t)
          BY <1>5, <4>1 DEF GrantsWork, Eligible
        <4>3. Author(t)' = Author(t)
          BY <1>0, <4>1, AuthorStays
        <4>4. task'[t].instructions_pending \in Nat
          BY RowsThen DEF TaskRows
        <4>5. att'[a].instruction_count <= task'[t].instructions_pending
          BY <4>1, <4>4
        <4> QED
          BY <3>1, <4>1, <4>2, <4>3, <4>5
      <3>2. CASE b # a
        <4>1. b \in Leased /\ b \in Attempts /\ att'[b] = att[b]
          BY <1>0, <1>5, <2>1, <3>2, LeasedAfterWork, OwnedRow, ClaimedRow
        <4>2. att[b].task \in Tasks /\ task[att[b].task].state \in Active
          BY <1>0, <4>1, OwnedRow
        <4>3. att[b].task # t
          BY <1>0, <1>5, <4>2, ClaimedRow DEF Waiting, Active
        <4>4. Idles(att[b].task)
          BY <1>5, <4>2, <4>3 DEF GrantsWork, Idles
        <4> QED
          BY <1>1, <1>2, <4>1, <4>4 DEF SameWork
      <3> QED
        BY <3>1, <3>2
    <2> QED
      BY <2>1 DEF LeasesCarryWork
  <1> QED
    BY <1>3, <1>4, <1>5 DEF WorkStep

LEMMA TokensGrowStep ==
  ASSUME WorkInvariant, WorkStep, LeaseInvariant'
  PROVE  TokensGrow'
  <1>0. LeaseInvariant /\ AbsentTasksAreBlank /\ AttemptsAreClaimed /\ TokensGrow
    BY DEF WorkInvariant
  <1>n. \A a \in Attempts : att[a].token \in Nat
    BY <1>0, Rows DEF AttemptRows
  <1>1. ASSUME NEW a \in Attempts, att'[a].task \in Tasks
        PROVE  att'[a].token <= task'[att'[a].task].token
    <2>1. CASE SameWork(a)
      <3>1. PICK t \in Tasks : t = att[a].task /\ att'[a].task = t /\ att'[a].token = att[a].token
        BY <1>1, <2>1 DEF SameWork
      <3>2. att[a].token <= task[t].token /\ task'[t].token >= task[t].token
        BY <1>0, <3>1, RowsGrow DEF TokensGrow
      <3>3. att[a].token \in Nat /\ task[t].token \in Nat /\ task'[t].token \in Nat
        BY <1>0, <1>n, Rows, RowsThen DEF TaskRows
      <3> QED
        BY <3>1, <3>2, <3>3
    <2>2. ASSUME NEW t \in Tasks, NEW c \in Accounts, GrantsWork(t, a, c)
          PROVE  att'[a].token <= task'[att'[a].task].token
      <3>1. att'[a].task = t /\ att'[a].token = task[t].token + 1 /\ task'[t].token = task[t].token + 1
        BY <1>0, <2>2, ClaimedRow
      <3>2. task[t].token \in Nat
        BY <1>0, Rows DEF TaskRows
      <3> QED
        BY <3>1, <3>2
    <2> QED
      BY <1>0, <2>1, <2>2, AttemptsAfter
  <1>2. ASSUME NEW a \in Leased', NEW b \in Attempts \ {a}, att'[b].task = att'[a].task
        PROVE  att'[b].token < att'[a].token
    <2>1. CASE Rests \/ \E e \in Attempts : EndsWork(e)
      <3>1. a \in Leased /\ a \in Attempts
        BY <1>0, <2>1, LeasedAfterWork, OwnedRow
      <3>2. SameWork(a) /\ SameWork(b)
        BY <1>0, <2>1, <3>1 DEF Rests, SameLease, EndsWork, SameWork
      <3> QED
        BY <1>0, <1>2, <3>1, <3>2 DEF TokensGrow, SameWork
    <2>2. ASSUME NEW t \in Tasks, NEW e \in Attempts, NEW c \in Accounts, GrantsWork(t, e, c)
          PROVE  att'[b].token < att'[a].token
      <3>1. CASE a = e
        <4>1. att'[a].task = t /\ att'[a].token = task[t].token + 1 /\ att'[b] = att[b]
          BY <1>0, <2>2, <3>1, ClaimedRow
        <4>2. att[b].token <= task[t].token /\ task[t].token \in Nat /\ att[b].token \in Nat
          BY <1>0, <1>n, <1>2, <4>1, Rows DEF TokensGrow, TaskRows
        <4> QED
          BY <4>1, <4>2
      <3>2. CASE a # e
        <4>1. a \in Leased /\ a \in Attempts /\ att'[a] = att[a]
          BY <1>0, <1>2, <2>2, <3>2, LeasedAfterWork, OwnedRow, ClaimedRow
        <4>2. att[a].task # t
          BY <1>0, <2>2, <4>1, OwnedRow, ClaimedRow DEF Waiting, Active
        <4>3. b # e
          BY <1>0, <1>2, <2>2, <4>1, <4>2, ClaimedRow
        <4>4. att'[b] = att[b]
          BY <1>0, <2>2, <4>3, ClaimedRow
        <4> QED
          BY <1>0, <1>2, <4>1, <4>4 DEF TokensGrow
      <3> QED
        BY <3>1, <3>2
    <2> QED
      BY <2>1, <2>2 DEF WorkStep
  <1> QED
    BY <1>1, <1>2 DEF TokensGrow

\* What a task keeps of its candidate and its verdict when its row keeps naming them.
LEMMA EarnedStays ==
  ASSUME WorkInvariant, WorkStep, NEW t \in Tasks, SameBuilds(t),
         \/ task'[t].phase = task[t].phase
         \/ task'[t].phase \notin Judged,
         task'[t].state = "awaiting_input" => task'[t].phase \notin Judged
  PROVE  /\ task'[t].build_attempt # None => PassedAttempt(task[t].build_attempt, t, "build")'
         /\ task'[t].phase \in Judged => t \in Reviewed /\ task'[t].build_attempt # None
         /\ task'[t].phase = "direct" => t \in Directed /\ Approved(t)'
         /\ task'[t].state = "awaiting_input" => task'[t].phase \notin Judged
  <1>0. LeaseInvariant /\ PhasesAreEarned
    BY DEF WorkInvariant
  <1>1. /\ task[t].build_attempt # None => PassedAttempt(task[t].build_attempt, t, "build")
        /\ task[t].phase \in Judged => t \in Reviewed /\ task[t].build_attempt # None
        /\ task[t].phase = "direct" => t \in Directed /\ Approved(t)
    BY <1>0 DEF PhasesAreEarned
  <1>2. task'[t].build_attempt # None => PassedAttempt(task[t].build_attempt, t, "build")'
    <2> SUFFICES ASSUME task'[t].build_attempt # None
                 PROVE  PassedAttempt(task[t].build_attempt, t, "build")'
      OBVIOUS
    <2>1. PICK x : x = task[t].build_attempt /\ x = task'[t].build_attempt
      BY DEF SameBuilds
    <2>2. PassedAttempt(x, t, "build")
      BY <1>1, <2>1
    <2>3. PassedAttempt(x, t, "build")'
      BY <1>0, <2>2, PassedStays
    <2> QED
      BY <2>1, <2>3 DEF PassedAttempt
  <1>3. task'[t].phase = "direct" => t \in Directed /\ Approved(t)'
    BY <1>0, <1>1, ApprovedStays DEF SameBuilds, Judged
  <1> QED
    BY <1>1, <1>2, <1>3 DEF SameBuilds

LEMMA PhasesAreEarnedStep ==
  ASSUME WorkInvariant, WorkStep
  PROVE  PhasesAreEarned'
  <1>0. LeaseInvariant /\ AbsentTasksAreBlank /\ PhasesAreEarned /\ LeasesCarryWork /\ PlannersAsk
    BY DEF WorkInvariant
  <1> DEFINE Earned(t) ==
        /\ task[t].build_attempt # None => PassedAttempt(task[t].build_attempt, t, "build")
        /\ task[t].phase \in Judged => t \in Reviewed /\ task[t].build_attempt # None
        /\ task[t].phase = "direct" => t \in Directed /\ Approved(t)
        /\ task[t].state = "awaiting_input" => task[t].phase \notin Judged
  <1>e. \A t \in Tasks : Earned(t)
    BY <1>0 DEF PhasesAreEarned
  <1>1. ASSUME NEW t \in Tasks, SameBuilds(t),
               task'[t].phase = task[t].phase \/ task'[t].phase \notin Judged,
               task'[t].state = "awaiting_input" => task'[t].phase \notin Judged
        PROVE  Earned(t)'
    BY <1>1, EarnedStays
  <1>2. ASSUME NEW t \in Tasks, Idles(t) PROVE Earned(t)'
    <2>1. CASE Created(t)
      BY <2>1, NewTaskFields DEF Created, Judged
    <2>2. CASE task'[t] = task[t] \/ GoesOn(t)
      BY <1>1, <1>e, <2>2 DEF GoesOn, SameBuilds, Active
    <2>3. CASE Moves(t)
      BY <1>1, <1>e, <2>3 DEF Moves, Rework, Judged
    <2> QED
      BY <1>2, <2>1, <2>2, <2>3 DEF Idles
  <1>3. ASSUME NEW t \in Tasks, NEW a \in Attempts, NEW c \in Accounts, GrantsWork(t, a, c)
        PROVE  Earned(t)'
    <2>1. SameBuilds(t) /\ task'[t].phase = task[t].phase /\ task'[t].state # "awaiting_input"
      BY <1>0, <1>3, ClaimedRow
    <2> QED
      BY <1>1, <2>1
  <1>4. ASSUME NEW a \in Attempts, EndsWork(a), NEW t \in Tasks, t = att[a].task
        PROVE  Earned(t)'
    <2>1. a \in Leased /\ SameWork(a)
      BY <1>4 DEF EndsWork
    <2>2. /\ att[a].phase = task[t].phase
          /\ att[a].phase \in Judged => att[a].base = task[t].build_attempt
          /\ att[a].phase = "review" => att[a].account # Author(t)
      BY <1>0, <1>4, <2>1 DEF LeasesCarryWork
    <2>3. ASSUME NEW phase, att'[a].state = "passed", att[a].phase = phase
          PROVE  PassedAttempt(a, t, phase)'
      BY <1>4, <2>1, <2>3 DEF PassedAttempt, SameWork
    <2>4. CASE Redone(a)
      BY <1>0, <1>1, <1>4, <2>2, <2>4 DEF Redone, PlannersAsk, Judged
    <2>5. CASE PlanMade(a)
      <3>1. SameBuilds(t) /\ task'[t].phase = task[t].phase /\ task'[t].state # "awaiting_input"
        BY <1>0, <1>4, <2>1, <2>5, MadeRow DEF PlanMade, BuildMade, ReviewMade, DirectionMade, PassedAs
      <3> QED
        BY <1>1, <3>1
    <2>6. CASE BuildMade(a)
      <3>1. /\ task'[t].build_attempt = a /\ att[a].phase = "build" /\ att'[a].state = "passed"
            /\ task'[t].phase = (IF t \in Reviewed THEN "review" ELSE "build")
            /\ task'[t].state # "awaiting_input"
        BY <1>0, <1>4, <2>1, <2>6, MadeRow DEF PlanMade, BuildMade, ReviewMade, DirectionMade, PassedAs
      <3>2. PassedAttempt(a, t, "build")'
        BY <2>3, <3>1
      <3>3. a # None
        BY <1>4, NoneIsNoAttempt
      <3> QED
        BY <3>1, <3>2, <3>3 DEF Judged, PassedAttempt
    <2>7. CASE ReviewMade(a)
      <3>1. /\ task'[t].review_attempt = a /\ att[a].phase = "review" /\ att'[a].state = "passed"
            /\ task'[t].build_attempt = task[t].build_attempt
            /\ task'[t].phase = (IF t \in Directed THEN "direct" ELSE "review")
            /\ task'[t].state # "awaiting_input"
        BY <1>0, <1>4, <2>1, <2>7, MadeRow DEF PlanMade, BuildMade, ReviewMade, DirectionMade, PassedAs
      <3>2. PassedAttempt(a, t, "review")' /\ Author(t)' = Author(t)
        BY <1>0, <2>3, <3>1, AuthorStays
      <3>3. PICK x : x = task[t].build_attempt /\ x = task'[t].build_attempt
        BY <3>1
      <3>4. t \in Reviewed /\ x # None /\ PassedAttempt(x, t, "build")
        BY <1>e, <2>2, <3>1, <3>3 DEF Judged
      <3>5. PassedAttempt(x, t, "build")'
        BY <1>0, <3>4, PassedStays
      <3>6. att'[a].base = x /\ att'[a].account # Author(t)'
        BY <2>1, <2>2, <3>1, <3>2, <3>3 DEF SameWork, Judged
      <3>7. Approved(t)'
        BY <3>1, <3>2, <3>3, <3>6 DEF Approved, PassedAttempt
      <3> QED
        BY <3>1, <3>3, <3>4, <3>5, <3>7 DEF Judged, PassedAttempt
    <2>8. CASE DirectionMade(a)
      <3>1. /\ task'[t].build_attempt = task[t].build_attempt
            /\ task'[t].review_attempt = task[t].review_attempt
            /\ att[a].phase = "direct" /\ task'[t].phase = task[t].phase
            /\ task'[t].state # "awaiting_input"
        BY <1>0, <1>4, <2>1, <2>8, MadeRow DEF PlanMade, BuildMade, ReviewMade, DirectionMade, PassedAs
      <3>2. PICK x : x = task[t].build_attempt /\ x = task'[t].build_attempt
        BY <3>1
      <3>3. t \in Reviewed /\ t \in Directed /\ x # None /\ PassedAttempt(x, t, "build") /\ Approved(t)
        BY <1>e, <2>2, <3>1, <3>2 DEF Judged
      <3>4. PassedAttempt(x, t, "build")' /\ Approved(t)'
        BY <1>0, <3>1, <3>3, PassedStays, ApprovedStays
      <3> QED
        BY <3>1, <3>2, <3>3, <3>4 DEF PassedAttempt
    <2> QED
      BY <1>4, <2>4, <2>5, <2>6, <2>7, <2>8 DEF EndsWork
  <1>5. \A t \in Tasks : Earned(t)'
    BY <1>0, <1>2, <1>3, <1>4, RowsAfter
  <1> QED
    BY <1>5 DEF PhasesAreEarned

-------------------------------------------------------------------------------
(* What becomes of a guardian and of the scheduler's place in its loop *)

GuardianStep(a) ==
  \/ guard'[a] = guard[a] /\ outcome'[a] = outcome[a]
  \/ /\ pc = "spawn" /\ slot = a /\ guard'[a] = "starting" /\ outcome'[a] = outcome[a]
     /\ pc' = "idle"
  \/ /\ guard[a] = "starting" /\ att[a].state = "leased" /\ guard'[a] = "up"
     /\ outcome'[a] = outcome[a]
  \/ /\ guard[a] \in Working /\ guard'[a] \in Working /\ outcome'[a] = outcome[a]
  \/ /\ guard[a] \in Working /\ guard'[a] = "done"
     /\ outcome'[a] = "clarify" => att[a].phase \in {"plan", "replan"}
  \/ /\ guard[a] = "starting" /\ guard'[a] = "dead" /\ outcome'[a] # "clarify"
  \/ /\ guard[a] \in Up /\ guard'[a] = "dead" /\ outcome'[a] = outcome[a]

ThreadStep ==
  \/ pc' = pc /\ slot' = slot
  \/ pc' \notin {"release", "spawn"}
  \/ /\ pc' = "spawn" /\ pc = "claim" /\ slot' \in Attempts
     /\ att[slot'] = UnusedAttempt /\ att'[slot'].state = "leased"
  \/ /\ pc' = "release" /\ slot' \in Attempts
     /\ guard[slot'] \notin Up \/ "slow" \in Faults
     /\ child[slot'] # "recorded"

\* A step of a guardian, or of its child, moves no other guardian and not the scheduler.
LEMMA GuardiansMove ==
  ASSUME LeaseInvariant, NEW a \in Attempts,
         Guardian(a) \/ ChildExits(a) \/ GuardianKilled(a)
  PROVE  (\A b \in Attempts : GuardianStep(b)) /\ ThreadStep
  <1>1. guard \in [Attempts -> Up \cup {"none", "dead"}]
        /\ outcome \in [Attempts -> Outcomes \cup {"none"}]
    BY DEF LeaseInvariant, TypeOK, TypeWorld
  <1>2. pc' = pc /\ slot' = slot
    BY DEF Guardian, Register, RegistrationRefused, RegistrationDenied, Launch, RecordChild,
       Verify, Report, GuardianExits, ChildExits, GuardianKilled, sched
  <1>3. \A b \in Attempts \ {a} : guard'[b] = guard[b] /\ outcome'[b] = outcome[b]
    BY <1>1 DEF Guardian, Register, RegistrationRefused, RegistrationDenied, Launch, RecordChild,
       Verify, Report, GuardianExits, ChildExits, GuardianKilled
  <1>4. GuardianStep(a)
    <2>1. CASE Register(a)
      BY <1>1, <2>1 DEF Register, MayRegister, GuardianStep
    <2>2. CASE RegistrationRefused(a) \/ RegistrationDenied(a)
      BY <1>1, <2>2 DEF RegistrationRefused, RegistrationDenied, GuardianStep, Up
    <2>3. CASE Launch(a) \/ RecordChild(a) \/ Verify(a) \/ ChildExits(a)
      BY <1>1, <2>3 DEF Launch, RecordChild, Verify, ChildExits, GuardianStep, Working
    <2>4. CASE \E result \in Outcomes : Report(a, result)
      <3>1. PICK result \in Outcomes : Report(a, result)
        BY <2>4
      <3>2. guard[a] \in Working /\ guard'[a] = "done" /\ outcome'[a] = result
        BY <1>1, <3>1 DEF Report, Working
      <3>3. result = "clarify" => att[a].phase \in {"plan", "replan"}
        <4>1. att[a].phase \in Phases
          BY Rows DEF AttemptRows
        <4>2. Ends \subseteq Results
          BY LeaseAssumption DEF LeaseAssumptions, Results
        <4>3. result = "clarify" => result \in CliResults(a)
          BY <3>1, <4>2 DEF Report, EarlyEnds, Verdicts, Results
        <4>4. "clarify" \in CliResults(a) => att[a].phase \in {"plan", "replan"}
          <5>1. CASE stop[a]
            BY <5>1 DEF CliResults
          <5>2. CASE ~stop[a] /\ att[a].phase \in {"build", "review", "direct"}
            BY <4>2, <5>2 DEF CliResults, Results
          <5>3. CASE att[a].phase \in {"plan", "replan"}
            BY <5>3
          <5>4. stop[a] \in BOOLEAN
            BY DEF LeaseInvariant, TypeOK, TypeWorld
          <5> QED
            BY <4>1, <5>1, <5>2, <5>3, <5>4 DEF Phases
        <4> QED
          BY <4>3, <4>4
      <3> QED
        BY <3>2, <3>3 DEF GuardianStep
    <2>5. CASE GuardianExits(a) \/ GuardianKilled(a)
      BY <1>1, <2>5 DEF GuardianExits, GuardianKilled, GuardianStep, Up
    <2> QED
      BY <2>1, <2>2, <2>3, <2>4, <2>5 DEF Guardian
  <1> QED
    BY <1>2, <1>3, <1>4 DEF GuardianStep, ThreadStep

LEMMA EveryGuardianStep ==
  ASSUME LeaseInvariant, [Next]_vars
  PROVE  (\A b \in Attempts : GuardianStep(b)) /\ ThreadStep
  <1>1. CASE \E a \in Attempts : Guardian(a) \/ ChildExits(a) \/ GuardianKilled(a)
    BY <1>1, GuardiansMove
  <1>2. CASE Spawn
    <2>1. guard \in [Attempts -> Up \cup {"none", "dead"}] /\ slot \in Attempts
      BY <1>2 DEF Spawn, LeaseInvariant, TypeOK, TypeWorld, TypeThread
    <2> QED
      BY <1>2, <2>1 DEF Spawn, GuardianStep, ThreadStep
  <1>3. CASE \E t \in Tasks, c \in Accounts : Claim(t, c)
    <2>1. PICK t \in Tasks, c \in Accounts : Claim(t, c)
      BY <1>3
    <2>2. PICK a \in Attempts : a = Fresh /\ att[a] = UnusedAttempt
      BY <2>1 DEF Claim, Dispatching, Spent, Fresh
    <2>3. att' = [att EXCEPT ![a] = Lease(t, c)] /\ Lease(t, c).state = "leased"
      BY <2>1, <2>2 DEF Claim, Lease, Judged
    <2>4. att'[a].state = "leased"
      BY <2>3, Rows
    <2> QED
      BY <2>1, <2>2, <2>4 DEF Claim, Dispatching, GuardianStep, ThreadStep, world
  <1>4. CASE \E a \in Attempts : Inspect(a)
    <2>1. PICK a \in Attempts : Inspect(a)
      BY <1>4
    <2>2. CASE OrphanFound(a)
      BY <2>1, <2>2
      DEF OrphanFound, Orphaned, Overdue, ChildStopped, GuardianStep, ThreadStep, world
    <2>3. CASE InspectionDenied(a) \/ LeftAlone(a) \/ OrphanHeld(a)
      BY <2>3 DEF InspectionDenied, LeftAlone, OrphanHeld, GuardianStep, ThreadStep, world
    <2>4. CASE Finish(a)
      BY <2>4
      DEF Finish, FinishUnconfirmed, FinishCancelled, FinishOutdated, FinishClarify, FinishPlan,
          FinishReplan, FinishBuild, FinishReview, FinishDirect, FinishTrouble, FinishRetry,
          FinishRepair, FinishBlocked, EndsWith, GuardianStep, ThreadStep, world
    <2> QED
      BY <2>1, <2>2, <2>3, <2>4 DEF Inspect
  <1>5. CASE \/ ControllerRestarts \/ TickBegins \/ Release \/ DispatchBegins \/ NothingStartable
             \/ AtCapacity \/ DispatchPaused \/ ControllerCrash
    BY <1>5
    DEF ControllerRestarts, TickBegins, Release, DispatchBegins, NothingStartable, AtCapacity,
        DispatchPaused, ControllerCrash, GuardianStep, ThreadStep, world
  <1>6. CASE Owner \/ Staging \/ Clock \/ (\E t \in Tasks : Signal(t)) \/ UNCHANGED vars
    <2>1. UNCHANGED <<guard, outcome, pc, slot>>
      BY <1>6
      DEF Owner, AddGoal, Answer, Instruct, Cancel, Retry, StopAll, PauseDispatch,
          ResumeDispatch, SetCapacity, SetProject, SetAccount, Staging, IntegrationSucceeds,
          IntegrationFails, Decide, Clock, CooldownEnds, AccountRests, Signal, world, sched, vars
    <2> QED
      BY <2>1 DEF GuardianStep, ThreadStep
  <1> QED
    BY <1>1, <1>2, <1>3, <1>4, <1>5, <1>6 DEF Next, Scheduler

LEMMA PlannersAskStep ==
  ASSUME WorkInvariant, WorkStep, \A b \in Attempts : GuardianStep(b), ThreadStep
  PROVE  PlannersAsk'
  <1>0. LeaseInvariant /\ PlannersAsk
    BY DEF WorkInvariant
  <1>1. pc = "spawn" => slot \in Attempts
    BY <1>0 DEF LeaseInvariant, TypeOK, TypeThread
  <1>2. pc' = "spawn" => att'[slot'].state # "unused"
    BY <1>0, <1>1, AttemptsAfter DEF ThreadStep, PlannersAsk
  <1>3. ASSUME NEW a \in Attempts, att'[a].state = "unused"
        PROVE  guard'[a] = "none" /\ outcome'[a] = "none"
    <2>1. att[a].state = "unused"
      BY <1>0, <1>3, AttemptsAfter
    <2>2. guard[a] = "none" /\ outcome[a] = "none" /\ (pc = "spawn" => slot # a)
      BY <1>0, <2>1 DEF PlannersAsk
    <2> QED
      BY <2>2 DEF GuardianStep, Working, Up
  <1>4. ASSUME NEW a \in Attempts, outcome'[a] = "clarify"
        PROVE  att'[a].phase \in {"plan", "replan"}
    <2>1. att[a].phase \in {"plan", "replan"}
      BY <1>0, <1>4 DEF GuardianStep, PlannersAsk
    <2>2. att[a].state # "unused"
      <3>1. outcome'[a] # outcome[a] => guard[a] # "none"
        BY <1>4 DEF GuardianStep, Working, Up
      <3> QED
        BY <1>0, <1>4, <3>1 DEF PlannersAsk
    <2> QED
      BY <1>0, <2>1, <2>2, AttemptsAfter DEF SameWork
  <1> QED
    BY <1>2, <1>3, <1>4 DEF PlannersAsk

-------------------------------------------------------------------------------
(* The invariant *)

LEMMA InitWorkInvariant == Init => WorkInvariant
  <1> SUFFICES ASSUME Init PROVE WorkInvariant
    OBVIOUS
  <1>1. /\ \A t \in Tasks : task[t] = Absent /\ deps[t] = {}
        /\ \A a \in Attempts : att[a] = UnusedAttempt /\ guard[a] = "none" /\ outcome[a] = "none"
        /\ pc = "idle"
    BY DEF Init
  <1>2. /\ Absent.build_attempt = None /\ Absent.phase = "build" /\ Absent.state = "absent"
        /\ UnusedAttempt.state = "unused" /\ UnusedAttempt.task = None
    BY DEF Absent, NewTask, UnusedAttempt
  <1>3. Leased = {}
    BY <1>1, <1>2 DEF Leased, Active
  <1>4. AbsentTasksAreBlank /\ AttemptsAreClaimed
    BY <1>1, <1>2 DEF AbsentTasksAreBlank, AttemptsAreClaimed
  <1>5. LeasesCarryWork /\ TokensGrow
    BY <1>1, <1>2, <1>3, NoneIsNoTask DEF LeasesCarryWork, TokensGrow
  <1>6. PhasesAreEarned
    BY <1>1, <1>2 DEF PhasesAreEarned, Judged
  <1>7. PlannersAsk
    BY <1>1 DEF PlannersAsk
  <1> QED
    BY <1>4, <1>5, <1>6, <1>7, InitLeaseInvariant DEF WorkInvariant

LEMMA WorkInvariantStep ==
  ASSUME WorkInvariant, [Next]_vars
  PROVE  WorkInvariant' /\ WorkStep
  <1>1. LeaseInvariant /\ AbsentTasksAreBlank
    BY DEF WorkInvariant
  <1>2. LeaseInvariant'
    BY <1>1, EveryStep, LeaseStepInvariant
  <1>3. WorkStep
    BY <1>1, EveryWorkStep
  <1>4. (\A b \in Attempts : GuardianStep(b)) /\ ThreadStep
    BY <1>1, EveryGuardianStep
  <1> QED
    BY <1>1, <1>2, <1>3, <1>4, AbsentTasksStep, AttemptsClaimedStep, LeasesCarryWorkStep,
       TokensGrowStep, PhasesAreEarnedStep, PlannersAskStep
    DEF WorkInvariant

\* What every lease, row and guardian carries, in every reachable state.
THEOREM WorkInvariantHolds == Spec => []WorkInvariant
  <1>1. WorkInvariant /\ [Next]_vars => WorkInvariant'
    BY WorkInvariantStep
  <1> QED
    BY InitWorkInvariant, <1>1, PTL DEF Spec

-------------------------------------------------------------------------------
(* What may be staged *)

LEMMA VettedStep ==
  ASSUME WorkInvariant, OnlyVettedWorkIsStaged, WorkStep
  PROVE  OnlyVettedWorkIsStaged'
  <1>0. LeaseInvariant /\ PhasesAreEarned /\ LeasesCarryWork
    BY DEF WorkInvariant
  \* What vouches for a candidate goes on vouching for it.
  <1>1. ASSUME NEW t \in Tasks, SameBuilds(t), Vetted(t) PROVE Vetted(t)'
    <2>1. \A x, phase : PassedAttempt(x, t, phase) => PassedAttempt(x, t, phase)' /\ att'[x] = att[x]
      BY <1>0, PassedStays
    <2>2. Author(t)' = Author(t)
      BY <1>0, <1>1, AuthorStays DEF SameBuilds
    <2>3. PICK x, y, z :
            /\ x = task[t].build_attempt /\ x = task'[t].build_attempt
            /\ y = task[t].review_attempt /\ y = task'[t].review_attempt
            /\ z = task[t].director_review_attempt /\ z = task'[t].director_review_attempt
      BY <1>1 DEF SameBuilds
    <2>4. PassedAttempt(x, t, "build")'
      BY <1>1, <2>1, <2>3 DEF Vetted
    <2>5. t \in Reviewed => PassedAttempt(y, t, "review")' /\ att'[y].base = x
                             /\ att'[y].account # Author(t)'
      BY <1>1, <2>1, <2>2, <2>3 DEF Vetted
    <2>6. t \in Reviewed \cap Directed => PassedAttempt(z, t, "direct")' /\ att'[z].base = x
      BY <1>1, <2>1, <2>3 DEF Vetted
    <2> QED
      BY <2>3, <2>4, <2>5, <2>6 DEF Vetted, PassedAttempt
  <1>2. ASSUME NEW t \in Tasks, Idles(t), task'[t].state \in Staged PROVE Vetted(t)'
    <2>1. task[t].state \in Staged /\ SameBuilds(t)
      BY <1>2, NewTaskFields DEF Idles, Created, GoesOn, Moves, SameBuilds, Staged, Active
    <2> QED
      BY <1>1, <2>1 DEF OnlyVettedWorkIsStaged, Staged
  <1>3. ASSUME NEW a \in Attempts, EndsWork(a), NEW t \in Tasks, t = att[a].task,
               task'[t].state \in Staged
        PROVE  Vetted(t)'
    <2>1. a \in Leased /\ SameWork(a) /\ ~Redone(a)
      BY <1>3 DEF EndsWork, Redone, Staged, Settled
    <2>2. /\ att[a].phase = task[t].phase
          /\ att[a].phase \in Judged => att[a].base = task[t].build_attempt
      BY <1>0, <1>3, <2>1 DEF LeasesCarryWork
    <2>3. PICK x : x = task[t].build_attempt
      OBVIOUS
    <2>4. /\ x # None => PassedAttempt(x, t, "build") /\ PassedAttempt(x, t, "build")'
          /\ att[a].phase \in Judged => t \in Reviewed /\ x # None
          /\ att[a].phase = "direct" => t \in Directed /\ Approved(t)
      BY <1>0, <2>2, <2>3, PassedStays DEF PhasesAreEarned
    <2>5. ASSUME NEW phase, att'[a].state = "passed", att[a].phase = phase
          PROVE  PassedAttempt(a, t, phase)'
      BY <1>3, <2>1, <2>5 DEF PassedAttempt, SameWork
    <2>6. CASE BuildMade(a) /\ task'[t].build_attempt = a /\ att[a].phase = "build" /\ t \notin Reviewed
      BY <2>5, <2>6 DEF BuildMade, PassedAs, Vetted, PassedAttempt
    <2>7. CASE /\ ReviewMade(a) /\ task'[t].review_attempt = a /\ att[a].phase = "review"
               /\ task'[t].build_attempt = x /\ t \notin Directed
      <3>1. PassedAttempt(a, t, "review")' /\ Author(t)' = Author(t)
        BY <1>0, <2>3, <2>5, <2>7, AuthorStays DEF ReviewMade, PassedAs
      <3>2. PassedAttempt(x, t, "build")' /\ att'[a].base = x
        BY <2>1, <2>2, <2>3, <2>4, <2>7 DEF Judged, SameWork
      <3>3. att'[a].account # Author(t)'
        BY <1>0, <1>3, <2>1, <2>7, <3>1 DEF LeasesCarryWork, SameWork
      <3> QED
        BY <2>7, <3>1, <3>2, <3>3 DEF Vetted, PassedAttempt
    <2>8. CASE /\ DirectionMade(a) /\ task'[t].director_review_attempt = a
               /\ att[a].phase = "direct" /\ task'[t].build_attempt = x
               /\ task'[t].review_attempt = task[t].review_attempt
      <3>1. PassedAttempt(a, t, "direct")' /\ att'[a].base = x
        BY <2>1, <2>2, <2>3, <2>5, <2>8 DEF DirectionMade, PassedAs, Judged, SameWork
      <3>2. PassedAttempt(x, t, "build")' /\ Approved(t)'
        BY <1>0, <2>3, <2>4, <2>8, ApprovedStays DEF Judged
      <3> QED
        BY <2>8, <3>1, <3>2 DEF Vetted, Approved, PassedAttempt
    <2>9. PlanMade(a) \/ BuildMade(a) \/ ReviewMade(a) \/ DirectionMade(a)
      BY <1>3, <2>1 DEF EndsWork
    <2> QED
      BY <1>0, <1>3, <2>1, <2>3, <2>6, <2>7, <2>8, <2>9, MadeRow DEF Staged
  <1>4. ASSUME NEW t \in Tasks, task'[t].state \in Staged PROVE Vetted(t)'
    <2>1. \A a \in Attempts, c \in Accounts : ~GrantsWork(t, a, c)
      BY <1>0, <1>4, ClaimedRow DEF Staged
    <2> QED
      BY <1>0, <1>2, <1>3, <1>4, <2>1, RowsAfter
  <1> QED
    BY <1>4 DEF OnlyVettedWorkIsStaged, Staged

\* Only work that was built by a passed build, approved as exactly that candidate by another
\* account's review, and for directed work by the director, is integrated or shown to the owner:
\* finish() never stages anything else, and nothing that happens later takes the vouchers away.
THEOREM StagedWorkIsVetted == Spec => []OnlyVettedWorkIsStaged
  <1>1. Init => OnlyVettedWorkIsStaged
    BY DEF Init, Absent, NewTask, OnlyVettedWorkIsStaged
  <1>2. WorkInvariant /\ OnlyVettedWorkIsStaged /\ [Next]_vars => OnlyVettedWorkIsStaged'
    BY WorkInvariantStep, VettedStep
  <1> QED
    BY WorkInvariantHolds, <1>1, <1>2, PTL DEF Spec

-------------------------------------------------------------------------------
(* Dependencies *)

DependencyInvariant ==
  OnlyVettedWorkIsStaged /\ DependenciesExist /\ WorkFollowsItsDependencies

\* Work that is there and is not a request to plan never becomes one.
LEMMA NeverAPlanAgain ==
  ASSUME WorkInvariant, WorkStep, NEW u \in Tasks,
         task[u].state # "absent", task[u].phase # "plan"
  PROVE  task'[u].state # "absent" /\ task'[u].phase # "plan"
  <1>0. LeaseInvariant /\ AbsentTasksAreBlank /\ LeasesCarryWork
    BY DEF WorkInvariant
  <1>1. ASSUME Idles(u) PROVE task'[u].phase # "plan"
    BY <1>1 DEF Idles, Created, GoesOn, Moves, Rework
  <1>2. ASSUME NEW a \in Attempts, EndsWork(a), att[a].task = u PROVE task'[u].phase # "plan"
    <2>1. a \in Leased /\ att[a].phase = task[u].phase
      BY <1>0, <1>2 DEF EndsWork, LeasesCarryWork
    <2>2. CASE Redone(a)
      BY <1>2, <2>1, <2>2 DEF Redone
    <2>3. CASE ~Redone(a)
      BY <1>0, <1>2, <2>1, <2>3, MadeRow DEF EndsWork
    <2> QED
      BY <2>2, <2>3
  <1>3. ASSUME NEW a \in Attempts, NEW c \in Accounts, GrantsWork(u, a, c)
        PROVE  task'[u].phase # "plan"
    BY <1>0, <1>3, ClaimedRow
  <1> QED
    BY <1>0, <1>1, <1>2, <1>3, RowsAfter, RowsGrow

\* A task that was built, reviewed and approved once stays so.
LEMMA OnceVettedStays ==
  ASSUME WorkInvariant, WorkStep, NEW u \in Tasks, OnceVetted(u)
  PROVE  OnceVetted(u)'
  <1>0. LeaseInvariant /\ AbsentTasksAreBlank
    BY DEF WorkInvariant
  <1>1. SameBuilds(u) => OnceVetted(u)'
    BY DEF SameBuilds, OnceVetted
  <1>2. CASE Idles(u)
    BY <1>0, <1>1, <1>2, RowsGrow DEF Idles, GoesOn, Moves, SameBuilds, OnceVetted
  <1>3. ASSUME NEW a \in Attempts, EndsWork(a), att[a].task = u PROVE OnceVetted(u)'
    <2>1. a \in Leased /\ a # None
      BY <1>3, NoneIsNoAttempt DEF EndsWork
    <2>2. CASE Redone(a)
      BY <1>1, <1>3, <2>2 DEF Redone
    <2>3. CASE ~Redone(a)
      BY <1>0, <1>1, <1>3, <2>1, <2>3, MadeRow DEF EndsWork, OnceVetted
    <2> QED
      BY <2>2, <2>3
  <1>4. ASSUME NEW a \in Attempts, NEW c \in Accounts, GrantsWork(u, a, c) PROVE OnceVetted(u)'
    BY <1>0, <1>1, <1>4, ClaimedRow
  <1> QED
    BY <1>0, <1>2, <1>3, <1>4, RowsAfter

LEMMA VettedOnce ==
  ASSUME NEW t, Vetted(t)
  PROVE  OnceVetted(t)
  BY NoneIsNoAttempt DEF Vetted, PassedAttempt, OnceVetted

LEMMA CompletedOnceVetted ==
  ASSUME WorkInvariant, OnlyVettedWorkIsStaged, DependenciesExist, WorkStep, NEW t \in Tasks,
         task'[t].state = "completed", task'[t].phase # "plan"
  PROVE  OnceVetted(t)'
  <1>0. LeaseInvariant
    BY DEF WorkInvariant
  <1>1. CASE Idles(t)
    <2>1. /\ task[t].state \in {"ready_for_approval", "completed"}
          /\ task[t].phase = task'[t].phase
      BY <1>1, NewTaskFields DEF Idles, Created, GoesOn, Moves, Active
    <2>2. OnceVetted(t)
      BY <2>1, VettedOnce DEF OnlyVettedWorkIsStaged, DependenciesExist
    <2> QED
      BY <2>2, OnceVettedStays
  <1>2. ASSUME NEW a \in Attempts, EndsWork(a), att[a].task = t PROVE FALSE
    <2>1. a \in Leased /\ att[a].phase = task[t].phase
      BY <1>2 DEF WorkInvariant, EndsWork, LeasesCarryWork
    <2>2. ~Redone(a)
      BY <1>2 DEF Redone, Settled
    <2> QED
      BY <1>0, <1>2, <2>1, <2>2, MadeRow DEF EndsWork
  <1>3. ASSUME NEW a \in Attempts, NEW c \in Accounts, GrantsWork(t, a, c) PROVE FALSE
    BY <1>0, <1>3, ClaimedRow
  <1> QED
    BY <1>0, <1>1, <1>2, <1>3, RowsAfter

LEMMA DependencyStep ==
  ASSUME WorkInvariant, DependencyInvariant, WorkStep, TypeOK'
  PROVE  DependencyInvariant'
  <1>0. LeaseInvariant /\ AbsentTasksAreBlank /\ AttemptsAreClaimed /\ deps \in [Tasks -> SUBSET Tasks]
        /\ Depends
    BY Rows DEF WorkInvariant, WorkStep
  <1>t. deps' \in [Tasks -> SUBSET Tasks]
    BY DEF TypeOK, TypeStore
  <1>1. OnlyVettedWorkIsStaged /\ DependenciesExist /\ WorkFollowsItsDependencies
    BY DEF DependencyInvariant
  <1>2. ASSUME NEW t \in Tasks, NEW d \in deps'[t]
        PROVE  task'[d].state # "absent" /\ task'[d].phase # "plan"
    <2>1. ASSUME NEW s \in Tasks, d \in deps[s]
          PROVE  task'[d].state # "absent" /\ task'[d].phase # "plan"
      BY <1>0, <1>1, <2>1, NeverAPlanAgain DEF DependenciesExist
    <2>2. CASE deps'[t] = deps[t]
      BY <1>2, <2>1, <2>2
    <2>3. CASE Created(d) /\ task'[d] = NewTask("build")
      BY <2>3, NewTaskFields
    <2>4. CASE task[d].state # "absent" /\ task[d].phase # "plan" /\ d \in Tasks
      BY <2>4, NeverAPlanAgain
    <2>5. ASSUME Created(t), deps'[t] # deps[t]
          PROVE  \/ Created(d) /\ task'[d] = NewTask("build")
                 \/ d \in Tasks /\ task[d].state # "absent" /\ task[d].phase # "plan"
                 \/ \E s \in Tasks : d \in deps[s]
      <3>1. deps'[t] \subseteq Tasks
        BY <1>t, <1>2
      <3> QED
        BY <1>0, <1>2, <2>5, <3>1 DEF Depends
    <2> QED
      BY <1>0, <1>2, <2>1, <2>2, <2>3, <2>4, <2>5 DEF Depends
  <1>3. DependenciesExist'
    BY <1>1, <1>2, CompletedOnceVetted DEF DependenciesExist
  <1>4. ASSUME NEW a \in Attempts, att'[a].task # None,
               NEW d \in deps'[att'[a].task]
        PROVE  OnceVetted(d)'
    <2>1. CASE att[a].state # "unused"
      <3>1. PICK t \in Tasks : t = att[a].task /\ att'[a].task = t /\ task[t].state # "absent"
        BY <1>0, <2>1, AttemptsAfter DEF AttemptsAreClaimed, SameWork
      <3>2. deps'[t] = deps[t]
        BY <1>0, <3>1 DEF Depends, Created
      <3>3. OnceVetted(d) /\ d \in Tasks
        BY <1>0, <1>1, <1>4, <3>1, <3>2, NoneIsNoTask DEF WorkFollowsItsDependencies
      <3> QED
        BY <3>3, OnceVettedStays
    <2>2. CASE att[a].state = "unused"
      <3>1. att[a] = UnusedAttempt /\ UnusedAttempt.task = None
        BY <1>0, <2>2 DEF AttemptsAreClaimed, UnusedAttempt
      <3>2. PICK t \in Tasks, c \in Accounts : GrantsWork(t, a, c)
        BY <1>0, <1>4, <3>1, AttemptsAfter DEF SameWork
      <3>3. att'[a].task = t /\ deps'[t] = deps[t]
        <4>1. UNCHANGED deps
          BY <3>2 DEF GrantsWork
        <4> QED
          BY <1>0, <3>2, <4>1, ClaimedRow
      <3>4. d \in deps[t] /\ d \in Tasks
        BY <1>0, <1>4, <3>3
      <3>5. task[d].state \in Success
        BY <3>2, <3>4 DEF GrantsWork, Startable, Blocked
      <3>6. OnceVetted(d)
        BY <1>1, <3>4, <3>5, VettedOnce DEF OnlyVettedWorkIsStaged, DependenciesExist, Success
      <3> QED
        BY <3>4, <3>6, OnceVettedStays
    <2> QED
      BY <2>1, <2>2
  <1>5. WorkFollowsItsDependencies'
    BY <1>4 DEF WorkFollowsItsDependencies
  <1> QED
    BY <1>1, <1>3, <1>5, VettedStep DEF DependencyInvariant

LEMMA InitDependencyInvariant == Init => DependencyInvariant
  <1> SUFFICES ASSUME Init PROVE DependencyInvariant
    OBVIOUS
  <1>1. /\ \A t \in Tasks : task[t] = Absent /\ deps[t] = {}
        /\ \A a \in Attempts : att[a] = UnusedAttempt
    BY DEF Init
  <1>2. Absent.state = "absent" /\ UnusedAttempt.task = None
    BY DEF Absent, NewTask, UnusedAttempt
  <1> QED
    BY <1>1, <1>2
    DEF DependencyInvariant, OnlyVettedWorkIsStaged, DependenciesExist, WorkFollowsItsDependencies

\* No attempt is ever claimed for a task one of whose dependencies was not built, reviewed and
\* directed as it has to be, whatever plan created it and whatever happened to the dependency.
THEOREM WorkFollowsDependencies == Spec => []WorkFollowsItsDependencies
  <1>1. WorkInvariant /\ DependencyInvariant /\ [Next]_vars => DependencyInvariant'
    BY WorkInvariantStep, DependencyStep DEF WorkInvariant, LeaseInvariant
  <1>2. DependencyInvariant => WorkFollowsItsDependencies
    BY DEF DependencyInvariant
  <1> QED
    BY WorkInvariantHolds, InitDependencyInvariant, <1>1, <1>2, PTL DEF Spec

-------------------------------------------------------------------------------
(* Budgets *)

ChargesInvariant == FailuresAreFinite /\ FailuresAreCharged

Allowed(t) == Charges(task[t]) + (IF task[t].state \in AtRest THEN 1 ELSE 0)

\* The failed attempts of a task after a step.
LEMMA FailuresAfter ==
  ASSUME WorkInvariant, WorkStep, NEW t \in Tasks
  PROVE  /\ (~\E a \in Attempts : EndsWork(a) /\ att[a].task = t) => Failures(t)' = Failures(t)
         /\ \A a \in Attempts : EndsWork(a) /\ att[a].task = t =>
              Failures(t)' = IF att'[a].state = "passed" THEN Failures(t) ELSE Failures(t) \cup {a}
         /\ task[t].state = "absent" => Failures(t) = {}
  <1>0. LeaseInvariant /\ AttemptsAreClaimed
    BY DEF WorkInvariant
  <1>f. Failures(t) = {a \in Attempts : att[a].task = t /\ att[a].state \notin Active \cup {"passed"}}
    BY DEF Failures
  <1>1. task[t].state = "absent" => Failures(t) = {}
    <2>1. \A a \in Attempts : att[a].task = t => task[t].state # "absent"
      <3>1. UnusedAttempt.task = None
        BY DEF UnusedAttempt
      <3> QED
        BY <1>0, <3>1, NoneIsNoTask DEF AttemptsAreClaimed
    <2> QED
      BY <1>f, <2>1
  <1>2. CASE Rests
    <2>1. \A a \in Attempts : SameLease(a)
      BY <1>2 DEF Rests
    <2>2. \A a \in Attempts : a \in Failures(t)' <=> a \in Failures(t)
      BY <2>1 DEF Failures, SameLease, SameWork
    <2>3. Failures(t)' = Failures(t)
      BY <2>2 DEF Failures
    <2>4. ~\E a \in Attempts : EndsWork(a)
      BY <2>1 DEF EndsWork, SameLease, Leased, Results, Active
    <2> QED
      BY <1>1, <2>3, <2>4
  <1>3. ASSUME NEW e \in Attempts, EndsWork(e)
        PROVE  /\ att[e].task # t => Failures(t)' = Failures(t)
               /\ att[e].task = t => Failures(t)' = IF att'[e].state = "passed" THEN Failures(t)
                                                    ELSE Failures(t) \cup {e}
               /\ \A a \in Attempts : EndsWork(a) => a = e
    <2>1. /\ e \in Leased /\ SameWork(e) /\ att'[e].state \notin Active
          /\ \A b \in Attempts \ {e} : att'[b] = att[b]
      BY <1>3 DEF EndsWork, Results, Active
    <2>2. e \notin Failures(t)
      BY <2>1 DEF Failures, Leased
    <2>3. e \in Failures(t)' <=> att[e].task = t /\ att'[e].state # "passed"
      BY <2>1 DEF Failures, SameWork
    <2>4. \A b \in Attempts \ {e} : b \in Failures(t)' <=> b \in Failures(t)
      BY <2>1 DEF Failures
    <2>5. \A a \in Attempts : EndsWork(a) => a = e
      BY <2>1 DEF EndsWork, Results, Leased, Active
    <2>6. Failures(t) \subseteq Attempts /\ Failures(t)' \subseteq Attempts
      BY DEF Failures
    <2> QED
      BY <2>2, <2>3, <2>4, <2>5, <2>6
  <1>4. ASSUME NEW u \in Tasks, NEW e \in Attempts, NEW c \in Accounts, GrantsWork(u, e, c)
        PROVE  Failures(t)' = Failures(t) /\ ~\E a \in Attempts : EndsWork(a)
    <2>1. /\ att'[e].state = "leased" /\ att[e].task = None /\ att[e].state = "unused"
          /\ \A b \in Attempts \ {e} : att'[b] = att[b]
      BY <1>0, <1>4, ClaimedRow
    <2>2. e \notin Failures(t) /\ e \notin Failures(t)'
      BY <2>1, NoneIsNoTask DEF Failures, Active
    <2>3. \A b \in Attempts \ {e} : b \in Failures(t)' <=> b \in Failures(t)
      BY <2>1 DEF Failures
    <2>4. Failures(t) \subseteq Attempts /\ Failures(t)' \subseteq Attempts
      BY DEF Failures
    <2>5. ~\E a \in Attempts : EndsWork(a)
      BY <2>1 DEF EndsWork, Results, Leased, Active
    <2> QED
      BY <2>2, <2>3, <2>4, <2>5
  <1> QED
    BY <1>1, <1>2, <1>3, <1>4 DEF WorkStep

LEMMA ChargesStep ==
  ASSUME WorkInvariant, ChargesInvariant, WorkStep, WorkInvariant'
  PROVE  ChargesInvariant'
  <1>0. LeaseInvariant /\ AbsentTasksAreBlank
    BY DEF WorkInvariant
  <1>1. ASSUME NEW t \in Tasks
        PROVE  /\ IsFiniteSet(Failures(t)')
               /\ t \notin Directed => Cardinality(Failures(t)') <= Allowed(t)'
    <2>1. /\ IsFiniteSet(Failures(t)) /\ Cardinality(Failures(t)) \in Nat
          /\ t \notin Directed => Cardinality(Failures(t)) <= Allowed(t)
      BY FS_CardinalityType
      DEF ChargesInvariant, FailuresAreFinite, FailuresAreCharged, Allowed, Charges, AtRest
    <2>2. Charges(task[t]) \in Nat /\ Charges(task'[t]) \in Nat
      <3>1. task[t] \in TaskRows /\ task'[t] \in TaskRows
        BY <1>0, Rows, RowsThen DEF WorkInvariant
      <3> QED
        BY <3>1 DEF TaskRows, Charges
    <2>3. ASSUME NEW a \in Attempts, EndsWork(a), att[a].task = t
          PROVE  /\ IsFiniteSet(Failures(t)')
                 /\ t \notin Directed => Cardinality(Failures(t)') <= Allowed(t)'
      <3>1. a \in Leased /\ task[t].state \in Active
        BY <1>0, <2>3, OwnedRow DEF EndsWork
      <3>2. Allowed(t) = Charges(task[t])
        BY <2>2, <3>1 DEF Allowed, AtRest, Stopped, Active
      <3>3. CASE att'[a].state = "passed"
        <4>1. Failures(t)' = Failures(t)
          BY <2>3, <3>3, FailuresAfter
        <4>2. Charges(task'[t]) = Charges(task[t])
          BY <1>0, <2>3, <3>1, <3>3, MadeRow DEF EndsWork, Redone
        <4> QED
          BY <2>1, <2>2, <3>2, <4>1, <4>2 DEF Allowed
      <3>4. CASE att'[a].state # "passed"
        <4>1. Failures(t)' = Failures(t) \cup {a}
          BY <2>3, <3>4, FailuresAfter
        <4>2. IsFiniteSet(Failures(t)') /\ Cardinality(Failures(t)') <= Cardinality(Failures(t)) + 1
          <5>1. /\ IsFiniteSet(Failures(t) \cup {a})
                /\ Cardinality(Failures(t) \cup {a}) =
                     IF a \in Failures(t) THEN Cardinality(Failures(t))
                                         ELSE Cardinality(Failures(t)) + 1
            BY <2>1, FS_AddElement
          <5>2. Cardinality(Failures(t) \cup {a}) <= Cardinality(Failures(t)) + 1
            BY <2>1, <5>1
          <5> QED
            BY <4>1, <5>1, <5>2
        <4>3. Redone(a)
          BY <1>0, <2>3, <3>1, <3>4, MadeRow DEF EndsWork
        <4>4. /\ Charges(task'[t]) >= Charges(task[t])
              /\ task'[t].state \in AtRest \/ Charges(task'[t]) > Charges(task[t])
          BY <2>3, <3>4, <4>3 DEF Redone
        <4>5. Allowed(t)' >= Charges(task[t]) + 1
          BY <2>2, <4>4 DEF Allowed
        <4>6. Cardinality(Failures(t)') \in Nat /\ Allowed(t)' \in Nat
          BY <2>2, <4>2, FS_CardinalityType DEF Allowed
        <4> QED
          BY <2>1, <2>2, <3>2, <4>2, <4>5, <4>6
      <3> QED
        BY <3>3, <3>4
    <2>4. ASSUME ~\E a \in Attempts : EndsWork(a) /\ att[a].task = t
          PROVE  /\ IsFiniteSet(Failures(t)')
                 /\ t \notin Directed => Cardinality(Failures(t)') <= Allowed(t)'
      <3>1. Failures(t)' = Failures(t)
        BY <2>4, FailuresAfter
      <3>2. CASE Created(t)
        <4>1. Failures(t)' = {}
          BY <3>1, <3>2, FailuresAfter DEF Created
        <4>2. Cardinality(Failures(t)') = 0
          BY <4>1, FS_EmptySet
        <4>3. Allowed(t)' >= 0
          BY <2>2 DEF Allowed
        <4> QED
          BY <2>1, <3>1, <4>2, <4>3
      <3>3. ASSUME ~Created(t), t \notin Directed PROVE Allowed(t)' >= Allowed(t)
        <4>1. CASE task'[t] = task[t]
          BY <2>2, <4>1 DEF Allowed
        <4>2. CASE GoesOn(t)
          BY <2>2, <4>2 DEF GoesOn, Allowed, Active, AtRest, Stopped
        <4>3. CASE Moves(t)
          BY <2>2, <3>3, <4>3 DEF Moves, Allowed
        <4>4. CASE \E a \in Attempts, c \in Accounts : GrantsWork(t, a, c)
          <5>1. /\ task[t].state \in Waiting /\ task'[t].state = "leased"
                /\ Charges(task'[t]) = Charges(task[t])
            BY <1>0, <4>4, ClaimedRow
          <5> QED
            BY <2>2, <5>1 DEF Allowed, Waiting, AtRest, Stopped
        <4> QED
          BY <1>0, <2>4, <3>3, <4>1, <4>2, <4>3, <4>4, RowsAfter DEF Idles
      <3>4. Allowed(t) \in Nat /\ Allowed(t)' \in Nat
        BY <2>2 DEF Allowed
      <3>5. CASE ~Created(t)
        <4>1. IsFiniteSet(Failures(t)') /\ Cardinality(Failures(t)') = Cardinality(Failures(t))
          BY <2>1, <3>1
        <4>2. ASSUME t \notin Directed PROVE Cardinality(Failures(t)') <= Allowed(t)'
          BY <2>1, <3>3, <3>4, <3>5, <4>1, <4>2
        <4> QED
          BY <4>1, <4>2
      <3> QED
        BY <3>2, <3>5
    <2> QED
      BY <2>3, <2>4
  <1> QED
    BY <1>1
    DEF ChargesInvariant, FailuresAreFinite, FailuresAreCharged, Allowed, Charges, AtRest

\* Each attempt of an undirected task that did not pass was charged to one of its budgets, the
\* last one of a task at rest excepted: a repair, a retry or a recovery is never free.
THEOREM WorkIsCharged == Spec => []FailuresAreCharged
  <1>1. Init => ChargesInvariant
    <2> SUFFICES ASSUME Init, NEW t \in Tasks
                 PROVE  IsFiniteSet(Failures(t)) /\ Cardinality(Failures(t)) <= Allowed(t)
      BY DEF ChargesInvariant, FailuresAreFinite, FailuresAreCharged, Allowed, Charges, AtRest
    <2>1. Failures(t) = {}
      BY NoneIsNoTask DEF Init, UnusedAttempt, Failures
    <2>2. Allowed(t) = 0
      BY DEF Init, Absent, NewTask, Allowed, Charges, AtRest, Stopped
    <2> QED
      BY <2>1, <2>2, FS_EmptySet
  <1>2. WorkInvariant /\ ChargesInvariant /\ [Next]_vars => ChargesInvariant'
    BY WorkInvariantStep, ChargesStep
  <1>3. ChargesInvariant => FailuresAreCharged
    BY DEF ChargesInvariant
  <1> QED
    BY WorkInvariantHolds, <1>1, <1>2, <1>3, PTL DEF Spec

-------------------------------------------------------------------------------
(* Instructions *)

\* An attempt that came to nothing without having heard of an instruction goes on counting.
LEMMA RepeatedStays ==
  ASSUME WorkInvariant, WorkStep, NEW t \in Tasks, Repeated(t),
         PassedAttempt(task[t].build_attempt, t, "build"),
         task'[t].build_attempt = task[t].build_attempt,
         task[t].instructions_pending \in Nat, task'[t].instructions_pending \in Nat,
         task'[t].instructions_pending >= task[t].instructions_pending
  PROVE  Repeated(t)'
  <1>0. LeaseInvariant
    BY DEF WorkInvariant
  <1>1. PICK a \in Attempts :
          /\ att[a].task = t /\ att[a].token > att[task[t].build_attempt].token
          /\ att[a].state \notin Active \cup {"passed"}
          /\ att[a].instruction_count < task[t].instructions_pending
    BY DEF Repeated
  <1>2. att[a].state # "unused"
    <2>1. UnusedAttempt.task = None
      BY DEF UnusedAttempt
    <2> QED
      BY <1>1, <2>1, NoneIsNoTask DEF WorkInvariant, AttemptsAreClaimed
  <1>3. att'[a] = att[a]
    BY <1>0, <1>1, <1>2, AttemptsAfter
  <1>4. att'[task'[t].build_attempt] = att[task[t].build_attempt]
    BY <1>0, PassedStays
  <1>5. att[a].instruction_count \in Nat
    BY <1>0, Rows DEF AttemptRows
  <1>6. att'[a].instruction_count < task'[t].instructions_pending
    BY <1>1, <1>3, <1>5
  <1> QED
    BY <1>1, <1>3, <1>4, <1>6 DEF Repeated

\* What is known of a task's instructions stays known while its candidate does.
LEMMA KnownStays ==
  ASSUME WorkInvariant, WorkStep, WorkInvariant', NEW t \in Tasks,
         PassedAttempt(task[t].build_attempt, t, "build"),
         task'[t].build_attempt = task[t].build_attempt,
         task'[t].instructions_pending = task[t].instructions_pending,
         \/ task[t].instructions_pending <= att[task[t].build_attempt].instruction_count
         \/ Repeated(t)
  PROVE  \/ task'[t].instructions_pending <= att'[task'[t].build_attempt].instruction_count
         \/ Repeated(t)'
  <1>0. LeaseInvariant /\ task[t].instructions_pending \in Nat
    BY Rows DEF WorkInvariant, TaskRows
  <1>1. att'[task'[t].build_attempt] = att[task[t].build_attempt]
    BY <1>0, PassedStays
  <1>2. Repeated(t) => Repeated(t)'
    BY <1>0, RepeatedStays
  <1> QED
    BY <1>1, <1>2

LEMMA InstructionsStep ==
  ASSUME WorkInvariant, OnlyVettedWorkIsStaged, InstructionsKnown, WorkStep, WorkInvariant',
         \A u \in Tasks : RowMove(u)
  PROVE  InstructionsKnown'
  <1>0. LeaseInvariant /\ PhasesAreEarned /\ LeasesCarryWork /\ TokensGrow
    BY DEF WorkInvariant
  <1> DEFINE Asked(t) == \/ task[t].state \in Staged
                         \/ task[t].phase \in Judged /\ task[t].state # "cancelled"
             Known(t) == task[t].instructions_pending <= att[task[t].build_attempt].instruction_count
             Unheard(t) == /\ task[t].state \in Active
                        /\ att[task[t].attempt_id].instruction_count < task[t].instructions_pending
  <1>1. ASSUME NEW t \in Tasks
        PROVE  /\ task[t].instructions_pending \in Nat /\ task'[t].instructions_pending \in Nat
               /\ t \in Directed /\ Asked(t) =>
                    /\ Known(t) \/ Repeated(t) \/ Unheard(t)
                    /\ PassedAttempt(task[t].build_attempt, t, "build")
    <2>1. task[t].instructions_pending \in Nat /\ task'[t].instructions_pending \in Nat
      BY <1>0, Rows, RowsThen DEF WorkInvariant, TaskRows
    <2>2. ASSUME Asked(t) PROVE PassedAttempt(task[t].build_attempt, t, "build")
      BY <1>0, <2>2 DEF PhasesAreEarned, OnlyVettedWorkIsStaged, Vetted, Staged
    <2>3. ASSUME t \in Directed, Asked(t) PROVE Known(t) \/ Repeated(t) \/ Unheard(t)
      BY <2>3 DEF InstructionsKnown
    <2> QED
      BY <2>1, <2>2, <2>3
  <1>2. ASSUME NEW t \in Directed \cap Tasks, Asked(t)', Idles(t)
        PROVE  (Known(t) \/ Repeated(t) \/ Unheard(t))'
    <2>1. CASE Created(t)
      BY <1>2, <2>1, NewTaskFields DEF Created, Judged, Staged
    <2>2. CASE task'[t] = task[t] \/ GoesOn(t)
      <3>1. /\ Asked(t) /\ task'[t].build_attempt = task[t].build_attempt
            /\ task'[t].attempt_id = task[t].attempt_id
            /\ task'[t].instructions_pending >= task[t].instructions_pending
            /\ task[t].state \in Active <=> task'[t].state \in Active
        BY <1>1, <1>2, <2>2 DEF GoesOn, SameBuilds, Staged, Active
      <3>2. PassedAttempt(task[t].build_attempt, t, "build")
        BY <1>1, <1>2, <3>1
      <3>3. CASE task[t].state \notin Active
        <4>1. task'[t] = task[t]
          BY <2>2, <3>3 DEF GoesOn
        <4>2. Known(t) \/ Repeated(t)
          BY <1>1, <1>2, <3>1, <3>3
        <4> QED
          BY <3>2, <4>1, <4>2, KnownStays
      <3>4. CASE task[t].state \in Active
        <4>1. PICK a \in Leased : a = task[t].attempt_id /\ att[a].task = t
          BY <1>0, <3>4 DEF LeaseInvariant, LeaseMatchesTask
        <4>2. a \in Attempts /\ att'[a].instruction_count = att[a].instruction_count
          BY <1>0, <4>1, OwnedRow, AttemptsAfter DEF SameWork, Leased, Active
        <4>3. att[a].instruction_count <= task[t].instructions_pending
              /\ att[a].instruction_count \in Nat
          BY <1>0, <4>1, <4>2, Rows DEF LeasesCarryWork, AttemptRows
        <4>4. CASE task'[t].instructions_pending > task[t].instructions_pending
          <5>1. att'[task'[t].attempt_id].instruction_count < task'[t].instructions_pending
            BY <1>1, <3>1, <4>1, <4>2, <4>3, <4>4
          <5> QED
            BY <3>1, <3>4, <5>1
        <4>5. CASE task'[t].instructions_pending = task[t].instructions_pending
          <5>1. Unheard(t) => Unheard(t)'
            BY <3>1, <4>1, <4>2, <4>5
          <5> QED
            BY <1>1, <1>2, <3>1, <3>2, <4>5, <5>1, KnownStays
        <4> QED
          BY <1>1, <3>1, <4>4, <4>5
      <3> QED
        BY <3>3, <3>4
    <2>3. CASE Moves(t)
      <3>1. task'[t].phase \in {task[t].phase, "replan"} /\ task[t].state \notin Active
        BY <1>2, <2>3 DEF Moves, Rework
      <3>2. Asked(t)
        BY <1>2, <2>3, <3>1 DEF Moves, Judged
      <3>3. task'[t].instructions_pending = task[t].instructions_pending
        BY <1>0, <1>2, <2>3, <3>1 DEF Moves, PhasesAreEarned, Judged
      <3> QED
        BY <1>1, <1>2, <2>3, <3>1, <3>2, <3>3, KnownStays DEF Moves, SameBuilds
    <2> QED
      BY <1>2, <2>1, <2>2, <2>3 DEF Idles
  <1>3. ASSUME NEW t \in Directed \cap Tasks, Asked(t)', NEW a \in Attempts, EndsWork(a), att[a].task = t
        PROVE  (Known(t) \/ Repeated(t) \/ Unheard(t))'
    <2>1. /\ a \in Leased /\ SameWork(a) /\ att'[a].state \notin Active
          /\ task[t].attempt_id = a /\ task[t].state \in Active /\ att[a].phase = task[t].phase
      BY <1>0, <1>3, OwnedRow DEF EndsWork, Results, Active, LeasesCarryWork
    <2>2. ASSUME BuildMade(a) PROVE Known(t)'
      <3>1. task'[t].build_attempt = a /\ ~Outdated(a)
            /\ task'[t].instructions_pending = task[t].instructions_pending
        BY <1>0, <1>3, <2>1, <2>2, MadeRow DEF PlanMade, BuildMade, ReviewMade, DirectionMade, PassedAs
      <3>2. att'[a].instruction_count = att[a].instruction_count /\ att[a].instruction_count \in Nat
        BY <1>0, <2>1, Rows DEF SameWork, AttemptRows
      <3> QED
        BY <1>1, <1>3, <3>1, <3>2 DEF Outdated
    <2>3. CASE ~BuildMade(a)
      <3>1. /\ task[t].phase \in Judged
            /\ task'[t].build_attempt = task[t].build_attempt
            /\ task'[t].instructions_pending = task[t].instructions_pending
            /\ att'[a].state = "passed" => ~Outdated(a)
        <4>1. CASE Redone(a)
          BY <1>3, <4>1 DEF Redone, SameBuilds, Settled, Staged, Judged
        <4>2. CASE ~Redone(a)
          <5>1. ~PlanMade(a)
            BY <1>0, <1>3, <2>1, MadeRow
            DEF Staged, Judged, PlanMade, BuildMade, ReviewMade, DirectionMade, PassedAs
          <5>2. ReviewMade(a) \/ DirectionMade(a)
            BY <1>3, <2>3, <4>2, <5>1 DEF EndsWork
          <5> QED
            BY <1>0, <1>3, <2>1, <2>3, <5>1, <5>2, MadeRow DEF Judged
        <4> QED
          BY <4>1, <4>2
      <3>2. Asked(t) /\ PassedAttempt(task[t].build_attempt, t, "build")
        BY <1>1, <1>3, <2>1, <3>1 DEF Active
      <3>3. CASE Known(t) \/ Repeated(t)
        BY <3>1, <3>2, <3>3, KnownStays
      <3>4. CASE Unheard(t)
        <4>1. Outdated(a) /\ att'[a].state # "passed"
          BY <1>0, <1>1, <1>3, <2>1, <3>1, <3>4, Rows DEF Outdated, AttemptRows
        <4>2. PICK x \in Attempts : x = task[t].build_attempt /\ x # a /\ att[x].task = t
          BY <2>1, <3>2 DEF PassedAttempt, Leased, Active
        <4>3. att[x].token < att[a].token
          BY <1>0, <1>3, <2>1, <4>2 DEF TokensGrow
        <4>4. att'[x] = att[x] /\ task'[t].build_attempt = x
          BY <1>0, <3>1, <3>2, <4>2, PassedStays
        <4>5. att'[a].task = t /\ att'[a].token > att'[x].token
          <5>1. att[a].token \in Nat /\ att[x].token \in Nat
            BY <1>0, Rows DEF AttemptRows
          <5> QED
            BY <1>3, <2>1, <4>3, <4>4, <5>1 DEF SameWork
        <4>6. att'[a].instruction_count < task'[t].instructions_pending
          BY <2>1, <3>1, <3>4 DEF SameWork
        <4>7. Repeated(t)'
          BY <2>1, <4>1, <4>4, <4>5, <4>6 DEF Repeated
        <4> QED
          BY <4>7
      <3> QED
        BY <1>1, <1>3, <3>2, <3>3, <3>4
    <2> QED
      BY <2>2, <2>3
  <1>4. ASSUME NEW t \in Directed \cap Tasks, Asked(t)', NEW a \in Attempts, NEW c \in Accounts,
               GrantsWork(t, a, c)
        PROVE  (Known(t) \/ Repeated(t) \/ Unheard(t))'
    <2>1. /\ task[t].state \in Waiting /\ task'[t].state = "leased" /\ task'[t].phase = task[t].phase
          /\ task'[t].build_attempt = task[t].build_attempt
          /\ task'[t].instructions_pending = task[t].instructions_pending
      BY <1>0, <1>4, ClaimedRow DEF SameBuilds
    <2>2. Asked(t) /\ task[t].state \notin Active
      BY <1>4, <2>1 DEF Waiting, Staged, Active
    <2> QED
      BY <1>1, <1>4, <2>1, <2>2, KnownStays
  <1>5. ASSUME NEW t \in Directed \cap Tasks, Asked(t)'
        PROVE  (Known(t) \/ Repeated(t) \/ Unheard(t))'
    BY <1>0, <1>2, <1>3, <1>4, <1>5, RowsAfter
  <1> QED
    BY <1>5 DEF InstructionsKnown

\* Directed work is staged only after a build that knew every instruction sent to the task, but
\* for one that reached the task while it was judged by an attempt that came to nothing.
THEOREM DirectedWorkFollowsInstructions == Spec => []DirectedInstructionsBuilt
  <1>1. Init => OnlyVettedWorkIsStaged /\ InstructionsKnown
    BY DEF Init, Absent, NewTask, OnlyVettedWorkIsStaged, InstructionsKnown, Staged, Judged
  <1>2. WorkInvariant /\ OnlyVettedWorkIsStaged /\ InstructionsKnown /\ [Next]_vars
          => (OnlyVettedWorkIsStaged /\ InstructionsKnown)'
    <2> SUFFICES ASSUME WorkInvariant, OnlyVettedWorkIsStaged, InstructionsKnown, [Next]_vars
                 PROVE  (OnlyVettedWorkIsStaged /\ InstructionsKnown)'
      OBVIOUS
    <2>1. \A u \in Tasks : RowMove(u)
      BY EveryMove DEF WorkInvariant
    <2> QED
      BY <2>1, WorkInvariantStep, VettedStep, InstructionsStep
  <1>3. InstructionsKnown => DirectedInstructionsBuilt
    <2>1. Directed \subseteq Tasks
      BY LeaseAssumption DEF LeaseAssumptions
    <2> QED
      BY <2>1 DEF InstructionsKnown, DirectedInstructionsBuilt, InstructionsBuilt, Staged, Active
  <1> QED
    BY WorkInvariantHolds, <1>1, <1>2, <1>3, PTL DEF Spec

-------------------------------------------------------------------------------
(* Stopping everything *)

\* Dispatch is paused by stopping everything, unless the owner may also just pause it.
LEMMA PausedByStopping ==
  ASSUME LeaseInvariant, [Next]_vars, paused', "pause" \notin Requests
  PROVE  paused \/ StopAll
  <1>1. CASE Scheduler
    <2>1. CASE \E a \in Attempts : Inspect(a)
      <3>1. PICK a \in Attempts : Inspect(a)
        BY <2>1
      <3>2. CASE Finish(a)
        BY <3>2
        DEF Finish, FinishUnconfirmed, FinishCancelled, FinishOutdated, FinishClarify,
            FinishPlan, FinishReplan, FinishBuild, FinishReview, FinishDirect, FinishTrouble,
            FinishRetry, FinishRepair, FinishBlocked, EndsWith, policy
      <3>3. CASE ~Finish(a)
        BY <3>1, <3>3 DEF Inspect, InspectionDenied, LeftAlone, OrphanHeld, OrphanFound, policy
      <3> QED
        BY <3>2, <3>3
    <2>2. CASE ~(\E a \in Attempts : Inspect(a))
      BY <1>1, <2>2
      DEF Scheduler, ControllerRestarts, TickBegins, Release, Spawn, Claim, DispatchBegins,
          NothingStartable, AtCapacity, DispatchPaused, policy
    <2> QED
      BY <2>1, <2>2
  <1>2. CASE Owner
    BY <1>2
    DEF Owner, AddGoal, Answer, Instruct, Cancel, Retry, PauseDispatch, ResumeDispatch,
        SetCapacity, SetProject, SetAccount, policy
  <1>3. CASE \/ Staging \/ Clock \/ ControllerCrash \/ (\E t \in Tasks : Signal(t))
             \/ UNCHANGED vars
    BY <1>3
    DEF Staging, IntegrationSucceeds, IntegrationFails, Decide, Clock, CooldownEnds,
        AccountRests, ControllerCrash, Signal, policy, vars
  <1>4. CASE \E a \in Attempts : Guardian(a) \/ ChildExits(a) \/ GuardianKilled(a)
    BY <1>4
    DEF Guardian, Register, RegistrationRefused, RegistrationDenied, Launch, RecordChild,
        Verify, Report, GuardianExits, ChildExits, GuardianKilled, policy
  <1> QED
    BY <1>1, <1>2, <1>3, <1>4 DEF Next

LEMMA StopAllStep ==
  ASSUME WorkInvariant, StopAllStops, [Next]_vars
  PROVE  StopAllStops'
  <1>0. LeaseInvariant /\ LeaseInvariant' /\ WorkStep
    BY WorkInvariantStep DEF WorkInvariant
  <1> SUFFICES ASSUME paused', "pause" \notin Requests, NEW a \in Leased'
               PROVE  task'[att'[a].task].cancel_requested
    BY DEF StopAllStops
  <1>1. CASE StopAll
    <2>1. a \in Leased /\ att' = att
      BY <1>1 DEF StopAll, Leased
    <2>2. att[a].task \in Tasks /\ task[att[a].task].state \in Active
          /\ task[att[a].task] \in TaskRows
      BY <1>0, <2>1, OwnedRow, Rows
    <2>3. task'[att[a].task] = [task[att[a].task] EXCEPT !.cancel_requested = TRUE]
      BY <1>1, <2>2 DEF StopAll
    <2> QED
      BY <2>1, <2>2, <2>3 DEF TaskRows
  <1>2. CASE paused
    <2>1. \/ Rests
          \/ \E b \in Attempts : EndsWork(b)
      BY <1>0, <1>2 DEF WorkStep, GrantsWork
    <2>2. a \in Leased
      BY <1>0, <2>1, LeasedAfterWork
    <2>3. task[att[a].task].cancel_requested
      BY <1>2, <2>2 DEF StopAllStops
    <2>4. att[a].task \in Tasks /\ task[att[a].task].state \in Active
      BY <1>0, <2>2, OwnedRow
    <2>5. CASE Rests
      <3>1. att'[a].task = att[a].task
        BY <2>2, <2>5 DEF Rests, SameLease, SameWork, Leased
      <3>2. Idles(att[a].task)
        BY <2>4, <2>5 DEF Rests
      <3> QED
        BY <2>3, <2>4, <3>1, <3>2 DEF Idles, Created, GoesOn, Moves, Active
    <2>6. CASE \E b \in Attempts : EndsWork(b)
      <3>1. PICK b \in Attempts : EndsWork(b)
        BY <2>6
      <3>2. a # b /\ b \in Leased
        BY <1>0, <3>1, LeasedAfterWork DEF EndsWork
      <3>3. att'[a] = att[a] /\ att[a].task # att[b].task
        BY <1>0, <2>2, <3>1, <3>2, OwnedRow DEF EndsWork
      <3>4. task'[att[a].task] = task[att[a].task]
        BY <2>4, <3>1, <3>3 DEF EndsWork, Created, Active
      <3> QED
        BY <2>3, <3>3, <3>4
    <2> QED
      BY <2>1, <2>5, <2>6
  <1> QED
    BY <1>0, <1>1, <1>2, PausedByStopping

\* Stopping everything leaves no leased work that nobody asked to stop until dispatch resumes:
\* stop_all() marks every owned task in the transaction that pauses dispatch, claim() grants
\* nothing while it is paused, and nothing but a retry of released work withdraws a stop.
THEOREM StopAllReachesEverything == Spec => []StopAllStops
  <1>1. Init => StopAllStops
    BY DEF Init, StopAllStops
  <1>2. WorkInvariant /\ StopAllStops /\ [Next]_vars => StopAllStops'
    BY StopAllStep
  <1> QED
    BY <1>1, <1>2, WorkInvariantHolds, PTL DEF Spec

-------------------------------------------------------------------------------
(* Builds that run together *)

TasksMade == {t \in Tasks : task[t].state # "absent"}
Neighbours(t) == {u \in Building : ProjectOf[u] = ProjectOf[t]}
\* Without this a task could have infinitely many peers, and counting them would mean nothing.
FewTasksExist == IsFiniteSet(TasksMade)

BuildersInvariant == WorkInvariant /\ FewTasksExist /\ BuildersDisjoint

LEMMA OverlapIsMutual ==
  \A t, u \in Tasks : <<t, u>> \in Overlapping => <<u, t>> \in Overlapping
  BY LeaseAssumption DEF LeaseAssumptions

\* Rows come one request at a time, or with a plan, and a plan is finite.
LEMMA FewTasksExistStep ==
  ASSUME LeaseInvariant, FewTasksExist, WorkStep
  PROVE  FewTasksExist'
  <1>1. ASSUME NEW u \in Tasks, task[u].state = "absent", task'[u].state # "absent"
        PROVE  Created(u)
    <2>1. ~GoesOn(u) /\ ~Moves(u) /\ task'[u] # task[u]
      BY <1>1 DEF GoesOn, Moves, Active
    <2>2. \A a \in Attempts : EndsWork(a) => att[a].task # u
      BY <1>1, OwnedRow DEF EndsWork, Active
    <2>3. \A a \in Attempts, c \in Accounts : ~GrantsWork(u, a, c)
      BY <1>1, ClaimedRow DEF Waiting
    <2> QED
      BY <2>1, <2>2, <2>3, RowsAfter DEF Idles
  <1>2. TasksMade' \subseteq TasksMade \cup {u \in Tasks : Created(u)}
    BY <1>1 DEF TasksMade
  <1>3. IsFiniteSet({u \in Tasks : Created(u)})
    <2>1. CASE Rests
      <3>1. CASE \E t \in Tasks : Created(t)
        <4>1. PICK t \in Tasks : Created(t)
          BY <3>1
        <4>2. {u \in Tasks : Created(u)} = {t}
          BY <2>1, <4>1 DEF Rests
        <4> QED
          BY <4>2, FS_Singleton
      <3>2. CASE ~(\E t \in Tasks : Created(t))
        <4>1. {u \in Tasks : Created(u)} = {}
          BY <3>2
        <4> QED
          BY <4>1, FS_EmptySet
      <3> QED
        BY <3>1, <3>2
    <2>2. CASE \E a \in Attempts : EndsWork(a)
      BY <2>2 DEF EndsWork
    <2>3. CASE \E t \in Tasks, a \in Attempts, c \in Accounts : GrantsWork(t, a, c)
      <3>1. PICK t \in Tasks, a \in Attempts, c \in Accounts : GrantsWork(t, a, c)
        BY <2>3
      <3>2. ~Created(t)
        BY <3>1, ClaimedRow DEF Created, Waiting
      <3>3. \A u \in Tasks \ {t} : ~Created(u)
        BY <3>1, NotCreated DEF GrantsWork
      <3>4. {u \in Tasks : Created(u)} = {}
        BY <3>2, <3>3
      <3> QED
        BY <3>4, FS_EmptySet
    <2> QED
      BY <2>1, <2>2, <2>3 DEF WorkStep
  <1>4. IsFiniteSet(TasksMade \cup {u \in Tasks : Created(u)})
    BY <1>3, FS_Union DEF FewTasksExist
  <1> QED
    BY <1>2, <1>4, FS_Subset DEF FewTasksExist

\* Only a claim adds a build.
LEMMA BuildingAfter ==
  ASSUME LeaseInvariant, WorkStep, NEW u \in Tasks, u \in Building', u \notin Building
  PROVE  \E a \in Attempts, c \in Accounts : GrantsWork(u, a, c)
  <1>1. task'[u].state \in Active /\ task'[u].phase = "build"
    BY DEF Building
  <1>2. ~Idles(u)
    <2>1. task'[u] # task[u]
      BY <1>1 DEF Building
    <2>2. ~Created(u)
      BY <1>1, NewTaskFields DEF Created, Active
    <2>3. ~GoesOn(u) /\ ~Moves(u)
      BY <1>1 DEF Building, GoesOn, Moves
    <2> QED
      BY <2>1, <2>2, <2>3 DEF Idles
  <1>3. \A a \in Attempts : EndsWork(a) => att[a].task # u
    <2> SUFFICES ASSUME NEW a \in Attempts, EndsWork(a), att[a].task = u PROVE FALSE
      OBVIOUS
    <2>1. Redone(a) => task'[u].state \notin Active
      BY DEF Redone
    <2>2. a \in Leased
      BY DEF EndsWork
    <2>3. PlanMade(a) \/ BuildMade(a) \/ ReviewMade(a) \/ DirectionMade(a)
            => task'[u].state \notin Active
      BY <2>2, MadeRow DEF Active
    <2> QED
      BY <1>1, <2>1, <2>3 DEF EndsWork
  <1> QED
    BY <1>2, <1>3, RowsAfter

LEMMA BuildersStep ==
  ASSUME BuildersInvariant, WorkStep, FewTasksExist'
  PROVE  BuildersDisjoint'
  <1>0. LeaseInvariant
    BY DEF BuildersInvariant, WorkInvariant
  <1>1. Building \subseteq Tasks /\ Building' \subseteq Tasks /\ Building \subseteq TasksMade
    BY DEF Building, TasksMade, Active
  <1>2. \A t : IsFiniteSet(Neighbours(t))
    BY <1>1, FS_Subset DEF BuildersInvariant, FewTasksExist, Neighbours
  <1>3. \A t \in Building : \A u \in Building \ {t} :
          ProjectOf[u] = ProjectOf[t] => <<t, u>> \notin Overlapping
    BY DEF BuildersInvariant, BuildersDisjoint
  <1>4. \A t \in Building : Cardinality(Neighbours(t)) <= 2
    BY DEF BuildersInvariant, BuildersDisjoint, Neighbours
  <1>5. CASE Building' \subseteq Building
    <2>1. ASSUME NEW t \in Building'
          PROVE  Cardinality({u \in Building' : ProjectOf[u] = ProjectOf[t]}) <= 2
      <3>1. {u \in Building' : ProjectOf[u] = ProjectOf[t]} \subseteq Neighbours(t)
        BY <1>5 DEF Neighbours
      <3>2. Cardinality({u \in Building' : ProjectOf[u] = ProjectOf[t]})
              <= Cardinality(Neighbours(t))
        BY <1>2, <3>1, FS_Subset
      <3>3. IsFiniteSet({u \in Building' : ProjectOf[u] = ProjectOf[t]})
        BY <1>2, <3>1, FS_Subset
      <3> QED
        BY <1>2, <1>4, <1>5, <2>1, <3>2, <3>3, FS_CardinalityType
    <2> QED
      BY <1>3, <1>5, <2>1 DEF BuildersDisjoint
  <1>6. CASE ~(Building' \subseteq Building)
    <2>1. PICK t \in Tasks, a \in Attempts, c \in Accounts :
            GrantsWork(t, a, c) /\ t \in Building' /\ t \notin Building
      BY <1>0, <1>1, <1>6, BuildingAfter
    <2>2. task[t].phase = "build" /\ Startable(t)
      BY <1>0, <2>1, ClaimedRow DEF GrantsWork, Building
    <2>3. \A u \in Building' : u # t => u \in Building
      <3> SUFFICES ASSUME NEW u \in Building', u # t, u \notin Building PROVE FALSE
        OBVIOUS
      <3>1. u \in Tasks /\ task'[u].state \in Active /\ task'[u].phase = "build"
        BY DEF Building
      <3>2. task'[u] = task[u] \/ Moves(u)
        BY <2>1, <3>1 DEF GrantsWork
      <3> QED
        BY <3>1, <3>2 DEF Moves, Building
    <2>4. ASSUME NEW u \in Building', u # t, ProjectOf[u] = ProjectOf[t]
          PROVE  u \in {v \in Peers(t) : task[v].phase = "build"}
      BY <2>3, <2>4 DEF Building, Peers
    <2>5. IsFiniteSet({v \in Peers(t) : task[v].phase = "build"})
      <3>1. {v \in Peers(t) : task[v].phase = "build"} \subseteq TasksMade
        BY DEF Peers, TasksMade, Active
      <3> QED
        BY <3>1, FS_Subset DEF BuildersInvariant, FewTasksExist
    <2>6. Cardinality({v \in Peers(t) : task[v].phase = "build"}) \in Nat
          /\ Cardinality({v \in Peers(t) : task[v].phase = "build"}) < 2
      BY <2>2, <2>5, FS_CardinalityType DEF Startable, Crowded
    <2>7. \A u \in Peers(t) : <<u, t>> \notin Overlapping
      BY <2>2 DEF Startable, Crowded
    <2>8. ASSUME NEW u \in Building', NEW v \in Building', u # v, ProjectOf[v] = ProjectOf[u]
          PROVE  <<u, v>> \notin Overlapping
      <3>1. CASE u # t /\ v # t
        BY <1>3, <2>3, <2>8, <3>1
      <3>2. CASE u = t
        BY <1>1, <2>1, <2>4, <2>7, <2>8, <3>2, OverlapIsMutual
      <3>3. CASE v = t
        BY <1>1, <2>1, <2>4, <2>7, <2>8, <3>3, OverlapIsMutual
      <3> QED
        BY <3>1, <3>2, <3>3
    <2>9. ASSUME NEW u \in Building'
          PROVE  Cardinality({v \in Building' : ProjectOf[v] = ProjectOf[u]}) <= 2
      <3> DEFINE P == {v \in Peers(t) : task[v].phase = "build"}
                 N == {v \in Building' : ProjectOf[v] = ProjectOf[u]}
      <3>1. CASE ProjectOf[u] = ProjectOf[t]
        <4>1. N \subseteq P \cup {t}
          BY <2>4, <3>1
        <4>2. t \notin P
          BY DEF Peers
        <4>3. IsFiniteSet(P \cup {t}) /\ Cardinality(P \cup {t}) = Cardinality(P) + 1
          BY <2>5, <4>2, FS_AddElement
        <4>4. IsFiniteSet(N) /\ Cardinality(N) <= Cardinality(P \cup {t})
          BY <4>1, <4>3, FS_Subset
        <4>5. Cardinality(N) \in Nat
          BY <4>4, FS_CardinalityType
        <4> QED
          BY <2>6, <4>3, <4>4, <4>5
      <3>2. CASE ProjectOf[u] # ProjectOf[t]
        <4>1. u \in Building /\ N \subseteq Neighbours(u)
          BY <2>3, <2>9, <3>2 DEF Neighbours
        <4>2. IsFiniteSet(N) /\ Cardinality(N) <= Cardinality(Neighbours(u))
          BY <1>2, <4>1, FS_Subset
        <4>3. Cardinality(N) \in Nat /\ Cardinality(Neighbours(u)) \in Nat
          BY <1>2, <4>2, FS_CardinalityType
        <4> QED
          BY <1>4, <4>1, <4>2, <4>3
      <3> QED
        BY <3>1, <3>2
    <2> QED
      BY <2>8, <2>9 DEF BuildersDisjoint
  <1> QED
    BY <1>5, <1>6

\* Its inductive invariant: two builds under way are disjoint because claim() compared the second
\* with every owned task, and counting them needs that only finitely many tasks were ever created.
THEOREM BuildersInvariantHolds == Spec => []BuildersInvariant
  <1>1. Init => FewTasksExist /\ BuildersDisjoint
    <2> SUFFICES ASSUME Init PROVE FewTasksExist /\ BuildersDisjoint
      OBVIOUS
    <2>1. \A t \in Tasks : task[t].state = "absent"
      BY DEF Init, Absent, NewTask
    <2>2. TasksMade = {} /\ Building = {}
      BY <2>1 DEF TasksMade, Building, Active
    <2> QED
      BY <2>2, FS_EmptySet DEF FewTasksExist, BuildersDisjoint
  <1>2. BuildersInvariant /\ [Next]_vars => BuildersInvariant'
    <2> SUFFICES ASSUME BuildersInvariant, [Next]_vars PROVE BuildersInvariant'
      OBVIOUS
    <2>1. WorkInvariant' /\ WorkStep
      BY WorkInvariantStep DEF BuildersInvariant
    <2>2. FewTasksExist'
      BY <2>1, FewTasksExistStep DEF BuildersInvariant, WorkInvariant
    <2> QED
      BY <2>1, <2>2, BuildersStep DEF BuildersInvariant
  <1> QED
    BY <1>1, <1>2, InitWorkInvariant, PTL DEF Spec, BuildersInvariant

\* Builds that run together in a project own disjoint scopes, and there are at most two: the
\* peers claim() looks at include every owned build, and nothing else makes one.
THEOREM BuildersNeverCollide == Spec => []BuildersDisjoint
  <1>1. BuildersInvariant => BuildersDisjoint
    BY DEF BuildersInvariant
  <1> QED
    BY <1>1, BuildersInvariantHolds, PTL

-------------------------------------------------------------------------------
(* Guardians at work *)

\* A guardian at work has written no result, and holds the lease it was started for; the
\* scheduler starts each once, and takes a lease back only from one that is gone.
GuardiansHoldLeases ==
  /\ IsFiniteSet(Leased) /\ Cardinality(Leased) <= MaxSlots
  /\ pc = "spawn" => guard[slot] = "none"
  /\ pc = "release" => guard[slot] \notin Up
  /\ \A a \in Attempts :
       /\ guard[a] \in {"none", "starting"} \cup Working => outcome[a] = "none"
       /\ guard[a] \in Working => a \in Leased

GuardiansInvariant == WorkInvariant /\ GuardiansHoldLeases

\* A lease ends by its result, or is taken back by the scheduler, and no guardian steps then.
LEMMA EndedByTheThread ==
  ASSUME LeaseInvariant, [Next]_vars, NEW a \in Leased, a \notin Leased'
  PROVE  /\ guard' = guard
         /\ \/ Collecting(a) /\ att'[a].state = AttemptResult(a)
            \/ pc = "release" /\ slot = a /\ att'[a].state = "interrupted"
  <1>1. a \in Attempts /\ att[a].state \in Active /\ att'[a].state \notin Active
    BY DEF Leased
  <1>2. CASE UNCHANGED att
    BY <1>1, <1>2
  <1>3. CASE \E b \in Attempts : Finish(b)
    <2>1. PICK b \in Attempts : Finish(b)
      BY <1>3
    <2>2. Collecting(b)
      BY <2>1
      DEF Finish, FinishUnconfirmed, FinishCancelled, FinishOutdated, FinishClarify, FinishPlan,
          FinishReplan, FinishBuild, FinishReview, FinishDirect, FinishTrouble, FinishRetry,
          FinishRepair, FinishBlocked, Uncancelled, Succeeded, Passed
    <2>3. guard' = guard
      BY <2>1
      DEF Finish, FinishUnconfirmed, FinishCancelled, FinishOutdated, FinishClarify, FinishPlan,
          FinishReplan, FinishBuild, FinishReview, FinishDirect, FinishTrouble, FinishRetry,
          FinishRepair, FinishBlocked, EndsWith, world
    <2>4. att' = [att EXCEPT ![b].state = AttemptResult(b)]
      BY <2>1
      DEF Finish, FinishUnconfirmed, FinishCancelled, FinishOutdated, FinishClarify, FinishPlan,
          FinishReplan, FinishBuild, FinishReview, FinishDirect, FinishTrouble, FinishRetry,
          FinishRepair, FinishBlocked, EndsWith, Passed, AttemptResult
    <2>5. a = b
      BY <1>1, <2>4, Rows
    <2> QED
      BY <2>2, <2>3, <2>4, <2>5, Rows
  <1>4. CASE Release
    <2>1. att' = [att EXCEPT ![slot].state = "interrupted"] /\ guard' = guard
      BY <1>4 DEF Release, world
    <2>2. slot = a
      BY <1>1, <2>1, Rows
    <2>3. att'[a].state = "interrupted"
      BY <1>1, <2>1, <2>2, Rows DEF AttemptRows
    <2> QED
      BY <1>4, <2>1, <2>2, <2>3 DEF Release
  <1>5. CASE \E t \in Tasks, c \in Accounts : Claim(t, c)
    <2>1. PICK t \in Tasks, c \in Accounts : Claim(t, c)
      BY <1>5
    <2>2. PICK b \in Attempts : b = Fresh /\ att[b] = UnusedAttempt
      BY <2>1 DEF Claim, Dispatching, Spent, Fresh
    <2>3. att' = [att EXCEPT ![b] = Lease(t, c)]
      BY <2>1, <2>2 DEF Claim, Lease, Judged
    <2>4. a # b
      BY <1>1, <2>2 DEF UnusedAttempt, Active
    <2> QED
      BY <1>1, <2>3, <2>4
  <1>6. CASE \E b \in Attempts : Register(b) \/ Verify(b)
    <2>1. PICK b \in Attempts : Register(b) \/ Verify(b)
      BY <1>6
    <2>2. a # b => att'[a] = att[a]
      BY <1>1, <2>1, Rows DEF Register, Verify
    <2>3. att'[b].state \in Active
      BY <2>1, Rows DEF Register, Verify, AttemptRows, Active
    <2> QED
      BY <1>1, <2>2, <2>3
  <1>7. CASE ~(\/ UNCHANGED att \/ (\E b \in Attempts : Finish(b)) \/ Release
               \/ (\E t \in Tasks, c \in Accounts : Claim(t, c))
               \/ (\E b \in Attempts : Register(b) \/ Verify(b)))
    <2>1. ~Owner /\ ~Staging
      BY <1>7
      DEF Owner, AddGoal, Answer, Instruct, Cancel, Retry, StopAll, PauseDispatch,
          ResumeDispatch, SetCapacity, SetProject, SetAccount, Staging, IntegrationSucceeds,
          IntegrationFails, Decide, store
    <2>2. ~Clock /\ ~ControllerCrash /\ ~UNCHANGED vars /\ \A t \in Tasks : ~Signal(t)
      BY <1>7 DEF Clock, CooldownEnds, AccountRests, ControllerCrash, Signal, store, vars
    <2>3. \A b \in Attempts : ~Guardian(b) /\ ~ChildExits(b) /\ ~GuardianKilled(b)
      BY <1>7
      DEF Guardian, RegistrationRefused, RegistrationDenied, Launch, RecordChild, Report,
          GuardianExits, ChildExits, GuardianKilled, store
    <2>4. ~Scheduler
      BY <1>7
      DEF Scheduler, Inspect, ControllerRestarts, TickBegins, Spawn, InspectionDenied,
          LeftAlone, OrphanHeld, OrphanFound, DispatchBegins, NothingStartable, AtCapacity,
          DispatchPaused, store
    <2> QED
      BY <2>1, <2>2, <2>3, <2>4 DEF Next
  <1> QED
    BY <1>2, <1>3, <1>4, <1>5, <1>6, <1>7

\* Every claim finds fewer leases than the limit, and the limit is within the slots.
LEMMA LeasesStayFew ==
  ASSUME LeaseInvariant, GuardiansHoldLeases, WorkStep
  PROVE  IsFiniteSet(Leased') /\ Cardinality(Leased') <= MaxSlots
  <1>0. IsFiniteSet(Leased) /\ Cardinality(Leased) <= MaxSlots /\ MaxSlots \in Nat
    BY CapacityPositive DEF GuardiansHoldLeases
  <1>1. CASE Rests
    BY <1>0, <1>1, LeasedAfterWork
  <1>2. CASE \E a \in Attempts : EndsWork(a)
    <2>1. Leased' \subseteq Leased
      BY <1>2, LeasedAfterWork
    <2>2. IsFiniteSet(Leased') /\ Cardinality(Leased') <= Cardinality(Leased)
      BY <1>0, <2>1, FS_Subset
    <2> QED
      BY <1>0, <2>2, FS_CardinalityType
  <1>3. CASE \E t \in Tasks, a \in Attempts, c \in Accounts : GrantsWork(t, a, c)
    <2>1. PICK t \in Tasks, a \in Attempts, c \in Accounts : GrantsWork(t, a, c)
      BY <1>3
    <2>2. Leased' = Leased \cup {a} /\ a \notin Leased
      BY <2>1, LeasedAfterWork
    <2>3. Cardinality(Leased) < limit /\ limit \in 1..MaxSlots
      BY <2>1 DEF GrantsWork, LeaseInvariant, TypeOK, TypePolicy
    <2>4. IsFiniteSet(Leased') /\ Cardinality(Leased') = Cardinality(Leased) + 1
      BY <1>0, <2>2, FS_AddElement
    <2> QED
      BY <1>0, <2>3, <2>4, FS_CardinalityType
  <1> QED
    BY <1>1, <1>2, <1>3 DEF WorkStep

LEMMA GuardiansStep ==
  ASSUME GuardiansInvariant, [Next]_vars, "slow" \notin Faults
  PROVE  GuardiansInvariant'
  <1>0. WorkInvariant /\ WorkInvariant' /\ WorkStep /\ LeaseInvariant
    BY WorkInvariantStep DEF GuardiansInvariant, WorkInvariant
  <1>1. (\A b \in Attempts : GuardianStep(b)) /\ ThreadStep
    BY <1>0, EveryGuardianStep
  <1>2. GuardiansHoldLeases
    BY DEF GuardiansInvariant
  <1>3. \A b \in Attempts : att[b].state = "unused" => guard[b] = "none" /\ outcome[b] = "none"
    BY <1>0 DEF WorkInvariant, PlannersAsk
  <1>4. pc \in {"release", "spawn"} => slot \in Attempts
    BY <1>0 DEF LeaseInvariant, TypeOK, TypeThread
  <1>5. IsFiniteSet(Leased') /\ Cardinality(Leased') <= MaxSlots
    BY <1>0, <1>2, LeasesStayFew
  <1>6. ASSUME pc' = "spawn" PROVE guard'[slot'] = "none"
    <2>1. slot' \in Attempts /\ guard[slot'] = "none"
      BY <1>1, <1>2, <1>3, <1>4, <1>6 DEF ThreadStep, GuardiansHoldLeases, UnusedAttempt
    <2> QED
      BY <1>1, <1>6, <2>1 DEF GuardianStep, Working, Up
  <1>7. ASSUME pc' = "release" PROVE guard'[slot'] \notin Up
    <2>1. slot' \in Attempts /\ guard[slot'] \notin Up
      BY <1>1, <1>2, <1>4, <1>7 DEF ThreadStep, GuardiansHoldLeases
    <2> QED
      BY <1>1, <1>7, <2>1 DEF GuardianStep, Working, Up
  <1>8. ASSUME NEW a \in Attempts, guard'[a] \in {"none", "starting"} \cup Working
        PROVE  outcome'[a] = "none"
    <2>1. guard[a] \in {"none", "starting"} \cup Working
      BY <1>1, <1>2, <1>8 DEF GuardianStep, GuardiansHoldLeases, Working
    <2>2. outcome[a] = "none"
      BY <1>2, <2>1 DEF GuardiansHoldLeases
    <2> QED
      BY <1>1, <1>8, <2>2 DEF GuardianStep, Working
  <1>9. ASSUME NEW a \in Attempts, guard'[a] \in Working PROVE a \in Leased'
    <2>1. a \in Leased
      BY <1>1, <1>2, <1>9 DEF GuardianStep, GuardiansHoldLeases, Working, Leased, Active
    <2>2. a \notin Leased' =>
            guard'[a] = guard[a] /\ (outcome[a] # "none" \/ (pc = "release" /\ slot = a))
      BY <1>0, <2>1, EndedByTheThread DEF Collecting
    <2> QED
      BY <1>2, <1>9, <2>2 DEF GuardiansHoldLeases, Working, Up
  <1> QED
    BY <1>0, <1>5, <1>6, <1>7, <1>8, <1>9 DEF GuardiansInvariant, GuardiansHoldLeases

LEMMA InitGuardiansInvariant == Init => GuardiansInvariant
  <1> SUFFICES ASSUME Init PROVE GuardiansInvariant
    OBVIOUS
  <1>1. \A a \in Attempts : att[a].state = "unused" /\ guard[a] = "none" /\ outcome[a] = "none"
    BY DEF Init, UnusedAttempt
  <1>2. Leased = {}
    BY <1>1 DEF Leased, Active
  <1>3. IsFiniteSet({}) /\ Cardinality({}) = 0 /\ 0 <= MaxSlots
    BY FS_EmptySet, CapacityPositive
  <1>4. pc = "idle"
    BY DEF Init
  <1> QED
    BY <1>1, <1>2, <1>3, <1>4, InitWorkInvariant
    DEF GuardiansInvariant, GuardiansHoldLeases, Working

\* Where no guardian is slow to register, each one at work is the live guardian of an attempt
\* whose lease stands: a lease is taken back only once its process is known to be gone.
THEOREM GuardiansInvariantHolds ==
  "slow" \notin Faults => (Spec => []GuardiansInvariant)
  <1> SUFFICES ASSUME "slow" \notin Faults PROVE Spec => []GuardiansInvariant
    OBVIOUS
  <1>1. GuardiansInvariant /\ [Next]_vars => GuardiansInvariant'
    BY GuardiansStep
  <1> QED
    BY <1>1, InitGuardiansInvariant, PTL DEF Spec

LEMMA WorkersAreFew ==
  ASSUME GuardiansInvariant
  PROVE  GuardiansWithinCapacity /\ NoDuplicateDispatch
  <1>1. {a \in Attempts : guard[a] \in Working} \subseteq Leased
    BY DEF GuardiansInvariant, GuardiansHoldLeases
  <1>2. IsFiniteSet(Leased) /\ Cardinality(Leased) <= MaxSlots
    BY DEF GuardiansInvariant, GuardiansHoldLeases
  <1>3. IsFiniteSet({a \in Attempts : guard[a] \in Working})
        /\ Cardinality({a \in Attempts : guard[a] \in Working}) <= Cardinality(Leased)
    BY <1>1, <1>2, FS_Subset
  <1>4. GuardiansWithinCapacity
    BY <1>2, <1>3, CapacityPositive, FS_CardinalityType DEF GuardiansWithinCapacity
  <1>5. LeaseInvariant
    BY DEF GuardiansInvariant, WorkInvariant
  <1>6. NoDuplicateDispatch
    BY <1>1, <1>5, OwnedRow DEF NoDuplicateDispatch
  <1> QED
    BY <1>4, <1>6

\* Where every guardian registers within the 15 s its claim allows it, guardians at work are
\* never more than the slots the owner can set, whatever is killed, crashes or is denied: each
\* holds its lease to the end.
THEOREM GuardiansFitTheSlots ==
  "slow" \notin Faults => (Spec => []GuardiansWithinCapacity)
  <1> SUFFICES ASSUME "slow" \notin Faults PROVE Spec => []GuardiansWithinCapacity
    OBVIOUS
  <1>1. GuardiansInvariant => GuardiansWithinCapacity
    BY WorkersAreFew
  <1> QED
    BY <1>1, GuardiansInvariantHolds, PTL

\* Under the same condition no two guardians work for one task.  Without it they can: a slow
\* one registers while the lease it was started for is being taken back.
THEOREM GuardiansNeverShareATask ==
  "slow" \notin Faults => (Spec => []NoDuplicateDispatch)
  <1> SUFFICES ASSUME "slow" \notin Faults PROVE Spec => []NoDuplicateDispatch
    OBVIOUS
  <1>1. GuardiansInvariant => NoDuplicateDispatch
    BY WorkersAreFew
  <1> QED
    BY <1>1, GuardiansInvariantHolds, PTL

-------------------------------------------------------------------------------
(* The inductive invariant *)

LooksTo(t, on) ==
  /\ task[t].state = "waiting_dependency"
  /\ \E d \in deps[t] : task[d].state \in Phone!Halted \/ d \in on

Closed(p, on) == \A u \in Existing(p) : LooksTo(u, on) => u \in on

\* Phone!Stuck, of the tasks of a project.
Hopeless(p, t) == \A on \in SUBSET Existing(p) : Closed(p, on) => t \in on

ForOwner == {"awaiting_input", "needs_auth", "needs_permission", "ready_for_approval"}

Rested(p) ==
  \A t \in Existing(p) :
    /\ task[t].state \notin Active \cup {"integrating"}
    /\ task[t].state \in Waiting => Hopeless(p, t)
    /\ task[t].state \in ForOwner => GoalOf[t] \in putAway

DependenciesStayHome ==
  \A t \in Tasks : \A d \in deps[t] : ProjectOf[d] = ProjectOf[t]

ArchiveInvariant ==
  /\ WorkInvariant /\ DependencyInvariant
  /\ DependenciesStayHome
  /\ builds \subseteq putAway
  /\ \A p \in shelved : Rested(p)

-------------------------------------------------------------------------------
(* What the phone shows of a project, in terms of its tasks *)

DependenciesAreHere ==
  \A t \in Tasks : \A d \in deps[t] : d \in Existing(ProjectOf[t])

LEMMA DependenciesHere ==
  ASSUME LeaseInvariant, DependencyInvariant, DependenciesStayHome
  PROVE  DependenciesAreHere
  BY Rows DEF DependenciesAreHere, DependencyInvariant, DependenciesExist,
     DependenciesStayHome, Existing

LEMMA StuckIsHopeless ==
  ASSUME DependenciesAreHere, NEW p
  PROVE  Phone!Stuck(State(p), Deps(p)) = {t \in Existing(p) : Hopeless(p, t)}
  <1>1. Existing(p) = DOMAIN State(p)
    BY DEF State
  <1>2. ASSUME NEW t \in Existing(p), NEW on
        PROVE  LooksTo(t, on) <=>
                 /\ State(p)[t] = "waiting_dependency"
                 /\ \E d \in Deps(p)[t] : State(p)[d] \in Phone!Halted \/ d \in on
    <2>1. State(p)[t] = task[t].state /\ Deps(p)[t] = deps[t]
      BY DEF State, Deps
    <2>2. \A d \in deps[t] : d \in Existing(p)
      BY DEF DependenciesAreHere, Existing
    <2>3. \A d \in deps[t] : State(p)[d] = task[d].state
      BY <2>2 DEF State
    <2> QED
      BY <2>1, <2>3 DEF LooksTo
  <1> QED
    BY <1>1, <1>2 DEF Phone!Stuck, Hopeless, Closed

\* Work that waits for work that stopped cannot be started.
LEMMA HopelessIsBlocked ==
  ASSUME DependenciesAreHere, NEW p, NEW t \in Existing(p), Hopeless(p, t)
  PROVE  task[t].state = "waiting_dependency" /\ Blocked(t)
  <1> DEFINE S == {u \in Existing(p) : task[u].state = "waiting_dependency" /\ Blocked(u)}
  <1>1. ASSUME NEW u \in Existing(p), LooksTo(u, S) PROVE u \in S
    <2>1. PICK d \in deps[u] : task[d].state \in Phone!Halted \/ d \in S
      BY <1>1 DEF LooksTo
    <2>2. task[d].state \notin Success
      BY <2>1 DEF Success, Phone!Halted
    <2>3. Blocked(u)
      BY <2>2 DEF Blocked
    <2> QED
      BY <1>1, <2>3 DEF LooksTo
  <1> HIDE DEF S
  <1>2. S \in SUBSET Existing(p)
    BY DEF S
  <1>3. t \in S
    BY <1>1, <1>2 DEF Hopeless, Closed
  <1> QED
    BY <1>3 DEF S

\* Verified work, here, always waits for the owner.
LEMMA BlocksShown ==
  ASSUME NEW p, NEW t \in Existing(p), task[t].state = "ready_for_approval"
  PROVE  Blocks(p)[t] = "needs_you"
  <1>1. Blocks(p)[t] = Phone!Block("ready_for_approval",
                         [state |-> "pending", publication |-> "none"], FALSE)
    BY DEF Blocks
  <1>2. Phone!Verified([state |-> "pending", publication |-> "none"], FALSE) = "needs_you"
    BY DEF Phone!Verified
  <1> QED
    BY <1>1, <1>2
    DEF Phone!Block, Phone!InFlight, Phone!Active, Phone!Queued, Phone!OwnerStates

LEMMA WaitingForOwnerShown ==
  ASSUME NEW p
  PROVE  WaitingForOwner(p) = {t \in Existing(p) : task[t].state \in ForOwner}
  <1>1. \A t \in Existing(p) : State(p)[t] = task[t].state
    BY DEF State
  <1>2. Existing(p) = DOMAIN State(p)
    BY DEF State
  <1> QED
    BY <1>1, <1>2, BlocksShown
    DEF WaitingForOwner, Phone!WaitingForOwner, Phone!OwnerStates, ForOwner

\* What project_work() lets the owner put away: nothing of it is owned or being staged, and
\* what is queued is stuck.
LEMMA NothingGoing ==
  ASSUME DependenciesAreHere, NEW p, StillGoing(p, FALSE) = {}, NEW t \in Existing(p)
  PROVE  /\ task[t].state \notin Active \cup {"integrating"}
         /\ task[t].state \in Waiting => Hopeless(p, t)
  <1>1. State(p)[t] = task[t].state /\ t \in DOMAIN State(p)
    BY DEF State
  <1>2. /\ State(p)[t] \notin Phone!InFlight
        /\ State(p)[t] \in Phone!Queued => t \in Phone!Stuck(State(p), Deps(p))
    BY <1>1 DEF StillGoing, Phone!StillGoing
  <1> QED
    BY <1>1, <1>2, StuckIsHopeless
    DEF Phone!InFlight, Phone!Active, Phone!Queued, Active, Waiting

-------------------------------------------------------------------------------
(* The kinds of step *)

\* Work that stays as it is, is cancelled, or is decided on.
Quiet(u) ==
  \/ task'[u].state = task[u].state
  \/ task[u].state # "absent" /\ task'[u].state = "cancelled"
  \/ task[u].state = "ready_for_approval" /\ task'[u].state \in {"completed", "blocked"}

StatesKept == UNCHANGED deps /\ \A u \in Tasks : task'[u].state = task[u].state

\* Only a task that is owned or being staged is written.
OwnedWritten ==
  /\ UNCHANGED deps
  /\ \E t \in Tasks : /\ task[t].state \in Active \cup {"integrating"}
                      /\ \A u \in Tasks \ {t} : task'[u] = task[u]

PlanFinished == \E a \in Attempts, plan \in UNION {Plans[t] : t \in Tasks} : FinishPlan(a, plan)

\* Only tasks a claim examined are written.
QueueWritten ==
  /\ UNCHANGED deps
  /\ \A u \in Tasks :
       \/ task'[u].state = task[u].state
       \/ task[u].state \in Waiting /\ ~Blocked(u)
       \/ task[u].state \in Waiting /\ task'[u].state = "waiting_dependency"
       \/ task[u].state = "ready"

QuietStep == UNCHANGED deps /\ \A u \in Tasks : Quiet(u)

LEMMA LeasedTaskWritten ==
  ASSUME LeaseInvariant, NEW a \in Attempts, a \in Leased, UNCHANGED deps,
         \A u \in Tasks \ {att[a].task} : task'[u] = task[u]
  PROVE  OwnedWritten
  BY OwnedRow DEF OwnedWritten

LEMMA InspectionKinds ==
  ASSUME LeaseInvariant, NEW a \in Attempts, Inspect(a)
  PROVE  StatesKept \/ OwnedWritten \/ PlanFinished
  <1>1. CASE InspectionDenied(a) \/ OrphanHeld(a)
    <2>1. a \in Leased
      BY <1>1 DEF InspectionDenied, OrphanHeld, Orphaned, LeaseInvariant, ThreadHoldsLeases, Leased
    <2>2. UNCHANGED deps /\ \A u \in Tasks \ {att[a].task} : task'[u] = task[u]
      BY <1>1, Rows DEF InspectionDenied, OrphanHeld, Park
    <2> QED
      BY <2>1, <2>2, LeasedTaskWritten
  <1>2. CASE LeftAlone(a) \/ OrphanFound(a)
    BY <1>2 DEF LeftAlone, OrphanFound, store, StatesKept
  <1>3. ASSUME Collecting(a), UNCHANGED deps, NEW after, EndsWith(a, after)
        PROVE  OwnedWritten
    <2>1. a \in Leased
      BY <1>3, CollectedResult
    <2>2. \A u \in Tasks \ {att[a].task} : task'[u] = task[u]
      BY <1>3, Rows DEF EndsWith
    <2> QED
      BY <1>3, <2>1, <2>2, LeasedTaskWritten
  <1>4. CASE \E plan \in UNION {Plans[t] : t \in Tasks} : FinishPlan(a, plan)
    BY <1>4 DEF PlanFinished
  <1>5. CASE \/ FinishUnconfirmed(a) \/ FinishCancelled(a) \/ FinishOutdated(a)
             \/ FinishClarify(a) \/ FinishReplan(a) \/ FinishBuild(a)
    BY <1>3, <1>5
    DEF FinishUnconfirmed, FinishCancelled, FinishOutdated, FinishClarify, FinishReplan,
        FinishBuild, Passed, Succeeded, Uncancelled
  <1>6. CASE \/ FinishReview(a) \/ FinishDirect(a) \/ FinishTrouble(a) \/ FinishRetry(a)
             \/ FinishRepair(a) \/ FinishBlocked(a)
    BY <1>3, <1>6
    DEF FinishReview, FinishDirect, FinishTrouble, FinishRetry, FinishRepair, FinishBlocked,
        Passed, Succeeded, Uncancelled
  <1> QED
    BY <1>1, <1>2, <1>4, <1>5, <1>6 DEF Inspect, Finish

LEMMA ExaminedWork ==
  ASSUME LeaseInvariant, NEW u \in Tasks,
         task'[u] = task[u] \/ (u \in Candidates /\ task'[u] = [task[u] EXCEPT !.state = PassedOver(u)])
  PROVE  \/ task'[u].state = task[u].state
         \/ task[u].state \in Waiting /\ ~Blocked(u)
         \/ task[u].state \in Waiting /\ task'[u].state = "waiting_dependency"
  <1>1. task[u] \in TaskRows
    BY Rows
  <1> QED
    BY <1>1 DEF Candidates, PassedOver, TaskRows

LEMMA QueueKinds ==
  ASSUME LeaseInvariant,
         NothingStartable \/ AtCapacity \/ \E t \in Tasks, c \in Accounts : Claim(t, c)
  PROVE  QueueWritten
  <1>1. CASE NothingStartable
    <2>1. \A u \in Tasks : task'[u] = task[u]
              \/ (u \in Candidates /\ task'[u] = [task[u] EXCEPT !.state = PassedOver(u)])
      BY <1>1 DEF NothingStartable
    <2> QED
      BY <1>1, <2>1, ExaminedWork DEF QueueWritten, NothingStartable
  <1>2. CASE AtCapacity
    BY <1>2 DEF AtCapacity, QueueWritten
  <1>3. ASSUME NEW t \in Tasks, NEW c \in Accounts, Claim(t, c)
        PROVE  QueueWritten
    <2>1. task[t].state \in Waiting /\ ~Blocked(t) /\ UNCHANGED deps
      BY <1>3 DEF Claim, Candidates, Startable
    <2>2. \A u \in Tasks \ {t} : task'[u] = task[u]
              \/ (u \in Candidates /\ task'[u] = [task[u] EXCEPT !.state = PassedOver(u)])
      BY <1>3 DEF Claim
    <2> QED
      BY <2>1, <2>2, ExaminedWork DEF QueueWritten
  <1> QED
    BY <1>1, <1>2, <1>3

LEMMA StagingKinds ==
  ASSUME LeaseInvariant, Staging
  PROVE  OwnedWritten \/ QuietStep
  <1>1. CASE \E t \in Tasks : IntegrationSucceeds(t) \/ IntegrationFails(t)
    BY <1>1, Rows DEF IntegrationSucceeds, IntegrationFails, OwnedWritten
  <1>2. ASSUME NEW p \in Projects, NEW accept \in BOOLEAN, Decide(p, accept)
        PROVE  QuietStep
    <2>1. ASSUME NEW u \in Tasks PROVE Quiet(u)
      <3>1. task[u] \in TaskRows
        BY Rows
      <3>2. \/ task'[u] = task[u]
            \/ /\ task[u].state = "ready_for_approval"
               /\ \E s \in {"completed", "blocked"} : task'[u] = [task[u] EXCEPT !.state = s]
        BY <1>2 DEF Decide
      <3> QED
        BY <3>1, <3>2 DEF Quiet, TaskRows
    <2> QED
      BY <1>2, <2>1 DEF QuietStep, Decide
  <1> QED
    BY <1>1, <1>2 DEF Staging

LEMMA RequestKinds ==
  ASSUME LeaseInvariant, OtherRequests
  PROVE  StatesKept \/ QuietStep
  <1>1. ASSUME NEW t \in Tasks, Cancel(t) PROVE QuietStep
    <2>1. task[t] \in TaskRows /\ UNCHANGED deps /\ task[t].state # "absent"
      BY <1>1, Rows DEF Cancel, Open
    <2>2. \A u \in Tasks \ {t} : task'[u] = task[u]
      BY <1>1, Rows DEF Cancel
    <2>3. task'[t] = [task[t] EXCEPT !.cancel_requested = TRUE,
                        !.state = IF @ \in Active THEN @ ELSE "cancelled"]
      BY <1>1, Rows DEF Cancel
    <2>4. task'[t].state = IF task[t].state \in Active THEN task[t].state ELSE "cancelled"
      BY <2>1, <2>3 DEF TaskRows
    <2> QED
      BY <2>1, <2>2, <2>4 DEF QuietStep, Quiet
  <1>2. ASSUME StopAll PROVE StatesKept
    <2>1. ASSUME NEW u \in Tasks PROVE task'[u].state = task[u].state
      <3>1. task[u] \in TaskRows
        BY Rows
      <3>2. task'[u] = task[u] \/ task'[u] = [task[u] EXCEPT !.cancel_requested = TRUE]
        BY <1>2 DEF StopAll
      <3> QED
        BY <3>1, <3>2 DEF TaskRows
    <2> QED
      BY <1>2, <2>1 DEF StopAll, StatesKept
  <1>3. CASE \/ PauseDispatch \/ ResumeDispatch
             \/ \E n \in 1..MaxSlots : SetCapacity(n)
             \/ \E on \in BOOLEAN : (\E p \in Projects : SetProject(p, on))
                                   \/ (\E c \in Accounts : SetAccount(c, on))
    BY <1>3
    DEF PauseDispatch, ResumeDispatch, SetCapacity, SetProject, SetAccount, store, StatesKept
  <1> QED
    BY <1>1, <1>2, <1>3 DEF OtherRequests

LEMMA GuardianKinds ==
  ASSUME LeaseInvariant, NEW a \in Attempts, Guardian(a) \/ ChildExits(a) \/ GuardianKilled(a)
  PROVE  StatesKept \/ OwnedWritten
  <1>1. CASE Register(a) \/ Verify(a)
    <2>1. a \in Leased
      BY <1>1 DEF Register, MayRegister, Verify, LeaseStands, Leased, Active
    <2>2. UNCHANGED deps /\ \A u \in Tasks \ {att[a].task} : task'[u] = task[u]
      BY <1>1, Rows DEF Register, Verify
    <2> QED
      BY <2>1, <2>2, LeasedTaskWritten
  <1>2. CASE \/ RegistrationRefused(a) \/ RegistrationDenied(a) \/ Launch(a) \/ RecordChild(a)
             \/ (\E result \in Outcomes : Report(a, result)) \/ GuardianExits(a)
             \/ ChildExits(a) \/ GuardianKilled(a)
    BY <1>2
    DEF RegistrationRefused, RegistrationDenied, Launch, RecordChild, Report, GuardianExits,
        ChildExits, GuardianKilled, store, StatesKept
  <1> QED
    BY <1>1, <1>2 DEF Guardian

LEMMA ElsewhereKinds ==
  ASSUME LeaseInvariant, Elsewhere
  PROVE  StatesKept \/ OwnedWritten \/ PlanFinished \/ QueueWritten \/ QuietStep
  <1>1. CASE Scheduler
    <2>1. CASE ControllerRestarts \/ TickBegins \/ Spawn \/ DispatchBegins \/ DispatchPaused
      BY <2>1
      DEF ControllerRestarts, TickBegins, Spawn, DispatchBegins, DispatchPaused, store, StatesKept
    <2>2. CASE Release
      <3>1. slot \in Attempts /\ slot \in Leased
        BY <2>2 DEF Release, LeaseInvariant, TypeOK, TypeThread, Leased
      <3>2. UNCHANGED deps /\ \A u \in Tasks \ {att[slot].task} : task'[u] = task[u]
        BY <2>2, Rows DEF Release
      <3> QED
        BY <3>1, <3>2, LeasedTaskWritten
    <2> QED
      BY <1>1, <2>1, <2>2, InspectionKinds, QueueKinds DEF Scheduler
  <1>2. CASE Clock
    <2>1. ASSUME NEW t \in Tasks, CooldownEnds(t) PROVE StatesKept
      <3>1. ASSUME NEW u \in Tasks PROVE task'[u].state = task[u].state
        <4>1. task[u] \in TaskRows
          BY Rows
        <4>2. task'[u] = task[u] \/ task'[u] = [task[u] EXCEPT !.cooling = FALSE]
          BY <2>1, Rows DEF CooldownEnds
        <4> QED
          BY <4>1, <4>2 DEF TaskRows
      <3> QED
        BY <2>1, <3>1 DEF CooldownEnds, StatesKept
    <2> QED
      BY <1>2, <2>1 DEF Clock, AccountRests, store, StatesKept
  <1>3. CASE ControllerCrash \/ \E t \in Tasks : Signal(t)
    BY <1>3 DEF ControllerCrash, Signal, store, StatesKept
  <1> QED
    BY <1>1, <1>2, <1>3, RequestKinds, StagingKinds, GuardianKinds DEF Elsewhere

-------------------------------------------------------------------------------
(* What a step leaves of a project that stays in the archive *)

\* Tasks of a project at rest: nothing but decisions and cancellations reaches them, unless a
\* request brings the project back.
QuietIn(p) == \A u \in Tasks : ProjectOf[u] = p => Quiet(u) /\ deps'[u] = deps[u]

LEMMA PlanStaysHome ==
  ASSUME LeaseInvariant, NEW a \in Attempts, NEW plan \in UNION {Plans[t] : t \in Tasks},
         FinishPlan(a, plan)
  PROVE  \E t \in Tasks :
           /\ task[t].state \in Active
           /\ \A u \in DOMAIN plan : ProjectOf[u] = ProjectOf[t] /\ u \in Tasks
           /\ \A u \in DOMAIN plan : plan[u] \subseteq DOMAIN plan
           /\ \A u \in Tasks : deps'[u] = IF u \in DOMAIN plan THEN plan[u] \cup deps[t]
                                          ELSE deps[u]
           /\ \A u \in Tasks \ {t} : u \notin DOMAIN plan => task'[u] = task[u]
  <1>1. Collecting(a)
    BY DEF FinishPlan, Passed, Succeeded, Uncancelled
  <1>2. PICK t \in Tasks : t = att[a].task
    BY <1>1, CollectedResult
  <1>3. a \in Leased
    BY <1>1, CollectedResult
  <1>4. task[t].state \in Active
    BY <1>2, <1>3, OwnedRow
  <1>5. plan \in Plans[t]
    BY <1>2 DEF FinishPlan
  <1>6. /\ DOMAIN plan \subseteq Tasks
        /\ \A u \in DOMAIN plan : plan[u] \subseteq DOMAIN plan /\ ProjectOf[u] = ProjectOf[t]
    BY <1>5, LeaseAssumption DEF LeaseAssumptions
  <1>7. \A u \in Tasks : deps'[u] = IF u \in DOMAIN plan THEN plan[u] \cup deps[t] ELSE deps[u]
    BY <1>2 DEF FinishPlan
  <1>8. \A u \in Tasks \ {t} : u \notin DOMAIN plan => task'[u] = task[u]
    BY <1>2 DEF FinishPlan
  <1> QED
    BY <1>4, <1>6, <1>7, <1>8

LEMMA RestedStaysQuiet ==
  ASSUME LeaseInvariant, DependenciesAreHere, NEW p, Rested(p), Elsewhere
  PROVE  QuietIn(p)
  <1> SUFFICES ASSUME NEW u \in Tasks, ProjectOf[u] = p
               PROVE  Quiet(u) /\ deps'[u] = deps[u]
    BY DEF QuietIn
  <1>1. CASE StatesKept
    BY <1>1 DEF StatesKept, Quiet
  <1>2. CASE OwnedWritten
    <2>1. PICK t \in Tasks : /\ task[t].state \in Active \cup {"integrating"}
                             /\ \A v \in Tasks \ {t} : task'[v] = task[v]
      BY <1>2 DEF OwnedWritten
    <2>2. u # t
      BY <2>1 DEF Rested, Existing, Active
    <2> QED
      BY <1>2, <2>1, <2>2 DEF OwnedWritten, Quiet
  <1>3. CASE PlanFinished
    <2>1. PICK a \in Attempts, plan \in UNION {Plans[t] : t \in Tasks} : FinishPlan(a, plan)
      BY <1>3 DEF PlanFinished
    <2>2. PICK t \in Tasks :
           /\ task[t].state \in Active
           /\ \A v \in DOMAIN plan : ProjectOf[v] = ProjectOf[t] /\ v \in Tasks
           /\ \A v \in Tasks : deps'[v] = IF v \in DOMAIN plan THEN plan[v] \cup deps[t]
                                          ELSE deps[v]
           /\ \A v \in Tasks \ {t} : v \notin DOMAIN plan => task'[v] = task[v]
      BY <2>1, PlanStaysHome
    <2>3. ProjectOf[t] # p
      BY <2>2 DEF Rested, Existing, Active
    <2>4. u # t /\ u \notin DOMAIN plan
      BY <2>2, <2>3
    <2> QED
      BY <2>2, <2>4 DEF Quiet
  <1>4. CASE QueueWritten
    <2>1. task[u].state \in Waiting => task[u].state = "waiting_dependency" /\ Blocked(u)
      <3>1. ASSUME task[u].state \in Waiting
            PROVE  u \in Existing(p) /\ Hopeless(p, u)
        BY <3>1 DEF Rested, Existing, Waiting
      <3> QED
        BY <3>1, HopelessIsBlocked
    <2>2. task'[u].state = task[u].state
      BY <1>4, <2>1 DEF QueueWritten, Waiting
    <2> QED
      BY <1>4, <2>2 DEF QueueWritten, Quiet
  <1>5. CASE QuietStep
    BY <1>5 DEF QuietStep
  <1> QED
    BY <1>1, <1>2, <1>3, <1>4, <1>5, ElsewhereKinds

LEMMA AskedWork ==
  ASSUME LeaseInvariant, NEW t \in Tasks, Answer(t) \/ Instruct(t) \/ Retry(t)
  PROVE  /\ UNCHANGED deps
         /\ \A u \in Tasks \ {t} : task'[u] = task[u]
         /\ task'[t].state \in {task[t].state, "ready"}
  <1>1. task[t] \in TaskRows
    BY Rows
  <1>2. UNCHANGED deps /\ \A u \in Tasks \ {t} : task'[u] = task[u]
    BY Rows DEF Answer, Instruct, Retry
  <1>3. CASE Answer(t)
    <2>1. task'[t] = [task[t] EXCEPT !.state = "ready",
                        !.instructions_pending = task[t].instructions_pending + 1,
                        !.clarifications = task[t].clarifications + 1]
      BY <1>3, Rows DEF Answer
    <2> QED
      BY <1>1, <1>2, <2>1 DEF TaskRows
  <1>4. CASE Instruct(t)
    <2>1. \E s \in {task[t].state, "ready"} : \E ph, n :
            task'[t] = [task[t] EXCEPT !.instructions_pending = n, !.state = s, !.phase = ph]
      BY <1>4, Rows DEF Instruct
    <2> QED
      BY <1>1, <1>2, <2>1 DEF TaskRows
  <1>5. CASE Retry(t)
    <2>1. task'[t] = [task[t] EXCEPT !.state = "ready", !.repairs = task[t].repairs + 1,
                        !.cancel_requested = FALSE]
      BY <1>5, Rows DEF Retry
    <2> QED
      BY <1>1, <1>2, <2>1 DEF TaskRows
  <1> QED
    BY <1>3, <1>4, <1>5

LEMMA ArchivedStaysQuiet ==
  ASSUME LeaseInvariant, DependenciesAreHere, NEW p, p \in shelved, p \in shelved',
         Rested(p), [ArchiveNext]_<<vars, archive>>
  PROVE  QuietIn(p)
  <1>1. CASE UNCHANGED vars
    BY <1>1 DEF vars, QuietIn, Quiet
  <1>2. ASSUME NEW t \in Tasks, TaskAction(t) PROVE QuietIn(p)
    <2>1. /\ UNCHANGED deps
          /\ \A u \in Tasks \ {t} : task'[u] = task[u]
          /\ task'[t].state \in {task[t].state, "ready"}
      BY <1>2, AskedWork DEF TaskAction
    <2>2. ProjectOf[t] = p => task'[t].state \notin Busy
      BY <1>2 DEF TaskAction, Restored
    <2>3. ProjectOf[t] = p => task'[t].state = task[t].state
      BY <2>1, <2>2 DEF Busy, Waiting
    <2> QED
      BY <2>1, <2>3 DEF QuietIn, Quiet
  <1>3. ASSUME NEW t \in Tasks, Request(t) PROVE QuietIn(p)
    <2>1. ProjectOf[t] # p
      BY <1>3 DEF Request
    <2>2. \A u \in Tasks \ {t} : task'[u] = task[u] /\ deps'[u] = deps[u]
      BY <1>3, Rows DEF Request, AddGoal
    <2> QED
      BY <2>1, <2>2 DEF QuietIn, Quiet
  <1>4. CASE Elsewhere
    BY <1>4, RestedStaysQuiet
  <1>5. CASE \/ \E t \in Tasks : ArchiveBuild(t)
             \/ \E q \in Projects : ArchiveProject(q) \/ RestoreProject(q)
             \/ \E g \in builds : RestoreBuild(g)
    BY <1>1, <1>5 DEF ArchiveBuild, ArchiveProject, RestoreProject, RestoreBuild
  <1> QED
    BY <1>1, <1>2, <1>3, <1>4, <1>5 DEF ArchiveNext

\* Waiting for work that stopped outlives every quiet step.
LEMMA HopelessStays ==
  ASSUME DependenciesAreHere, NEW p, QuietIn(p), NEW t \in Existing(p),
         Hopeless(p, t), task'[t].state = task[t].state
  PROVE  Hopeless(p, t)' /\ Existing(p)' = Existing(p)
  <1>1. Existing(p)' = Existing(p)
    BY DEF QuietIn, Quiet, Existing
  <1>2. SUFFICES ASSUME NEW on \in SUBSET Existing(p), Closed(p, on)' PROVE t \in on
    BY <1>1 DEF Hopeless
  <1> DEFINE more == on \cup {u \in Existing(p) : task'[u].state \in Phone!Halted}
  <1>3. ASSUME NEW u \in Existing(p), LooksTo(u, more) PROVE u \in more
    <2>1. task[u].state = "waiting_dependency" /\ u \in Tasks /\ ProjectOf[u] = p
      BY <1>3 DEF LooksTo, Existing
    <2>2. task'[u].state \in {"waiting_dependency", "cancelled"} /\ deps'[u] = deps[u]
      BY <2>1 DEF QuietIn, Quiet
    <2>3. CASE task'[u].state = "cancelled"
      BY <2>3 DEF Phone!Halted
    <2>4. CASE task'[u].state = "waiting_dependency"
      <3>1. PICK d \in deps[u] : task[d].state \in Phone!Halted \/ d \in more
        BY <1>3 DEF LooksTo
      <3>2. d \in Existing(p) /\ d \in Tasks /\ ProjectOf[d] = p
        BY <2>1, <3>1 DEF DependenciesAreHere, Existing
      <3>3. task[d].state \in Phone!Halted => task'[d].state \in Phone!Halted
        BY <3>2 DEF QuietIn, Quiet, Phone!Halted
      <3>4. task'[d].state \in Phone!Halted \/ d \in on
        BY <3>1, <3>3
      <3>5. LooksTo(u, on)'
        BY <2>2, <2>4, <3>1, <3>4 DEF LooksTo, Phone!Halted
      <3>6. u \in on
        BY <1>1, <1>2, <3>5 DEF Closed
      <3> QED
        BY <3>6
    <2> QED
      BY <2>2, <2>3, <2>4
  <1>4. more \in SUBSET Existing(p)
    OBVIOUS
  <1> HIDE DEF more
  <1>5. t \in more
    BY <1>3, <1>4 DEF Hopeless, Closed
  <1>6. task[t].state = "waiting_dependency"
    BY HopelessIsBlocked
  <1> QED
    BY <1>5, <1>6 DEF more, Phone!Halted

LEMMA RestedStays ==
  ASSUME DependenciesAreHere, NEW p, QuietIn(p), Rested(p), putAway \subseteq putAway'
  PROVE  Rested(p)'
  <1>1. Existing(p)' = Existing(p)
    BY DEF QuietIn, Quiet, Existing
  <1>2. SUFFICES ASSUME NEW t \in Existing(p)
                 PROVE  /\ task'[t].state \notin Active \cup {"integrating"}
                        /\ task'[t].state \in Waiting => Hopeless(p, t)'
                        /\ task'[t].state \in ForOwner => GoalOf[t] \in putAway'
    BY <1>1 DEF Rested
  <1>3. Quiet(t)
    BY DEF QuietIn, Existing
  <1>4. CASE task'[t].state = task[t].state
    <2>1. task[t].state \in Waiting => Hopeless(p, t)'
      BY <1>4, HopelessStays DEF Rested
    <2> QED
      BY <1>4, <2>1 DEF Rested
  <1>5. CASE task'[t].state \in {"cancelled", "completed", "blocked"}
    BY <1>5 DEF Active, Waiting, ForOwner
  <1> QED
    BY <1>3, <1>4, <1>5 DEF Quiet

-------------------------------------------------------------------------------
(* Every step keeps the invariant *)

LEMMA ArchiveSteps ==
  ASSUME [ArchiveNext]_<<vars, archive>>
  PROVE  [Next]_vars
  <1>1. CASE \E t \in Tasks : TaskAction(t) \/ Request(t)
    BY <1>1 DEF TaskAction, Request, Next, Owner
  <1>2. CASE \/ \E t \in Tasks : ArchiveBuild(t)
             \/ \E q \in Projects : ArchiveProject(q) \/ RestoreProject(q)
             \/ \E g \in builds : RestoreBuild(g)
             \/ UNCHANGED <<vars, archive>>
    BY <1>2 DEF ArchiveBuild, ArchiveProject, RestoreProject, RestoreBuild
  <1>3. CASE Elsewhere
    BY <1>3 DEF Elsewhere, OtherRequests, Next, Owner
  <1> QED
    BY <1>1, <1>2, <1>3 DEF ArchiveNext

LEMMA HomeStep ==
  ASSUME LeaseInvariant, DependenciesStayHome, [ArchiveNext]_<<vars, archive>>
  PROVE  DependenciesStayHome'
  <1>1. CASE UNCHANGED deps
    BY <1>1 DEF DependenciesStayHome
  <1>2. ASSUME NEW t \in Tasks, AddGoal(t) PROVE DependenciesStayHome'
    <2>1. /\ deps'[t] = Goals[t] /\ \A d \in Goals[t] : ProjectOf[d] = ProjectOf[t]
          /\ \A u \in Tasks \ {t} : deps'[u] = deps[u]
      BY <1>2, Rows DEF AddGoal
    <2> QED
      BY <2>1 DEF DependenciesStayHome
  <1>3. CASE PlanFinished
    <2>1. PICK a \in Attempts, plan \in UNION {Plans[t] : t \in Tasks} : FinishPlan(a, plan)
      BY <1>3 DEF PlanFinished
    <2>2. PICK t \in Tasks :
           /\ \A v \in DOMAIN plan : ProjectOf[v] = ProjectOf[t] /\ v \in Tasks
           /\ \A v \in DOMAIN plan : plan[v] \subseteq DOMAIN plan
           /\ \A v \in Tasks : deps'[v] = IF v \in DOMAIN plan THEN plan[v] \cup deps[t]
                                          ELSE deps[v]
      BY <2>1, PlanStaysHome
    <2> QED
      BY <2>2 DEF DependenciesStayHome
  <1>4. CASE Elsewhere
    BY <1>1, <1>3, <1>4, ElsewhereKinds
    DEF StatesKept, OwnedWritten, QueueWritten, QuietStep
  <1>5. CASE \E t \in Tasks : TaskAction(t) \/ Request(t)
    BY <1>1, <1>2, <1>5, AskedWork DEF TaskAction, Request
  <1>6. CASE \/ \E t \in Tasks : ArchiveBuild(t)
             \/ \E q \in Projects : ArchiveProject(q) \/ RestoreProject(q)
             \/ \E g \in builds : RestoreBuild(g)
             \/ UNCHANGED <<vars, archive>>
    BY <1>1, <1>6 DEF ArchiveBuild, ArchiveProject, RestoreProject, RestoreBuild, vars
  <1> QED
    BY <1>4, <1>5, <1>6 DEF ArchiveNext

LEMMA BuildsStep ==
  ASSUME builds \subseteq putAway, [ArchiveNext]_<<vars, archive>>
  PROVE  builds' \subseteq putAway' /\ putAway \subseteq putAway'
  BY DEF ArchiveNext, TaskAction, Restored, Request, ArchiveBuild, ArchiveProject,
     RestoreProject, RestoreBuild, Elsewhere, archive

\* A project may be put away only when it is at rest.
LEMMA PutAwayAtRest ==
  ASSUME DependenciesAreHere, builds \subseteq putAway, NEW p, ArchiveProject(p)
  PROVE  Rested(p)'
  <1>1. UNCHANGED <<task, deps, putAway>>
    BY DEF ArchiveProject, vars
  <1>2. \A t \in Existing(p) : task[t].state \in ForOwner => GoalOf[t] \in putAway
    BY WaitingForOwnerShown DEF ArchiveProject, Archivable
  <1>3. Rested(p)
    BY <1>2, NothingGoing DEF ArchiveProject, Archivable, Rested
  <1> QED
    BY <1>1, <1>3 DEF Rested, Existing, Hopeless, Closed, LooksTo

LEMMA ArchiveInvariantStep ==
  ASSUME ArchiveInvariant, [ArchiveNext]_<<vars, archive>>
  PROVE  ArchiveInvariant'
  <1>1. WorkInvariant /\ DependencyInvariant /\ LeaseInvariant /\ DependenciesStayHome
        /\ builds \subseteq putAway
    BY DEF ArchiveInvariant, WorkInvariant
  <1>2. [Next]_vars
    BY ArchiveSteps
  <1>3. WorkInvariant' /\ WorkStep
    BY <1>1, <1>2, WorkInvariantStep
  <1>4. DependencyInvariant'
    BY <1>1, <1>3, DependencyStep DEF WorkInvariant, LeaseInvariant
  <1>5. DependenciesStayHome'
    BY <1>1, HomeStep
  <1>6. builds' \subseteq putAway' /\ putAway \subseteq putAway'
    BY <1>1, BuildsStep
  <1>7. DependenciesAreHere
    BY <1>1, DependenciesHere
  <1>8. ASSUME NEW p \in shelved' PROVE Rested(p)'
    <2>1. CASE p \in shelved
      <3>1. Rested(p)
        BY <2>1 DEF ArchiveInvariant
      <3>2. QuietIn(p)
        BY <1>1, <1>7, <1>8, <2>1, <3>1, ArchivedStaysQuiet
      <3> QED
        BY <1>6, <1>7, <3>1, <3>2, RestedStays
    <2>2. CASE p \notin shelved
      <3>1. ArchiveProject(p)
        BY <1>8, <2>2
        DEF ArchiveNext, TaskAction, Restored, Request, ArchiveBuild, ArchiveProject,
            RestoreProject, RestoreBuild, Elsewhere, archive
      <3> QED
        BY <1>1, <1>7, <3>1, PutAwayAtRest
    <2> QED
      BY <2>1, <2>2
  <1> QED
    BY <1>3, <1>4, <1>5, <1>6, <1>8 DEF ArchiveInvariant

-------------------------------------------------------------------------------
(* The theorem *)

LEMMA RestedIsAtRest ==
  ASSUME ArchiveInvariant
  PROVE  ArchivedProjectsRest
  <1>1. DependenciesAreHere
    BY DependenciesHere DEF ArchiveInvariant, WorkInvariant
  <1>2. ASSUME NEW p \in shelved
        PROVE  /\ \A t \in Existing(p) : task[t].state \notin Active \cup {"integrating"}
               /\ \A t \in Existing(p) : task[t].state \in Waiting => Blocked(t)
               /\ \A t \in WaitingForOwner(p) : GoalOf[t] \in putAway
    <2>1. Rested(p)
      BY <1>2 DEF ArchiveInvariant
    <2>2. \A t \in Existing(p) : task[t].state \in Waiting => Blocked(t)
      BY <1>1, <2>1, HopelessIsBlocked DEF Rested
    <2>3. \A t \in WaitingForOwner(p) : GoalOf[t] \in putAway
      BY <2>1, WaitingForOwnerShown DEF Rested
    <2> QED
      BY <2>1, <2>2, <2>3 DEF Rested
  <1> QED
    BY <1>2 DEF ArchivedProjectsRest

\* An archived project is at rest, whatever the owner then asks of its tasks, however late a
\* guardian answers and whatever crashes: nobody works in it, nothing in it could be started,
\* and no decision is hidden in it but those of builds the owner once put away.
THEOREM ArchivedProjectsAreAtRest == ArchiveSpec => []ArchivedProjectsRest
  <1>1. ArchiveInit => ArchiveInvariant
    <2> SUFFICES ASSUME ArchiveInit PROVE ArchiveInvariant
      OBVIOUS
    <2>1. DependenciesStayHome
      BY DEF ArchiveInit, Init, DependenciesStayHome
    <2> QED
      BY <2>1, InitWorkInvariant, InitDependencyInvariant DEF ArchiveInit, ArchiveInvariant
  <1>2. ArchiveInvariant /\ [ArchiveNext]_<<vars, archive>> => ArchiveInvariant'
    BY ArchiveInvariantStep
  <1>3. ArchiveInvariant => ArchivedProjectsRest
    BY RestedIsAtRest
  <1> QED
    BY <1>1, <1>2, <1>3, PTL DEF ArchiveSpec
===============================================================================
