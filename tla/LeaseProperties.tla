---------------------------- MODULE LeaseProperties ----------------------------
(***************************************************************************)
(* What the scheduler, its guardians and the owner's requests promise      *)
(* together: properties of the behaviours of Leases.                       *)
(***************************************************************************)
EXTENDS Leases

Names == Attempts \cup {None}

TaskRows ==
  [state : TaskStates, phase : Phases, token : Nat, attempt_id : Names,
   cancel_requested : BOOLEAN, cooling : BOOLEAN,
   repairs : Nat, retries : Nat, recoveries : Nat, clarifications : Nat,
   instructions_pending : Nat, build_attempt : Names, review_attempt : Names,
   director_review_attempt : Names]

AttemptRows ==
  [state : Active \cup Results \cup {"unused", "interrupted"},
   task : Tasks \cup {None}, account : Accounts \cup {None}, token : Nat, phase : Phases,
   base : Names, instruction_count : Nat, identity : BOOLEAN]

TypeStore ==
  /\ task \in [Tasks -> TaskRows]
  /\ deps \in [Tasks -> SUBSET Tasks]
  /\ att \in [Attempts -> AttemptRows]
TypePolicy ==
  /\ paused \in BOOLEAN /\ limit \in 1..MaxSlots
  /\ enabled \in [Projects -> BOOLEAN]
  /\ healthy \in [Accounts -> BOOLEAN] /\ tired \in [Accounts -> BOOLEAN]
TypeWorld ==
  /\ guard \in [Attempts -> Up \cup {"none", "dead"}]
  /\ stop \in [Attempts -> BOOLEAN]
  /\ child \in [Attempts -> {"none", "unrecorded", "gone", "recorded", "dead"}]
  /\ outcome \in [Attempts -> Outcomes \cup {"none"}]
TypeThread ==
  /\ pc \in {"down", "idle", "tick", "release", "claim", "spawn"}
  /\ todo \subseteq Attempts /\ seen \subseteq todo
  /\ slot \in IF pc \in {"release", "spawn"} THEN Attempts ELSE {None}
  /\ signals \subseteq Tasks

\* Every variable holds a value of its table, file or thread.
TypeOK == TypeStore /\ TypePolicy /\ TypeWorld /\ TypeThread

\* Leases and owned tasks pair up: a leased attempt is the one its task names, under the
\* task's current token, and an owned task names a leased attempt of its own.
LeaseMatchesTask ==
  /\ \A a \in Leased :
       /\ att[a].task \in Tasks
       /\ task[att[a].task].state \in Active
       /\ task[att[a].task].attempt_id = a
       /\ task[att[a].task].token = att[a].token
  /\ \A t \in Tasks : task[t].state \in Active =>
       task[t].attempt_id \in Leased /\ att[task[t].attempt_id].task = t

\* The task table and the attempt table, each read for itself, step as the owners and the
\* holders of Ownership do: no step moves a lease between attempts, revives one, or ends it
\* in one table alone.
Owners == INSTANCE Ownership WITH
  owner <- [t \in Tasks |-> IF task[t].state \in Active THEN task[t].attempt_id ELSE None],
  holds <- {<<a, att[a].account>> : a \in Leased},
  spent <- {a \in Attempts : att[a].state # "unused"}
ImplementsOwnership == Owners!Spec

\* A subscription serves one attempt at a time.
OneLeasePerAccount ==
  \A a, b \in Leased : att[a].account = att[b].account => a = b

\* Builds that run together in a project own disjoint scopes, and there are at most two.
Building == {t \in Tasks : task[t].state \in Active /\ task[t].phase = "build"}
BuildersDisjoint ==
  \A t \in Building :
    /\ \A u \in Building \ {t} :
         ProjectOf[u] = ProjectOf[t] => <<t, u>> \notin Overlapping
    /\ Cardinality({u \in Building : ProjectOf[u] = ProjectOf[t]}) <= 2

PassedAttempt(a, t, phase) ==
  /\ a \in Attempts
  /\ att[a].state = "passed" /\ att[a].task = t /\ att[a].phase = phase

\* The candidate a task stages was built by a passed build attempt and approved, as exactly
\* that candidate, by a passed review from another account, and for directed work by the
\* director as well.
Vetted(t) ==
  /\ PassedAttempt(task[t].build_attempt, t, "build")
  /\ t \in Reviewed =>
       /\ PassedAttempt(task[t].review_attempt, t, "review")
       /\ att[task[t].review_attempt].base = task[t].build_attempt
       /\ att[task[t].review_attempt].account # Author(t)
  /\ t \in Reviewed \cap Directed =>
       /\ PassedAttempt(task[t].director_review_attempt, t, "direct")
       /\ att[task[t].director_review_attempt].base = task[t].build_attempt
OnlyVettedWorkIsStaged ==
  \A t \in Tasks : task[t].state \in {"integrating", "ready_for_approval"} => Vetted(t)

\* Work whose stop was requested is never staged, whatever its guardian reports later.
CancelledNeverStaged ==
  \A t \in Tasks : task[t].cancel_requested =>
    task[t].state \notin {"integrating", "ready_for_approval", "completed"}

\* Work that is staged was built after every instruction sent to it.
InstructionsBuilt(t) ==
  task[t].state \in {"integrating", "ready_for_approval"} =>
    task[t].instructions_pending <= att[task[t].build_attempt].instruction_count

\* An attempt of the task's that knew less came to nothing after the build, and was repeated.
Repeated(t) ==
  \E a \in Attempts :
    /\ att[a].task = t /\ att[a].token > att[task[t].build_attempt].token
    /\ att[a].state \notin Active \cup {"passed"}
    /\ att[a].instruction_count < task[t].instructions_pending

\* A director's work that is staged was built after every instruction sent to it, but for one
\* that came while it was judged by an attempt that had to be repeated.
DirectedInstructionsBuilt == \A t \in Directed : InstructionsBuilt(t) \/ Repeated(t)
InstructionsAlwaysBuilt == \A t \in Tasks : InstructionsBuilt(t)

\* Work is bounded: each attempt of a task that did not pass is charged to one of the
\* task's budgets, except the last one of a task that has stopped.
Failures(t) == {a \in Attempts : att[a].task = t /\ att[a].state \notin Active \cup {"passed"}}
FailuresAreCharged ==
  \A t \in Tasks \ Directed :
    Cardinality(Failures(t)) <=
      task[t].repairs + task[t].retries + task[t].recoveries
        + (IF task[t].state \in Stopped \cup {"cancelled"} THEN 1 ELSE 0)

\* An attempt that has ended is never revived, though its guardian may still be running.
EndedAttemptsStayEnded ==
  [][\A a \in Attempts : att[a].state \notin Active \cup {"unused"} =>
       att'[a].state = att[a].state]_vars

\* A cancelled or completed task never runs again: no late result, recovery or request moves it.
CancelledAndCompletedAreFinal ==
  [][\A t \in Tasks : task[t].state \in {"cancelled", "completed"} =>
       task'[t].state = task[t].state]_vars

\* What has ended stays ended, attempts and tasks alike: no late registration, result, recovery
\* or request revives it.
EndsAreFinal == EndedAttemptsStayEnded /\ CancelledAndCompletedAreFinal

\* Work starts only on dependencies that were built, reviewed and approved.
OnceVetted(t) ==
  /\ task[t].build_attempt # None
  /\ t \in Reviewed => task[t].review_attempt # None
  /\ t \in Reviewed \cap Directed => task[t].director_review_attempt # None
WorkFollowsItsDependencies ==
  \A a \in Attempts : att[a].task # None =>
    \A d \in deps[att[a].task] : OnceVetted(d)

\* Stopping everything leaves no work that nobody asked to stop, until dispatch resumes.
\* (Only stop-all pauses dispatch where the plain pause is not among the requests.)
StopAllStops ==
  paused /\ "pause" \notin Requests =>
    \A a \in Leased : task[att[a].task].cancel_requested

\* Guardians at work, and so the children they own, are never more than the slots the owner
\* can have set: a slot is not handed on while the guardian that held it works on.  One that
\* has written its result and not exited yet is left out: see CompletionsAwaitTheExit.
Working == {"up", "cli", "judging"}
GuardiansWithinCapacity == Cardinality({a \in Attempts : guard[a] \in Working}) <= MaxSlots

\* "Completion is authoritative only after the guardian exits" (engine.py:398).  Not so: a tick
\* that read the row before the guardian registered takes the result for a dead guardian's.
CompletionsAwaitTheExit ==
  [][\A a \in Attempts : att[a].state \in Active /\ att'[a].state \notin Active
                            /\ outcome[a] # "none" => guard[a] \notin Up]_vars

\* Two guardians never run for the same task.
NoDuplicateDispatch ==
  \A a, b \in Attempts :
    guard[a] \in Working /\ guard[b] \in Working /\ att[a].task = att[b].task => a = b

\* A lease taken back from a dead guardian leaves no child of it running.
ReleasedChildStopped ==
  \A a \in Attempts : att[a].state = "interrupted" /\ guard[a] = "dead" =>
    child[a] \notin {"unrecorded", "recorded"}

-------------------------------------------------------------------------------
(* Progress *)

\* Every thread and process runs, a CLI child ends (its run has a timeout), time passes
\* (cooldowns end; a lost guardian's lease is not for ever in its window or grace period),
\* and the controller, restarted by launchd, in the end stays up.
Fairness ==
  /\ WF_vars(Scheduler) /\ <>[](pc # "down")
  /\ \A a \in Attempts : WF_vars(Guardian(a) \/ ChildExits(a)) /\ SF_vars(OrphanFound(a))
  /\ \A t \in Tasks :
       /\ WF_vars(IntegrationSucceeds(t) \/ IntegrationFails(t))
       /\ WF_vars(CooldownEnds(t)) /\ WF_vars(Signal(t))
  /\ \A c \in Accounts : WF_vars(AccountRests(c))

FairSpec == Spec /\ Fairness

\* No lease is held for ever, whatever becomes of its guardian, its child and the controller.
LeasesEnd == \A a \in Attempts : att[a].state \in Active ~> att[a].state \notin Active

\* A stop requested of owned work takes effect, even when the signal is lost; it leaves the
\* task interrupted only if the CLI could not be seen to end.
CancelTakesEffect ==
  \A t \in Tasks : task[t].cancel_requested /\ task[t].state \in Active
    ~> \/ task[t].state = "cancelled"
       \/ task[t].state = "interrupted" /\ "unconfirmed" \in Faults

WithinBudgets(t) ==
  /\ task[t].repairs <= MaxRepairs /\ task[t].retries <= MaxRetries
  /\ task[t].recoveries <= MaxRecoveries

\* Queued work never spins and never stands still: nobody acting, it ends up staged, done or
\* handed to the owner, unless its project is paused (or, a bound, no attempt is left for what
\* its budgets still allow).
AutomaticWorkSettles ==
  \A t \in Tasks : task[t].state \in Active \cup Waiting
    ~> \/ task[t].state \notin Active \cup Waiting
       \/ ~enabled[ProjectOf[t]]
       \/ task[t].state \in Waiting /\ Spent /\ WithinBudgets(t)

===============================================================================
