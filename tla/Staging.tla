------------------------------- MODULE Staging -------------------------------
(***************************************************************************)
(* From verified work to the owner's main branch, for one project.         *)
(*                                                                         *)
(* integrate() composes a candidate onto the staging branch and asks for   *)
(* approval; decision() and request_integration() record the owner's       *)
(* answer; publish() fast-forwards the source's main; sync_staging()       *)
(* brings staging up to main before new work.  `task', `approvals' and     *)
(* `project' are the store; `main' and `staging' are Git branches;         *)
(* `intent', `receipt' and `announced' are files.  No transaction spans    *)
(* two of the three, and the controller may die between any two steps.     *)
(*                                                                         *)
(* How work comes to pass its checks and reviews is module Leases.         *)
(***************************************************************************)
EXTENDS Naturals, SequencesExt

CONSTANTS
  Tasks,        \* the project's build tasks, those not yet asked for included
  Owner,        \* who makes the commits that are not the controller's
  None,         \* Python's None
  Reviewed,     \* tasks built with a review: sent back, they are reviewed, not rebuilt
  MaxTries,     \* compositions of one task, 3 in the source
  MaxToken,     \* bound: how often work on one task passes
  MaxCommits,   \* bound: the owner's commits to main
  Faults,       \* bound: the failures the world may inject
  Requests      \* bound: the requests the owner may make

\* A commit is the changes that lead to it: one is an ancestor of another iff it is its
\* prefix.  A change of the controller's names the task, its build and the lease it passed.
Change == [by : Tasks \cup {Owner}, build : Nat, token : Nat]
Commit == Seq(Change)

ASSUME StagingAssumption == None \notin Commit /\ Owner \notin Tasks /\ Reviewed \subseteq Tasks

VARIABLES
  task,        \* task -> row: state, phase, token, build_attempt, integration_tries
  approvals,   \* the approval rows in the order of their making
  project,     \* the project row: enabled, integration policy, heads
  main,        \* refs/heads/main of the source repository
  staging,     \* HEAD of the staging clone
  intent,      \* task -> integration-intent.json of its build, or None
  receipt,     \* task -> integration.json of its build, or None
  announced,   \* approvals with a publication intent.json
  pc,          \* where the scheduler thread is in tick()
  offers,      \* what this tick read and has yet to submit
  job,         \* the project's entry in Engine.integrations, or None once it is done
  step,        \* where the job is
  result       \* the commit the job is working on

store   == <<task, approvals, project>>
git     == <<main, staging>>
files   == <<intent, receipt, announced>>
tick    == <<pc, offers>>
running == <<job, step, result>>
vars    == <<store, git, files, tick, running>>

\* "working" stands for every state in which work is queued or under way, "blocked" for
\* every stopped one.
Busy == \E t \in Tasks : task[t].state \in {"working", "integrating", "ready_for_approval"}

Init ==
  /\ task = [t \in Tasks |-> [state |-> "absent", phase |-> "build", token |-> 0,
                              build_attempt |-> 0, integration_tries |-> 0]]
  /\ approvals = <<>>
  /\ project \in [enabled : {TRUE}, automatic : BOOLEAN, head : {<<>>},
                  accepted_head : {<<>>}, integrated_head : {<<>>}]
  /\ main = <<>> /\ staging = <<>>
  /\ intent = [t \in Tasks |-> None] /\ receipt = [t \in Tasks |-> None] /\ announced = {}
  /\ pc = "idle" /\ offers = {}
  /\ job = None /\ step = "idle" /\ result = <<>>

(***************************************************************************)
(* The owner: commits to main, requests to the controller.  A request is   *)
(* one transaction.                                                        *)
(***************************************************************************)
OwnerCommits ==
  /\ Len(SelectSeq(main, LAMBDA c : c.by = Owner)) < MaxCommits
  /\ main' = Append(main, [by |-> Owner, build |-> 0, token |-> Len(main)])
  /\ UNCHANGED <<store, staging, files, tick, running>>

\* Mutant: staging follows main wherever it went.
BehindAnyMain == ~Busy /\ main # project.head
\* New work starts from main if main moved ahead of staging by plain commits.
Behind == ~Busy /\ main # project.head /\ IsPrefix(project.head, main)

\* git merge --ff-only: it succeeds if one of the two is an ancestor of the other.
Related(c, d)  == IsPrefix(c, d) \/ IsPrefix(d, c)
FastForwarded(c) == IF IsPrefix(staging, c) THEN c ELSE staging

AddGoal(t) ==
  /\ task[t].state = "absent"
  /\ task' = [task EXCEPT ![t].state = "working"]
  /\ \/ /\ ~Behind
        /\ UNCHANGED <<project, staging>>
     \/ /\ Behind /\ Related(staging, main)
        /\ staging' = FastForwarded(main)
        /\ project' = [project EXCEPT !.head = main, !.accepted_head = main,
                                      !.integrated_head = main]
  /\ UNCHANGED <<approvals, main, files, tick, running>>

\* What add_goal refuses after sync_staging, SQLite rolls back and Git does not.
GoalRefused ==
  /\ "malformed" \in Requests
  /\ Behind /\ Related(staging, main)
  /\ staging' = FastForwarded(main)
  /\ UNCHANGED <<store, main, files, tick, running>>

\* Retry keeps the phase: rejected work that was reviewed is only reviewed again.
Retry(t) ==
  /\ task[t].state = "blocked" /\ task[t].token < MaxToken
  /\ task' = [task EXCEPT ![t].state = "working"]
  /\ UNCHANGED <<approvals, project, git, files, tick, running>>

\* decision() also compares the candidate with the staging HEAD, which it reads before its
\* transaction.  Staging was at the candidate when the approval was made, so a request that
\* came at once passes that test whatever staging is by now: it excludes no step.
Decidable(a) == approvals[a].state = "pending" /\ project.head = approvals[a].candidate

Accept(a) ==
  /\ Decidable(a)
  /\ approvals' = [approvals EXCEPT ![a].state = "accept"]
  /\ task' = [t \in Tasks |->
       IF t = approvals[a].task \/ (t \in approvals[a].covered
                                    /\ task[t].state = "ready_for_approval")
       THEN [task[t] EXCEPT !.state = "completed"] ELSE task[t]]
  /\ project' = [project EXCEPT !.accepted_head = approvals[a].candidate]
  /\ UNCHANGED <<git, files, tick, running>>

Reject(a) ==
  /\ Decidable(a)
  /\ approvals' = [approvals EXCEPT ![a].state = "reject"]
  /\ task' = [t \in Tasks |->
       IF t = approvals[a].task \/ (t \in approvals[a].covered
                                    /\ task[t].state = "ready_for_approval")
       THEN [task[t] EXCEPT !.state = "blocked"] ELSE task[t]]
  /\ project' = [project EXCEPT !.enabled = FALSE]
  /\ UNCHANGED <<git, files, tick, running>>

\* Mutant: no default for a project that has not been integrated yet.
SourceUnset == IF project.integrated_head = <<>> THEN None ELSE project.integrated_head
SourceExpected == project.integrated_head

RequestIntegration(a) ==
  /\ approvals[a].state = "accept"
  /\ project.head = approvals[a].candidate
  /\ approvals[a].publication \notin {"queued", "integrated"}
  /\ approvals' = [approvals EXCEPT ![a].publication = "queued",
                                    ![a].expected_source = SourceExpected]
  /\ UNCHANGED <<task, project, git, files, tick, running>>

SetPolicy ==
  /\ "policy" \in Requests
  /\ project' = [project EXCEPT !.automatic = ~@]
  /\ UNCHANGED <<task, approvals, git, files, tick, running>>

SetEnabled ==
  /\ ~project.enabled \/ "pause" \in Requests
  /\ project' = [project EXCEPT !.enabled = ~@]
  /\ UNCHANGED <<task, approvals, git, files, tick, running>>

Requested ==
  \/ \E t \in Tasks : AddGoal(t) \/ Retry(t)
  \/ GoalRefused \/ SetPolicy \/ SetEnabled
  \/ \E a \in DOMAIN approvals : Accept(a) \/ Reject(a) \/ RequestIntegration(a)

(***************************************************************************)
(* The scheduler thread: finish() moves tasks before tick() offers jobs.   *)
(***************************************************************************)
\* A build has a directory of its own: it starts without intent or receipt.
WorkPasses(t) ==
  /\ pc = "idle"
  /\ task[t].state = "working" /\ task[t].token < MaxToken
  /\ \/ /\ task[t].phase = "build"
        /\ task' = [task EXCEPT ![t].state = "integrating", ![t].token = @ + 1,
                                ![t].build_attempt = task[t].token + 1,
                                ![t].phase = IF t \in Reviewed THEN "review" ELSE "build"]
        /\ intent' = [intent EXCEPT ![t] = None]
        /\ receipt' = [receipt EXCEPT ![t] = None]
     \/ /\ task[t].phase = "review"
        /\ task' = [task EXCEPT ![t].state = "integrating", ![t].token = @ + 1]
        /\ UNCHANGED <<intent, receipt>>
  /\ UNCHANGED <<approvals, project, git, announced, tick, running>>

WorkStops(t) ==
  /\ pc = "idle"
  /\ task[t].state = "working"
  /\ task' = [task EXCEPT ![t].state = "blocked"]
  /\ UNCHANGED <<approvals, project, git, files, tick, running>>

\* Mutant: a publication that was once begun is taken to have ended.
WaitingUnannounced(a) == approvals[a].publication = "queued" /\ a \notin announced
Waiting(a) == approvals[a].publication = "queued"

\* The rows are read at once and submitted one by one; a paused controller does not come
\* this far.
ReadApprovals ==
  /\ pc = "idle"
  /\ pc' = "approvals"
  /\ offers' = {[kind |-> "publish", id |-> a, row |-> approvals[a]] :
                  a \in {b \in DOMAIN approvals : Waiting(b)}}
  /\ UNCHANGED <<store, git, files, running>>

\* Mutant: work whose tries are spent is not submitted again.
ToIntegrateWithTries(t) == task[t].state = "integrating" /\ task[t].integration_tries < MaxTries
ToIntegrate(t) == task[t].state = "integrating"

ReadTasks ==
  /\ pc = "approvals" /\ offers = {}
  /\ pc' = "tasks"
  /\ offers' = {[kind |-> "integrate", id |-> t, row |-> task[t]] :
                  t \in {u \in Tasks : ToIntegrate(u)}}
  /\ UNCHANGED <<store, git, files, running>>

TickEnds ==
  /\ pc = "tasks" /\ offers = {}
  /\ pc' = "idle"
  /\ UNCHANGED <<store, git, files, offers, running>>

\* submit_integration: one job per project; what finds another at work waits for a later tick.
SlotFree == job = None

Submit(o) ==
  /\ offers' = offers \ {o}
  /\ \/ /\ SlotFree
        /\ job' = o /\ step' = "start"
        /\ UNCHANGED result
     \/ /\ ~SlotFree
        /\ UNCHANGED running
  /\ UNCHANGED <<store, git, files, pc>>

Tick ==
  \/ ReadApprovals \/ ReadTasks \/ TickEnds
  \/ \E o \in offers : Submit(o)

(***************************************************************************)
(* integrate(): one branch per action, each between two effects.           *)
(***************************************************************************)
At(kind, place) == job # None /\ job.kind = kind /\ step = place

Goes(place) == step' = place /\ UNCHANGED job
EndsJob == job' = None /\ step' = "idle" /\ result' = <<>>

Stale == task[job.id].state # "integrating" \/ task[job.id].token # job.row.token
\* Mutant: the row the tick read is not compared with the task.
UnfitUnchecked == ~project.enabled
Unfit == ~project.enabled \/ Stale
Saved == intent[job.id]
\* The staging commit was made, but not recorded.
Completed == Saved # None /\ staging = Saved
\* The intent was written, but staging was not moved.
Prepared  == Saved # None /\ staging = Front(Saved)
Composable == staging = project.head /\ job.row.integration_tries < MaxTries

IntegrateDeclines ==
  /\ At("integrate", "start") /\ Unfit
  /\ EndsJob
  /\ UNCHANGED <<store, git, files, tick>>

IntegrateRecovers ==
  /\ At("integrate", "start") /\ ~Unfit
  /\ Completed
  /\ result' = Saved /\ Goes("receipt")
  /\ UNCHANGED <<store, git, files, tick>>

IntegrateResumes ==
  /\ At("integrate", "start") /\ ~Unfit
  /\ ~Completed /\ Prepared
  /\ result' = Saved /\ Goes("merge")
  /\ UNCHANGED <<store, git, files, tick>>

IntegrateStarts ==
  /\ At("integrate", "start") /\ ~Unfit
  /\ ~Completed /\ ~Prepared /\ Composable
  /\ task' = [task EXCEPT ![job.id].integration_tries = job.row.integration_tries + 1]
  /\ result' = staging /\ Goes("compose")
  /\ UNCHANGED <<approvals, project, git, files, tick>>

\* Staging is elsewhere, the budget is spent, or Git fails: to fetch the candidate, or already
\* to say where staging is.
IntegrateRefuses ==
  /\ At("integrate", "start") /\ ~Unfit
  /\ \/ ~Completed /\ ~Prepared /\ (~Composable \/ "git" \in Faults)
     \/ "unread" \in Faults
  /\ Goes("fail")
  /\ UNCHANGED <<store, git, files, tick, result>>

\* Mutant: staging is moved with nothing written down.
IntentUnwritten(commit) == intent
IntentWritten(commit) == [intent EXCEPT ![job.id] = commit]

\* The candidate is applied and checked in a worktree, committed, and announced.
Compose ==
  /\ At("integrate", "compose")
  /\ result' = Append(result, [by |-> job.id, build |-> job.row.build_attempt,
                               token |-> job.row.token])
  /\ intent' = IntentWritten(result')
  /\ Goes("merge")
  /\ UNCHANGED <<store, git, receipt, announced, tick>>

\* It does not apply, or the combined checks do not pass.
ComposeFails ==
  /\ At("integrate", "compose")
  /\ Goes("fail")
  /\ UNCHANGED <<store, git, files, tick, result>>

Merge ==
  /\ At("integrate", "merge")
  /\ staging' = FastForwarded(result)
  /\ Goes(IF Related(staging, result) THEN "receipt" ELSE "fail")
  /\ UNCHANGED <<store, main, files, tick, result>>

\* The intent stays when Git does not merge what it announces.
MergeFails ==
  /\ "git" \in Faults /\ At("integrate", "merge")
  /\ Goes("fail")
  /\ UNCHANGED <<store, git, files, tick, result>>

WriteReceipt ==
  /\ At("integrate", "receipt")
  /\ receipt' = [receipt EXCEPT ![job.id] = result]
  /\ Goes("record")
  /\ UNCHANGED <<store, git, intent, announced, tick, result>>

\* Mutant: the new approval speaks for its own task only.
CoversItself == {job.id}
\* The approval speaks for everything staged and not yet approved.
Covered == {t \in Tasks : task[t].state = "ready_for_approval"} \cup {job.id}

Approval ==
  [task |-> job.id, candidate |-> result, covered |-> Covered,
   state |-> IF project.automatic THEN "accept" ELSE "pending",
   publication |-> IF project.automatic THEN "queued" ELSE "none",
   expected_source |-> SourceExpected]

RecordStaged ==
  /\ At("integrate", "record")
  /\ ~Stale
  /\ approvals' = Append([a \in DOMAIN approvals |->
                            IF approvals[a].task \in Covered /\ approvals[a].state = "pending"
                            THEN [approvals[a] EXCEPT !.state = "superseded"]
                            ELSE approvals[a]], Approval)
  /\ task' = [task EXCEPT ![job.id].state = "ready_for_approval"]
  /\ project' = [project EXCEPT !.head = result,
                   !.accepted_head = IF project.automatic THEN result ELSE @]
  /\ EndsJob
  /\ UNCHANGED <<git, files, tick>>

\* Whatever went wrong, the task is blocked and its next attempt rebuilds.
RecordBlocked ==
  /\ At("integrate", "fail")
  /\ task' = [task EXCEPT ![job.id].state = "blocked", ![job.id].phase = "build"]
  /\ EndsJob
  /\ UNCHANGED <<approvals, project, git, files, tick>>

Integrate ==
  \/ IntegrateDeclines \/ IntegrateRecovers \/ IntegrateResumes
  \/ IntegrateStarts \/ IntegrateRefuses
  \/ Compose \/ ComposeFails \/ Merge \/ MergeFails \/ WriteReceipt
  \/ RecordStaged \/ RecordBlocked

(***************************************************************************)
(* publish(): it works from the approval row the tick read.                *)
(***************************************************************************)
Announced == job.id \in announced
\* Mutant: an intent is taken for the deed.
PublishedOnceAnnounced == Announced
Published == main = job.row.candidate /\ Announced

Publishable ==
  /\ main = job.row.expected_source
  /\ staging = job.row.candidate
  /\ receipt[job.row.task] = job.row.candidate
  /\ IsPrefix(job.row.expected_source, job.row.candidate)

PublishRecovers ==
  /\ At("publish", "start")
  /\ Published
  /\ Goes("record")
  /\ UNCHANGED <<store, git, files, tick, result>>

PublishStarts ==
  /\ At("publish", "start")
  /\ ~Published /\ Publishable
  /\ announced' = announced \cup {job.id}
  /\ Goes("advance")
  /\ UNCHANGED <<store, git, intent, receipt, tick, result>>

\* Besides what Publishable says, the checkout of main must have no local changes.
PublishRefuses ==
  /\ At("publish", "start")
  /\ ~Published
  /\ ~Publishable \/ "git" \in Faults
  /\ Goes("fail")
  /\ UNCHANGED <<store, git, files, tick, result>>

\* Mutant: main is set, not advanced from the commit that was expected.
MainAnywhere == TRUE
MainExpected == main = job.row.expected_source

\* update-ref with the expected value, or a fast-forward of the checkout.
PublishAdvances ==
  /\ At("publish", "advance")
  /\ \/ /\ MainExpected
        /\ main' = job.row.candidate
        /\ Goes("verify")
     \/ /\ ~MainExpected
        /\ UNCHANGED main
        /\ Goes("fail")
  /\ UNCHANGED <<store, staging, files, tick, result>>

PublishVerifies ==
  /\ At("publish", "verify")
  /\ Goes(IF main = job.row.candidate THEN "record" ELSE "fail")
  /\ UNCHANGED <<store, git, files, tick, result>>

\* The row may have changed since the tick read it: what is written is not compared with it.
Concluded(state) ==
  [approvals EXCEPT ![job.id].publication = state,
                    ![job.id].expected_source = job.row.expected_source]

RecordIntegrated ==
  /\ At("publish", "record")
  /\ approvals' = Concluded("integrated")
  /\ project' = [project EXCEPT !.integrated_head = job.row.candidate]
  /\ task' = [t \in Tasks |-> IF t \in job.row.covered
                              THEN [task[t] EXCEPT !.state = "completed"] ELSE task[t]]
  /\ EndsJob
  /\ UNCHANGED <<git, files, tick>>

RecordFailed ==
  /\ At("publish", "fail")
  /\ approvals' = Concluded("failed")
  /\ EndsJob
  /\ UNCHANGED <<task, project, git, files, tick>>

Publish ==
  \/ PublishRecovers \/ PublishStarts \/ PublishRefuses \/ PublishAdvances
  \/ PublishVerifies \/ RecordIntegrated \/ RecordFailed

(***************************************************************************)
(* Failures.                                                               *)
(***************************************************************************)
\* The last transaction of integrate() finds the task elsewhere, or the database refuses a
\* write.  integrate() handles it as any other failure, unless it is the report of one;
\* publish() leaves the row queued.
WriteFails ==
  /\ \/ /\ At("integrate", "record")
        /\ Stale \/ "locked" \in Faults
        /\ Goes("fail") /\ UNCHANGED result
     \/ /\ "locked" \in Faults
        /\ At("integrate", "fail") \/ At("publish", "record") \/ At("publish", "fail")
        /\ EndsJob
  /\ UNCHANGED <<store, git, files, tick>>

\* The controller dies; Git, the files and the store stay.
ControllerCrash ==
  /\ "crash" \in Faults /\ pc # "down"
  /\ pc' = "down" /\ offers' = {}
  /\ EndsJob
  /\ UNCHANGED <<store, git, files>>

ControllerRestarts ==
  /\ pc = "down"
  /\ pc' = "idle"
  /\ UNCHANGED <<store, git, files, offers, running>>

Next ==
  \/ OwnerCommits
  \/ pc # "down" /\ Requested
  \/ \E t \in Tasks : WorkPasses(t) \/ WorkStops(t)
  \/ Tick
  \/ Integrate \/ Publish
  \/ WriteFails \/ ControllerCrash \/ ControllerRestarts

Spec == Init /\ [][Next]_vars
===============================================================================
