-------------------------------- MODULE Adaptive --------------------------------
(***************************************************************************)
(* The adaptive controller (adaptive.py): a planner names one bounded task *)
(* at a time, one writer works on it in a private worktree, the controller *)
(* freezes and verifies what it wrote and either advances last-green or    *)
(* resets the worktree.  Meanwhile the owner may ask it to stop or         *)
(* interrupt it, and the run's deadline passes.                            *)
(*                                                                         *)
(* Abstracted: prompts, what a task is, and why a candidate is rejected (a *)
(* member of Defects).  A commit is the set of the steps whose work is in  *)
(* it; the base commit is {}.                                              *)
(***************************************************************************)
EXTENDS Naturals, Sequences, FiniteSets, SequencesExt

CONSTANTS
  MaxSteps,    \* --max-steps
  Hackathon,   \* whether the run is in hackathon mode
  Faults       \* what may fail: "error" (Git, the disk), "provider", "unconfirmed" (the
               \* stop of a provider), "interrupt" (Ctrl-C, once)

ASSUME AdaptiveAssumption == MaxSteps \in Nat \ {0} /\ Hackathon \in BOOLEAN

Steps == 1..MaxSteps
Commits == SUBSET Steps
Base == {}
NoCommit == {0}

VARIABLES
  pc,        \* where the controller is
  run,       \* run.json: its state and the tasks it has accepted
  loop,      \* the controller's locals: the step, the planner's answer, the candidate, ...
  clock,     \* 0, 1 in the last second before the deadline, 2 after it
  repo,      \* the private repository: the last-green ref and the writer's worktree
  green,     \* last_green; NoCommit before there is one
  stop,      \* the owner's request to stop, and the provider phases begun since it was filed
  stray,     \* the writers whose stop was never confirmed, by step
  record,    \* last-green.json
  manifest,  \* manifest.json: whether it is there and lists stop.request
  outcome,   \* how the controller ended
  signals    \* how often it was interrupted

vars == <<pc, run, loop, clock, repo, green, stop, stray, record, manifest, outcome, signals>>

Terminal == {"complete", "blocked", "deadline", "failed", "max_steps", "stopped"}

\* Why _rejection_reasons and the contract checks reject: the writer failed, nothing or a file
\* it does not own changed, a policy is violated, a required check or benchmark failed, the
\* candidate could not be frozen, the writer left its branch.
Defects == {"writer", "empty", "escaped", "policy", "check", "unfreezable", "branch"}

NoCandidate == [commit |-> NoCommit, reasons |-> {}, checked |-> FALSE, review |-> "none"]

Init ==
  /\ pc = "preflight"
  /\ run = [state |-> "preflight", accepted |-> <<>>]
  /\ loop = [step |-> 1, ok |-> TRUE, plan |-> "none", cand |-> NoCandidate,
             rejections |-> 0, accepted |-> <<>>, evaluated |-> "no"]
  /\ clock = 0
  /\ repo = [ref |-> NoCommit, head |-> Base, branch |-> TRUE]
  /\ green = NoCommit
  /\ stop = [pc |-> "idle", filed |-> FALSE, since |-> 0]
  /\ stray = {}
  /\ record = [there |-> FALSE, commit |-> NoCommit, accepted |-> <<>>]
  /\ manifest = [there |-> FALSE, stop |-> FALSE]
  /\ outcome = "none" /\ signals = 0

Late == clock = 2

-------------------------------------------------------------------------------
(* The owner and the clock.                                                *)

Tick ==
  /\ clock < 2 /\ outcome = "none"
  /\ clock' = clock + 1
  /\ UNCHANGED <<pc, run, loop, repo, green, stop, stray, record, manifest, outcome, signals>>

\* Mutant: a terminal state is shown at once.
ShownAtOnce == run.state

\* adaptive_status: an end is shown once its manifest is written.
Shown == IF run.state \in Terminal /\ ~manifest.there THEN "finalizing" ELSE run.state

\* request_stop reads the status and refuses a terminal run ...
AskStop ==
  /\ stop.pc = "idle" /\ run.state \notin Terminal
  /\ stop' = [stop EXCEPT !.pc = "asked"]
  /\ UNCHANGED <<pc, run, loop, clock, repo, green, stray, record, manifest, outcome, signals>>

\* ... and only then creates stop.request.
FileStop ==
  /\ stop.pc = "asked"
  /\ stop' = [stop EXCEPT !.pc = "done", !.filed = TRUE]
  /\ UNCHANGED <<pc, run, loop, clock, repo, green, stray, record, manifest, outcome, signals>>

-------------------------------------------------------------------------------
(* The controller's steps.                                                 *)

Goes(where) == pc' = where
Says(state) == run' = [run EXCEPT !.state = state]
Keeps == UNCHANGED <<clock, stray, record, manifest, outcome, signals>>

\* break: the loop is left for the export of last-green.
Leaves(state) == Says(state) /\ Goes("exporting") /\ UNCHANGED <<loop, repo, green, stop>>

\* Where the code looks for stop.request and at the clock.
Halts == \/ stop.filed /\ Leaves("stopped")
         \/ ~stop.filed /\ Late /\ Leaves("deadline")

\* The last-green ref may have moved although the command that moved it did not end well.
RefMoved ==
  \/ /\ pc = "deciding" /\ loop.cand.reasons = {}
     /\ repo' = [repo EXCEPT !.ref = loop.cand.commit]
  \/ UNCHANGED repo

\* Git and the evaluator raise once the deadline has passed; a provider's request does in the
\* last second already, as it counts the time left in whole seconds.
OutOfTime ==
  /\ \/ pc \in {"preflight", "done", "deciding"} /\ Late
     \/ pc \in {"planning", "dispatching", "scoping"} /\ clock > 0
  /\ Goes("raised deadline")
  /\ UNCHANGED <<run, loop, repo, green, stop>> /\ Keeps

\* Anything else a step does may raise as well.
Breaks ==
  /\ "error" \in Faults
  /\ pc \in {"preflight", "planning", "done", "dispatching", "scoping", "deciding", "accepted"}
  /\ Goes("raised error") /\ RefMoved
  /\ UNCHANGED <<run, loop, green, stop>> /\ Keeps

Preflight ==
  /\ pc = "preflight"
  /\ green' = Base /\ repo' = [repo EXCEPT !.ref = Base]
  /\ Goes("step")
  /\ UNCHANGED <<run, loop, stop>> /\ Keeps

TopOfLoop ==
  /\ pc = "step"
  /\ IF loop.step > MaxSteps THEN Leaves("max_steps")
     ELSE \/ Halts
          \/ /\ ~stop.filed /\ ~Late
             /\ Says("planning") /\ Goes("planning")
             /\ UNCHANGED <<loop, repo, green, stop>>
  /\ Keeps

\* _invoke: a provider's phase begins.
Phase == [planning |-> "planner", dispatching |-> "writer", scoping |-> "reviewer"]

Invoke ==
  /\ pc \in DOMAIN Phase /\ clock = 0
  /\ Goes(Phase[pc])
  /\ stop' = [stop EXCEPT !.since = IF stop.filed THEN @ + 1 ELSE @]
  /\ UNCHANGED <<run, loop, repo, green>> /\ Keeps

\* The planner answers: a provider that fails, an invalid plan, or one of its three actions.
Planned ==
  /\ pc = "planner"
  /\ \E ok \in IF "provider" \in Faults THEN BOOLEAN ELSE {TRUE},
        plan \in {"task", "done", "blocked", "invalid"} :
       loop' = [loop EXCEPT !.ok = ok, !.plan = plan]
  /\ Goes("planned")
  /\ UNCHANGED <<run, repo, green, stop>> /\ Keeps

\* Mutant: no look for stop.request once the planner answered.
ReadPlanUnasked ==
  /\ pc = "planned"
  /\ \/ ~loop.ok /\ Leaves("failed")
     \/ loop.ok /\ loop.plan = "invalid" /\ Leaves("failed")
     \/ loop.ok /\ loop.plan = "blocked" /\ Leaves("blocked")
     \/ loop.ok /\ loop.plan = "done" /\ Goes("done") /\ UNCHANGED <<run, loop, repo, green, stop>>
     \/ /\ loop.ok /\ loop.plan = "task"
        /\ Says("dispatching") /\ Goes("dispatching") /\ UNCHANGED <<loop, repo, green, stop>>
  /\ Keeps

ReadPlan ==
  /\ pc = "planned"
  /\ \/ ~loop.ok /\ Leaves("failed")
     \/ loop.ok /\ stop.filed /\ Leaves("stopped")
     \/ loop.ok /\ ~stop.filed /\ loop.plan = "invalid" /\ Leaves("failed")
     \/ loop.ok /\ ~stop.filed /\ loop.plan = "blocked" /\ Leaves("blocked")
     \/ /\ loop.ok /\ ~stop.filed /\ loop.plan = "done"
        /\ Goes("done") /\ UNCHANGED <<run, loop, repo, green, stop>>
     \/ /\ loop.ok /\ ~stop.filed /\ loop.plan = "task"
        /\ Says("dispatching") /\ Goes("dispatching") /\ UNCHANGED <<loop, repo, green, stop>>
  /\ Keeps

\* What the required checks of last-green say, which passed if it is a candidate.
Concludes ==
  /\ \E passes \in IF loop.evaluated = "no" THEN {"passed", "failed"} ELSE {loop.evaluated} :
       /\ loop.evaluated = "no" => ~Late
       /\ loop' = [loop EXCEPT !.evaluated = passes]
       /\ Says(IF passes = "passed" THEN "complete" ELSE "blocked")
  /\ Goes("exporting")

\* `done' counts once last-green passes them.
Done ==
  /\ pc = "done" /\ Concludes
  /\ UNCHANGED <<repo, green, stop>> /\ Keeps

\* The writer's work is in its worktree; it may have left its branch, or failed.
Written ==
  /\ pc = "writer"
  /\ \E ok \in IF "provider" \in Faults THEN BOOLEAN ELSE {TRUE}, branch \in BOOLEAN :
       /\ loop' = [loop EXCEPT !.ok = ok]
       /\ repo' = [repo EXCEPT !.head = @ \cup {loop.step}, !.branch = branch]
  /\ Goes("written")
  /\ UNCHANGED <<run, green, stop>> /\ Keeps

AfterWriting ==
  /\ pc = "written"
  /\ \/ Halts
     \/ /\ ~stop.filed /\ ~Late
        /\ Says("verifying") /\ Goes("verifying") /\ UNCHANGED <<loop, repo, green, stop>>
  /\ Keeps

\* Mutant: a failed writer is no reason.
ReasonsWithoutWriter(more) ==
  more \cup (IF repo.branch THEN {} ELSE {"branch"})

\* _rejection_reasons, the contract checks, and whatever freezing or evaluating raises.
Reasons(more) ==
  more \cup (IF loop.ok THEN {} ELSE {"writer"}) \cup (IF repo.branch THEN {} ELSE {"branch"})

\* The candidate as frozen and evaluated, with what else is wrong with it.
Judged(more) ==
  [commit |-> repo.head, reasons |-> Reasons(more \cup IF Late THEN {"unfreezable"} ELSE {}),
   checked |-> loop.ok /\ repo.branch /\ ~Late /\ more = {}, review |-> "none"]

\* The candidate is frozen on its branch and evaluated; a failed writer's is not checked.
Verify ==
  /\ pc = "verifying"
  /\ \E more \in {{}} \cup {{d} : d \in Defects \ {"writer", "branch"}} :
       loop' = [loop EXCEPT !.cand = Judged(more)]
  /\ Goes("verified")
  /\ UNCHANGED <<run, repo, green, stop>> /\ Keeps

\* Mutant: the scope review is skipped.
AfterVerificationUnreviewed ==
  /\ pc = "verified"
  /\ \/ Halts
     \/ /\ ~stop.filed /\ ~Late
        /\ Goes("deciding")
        /\ UNCHANGED <<run, loop, repo, green, stop>>
  /\ Keeps

AfterVerification ==
  /\ pc = "verified"
  /\ \/ Halts
     \/ /\ ~stop.filed /\ ~Late
        /\ Goes(IF Hackathon /\ loop.cand.reasons = {} THEN "scoping" ELSE "deciding")
        /\ UNCHANGED <<run, loop, repo, green, stop>>
  /\ Keeps

\* The scope reviewer approves, rejects, fails or answers something else.
Reviewed ==
  /\ pc = "reviewer"
  /\ \E verdict \in {"approve", "reject"} \cup (IF "provider" \in Faults THEN {"failed"} ELSE {}) :
       loop' = [loop EXCEPT !.cand.review = verdict,
                            !.cand.reasons = IF verdict = "approve" THEN {} ELSE {"scope"}]
  /\ Goes("scoped")
  /\ UNCHANGED <<run, repo, green, stop>> /\ Keeps

AfterReview ==
  /\ pc = "scoped"
  /\ \/ Halts
     \/ ~stop.filed /\ ~Late /\ Goes("deciding") /\ UNCHANGED <<run, loop, repo, green, stop>>
  /\ Keeps

\* A compare-and-swap of the ref and the controller's own last_green ...
Accept ==
  /\ pc = "deciding" /\ loop.cand.reasons = {}
  /\ repo.ref = green
  /\ repo' = [repo EXCEPT !.ref = loop.cand.commit]
  /\ green' = loop.cand.commit
  /\ loop' = [loop EXCEPT !.evaluated = "passed"]
  /\ Goes("accepting")
  /\ UNCHANGED <<run, stop>> /\ Keeps

\* ... then its list of what it accepted ...
Count ==
  /\ pc = "accepting"
  /\ loop' = [loop EXCEPT !.accepted = Append(@, [step |-> loop.step, cand |-> loop.cand]),
                          !.rejections = 0]
  /\ Goes("accepted")
  /\ UNCHANGED <<run, repo, green, stop>> /\ Keeps

\* ... and the decision and run.json; an interrupt finds what was done until then.
Tell ==
  /\ pc = "accepted"
  /\ run' = [run EXCEPT !.accepted = loop.accepted]
  /\ loop' = [loop EXCEPT !.step = @ + 1, !.cand = NoCandidate]
  /\ Goes("step")
  /\ UNCHANGED <<repo, green, stop>> /\ Keeps

\* Mutant: the rejected work stays in the worktree.
RejectInPlace ==
  /\ pc = "deciding" /\ loop.cand.reasons # {}
  /\ UNCHANGED repo
  /\ loop' = [loop EXCEPT !.rejections = @ + 1, !.step = @ + 1, !.cand = NoCandidate]
  /\ IF loop.rejections + 1 < 2 THEN Goes("step") /\ UNCHANGED run
     ELSE Goes("exporting") /\ Says("blocked")
  /\ UNCHANGED <<green, stop>> /\ Keeps

\* The worktree goes back to last-green; the second rejection in a row ends the run.
Reject ==
  /\ pc = "deciding" /\ loop.cand.reasons # {} /\ repo.branch
  /\ repo' = [repo EXCEPT !.head = green]
  /\ loop' = [loop EXCEPT !.rejections = @ + 1, !.step = @ + 1, !.cand = NoCandidate]
  /\ IF loop.rejections + 1 < 2 THEN Goes("step") /\ UNCHANGED run
     ELSE Goes("exporting") /\ Says("blocked")
  /\ UNCHANGED <<green, stop>> /\ Keeps

\* reset_engineer_worktree refuses a worktree that left its branch.
RejectRefused ==
  /\ pc = "deciding" /\ loop.cand.reasons # {} /\ ~repo.branch
  /\ Goes("raised error")
  /\ loop' = [loop EXCEPT !.rejections = @ + 1]
  /\ UNCHANGED <<run, repo, green, stop>> /\ Keeps

-------------------------------------------------------------------------------
(* Providers and checks whose stop is not confirmed.                       *)

\* runner.run raises ProcessTerminationError, which _invoke takes for a failed answer and
\* _run_check for a failed check, required or not, also when it was Ctrl-C that stopped the
\* process; it may go on writing.
Unstopped ==
  /\ "unconfirmed" \in Faults /\ pc \in {"planner", "writer", "reviewer", "verifying", "done"}
  /\ signals' \in {signals} \cup (IF "interrupt" \in Faults /\ signals = 0 THEN {1} ELSE {})
  /\ stray' = stray \cup {IF pc = "writer" THEN loop.step ELSE 0}
  /\ \/ pc = "planner" /\ loop' = [loop EXCEPT !.ok = FALSE] /\ Goes("planned") /\ UNCHANGED run
     \/ pc = "writer" /\ loop' = [loop EXCEPT !.ok = FALSE] /\ Goes("written") /\ UNCHANGED run
     \/ /\ pc = "reviewer" /\ Goes("scoped") /\ UNCHANGED run
        /\ loop' = [loop EXCEPT !.cand.review = "failed", !.cand.reasons = {"scope"}]
     \/ /\ pc = "verifying" /\ Goes("verified") /\ UNCHANGED run
        /\ \E more \in {{}, {"check"}} : loop' = [loop EXCEPT !.cand = Judged(more)]
     \/ pc = "done" /\ loop.evaluated = "no" /\ Concludes
  /\ UNCHANGED <<clock, repo, green, stop, record, manifest, outcome>>

StrayWrites ==
  /\ outcome = "none"
  /\ \E s \in stray \ {0} : s \notin repo.head /\ repo' = [repo EXCEPT !.head = @ \cup {s}]
  /\ UNCHANGED <<pc, run, loop, clock, green, stop, stray, record, manifest, outcome, signals>>

-------------------------------------------------------------------------------
(* The end of a run.                                                       *)

\* Mutant: the writer's worktree is exported.
ExportedHead ==
  record' = [there |-> TRUE, commit |-> repo.head, accepted |-> loop.accepted]

\* _export_last_green.
Exported ==
  record' = [there |-> TRUE, commit |-> green, accepted |-> loop.accepted]

Export ==
  /\ pc = "exporting"
  /\ \/ Exported /\ Goes("listing")
     \/ "error" \in Faults /\ Goes("raised error") /\ UNCHANGED record
  /\ UNCHANGED <<run, loop, clock, repo, green, stop, stray, manifest, outcome, signals>>

Listed == manifest' = [there |-> TRUE, stop |-> stop.filed]
Unlisted == "error" \in Faults /\ UNCHANGED manifest

Return ==
  /\ pc = "listing"
  /\ \/ Listed /\ Goes("ended") /\ outcome' = "returned"
     \/ Unlisted /\ Goes("raised error") /\ UNCHANGED outcome
  /\ UNCHANGED <<run, loop, clock, repo, green, stop, stray, record, signals>>

Interrupt ==
  /\ "interrupt" \in Faults /\ signals = 0 /\ outcome = "none"
  /\ pc \notin {"raised error", "raised deadline", "raised interrupt", "closing"}
  /\ signals' = 1
  /\ Goes("raised interrupt") /\ RefMoved
  /\ UNCHANGED <<run, loop, clock, green, stop, stray, record, manifest, outcome>>

\* cancel_all repeats that an earlier stop is not confirmed, and nothing is recorded.
Unrecorded ==
  /\ pc \in {"raised error", "raised deadline", "raised interrupt"} /\ stray # {}
  /\ Goes("ended") /\ outcome' = "raised"
  /\ UNCHANGED <<run, loop, clock, repo, green, stop, stray, record, manifest, signals>>

\* except Exception.
Fails ==
  /\ pc = "raised error" /\ stray = {}
  /\ Says("failed")
  /\ Listed \/ Unlisted
  /\ Goes("ended") /\ outcome' = "raised"
  /\ UNCHANGED <<loop, clock, repo, green, stop, stray, record, signals>>

\* except DeadlineExceeded and except KeyboardInterrupt: without a last-green, the first just
\* raises and the second still records the stop.
EndsEarly ==
  /\ pc \in {"raised deadline", "raised interrupt"} /\ stray = {}
  /\ IF pc = "raised deadline" /\ green = NoCommit
     THEN Goes("ended") /\ outcome' = "raised" /\ UNCHANGED <<run, record>>
     ELSE /\ Says(IF pc = "raised deadline" THEN "deadline" ELSE "stopped")
          /\ \/ /\ IF green = NoCommit THEN UNCHANGED record ELSE Exported
                /\ Goes("closing") /\ UNCHANGED outcome
             \/ /\ "error" \in Faults /\ Goes("ended") /\ outcome' = "raised" /\ UNCHANGED record
  /\ UNCHANGED <<loop, clock, repo, green, stop, stray, manifest, signals>>

\* The manifest follows the export; a deadline returns, an interrupt is raised again.
Close ==
  /\ pc = "closing" /\ Goes("ended")
  /\ \/ Listed /\ outcome' = IF run.state = "deadline" THEN "returned" ELSE "raised"
     \/ Unlisted /\ outcome' = "raised"
  /\ UNCHANGED <<run, loop, clock, repo, green, stop, stray, record, signals>>

-------------------------------------------------------------------------------
Controller ==
  \/ Preflight \/ TopOfLoop \/ Invoke \/ OutOfTime
  \/ Planned \/ ReadPlan \/ Done
  \/ Written \/ AfterWriting \/ Verify \/ AfterVerification
  \/ Reviewed \/ AfterReview \/ Accept \/ Count \/ Tell \/ Reject \/ RejectRefused
  \/ Export \/ Return \/ Unrecorded \/ Fails \/ EndsEarly \/ Close

Next ==
  \/ Controller
  \/ Breaks \/ Unstopped \/ StrayWrites \/ Interrupt
  \/ Tick \/ AskStop \/ FileStop

Spec == Init /\ [][Next]_vars

\* The controller runs, and every provider phase ends, at the latest at its timeout.
FairSpec == Spec /\ WF_vars(Controller)

-------------------------------------------------------------------------------
Accepted(c) ==
  c.reasons = {} /\ c.checked /\ (Hackathon => c.review = "approve")

\* The work in last-green: what was accepted, and the candidate that is about to be counted.
GreenWork ==
  LET counted == loop.accepted
      last == IF counted = <<>> THEN Base ELSE counted[Len(counted)].cand.commit
  IN IF green = last THEN counted ELSE Append(counted, [step |-> loop.step, cand |-> loop.cand])

\* Last-green is the base or the last accepted candidate; every candidate it builds on was
\* checked, passed and, in a hackathon, approved; and no rejected work is in it, unless the
\* writer of that work could not be stopped.
GreenIsProven ==
  green # NoCommit =>
    /\ \A i \in 1..Len(GreenWork) : Accepted(GreenWork[i].cand)
    /\ green = IF GreenWork = <<>> THEN Base ELSE GreenWork[Len(GreenWork)].cand.commit
    /\ green \ {GreenWork[i].step : i \in 1..Len(GreenWork)} \subseteq stray

\* A run that returns has ended on the record: a terminal state, and a last-green.json and a
\* run.json that agree with the ref and with each other.
ReturnsOnRecord ==
  outcome = "returned" =>
    /\ run.state \in Terminal /\ manifest.there
    /\ record.there /\ record.commit = repo.ref /\ record.commit = green
    /\ record.accepted = run.accepted

\* A stop takes effect after at most one more provider phase.
StopsSoon == stop.since <= 1

\* What the status shows as the end is the end, unless Ctrl-C follows the manifest.
EndsStay == [][(Shown \in Terminal /\ signals' = 0) => (Shown' = Shown)]_vars

\* Every run ends.
Returned == outcome # "none"
RunEnds == <>Returned
===============================================================================
