-------------------------- MODULE StagingProperties --------------------------
(* What module Staging promises. *)
EXTENDS Staging, FiniteSets

TaskRow == [state : {"absent", "working", "integrating", "ready_for_approval", "completed",
                     "blocked"},
            phase : {"build", "review"}, token : Nat, build_attempt : Nat,
            integration_tries : Nat]
ApprovalRow == [task : Tasks, candidate : Commit, covered : SUBSET Tasks,
                state : {"pending", "accept", "reject", "superseded"},
                publication : {"none", "queued", "integrated", "failed"},
                expected_source : Commit]
ProjectRow == [enabled : BOOLEAN, automatic : BOOLEAN, head : Commit, accepted_head : Commit,
               integrated_head : Commit]
Composition == [kind : {"integrate"}, id : Tasks, row : TaskRow]
Publication == [kind : {"publish"}, id : DOMAIN approvals, row : ApprovalRow]

TypeStore == /\ task \in [Tasks -> TaskRow]
             /\ approvals \in Seq(ApprovalRow)
             /\ project \in ProjectRow
TypeGit   == main \in Commit /\ staging \in Commit
TypeFiles == /\ intent \in [Tasks -> Commit \cup {None}]
             /\ receipt \in [Tasks -> Commit \cup {None}]
             /\ announced \subseteq DOMAIN approvals
TypeTick  == /\ pc \in {"down", "idle", "approvals", "tasks"}
             /\ offers \subseteq Composition \cup Publication
TypeJob   == /\ job \in Composition \cup Publication \cup {None}
             /\ step \in {"idle", "start", "compose", "merge", "receipt", "record", "fail",
                          "advance", "verify"}
             /\ result \in Commit
TypeOK == TypeStore /\ TypeGit /\ TypeFiles /\ TypeTick /\ TypeJob

Composes(t, commit) == \E i \in DOMAIN commit : commit[i].by = t
                                             /\ commit[i].build = task[t].build_attempt
\* The commit has the task's work, from whatever build.
Built(t, commit) == \E i \in DOMAIN commit : commit[i].by = t

\* Staging is where the project row says, or one step ahead of it: at a commit some
\* integrating task has announced and not yet recorded, or at commits of main that a
\* refused request brought in.  What moved staging can be told after a restart, unless a
\* publication recorded late completes the task whose commit it is (then main has its work).
StagingIsExplained ==
  \/ staging = project.head
  \/ \E t \in Tasks : /\ \/ task[t].state = "integrating"
                         \/ task[t].state = "completed" /\ Built(t, main)
                      /\ intent[t] = staging /\ Front(staging) = project.head
  \/ IsPrefix(project.head, staging) /\ IsPrefix(staging, main)

\* However often an integration is interrupted and repeated, it is composed once.
ComposedOnce ==
  \A i, j \in DOMAIN staging :
     staging[i].by # Owner /\ staging[i].by = staging[j].by /\ staging[i].token = staging[j].token
       => i = j

\* Work the owner was told is staged or done stays in the project's head: the build it was
\* told of, unless a publication recorded late completed the task with the one main has.
StagedWorkStays ==
  \A t \in Tasks :
    /\ task[t].state = "ready_for_approval" => Composes(t, project.head)
    /\ task[t].state = "completed" => Composes(t, project.head) \/ Built(t, main)

\* What the phone is told of the project's tasks (control/story.py): "working" stands for work
\* an agent is at.
Phone == INSTANCE Story
Existing == {t \in Tasks : task[t].state # "absent"}
States == [t \in Existing |-> IF task[t].state = "working" THEN "running" ELSE task[t].state]
NoDeps == [t \in Existing |-> {}]

\* The newest approval that is the task's own or covers it.
Newest(t) ==
  LET mine == {a \in DOMAIN approvals : t = approvals[a].task \/ t \in approvals[a].covered} IN
  IF mine = {} THEN Phone!NoApproval ELSE approvals[CHOOSE a \in mine : \A b \in mine : b <= a]

Blocks == [t \in Existing |-> Phone!Block(States[t], Newest(t), project.automatic)]
Merging ==
  UNION {{approvals[a].task} \cup approvals[a].covered :
         a \in {b \in DOMAIN approvals : approvals[b].publication = "queued"}}
StillGoing == Phone!StillGoing(States, NoDeps, Blocks, Merging, FALSE)
WaitingForOwner == Phone!WaitingForOwner(States, Blocks)
Status == Phone!GoalStatus({Blocks[t] : t \in Existing})
Asked == {ask.task : ask \in Phone!NeedsYou(States, Blocks)}

\* Staged work never waits for nothing, and the phone says what it waits for: needs_you where
\* the newest approval can be decided and covers it, running where that one is accepted and its
\* publication queued, blocked where main refused it and the owner can ask again.  A decision
\* to make is never hidden by another task's state: the owner is asked for it, and the build
\* waits for the owner unless some of it runs.  What a finished build completed was accepted.
WaitingWorkIsShown ==
  /\ \A t \in Existing : task[t].state = "ready_for_approval" =>
       LET newest == Last(approvals) IN
       /\ t \in newest.covered /\ newest.candidate = project.head
       /\ \/ Blocks[t] = "needs_you" /\ newest.state = "pending"
          \/ Blocks[t] = "running" /\ newest.state = "accept" /\ newest.publication = "queued"
             /\ t \in StillGoing
          \/ Blocks[t] = "blocked" /\ newest.state = "accept" /\ newest.publication = "failed"
  /\ \A a \in DOMAIN approvals :
       Decidable(a) /\ (\E t \in approvals[a].covered : task[t].state = "ready_for_approval")
         => /\ Asked \cap approvals[a].covered # {} /\ Asked = WaitingForOwner
            /\ Status \in {"needs_you", "running"}
  /\ Status = "completed" => \A t \in Existing : task[t].state = "completed" =>
                                 Composes(t, project.accepted_head) \/ Built(t, main)

\* What the records call integrated is in main.
IntegratedIsInMain ==
  /\ IsPrefix(project.integrated_head, main)
  /\ \A a \in DOMAIN approvals :
       approvals[a].publication = "integrated" => IsPrefix(approvals[a].candidate, main)

\* Work is completed by the owner's decision on what is staged, or by the arrival of its commit
\* in main, and that commit was accepted, speaks for the task and has its work.
WorkCompletesAsAccepted ==
  [][\A t \in Tasks : task[t].state # "completed" /\ task'[t].state = "completed" =>
       \E a \in DOMAIN approvals :
         /\ approvals'[a].state = "accept"
         /\ t \in approvals[a].covered /\ Built(t, approvals[a].candidate)
         /\ \/ task[t].state = "ready_for_approval" /\ approvals[a].candidate = project.head
            \/ IsPrefix(approvals[a].candidate, main)]_vars

LocalMainOf == INSTANCE LocalMain
  WITH accepted <- {approvals[a].candidate :
                      a \in {b \in DOMAIN approvals : approvals[b].state = "accept"}}
\* Main moves only by the owner's commits and to accepted commits that extend it.
ImplementsLocalMain == LocalMainOf!Spec

\* The scheduler and its jobs go on, the controller in the end stays up, the owner does
\* not ask for ever for publications that are refused, nor is the database locked for ever.
Fairness ==
  /\ WF_vars(Tick) /\ WF_vars(Integrate) /\ WF_vars(Publish)
  /\ WF_vars(ControllerRestarts) /\ <>[](pc # "down")
  /\ <>[][~\E a \in DOMAIN approvals : RequestIntegration(a)]_vars
  /\ <>[][~WriteFails]_vars
FairSpec == Spec /\ Fairness

\* An integration ends, staged or blocked, unless the owner keeps the project paused.
IntegrationsEnd ==
  \A t \in Tasks : task[t].state = "integrating"
                     ~> task[t].state # "integrating" \/ ~project.enabled

Queued(a) == a \in DOMAIN approvals /\ approvals[a].publication = "queued"
\* A queued publication is carried out or refused, whatever interrupts it.  In a paused
\* project it may wait: there every tick submits integrations only to see them decline, and
\* nothing but the length of a tick keeps these from taking the one slot each time.
PublicationsEnd ==
  \A a \in 1..Cardinality(Tasks) * MaxToken :
     Queued(a) ~> ~Queued(a) \/ ~project.enabled

\* Nobody but the controller touches staging, so no integration finds that "Staging changed
\* outside its recorded integration".
NoFalseAlarm ==
  At("integrate", "start") /\ ~Unfit /\ ~Completed /\ ~Prepared => staging = project.head

\* Work that was sent back waits until it is staged again.
SentBackWorkWaits ==
  [][\A t \in Tasks : task[t].state \notin {"ready_for_approval", "completed"}
                        => task'[t].state # "completed"]_vars
===============================================================================
