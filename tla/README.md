# Verification of the agent workflow orchestrator

TLA+ models of the controller that leases coding work to CLI agents
(`src/src/agent_arena/control/`), of what runs on its host beside the scheduler, and of the
one-shot runs of the same package (`src/src/agent_arena/`); TLC runs that check them on small
instances; and TLAPS proofs of the properties that hold for every instance.

- [The system](#the-system): parts, state, interactions, what is hard
- [The modules](#the-modules): which module models what, and how to read it against the code
- [The runs](#the-runs): what TLC checks, with which bounds
- [Fairness](#fairness)
- [The proofs](#the-proofs)
- [Where the code and its documents part](#where-the-code-and-its-documents-part)
- [What is not modelled](#what-is-not-modelled)
- [Plan](#plan)

To repeat the checks, inside this directory:

    tlc -workers 2 -config MCLeases_recovery.cfg MCLeases      # any of the MC*.cfg
    tlc -workers 2 -config MCOwner_owner.cfg MCOwner
    tlapm LeaseProofs.tla        # Leases, Archive
    tlapm StagingProofs.tla      # Staging
    tlapm ConversationProofs.tla # Conversations, Routing, Acquisition
    tlapm ServiceProofs.tla      # Releases, Access
    tlapm ProvisioningProofs.tla # Enrolment, Provisioning
    tlapm ArenaProofs.tla        # Processes, Arena
    tlapm HostProofs.tla         # Workspaces; MCHost from ServiceProofs and ProvisioningProofs
    tlapm BenchProofs.tla        # Adaptive, Integration, Queues; MCBench from ArenaProofs

## The system

One controller process per state directory serves an HTTP interface to the owner's phone
and runs a scheduler thread. All durable facts are rows of one SQLite database; every write
is a `BEGIN IMMEDIATE` transaction (`store.py`). For each unit of work the scheduler starts
a *guardian*, a detached process that runs one CLI agent as its child, judges the result in
a clone of the project and leaves a `result.json`. Work that passes is composed into the
project's *staging* branch and, once accepted, fast-forwarded into its local `main`. The owner
talks to a *director* in conversations, enrols repositories, archives what is done, and pairs
devices; the host's commands prune clones and replace the controller by a newer release. The
same package holds the earlier, one-shot runs: an adaptive controller, a tournament, a single
headless agent, queues of those, and a panel that shows them.

| Part | Source | State it keeps | Operations | What makes it correct |
| --- | --- | --- | --- | --- |
| Scheduler | `engine.py` `tick`, `claim`, `finish`, `cancel` | tables `tasks`, `task_dependencies`, `attempts`; in memory: the rows a tick read, children | reconcile leased attempts, take leases back, apply results, lease one task, start its guardian | one owner per task, one lease per account, disjoint scopes, bounded work, nothing lost on a crash, every lease ends |
| Guardian | `worker.py` `main` | its process, `result.json`, `child.json` | register, launch the CLI, record the child, verify, report | acts only under a lease that stands; one result, written at the end |
| Orphan recovery | `recovery.py` | none of its own | decide whether a dead guardian's child is stopped | no lease is handed on over a running child |
| Owner's requests | `api.py` `control`, `task_action`, `project_action`, `agent_action`, `decision`, archive endpoints | tables, settings | goals, instructions, answers, cancel, stop-all, retry, pause, capacity, switches, decisions, archiving | a stop takes effect; staged, cancelled and completed work is out of reach; what is archived rests |
| Staging and publication | `engine.py` `integrate`, `sync_staging`, `submit_integration`; `publication.py` | staging branch, source `main`, intent and receipt files, `approvals`, project heads | compose, approve, publish, catch up with the source | only the accepted commit reaches `main`; a crash between Git and SQLite is bridged |
| Views and story | `story.py`, `views.py`, ... | none | what a block and a build are called, what needs the owner | what waits for the owner is shown to the owner |
| Store | `store.py` | the database | transactions, `command` (idempotent requests) | a retried request takes effect once (a message sent again too early does not: `OneMessagePerSend`) |
| Devices and sessions | `api.py` `pair`, `security`, `touch`, `get_session`; `store.py` `issue_pairing_code` | `pairing.json`, table `sessions`, cookies | mint and use codes, renew, notice absences, log out, revoke | a code pairs once, who is signed out stays out, who is active stays in |
| Planning | `planning.py` | none | validate a plan's schema and dependency graph | accepted are the plans inside the scope that can be worked off |
| Routing | `routing.py` | the attempts' history, advertised models, pins | choose account, model and effort | refused models are left alone, pins never block |
| Conversation director | `conversation.py`, `api.py` conversations | conversation rows, messages, `busy` | submit a turn, answer, recover stale turns, launch builds | one turn at a time, one answer per message, builds are what was asked for |
| Workspaces | `workspaces.py` | clones on disk | survey, check again, prune | nothing another build needs is removed |
| Activation | `activation.py` | releases, service definition, `releases.json` | swap releases, check health, roll back, prune | the service ends on a healthy release |
| Provisioning, enrolment | `provisioning.py`, `enrolment.py`, `discovery.py` | step records, the owner's repository, projects | commit unsaved work, enrol, create | what is committed is what the tap listed, but for what the owner does meanwhile; one repository, one project |
| Process runner | `process.py` | process groups | run with timeout, cancel all, terminate | reports a group stopped only when it is |
| Adaptive controller | `adaptive.py` | `run.json`, `last-green.json`, a private repository | plan, write, verify, accept or reset | last-green is verified; a run ends on its record |
| Integration of results | `integration.py` | branches and worktrees of the source, receipts | verify the evidence, apply the patch | what is on a new branch is the verified tree |
| Tournament | `orchestrator.py`, `evaluator.py`, `gitops.py` | a worktree and a result per engineer | implement, freeze, evaluate, revise, judge, export | the winner is a frozen, evaluated candidate; nothing runs on |
| Runs, queues, panel | `run_mode.py`, `batch.py`, `gui.py` | records, `STATE.md`, console log | run an agent and its checks, seal, go on | the next step builds on what was verified |
| Acquisition | `acquisition/core.py` | its own tables | propose, review, approve, execute | nobody is contacted twice or without approval |
| Harness support, providers, host set-up, web client | `ledger.py`, `config.py`, `providers/`, `__main__.py`, `web/`, ... | files | parsing, formatting, adapters | not modelled |

**How they interact.** The scheduler and the guardians share the tables `tasks` and
`attempts` and the attempt's directory, never memory; the HTTP service shares the tables and
signals guardians. A *lease* ties them together: `claim()` raises the task's `token` and
writes an attempt with the same token; whoever acts for the attempt later (registration,
verification, `finish()`) must find token and state unchanged. `tick()` works from rows it
read at its start, decides about processes it inspects outside any transaction, and only
then opens the transaction that ends a lease. Conversations, the archive, routing and the
story read and write the same tables; pruning reads them from another process; enrolment and
provisioning touch the owner's repository with Git commands between their transactions.

**What is hard.** A guardian may die at any point and leave its child behind; the controller
may die between committing a claim and starting its guardian; a guardian may register late,
when its lease has been taken back; a stop may arrive at any point of a run, and its signal
may be lost; an instruction may arrive while the work it concerns is built, reviewed or
waiting between the two; failures are charged to different budgets in different branches;
queued work holds scopes and accounts. A conversation's turn reads the conversation long
before it writes to it; a request is answered in several transactions; the owner works in the
repository that is being enrolled; an activator stops the very service it replaces; process
groups outlive the threads that started them. `PROJECT.json` lists each hazard at its line with
the properties that cover it.

## The modules

| Module | What it is |
| --- | --- |
| `Leases` | The scheduler, guardians, owner's requests and the passage of time, composed through the store: the detailed specification |
| `LeaseProperties` | What they promise: types, invariants, action properties, the refinement, fairness and progress |
| `Ownership` | The abstract specification: owners, holders and attempts that have been used up |
| `Archive` | Extends `Leases` by the archive of builds and projects |
| `LeaseProofs` | Theorems about `Leases` and `Archive`: tables that match, the refinement; what is staged, what it waited for, budgets, who is at work at once; that an archived project is at rest |
| `Workspaces` | Extends `Leases` by the clones attempts work in and their pruning |
| `Routing` | Which account, model and effort an attempt gets, over the history of attempts |
| `Planning` | Which plans are accepted |
| `Access` | Pairing codes, devices, sessions |
| `Staging` | From verified work to the owner's main: integration, approval, publication and catching up, over the store, two Git branches and the files between them |
| `StagingProperties` | What it promises: types, invariants, the refinement, fairness and progress |
| `StagingProofs` | Theorems about `Staging`: what reaches main, the refinement; what is composed, shown and completed |
| `LocalMain` | The abstract specification: what the owner is promised of the local main branch |
| `Story` | What the phone says of tasks and builds: pure functions, used by `StagingProperties` and `Archive` |
| `Conversations`, `ConversationProperties` | Turns, recoveries, idempotent messages and the builds they launch |
| `ConversationProofs` | Theorems about `Conversations`, `Routing` and `Acquisition` |
| `Enrolment`, `Provisioning` | Enrolling a repository its owner works in; creating a product on top of it |
| `ProvisioningProofs` | That the repository stays its owner's, and a product is one product |
| `Releases` | How the controller is replaced by another release |
| `ServiceProofs` | That activations and rollbacks end on a healthy release (`Releases`), and that devices are kept (`Access`) |
| `HostProofs` | Theorems about `Workspaces`: what pruning leaves alone; and about `MCHost`, from the two modules above |
| `Acquisition` | The outreach laboratory |
| `Processes`, `Arena` | The process runner; the tournament on top of it |
| `Adaptive`, `Integration` | The adaptive controller; the integration of what it verified |
| `ArenaProofs` | Theorems about tournaments: winners are proven, stops reach everything |
| `Queues` | Headless runs, queues of them, and what the panel shows |
| `BenchProofs` | Theorems about `Adaptive`, `Integration` and `Queues`; and about `MCBench`, with `ArenaProofs` |
| `MCLeases`, `MCStaging`, `MCConversations`, `MCOwner`, `MCHost`, `MCBench`, `MCProvisioning` | Small instances for TLC |

`MCOwner`, `MCHost` and `MCBench` put together components that share no state: a behaviour
explores one *part*, chosen in its initial state, and leaves the variables of the others as they
start. This is the union of the parts' own checks, not their product. The integration of an adaptive run's
result is a part of that run's, since it reads the run's record.

**`Leases` against the code.** `task` and `att` are the tables; a record's fields are the
columns and the keys of the row's JSON data the control flow reads. `deps` is
`task_dependencies`. `paused`, `limit`, `enabled`, `healthy` and `tired` are the settings,
projects and accounts (`tired` is an account in cooldown). `guard`, `stop`, `child` and
`outcome` are the guardian process, the SIGTERM it has received, its CLI child together with
`child.json` (`unrecorded`/`gone`: no record; `recorded`/`dead`: a record), and
`result.json`. `pc`, `todo`, `seen` and `slot` are the scheduler thread inside `tick()`:
the rows it has yet to look at, which of them had registered when it read them, and the
attempt in hand. `pc = "down"` is a controller that died and has not restarted: guardians, the
clock and their results go on, requests and integration wait. `signals` are cancel requests
committed but not yet delivered; a controller that dies forgets them.

Each action is one transaction or one visible step between two:

- `tick()` is `TickBegins`, one of `InspectionDenied`, `LeftAlone`, `OrphanHeld`,
  `OrphanFound` then `Release`, or a `Finish...` branch per attempt read, then
  `DispatchBegins` and `Claim`/`NothingStartable`/`AtCapacity`/`DispatchPaused`, then `Spawn`.
  The reading of the processes and the transaction that follows are separate actions where
  the code separates them (`OrphanFound`, `Release`; `DispatchBegins`, `Claim`; `Claim`, `Spawn`).
- `finish()` is one action per branch, in the order of the code's tests; each guard negates
  the earlier ones.
- `claim()` examines the queue in order: reviews and repairs first, then age and priority,
  which the model leaves open. Tasks it passes over on the way get their new state in the
  same step (`PassedOver`).
- `worker.main()` is `Register`/`RegistrationRefused`/`RegistrationDenied`, `Launch`,
  `RecordChild`, `Verify`, `Report`, `GuardianExits`. What a CLI run produces is chosen from
  the outcomes the code can write at that point.
- Every request of the owner is an action of its own; cancel and stop-all commit first and
  signal later (`Signal`).
- `integrate()` and `decision()` appear as their effect on the task table.

**Abstractions.** Time is not a number: a lease with no registration may be found young or
old (the 15 s of `tick`), a guardian that registered may be found within the 120 s of grace
or past it, cooldowns end some time later. Only the `slow` fault lets a registration come
later than 15 s. Prompts, diffs, checks and evidence are outcomes. The optimistic revision
check and the idempotency record of every request are left out: an action is a request that
was accepted once. Archiving is module `Archive`, the choice of model and effort module `Routing`; the
memory-pressure return before `claim()` and events are left out; that no route exists is the `noroute` fault. Integration
may succeed or fail whenever a task is integrating, which covers every schedule of the
integrator thread.

**`Staging` against the code.** One project. A commit is the sequence of changes that lead to
it, so "is an ancestor of" is `IsPrefix`, and a change names its author: the owner, or a task
with the build and the lease that passed. `task`, `approvals` and `project` are the store;
`main` is `refs/heads/main` of the source, `staging` the HEAD of the staging clone; `intent`,
`receipt` and `announced` are `integration-intent.json`, `integration.json` and the
publication's `intent.json`. `pc` and `offers` are the scheduler thread: the approvals and tasks
it has read and has yet to submit, each with the row as it was read. `job`, `step` and `result`
are the one job of the project (`Engine.integrations`).

- `submit_integration()` is `Submit`: an offer finds the slot free or is dropped until a later tick.
- `integrate()` is `IntegrateDeclines`, or `IntegrateRecovers`/`IntegrateResumes`/`IntegrateStarts`
  by what it finds of an earlier try, then `Compose`, `Merge`, `WriteReceipt`, `RecordStaged`, one
  action per effect on Git, a file or the store. Whatever fails goes to `RecordBlocked`.
- `publish()` is `PublishRecovers`/`PublishStarts`/`PublishRefuses`, `PublishAdvances`,
  `PublishVerifies`, then `RecordIntegrated` or `RecordFailed`. It works from the approval row the
  tick read.
- `add_goal()` with its `sync_staging()` is `AddGoal`; a goal refused after the synchronisation is
  `GoalRefused`, which also stands for a controller that dies between the merge and the commit.
- Building and reviewing are `WorkPasses` and `WorkStops`: module `Leases` is how it comes to them.
  "working" stands for every queued or running state, "blocked" for every stopped one.
- `decision()` reads the staging HEAD before its transaction; a client that asked when the approval
  was made passes that test whatever staging is by then, so the model leaves the test out.
- `ControllerCrash` may come between any two of these steps and loses the job and the offers.

Left out: retry budgets (`MaxToken` bounds instead), the worktree and its checks (`ComposeFails` is
any failure of theirs), `push_remote`, activation of a self-built release, archiving, project
scope. The controller's own pause is a tick that comes late. `MaxTries` is 3 in the source; the
runs take 1 or 2, so that the exhausted budget is reached.

**`Archive`.** `Leases` with the flags `archived` of goals and projects. `ArchiveBuild` and
`ArchiveProject` are the endpoints, with the test of what is still going taken from `Story`
(`story.still_going`), `RestoreBuild` and `RestoreProject` their opposites; every other request of
the owner is the one of `Leases`, followed by what `task_action` restores (`Restored`). Each task is a
build of its own, so that builds can wait for each other.

**`Story`.** Operators over the columns of the tasks asked about: `Block`, `StillGoing`,
`WaitingForOwner`, `NeedsYou`, `GoalStatus`. `Staging`'s states stand for several of the table's, so
`StagingProperties` maps them first (`States`).

**`Routing`.** `SelectRoute` is `select_route()`: per account the models it may use (`Models`), the
pin or why it is passed over (`Pin`, `Unavailable`), the effort (`Effort`), then the best score
(`Score`, `Better`). Ties by duration or identity are left open. `Claim` and `Conclude` extend the history the
next selection reads, with the budgets of `finish()`; `Repin` and `Readvertise` are the owner and
the CLIs. A refusal is remembered for `Window` attempts, 100 in the source and 3 in the run.

**`Planning`.** `Visit` is the depth-first search of `validate_plan()`, `Accepted` its verdict.

**`Access`.** A device is one pairing. `ReadCodes`, `WriteCodes`, `ReplaceCodes` are the steps of
`issue_pairing_code()` for each process or thread that mints; `Pair` is one transaction. A request is
`Arrive` (the session is looked up), its handler (`Poll`, `ReadSession` then `WriteAbsence`, `Seen`, `Revoke`,
`Logout`) and `Touch`, each a transaction of its own; whether the response that carries the
renewed cookie arrives is a choice in `Touch`. Time passes only between requests: they last
milliseconds, the periods are days. CSRF, origin and rate limits are left out.

**`Conversations`.** One conversation, any number of messages, projects and controllers that die.
A request is `Command` (the idempotent command), `RecoverFirst`, `Open`, `Mark`, each a transaction;
its turn is `Look` (what `_answer` reads first), `Apply` (what it writes last), `Draft` and `Launch`
(a build), `Finish` and `Release`. `Recovered` is `recover()`, at start, before a message and when the
phone reads. Drafts carry the project they were drawn up for and whether the project changed under
their turn. Left out: deselecting a project, `start_background()`, prompts and wording.

**`Workspaces`.** `Survey`, `Recheck` and `Remove` are the three readings of `prune`, from a process
that shares nothing with the scheduler but the database and the directory. Idle time is not modelled:
`--days 0` asks for none.

**`Releases`.** An activator is a process that goes through `Prepare`, `Save`, `Unload`, `Install`,
`Load`, then `Healthy` or back; `Rollback` starts the manual one. Files, `releases.json`, worktrees and the
launchd service are separate state, because a death leaves them apart. `strayed` records what has
happened that sets them apart for good (a death, a rollback that failed, an overlap); the properties say which
promises survive which of these. An activator dies between a swap's steps only in overlap with another one.

**`Enrolment`, `Provisioning`.** Every Git command is a step: `Examine`, `Describe`, `LookAgain`,
`ListChanges`, `StageListed`, `CommitStaged`, `ReadHead`, `Clone`, then the insertion and the stored
answer; `Remember` reads and writes down what was committed, or fails. `OwnerMoves` edits, stages, commits and
switches branches between any two of them, and `meddled` keeps what it, or another tap, did since a tap's last
look. A provision goes through folder, GitHub, enrolment and request. Left out: a Git command that fails did
nothing (one that times out may have committed); what else an owner can do to a repository (reset, stash, rebase).

**`Acquisition`.** Every action is one transaction; `Deliver` writes the receipt and `Complete` the
acknowledgement, and a process may die in between or be joined by a second one. `Greedy` and `Exact` are
the two selections, compared with the best plan there is.

**`Processes`, `Arena`.** A call of `run()` is `Check`, `Spawn`, `Leave`; `cancel_all()` is `Flag`, `Look`,
`StopOne`, `Settle`. Stopping a group either proves it gone or does not (`MaxUnconfirmed` of them). The ID of a
group that is gone may be a stranger's before its stop (`Reused`), which then hits the stranger. The coordinator of a tournament collects its
threads, freezes, evaluates, revises, scores, judges and exports; Ctrl-C, the deadline and errors reach it in
any of these, until its report is written (`Report`). Checks and the judge run in groups of their own, of which it matters only
that they may not be confirmed to have stopped (`LeftBehind`). A commit is the set of generations it descends from.

**`Adaptive`, `Integration`.** One action per stretch between two effects another party can see; accepting a step is three (`Accept`, `Count`,
`Tell`), since an interrupt finds the ref, the controller's lists and `run.json` apart between them. The
owner files a stop or interrupts at any step, the clock passes the deadline, the disk and Git fail, a
provider or a check is not confirmed to have stopped and goes on (`Unstopped`, `StrayWrites`). `Integration` adds the
owner at work in the source repository and a second call for the same branch.

**`Queues`.** A queue's loop around `execute()`: `Launch`, `AgentEnds` or `Unstoppable`, `Check`, `Record`,
`Seal`, `Report`, then `Journal`. `Shown` is what the panel makes of the log.

**Constants as bounds.** `Attempts` bounds how often work is claimed, `MaxPending` how many
instructions are sent, `MaxAnswers` how many questions are answered; `Faults`, `Requests`
and `Ends` select the failures, requests and run endings of an instance. `MaxRepairs`,
`MaxRetries`, `MaxRecoveries` are the budgets, 2 in the source. In `Staging`, `MaxToken` bounds how
often work on a task passes and `MaxCommits` the owner's commits. `Reused` gives away one group's ID at a time, and
`OwnerWorks` lets the owner into the source repository only after the adaptive run, since no integration looks before. `MaxClock`, `MaxDay`, `MaxMoves`,
`MaxRestarts`, `MaxCrashes`, `MaxJobs`, `MaxRouted`, `MaxChanges` bound time, the owner's doings and how often something
is started. Periods of days and minutes are ratios: a session of 3, renewed from 1 on, for 3.

## The runs

| Run | Expect | Question | Instance |
| --- | --- | --- | --- |
| `recovery` | pass | Do leases stay consistent, implement `Ownership` and end, and does a stop take effect, when guardians die or register late, the host denies inspection, attempts fail and the controller dies anywhere? | 1 task, 2 attempts, 1 slot; kill, crash, slow, denied, unconfirmed; a model may be unavailable; cancel |
| `pipeline` | pass | Is only work staged that was built, independently reviewed, judged by its director and built after every instruction? | a request, the build task its plan creates, 5 attempts, 2 accounts, which may be throttled; questions, answers, instructions |
| `contention` | pass | Do accounts, scopes and slots stay exclusive? | 3 tasks (2 overlapping), 3 accounts, up to 2 slots; pause, capacity |
| `owner` | pass | Do the owner's requests do what they say? | controls: 2 chained tasks, stop-all, resume, project switches, denied inspection, unconfirmed terminations, no route; troubles: 1 task whose attempts fail, retries, accounts off and on; archive: 2 builds of one project; routing: 2 accounts, 3 attempts, 2 pins; plans: all plans of up to 3 parts |
| `staging` | pass | Do staging, the project row, tasks, approvals and what the phone shows go together, whatever order decisions, publications, new goals and crashes come in? | 2 tasks (one reviewed), each passing twice, 1 commit of the owner's; crash; malformed goals, policy, pause |
| `interrupted` | pass | Is work composed once and published only to an accepted commit, and does every integration and publication end, when writes and Git calls fail too? | 2 tasks, each passing once, 1 commit of the owner's; crash, locked, git, unread |
| `conversations` | pass | Is each message that is let in answered once, does a send repeated after its answer start nothing, is what is built what was asked for, and does every turn end? | 2 messages, or one sent twice with its key; 2 projects; a crash, failing answers, transactions and goals |
| `host` | pass | Does what runs beside the scheduler leave alone what others need? | clones: 1 reviewed task, 3 attempts; releases: 3 commits, 3 activators or rollbacks, overlap, every failure; taps: 2 taps with one key, 3 moves of the owner's, a restart; proposals: 2 of one name and a tap; codes: 2 codes, 2 issuers, 2 devices; sessions: 2 requests at once, past the end of renewals; campaign: 2 executors; rivals: 2 campaigns, 4 records |
| `bench` | pass | Is what a run calls its result verified, does it leave nothing behind, and does it end? | adaptive: 2 steps, then 2 integrations for one branch; arena: 2 engineers, 1 revision round, judge; queue: 2 steps of 2 checks |
| `crossed` | violation | a draft is built on another project | 2 messages, no fault |
| `provision` | violation | an approved provision never ends | 2 proposals of one name |
| `hidden` | violation | an archived build runs | 2 builds, the second waiting for the first |

**Why the bounds suffice for the questions.** Losing a lease and granting the next takes two
attempts, so `recovery` shows each recovery followed by a new owner while the old guardian is
still around; the budgets are one, so both "charged" and "exhausted" happen. A pipeline with
plan, build, review and director's judgement takes four attempts; the fifth is the rework an
instruction causes, or the repetition of a review that was throttled. Contention needs a third task to fill the slot the overlapping pair
leaves. In `staging` each task can be staged, sent back and staged again, so an approval can be superseded,
rejected and outlived by its task while a publication of the other is under way; one commit of the
owner's is enough to be behind, to diverge, and to come between a publication's comparison and its
update. Two messages are what a conversation can confuse; a third is like the second. Two activators
overlap, and the third activation or rollback works from what they left. Two steps of an adaptive run let the
second start from the first's last-green, or from its reset worktree, and an integration take the first's if the
second is rejected. The files, devices and requests at a time
are the pairs that can race. With three routed attempts a refusal is remembered and forgotten.

`contention` uses symmetry on the accounts and `host` on the two requests in flight, which the
properties do not tell apart; the runs with liveness properties use none.

Every property has a mutant, an operator kept beside the definition it would replace
(`RegistersAnyway`, `CancelIgnored`, ...), under which TLC finds it violated: the property
depends on that line of the code. Several modules keep more of them than the check of the project
needs: for each promise a conjunction is made of.

## Fairness

`FairSpec` of `LeaseProperties` assumes weak fairness of the scheduler thread as a whole (its loop survives
exceptions, `engine.py:356`), of each guardian and of its child's end (the runner enforces a
timeout), of integration, of delivered signals and of cooldowns; that a lost guardian's lease
is in the end looked at outside its window or grace (strong fairness of `OrphanFound`, for a
tick may find it young any number of times but not for ever); and that the controller, which
launchd restarts, in the end stays up. Nothing is assumed of the owner, of faults, or of
what a run's outcome is.

In `StagingProperties` it is weak fairness of the scheduler's ticks, of the job under way
(`integrate` and `publish` run on a pool thread to their end) and of the restart after a crash;
that the controller in the end stays up and the database does not stay locked; and that the owner
does not ask for ever for a publication that is refused each time. Nothing is assumed of the
owner's commits, of what a composition yields or of Git. A queued publication of a paused project
may wait: every tick submits the project's integrations only to see them decline, and nothing but
timing keeps these from finding the slot first, so `PublicationsEnd` and `IntegrationsEnd` speak
of projects that are not paused.

In `Conversations`, some request or turn goes on while one can (weaker than fairness of each thread),
time passes for a turn that thinks, a controller that died is started again, and the phone reads the
conversation, which is when a stale turn is recovered. In `MCBench`, some thread of the explored part goes on while one can:
providers and checks run under timeouts the runner enforces. In `Provisioning`, each provision's thread runs.

## The proofs

Every theorem is about a specification without fairness and holds for every value of the constants:
any number of tasks, attempts, accounts, projects, commits, messages and activators, every fault and
request, every budget, unless the theorem says otherwise. What is assumed of the constants is named where
they are declared, and TLC evaluates it in the runs.

### Leases

`LeaseAssumption` says what kind of values the constants are, and what the code makes sure of in them: a
plan has finitely many parts, which depend on each other and not on the request, and inherit its project
and its two flags; goals and scopes are of tasks there are; there is at least one slot. `LeaseProofs`:

| Theorem | Statement |
| --- | --- |
| `LeaseInvariantHolds` | the inductive invariant below |
| `TypeCorrect` | `TypeOK` |
| `LeasesMatchTasks` | `LeaseMatchesTask`: owned tasks and leased attempts pair up under the current token |
| `AccountsServeOneLease` | `OneLeasePerAccount` |
| `LeasesImplementOwnership` | `ImplementsOwnership`: `Leases` refines `Ownership` |
| `StoppedWorkIsNeverStaged` | `CancelledNeverStaged` |
| `WhatEndedStaysEnded` | `EndsAreFinal`: ended attempts, cancelled and completed tasks stay so |

**The argument.** The invariant is `TypeOK`, `LeaseMatchesTask`, `OneLeasePerAccount` and
`ThreadHoldsLeases`. `LeaseMatchesTask` is not inductive by itself: a tick parks the task of
an attempt it read some time ago, and if that attempt had ended meanwhile the parked task
would look owned. `ThreadHoldsLeases` says this cannot be: the attempts a tick has yet to
look at still hold their leases, because no one but the scheduler ends a lease, and the one
it is releasing is no longer among them. The other direction, a guardian that comes late, is
stopped by the checks in its own transactions (`MayRegister`, `LeaseStands`): the proof needs
exactly the token and state tests they make.

Each of the some fifty actions is then shown to be a `LeaseStep`: it keeps every lease, ends
one, or grants one. The theorems about leases look at those three kinds only; the last two
theorems use the same idea for single rows (`RowMove`).

### Work

The second part of `LeaseProofs` carries this further, to what a task takes from one attempt to the next:

| Theorem | Statement |
| --- | --- |
| `WorkInvariantHolds` | the inductive invariant below |
| `StagedWorkIsVetted` | `OnlyVettedWorkIsStaged`: built, reviewed by another account, judged, and that build |
| `WorkFollowsDependencies` | `WorkFollowsItsDependencies`: nothing is claimed before all it waits for was vetted |
| `DirectedWorkFollowsInstructions` | `DirectedInstructionsBuilt`, with the exception that property makes |
| `WorkIsCharged` | `FailuresAreCharged` |
| `StopAllReachesEverything` | `StopAllStops` |
| `BuildersNeverCollide` | `BuildersDisjoint` (from `BuildersInvariantHolds`) |
| `GuardiansFitTheSlots` | `GuardiansWithinCapacity`, if no guardian is slow (from `GuardiansInvariantHolds`) |
| `GuardiansNeverShareATask` | `NoDuplicateDispatch`, under the same condition |

**The argument.** Each action is shown to be a `WorkStep`: nobody's lease ends, one ends in one of five
ways (redone, planned, built, reviewed, judged), or one is granted. `WorkInvariant` says what a lease was granted for is still
what its task asks for (`LeasesCarryWork`), that the leased attempt is the last of its task (`TokensGrow`),
that a task is under review only with a build of its own that passed, and before its director only once
that build was approved (`PhasesAreEarned`), and that only who plans asks back (`PlannersAsk`). Without the
first, a result would be credited to whatever the task asks for by then; without `PhasesAreEarned`, a
review that passes would say nothing of a build. A task that waits for another is compared with what the
other *once* was: a retry may send it back, but not before it was vetted.

Disjoint scopes and slots are counting arguments: `claim()` compares with every owned task, so two
that run together were compared when the later one was claimed; guardians at work hold distinct leases
(`GuardiansHoldLeases`), of which there are at most `MaxSlots`, also after the limit was lowered. A guardian
slower than 15 s may register while its lease is being taken back and be joined by the next one for
the same task, as TLC shows (`MCLeases_dup`). The condition `"slow" \notin Faults` is that 15 s.

### Archive and workspaces

The third part of `LeaseProofs` proves `ArchivedProjectsAreAtRest` (`ArchivedProjectsRest`) on top of `WorkInvariant`. That
what is archived was at rest *then* is the endpoint's test; that it stays so needs that work archived as
waiting waits for work that stopped, directly or through others (`Hopeless`, the least set closed under
waiting, which is what `story.stuck_waits()` computes), that such work is only
moved by requests that bring its project back, and that dependencies stay within a project
(`DependenciesStayHome`, `engine.py:261`).

`HostProofs` begins with a pruner that acts on a reading of the ledger long past:

| Theorem | Statement |
| --- | --- |
| `PruningInvariantHolds` | the inductive invariant below |
| `ReviewsFindTheirBuild` | the first half of `ClonesStay`: a review or a judgement whose lease stands finds its build's clone, under every fault |
| `ClonesAlwaysStay` | `ClonesStay`, which adds the clones agents run in, if no guardian is slow or killed |

**The argument.** A verdict of the pruner cannot turn: an attempt that ended stays ended, and a build
that a review needs is one the pruner would not choose (`NeededBy`), where the case that matters is a
blocked task with a retry left, which `PrunableStates` alone would give away. For the clones of agents,
a recorded child implies a lease or an attempt that ended unconfirmed (`AgentsHoldClones`), both of which the pruner
leaves alone. A guardian killed between starting its child and recording it leaves an agent nobody knows of
(`MCLeases_orphan`), whose clone may go once its lease is taken back: hence the condition on `kill` in the last theorem only.

### Staging

`StagingAssumption` says that None is no commit, the owner no task, and the reviewed tasks are tasks. `StagingProofs`:

| Theorem | Statement |
| --- | --- |
| `StagingTypeCorrect` | `TypeOK` |
| `PublicationInvariantHolds` | the inductive invariant below |
| `IntegratedWorkIsInMain` | `IntegratedIsInMain` |
| `StagingImplementsLocalMain` | `ImplementsLocalMain`: `Staging` refines `LocalMain` |

**The argument.** A publication works from the approval row its tick read, and from a comparison
with main it made before the update. `PublicationInvariant` says why neither matters:
`RequestsWereAccepted` (what is queued was accepted), `RowsStayTrue` (an old row still names the
commit its approval is about, and acceptance is never taken back), `UpdatesExtendMain` (the commit to
be published extends the one expected, and the update happens only if main is still there) and
`RecordsFollowMain` (once the update was seen main only moves forward, so the record stays true
whatever is committed before it is written). Each part is shown once for the few actions that touch
it; the lemmas `WhoWritesApprovals`, `WhoMovesMain`, `WhoSetsIntegratedHead`, `WhoMovesTheJob` and
`WhatComesUnderway` say which these are. Commits are sequences: that ancestry is reflexive,
transitive and kept by a new commit is proved first.

The second part of `StagingProofs` builds on it:

| Theorem | Statement |
| --- | --- |
| `CompositionInvariantHolds` | the inductive invariant below |
| `WorkIsComposedOnce` | `ComposedOnce`: however often an integration is repeated, its work is in staging once |
| `StagedWorkIsNeverLost` | `StagedWorkStays`: what was called staged or done is in the project's head or in main |
| `WorkIsCompletedAsAccepted` | `WorkCompletesAsAccepted`: only by the acceptance, or arrival in main, of a commit with that work |
| `WaitingWorkIsAlwaysShown` | `WaitingWorkIsShown` (from `WaitingInvariant`) |
| `StagingIsAlwaysExplained` | `StagingIsExplained`, if the database takes what a job writes and Git says where staging is |

**The argument.** While a composition is past its first test nobody moves its task, the head or
staging (`CompositionIsAlone`): the claim that makes it safe to have them read before they are used. An
interrupted composition left an intent, which is the task's current build on top of what was the head
(`IntentsExtendHead`), so that its repetition can tell what is in staging already; what waits to be
composed is not in the head yet (`ComposedLater`). An approval's candidate has the work of every task the
approval speaks for (`CandidatesHaveTheirWork`), it is never dropped from the head (`CommitsAreOrdered`), and of the approvals
that wait only the newest speaks for tasks still undecided (`PendingApprovalsWait`). What is shown needs two
more parts: the newest approval is of the head and speaks for all that is staged, and is pending or on its way
(`NewestSpeaksForStaged`), and the accepted head has what was completed (`AcceptedWorkStays`).

All but the last hold under every fault. When a write is refused after the merge into staging
(`locked`), the task is blocked as after a failed composition and its intent discarded, so that staging stays at a
commit no record names; likewise when Git does not say, at the repetition, where staging is (`unread`).
`StagingIsAlwaysExplained` therefore assumes that `Faults` has neither.

### Conversations

`ConversationProofs` proves about `Conversations`, from `ConversationsAssumption` (what kind of values the
constants are, and that None is no project and no request), for any number of projects, messages
and controllers that die, and every combination of faults:

| Theorem | Statement |
| --- | --- |
| `ConversationInvariantHolds` | the inductive invariant below |
| `ConversationTypeCorrect` | `TypeOK` |
| `MessagesAnsweredOnce` | `OneAnswerEach` |
| `BuildsAreWhatWasMeant` | `BuildsAreMeant` |

**The argument.** `OneAnswerEach` is inductive but for restarts and repeated requests, which `DeadMeansQuiet`
(no thread outlives its controller) and `FreshTurns` (a request that has not opened its message has started
nothing) settle: recovery acts only where no turn owns the conversation, and a message opens only where none
thinks. That a repeated send starts nothing once its request was answered rests on `DoneIsMarked` (a key is marked by then, so
that the repetition is answered from the log). What is built was meant because of what each place of a turn remembers: a turn that has read the
conversation saw the project it still has, or was raced (`SawOrRaced`); so the draft the conversation holds, and the
one a turn is about to launch, belong to the selected project or were raced, and no offer waits while one is
selected (`DraftBelongs`, `LaunchBelongs`, `BareDrafts`); and a turn that has launched a build has no other answer left than
that it started (`BuildsAnnounced`), while one whose error is in the conversation is over (`ErrorsAreOver`). Each
action is shown to keep each part; the lemmas `TurnGoesOn`, `TurnsRest` and `ClosingIsSafe` hold what several of
them have in common.

### Releases

`ServiceProofs` proves `ReleaseInvariantHolds` and, from it, `ActivationsEndSound` (`ReleasesAreSound`), for any
commits, any number of activators and rollbacks, overlapping or not, and every failure and death. It assumes
`BaseIsNoRelease`: the checkout the service was first pointed at is not named like a release of a commit.

**The argument.** What can be promised depends on what has gone wrong so far (`strayed`). As long as no two activators
overlapped, the one at work finds files and launchd as it left them (`SwapsAreOrderly`). As long as moreover none
died or failed to roll back, what it read at its start is still on record and `control.plist.previous` is what a
rollback needs (`BooksAreKept`); if nothing strayed at all, the predecessor is on record and checked out as
well (`PredecessorIsKept`, `InUseIsKept`). Overlaps alone never leave the service down (`UnloadedForASwap`).
`ReleasesStaySound` of `HostProofs` is the property of that name of the run `host`: no other part
of the host moves what releases move.

### Devices

The second part of `ServiceProofs` is about `Access`, for any devices, codes, issuers, requests served at once and
periods (`AccessAssumption`: they are numbers, and a session and an absence last):

| Theorem | Statement |
| --- | --- |
| `AccessInvariantHolds` | the inductive invariant below |
| `TrustIsKept` | `Access!DevicesAreKept`: codes pair once, who is signed out stays out, who is active stays in, absences only grow |
| `DevicesStayKept` (`HostProofs`) | `DevicesAreKept` of the run `host`, its two instances |

**The argument.** A handler and the renewal after it work from the row the middleware read, in transactions of
their own, so the invariant is about what such a row is worth. Who has a session was paired and is not signed
out (`RowsAreOwned`); a row is renewed or signed out, but never shortened nor handed on, so that what a
request holds of it is out of date in one direction only (`RequestsFit`), and a renewal that comes late writes over no
later one and brings back no row. `AbsencesFit` is for the action property: two requests about to write
an absence found the same one, unless the owner has looked meanwhile, in which case nothing is promised of it.

### Routes

The second part of `ConversationProofs` is about `Routing`. `RoutingAssumption` says that accounts are of the two
providers and that the CLIs advertise efforts there are; `OwnerAssumption` of `MCOwner` has TLC check it.

| Theorem | Statement |
| --- | --- |
| `RoutingInvariantHolds` | `RefusedOnce`, with types and `LeasedIsLast` |
| `RoutesStaySound` | `Routing!RoutesAreSound`, the routing half of `RoutesAndPlansAreSound` |

**The argument.** A refusal is found out after later attempts may have been claimed, so `RefusedOnce` needs to
know that none of these were of the same account: what is leased is the last attempt of its account (`LeasedIsLast`),
because a claim takes free accounts only. The other three are about single states and every task that may ask.
A pin that is refused gives way to Auto before anything is filtered (`PinsNeverBlock`); if the chosen option is of
the provider to avoid, any option of another would have had the better score, for the first component in which
two scores differ decides (`OthersGetTheirTurn`); the nearest effort at or above grows with what is
desired, and so with each repair (`EffortsFit`).

### Campaigns

The third part of `ConversationProofs` is about `Acquisition`, for any records, campaigns, processes and failures. Of the
constants `AcquisitionAssumption` asks that attempts be counted; `HostAssumption` of `MCHost` has TLC check it.

| Theorem | Statement |
| --- | --- |
| `AcquisitionInvariantHolds` | `ContactsAreUnique`, with types, `ApprovalsReserve`, `ReceiptsAreOfPlans`, `AtWorkOnPlans` |
| `NobodyIsContactedTwice` | `ContactsAreApproved`, `AttemptsAreCounted`, `FinishedIsDelivered`: all but the sums of `OutreachIsSound` |

**The argument.** That a contact is approached once rests on three tables. `validate()` runs again in the transaction of every
delivery and refuses a record whose contact another campaign has reserved, or that has become ambiguous. So if a
delivery were the second to a contact, both would be of approved campaigns, which reserved it (`ApprovalsReserve`,
`ReceiptsAreOfPlans`), hence of the same one, hence of one record, hence the same operation, whose receipt the executor looks
for first. A process may be at work on a plan while another completes it: `AtWorkOnPlans` says what of its place
still holds then.

### Enrolment and provisioning

`ProvisioningProofs` assumes `ProvisioningAssumption` (taps, proposals and the owner are different
actors, and there is a file that is no secret), for any number of each, and any number of restarts and moves:

| Theorem | Statement |
| --- | --- |
| `ProvisioningInvariantHolds` | the inductive invariant below |
| `OwnersRepositoryIsSafe` | `HistoryIsTheOwners`, `EnrolledOnce`, `DoneIsItsOwn` |
| `ProductsStayTheOwners` (`HostProofs`) | `ProductsAreTheOwners` of the run `host` |

**The argument.** Every Git command reads a repository its owner has moved since the last one, so the invariant says
at each place of a tap what its listing is still worth: what is staged was listed, without the secret, or staged by
others since, what was listed is staged or about to be, unless others committed, and the branch is main, unless
others switched (`ListsStand`, kept by the steps of the other taps and the owner because `meddled` records them; hence
`CommitsAreListed`). Who committed remembers it, or ends in an error that says nothing of it, and a refusal reads that memory
(`CommitsAreOwnedUp`), so that none claims to have changed nothing. The insertion looks for the
project in its own transaction (`ProjectIsOne`), a stored answer is never replaced (`AnswersAreStored`), and the creation on GitHub,
which only one of several provisions of a name gets past, is what the rest of a provision is built on (`ProvisionsOwn`).

### One-shot runs

`ArenaProofs` holds for any engineers, rounds, scores and bands, with or without a judge (`ArenaAssumption`),
`BenchProofs` for any number of steps, integrations, queue steps and checks (`AdaptiveAssumption`,
`IntegrationAssumption`, `BenchAssumption`), and both for every fault:

| Theorem | Statement |
| --- | --- |
| `ArenaInvariantHolds` | the inductive invariant of tournaments |
| `WinnersAreAlwaysProven` | `WinnerIsProven` |
| `TournamentsStop` | `OverMeansStopped`, `StoppedMeansStopped` |
| `BenchInvariantHolds` | that of all of `MCBench` |
| `ResultsAreAlwaysProven` | `ResultsAreProven` |
| `NothingIsLeftBehind` | `EndsLeaveNothingBehind` |
| `EndsStayAsShown` | `EndsStay`, the safety half of `RunsEnd` |

**The argument.** *Tournament.* A thread works only while its phase is under way (`CallsAreOfThreads`); a group is
registered before it starts and forgotten only once a stop was confirmed (`StopsAreTrue`), and one is being
started at a time, under the lock `cancel_all` takes (`StartsAreAlone`): so when `cancel_all` looks, what
runs is on the register, and nothing starts after its flag (`CancelReaches`). The number of generations a
worktree descends from is known at each phase (`HeadsGrow`), hence an engineer who rewrote history is not valid,
and what is eligible at the end was frozen, evaluated and reviewed as it is (`DecisionIsProven`).
*Adaptive run.* Whose work is in last-green and in the worktree is accounted for (`WorkIsAccounted`), last-green is the last
step that was counted, or a verified one that was about to be (`GreenIsLast`, `VerdictsCount`), the ref and `run.json` follow it (`RefIsGreen`, `EndIsRecorded`), and
no phase begins twice after a stop was filed (`StopIsNear`). *Integration.* The branch a call creates is its own,
and what it verified of the record does not change under it (`BranchesAreOwned`, `VerifiedStays`). *Queue.* An exit code says how
the checks ended, and the console what the code is (`CodesAreTrue`, `StepGoesOn`); what runs is the step's own, or outlived
the queue's process (`OneRuns`).

### What is only model-checked

- Liveness, which the prover cannot treat: `LeasesEnd`, `CancelTakesEffect`, `AutomaticWorkSettles`, `IntegrationsEnd`,
  `PublicationsEnd`, `TurnsEnd`, `RunsEnd`.
- `RoutesAndPlansAreSound` as a whole: the depth-first search of `Planning` is a recursive definition, and what it
  computes for every plan needs an induction the provers cannot make. Its other half is `RoutesStaySound`.
- `OutreachIsSound` as a whole: the selections of `Acquisition` (`PlansAreOptimal`) and the budget in `ContactedOnce` are
  folds over sums, which need an induction. Its other parts are `NobodyIsContactedTwice`.

## Where the code and its documents part

Three runs show disagreements:

- **`crossed`**: asking about a block of another project clears the draft the conversation holds
  (`api.py:834-839`), but a turn already at work writes the one it is drawing up into the conversation
  as it is by then (`conversation.py:850-851`). "Build it" then launches the draft of one project on
  the other, which the comment at `api.py:835-836` says must never happen. `BuildsAreMeant` holds
  because it excepts drafts whose project changed under their own turn.
- **`provision`**: the API approves a provision inside the command's transaction (`api.py:875-881`), and
  `Provisioner.start()` opens a second write transaction (`provisioning.py:267`) that waits for the first
  until it times out. The thread that would create the product is never started, where
  `docs/MOBILE_BUILD_CONTROL.md:95-101` has it create everything once approved. The run `host` explores
  provisions as they go when started outside of a transaction.
- **`hidden`**: a build that waits for a task of another build may be archived; a retry of that other
  task brings back its own build only (`api.py:1241-1259`), and the archived one is run once its dependency is
  staged, where `api.py:1242-1243` says that work that runs again is never hidden.

Ten others have a configuration to be run by hand, or take one of a run with another property, and are violated:

- `MCLeases_dup`, `NoDuplicateDispatch`: `tick()` finds an attempt older than 15 s that had not registered
  when the tick began and takes its lease back, rechecking only that the attempt is still active
  (`engine.py:419-423`). A guardian that registers between the reading and the transaction
  keeps running and is joined by the next lease's guardian. `engine.py:403` and
  `docs/ARCHITECTURE.md:84-85` say there is no duplicate dispatch. The tables stay consistent
  throughout (`LeasesMatchTasks`), and the first guardian's work is dropped.
- `MCLeases_orphan`, `ReleasedChildStopped`: a guardian killed between starting its child and writing
  `child.json` leaves a child no one knows; after the grace period the lease is released with the child
  running, where `recovery.py:17-19` says there is no owned child to stop.
- `MCLeases_late`, `InstructionsAlwaysBuilt`: an instruction sent while an undirected task waits between
  build and review is counted as seen when the review is claimed (`engine.py:649`) and the work is staged
  without it, where the owner was told "Instruction queued for the next attempt" (`api.py:1199`). A director's task
  loses one in the same way when the review or the director's judgement that was running is repeated, after a
  throttle or a dead guardian; `DirectedInstructionsBuilt` makes that exception (`Repeated`).
- `MCLeases_standoff`, `AutomaticWorkSettles`: work that has been built and is queued again holds its scope
  (`engine.py:566-572`). Two overlapping tasks whose integration failed, both retried, hold
  each other back for ever, where `api.py:152` says of such states that work runs again without
  anyone acting.
- `MCLeases_early`, `CompletionsAwaitTheExit`: a guardian writes its result and then exits, and
  `engine.py:397-402` waits for the exit, "Completion is authoritative only after the guardian exits" as
  `engine.py:398` says. But it looks for the guardian under the process ID of the row the tick read: if that was read before the
  guardian registered, there is none, and a result that is there by then is taken while the guardian still runs. Its slot
  may be handed on for that moment; `GuardiansWithinCapacity` counts guardians until their result.
- `OneMessagePerSend`, with the configuration of `crossed` and this INVARIANT in place of its own: the key of a message is stored by the command, and marked as
  replayed in a later transaction, after the turn was submitted (`api.py:842-853`). A retry in between, or after
  a crash or a failed mark, submits the message again, with a turn and, for "build it", perhaps a build of its own, where
  `tests/control/test_conversation.py:205` says "Transport retry does not resend." and
  `BUILD_BRIEF.md:268-269` that a double-tapped or retried command must not create two jobs. Each of the two is answered once, and a
  retry after the mark starts nothing (`OneAnswerEach`).
- `MCProvisioning_meddled`, `ExactlyWhatWasListed`: what the owner stages after the tap's listing is in Arena's commit, a
  secret too; what the owner commits first is not; and the commit lands on the branch the owner switched to.
  `enrolment.py:9-12` promises "only on main, exactly the files `git status` lists", "never secret-looking
  names", and `enrolment.py:212-216` says so again, but nothing holds the repository between the look and the commit
  (`enrolment.py:218-252`). `HistoryIsTheOwners` says that this is the only way it happens.
- `StrangersAreSafe`, with the configuration of `bench` and this PROPERTY in place of its own: `run()` reaps the leader while it waits for it (`process.py:217`), and its group's stop
  then goes by number (`process.py:323`, `process.py:353`). If the group is gone and the number another's by
  then, the stop signals the other's. `process.py:262-263` knows that numbers are reused and rules it out once a stop was
  confirmed (`process.py:268`), not before the first one.
- `MCStaging_alarm`, `NoFalseAlarm`: `add_goal()` fast-forwards the staging clone before it has examined the
  request (`engine.py:252`). If the goal is then refused, SQLite rolls the project's head back and Git does
  not. The next task to integrate is blocked with "Staging changed outside its recorded
  integration" (`engine.py:998-999`), though the controller moved it.
- `MCStaging_resurrected`, `SentBackWorkWaits`: a tick reads the accepted approvals one by one in no order
  (`engine.py:445-452`), so an older publication may be repeated after a newer one has failed and sent its work back.
  Recording it completes every task its approval speaks for, whatever became of them since
  (`publication.py:171`), so that work which was sent back is completed without being done again. What is completed is
  nevertheless in main as it was accepted (`WorkIsCompletedAsAccepted`).

Seen while modelling, and without a run of their own, because no document decides them or because a
property would only restate them:

- *Staging.* A failed database write after the merge into staging is handled like a failed composition
  (`engine.py:1136`): the task is blocked, its rebuild discards the intent, and staging stays ahead of
  the project's head. So it is when Git fails to say where staging is (`engine.py:986`) while the intent
  waits to be recognised. With the fault `locked`, or `unread`, the run `staging` finds `StagingIsExplained` violated, and
  only that: the others are proved for every fault. A
  transient Git failure during recovery can send back work whose publication is about to be retried.
  A publication that reached main and was interrupted before its record is recorded as failed if the
  owner commits on top before it is repeated (`publication.py:82-87`), although main contains it.
  Work is called completed when it is accepted, before its publication; an offer read before
  a failure was recorded may publish once more after it.
- *Views.* A build whose only remaining task waits for a cancelled one is shown "queued" for ever. A build
  restored inside an archived project leaves its decision hidden with the project (`api.py:626-637`).
- *Sessions.* A renewal whose response is lost renews the row and not the cookie, which then dies though the
  device is used daily (`docs/MOBILE_BUILD_CONTROL.md:18`). Two issuers at once lose one of
  their codes, or one fails to replace the file (`store.py:43-61`, "without invalidating codes already handed out").
  An absence is lost if another request of the device touches the session before `get_session` reads it. The documents
  give codes 10 minutes, the code 30.
- *Routing.* A refusal is remembered for the last 100 attempts (`routing.py:99-106`): where the refused model
  is an account's only one, nothing newer is started and it is never forgotten. A pin whose model is refused
  falls back to Auto, which may send the work to the other provider, and pinning another model of the first
  brings it back, where `routing.py:8-12` says that pins do not change which provider takes which phase. A repair after a
  rejected review does not avoid the author's provider, since only failed build attempts count
  (`routing.py:144-151`).
- *Enrolment.* The commit that saves unsaved work is recorded as whatever HEAD is afterwards
  (`enrolment.py:261`). If that reading or the event fails, the tap ends in an error that does not say that its
  work was committed.
- *Acquisition.* A late second executor may set a settled campaign back to completed; the next advance settles it again.
- *Adaptive.* An interrupt between the move of the ref and the list of what was accepted (`adaptive.py:984-994`) exports a
  `last-green.json` whose commit has a step its list has not; one that comes during the move leaves the ref ahead of both.
  A deadline before the first last-green is raised again and leaves `run.json` at "preflight";
  a `cancel_all` that cannot confirm a stop leaves no terminal state (`docs/AUDIT_FORMAT.md:10`); a stop
  filed after the manifest was built makes the verification of the manifest fail; an interrupt is lost when the termination is not confirmed.
- *Integration.* A `git worktree add -b` that times out leaves its branch; a receipt stays if the manifest cannot be rebuilt.
- *Queues.* The panel's Stop signals the queue and not the agent's group (`gui.py:443`), which runs on; the last step is then
  shown running for ever. A journal entry may quote another run of the same stem (`batch.py:42`). A symlinked
  `STATE.md` gives exit code 3 though the run was sealed as verified.

## What is not modelled

Prompts, wording, progress numbers, live tails, titles, intent detection and the other read-only views; the
schemas of plans but their dependency graph; provider adapters (`providers/`); configuration, ledger, audit
formatting, command lines and host set-up (`__main__.py`, `remote.py`, `diagnostics.py`, `configuration.py`,
`structured_build.py`); how repositories and accounts are discovered (`discovery.py`); `integrate_winner()`,
which repeats `integrate_last_green()` over another record; the evaluation script and web form of the acquisition
laboratory; the web client. They are text, sequential I/O or separate applications: a model would restate them. Of
modelled parts: the memory-pressure return before `claim()`, push to a remote, the activation scheduled by a publication,
optimistic revision numbers, CSRF and origin checks, the starting of a conversation without a phone, the contents of reviews
and patches.

## Plan

1. Done: `Leases`, `Staging`, `Conversations` and their proofs; the archive, sessions, routing, plans, pruning,
   releases, enrolment and provisioning, acquisition, and the one-shot runs.
2. Done: the proofs of every safety property the runs check, but for plans and what campaigns select and spend.
3. Open: what `Planning` accepts and `Acquisition` selects for every input, should the provers come to do inductions over data.
4. `integrate_winner()` and the hand-over from a tournament to it, if it comes to differ from `integrate_last_green()`.
