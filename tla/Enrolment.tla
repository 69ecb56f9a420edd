------------------------------- MODULE Enrolment -------------------------------
(***************************************************************************)
(* Enrolling a repository of the owner's from the phone (enrolment.py, the *)
(* API's enroll_local and engine.enroll): the repository is examined, its  *)
(* unsaved work is committed if the tap asks for that, it is cloned and    *)
(* becomes a project.  Every Git command is a step of its own: meanwhile   *)
(* the owner edits, stages, commits and switches branches, the tap comes   *)
(* twice, and the host restarts.                                           *)
(*                                                                         *)
(* Abstracted: a change is the file it is to, and Secret is the one whose  *)
(* name looks like a secret; the branch "side" stands for all that is in   *)
(* the way but unsaved work; the manifest is found or refused.             *)
(***************************************************************************)
EXTENDS Naturals, Sequences, FiniteSets

CONSTANTS
  Taps,        \* the requests to enrol the repository
  Key,         \* Taps -> the idempotency key of each
  Checkpoint,  \* the taps that ask for unsaved work to be committed
  Jobs,        \* what enrols the repository: Taps, and what the modules above add
  Files, Secret,
  MaxMoves,    \* how often the owner does something to the repository
  MaxRestarts  \* how often the host restarts

VARIABLES
  repo,      \* the repository: whether it is there, its branch, the files changed in the
             \* worktree and those staged
  commits,   \* its commits: by whom, on which branch, to which files
  projects,  \* the projects of this repository: the job, the head recorded and the one cloned
  archived,  \* the jobs whose project is archived
  job,       \* each job: its step, what it listed and what of that was not staged, whether it
             \* saves and saved, the head it read
  commands,  \* the answers stored by key
  meddled,   \* history: what others did to the repository since a tap's last look: the files
             \* they staged, and whether they switched branches or committed
  moves, restarts

evars == <<repo, commits, projects, archived, job, commands, meddled, moves, restarts>>

Nobody == "none"
Owner == "owner"
Unsaved == repo.worktree \cup repo.index

\* The last commit on the branch that is checked out; 0 if there is none.
HeadNow ==
  LET on == {i \in 1..Len(commits) : commits[i].branch = repo.branch}
  IN IF on = {} THEN 0 ELSE CHOOSE i \in on : \A k \in on : k <= i

NewJob == [pc |-> "new", listed |-> {}, unstaged |-> {}, saves |-> FALSE, saved |-> FALSE, head |-> 0,
           clone |-> 0, answer |-> Nobody]

Alone == [staged |-> {}, did |-> {}]

EnrolmentInit(there) ==
  /\ repo = [there |-> there, branch |-> "main", worktree |-> {}, index |-> {}]
  /\ commits = IF there THEN <<[by |-> Owner, branch |-> "main", files |-> {}]>> ELSE <<>>
  /\ projects = {} /\ archived = {}
  /\ job = [x \in Jobs |-> NewJob]
  /\ commands = [k \in {Key[t] : t \in Taps} |-> Nobody]
  /\ meddled = [t \in Taps |-> Alone] /\ moves = 0 /\ restarts = 0

-------------------------------------------------------------------------------
(* The owner at the keyboard.                                              *)

\* Past its listing, past its look at the branch, and not yet at its commit.
Listed == {"staging", "committing"}
Looked == Listed \cup {"listing"}

\* What someone does now is new to the other taps that have looked and not yet committed.
Meddles(by, files, deeds) ==
  meddled' = [t \in Taps |->
    [staged |-> meddled[t].staged \cup {f \in files : t # by /\ job[t].pc \in Listed},
     did |-> meddled[t].did \cup
       {d \in deeds : t # by /\ job[t].pc \in (IF d = "switched" THEN Looked ELSE Listed)}]]

OwnerMoves ==
  /\ repo.there /\ moves < MaxMoves
  /\ moves' = moves + 1
  /\ \/ /\ \E f \in Files \ repo.worktree : repo' = [repo EXCEPT !.worktree = @ \cup {f}]  \* edits
        /\ UNCHANGED <<commits, meddled>>
     \/ \E f \in repo.worktree :                                                     \* stages
          /\ repo' = [repo EXCEPT !.worktree = @ \ {f}, !.index = @ \cup {f}]
          /\ Meddles(Owner, {f}, {}) /\ UNCHANGED commits
     \/ /\ repo.index # {} /\ repo' = [repo EXCEPT !.index = {}]                     \* commits
        /\ commits' = Append(commits, [by |-> Owner, branch |-> repo.branch, files |-> repo.index])
        /\ Meddles(Owner, {}, {"committed"})
     \/ /\ repo' = [repo EXCEPT !.branch = IF @ = "main" THEN "side" ELSE "main"]    \* switches
        /\ Meddles(Owner, {}, {"switched"}) /\ UNCHANGED commits
  /\ UNCHANGED <<projects, archived, job, commands, restarts>>

Archive ==
  /\ moves < MaxMoves /\ moves' = moves + 1
  /\ \E p \in projects : p.by \notin archived /\ archived' = archived \cup {p.by}
  /\ UNCHANGED <<repo, commits, projects, job, commands, meddled, restarts>>

-------------------------------------------------------------------------------
(* A tap.                                                                  *)

Goes(x, where) == job' = [job EXCEPT ![x].pc = where]
OnlyJob == UNCHANGED <<repo, commits, projects, archived, commands, meddled, moves, restarts>>

\* A refusal leaves the job; one that saved the work first says so.
Refused(x) == job' = [job EXCEPT ![x].pc = "refused",
                                 ![x].answer = IF job[x].saved THEN "saved only" ELSE "refused"]

\* A replay is answered without a look at the repository, which must be in the catalog.
Receive(t) ==
  /\ job[t].pc = "new"
  /\ \/ commands[Key[t]] # Nobody
        /\ job' = [job EXCEPT ![t].pc = "answered", ![t].answer = commands[Key[t]]]
     \/ commands[Key[t]] = Nobody /\ repo.there /\ Goes(t, "examining")
     \/ commands[Key[t]] = Nobody /\ ~repo.there /\ Refused(t)
  /\ OnlyJob

Examine(t) ==
  /\ job[t].pc = "examining"
  /\ \/ projects # {} /\ Goes(t, "already")
     \/ projects = {} /\ (repo.branch # "main" \/ (Unsaved # {} /\ t \notin Checkpoint)) /\ Refused(t)
     \/ /\ projects = {} /\ repo.branch = "main" /\ (Unsaved = {} \/ t \in Checkpoint)
        /\ job' = [job EXCEPT ![t].pc = "describing", ![t].saves = Unsaved # {}]
  /\ OnlyJob

\* The manifest comes before any commit.
Describe(t) ==
  /\ job[t].pc = "describing"
  /\ \/ Refused(t)
     \/ Goes(t, IF job[t].saves THEN "saving" ELSE "enrolling")
  /\ OnlyJob

\* save: a second look ...
LookAgain(t) ==
  /\ job[t].pc = "saving"
  /\ IF repo.branch = "main" /\ Unsaved # {} THEN Goes(t, "listing") ELSE Refused(t)
  /\ OnlyJob

\* ... the list of what there is to save, without secrets ...
ListChanges(t) ==
  /\ job[t].pc = "listing"
  /\ IF Secret \in Unsaved THEN Refused(t)
     ELSE job' = [job EXCEPT ![t].pc = "staging", ![t].listed = Unsaved,
                             ![t].unstaged = repo.worktree]
  /\ OnlyJob

\* Mutant: all that is there by now is staged.
StagedAll(unstaged) == repo.worktree

\* What git add -A stages, given the paths listed as not staged.
Staged(unstaged) == repo.worktree \cap unstaged

\* ... which are staged, path by path ...
StageListed(t) ==
  /\ job[t].pc = "staging"
  /\ \/ Refused(t) /\ UNCHANGED <<repo, meddled>>
     \/ /\ Goes(t, "committing")
        /\ LET files == Staged(job[t].unstaged)
           IN /\ repo' = [repo EXCEPT !.worktree = @ \ files, !.index = @ \cup files]
              /\ Meddles(t, files, {})
  /\ UNCHANGED <<commits, projects, archived, commands, moves, restarts>>

\* ... and committed with whatever is staged, on the branch that is checked out by now ...
CommitStaged(t) ==
  /\ job[t].pc = "committing"
  /\ \/ Refused(t) /\ UNCHANGED <<repo, commits, meddled>>
     \/ /\ repo.index # {}
        /\ commits' = Append(commits, [by |-> t, branch |-> repo.branch, files |-> repo.index])
        /\ repo' = [repo EXCEPT !.index = {}]
        /\ Meddles(t, {}, {"committed"})
        /\ Goes(t, "saved")
  /\ UNCHANGED <<projects, archived, commands, moves, restarts>>

\* ... whose name is read and written into the event stream.  If that fails the tap ends in an
\* error that says nothing of the commit.
Remember(t) ==
  /\ job[t].pc = "saved"
  /\ \/ job' = [job EXCEPT ![t].pc = "enrolling", ![t].saved = TRUE]
     \/ job' = [job EXCEPT ![t].pc = "refused", ![t].answer = "failed"]
  /\ OnlyJob

-------------------------------------------------------------------------------
(* engine.enroll, for a tap or for whoever else enrols.                    *)

Clean(x) ==
  /\ job[x].pc = "enrolling"
  /\ IF Unsaved = {} THEN Goes(x, "reading") ELSE Refused(x)
  /\ OnlyJob

ReadHead(x) ==
  /\ job[x].pc = "reading"
  /\ job' = [job EXCEPT ![x].pc = "read", ![x].head = HeadNow]
  /\ OnlyJob

OnMain(x) ==
  /\ job[x].pc = "read"
  /\ IF repo.branch = "main" THEN Goes(x, "cloning") ELSE Refused(x)
  /\ OnlyJob

Clone(x) ==
  /\ job[x].pc = "cloning"
  /\ \/ job' = [job EXCEPT ![x].pc = "inserting", ![x].clone = HeadNow]
     \/ Refused(x)
  /\ OnlyJob

\* Mutant: the project is stored whether or not there is one.
InsertAnyway(x) ==
  /\ job[x].pc = "inserting"
  /\ projects' = projects \cup {[by |-> x, head |-> job[x].head, clone |-> job[x].clone]}
  /\ Goes(x, "enrolled")
  /\ UNCHANGED <<repo, commits, archived, commands, meddled, moves, restarts>>

\* One transaction looks for a project of this repository and stores the new one; a tap takes
\* the one it finds, anyone else is refused.
Insert(x) ==
  /\ job[x].pc = "inserting"
  /\ IF projects = {}
     THEN /\ projects' = {[by |-> x, head |-> job[x].head, clone |-> job[x].clone]}
          /\ Goes(x, "enrolled")
     ELSE /\ UNCHANGED projects
          /\ IF x \in Taps THEN Goes(x, "already") ELSE Refused(x)
  /\ UNCHANGED <<repo, commits, archived, commands, meddled, moves, restarts>>

EngineEnrols(x) == Clean(x) \/ ReadHead(x) \/ OnMain(x) \/ Clone(x) \/ Insert(x)

-------------------------------------------------------------------------------
\* Mutant: the answer is stored over one that is there.
StoredOver(t, answer) == answer

\* The answer under this tap's key: the first one stored.
Stored(t, answer) == IF commands[Key[t]] = Nobody THEN answer ELSE commands[Key[t]]

\* store.command: the answer, the project's return from the archive and the key are one
\* transaction.
Record(t) ==
  /\ job[t].pc \in {"enrolled", "already"}
  /\ LET answer == Stored(t, job[t].pc)
     IN /\ job' = [job EXCEPT ![t].pc = "answered", ![t].answer = answer]
        /\ commands' = [commands EXCEPT ![Key[t]] = answer]
        /\ archived' = IF commands[Key[t]] = Nobody THEN {} ELSE archived
  /\ UNCHANGED <<repo, commits, projects, meddled, moves, restarts>>

Tap(t) ==
  \/ Receive(t) \/ Examine(t) \/ Describe(t)
  \/ LookAgain(t) \/ ListChanges(t) \/ StageListed(t) \/ CommitStaged(t)
  \/ Remember(t) \/ Record(t)

\* What was under way is gone; what it did so far stays.
Restart ==
  /\ restarts < MaxRestarts /\ restarts' = restarts + 1
  /\ job' = [x \in Jobs |-> IF job[x].pc \in {"new", "answered", "refused", "done"} THEN job[x]
                            ELSE [job[x] EXCEPT !.pc = "lost"]]
  /\ UNCHANGED <<repo, commits, projects, archived, commands, meddled, moves>>

-------------------------------------------------------------------------------
\* What Arena commits for the owner differs from what the tap listed, without secrets, on main,
\* only by what others did to the repository since the tap looked: it has no file that was
\* neither listed nor staged by them, lacks a listed one only if they committed, and is on
\* another branch only if they switched.  A refusal in Arena's words means that no commit was
\* made, unless it says that one was.
HistoryIsTheOwners ==
  \A i \in 1..Len(commits) : commits[i].by \in Taps =>
    LET tap == job[commits[i].by]
        others == meddled[commits[i].by]
    IN /\ commits[i].files \subseteq tap.listed \cup others.staged
       /\ Secret \in commits[i].files => Secret \in others.staged
       /\ tap.listed \subseteq commits[i].files \/ "committed" \in others.did
       /\ commits[i].branch = "main" \/ "switched" \in others.did
       /\ tap.answer # "refused"

\* enrolment.py: "only on main, exactly the files `git status` lists ..., never secret-looking
\* names".  Nothing holds the repository between the listing and the commit, so what the owner or
\* another tap does there meanwhile breaks each of the three.
ExactlyWhatWasListed ==
  \A i \in 1..Len(commits) : commits[i].by \in Taps =>
    /\ commits[i].branch = "main"
    /\ commits[i].files = job[commits[i].by].listed
    /\ Secret \notin commits[i].files

\* One repository is one project, and one key has one answer, however often the tap comes and
\* whatever ran meanwhile.
EnrolledOnce ==
  /\ Cardinality(projects) <= 1
  /\ \A t, u \in Taps : Key[t] = Key[u] /\ job[t].pc = "answered" /\ job[u].pc = "answered" =>
       job[t].answer = job[u].answer

===============================================================================
