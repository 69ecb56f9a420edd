------------------------------- MODULE Archive -------------------------------
(***************************************************************************)
(* The owner's archive of builds and projects (control/api.py), composed   *)
(* with Leases: what may be archived, what brings it back, and that the    *)
(* scheduler leaves archived projects alone.  Publications and the policy  *)
(* that needs no decision are module Staging's: here verified work waits   *)
(* for the owner.                                                          *)
(***************************************************************************)
EXTENDS LeaseProperties

CONSTANT GoalOf     \* task -> its build, the goal it was asked for in

Phone == INSTANCE Story

VARIABLES
  builds,      \* goals with `archived' set
  shelved,     \* projects with `archived' set
  putAway      \* history: the goals that were ever archived

archive == <<builds, shelved, putAway>>

ArchiveInit == Init /\ builds = {} /\ shelved = {} /\ putAway = {}

-------------------------------------------------------------------------------
Existing(p) == {t \in Tasks : ProjectOf[t] = p /\ task[t].state # "absent"}
State(p)  == [t \in Existing(p) |-> task[t].state]
Deps(p)   == [t \in Existing(p) |-> deps[t]]
Blocks(p) == [t \in Existing(p) |->
                Phone!Block(task[t].state, [state |-> "pending", publication |-> "none"], FALSE)]

\* project_work() and going()
StillGoing(p, ownerWaits) == Phone!StillGoing(State(p), Deps(p), Blocks(p), {}, ownerWaits)
WaitingForOwner(p) == Phone!WaitingForOwner(State(p), Blocks(p))

\* archive_goals(): builds that are still going are skipped.
ArchiveBuild(t) ==
  /\ task[t].state # "absent"
  /\ \A u \in StillGoing(ProjectOf[t], TRUE) : GoalOf[u] # GoalOf[t]
  /\ builds' = builds \cup {GoalOf[t]} /\ putAway' = putAway \cup {GoalOf[t]}
  /\ UNCHANGED <<vars, shelved>>

RestoreBuild(g) ==
  /\ g \in builds
  /\ builds' = builds \ {g}
  /\ UNCHANGED <<vars, shelved, putAway>>

\* Mutant: a project with a decision to make is put away.
ArchivableUndecided(p) == StillGoing(p, FALSE) = {}
\* Builds put away before are out of the lists of what needs the owner already.
Archivable(p) ==
  /\ StillGoing(p, FALSE) = {}
  /\ \A t \in WaitingForOwner(p) : GoalOf[t] \in builds

ArchiveProject(p) ==
  /\ Archivable(p)
  /\ shelved' = shelved \cup {p}
  /\ UNCHANGED <<vars, builds, putAway>>

RestoreProject(p) ==
  /\ p \in shelved
  /\ shelved' = shelved \ {p}
  /\ UNCHANGED <<vars, builds, putAway>>

\* GOAL_BUSY: states in which work runs again without anyone acting.
Busy == Active \cup Waiting \cup {"integrating", "awaiting_input"}

\* Mutant: the project stays in the archive.
RestoredBuildOnly(t) == builds' = builds \ {GoalOf[t]} /\ UNCHANGED <<shelved, putAway>>
Restored(t) ==
  /\ builds' = builds \ {GoalOf[t]}
  /\ shelved' = shelved \ {ProjectOf[t]}
  /\ UNCHANGED putAway

\* task_action(): a task that runs again brings back its build and its project.
TaskAction(t) ==
  /\ pc # "down" /\ (Answer(t) \/ Instruct(t) \/ Retry(t))
  /\ IF task'[t].state \in Busy THEN Restored(t) ELSE UNCHANGED archive

\* New requests of an archived project are refused.
Request(t) ==
  /\ pc # "down" /\ AddGoal(t) /\ ProjectOf[t] \notin shelved
  /\ UNCHANGED archive

\* claim() passes over archived projects, except that at capacity every ready task waits.
LeftInArchive ==
  pc = "claim" /\ Cardinality(Leased) < limit =>
    \A t \in Tasks : ProjectOf[t] \in shelved => task'[t] = task[t]

OtherRequests ==
  \/ \E t \in Tasks : Cancel(t)
  \/ StopAll \/ PauseDispatch \/ ResumeDispatch
  \/ \E n \in 1..MaxSlots : SetCapacity(n)
  \/ \E on \in BOOLEAN : (\E p \in Projects : SetProject(p, on))
                        \/ (\E c \in Accounts : SetAccount(c, on))

Elsewhere ==
  /\ \/ Scheduler \/ Clock \/ ControllerCrash
     \/ pc # "down" /\ (OtherRequests \/ Staging)
     \/ \E t \in Tasks : Signal(t)
     \/ \E a \in Attempts : Guardian(a) \/ ChildExits(a) \/ GuardianKilled(a)
  /\ LeftInArchive
  /\ UNCHANGED archive

ArchiveNext ==
  \/ \E t \in Tasks : TaskAction(t) \/ Request(t) \/ (pc # "down" /\ ArchiveBuild(t))
  \/ pc # "down" /\ \E p \in Projects : ArchiveProject(p) \/ RestoreProject(p)
  \/ pc # "down" /\ \E g \in builds : RestoreBuild(g)
  \/ Elsewhere

ArchiveSpec == ArchiveInit /\ [][ArchiveNext]_<<vars, archive>>

-------------------------------------------------------------------------------
\* An archived project is at rest, whatever the owner then asks of its tasks and however late a
\* guardian answers: nobody works in it, nothing in it could be started, and no decision is
\* hidden in it but those of builds the owner once put away.
ArchivedProjectsRest ==
  \A p \in shelved :
    /\ \A t \in Existing(p) : task[t].state \notin Active \cup {"integrating"}
    /\ \A t \in Existing(p) : task[t].state \in Waiting => Blocked(t)
    /\ \A t \in WaitingForOwner(p) : GoalOf[t] \in putAway

\* No work of an archived build runs.
ArchivedBuildsRest == \A t \in Tasks : GoalOf[t] \in builds => task[t].state \notin Active
===============================================================================
