-------------------------------- MODULE Releases --------------------------------
(***************************************************************************)
(* How Arena replaces itself (control/activation.py): detached activators  *)
(* that check a release out, swap the launchd service onto it, verify it   *)
(* and roll back; the operator's manual rollback; and the files both       *)
(* leave behind.  Nothing keeps two activators from running at once, and   *)
(* one may die between any two of its steps.                               *)
(*                                                                         *)
(* Abstracted: what a release contains, and how launchd, git and the       *)
(* health checks reach their outcomes: each may fail.                      *)
(***************************************************************************)
EXTENDS Naturals, FiniteSets

CONSTANTS
  Commits,       \* the commits a release may be made of
  MaxJobs,       \* how many activations and manual rollbacks are ever started
  Base,          \* the checkout install-service first pointed the service at
  Overlaps,      \* whether an activator may start, the last one, while another is at work
  Spare,         \* KEEP_SPARE_RELEASES
  Faults,        \* what may fail: "prepare", "bootout", "bootstrap", "health", "die"
  None           \* no release: neither Base nor one of Commits

\* The first checkout is not named like a release of a commit.
BaseIsNoRelease == Base \notin Commits

\* One process each, numbered in the order they start.
Jobs == 1..MaxJobs

VARIABLES
  job,        \* the activator processes
  files,      \* control.plist, control.plist.next and control.plist.previous: their release
  record,     \* releases.json
  worktrees,  \* .arena-releases: the releases checked out
  service,    \* launchd: whether the login service is loaded, and the release it runs
  proven,     \* the releases some health check has found healthy
  strayed     \* what has happened that sets the record and the service apart: "death" (of an
              \* activator), "unrestored" (a rollback that failed), "misuse" (a rollback of
              \* anything but a successful activation), "forgot" (the predecessor), "overlap"
              \* (of two activators)

vars == <<job, files, record, worktrees, service, proven, strayed>>

Idle == [pc |-> "idle", mode |-> "none", sha |-> None, current |-> None, previous |-> None]

Init ==
  /\ job = [j \in Jobs |-> Idle]
  /\ files = [control |-> Base, next |-> None, previous |-> None]
  /\ record = [current |-> None, previous |-> None, last |-> "none"]
  /\ worktrees = {}
  /\ service = [loaded |-> TRUE, release |-> Base]
  /\ proven = {Base}
  /\ strayed = {}

AtWork(j) == job[j].pc \notin {"idle", "ended"}

Goes(j, pc) == job' = [job EXCEPT ![j].pc = pc]
Stops(j) == job' = [job EXCEPT ![j] = [Idle EXCEPT !.pc = "ended"]]

-------------------------------------------------------------------------------
(* Starting.  An activator reads releases.json once, at its start.         *)

Begins(j, mode, sha, pc) ==
  /\ job[j].pc = "idle" /\ \A k \in 1..(j - 1) : job[k].pc # "idle"
  /\ "overlap" \notin strayed
  /\ Overlaps \/ \A k \in Jobs : ~AtWork(k)
  /\ job' = [job EXCEPT ![j] = [pc |-> pc, mode |-> mode, sha |-> sha,
                                current |-> record.current, previous |-> record.previous]]
  /\ strayed' = strayed
       \cup (IF \E k \in Jobs : AtWork(k) THEN {"overlap"} ELSE {})
       \cup (IF mode = "rollback" /\ (strayed # {} \/ record.last # "activated")
             THEN {"misuse"} ELSE {})
  /\ UNCHANGED <<files, record, worktrees, service, proven>>

\* publication.schedule_activation, or the command line.
Activate(j, sha) == Begins(j, "activate", sha, "preparing")

\* The operator's rollback needs a control.plist.previous.
Rollback(j) == files.previous # None /\ Begins(j, "rollback", None, "unloading")

-------------------------------------------------------------------------------
(* Preparing: prepare_release, write_plist, ensure_launch_agent.           *)

Added(sha) == worktrees \cup {sha}

\* _record writes the whole of releases.json, as this activator read it.
Recorded(j, result) ==
  record' = [current |-> job[j].current, previous |-> job[j].previous, last |-> result]

Prepare(j) ==
  /\ job[j].pc = "preparing"
  /\ worktrees' = Added(job[j].sha)
  /\ files' = [files EXCEPT !.next = job[j].sha]
  /\ Goes(j, "saving")
  /\ UNCHANGED <<record, service, proven, strayed>>

\* The plist may have been written when the link to it fails.
PrepareFails(j) ==
  /\ "prepare" \in Faults /\ job[j].pc = "preparing"
  /\ \/ worktrees' \in {worktrees, Added(job[j].sha)} /\ UNCHANGED files
     \/ worktrees' = Added(job[j].sha) /\ files' = [files EXCEPT !.next = job[j].sha]
  /\ Recorded(j, "failed")
  /\ Stops(j)
  /\ UNCHANGED <<service, proven, strayed>>

\* The live plist is kept for the rollback.
Save(j) ==
  /\ job[j].pc = "saving"
  /\ files' = [files EXCEPT !.previous = files.control]
  /\ Goes(j, "unloading")
  /\ UNCHANGED <<record, worktrees, service, proven, strayed>>

-------------------------------------------------------------------------------
(* _swap: unload the service, install a plist, load it.                    *)

Unload(j) ==
  /\ job[j].pc = "unloading"
  /\ service' = [service EXCEPT !.loaded = FALSE]
  /\ Goes(j, "installing")
  /\ UNCHANGED <<files, record, worktrees, proven, strayed>>

Source(j) == IF job[j].mode = "activate" THEN files.next ELSE files.previous

Install(j) ==
  /\ job[j].pc = "installing" /\ Source(j) # None
  /\ files' = [files EXCEPT !.control = Source(j)]
  /\ Goes(j, "loading")
  /\ UNCHANGED <<record, worktrees, service, proven, strayed>>

\* launchd takes "already loaded" for success and keeps what it runs.
Load(j) ==
  /\ job[j].pc = "loading"
  /\ service' = IF service.loaded THEN service ELSE [loaded |-> TRUE, release |-> files.control]
  /\ files' = IF job[j].mode = "activate" THEN [files EXCEPT !.next = None] ELSE files
  /\ Goes(j, "checking")
  /\ UNCHANGED <<record, worktrees, proven, strayed>>

\* Mutant: a release that fails its checks is recorded as failed and left in place.
GivesUpAtOnce(j) == Recorded(j, "failed") /\ Stops(j) /\ UNCHANGED strayed

\* A failed activation rolls back; a failed rollback is reported, and recorded by the
\* activation it belongs to.
GivesUp(j) ==
  \/ /\ job[j].mode = "activate"
     /\ job' = [job EXCEPT ![j].mode = "undo", ![j].pc = "unloading"]
     /\ UNCHANGED <<record, strayed>>
  \/ /\ job[j].mode # "activate"
     /\ IF job[j].mode = "undo" THEN Recorded(j, "failed") ELSE UNCHANGED record
     /\ Stops(j)
     /\ strayed' = strayed \cup {"unrestored"}

\* launchctl refuses, or the plist another activator needed too is gone.
SwapFails(j) ==
  /\ \/ "bootout" \in Faults /\ job[j].pc = "unloading"
     \/ "bootstrap" \in Faults /\ job[j].pc = "loading"
  /\ GivesUp(j)
  /\ UNCHANGED <<files, worktrees, service, proven>>

\* control.plist.next is gone: copying it raises, which no handler expects.
SwapDies(j) ==
  /\ job[j].pc = "installing" /\ Source(j) = None
  /\ Stops(j)
  /\ strayed' = strayed \cup {"death"}
  /\ UNCHANGED <<files, record, worktrees, service, proven>>

-------------------------------------------------------------------------------
(* health, and what it decides.                                            *)

Unhealthy(j) ==
  /\ "health" \in Faults \/ ~service.loaded
  /\ job[j].pc = "checking"
  /\ GivesUp(j)
  /\ UNCHANGED <<files, worktrees, service, proven>>

Decided(j) ==
  \/ /\ job[j].mode = "activate"
     /\ record' = [current |-> job[j].sha, previous |-> job[j].current, last |-> "activated"]
     /\ Goes(j, "pruning")
     /\ strayed' = IF strayed = {} THEN {} ELSE {"forgot"} \cup (strayed \cap {"overlap"})
  \/ /\ job[j].mode = "undo"
     /\ Recorded(j, "rolled_back") /\ Stops(j)
     /\ UNCHANGED strayed
  \/ /\ job[j].mode = "rollback"
     /\ record' = [current |-> job[j].previous, previous |-> None, last |-> "rolled_back"]
     /\ Stops(j)
     /\ UNCHANGED strayed

\* The checks ask the service that answers, whichever release it runs.
Healthy(j) ==
  /\ job[j].pc = "checking" /\ service.loaded
  /\ proven' = proven \cup {service.release}
  /\ Decided(j)
  /\ UNCHANGED <<files, worktrees, service>>

\* prune_releases keeps the new release, its predecessor and the Spare newest others.  When each
\* was checked out is not modelled: any of the others may be the newest.
Kept(j) == {job[j].sha, job[j].current}
Pruned(j) ==
  LET others == worktrees \ Kept(j) IN
  {(worktrees \cap Kept(j)) \cup spared :
     spared \in {s \in SUBSET others :
                   Cardinality(s) = Spare \/ (s = others /\ Cardinality(s) < Spare)}}

Prune(j) ==
  /\ job[j].pc = "pruning"
  /\ worktrees' \in Pruned(j)
  /\ Stops(j)
  /\ UNCHANGED <<files, record, service, proven, strayed>>

-------------------------------------------------------------------------------
\* An activator is killed, or the Mac it runs on sleeps for good.
Die(j) ==
  /\ "die" \in Faults /\ AtWork(j)
  /\ Stops(j)
  /\ strayed' = strayed \cup {"death"}
  /\ UNCHANGED <<files, record, worktrees, service, proven>>

\* Logging in loads the service from the control.plist the LaunchAgents link names; logging out
\* ended whatever ran before.
Login ==
  /\ ~service.loaded /\ \A j \in Jobs : ~AtWork(j)
  /\ service' = [loaded |-> TRUE, release |-> files.control]
  /\ UNCHANGED <<job, files, record, worktrees, proven, strayed>>

Step(j) ==
  \/ Prepare(j) \/ PrepareFails(j) \/ Save(j)
  \/ Unload(j) \/ Install(j) \/ Load(j) \/ SwapFails(j) \/ SwapDies(j)
  \/ Unhealthy(j) \/ Healthy(j) \/ Prune(j)

Next ==
  \/ \E j \in Jobs : \/ \E sha \in Commits : Activate(j, sha)
                     \/ Rollback(j) \/ Step(j) \/ Die(j)
  \/ Login

Fairness == \A j \in Jobs : WF_vars(Step(j))

Spec == Init /\ [][Next]_vars
FairSpec == Spec /\ Fairness

-------------------------------------------------------------------------------
OnBooks == Commits \cup {None}

\* Every variable holds a value of its file or process.
TypeOK ==
  /\ job \in [Jobs ->
       [pc : {"idle", "preparing", "saving", "unloading", "installing", "loading", "checking",
              "pruning", "ended"},
        mode : {"none", "activate", "undo", "rollback"}, sha : OnBooks, current : OnBooks,
        previous : OnBooks]]
  /\ files \in [control : Commits \cup {Base}, next : OnBooks, previous : OnBooks \cup {Base}]
  /\ record \in [current : OnBooks, previous : OnBooks,
                 last : {"none", "activated", "rolled_back", "failed"}]
  /\ worktrees \subseteq Commits
  /\ service \in [loaded : BOOLEAN, release : Commits \cup {Base}]
  /\ proven \subseteq Commits \cup {Base}
  /\ strayed \subseteq {"death", "unrestored", "misuse", "forgot", "overlap"}

Quiet == \A j \in Jobs : ~AtWork(j)
OnRecord(release) == IF release = Base THEN None ELSE release

\* One at a time, never killed, and rolled back by hand only after a successful activation, the
\* activators keep their books: releases.json names the release the service runs, and its
\* predecessor is the one control.plist.previous would bring back.  Once that broke, the next
\* successful activation sets the current release right again.
RecordAgrees ==
  Quiet =>
    /\ strayed \subseteq {"forgot"} => record.current = OnRecord(service.release)
    /\ strayed = {} /\ record.last = "activated" => record.previous = OnRecord(files.previous)

\* Whatever else fails, the service then ends up loaded, on a release that passed its checks.
EndsHealthy ==
  Quiet /\ strayed \subseteq {"forgot"} => service.loaded /\ service.release \in proven

\* Even two activators that overlap leave the service loaded, on some release, unless one died
\* or launchd refused it.
StaysLoaded == Quiet /\ {"death", "unrestored"} \cap strayed = {} => service.loaded

\* No release in use, or kept for the rollback, is pruned.
InUseIsKept ==
  strayed = {} =>
    {files.control, files.previous, service.release} \ {Base, None} \subseteq worktrees

\* As long as no activator died, overlapped with another or failed to roll back, and the owner
\* rolled back only what had been activated, the service ends up loaded, on a release that passed
\* its checks; releases.json agrees with it, and what it or a rollback needs is not pruned.  An
\* overlap alone leaves it loaded.
ReleasesAreSound == EndsHealthy /\ StaysLoaded /\ RecordAgrees /\ InUseIsKept
===============================================================================
