----------------------------- MODULE Provisioning -----------------------------
(***************************************************************************)
(* Creating a new product (provisioning.py), composed with enrolling it:   *)
(* an approved proposal becomes a local repository, a repository on        *)
(* GitHub, a project and a first request, step by step in a thread of its  *)
(* own.  Two proposals may have been given the same free name; and the     *)
(* new repository is one the owner may enrol or work on at once.           *)
(*                                                                         *)
(* Abstracted: how a free name is found, and what the steps' records say.  *)
(***************************************************************************)
EXTENDS Enrolment

CONSTANTS
  Provisions,  \* the approved proposals, all of the same name
  Nested       \* whether they are started inside the command's transaction, as the API does

VARIABLES
  remote,    \* the GitHub repository of that name: who created it
  requests   \* the provisions whose first request is filed

prvars == <<remote, requests>>
vars == <<evars, prvars>>

\* What each job is, and a README is not what looks like a secret.
ProvisioningAssumption ==
  /\ Taps \subseteq Jobs /\ Provisions \subseteq Jobs /\ Taps \cap Provisions = {}
  /\ Nobody \notin Jobs /\ Owner \notin Jobs
  /\ Files \ {Secret} # {}

\* The one file a new repository has, by whom.
README == CHOOSE f \in Files : f # Secret

Init ==
  /\ \E there \in IF Provisions = {} THEN {TRUE} ELSE BOOLEAN : EnrolmentInit(there)
  /\ remote = Nobody /\ requests = {}

-------------------------------------------------------------------------------
OnlyProvision == UNCHANGED <<repo, commits, projects, archived, commands, meddled, moves, restarts>>

\* start: the record is written, then an event, in a transaction of its own; inside another one
\* that waits for itself, and the thread is never started.
Approve(p) ==
  /\ job[p].pc = "new"
  /\ Goes(p, IF Nested THEN "queued" ELSE "checking")
  /\ OnlyProvision /\ UNCHANGED prvars

\* _create_local: a folder that is not empty is left alone ...
LookForFolder(p) ==
  /\ job[p].pc = "checking"
  /\ IF repo.there THEN Refused(p) ELSE Goes(p, "writing")
  /\ OnlyProvision /\ UNCHANGED prvars

\* ... the files are written ...
WriteFolder(p) ==
  /\ job[p].pc = "writing"
  /\ repo' = [repo EXCEPT !.there = TRUE, !.worktree = @ \cup {README}]
  /\ Goes(p, "adding")
  /\ UNCHANGED <<commits, projects, archived, commands, meddled, moves, restarts, prvars>>

\* ... and all that is there is committed, if there is something.
CommitFolder(p) ==
  /\ job[p].pc = "adding"
  /\ IF Unsaved = {} THEN Refused(p) /\ UNCHANGED <<repo, commits, meddled>>
     ELSE /\ commits' = Append(commits, [by |-> p, branch |-> repo.branch, files |-> Unsaved])
          /\ repo' = [repo EXCEPT !.worktree = {}, !.index = {}]
          /\ Meddles(p, {}, {"committed"})
          /\ Goes(p, "asking")
  /\ UNCHANGED <<projects, archived, commands, moves, restarts, prvars>>

\* Mutant: a repository that is there will do.
LookForRemoteAndTakeIt(p) ==
  /\ job[p].pc = "asking"
  /\ Goes(p, IF remote # Nobody THEN "enrolling" ELSE "creating")
  /\ OnlyProvision /\ UNCHANGED prvars

\* _create_remote: one that exists is not replaced ...
LookForRemote(p) ==
  /\ job[p].pc = "asking"
  /\ IF remote # Nobody THEN Refused(p) ELSE Goes(p, "creating")
  /\ OnlyProvision /\ UNCHANGED prvars

\* ... and gh creates a new one, or fails; so may the push, or the look at it.
CreateRemote(p) ==
  /\ job[p].pc = "creating"
  /\ \/ remote = Nobody /\ remote' = p /\ (Goes(p, "enrolling") \/ Refused(p))
     \/ UNCHANGED remote /\ Refused(p)
  /\ OnlyProvision /\ UNCHANGED requests

\* _request, after _enrol put the GitHub address into the project.
Request(p) ==
  /\ job[p].pc = "enrolled"
  /\ \/ Goes(p, "done") /\ requests' = requests \cup {p}
     \/ Refused(p) /\ UNCHANGED requests
  /\ OnlyProvision /\ UNCHANGED remote

Provision(p) ==
  \/ Approve(p) \/ LookForFolder(p) \/ WriteFolder(p) \/ CommitFolder(p)
  \/ LookForRemote(p) \/ CreateRemote(p) \/ Request(p)

Works(x) == EngineEnrols(x) /\ UNCHANGED prvars

Next ==
  \/ (OwnerMoves \/ Archive \/ Restart) /\ UNCHANGED prvars
  \/ \E t \in Taps : (Tap(t) /\ UNCHANGED prvars) \/ Works(t)
  \/ \E p \in Provisions : Provision(p) \/ Works(p)

Spec == Init /\ [][Next]_vars

\* A provision's thread runs.
FairSpec == Spec /\ \A p \in Provisions : WF_vars(Provision(p) \/ Works(p))

-------------------------------------------------------------------------------
\* A provision that is done has a repository on GitHub and a project that are its own, and filed
\* its one request; however many had the same name, at most one is.
DoneIsItsOwn ==
  \A p \in Provisions : job[p].pc = "done" =>
    /\ remote = p /\ p \in requests
    /\ \E project \in projects : project.by = p

\* An approved provision ends, unless the host restarts.
ProvisionsEnd ==
  \A p \in Provisions :
    job[p].pc # "new" ~> job[p].pc \in {"done", "refused", "lost"}
===============================================================================
