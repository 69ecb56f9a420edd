------------------------------ MODULE Integration ------------------------------
(***************************************************************************)
(* `team integrate' of an adaptive run (integration.py,                    *)
(* integrate_last_green), composed with the run: the evidence is verified, *)
(* the source repository is compared with what the run recorded, and the   *)
(* verified patch becomes a new branch in a new worktree.  Meanwhile the   *)
(* owner works on the source repository, or integrates a second time.      *)
(*                                                                         *)
(* Abstracted: the patch, whose application yields the recorded tree or    *)
(* fails; the names and paths the command refuses by their form.           *)
(***************************************************************************)
EXTENDS Adaptive

CONSTANTS
  Calls,      \* the integrations the owner asks for
  Branch      \* Calls -> the branch, and the worktree, each asks for

ASSUME IntegrationAssumption == Calls # {} /\ DOMAIN Branch = Calls

Branches == {Branch[c] : c \in Calls}

VARIABLES
  source,    \* the source repository: as the run found it, dirty, or with a HEAD that moved
  call,      \* how far each integration is
  tip,       \* the source repository's integration branches: what is on each, NoCommit if there is none
  receipts   \* the receipts written, and those manifest.json lists

ivars == <<source, call, tip, receipts>>

IntegrationInit ==
  /\ Init
  /\ source = "as found"
  /\ call = [c \in Calls |-> "asked"]
  /\ tip = [b \in Branches |-> NoCommit]
  /\ receipts = [written |-> {}, listed |-> {}]

-------------------------------------------------------------------------------
Runs == Next /\ UNCHANGED ivars

\* The owner edits, cleans up and commits, which nothing takes back.  Bound: only once the run has
\* ended; no integration looks before.
OwnerWorks ==
  /\ outcome # "none"
  /\ source # "moved" /\ source' \in {"as found", "dirty", "moved"} \ {source}
  /\ UNCHANGED <<vars, call, tip, receipts>>

\* verify_manifest: every listed file as it was, and no other.
ManifestHolds ==
  manifest.there /\ manifest.stop = stop.filed /\ receipts.listed = receipts.written

\* The record, the accepted tasks and their evaluations and reviews vouch for one commit.
EvidenceHolds ==
  LET last == run.accepted[Len(run.accepted)]
  IN /\ run.state \in {"complete", "blocked", "deadline", "max_steps", "stopped"}
     /\ record.there /\ record.accepted = run.accepted
     /\ record.commit = IF run.accepted = <<>> THEN Base ELSE last.cand.commit
     /\ \A i \in 1..Len(run.accepted) : Accepted(run.accepted[i].cand)
     /\ loop.evaluated = "passed"

\* Mutant: the evidence is not cross-checked.
ExamineManifest(c) ==
  /\ call[c] = "asked" /\ ManifestHolds /\ record.there
  /\ call' = [call EXCEPT ![c] = "verified"]
  /\ UNCHANGED <<vars, source, tip, receipts>>

Examine(c) ==
  /\ call[c] = "asked" /\ ManifestHolds /\ EvidenceHolds
  /\ call' = [call EXCEPT ![c] = "verified"]
  /\ UNCHANGED <<vars, source, tip, receipts>>

\* The source is clean and where the run found it; the branch and the worktree are new.
CompareSource(c) ==
  /\ call[c] = "verified"
  /\ call' = [call EXCEPT ![c] =
       IF source = "as found" /\ tip[Branch[c]] = NoCommit
       THEN "compared" ELSE "refused"]
  /\ UNCHANGED <<vars, source, tip, receipts>>

\* Mutant: a branch that is already there is rolled back as well.
AddWorktreeOrRollBack(c) ==
  /\ call[c] = "compared"
  /\ IF tip[Branch[c]] = NoCommit
     THEN call' = [call EXCEPT ![c] = "created"] /\ tip' = [tip EXCEPT ![Branch[c]] = Base]
     ELSE call' = [call EXCEPT ![c] = "refused"] /\ tip' = [tip EXCEPT ![Branch[c]] = NoCommit]
  /\ UNCHANGED <<vars, source, receipts>>

\* git worktree add -b: from the recorded baseline, wherever HEAD is by now.
AddWorktree(c) ==
  /\ call[c] = "compared"
  /\ IF tip[Branch[c]] = NoCommit
     THEN call' = [call EXCEPT ![c] = "created"] /\ tip' = [tip EXCEPT ![Branch[c]] = Base]
     ELSE call' = [call EXCEPT ![c] = "refused"] /\ UNCHANGED tip
  /\ UNCHANGED <<vars, source, receipts>>

\* It runs into its timeout: what it made so far stays.
AddTimesOut(c) ==
  /\ "error" \in Faults /\ call[c] = "compared" /\ tip[Branch[c]] = NoCommit
  /\ call' = [call EXCEPT ![c] = "cut short"]
  /\ tip' \in {tip, [tip EXCEPT ![Branch[c]] = Base]}
  /\ UNCHANGED <<vars, source, receipts>>

\* The patch is applied and committed, and the tree is the recorded one.
ApplyPatch(c) ==
  /\ call[c] = "created"
  /\ call' = [call EXCEPT ![c] = "applied"]
  /\ tip' = [tip EXCEPT ![Branch[c]] = record.commit]
  /\ UNCHANGED <<vars, source, receipts>>

\* Any of it fails: the worktree and the branch go.
RollBack(c) ==
  /\ "error" \in Faults /\ call[c] = "created"
  /\ call' = [call EXCEPT ![c] = "refused"]
  /\ tip' = [tip EXCEPT ![Branch[c]] = NoCommit]
  /\ UNCHANGED <<vars, source, receipts>>

\* _write_receipt writes the receipt ...
WriteReceipt(c) ==
  /\ call[c] = "applied"
  /\ call' = [call EXCEPT ![c] = "receipted"]
  /\ receipts' = [receipts EXCEPT !.written = @ \cup {c}]
  /\ UNCHANGED <<vars, source, tip>>

\* ... and lists the run directory anew.
Relist(c) ==
  /\ call[c] = "receipted"
  /\ call' = [call EXCEPT ![c] = "done"]
  /\ receipts' = [receipts EXCEPT !.listed = receipts.written]
  /\ manifest' = [there |-> TRUE, stop |-> stop.filed]
  /\ UNCHANGED <<pc, run, loop, clock, repo, green, stop, stray, record, outcome, signals,
                 source, tip>>

-------------------------------------------------------------------------------
Integrates(c) ==
  \/ Examine(c) \/ CompareSource(c) \/ AddWorktree(c) \/ AddTimesOut(c)
  \/ ApplyPatch(c) \/ RollBack(c) \/ WriteReceipt(c) \/ Relist(c)

IntegrationNext ==
  \/ Runs \/ OwnerWorks
  \/ \E c \in Calls : Integrates(c)

IntegrationSpec == IntegrationInit /\ [][IntegrationNext]_<<vars, ivars>>

-------------------------------------------------------------------------------
\* What an integration brings is the base with all of the accepted work and no other (but that
\* of a writer nothing could stop), each task checked; and only an integration that succeeds,
\* is under way or was cut short leaves anything in the source repository, whatever a second
\* one does meanwhile.
IntegratesProvenWork ==
  /\ \A c \in Calls : call[c] \in {"applied", "receipted", "done"} =>
       /\ tip[Branch[c]] = green
       /\ loop.evaluated = "passed"
       /\ \A i \in 1..Len(loop.accepted) : Accepted(loop.accepted[i].cand)
  /\ \A b \in Branches : tip[b] # NoCommit =>
       \E c \in Calls : Branch[c] = b /\ call[c] \notin {"asked", "verified", "compared", "refused"}
===============================================================================
