--------------------------------- MODULE Arena ---------------------------------
(***************************************************************************)
(* The arena's tournament (orchestrator.py, with the evaluator, the        *)
(* scoring and the freezing of candidates): every engineer implements the  *)
(* task in a worktree of its own, the candidates are frozen and evaluated, *)
(* then reviewed and revised in rounds, and the best is exported.          *)
(* Providers run in threads, through the process runner; Ctrl-C and the    *)
(* run's deadline may come at any step.                                    *)
(*                                                                         *)
(* Abstracted: prompts, reviews and patches; what a check finds (the       *)
(* candidate passes with some score, or fails).  A commit is the set of    *)
(* the generations it descends from, 0 being the base.                     *)
(***************************************************************************)
EXTENDS Processes

CONSTANTS
  Engineers,  \* Groups is Engineers \X {"implement", "review", "revise", "check", "judge"} \X 0..Rounds
  Rounds,     \* revision_rounds
  Judge,      \* whether a judge is configured
  Band,       \* score_band_basis_points
  MaxScore    \* scores are 0..MaxScore

\* What kind of values these are; whoever instantiates the module assumes it.
ArenaAssumption ==
  /\ Groups = Engineers \X {"implement", "review", "revise", "check", "judge"} \X (0..Rounds)
  /\ Rounds \in Nat /\ Judge \in BOOLEAN /\ Band \in Nat /\ MaxScore \in Nat

VARIABLES
  main,      \* the coordinator: where it is, the latest parallel phase, the round, what it raises
  thread,    \* each engineer's thread in the latest parallel phase
  head,      \* the generations each worktree's HEAD descends from
  cand,      \* each engineer's current result, snapshot and evaluation
  failed,    \* history: the engineers one of whose phases failed
  state,     \* run.json, once the run is over
  winner,    \* the decision
  exported   \* winner.bundle: the commit, {} if there is none

avars == <<main, thread, head, cand, failed, state, winner, exported>>
vars == <<pvars, avars>>

None == "none"
Base == 0
Group(e) == <<e, main.phase, main.round>>

Init ==
  /\ ProcessInit
  /\ main = [pc |-> "parallel", phase |-> "implement", round |-> 0, why |-> None]
  /\ thread = [e \in Engineers |-> "queued"]
  /\ head = [e \in Engineers |-> {Base}]
  /\ cand = [e \in Engineers |-> [ok |-> FALSE, valid |-> FALSE, commit |-> {Base},
                                  evaluated |-> {}, passed |-> FALSE, score |-> 0]]
  /\ failed = {} /\ state = "running" /\ winner = None /\ exported = {}

-------------------------------------------------------------------------------
(* A parallel phase.                                                       *)

\* Who takes part: reviewers whose last phase succeeded, revisers whose candidate is valid too.
TakesPart(e, phase) == cand[e].ok /\ (phase = "revise" => cand[e].valid)

Begins(phase, round) ==
  /\ main' = [main EXCEPT !.pc = "parallel", !.phase = phase, !.round = round]
  /\ thread' = [e \in Engineers |-> IF TakesPart(e, phase) THEN "queued" ELSE "off"]

\* A thread prepares its request, which raises when no time is left, or Git or the disk fail.
Take(e) ==
  /\ thread[e] = "queued"
  /\ thread' \in {[thread EXCEPT ![e] = "running"]}
               \cup (IF "error" \in Faults THEN {[thread EXCEPT ![e] = "raised"]} ELSE {})
  /\ UNCHANGED <<pvars, main, head, cand, failed, state, winner, exported>>

\* Its provider runs in a group of its own ...
RunsProvider(e) ==
  /\ thread[e] = "running"
  /\ Check(Group(e)) \/ Spawn(Group(e)) \/ Leave(Group(e))
  /\ UNCHANGED avars

\* ... may rewrite the history of its worktree, and succeeds if it ended well and said enough;
\* whatever else happened is a failed result, an interruption too.
Answers(e) ==
  /\ thread[e] = "running" /\ calls[Group(e)] \in Over
  /\ thread' = [thread EXCEPT ![e] = "done"]
  /\ calls' = [calls EXCEPT ![Group(e)] = "idle"]
  /\ IF main.phase = "review" THEN UNCHANGED <<head, cand, failed>>
     ELSE /\ \E ok \in IF calls[Group(e)] # "ended" THEN {FALSE}
                       ELSE IF "provider" \in Faults THEN BOOLEAN ELSE {TRUE} :
               /\ cand' = [cand EXCEPT ![e].ok = ok]
               /\ failed' = IF ok THEN failed ELSE failed \cup {e}
          /\ head' \in {head, [head EXCEPT ![e] = @ \ {main.round}]}
  /\ UNCHANGED <<cancelled, registry, active, os, term, canceller,
                 main, state, winner, exported>>

\* Every thread is done; an engineer left out of a revision has failed it.
Collect ==
  /\ main.pc = "parallel" /\ \A e \in Engineers : thread[e] \in {"off", "done"}
  /\ IF main.phase = "review"
     THEN Begins("revise", main.round) /\ UNCHANGED <<cand, failed>>
     ELSE LET out == {e \in Engineers : thread[e] = "off"}
          IN /\ main' = [main EXCEPT !.pc = "freezing"]
             /\ cand' = [e \in Engineers |-> IF e \in out THEN [cand[e] EXCEPT !.ok = FALSE]
                                             ELSE cand[e]]
             /\ failed' = failed \cup out
             /\ UNCHANGED thread
  /\ UNCHANGED <<pvars, head, state, winner, exported>>

-------------------------------------------------------------------------------
(* Freezing, evaluating and deciding.                                      *)

\* Mutant: what the candidate descends from is not looked at.
FrozenFromAnywhere(e, good) ==
  IF good THEN [cand[e] EXCEPT !.valid = TRUE, !.commit = head[e] \cup {main.round + 1}]
  ELSE [cand[e] EXCEPT !.valid = FALSE, !.commit = {Base}]

\* freeze_candidate commits what is there on top of the previous generation, or refuses; a
\* policy may be violated as well.
Frozen(e, good) ==
  IF good /\ main.round \in head[e]
  THEN [cand[e] EXCEPT !.valid = TRUE, !.commit = head[e] \cup {main.round + 1}]
  ELSE [cand[e] EXCEPT !.valid = FALSE, !.commit = {Base}]

\* Who took part is frozen; the others' previous candidates are carried on as invalid.
Freeze ==
  /\ main.pc = "freezing"
  /\ \E good \in SUBSET {e \in Engineers : thread[e] = "done"} :
       cand' = [e \in Engineers |-> IF thread[e] = "done" THEN Frozen(e, e \in good)
                                    ELSE [cand[e] EXCEPT !.valid = FALSE]]
  /\ head' = [e \in Engineers |-> IF cand'[e].valid THEN cand'[e].commit ELSE head[e]]
  /\ main' = [main EXCEPT !.pc = "evaluating"]
  /\ UNCHANGED <<pvars, thread, failed, state, winner, exported>>

CheckGroup(e) == <<e, "check", main.round>>
JudgeGroup(e) == <<e, "judge", main.round>>

\* Groups that the coordinator itself ran and whose stop nobody could confirm: the call has just
\* failed, also if it was Ctrl-C that ended it.
LeftBehind(left) ==
  /\ active' = active \cup left
  /\ os' = [g \in Groups |-> IF g \in left THEN "left" ELSE os[g]]
  /\ term' = [g \in Groups |-> IF g \in left THEN "unconfirmed" ELSE term[g]]
  /\ UNCHANGED <<cancelled, registry, calls, canceller>>

\* A valid candidate of a provider that succeeded is checked, in a worktree of its commit; a
\* check whose group may still be there has failed.  What the checks find counts in the last
\* round alone: before, it only goes into prompts.
Evaluate ==
  /\ main.pc = "evaluating"
  /\ \E stray \in {{}} \cup IF MayFail THEN {{e} : e \in Engineers} ELSE {},
        passed \in SUBSET Engineers, score \in [Engineers -> 0..MaxScore] :
       LET checked == {e \in Engineers : cand[e].valid /\ cand[e].ok}
           counted == IF main.round = Rounds THEN checked ELSE {}
       IN /\ stray \subseteq checked /\ passed \subseteq counted \ stray
          /\ \A e \in Engineers \ passed : score[e] = 0
          /\ cand' = [e \in Engineers |->
               [cand[e] EXCEPT !.evaluated = IF e \in counted THEN cand[e].commit ELSE {},
                               !.passed = e \in passed, !.score = score[e]]]
          /\ LeftBehind({CheckGroup(e) : e \in stray})
  /\ main' = [main EXCEPT !.pc = IF main.round < Rounds THEN "round" ELSE "scoring"]
  /\ UNCHANGED <<thread, head, failed, state, winner, exported>>

NextRound ==
  /\ main.pc = "round"
  /\ Begins("review", main.round + 1)
  /\ UNCHANGED <<pvars, head, cand, failed, state, winner, exported>>

\* Mutant: that the provider succeeded is not asked for.
EligibleUnasked(e) == cand[e].valid

\* score_candidates: what disqualifies.
Eligible(e) == cand[e].valid /\ cand[e].ok /\ cand[e].passed

\* The best, ties aside: the smaller diff, then the name.
Best == {e \in Engineers : Eligible(e)
           /\ \A f \in Engineers : Eligible(f) => cand[f].score <= cand[e].score}

Score ==
  /\ main.pc = "scoring"
  /\ winner' \in IF Best = {} THEN {None} ELSE Best
  /\ main' = [main EXCEPT !.pc = IF Judge /\ winner' # None THEN "judging" ELSE "exporting"]
  /\ UNCHANGED <<pvars, thread, head, cand, failed, state, exported>>

\* Mutant: whoever is eligible may be picked.
InAnyBand == {e \in Engineers : Eligible(e)}

InBand == {e \in Engineers : Eligible(e) /\ cand[winner].score - cand[e].score <= Band}

\* One of the engineers judges, among the blinded candidates in the band, if there are two; a
\* judge that fails, cannot be stopped or answers anything else changes nothing.
Judges ==
  /\ main.pc = "judging"
  /\ LET asked == Cardinality(InBand) > 1
     IN \/ winner' \in {winner} \cup (IF asked THEN InBand ELSE {}) /\ UNCHANGED pvars
        \/ /\ asked /\ MayFail /\ UNCHANGED winner
           /\ \E e \in Engineers : LeftBehind({JudgeGroup(e)})
  /\ main' = [main EXCEPT !.pc = "exporting"]
  /\ UNCHANGED <<thread, head, cand, failed, state, exported>>

Export ==
  /\ main.pc = "exporting"
  /\ exported' = IF winner = None THEN {} ELSE cand[winner].commit
  /\ state' = IF winner = None THEN "no_winner" ELSE "complete"
  /\ main' = [main EXCEPT !.pc = "reporting"]
  /\ UNCHANGED <<pvars, thread, head, cand, failed, winner>>

\* The report and the manifest; until they are there an error or Ctrl-C still makes the run a
\* failed or cancelled one.
Report ==
  /\ main.pc = "reporting"
  /\ main' = [main EXCEPT !.pc = "ended"]
  /\ UNCHANGED <<pvars, thread, head, cand, failed, state, winner, exported>>

-------------------------------------------------------------------------------
(* Ctrl-C and exceptions.                                                  *)

Cancelling(pc, why) ==
  /\ main' = [main EXCEPT !.pc = pc, !.why = why]
  /\ canceller' = [pc |-> "asked", left |-> {}, failed |-> FALSE]
  /\ UNCHANGED <<cancelled, registry, active, os, term, calls,
                 thread, head, cand, failed, state, winner, exported>>

\* In a parallel phase, a thread that raised or Ctrl-C cancels the others first.
ThreadRaised ==
  /\ main.pc = "parallel" /\ \E e \in Engineers : thread[e] = "raised"
  /\ Cancelling("cancelling", "error")

InterruptedInParallel ==
  /\ "interrupt" \in Faults /\ main.pc = "parallel"
  /\ Cancelling("cancelling", "interrupt")

\* Then the queued threads are withdrawn and the others waited for; an unconfirmed stop is
\* raised in place of Ctrl-C.
Join ==
  /\ main.pc = "cancelling" /\ canceller.pc \in {"done", "failed"}
  /\ \A e \in Engineers : thread[e] # "running"
  /\ thread' = [e \in Engineers |-> IF thread[e] = "queued" THEN "off" ELSE thread[e]]
  /\ main' = [main EXCEPT !.pc = "raised",
                          !.why = IF canceller.pc = "failed" THEN "error" ELSE @]
  /\ UNCHANGED <<pvars, head, cand, failed, state, winner, exported>>

Serial ==
  {"freezing", "evaluating", "round", "scoring", "judging", "exporting", "reporting"}

InterruptedInSerial ==
  /\ "interrupt" \in Faults /\ main.pc \in Serial
  /\ main' = [main EXCEPT !.pc = "raised", !.why = "interrupt"]
  /\ UNCHANGED <<pvars, thread, head, cand, failed, state, winner, exported>>

Breaks ==
  /\ "error" \in Faults /\ main.pc \in Serial
  /\ main' = [main EXCEPT !.pc = "raised", !.why = "error"]
  /\ UNCHANGED <<pvars, thread, head, cand, failed, state, winner, exported>>

\* run's handlers: an error is a failed run; Ctrl-C cancels all once more ...
Fails ==
  /\ main.pc = "raised" /\ main.why = "error"
  /\ state' = "failed" /\ main' = [main EXCEPT !.pc = "ended"]
  /\ UNCHANGED <<pvars, thread, head, cand, failed, winner, exported>>

CancelsAgain == main.pc = "raised" /\ main.why = "interrupt" /\ Cancelling("handling", "interrupt")

\* ... and is a cancelled run if nothing is left.
Cancelled ==
  /\ main.pc = "handling" /\ canceller.pc \in {"done", "failed"}
  /\ state' = IF canceller.pc = "done" THEN "cancelled" ELSE "failed"
  /\ main' = [main EXCEPT !.pc = "ended"]
  /\ UNCHANGED <<pvars, thread, head, cand, failed, winner, exported>>

-------------------------------------------------------------------------------
Coordinator ==
  \/ Collect \/ Freeze \/ Evaluate \/ NextRound \/ Score \/ Judges \/ Export \/ Report
  \/ ThreadRaised \/ Join \/ Fails \/ CancelsAgain \/ Cancelled
  \/ Cancels /\ UNCHANGED avars

Thread(e) == Take(e) \/ RunsProvider(e) \/ Answers(e)

Environment ==
  \/ InterruptedInParallel \/ InterruptedInSerial \/ Breaks
  \/ \E g \in Groups : Exits(g) /\ UNCHANGED avars
  \/ \E g \in Groups : Reused(g) /\ UNCHANGED avars

Next == Coordinator \/ Environment \/ \E e \in Engineers : Thread(e)

Spec == Init /\ [][Next]_vars

\* The coordinator and its threads run, and every provider is left, at its timeout at the latest.
FairSpec == Spec /\ WF_vars(Coordinator) /\ \A e \in Engineers : WF_vars(Thread(e))

-------------------------------------------------------------------------------
\* The winner that is exported is the commit that was evaluated, it passed, it descends from
\* every generation it was reviewed as, none of its engineer's phases failed, and no eligible
\* candidate is better by more than what the judge may overrule.
WinnerIsProven ==
  state = "complete" =>
    /\ exported = cand[winner].evaluated /\ cand[winner].passed
    /\ exported = 0..(Rounds + 1)
    /\ winner \notin failed
    /\ \A e \in Engineers : Eligible(e) =>
         cand[e].score - cand[winner].score <= IF Judge THEN Band ELSE 0

\* When the run is over no thread is at work, and nothing it started is, other than a group
\* whose stop was reported as unconfirmed; after a cancelled run nothing is.
OverMeansStopped ==
  main.pc = "ended" =>
    /\ \A e \in Engineers : thread[e] \notin {"running", "queued"}
    /\ \A g \in Groups : os[g] \in Live => term[g] = "unconfirmed" /\ state # "cancelled"

\* Every run ends.
TournamentOver == main.pc = "ended"
ArenaEnds == <>TournamentOver
===============================================================================
