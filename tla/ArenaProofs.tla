------------------------------ MODULE ArenaProofs ------------------------------
(***************************************************************************)
(* Proofs about the process runner and the tournament on top of it, for    *)
(* any engineers, rounds, scores and bands, with and without a judge, and  *)
(* for every fault.                                                        *)
(***************************************************************************)
EXTENDS Arena, TLAPS

-------------------------------------------------------------------------------
(* The inductive invariant *)

Working == {"off", "queued", "running", "done", "raised"}
Phases == {"implement", "review", "revise"}
Generations == 0..(Rounds + 1)

Candidates ==
  [ok : BOOLEAN, valid : BOOLEAN, commit : SUBSET Generations,
   evaluated : SUBSET Generations, passed : BOOLEAN, score : 0..MaxScore]

ArenaTypes ==
  /\ cancelled \in BOOLEAN
  /\ registry \in SUBSET Groups /\ active \in SUBSET Groups
  /\ os \in [Groups -> Live \cup {"none", "gone", "stranger"}]
  /\ term \in [Groups -> {"none", "confirmed", "unconfirmed"}]
  /\ calls \in [Groups -> {"idle", "checked", "running"} \cup Over]
  /\ canceller \in [pc : {"idle", "asked", "flagged", "stopping", "done", "failed"},
                    left : SUBSET Groups, failed : BOOLEAN]
  /\ main \in [pc : Serial \cup {"parallel", "cancelling", "raised", "handling", "ended"},
               phase : Phases, round : 0..Rounds, why : {None, "error", "interrupt"}]
  /\ thread \in [Engineers -> Working]
  /\ head \in [Engineers -> SUBSET Generations]
  /\ cand \in [Engineers -> Candidates]
  /\ failed \in SUBSET Engineers
  /\ state \in {"running", "complete", "no_winner", "failed", "cancelled"}
  /\ winner \in Engineers \cup {None}
  /\ exported \in SUBSET Generations

\* A call of the runner is one of a thread at work in the phase under way; none is at work but
\* in a phase, or while one is being given up.
CallsAreOfThreads ==
  /\ \A g \in Groups : calls[g] # "idle" =>
       \E e \in Engineers : g = Group(e) /\ thread[e] = "running"
  /\ main.pc \notin {"parallel", "cancelling"} =>
       \A e \in Engineers : thread[e] \notin {"queued", "running"}

\* The group being started, one at a time, holds the register.
StartsAreAlone ==
  /\ \A g \in Groups : calls[g] = "checked" <=> g \in registry
  /\ \A g, h \in registry : g = h

Untouched(g) == os[g] = "none" /\ term[g] = "none"

\* Groups that are still to be started have not been anything before.
FutureIsUntouched ==
  /\ \A g \in Groups : g[3] > main.round => Untouched(g)
  /\ \A g \in Groups :
       g[3] = main.round /\ g[2] = "revise" /\ main.phase = "review" => Untouched(g)
  /\ \A e \in Engineers :
       thread[e] = "queued" \/ (thread[e] = "running" /\ calls[Group(e)] \in {"idle", "checked"})
         => Untouched(Group(e))

\* What runs is in the register, has a thread that will stop it or was reported, and a stop
\* that was confirmed is true.
StopsAreTrue ==
  \A g \in Groups :
    /\ os[g] \in Live => g \in active
    /\ os[g] \in Live /\ term[g] = "none" => calls[g] = "running"
    /\ term[g] = "confirmed" => os[g] = "gone"
    /\ g \in active \cup canceller.left => os[g] # "none"

\* cancel_all: flag, then look at the register, then stop what was in it.
CancelReaches ==
  /\ canceller.pc # "idle" => main.pc \in {"cancelling", "raised", "handling", "ended"}
  /\ canceller.pc \in {"flagged", "stopping", "done", "failed"} => cancelled
  /\ canceller.pc \in {"stopping", "done", "failed"} => registry = {}
  /\ canceller.pc = "stopping" =>
       \A g \in Groups : os[g] \in Live => g \in canceller.left \/ canceller.failed
  /\ canceller.pc = "done" => \A g \in Groups : os[g] \notin Live

\* What a worktree descends from: nothing was rewritten before its thread works, at most the
\* last generation after, and a valid candidate has them all.
HeadsGrow ==
  /\ main.pc = "parallel" /\ main.phase = "review" =>
       \A e \in Engineers : cand[e].valid => head[e] = 0..main.round
  /\ main.pc \in {"parallel", "freezing"} /\ main.phase # "review" =>
       \A e \in Engineers :
         /\ thread[e] \in {"queued", "running"} => head[e] = 0..main.round
         /\ thread[e] = "done" => head[e] \in {0..main.round, (0..main.round) \ {main.round}}
  /\ main.pc \in Serial \ {"freezing"} =>
       \A e \in Engineers : cand[e].valid =>
         head[e] = 0..(main.round + 1) /\ cand[e].commit = 0..(main.round + 1)
  /\ main.pc = "freezing" => main.phase # "review"
  /\ main.pc = "round" => main.round < Rounds

FailuresStay ==
  \A e \in failed : ~cand[e].ok /\ thread[e] \notin {"queued", "running"}

Proven(e) ==
  /\ Eligible(e) /\ cand[e].evaluated = 0..(Rounds + 1) /\ cand[e].commit = cand[e].evaluated

\* The decision, from the last evaluation on.
DecisionIsProven ==
  /\ main.pc \in {"scoring", "judging", "exporting"} =>
       main.round = Rounds /\ \A e \in Engineers : Eligible(e) => Proven(e)
  /\ main.pc = "judging" =>
       winner # None /\ Judge /\ Proven(winner)
         /\ \A e \in Engineers : Eligible(e) => cand[e].score <= cand[winner].score
  /\ main.pc = "exporting" /\ winner # None =>
       /\ Proven(winner)
       /\ \A e \in Engineers : Eligible(e) =>
            cand[e].score - cand[winner].score <= IF Judge THEN Band ELSE 0
  /\ state = "complete" => winner \in Engineers /\ Proven(winner) /\ exported = cand[winner].commit
       /\ \A e \in Engineers : Eligible(e) =>
            cand[e].score - cand[winner].score <= IF Judge THEN Band ELSE 0
  /\ state # "running" => main.pc \in {"reporting", "raised", "handling", "ended"}
  /\ state \in {"failed", "cancelled"} => main.pc = "ended"
  /\ state = "cancelled" => canceller.pc = "done"

ArenaInvariant ==
  /\ ArenaTypes /\ CallsAreOfThreads /\ StartsAreAlone /\ FutureIsUntouched
  /\ StopsAreTrue /\ CancelReaches /\ HeadsGrow /\ FailuresStay /\ DecisionIsProven

-------------------------------------------------------------------------------
(* Types *)

LEMMA GroupFacts ==
  ASSUME ArenaAssumption, ArenaTypes, NEW e \in Engineers
  PROVE  /\ Group(e) \in Groups /\ Group(e)[1] = e
         /\ Group(e)[2] = main.phase /\ Group(e)[3] = main.round
         /\ CheckGroup(e) \in Groups /\ CheckGroup(e)[2] = "check"
         /\ CheckGroup(e)[3] = main.round
         /\ JudgeGroup(e) \in Groups /\ JudgeGroup(e)[2] = "judge"
         /\ JudgeGroup(e)[3] = main.round
BY DEF ArenaAssumption, ArenaTypes, Group, CheckGroup, JudgeGroup, Phases

\* However a group is stopped, a record is what comes of it.
LEMMA StopsAreRecords ==
  ASSUME ArenaTypes, NEW g \in Groups, NEW stop \in Stops(g)
  PROVE  /\ stop.os \in Live \cup {"none", "gone", "stranger"}
         /\ stop.term \in {"none", "confirmed", "unconfirmed"}
BY DEF ArenaTypes, Stops, Live

LEMMA AnswersCandidates ==
  ASSUME NEW c \in Candidates, NEW b \in BOOLEAN
  PROVE  [c EXCEPT !.ok = b] \in Candidates /\ [c EXCEPT !.valid = b] \in Candidates
BY DEF Candidates

LEMMA FreezesCandidates ==
  ASSUME NEW c \in Candidates, NEW b \in BOOLEAN, NEW d \in SUBSET Generations
  PROVE  [c EXCEPT !.valid = b, !.commit = d] \in Candidates
BY DEF Candidates

LEMMA EvaluatesCandidates ==
  ASSUME NEW c \in Candidates, NEW b \in BOOLEAN, NEW t \in SUBSET Generations, NEW n \in 0..MaxScore
  PROVE  [c EXCEPT !.evaluated = t, !.passed = b, !.score = n] \in Candidates
BY DEF Candidates

\* What of the types is the runner's.
RunnerTypes ==
  /\ cancelled \in BOOLEAN
  /\ registry \in SUBSET Groups /\ active \in SUBSET Groups
  /\ os \in [Groups -> Live \cup {"none", "gone", "stranger"}]
  /\ term \in [Groups -> {"none", "confirmed", "unconfirmed"}]
  /\ calls \in [Groups -> {"idle", "checked", "running"} \cup Over]
  /\ canceller \in [pc : {"idle", "asked", "flagged", "stopping", "done", "failed"},
                    left : SUBSET Groups, failed : BOOLEAN]

LEMMA RunnerFrame ==
  ASSUME ArenaTypes
  PROVE  RunnerTypes /\ (RunnerTypes' /\ UNCHANGED avars => ArenaTypes')
BY DEF ArenaTypes, RunnerTypes, avars

\* The runner's steps and those of the environment.
LEMMA RunnerKeepsTypes ==
  ASSUME ArenaAssumption, ArenaTypes, NEW g \in Groups,
         Check(g) \/ Spawn(g) \/ Leave(g) \/ Cancels \/ Exits(g) \/ Reused(g),
         UNCHANGED avars
  PROVE  ArenaTypes'
<1>t. RunnerTypes
  BY RunnerFrame
<1>s. \A h \in Groups : \A stop \in Stops(h) :
        /\ stop.os \in Live \cup {"none", "gone", "stranger"}
        /\ stop.term \in {"none", "confirmed", "unconfirmed"}
  BY StopsAreRecords
<1>1. CASE Check(g)
  <2>1. calls' \in [Groups -> {"idle", "checked", "running"} \cup Over]
    BY <1>t, <1>1 DEF RunnerTypes, Check, Over
  <2>2. registry' \in SUBSET Groups /\ UNCHANGED <<cancelled, active, os, term, canceller>>
    BY <1>t, <1>1 DEF RunnerTypes, Check
  <2>3. RunnerTypes'
    BY <1>t, <2>1, <2>2 DEF RunnerTypes
  <2> QED BY <2>3, RunnerFrame
<1>2. CASE Spawn(g)
  <2>1. RunnerTypes'
    BY <1>t, <1>2 DEF RunnerTypes, Spawn, Live
  <2> QED BY <2>1, RunnerFrame
<1>3. CASE Leave(g)
  <2>1. /\ os' \in [Groups -> Live \cup {"none", "gone", "stranger"}]
        /\ term' \in [Groups -> {"none", "confirmed", "unconfirmed"}]
        /\ active' \in SUBSET Groups
        /\ calls' \in [Groups -> {"idle", "checked", "running"} \cup Over]
    <3>1. PICK stop \in Stops(g),
               why \in (IF os[g] = "alive" THEN {} ELSE {"ended"}) \cup {"timed out"}
                       \cup (IF cancelled THEN {"interrupted"} ELSE {}) :
            /\ os' = [os EXCEPT ![g] = stop.os]
            /\ term' = [term EXCEPT ![g] = stop.term]
            /\ active' = Forgotten(g, stop)
            /\ calls' = [calls EXCEPT ![g] = IF stop.term = "confirmed" THEN why ELSE "unconfirmed"]
      BY <1>3 DEF Leave
    <3>2. why \in Over
      BY DEF Over
    <3>3. active' \in SUBSET Groups
      BY <1>t, <3>1 DEF RunnerTypes, Forgotten
    <3>4. calls' \in [Groups -> {"idle", "checked", "running"} \cup Over]
      BY <1>t, <3>1, <3>2 DEF RunnerTypes, Over
    <3>5. /\ os' \in [Groups -> Live \cup {"none", "gone", "stranger"}]
          /\ term' \in [Groups -> {"none", "confirmed", "unconfirmed"}]
      BY <1>t, <1>s, <3>1 DEF RunnerTypes
    <3> QED BY <3>3, <3>4, <3>5
  <2>2. UNCHANGED <<cancelled, registry, canceller>>
    BY <1>3 DEF Leave
  <2>3. RunnerTypes'
    BY <1>t, <2>1, <2>2 DEF RunnerTypes
  <2> QED BY <2>3, RunnerFrame
<1>4. CASE Flag \/ Look \/ Settle
  <2>1. /\ cancelled' \in BOOLEAN
        /\ canceller' \in [pc : {"idle", "asked", "flagged", "stopping", "done", "failed"},
                           left : SUBSET Groups, failed : BOOLEAN]
    <3>1. CASE Flag
      BY <1>t, <3>1 DEF RunnerTypes, Flag
    <3>2. CASE Look
      BY <1>t, <3>2 DEF RunnerTypes, Look
    <3>3. CASE Settle
      BY <1>t, <3>3 DEF RunnerTypes, Settle
    <3> QED BY <1>4, <3>1, <3>2, <3>3
  <2>2. UNCHANGED <<registry, active, os, term, calls>>
    BY <1>4 DEF Flag, Look, Settle
  <2>3. RunnerTypes'
    BY <1>t, <2>1, <2>2 DEF RunnerTypes
  <2> QED BY <2>3, RunnerFrame
<1>5. ASSUME NEW h \in Groups, StopOne(h)
      PROVE  ArenaTypes'
  <2>1. /\ os' \in [Groups -> Live \cup {"none", "gone", "stranger"}]
        /\ term' \in [Groups -> {"none", "confirmed", "unconfirmed"}]
        /\ canceller' \in [pc : {"idle", "asked", "flagged", "stopping", "done", "failed"},
                           left : SUBSET Groups, failed : BOOLEAN]
    <3>1. PICK stop \in Stops(h) :
            /\ os' = [os EXCEPT ![h] = stop.os]
            /\ term' = [term EXCEPT ![h] = stop.term]
            /\ canceller' = [canceller EXCEPT !.left = @ \ {h},
                                              !.failed = @ \/ stop.term = "unconfirmed"]
      BY <1>5 DEF StopOne
    <3>2. /\ os' \in [Groups -> Live \cup {"none", "gone", "stranger"}]
          /\ term' \in [Groups -> {"none", "confirmed", "unconfirmed"}]
      BY <1>t, <1>s, <3>1 DEF RunnerTypes
    <3>3. canceller' \in [pc : {"idle", "asked", "flagged", "stopping", "done", "failed"},
                          left : SUBSET Groups, failed : BOOLEAN]
      BY <1>t, <3>1 DEF RunnerTypes
    <3> QED BY <3>2, <3>3
  <2>2. UNCHANGED <<cancelled, registry, active, calls>>
    BY <1>5 DEF StopOne
  <2>3. RunnerTypes'
    BY <1>t, <2>1, <2>2 DEF RunnerTypes
  <2> QED BY <2>3, RunnerFrame
<1>6. CASE Exits(g) \/ Reused(g)
  <2>1. os' \in [Groups -> Live \cup {"none", "gone", "stranger"}]
    BY <1>t, <1>6 DEF RunnerTypes, Exits, Reused, Live
  <2>2. UNCHANGED <<cancelled, registry, active, term, calls, canceller>>
    BY <1>6 DEF Exits, Reused
  <2>3. RunnerTypes'
    BY <1>t, <2>1, <2>2 DEF RunnerTypes
  <2> QED BY <2>3, RunnerFrame
<1> QED BY <1>1, <1>2, <1>3, <1>4, <1>5, <1>6 DEF Cancels

\* What the coordinator itself may leave behind.
LEMMA LeavingTypes ==
  ASSUME ArenaTypes, NEW left \in SUBSET Groups, LeftBehind(left)
  PROVE  /\ active' \in SUBSET Groups
         /\ os' \in [Groups -> Live \cup {"none", "gone", "stranger"}]
         /\ term' \in [Groups -> {"none", "confirmed", "unconfirmed"}]
BY DEF ArenaTypes, LeftBehind, Live

LEMMA BeginsTypes ==
  ASSUME ArenaTypes, NEW phase \in Phases, NEW round \in 0..Rounds, Begins(phase, round)
  PROVE  /\ main' \in [pc : Serial \cup {"parallel", "cancelling", "raised", "handling", "ended"},
                       phase : Phases, round : 0..Rounds, why : {None, "error", "interrupt"}]
         /\ thread' \in [Engineers -> Working]
BY DEF ArenaTypes, Begins, Working

LEMMA CancellingTypes ==
  ASSUME ArenaTypes, NEW pc \in {"cancelling", "handling"}, NEW why \in {"error", "interrupt"},
         Cancelling(pc, why)
  PROVE  ArenaTypes'
BY DEF ArenaTypes, Cancelling

LEMMA TypesKept ==
  ASSUME ArenaAssumption, ArenaInvariant, Next
  PROVE  ArenaTypes'
<1> USE DEF ArenaInvariant
<1>1. ASSUME NEW e \in Engineers, Take(e)
      PROVE  ArenaTypes'
  BY <1>1 DEF ArenaTypes, pvars, Take, Working
<1>2. ASSUME NEW e \in Engineers, RunsProvider(e)
      PROVE  ArenaTypes'
  BY <1>2, GroupFacts, RunnerKeepsTypes DEF RunsProvider
<1>3. ASSUME NEW e \in Engineers, Answers(e)
      PROVE  ArenaTypes'
  <2>1. Group(e) \in Groups
    BY GroupFacts
  <2>2. /\ thread' \in [Engineers -> Working]
        /\ calls' \in [Groups -> {"idle", "checked", "running"} \cup Over]
    BY <1>3, <2>1 DEF ArenaTypes, Answers, Working
  <2>3. CASE main.phase = "review"
    BY <1>3, <2>2, <2>3 DEF ArenaTypes, Answers
  <2>4. CASE main.phase # "review"
    <3>1. PICK ok \in BOOLEAN :
            /\ cand' = [cand EXCEPT ![e].ok = ok]
            /\ failed' = IF ok THEN failed ELSE failed \cup {e}
      BY <1>3, <2>4 DEF Answers
    <3>2. head' \in [Engineers -> SUBSET Generations]
      BY <1>3, <2>4 DEF ArenaTypes, Answers
    <3>3. cand' \in [Engineers -> Candidates]
      <4>1. cand \in [Engineers -> Candidates]
        BY DEF ArenaTypes
      <4>2. [cand[e] EXCEPT !.ok = ok] \in Candidates
        BY <4>1, AnswersCandidates
      <4> QED BY <3>1, <4>1, <4>2
    <3>4. failed' \in SUBSET Engineers
      BY <3>1 DEF ArenaTypes
    <3>5. UNCHANGED <<cancelled, registry, active, os, term, canceller,
                      main, state, winner, exported>>
      BY <1>3 DEF Answers
    <3> QED BY <2>2, <3>2, <3>3, <3>4, <3>5 DEF ArenaTypes
  <2> QED BY <2>3, <2>4
<1>4. CASE Collect
  <2>1. CASE main.phase = "review"
    BY <1>4, <2>1, BeginsTypes DEF ArenaTypes, pvars, Collect, Phases
  <2>2. CASE main.phase # "review"
    <3>1. PICK out \in SUBSET Engineers :
            /\ cand' = [e \in Engineers |-> IF e \in out THEN [cand[e] EXCEPT !.ok = FALSE]
                                            ELSE cand[e]]
            /\ failed' = failed \cup out
      BY <1>4, <2>2 DEF Collect
    <3>2. cand' \in [Engineers -> Candidates]
      <4>1. cand \in [Engineers -> Candidates]
        BY DEF ArenaTypes
      <4>2. \A e \in Engineers : [cand[e] EXCEPT !.ok = FALSE] \in Candidates
        BY <4>1, AnswersCandidates
      <4> QED BY <3>1, <4>1, <4>2
    <3>3. failed' \in SUBSET Engineers
      BY <3>1 DEF ArenaTypes
    <3>4. main' = [main EXCEPT !.pc = "freezing"] /\ UNCHANGED thread
      BY <1>4, <2>2 DEF Collect
    <3>5. UNCHANGED <<pvars, head, state, winner, exported>>
      BY <1>4 DEF Collect
    <3> QED BY <3>2, <3>3, <3>4, <3>5 DEF ArenaTypes, pvars, Serial
  <2> QED BY <2>1, <2>2
<1>5. CASE Freeze
  <2>1. PICK good \in SUBSET {e \in Engineers : thread[e] = "done"} :
          cand' = [e \in Engineers |-> IF thread[e] = "done" THEN Frozen(e, e \in good)
                                       ELSE [cand[e] EXCEPT !.valid = FALSE]]
    BY <1>5 DEF Freeze
  <2>2. ASSUME NEW e \in Engineers
        PROVE  /\ cand'[e] = IF thread[e] = "done" THEN Frozen(e, e \in good)
                             ELSE [cand[e] EXCEPT !.valid = FALSE]
               /\ cand'[e] \in Candidates
    <3>1. head[e] \cup {main.round + 1} \in SUBSET Generations
      BY DEF ArenaTypes, Generations, ArenaAssumption
    <3>2. {Base} \in SUBSET Generations
      BY DEF Generations, Base, ArenaAssumption
    <3>3. cand'[e] = IF thread[e] = "done" THEN Frozen(e, e \in good)
                     ELSE [cand[e] EXCEPT !.valid = FALSE]
      BY <2>1
    <3>4. cand[e] \in Candidates
      BY DEF ArenaTypes
    <3>5. /\ [cand[e] EXCEPT !.valid = TRUE, !.commit = head[e] \cup {main.round + 1}] \in Candidates
          /\ [cand[e] EXCEPT !.valid = FALSE, !.commit = {Base}] \in Candidates
          /\ [cand[e] EXCEPT !.valid = FALSE] \in Candidates
      BY <3>1, <3>2, <3>4, AnswersCandidates, FreezesCandidates
    <3> QED BY <3>3, <3>5 DEF Frozen
  <2>3. cand' \in [Engineers -> Candidates]
    BY <2>1, <2>2
  <2>4. head' \in [Engineers -> SUBSET Generations]
    <3>1. \A e \in Engineers : cand'[e].commit \in SUBSET Generations
      BY <2>2 DEF Candidates
    <3>2. head \in [Engineers -> SUBSET Generations]
      BY DEF ArenaTypes
    <3>3. head' = [e \in Engineers |-> IF cand'[e].valid THEN cand'[e].commit ELSE head[e]]
      BY <1>5 DEF Freeze
    <3> QED BY <3>1, <3>2, <3>3
  <2> QED BY <1>5, <2>3, <2>4 DEF ArenaTypes, pvars, Freeze, Serial
<1>6. CASE Evaluate
  <2>1. PICK stray \in {{}} \cup IF MayFail THEN {{e} : e \in Engineers} ELSE {},
             passed \in SUBSET Engineers, score \in [Engineers -> 0..MaxScore] :
          LET checked == {e \in Engineers : cand[e].valid /\ cand[e].ok}
              counted == IF main.round = Rounds THEN checked ELSE {}
          IN /\ stray \subseteq checked /\ passed \subseteq counted \ stray
             /\ \A e \in Engineers \ passed : score[e] = 0
             /\ cand' = [e \in Engineers |->
                  [cand[e] EXCEPT !.evaluated = IF e \in counted THEN cand[e].commit ELSE {},
                                  !.passed = e \in passed, !.score = score[e]]]
             /\ LeftBehind({CheckGroup(e) : e \in stray})
    BY <1>6 DEF Evaluate
  <2>2. ASSUME NEW e \in Engineers
        PROVE  cand'[e] \in Candidates
    <3>1. cand[e] \in Candidates
      BY DEF ArenaTypes
    <3> DEFINE checked == {f \in Engineers : cand[f].valid /\ cand[f].ok}
               counted == IF main.round = Rounds THEN checked ELSE {}
               tested == IF e \in counted THEN cand[e].commit ELSE {}
    <3>2. cand'[e] = [cand[e] EXCEPT !.evaluated = tested, !.passed = e \in passed,
                                     !.score = score[e]]
      BY <2>1
    <3>3. tested \in SUBSET Generations
      BY <3>1 DEF Candidates
    <3>4. score[e] \in 0..MaxScore
      BY <2>1
    <3>5. (e \in passed) \in BOOLEAN
      OBVIOUS
    <3> HIDE DEF tested
    <3>6. [cand[e] EXCEPT !.evaluated = tested, !.passed = (e \in passed), !.score = score[e]]
            \in Candidates
      BY <3>1, <3>3, <3>4, <3>5, EvaluatesCandidates
    <3> QED BY <3>2, <3>6
  <2>7. cand' \in [Engineers -> Candidates]
    <3>1. DOMAIN cand' = Engineers /\ cand' = [e \in Engineers |-> cand'[e]]
      BY <2>1
    <3> QED BY <2>2, <3>1
  <2>3. {CheckGroup(e) : e \in stray} \subseteq Groups
    <3>1. \A e \in Engineers : CheckGroup(e) \in Groups
      BY GroupFacts
    <3>2. stray \subseteq Engineers
      BY <2>1
    <3> QED BY <3>1, <3>2
  <2>4. /\ active' \in SUBSET Groups
        /\ os' \in [Groups -> Live \cup {"none", "gone", "stranger"}]
        /\ term' \in [Groups -> {"none", "confirmed", "unconfirmed"}]
    BY <2>1, <2>3, LeavingTypes
  <2>5. main' \in [pc : Serial, phase : Phases, round : 0..Rounds, why : {None, "error", "interrupt"}]
    BY <1>6 DEF ArenaTypes, Evaluate, Serial
  <2>6. UNCHANGED <<cancelled, registry, calls, canceller,
                    thread, head, failed, state, winner, exported>>
    BY <1>6 DEF Evaluate, LeftBehind
  <2> QED BY <2>4, <2>5, <2>6, <2>7 DEF ArenaTypes
<1>7. CASE NextRound
  <2>1. main.round + 1 \in 0..Rounds
    BY <1>7 DEF ArenaTypes, HeadsGrow, NextRound, ArenaAssumption
  <2> QED BY <1>7, <2>1, BeginsTypes DEF ArenaTypes, pvars, NextRound, Phases
<1>8. CASE Score
  BY <1>8 DEF ArenaTypes, pvars, Score, Best, Serial
<1>15. CASE Judges
  <2>1. winner' \in Engineers \cup {None}
    BY <1>15 DEF ArenaTypes, Judges, InBand
  <2>2. RunnerTypes'
    <3>1. CASE UNCHANGED pvars
      BY <3>1, RunnerFrame DEF pvars, RunnerTypes
    <3>2. ASSUME NEW e \in Engineers, LeftBehind({JudgeGroup(e)})
          PROVE  RunnerTypes'
      <4>1. {JudgeGroup(e)} \subseteq Groups
        BY GroupFacts
      <4>2. UNCHANGED <<cancelled, registry, calls, canceller>>
        BY <3>2 DEF LeftBehind
      <4> QED BY <3>2, <4>1, <4>2, LeavingTypes, RunnerFrame DEF RunnerTypes
    <3> QED BY <1>15, <3>1, <3>2 DEF Judges
  <2>3. main' \in [pc : Serial, phase : Phases, round : 0..Rounds, why : {None, "error", "interrupt"}]
    BY <1>15 DEF ArenaTypes, Judges, Serial
  <2>4. UNCHANGED <<thread, head, cand, failed, state, exported>>
    BY <1>15 DEF Judges
  <2> QED BY <2>1, <2>2, <2>3, <2>4 DEF ArenaTypes, RunnerTypes
<1>9. CASE Export \/ Report
  BY <1>9 DEF ArenaTypes, pvars, Export, Report, Candidates, Serial
<1>10. CASE ThreadRaised \/ InterruptedInParallel \/ CancelsAgain
  BY <1>10, CancellingTypes DEF ThreadRaised, InterruptedInParallel, CancelsAgain
<1>11. CASE Join
  BY <1>11 DEF ArenaTypes, pvars, Join, Working
<1>12. CASE InterruptedInSerial \/ Breaks \/ Fails \/ Cancelled
  BY <1>12 DEF ArenaTypes, pvars, InterruptedInSerial, Breaks, Fails, Cancelled
<1>13. CASE Cancels /\ UNCHANGED avars
  <2>1. CASE Groups = {}
    <3>1. Flag \/ Look \/ Settle
      BY <1>13, <2>1 DEF Cancels
    <3>2. RunnerTypes
      BY RunnerFrame
    <3>3. CASE Flag
      <4>1. RunnerTypes'
        BY <3>2, <3>3 DEF RunnerTypes, Flag
      <4> QED BY <1>13, <4>1, RunnerFrame
    <3>4. CASE Look
      <4>1. RunnerTypes'
        BY <3>2, <3>4 DEF RunnerTypes, Look
      <4> QED BY <1>13, <4>1, RunnerFrame
    <3>5. CASE Settle
      <4>1. RunnerTypes'
        BY <3>2, <3>5 DEF RunnerTypes, Settle
      <4> QED BY <1>13, <4>1, RunnerFrame
    <3> QED BY <3>1, <3>3, <3>4, <3>5
  <2>2. CASE Groups # {}
    BY <1>13, <2>2, RunnerKeepsTypes
  <2> QED BY <2>1, <2>2
<1>14. ASSUME NEW g \in Groups, Exits(g) \/ Reused(g), UNCHANGED avars
       PROVE  ArenaTypes'
  BY <1>14, RunnerKeepsTypes
<1> QED
  BY <1>1, <1>2, <1>3, <1>4, <1>5, <1>6, <1>7, <1>8, <1>9, <1>10, <1>11, <1>12, <1>13, <1>14,
     <1>15
  DEF Next, Coordinator, Environment, Thread

-------------------------------------------------------------------------------
(* Threads and calls *)

\* Most of the coordinator's steps only go on: the phase stays.
Proceeds == main'.phase = main.phase /\ main'.round = main.round

Onward ==
  Freeze \/ Evaluate \/ Score \/ Judges \/ Export \/ Report \/ ThreadRaised
  \/ InterruptedInParallel \/ InterruptedInSerial \/ Breaks \/ Fails \/ CancelsAgain \/ Cancelled

LEMMA OnwardProceeds ==
  ASSUME ArenaTypes, Onward
  PROVE  /\ Proceeds /\ UNCHANGED <<thread, calls, registry, cancelled>>
         /\ main'.pc \in {"parallel", "cancelling"} <=> main.pc \in {"parallel", "cancelling"}
         /\ main'.pc \in {"parallel", "freezing"} => main.pc \in {"parallel", "freezing"}
<1> USE DEF ArenaTypes, Proceeds, pvars
<1>1. CASE Freeze
  BY <1>1 DEF Freeze
<1>2. CASE Evaluate
  <2>1. main' = [main EXCEPT !.pc = IF main.round < Rounds THEN "round" ELSE "scoring"]
    BY <1>2 DEF Evaluate
  <2>2. UNCHANGED <<thread, calls, registry, cancelled>> /\ main.pc = "evaluating"
    BY <1>2 DEF Evaluate, LeftBehind
  <2> QED BY <2>1, <2>2
<1>3. CASE Score \/ Judges \/ Export \/ Report
  BY <1>3 DEF Score, Judges, LeftBehind, Export, Report
<1>4. CASE ThreadRaised \/ InterruptedInParallel
  BY <1>4 DEF ThreadRaised, InterruptedInParallel, Cancelling
<1>6. CASE CancelsAgain
  BY <1>6 DEF CancelsAgain, Cancelling
<1>5. CASE InterruptedInSerial \/ Breaks \/ Fails \/ Cancelled
  BY <1>5 DEF InterruptedInSerial, Breaks, Fails, Cancelled, Serial
<1> QED BY <1>1, <1>2, <1>3, <1>4, <1>5, <1>6 DEF Onward

LEMMA CallsKept ==
  ASSUME ArenaAssumption, ArenaInvariant, Next
  PROVE  CallsAreOfThreads'
<1> USE DEF ArenaInvariant
<1>1. ASSUME UNCHANGED <<calls, thread>>, Proceeds,
             main'.pc \in {"parallel", "cancelling"} <=> main.pc \in {"parallel", "cancelling"}
      PROVE  CallsAreOfThreads'
  <2>1. \A e \in Engineers : Group(e)' = Group(e)
    BY <1>1 DEF Proceeds, Group
  <2> QED BY <1>1, <2>1 DEF CallsAreOfThreads
<1>2. ASSUME UNCHANGED <<calls, avars>>
      PROVE  CallsAreOfThreads'
  BY <1>1, <1>2 DEF avars, Proceeds, CallsAreOfThreads
<1>3. ASSUME NEW e \in Engineers, Take(e)
      PROVE  CallsAreOfThreads'
  <2>1. /\ thread[e] = "queued" /\ \A f \in Engineers : f # e => thread'[f] = thread[f]
        /\ UNCHANGED <<calls, main>>
    BY <1>3 DEF Take, pvars, ArenaTypes
  <2>2. main.pc \in {"parallel", "cancelling"}
    BY <2>1 DEF CallsAreOfThreads
  <2> QED BY <2>1, <2>2 DEF CallsAreOfThreads, Group
<1>4. ASSUME NEW e \in Engineers, RunsProvider(e)
      PROVE  CallsAreOfThreads'
  <2>1. Group(e) \in Groups /\ UNCHANGED avars
    BY <1>4, GroupFacts DEF RunsProvider
  <2>2. \A g \in Groups : g # Group(e) => calls'[g] = calls[g]
    BY <1>4 DEF RunsProvider, Check, Spawn, Leave, ArenaTypes
  <2> QED BY <1>4, <2>1, <2>2 DEF RunsProvider, avars, CallsAreOfThreads, Group
<1>5. ASSUME NEW e \in Engineers, Answers(e)
      PROVE  CallsAreOfThreads'
  <2>1. Group(e) \in Groups /\ UNCHANGED main
    BY <1>5, GroupFacts DEF Answers
  <2>2. /\ calls' = [calls EXCEPT ![Group(e)] = "idle"]
        /\ thread' = [thread EXCEPT ![e] = "done"]
    BY <1>5 DEF Answers
  <2>3. ASSUME NEW g \in Groups, calls'[g] # "idle"
        PROVE  \E f \in Engineers : g = Group(f)' /\ thread'[f] = "running"
    <3>1. g # Group(e) /\ calls[g] # "idle"
      BY <2>1, <2>2, <2>3 DEF ArenaTypes
    <3>2. PICK f \in Engineers : g = Group(f) /\ thread[f] = "running"
      BY <3>1 DEF CallsAreOfThreads
    <3>3. f # e
      BY <3>1, <3>2
    <3> QED BY <2>1, <2>2, <3>2, <3>3 DEF Group, ArenaTypes
  <2>4. main'.pc \notin {"parallel", "cancelling"} =>
          \A f \in Engineers : thread'[f] \notin {"queued", "running"}
    BY <2>1, <2>2 DEF CallsAreOfThreads, ArenaTypes
  <2> QED BY <2>3, <2>4 DEF CallsAreOfThreads
<1>6. ASSUME \A e \in Engineers : thread[e] # "running", UNCHANGED calls,
             main'.pc \notin {"parallel", "cancelling"} =>
               \A e \in Engineers : thread'[e] \notin {"queued", "running"}
      PROVE  CallsAreOfThreads'
  BY <1>6 DEF CallsAreOfThreads
<1>7. CASE Collect
  <2>1. \A e \in Engineers : thread[e] \in {"off", "done"}
    BY <1>7 DEF Collect
  <2>2. UNCHANGED calls
    BY <1>7 DEF Collect, pvars
  <2>3. main'.pc = "parallel" \/ UNCHANGED thread
    BY <1>7 DEF Collect, Begins, ArenaTypes
  <2> QED BY <1>6, <2>1, <2>2, <2>3
<1>8. CASE NextRound
  <2>1. \A e \in Engineers : thread[e] # "running"
    BY <1>8 DEF NextRound, CallsAreOfThreads
  <2>2. UNCHANGED calls /\ main'.pc = "parallel"
    BY <1>8 DEF NextRound, pvars, Begins, ArenaTypes
  <2> QED BY <1>6, <2>1, <2>2
<1>9. CASE Join
  <2>1. /\ \A e \in Engineers : thread[e] # "running"
        /\ thread' = [e \in Engineers |-> IF thread[e] = "queued" THEN "off" ELSE thread[e]]
        /\ UNCHANGED calls
    BY <1>9 DEF Join, pvars
  <2> QED BY <1>6, <2>1
<1>10. CASE Onward
  BY <1>1, <1>10, OnwardProceeds
<1>11. CASE Cancels /\ UNCHANGED avars
  BY <1>2, <1>11 DEF Cancels, Flag, Look, StopOne, Settle
<1>12. ASSUME NEW g \in Groups, Exits(g) \/ Reused(g), UNCHANGED avars
       PROVE  CallsAreOfThreads'
  BY <1>2, <1>12 DEF Exits, Reused
<1> QED
  BY <1>3, <1>4, <1>5, <1>7, <1>8, <1>9, <1>10, <1>11, <1>12
  DEF Next, Coordinator, Environment, Thread, Onward

LEMMA StartsKept ==
  ASSUME ArenaAssumption, ArenaInvariant, Next
  PROVE  StartsAreAlone'
<1> USE DEF ArenaInvariant
<1>1. ASSUME UNCHANGED <<calls, registry>>
      PROVE  StartsAreAlone'
  BY <1>1 DEF StartsAreAlone
<1>2. ASSUME NEW g \in Groups, Check(g) \/ Spawn(g) \/ Leave(g)
      PROVE  StartsAreAlone'
  <2>1. CASE Check(g)
    BY <1>2, <2>1 DEF StartsAreAlone, Check, ArenaTypes
  <2>2. CASE Spawn(g)
    BY <1>2, <2>2 DEF StartsAreAlone, Spawn, ArenaTypes
  <2>3. CASE Leave(g)
    <3>1. PICK why \in Over : calls' = [calls EXCEPT ![g] = why]
      BY <2>3 DEF Leave, Over
    <3>2. why # "checked" /\ calls[g] # "checked" /\ UNCHANGED registry
      BY <2>3, <3>1 DEF Leave, Over
    <3> QED BY <3>1, <3>2 DEF StartsAreAlone, ArenaTypes
  <2> QED BY <1>2, <2>1, <2>2, <2>3
<1>3. ASSUME NEW e \in Engineers, RunsProvider(e)
      PROVE  StartsAreAlone'
  BY <1>2, <1>3, GroupFacts DEF RunsProvider
<1>4. ASSUME NEW e \in Engineers, Answers(e)
      PROVE  StartsAreAlone'
  <2>1. /\ calls' = [calls EXCEPT ![Group(e)] = "idle"] /\ calls[Group(e)] \in Over
        /\ UNCHANGED registry
    BY <1>4 DEF Answers
  <2> QED BY <2>1 DEF StartsAreAlone, Over, ArenaTypes
<1>5. ASSUME NEW e \in Engineers, Take(e)
      PROVE  StartsAreAlone'
  BY <1>1, <1>5 DEF Take, pvars
<1>6. CASE Collect \/ NextRound \/ Join
  BY <1>1, <1>6 DEF Collect, NextRound, Join, pvars
<1>7. CASE Onward
  BY <1>1, <1>7, OnwardProceeds
<1>8. CASE Cancels /\ UNCHANGED avars
  BY <1>1, <1>8 DEF Cancels, Flag, Look, StopOne, Settle
<1>9. ASSUME NEW g \in Groups, Exits(g) \/ Reused(g), UNCHANGED avars
      PROVE  StartsAreAlone'
  BY <1>1, <1>9 DEF Exits, Reused
<1> QED
  BY <1>3, <1>4, <1>5, <1>6, <1>7, <1>8, <1>9
  DEF Next, Coordinator, Environment, Thread, Onward

\* A check or a judge that may still run is one nobody's call is about.
LEMMA StraysAreLeft ==
  ASSUME ArenaAssumption, ArenaInvariant, Evaluate \/ Judges
  PROVE  \E left \in SUBSET Groups :
           /\ \A g \in left : calls[g] = "idle" /\ g[2] \in {"check", "judge"} /\ g[3] = main.round
           /\ LeftBehind(left)
<1> USE DEF ArenaInvariant
<1>1. \A g \in Groups : calls[g] = "idle"
  BY DEF Evaluate, Judges, CallsAreOfThreads
<1>2. CASE Evaluate
  <2>1. PICK stray \in SUBSET Engineers : LeftBehind({CheckGroup(e) : e \in stray})
    BY <1>2 DEF Evaluate
  <2> DEFINE left == {CheckGroup(e) : e \in stray}
  <2>2. left \in SUBSET Groups /\ \A g \in left : g[2] = "check" /\ g[3] = main.round
    BY GroupFacts
  <2>3. LeftBehind(left)
    BY <2>1
  <2> HIDE DEF left
  <2> QED BY <1>1, <2>2, <2>3
<1>3. CASE Judges
  <2>1. CASE UNCHANGED pvars
    <3>1. LeftBehind({})
      BY <2>1 DEF LeftBehind, pvars, ArenaTypes
    <3> QED BY <3>1
  <2>2. ASSUME NEW e \in Engineers, LeftBehind({JudgeGroup(e)})
        PROVE  \E left \in SUBSET Groups :
                 /\ \A g \in left : calls[g] = "idle" /\ g[2] \in {"check", "judge"}
                                   /\ g[3] = main.round
                 /\ LeftBehind(left)
    <3>1. JudgeGroup(e) \in Groups /\ JudgeGroup(e)[2] = "judge" /\ JudgeGroup(e)[3] = main.round
      BY GroupFacts
    <3> QED BY <1>1, <2>2, <3>1
  <2> QED BY <1>3, <2>1, <2>2 DEF Judges
<1> QED BY <1>2, <1>3

\* What becomes of the groups: most steps leave them alone.
LEMMA FutureKept ==
  ASSUME ArenaAssumption, ArenaInvariant, Next
  PROVE  FutureIsUntouched'
<1> USE DEF ArenaInvariant
<1>1. \A e \in Engineers :
        /\ Group(e)' \in Groups /\ Group(e)'[2] = main'.phase /\ Group(e)'[3] = main'.round
  BY TypesKept DEF ArenaTypes, ArenaAssumption, Group, Phases
<1>2. \A e \in Engineers : /\ Group(e) \in Groups /\ Group(e)[1] = e
                           /\ Group(e)[2] = main.phase /\ Group(e)[3] = main.round
  BY GroupFacts
<1>3. ASSUME Proceeds, UNCHANGED <<os, term, calls, thread>>
      PROVE  FutureIsUntouched'
  BY <1>3 DEF Proceeds, FutureIsUntouched, Untouched, Group
<1>4. ASSUME NEW e \in Engineers, Take(e)
      PROVE  FutureIsUntouched'
  <2>1. /\ UNCHANGED <<os, term, calls, main>> /\ thread[e] = "queued"
        /\ \A f \in Engineers : f # e => thread'[f] = thread[f]
    BY <1>4 DEF Take, pvars, ArenaTypes
  <2> QED BY <2>1 DEF FutureIsUntouched, Untouched, Group
<1>5. ASSUME NEW e \in Engineers, RunsProvider(e)
      PROVE  FutureIsUntouched'
  <2>1. /\ UNCHANGED <<main, thread>> /\ thread[e] = "running"
        /\ \A f \in Engineers : Group(f)' = Group(f)
    BY <1>5 DEF RunsProvider, avars, Group
  <2>2. \A g \in Groups : g # Group(e) =>
          os'[g] = os[g] /\ term'[g] = term[g] /\ calls'[g] = calls[g]
    <3>1. CASE Check(Group(e))
      BY <3>1 DEF Check, ArenaTypes
    <3>2. CASE Spawn(Group(e))
      BY <3>2 DEF Spawn, ArenaTypes
    <3>3. CASE Leave(Group(e))
      BY <3>3 DEF Leave, ArenaTypes
    <3> QED BY <1>5, <3>1, <3>2, <3>3 DEF RunsProvider
  <2>3. \A f \in Engineers : Group(f) = Group(e) => f = e
    BY <1>2
  <2>4. main.phase # "revise" \/ main.phase # "review"
    OBVIOUS
  <2>5. calls'[Group(e)] \in {"idle", "checked"} =>
          calls[Group(e)] \in {"idle", "checked"} /\ UNCHANGED <<os, term>>
    <3>1. CASE Check(Group(e))
      BY <3>1 DEF Check
    <3>0. DOMAIN calls = Groups /\ Group(e) \in Groups
      BY <1>2 DEF ArenaTypes
    <3>2. CASE Spawn(Group(e))
      <4>1. calls' = [calls EXCEPT ![Group(e)] = "running"]
        BY <3>2 DEF Spawn
      <4> QED BY <3>0, <4>1
    <3>3. CASE Leave(Group(e))
      <4>1. \E over \in {"ended", "timed out", "interrupted", "unconfirmed"} :
              calls' = [calls EXCEPT ![Group(e)] = over]
        BY <3>3 DEF Leave
      <4> QED BY <3>0, <4>1
    <3> QED BY <1>5, <3>1, <3>2, <3>3 DEF RunsProvider
  <2>6. ASSUME NEW g \in Groups, g[3] > main.round
        PROVE  Untouched(g)'
    <3>1. g # Group(e)
      BY <1>2, <2>6 DEF ArenaTypes
    <3> QED BY <2>2, <2>6, <3>1 DEF FutureIsUntouched, Untouched
  <2>7. ASSUME NEW g \in Groups, g[2] = "revise", g[3] = main.round, main.phase = "review"
        PROVE  Untouched(g)'
    <3>1. g # Group(e)
      BY <1>2, <2>7
    <3> QED BY <2>2, <2>7, <3>1 DEF FutureIsUntouched, Untouched
  <2>8. ASSUME NEW f \in Engineers,
               thread'[f] = "queued"
                 \/ (thread'[f] = "running" /\ calls'[Group(f)] \in {"idle", "checked"})
        PROVE  Untouched(Group(f))'
    <3>1. CASE f = e
      BY <1>2, <2>1, <2>5, <2>8, <3>1 DEF FutureIsUntouched, Untouched
    <3>2. CASE f # e
      BY <1>2, <2>1, <2>2, <2>3, <2>8, <3>2 DEF FutureIsUntouched, Untouched
    <3> QED BY <3>1, <3>2
  <2> QED BY <2>1, <2>6, <2>7, <2>8 DEF FutureIsUntouched
<1>6. ASSUME NEW e \in Engineers, Answers(e)
      PROVE  FutureIsUntouched'
  <2>1. /\ UNCHANGED <<os, term, main>> /\ thread' = [thread EXCEPT ![e] = "done"]
        /\ calls' = [calls EXCEPT ![Group(e)] = "idle"]
    BY <1>6 DEF Answers
  <2>2. \A f \in Engineers : f # e =>
          thread'[f] = thread[f] /\ calls'[Group(f)] = calls[Group(f)]
    BY <1>2, <2>1 DEF ArenaTypes
  <2>3. thread'[e] = "done"
    BY <2>1 DEF ArenaTypes
  <2> QED BY <2>1, <2>2, <2>3 DEF FutureIsUntouched, Untouched, Group
<1>7. ASSUME UNCHANGED <<os, term>>, \A e \in Engineers : thread[e] # "running",
             main'.phase # "review" \/ main'.round > main.round,
             main'.round >= main.round,
             \A e \in Engineers : thread'[e] # "running" /\ (thread'[e] = "queued" =>
               main'.round > main.round
                 \/ (main'.round = main.round /\ main'.phase = "revise" /\ main.phase = "review"))
      PROVE  FutureIsUntouched'
  <2>1. ASSUME NEW g \in Groups, g[3] > main'.round
        PROVE  Untouched(g)'
    <3>1. g[3] > main.round
      BY <1>7, <2>1, TypesKept DEF ArenaTypes, ArenaAssumption
    <3> QED BY <1>7, <3>1 DEF FutureIsUntouched, Untouched
  <2>2. ASSUME NEW g \in Groups, g[2] = "revise", g[3] = main'.round, main'.phase = "review"
        PROVE  Untouched(g)'
    BY <1>7, <2>2 DEF FutureIsUntouched, Untouched
  <2>3. ASSUME NEW f \in Engineers, thread'[f] \in {"queued", "running"}
        PROVE  os'[Group(f)'] = "none" /\ term'[Group(f)'] = "none"
    BY <1>1, <1>7, <2>3 DEF FutureIsUntouched, Untouched
  <2> QED BY <2>1, <2>2, <2>3 DEF FutureIsUntouched, Untouched
<1>8. CASE Collect
  <2>1. /\ UNCHANGED <<os, term, calls>> /\ \A e \in Engineers : thread[e] \in {"off", "done"}
        /\ main'.round = main.round
    BY <1>8 DEF Collect, pvars, Begins, ArenaTypes
  <2>2. CASE main.phase = "review"
    <3>1. main'.phase = "revise" /\ \A e \in Engineers : thread'[e] \in {"queued", "off"}
      BY <1>8, <2>2 DEF Collect, Begins, ArenaTypes
    <3> QED BY <1>7, <2>1, <2>2, <3>1 DEF ArenaTypes, ArenaAssumption
  <2>3. CASE main.phase # "review"
    <3>1. Proceeds /\ UNCHANGED thread
      BY <1>8, <2>1, <2>3 DEF Collect, Proceeds, ArenaTypes
    <3> QED BY <1>3, <2>1, <3>1
  <2> QED BY <2>2, <2>3
<1>9. CASE NextRound
  <2>1. /\ UNCHANGED <<os, term, calls>>
        /\ \A e \in Engineers : thread[e] \notin {"queued", "running"}
    BY <1>9 DEF NextRound, pvars, CallsAreOfThreads
  <2>2. /\ main'.round = main.round + 1 /\ main.round \in Nat
        /\ \A e \in Engineers : thread'[e] \in {"queued", "off"}
    BY <1>9 DEF NextRound, Begins, ArenaTypes, ArenaAssumption
  <2>3. main'.round > main.round /\ main'.round >= main.round
    BY <2>2
  <2> QED BY <1>7, <2>1, <2>2, <2>3
<1>10. CASE Join
  <2>1. /\ UNCHANGED <<os, term, calls>> /\ Proceeds
        /\ \A e \in Engineers : thread[e] # "running"
        /\ \A e \in Engineers : thread'[e] \notin {"queued", "running"}
    BY <1>10 DEF Join, pvars, Proceeds, ArenaTypes
  <2> QED BY <2>1 DEF FutureIsUntouched, Proceeds, Untouched, Group
<1>11. CASE Evaluate \/ Judges
  <2>1. Proceeds /\ UNCHANGED <<calls, thread>>
    BY <1>11, OnwardProceeds DEF Onward
  <2>2. \A g \in Groups : g[2] \notin {"check", "judge"} \/ g[3] # main.round =>
          os'[g] = os[g] /\ term'[g] = term[g]
    BY <1>11, StraysAreLeft DEF LeftBehind
  <2>3. \A e \in Engineers : Group(e)' = Group(e) /\ Group(e)[2] \notin {"check", "judge"}
    BY <1>2, <2>1 DEF Proceeds, Group, ArenaTypes, Phases
  <2> QED BY <1>2, <2>1, <2>2, <2>3 DEF FutureIsUntouched, Untouched, Proceeds, ArenaTypes, ArenaAssumption
<1>12. CASE Onward /\ ~Evaluate /\ ~Judges
  <2>1. UNCHANGED <<os, term>>
    BY <1>12 DEF Onward, Freeze, Score, Export, Report, ThreadRaised, InterruptedInParallel,
                 InterruptedInSerial, Breaks, Fails, CancelsAgain, Cancelled, Cancelling, pvars
  <2> QED BY <1>3, <1>12, <2>1, OnwardProceeds
<1>13. CASE (Flag \/ Look \/ Settle) /\ UNCHANGED avars
  BY <1>3, <1>13 DEF Flag, Look, Settle, avars, Proceeds
<1>14. ASSUME NEW g \in Groups, StopOne(g) \/ Exits(g) \/ Reused(g), UNCHANGED avars
       PROVE  FutureIsUntouched'
  <2>1. /\ UNCHANGED <<calls, main, thread>> /\ \A e \in Engineers : Group(e)' = Group(e)
        /\ \A h \in Groups : h # g => os'[h] = os[h] /\ term'[h] = term[h]
    BY <1>14 DEF StopOne, Exits, Reused, avars, Group, ArenaTypes
  <2>2. ~Untouched(g)
    BY <1>14 DEF Untouched, StopOne, Exits, Reused, StopsAreTrue
  <2>3. \A h \in Groups : Untouched(h) => os'[h] = "none" /\ term'[h] = "none"
    BY <2>1, <2>2 DEF Untouched
  <2> QED BY <1>2, <2>1, <2>3 DEF FutureIsUntouched, Untouched
<1> QED
  BY <1>4, <1>5, <1>6, <1>8, <1>9, <1>10, <1>11, <1>12, <1>13, <1>14
  DEF Next, Coordinator, Environment, Thread, Onward, Cancels

-------------------------------------------------------------------------------
(* Stopping *)

\* The groups a step of the runner, or of the environment, touches: one, or those a check left.
LEMMA StopsKeptByRunner ==
  ASSUME ArenaAssumption, ArenaInvariant, NEW g \in Groups,
         \/ Check(g)
         \/ Spawn(g) /\ Untouched(g)
         \/ Leave(g) \/ StopOne(g) \/ Exits(g) \/ Reused(g)
  PROVE  StopsAreTrue'
<1> USE DEF ArenaInvariant
<1>1. CASE Check(g)
  BY <1>1 DEF Check, StopsAreTrue, ArenaTypes
<1>2. CASE Spawn(g) /\ Untouched(g)
  BY <1>2 DEF Spawn, Untouched, StopsAreTrue, ArenaTypes, Live
<1>3. ASSUME NEW stop \in Stops(g)
      PROVE  /\ stop.os \in Live => stop.term # "none"
             /\ stop.term = "confirmed" => stop.os = "gone"
             /\ os[g] # "none" => stop.os # "none"
             /\ stop.os \in Live => os[g] \in Live
             /\ stop.os \in Live => stop.term = "unconfirmed"
  BY <1>3 DEF Stops, StopsAreTrue, ArenaTypes, Live
<1>4. CASE Leave(g)
  <2>1. PICK stop \in Stops(g) :
          /\ os' = [os EXCEPT ![g] = stop.os]
          /\ term' = [term EXCEPT ![g] = stop.term]
          /\ active' = Forgotten(g, stop)
    BY <1>4 DEF Leave
  <2>2. UNCHANGED canceller /\ \A h \in Groups : h # g => calls'[h] = calls[h]
    BY <1>4 DEF Leave, ArenaTypes
  <2>3. stop.os \in Live => g \in active'
    BY <1>3, <2>1 DEF Forgotten, StopsAreTrue
  <2>4. active' \subseteq active /\ active \ {g} \subseteq active'
    BY <2>1 DEF Forgotten
  <2>5. ASSUME NEW h \in Groups
        PROVE  /\ os'[h] \in Live => h \in active'
               /\ os'[h] \in Live /\ term'[h] = "none" => calls'[h] = "running"
               /\ term'[h] = "confirmed" => os'[h] = "gone"
               /\ h \in active' \cup canceller'.left => os'[h] # "none"
    <3>1. CASE h = g
      <4>1. os'[g] = stop.os /\ term'[g] = stop.term
        BY <2>1 DEF ArenaTypes
      <4> QED BY <1>3, <2>2, <2>3, <2>4, <3>1, <4>1 DEF StopsAreTrue
    <3>2. CASE h # g
      <4>1. os'[h] = os[h] /\ term'[h] = term[h]
        BY <2>1, <3>2 DEF ArenaTypes
      <4> QED BY <2>2, <2>4, <3>2, <4>1 DEF StopsAreTrue
    <3> QED BY <3>1, <3>2
  <2> QED BY <2>5 DEF StopsAreTrue
<1>5. CASE StopOne(g)
  <2>1. PICK stop \in Stops(g) :
          /\ os' = [os EXCEPT ![g] = stop.os]
          /\ term' = [term EXCEPT ![g] = stop.term]
          /\ canceller' = [canceller EXCEPT !.left = @ \ {g},
                                            !.failed = @ \/ stop.term = "unconfirmed"]
    BY <1>5 DEF StopOne
  <2>2. UNCHANGED <<active, calls>> /\ canceller'.left \subseteq canceller.left
    BY <1>5, <2>1 DEF StopOne, ArenaTypes
  <2>3. ASSUME NEW h \in Groups
        PROVE  /\ os'[h] \in Live => h \in active'
               /\ os'[h] \in Live /\ term'[h] = "none" => calls'[h] = "running"
               /\ term'[h] = "confirmed" => os'[h] = "gone"
               /\ h \in active' \cup canceller'.left => os'[h] # "none"
    <3>1. CASE h = g
      <4>1. os'[g] = stop.os /\ term'[g] = stop.term
        BY <2>1 DEF ArenaTypes
      <4>2. os[g] # "none"
        BY <1>5 DEF StopOne, StopsAreTrue
      <4> QED BY <1>3, <2>2, <3>1, <4>1, <4>2 DEF StopsAreTrue
    <3>2. CASE h # g
      <4>1. os'[h] = os[h] /\ term'[h] = term[h]
        BY <2>1, <3>2 DEF ArenaTypes
      <4> QED BY <2>2, <3>2, <4>1 DEF StopsAreTrue
    <3> QED BY <3>1, <3>2
  <2> QED BY <2>3 DEF StopsAreTrue
<1>6. CASE Exits(g)
  BY <1>6 DEF Exits, StopsAreTrue, ArenaTypes, Live
<1>7. CASE Reused(g)
  BY <1>7 DEF Reused, StopsAreTrue, ArenaTypes, Live
<1> QED BY <1>1, <1>2, <1>4, <1>5, <1>6, <1>7

LEMMA StopsKept ==
  ASSUME ArenaAssumption, ArenaInvariant, Next
  PROVE  StopsAreTrue'
<1> USE DEF ArenaInvariant
<1>1. ASSUME UNCHANGED <<active, os, term, calls>>, canceller'.left \subseteq canceller.left \cup active
      PROVE  StopsAreTrue'
  BY <1>1 DEF StopsAreTrue
<1>2. ASSUME NEW e \in Engineers, RunsProvider(e)
      PROVE  StopsAreTrue'
  <2>1. Group(e) \in Groups
    BY GroupFacts
  <2>2. Spawn(Group(e)) => Untouched(Group(e))
    BY <1>2 DEF RunsProvider, Spawn, FutureIsUntouched
  <2> QED BY <1>2, <2>1, <2>2, StopsKeptByRunner DEF RunsProvider
<1>3. ASSUME NEW e \in Engineers, Answers(e)
      PROVE  StopsAreTrue'
  <2>1. /\ calls' = [calls EXCEPT ![Group(e)] = "idle"] /\ calls[Group(e)] \in Over
        /\ UNCHANGED <<active, os, term, canceller>> /\ Group(e) \in Groups
    BY <1>3, GroupFacts DEF Answers
  <2>2. calls[Group(e)] # "running"
    BY <2>1 DEF Over
  <2>3. \A g \in Groups : calls[g] = "running" => calls'[g] = "running"
    BY <2>1, <2>2 DEF ArenaTypes
  <2> QED BY <2>1, <2>3 DEF StopsAreTrue
<1>4. ASSUME NEW e \in Engineers, Take(e)
      PROVE  StopsAreTrue'
  BY <1>1, <1>4 DEF Take, pvars
<1>5. CASE Collect \/ NextRound \/ Join
  BY <1>1, <1>5 DEF Collect, NextRound, Join, pvars
<1>6. CASE Evaluate \/ Judges
  BY <1>6, StraysAreLeft DEF LeftBehind, StopsAreTrue, Live, ArenaTypes
<1>7. CASE Freeze \/ Score \/ Export \/ Report \/ Join \/ InterruptedInSerial \/ Breaks
           \/ Fails \/ Cancelled
  BY <1>1, <1>7 DEF Freeze, Score, Export, Report, Join, InterruptedInSerial, Breaks, Fails,
                    Cancelled, pvars
<1>8. CASE ThreadRaised \/ InterruptedInParallel \/ CancelsAgain
  BY <1>1, <1>8 DEF ThreadRaised, InterruptedInParallel, CancelsAgain, Cancelling
<1>9. CASE (Flag \/ Look \/ Settle) /\ UNCHANGED avars
  BY <1>1, <1>9 DEF Flag, Look, Settle, ArenaTypes
<1>10. ASSUME NEW g \in Groups, StopOne(g) \/ Exits(g) \/ Reused(g)
       PROVE  StopsAreTrue'
  BY <1>10, StopsKeptByRunner
<1> QED
  BY <1>2, <1>3, <1>4, <1>5, <1>6, <1>7, <1>8, <1>9, <1>10
  DEF Next, Coordinator, Environment, Thread, Cancels

LEMMA CancelKept ==
  ASSUME ArenaAssumption, ArenaInvariant, Next
  PROVE  CancelReaches'
<1> USE DEF ArenaInvariant
<1> DEFINE Far == {"cancelling", "raised", "handling", "ended"}
<1>1. ASSUME UNCHANGED <<cancelled, registry, os, canceller>>, main.pc \in Far => main'.pc \in Far
      PROVE  CancelReaches'
  BY <1>1 DEF CancelReaches
<1>2. ASSUME canceller.pc = "idle", UNCHANGED canceller
      PROVE  CancelReaches'
  BY <1>2 DEF CancelReaches
<1>3. ASSUME NEW e \in Engineers, RunsProvider(e)
      PROVE  CancelReaches'
  <2>1. UNCHANGED <<main, canceller, cancelled>> /\ Group(e) \in Groups
    BY <1>3, GroupFacts DEF RunsProvider, avars, Check, Spawn, Leave
  <2>2. CASE Check(Group(e))
    BY <2>1, <2>2 DEF Check, CancelReaches
  <2>3. CASE Spawn(Group(e))
    <3>1. registry # {} /\ registry' = {}
      BY <2>1, <2>3 DEF Spawn, StartsAreAlone
    <3> QED BY <2>1, <3>1 DEF CancelReaches
  <2>4. CASE Leave(Group(e))
    <3>1. PICK stop \in Stops(Group(e)) : os' = [os EXCEPT ![Group(e)] = stop.os]
      BY <2>4 DEF Leave
    <3>2. stop.os \in Live => os[Group(e)] \in Live
      BY <3>1 DEF Stops, Live
    <3>3. \A g \in Groups : os'[g] \in Live => os[g] \in Live
      BY <2>1, <3>1, <3>2 DEF ArenaTypes
    <3>4. UNCHANGED registry
      BY <2>4 DEF Leave
    <3> QED BY <2>1, <3>3, <3>4 DEF CancelReaches
  <2> QED BY <1>3, <2>2, <2>3, <2>4 DEF RunsProvider
<1>4. ASSUME NEW e \in Engineers, Answers(e)
      PROVE  CancelReaches'
  BY <1>1, <1>4 DEF Answers
<1>5. ASSUME NEW e \in Engineers, Take(e)
      PROVE  CancelReaches'
  BY <1>1, <1>5 DEF Take, pvars
<1>6. CASE Collect \/ NextRound \/ Freeze \/ Evaluate \/ Score \/ Judges \/ Export \/ Report
           \/ InterruptedInSerial \/ Breaks
  <2>1. main.pc \notin Far
    BY <1>6 DEF Collect, NextRound, Freeze, Evaluate, Score, Judges, Export, Report,
                InterruptedInSerial, Breaks, Serial
  <2>2. UNCHANGED canceller
    BY <1>6 DEF Collect, NextRound, Freeze, Evaluate, Score, Judges, LeftBehind, Export, Report,
                InterruptedInSerial, Breaks, pvars
  <2> QED BY <1>2, <2>1, <2>2 DEF CancelReaches
<1>7. CASE Join \/ Fails \/ Cancelled
  <2>1. main'.pc \in Far
    BY <1>7 DEF Join, Fails, Cancelled, ArenaTypes
  <2> QED BY <1>1, <1>7, <2>1 DEF Join, Fails, Cancelled, pvars
<1>8. CASE ThreadRaised \/ InterruptedInParallel \/ CancelsAgain
  <2>1. PICK pc \in {"cancelling", "handling"}, why \in {"error", "interrupt"} : Cancelling(pc, why)
    BY <1>8 DEF ThreadRaised, InterruptedInParallel, CancelsAgain
  <2>2. main'.pc \in Far /\ canceller'.pc = "asked"
    BY <2>1 DEF Cancelling, ArenaTypes
  <2> QED BY <2>2 DEF CancelReaches
<1>9. CASE Flag /\ UNCHANGED avars
  <2>1. canceller.pc = "asked" /\ canceller'.pc = "flagged" /\ cancelled' /\ UNCHANGED main
    BY <1>9 DEF Flag, avars, ArenaTypes
  <2> QED BY <2>1 DEF CancelReaches
<1>10. CASE Look /\ UNCHANGED avars
  <2>1. /\ canceller.pc = "flagged" /\ registry = {}
        /\ canceller'.pc = "stopping" /\ canceller'.left = active
        /\ UNCHANGED <<main, cancelled, registry, os>>
    BY <1>10 DEF Look, avars, ArenaTypes
  <2>2. \A g \in Groups : os[g] \in Live => g \in active
    BY DEF StopsAreTrue
  <2> QED BY <2>1, <2>2 DEF CancelReaches
<1>11. CASE Settle /\ UNCHANGED avars
  <2>1. /\ canceller.pc = "stopping" /\ canceller.left = {}
        /\ canceller'.pc = IF canceller.failed THEN "failed" ELSE "done"
        /\ UNCHANGED <<main, cancelled, registry, os>>
    BY <1>11 DEF Settle, avars, ArenaTypes
  <2> QED BY <2>1 DEF CancelReaches
<1>12. ASSUME NEW g \in Groups, StopOne(g), UNCHANGED avars
       PROVE  CancelReaches'
  <2>1. PICK stop \in Stops(g) :
          /\ os' = [os EXCEPT ![g] = stop.os]
          /\ canceller' = [canceller EXCEPT !.left = @ \ {g},
                                            !.failed = @ \/ stop.term = "unconfirmed"]
    BY <1>12 DEF StopOne
  <2>2. stop.os \in Live => stop.term = "unconfirmed"
    BY <2>1 DEF Stops, StopsAreTrue, ArenaTypes, Live
  <2>3. /\ canceller.pc = "stopping" /\ canceller'.pc = "stopping"
        /\ canceller'.left = canceller.left \ {g}
        /\ canceller.failed => canceller'.failed
        /\ stop.term = "unconfirmed" => canceller'.failed
        /\ UNCHANGED <<main, cancelled, registry>>
    BY <1>12, <2>1 DEF StopOne, avars, ArenaTypes
  <2>4. ASSUME NEW h \in Groups, os'[h] \in Live
        PROVE  h \in canceller'.left \/ canceller'.failed
    <3>1. CASE h = g
      BY <2>1, <2>2, <2>3, <2>4, <3>1 DEF ArenaTypes
    <3>2. CASE h # g
      BY <2>1, <2>3, <2>4, <3>2 DEF CancelReaches, ArenaTypes
    <3> QED BY <3>1, <3>2
  <2> QED BY <2>3, <2>4 DEF CancelReaches
<1>13. ASSUME NEW g \in Groups, Exits(g) \/ Reused(g), UNCHANGED avars
       PROVE  CancelReaches'
  <2>1. \A h \in Groups : os'[h] \in Live => os[h] \in Live
    BY <1>13 DEF Exits, Reused, Live, ArenaTypes
  <2>2. UNCHANGED <<main, cancelled, registry, canceller>>
    BY <1>13 DEF Exits, Reused, avars
  <2> QED BY <2>1, <2>2 DEF CancelReaches
<1> QED
  BY <1>3, <1>4, <1>5, <1>6, <1>7, <1>8, <1>9, <1>10, <1>11, <1>12, <1>13
  DEF Next, Coordinator, Environment, Thread, Cancels

-------------------------------------------------------------------------------
(* Candidates *)

\* What an evaluation writes.
LEMMA EvaluationsSay ==
  ASSUME ArenaAssumption, ArenaTypes, Evaluate, NEW e \in Engineers
  PROVE  /\ cand'[e].valid = cand[e].valid /\ cand'[e].ok = cand[e].ok
         /\ cand'[e].commit = cand[e].commit
         /\ main.round = Rounds /\ cand[e].valid /\ cand[e].ok =>
              cand'[e].evaluated = cand[e].commit
<1>1. cand[e] \in Candidates
  BY DEF ArenaTypes
<1>2. \E t, p, n :
        /\ cand'[e] = [cand[e] EXCEPT !.evaluated = t, !.passed = p, !.score = n]
        /\ main.round = Rounds /\ cand[e].valid /\ cand[e].ok => t = cand[e].commit
  <2>1. PICK stray \in {{}} \cup IF MayFail THEN {{f} : f \in Engineers} ELSE {},
             passed \in SUBSET Engineers, score \in [Engineers -> 0..MaxScore] :
          LET checked == {f \in Engineers : cand[f].valid /\ cand[f].ok}
              counted == IF main.round = Rounds THEN checked ELSE {}
          IN /\ stray \subseteq checked /\ passed \subseteq counted \ stray
             /\ \A f \in Engineers \ passed : score[f] = 0
             /\ cand' = [f \in Engineers |->
                  [cand[f] EXCEPT !.evaluated = IF f \in counted THEN cand[f].commit ELSE {},
                                  !.passed = f \in passed, !.score = score[f]]]
             /\ LeftBehind({CheckGroup(f) : f \in stray})
    BY DEF Evaluate
  <2> DEFINE checked == {f \in Engineers : cand[f].valid /\ cand[f].ok}
             counted == IF main.round = Rounds THEN checked ELSE {}
             tested == IF e \in counted THEN cand[e].commit ELSE {}
             found == e \in passed
  <2>2. cand'[e] = [cand[e] EXCEPT !.evaluated = tested, !.passed = found, !.score = score[e]]
    BY <2>1
  <2>3. main.round = Rounds /\ cand[e].valid /\ cand[e].ok => tested = cand[e].commit
    OBVIOUS
  <2> HIDE DEF tested, found
  <2> QED BY <2>2, <2>3
<1>3. PICK t, p, n :
        /\ cand'[e] = [cand[e] EXCEPT !.evaluated = t, !.passed = p, !.score = n]
        /\ main.round = Rounds /\ cand[e].valid /\ cand[e].ok => t = cand[e].commit
  BY <1>2
<1> QED BY <1>1, <1>3 DEF Candidates

LEMMA HeadsKept ==
  ASSUME ArenaAssumption, ArenaInvariant, Next
  PROVE  HeadsGrow'
<1> USE DEF ArenaInvariant
<1>1. ASSUME UNCHANGED <<head, cand, thread>>, Proceeds, main'.pc \in {main.pc, "raised", "cancelling",
                                                             "handling", "ended"}
      PROVE  HeadsGrow'
  BY <1>1 DEF HeadsGrow, Proceeds, Serial
<1>2. CASE UNCHANGED avars
  BY <1>1, <1>2 DEF avars, Proceeds
<1>3. ASSUME NEW e \in Engineers, Take(e)
      PROVE  HeadsGrow'
  <2>1. /\ UNCHANGED <<head, cand, main>> /\ thread[e] = "queued"
        /\ thread'[e] \in {"running", "raised"}
        /\ \A f \in Engineers : f # e => thread'[f] = thread[f]
    BY <1>3 DEF Take, ArenaTypes
  <2> QED BY <2>1 DEF HeadsGrow
<1>4. ASSUME NEW e \in Engineers, Answers(e)
      PROVE  HeadsGrow'
  <2>1. /\ UNCHANGED main /\ thread[e] = "running" /\ thread'[e] = "done"
        /\ \A f \in Engineers : f # e => thread'[f] = thread[f]
        /\ main.pc \in {"parallel", "cancelling"}
    BY <1>4 DEF Answers, ArenaTypes, CallsAreOfThreads
  <2>2. CASE main.phase = "review"
    <3>1. UNCHANGED <<head, cand>>
      BY <1>4, <2>2 DEF Answers
    <3> QED BY <2>1, <2>2, <3>1 DEF HeadsGrow, Serial
  <2>3. CASE main.phase # "review"
    <3>1. head' \in {head, [head EXCEPT ![e] = @ \ {main.round}]}
      BY <1>4, <2>3 DEF Answers
    <3>2. /\ head'[e] \in {head[e], head[e] \ {main.round}}
          /\ \A f \in Engineers : f # e => head'[f] = head[f]
      BY <3>1 DEF ArenaTypes
    <3>3. main.pc = "parallel" => head[e] = 0..main.round
      BY <2>1, <2>3 DEF HeadsGrow
    <3> QED BY <2>1, <2>3, <3>2, <3>3 DEF HeadsGrow, Serial
  <2> QED BY <2>2, <2>3
<1>5. CASE Collect
  <2>1. UNCHANGED head /\ main.pc = "parallel" /\ main'.round = main.round
    BY <1>5 DEF Collect, Begins, ArenaTypes
  <2>2. CASE main.phase = "review"
    <3>1. /\ UNCHANGED cand /\ main'.pc = "parallel" /\ main'.phase = "revise"
          /\ \A e \in Engineers : thread'[e] = IF TakesPart(e, "revise") THEN "queued" ELSE "off"
      BY <1>5, <2>2 DEF Collect, Begins, ArenaTypes
    <3>2. \A e \in Engineers : thread'[e] # "off" => thread'[e] = "queued" /\ head[e] = 0..main.round
      BY <2>1, <2>2, <3>1 DEF HeadsGrow, TakesPart
    <3> QED BY <2>1, <3>1, <3>2 DEF HeadsGrow, Serial
  <2>3. CASE main.phase # "review"
    <3>1. UNCHANGED thread /\ main'.pc = "freezing" /\ main'.phase = main.phase
      BY <1>5, <2>3 DEF Collect, ArenaTypes
    <3> QED BY <2>1, <2>3, <3>1 DEF HeadsGrow, Serial
  <2> QED BY <2>2, <2>3
<1>6. CASE Freeze
  <2>1. PICK good \in SUBSET {e \in Engineers : thread[e] = "done"} :
          cand' = [e \in Engineers |-> IF thread[e] = "done" THEN Frozen(e, e \in good)
                                       ELSE [cand[e] EXCEPT !.valid = FALSE]]
    BY <1>6 DEF Freeze
  <2>2. /\ head' = [e \in Engineers |-> IF cand'[e].valid THEN cand'[e].commit ELSE head[e]]
        /\ main.pc = "freezing" /\ main'.pc = "evaluating" /\ Proceeds
    BY <1>6, OnwardProceeds DEF Freeze, ArenaTypes, Onward
  <2>3. ASSUME NEW e \in Engineers, cand'[e].valid
        PROVE  cand'[e].commit = 0..(main.round + 1)
    <3>1. cand[e] \in Candidates
      BY DEF ArenaTypes
    <3>2. thread[e] = "done"
      <4>1. CASE thread[e] # "done"
        <5>1. cand'[e] = [cand[e] EXCEPT !.valid = FALSE]
          BY <2>1, <4>1
        <5> QED BY <2>3, <3>1, <5>1 DEF Candidates
      <4> QED BY <4>1
    <3>3. main.round \in head[e] /\ cand'[e].commit = head[e] \cup {main.round + 1}
      <4>1. cand'[e] = Frozen(e, e \in good)
        BY <2>1, <3>2
      <4> QED BY <2>3, <3>1, <4>1 DEF Frozen, Candidates
    <3>4. head[e] = 0..main.round
      BY <2>2, <3>2, <3>3 DEF HeadsGrow
    <3>5. (0..main.round) \cup {main.round + 1} = 0..(main.round + 1)
      BY DEF ArenaTypes, ArenaAssumption
    <3> QED BY <3>3, <3>4, <3>5
  <2>4. \A e \in Engineers : cand'[e].valid => head'[e] = cand'[e].commit
    BY <2>2
  <2>5. main'.round + 1 = main.round + 1
    BY <2>2 DEF Proceeds
  <2> QED BY <2>2, <2>3, <2>4, <2>5 DEF HeadsGrow, Serial
<1>7. CASE Evaluate
  <2>1. /\ UNCHANGED <<head, thread>> /\ main.pc = "evaluating" /\ Proceeds
        /\ main'.pc = IF main.round < Rounds THEN "round" ELSE "scoring"
    BY <1>7, OnwardProceeds DEF Evaluate, ArenaTypes, Onward
  <2>2. \A e \in Engineers : cand'[e].valid = cand[e].valid /\ cand'[e].commit = cand[e].commit
    BY <1>7, EvaluationsSay
  <2> QED BY <2>1, <2>2 DEF HeadsGrow, Proceeds, Serial
<1>8. CASE NextRound
  <2>1. /\ UNCHANGED <<head, cand>> /\ main.pc = "round"
        /\ main'.pc = "parallel" /\ main'.phase = "review" /\ main'.round = main.round + 1
    BY <1>8 DEF NextRound, Begins, ArenaTypes
  <2> QED BY <2>1 DEF HeadsGrow, Serial
<1>9. CASE Score \/ Judges \/ Export
  <2>1. /\ UNCHANGED <<head, cand, thread>> /\ main.pc \in Serial \ {"freezing"}
        /\ main'.pc \in {"judging", "exporting", "reporting"}
    BY <1>9 DEF Score, Judges, Export, Serial, ArenaTypes
  <2> QED BY <1>9, <2>1, OnwardProceeds DEF HeadsGrow, Proceeds, Onward, Serial
<1>10. CASE Report \/ ThreadRaised \/ InterruptedInParallel \/ InterruptedInSerial \/ Breaks
            \/ Fails \/ CancelsAgain \/ Cancelled
  <2>1. UNCHANGED <<head, cand, thread>>
    BY <1>10 DEF Report, ThreadRaised, InterruptedInParallel, InterruptedInSerial, Breaks, Fails,
                 CancelsAgain, Cancelled, Cancelling
  <2>2. main'.pc \in {"raised", "cancelling", "handling", "ended"}
    BY <1>10 DEF Report, ThreadRaised, InterruptedInParallel, InterruptedInSerial, Breaks, Fails,
                 CancelsAgain, Cancelled, Cancelling, ArenaTypes
  <2> QED BY <1>1, <1>10, <2>1, <2>2, OnwardProceeds DEF Onward
<1>11. CASE Join
  <2>1. main'.pc = "raised"
    BY <1>11 DEF Join, ArenaTypes
  <2> QED BY <2>1 DEF HeadsGrow, Serial
<1> QED
  BY <1>2, <1>3, <1>4, <1>5, <1>6, <1>7, <1>8, <1>9, <1>10, <1>11
  DEF Next, Coordinator, Environment, Thread, RunsProvider

\* An engineer who failed stays out: it takes part in no later phase.
LEMMA FailuresKept ==
  ASSUME ArenaAssumption, ArenaInvariant, Next
  PROVE  FailuresStay'
<1> USE DEF ArenaInvariant
<1>1. ASSUME UNCHANGED <<failed, cand, thread>>
      PROVE  FailuresStay'
  BY <1>1 DEF FailuresStay
<1>2. ASSUME NEW e \in Engineers, Take(e)
      PROVE  FailuresStay'
  <2>1. /\ UNCHANGED <<failed, cand>> /\ thread[e] = "queued"
        /\ \A f \in Engineers : f # e => thread'[f] = thread[f]
    BY <1>2 DEF Take, ArenaTypes
  <2> QED BY <2>1 DEF FailuresStay, ArenaTypes
<1>3. ASSUME NEW e \in Engineers, Answers(e)
      PROVE  FailuresStay'
  <2>1. /\ thread[e] = "running" /\ thread' = [thread EXCEPT ![e] = "done"]
        /\ e \notin failed
    BY <1>3 DEF Answers, FailuresStay
  <2>2. CASE main.phase = "review"
    <3>1. UNCHANGED <<cand, failed>>
      BY <1>3, <2>2 DEF Answers
    <3> QED BY <2>1, <3>1 DEF FailuresStay, ArenaTypes
  <2>3. CASE main.phase # "review"
    <3>1. PICK ok \in BOOLEAN :
            /\ cand' = [cand EXCEPT ![e].ok = ok]
            /\ failed' = IF ok THEN failed ELSE failed \cup {e}
      BY <1>3, <2>3 DEF Answers
    <3>2. cand'[e].ok = ok /\ \A f \in Engineers : f # e => cand'[f] = cand[f]
      BY <3>1 DEF ArenaTypes, Candidates
    <3> QED BY <2>1, <3>1, <3>2 DEF FailuresStay, ArenaTypes
  <2> QED BY <2>2, <2>3
<1>4. ASSUME UNCHANGED <<failed, cand>>, NEW phase, NEW round, Begins(phase, round)
      PROVE  FailuresStay'
  <2>1. \A e \in Engineers : ~cand[e].ok => thread'[e] = "off"
    BY <1>4 DEF Begins, TakesPart
  <2> QED BY <1>4, <2>1 DEF FailuresStay, ArenaTypes
<1>5. CASE Collect
  <2>1. CASE main.phase = "review"
    BY <1>4, <1>5, <2>1 DEF Collect
  <2>2. CASE main.phase # "review"
    <3> DEFINE out == {e \in Engineers : thread[e] = "off"}
    <3>1. /\ cand' = [e \in Engineers |-> IF e \in out THEN [cand[e] EXCEPT !.ok = FALSE] ELSE cand[e]]
          /\ failed' = failed \cup out /\ UNCHANGED thread
      BY <1>5, <2>2 DEF Collect
    <3>2. \A e \in Engineers : (e \in out => ~cand'[e].ok) /\ (e \notin out => cand'[e] = cand[e])
      BY <3>1 DEF ArenaTypes, Candidates
    <3>3. \A e \in out : thread[e] = "off"
      OBVIOUS
    <3> HIDE DEF out
    <3>4. ASSUME NEW e \in failed'
          PROVE  ~cand'[e].ok /\ thread'[e] \notin {"queued", "running"}
      <4>1. e \in Engineers
        BY <3>1, TypesKept DEF ArenaTypes
      <4>2. CASE e \in out
        BY <3>1, <3>2, <3>3, <4>1, <4>2
      <4>3. CASE e \notin out
        BY <3>1, <3>2, <4>1, <4>3 DEF FailuresStay
      <4> QED BY <4>2, <4>3
    <3> QED BY <3>4 DEF FailuresStay
  <2> QED BY <2>1, <2>2
<1>6. CASE Freeze
  <2>1. PICK good \in SUBSET {e \in Engineers : thread[e] = "done"} :
          cand' = [e \in Engineers |-> IF thread[e] = "done" THEN Frozen(e, e \in good)
                                       ELSE [cand[e] EXCEPT !.valid = FALSE]]
    BY <1>6 DEF Freeze
  <2>2. \A e \in Engineers : cand'[e].ok = cand[e].ok
    <3>1. ASSUME NEW e \in Engineers
          PROVE  cand'[e].ok = cand[e].ok
      <4>1. cand[e] \in Candidates
        BY DEF ArenaTypes
      <4>2. cand'[e] \in {Frozen(e, e \in good), [cand[e] EXCEPT !.valid = FALSE]}
        BY <2>1
      <4> QED BY <4>1, <4>2 DEF Frozen, Candidates
    <3> QED BY <3>1
  <2>3. UNCHANGED <<failed, thread>>
    BY <1>6 DEF Freeze
  <2> QED BY <2>2, <2>3 DEF FailuresStay, ArenaTypes
<1>7. CASE Evaluate
  <2>1. \A e \in Engineers : cand'[e].ok = cand[e].ok
    BY <1>7, EvaluationsSay
  <2>2. UNCHANGED <<failed, thread>>
    BY <1>7 DEF Evaluate
  <2> QED BY <2>1, <2>2 DEF FailuresStay, ArenaTypes
<1>8. CASE NextRound
  BY <1>4, <1>8 DEF NextRound
<1>9. CASE Join
  <2>1. /\ UNCHANGED <<failed, cand>>
        /\ thread' = [e \in Engineers |-> IF thread[e] = "queued" THEN "off" ELSE thread[e]]
    BY <1>9 DEF Join
  <2> QED BY <2>1 DEF FailuresStay, ArenaTypes
<1>10. CASE Score \/ Judges \/ Export \/ Report \/ ThreadRaised \/ InterruptedInParallel
            \/ InterruptedInSerial \/ Breaks \/ Fails \/ CancelsAgain \/ Cancelled
  BY <1>1, <1>10 DEF Score, Judges, Export, Report, ThreadRaised, InterruptedInParallel,
     InterruptedInSerial, Breaks, Fails, CancelsAgain, Cancelled, Cancelling
<1>11. CASE UNCHANGED avars
  BY <1>1, <1>11 DEF avars
<1> QED
  BY <1>2, <1>3, <1>5, <1>6, <1>7, <1>8, <1>9, <1>10, <1>11
  DEF Next, Coordinator, Environment, Thread, RunsProvider

-------------------------------------------------------------------------------
(* The decision *)

Within == IF Judge THEN Band ELSE 0

\* The decision looks at the candidates, and the run's end, only.
LEMMA DecisionRests ==
  ASSUME ArenaInvariant, UNCHANGED <<cand, winner, state, exported>>, Proceeds,
         main'.pc = main.pc \/ main'.pc \in {"raised", "handling"},
         main.pc # "ended" \/ UNCHANGED <<main, canceller>>,
         canceller'.pc = "done" \/ canceller.pc # "done" \/ main.pc # "ended"
  PROVE  DecisionIsProven'
<1>1. state \in {"failed", "cancelled"} => main.pc = "ended"
  BY DEF ArenaInvariant, DecisionIsProven
<1> QED
  BY <1>1 DEF ArenaInvariant, DecisionIsProven, Proceeds, Proven, Eligible

LEMMA DecisionKept ==
  ASSUME ArenaAssumption, ArenaInvariant, Next
  PROVE  DecisionIsProven'
<1> USE DEF ArenaInvariant
<1>1. \A e \in Engineers : cand[e].score \in Nat /\ cand[e] \in Candidates
  BY DEF ArenaTypes, Candidates, ArenaAssumption
<1>2. Within \in Nat
  BY DEF Within, ArenaAssumption
<1>3. ASSUME main.pc \in {"parallel", "cancelling", "freezing", "round"},
             UNCHANGED state,
             main'.pc \notin {"scoring", "judging", "exporting"}
      PROVE  DecisionIsProven'
  BY <1>3 DEF DecisionIsProven
<1>4. ASSUME NEW e \in Engineers, Take(e) \/ Answers(e) \/ RunsProvider(e)
      PROVE  DecisionIsProven'
  <2>1. thread[e] \in {"queued", "running"} /\ UNCHANGED <<state, main>>
    BY <1>4 DEF Take, Answers, RunsProvider, avars
  <2>2. main.pc \in {"parallel", "cancelling"}
    BY <2>1 DEF CallsAreOfThreads
  <2> QED BY <1>3, <2>1, <2>2
<1>5. CASE Collect \/ NextRound \/ Freeze \/ ThreadRaised \/ InterruptedInParallel \/ Join
  <2>1. main.pc \in {"parallel", "cancelling", "freezing", "round"}
    BY <1>5 DEF Collect, NextRound, Freeze, ThreadRaised, InterruptedInParallel, Join
  <2>2. UNCHANGED state
    BY <1>5 DEF Collect, NextRound, Freeze, ThreadRaised, InterruptedInParallel, Join, Cancelling
  <2>3. CASE Collect \/ NextRound
    BY <1>3, <2>1, <2>2, <2>3 DEF Collect, NextRound, Begins, ArenaTypes
  <2>4. CASE Freeze \/ ThreadRaised \/ InterruptedInParallel
    BY <1>3, <2>1, <2>2, <2>4 DEF Freeze, ThreadRaised, InterruptedInParallel, Cancelling, ArenaTypes
  <2>5. CASE Join
    BY <1>3, <2>1, <2>2, <2>5 DEF Join, ArenaTypes
  <2> QED BY <1>5, <2>3, <2>4, <2>5
<1>14. CASE CancelsAgain
  <2>1. /\ UNCHANGED <<cand, winner, state, exported>> /\ main.pc = "raised" /\ main'.pc = "handling"
    BY <1>14 DEF CancelsAgain, Cancelling, ArenaTypes
  <2> QED BY <1>14, <2>1, DecisionRests, OnwardProceeds DEF Onward
<1>6. CASE Evaluate
  <2>1. /\ main.pc = "evaluating" /\ UNCHANGED <<state, winner, exported>> /\ Proceeds
        /\ main'.pc = IF main.round < Rounds THEN "round" ELSE "scoring"
    BY <1>6, OnwardProceeds DEF Evaluate, ArenaTypes, Onward
  <2>2. state = "running"
    BY <2>1 DEF DecisionIsProven, Serial
  <2>3. main'.pc = "scoring" => main.round = Rounds /\ main'.round = Rounds
    <3>1. main.round \in 0..Rounds /\ Rounds \in Nat
      BY DEF ArenaTypes, ArenaAssumption
    <3> QED BY <2>1, <3>1 DEF Proceeds
  <2>4. ASSUME NEW e \in Engineers, main'.pc = "scoring", Eligible(e)'
        PROVE  Proven(e)'
    <3>1. cand[e].valid /\ cand[e].ok
      BY <1>6, <2>4, EvaluationsSay DEF Eligible
    <3>2. cand[e].commit = 0..(Rounds + 1)
      BY <2>1, <2>3, <2>4, <3>1 DEF HeadsGrow, Serial
    <3> QED BY <1>6, <2>3, <2>4, <3>1, <3>2, EvaluationsSay DEF Proven
  <2> QED BY <2>1, <2>2, <2>3, <2>4 DEF DecisionIsProven
<1>7. CASE Score
  <2>1. /\ main.pc = "scoring" /\ UNCHANGED <<cand, state, exported>> /\ Proceeds
        /\ winner' \in IF Best = {} THEN {None} ELSE Best
        /\ main'.pc = IF Judge /\ winner' # None THEN "judging" ELSE "exporting"
    BY <1>7, OnwardProceeds DEF Score, ArenaTypes, Onward
  <2>2. state = "running" /\ main.round = Rounds /\ \A e \in Engineers : Eligible(e) => Proven(e)
    BY <2>1 DEF DecisionIsProven
  <2>3. winner' # None => /\ winner' \in Engineers /\ Proven(winner')
                          /\ \A e \in Engineers : Eligible(e) => cand[e].score <= cand[winner'].score
    BY <2>1, <2>2 DEF Best
  <2>4. winner' # None => \A e \in Engineers : Eligible(e) => cand[e].score - cand[winner'].score <= Within
    BY <1>1, <1>2, <2>3
  <2> QED BY <2>1, <2>2, <2>3, <2>4 DEF DecisionIsProven, Proceeds, Proven, Eligible, Within
<1>8. CASE Judges
  <2>1. /\ main.pc = "judging" /\ UNCHANGED <<cand, state, exported>> /\ Proceeds
        /\ winner' = winner \/ winner' \in InBand
        /\ main'.pc = "exporting"
    BY <1>8, OnwardProceeds DEF Judges, ArenaTypes, Onward
  <2>2. /\ state = "running" /\ main.round = Rounds /\ Judge /\ winner \in Engineers /\ Proven(winner)
        /\ \A e \in Engineers : Eligible(e) => Proven(e) /\ cand[e].score <= cand[winner].score
    BY <2>1 DEF DecisionIsProven, ArenaTypes
  <2>3. /\ winner' \in Engineers /\ Proven(winner')
        /\ cand[winner].score - cand[winner'].score <= Within
    BY <1>1, <1>2, <2>1, <2>2 DEF InBand, Within
  <2>4. \A e \in Engineers : Eligible(e) => cand[e].score - cand[winner'].score <= Within
    BY <1>1, <1>2, <2>2, <2>3
  <2> QED BY <2>1, <2>2, <2>3, <2>4 DEF DecisionIsProven, Proceeds, Proven, Eligible, Within
<1>9. CASE Export
  <2>1. /\ main.pc = "exporting" /\ UNCHANGED <<cand, winner>> /\ main'.pc = "reporting"
        /\ exported' = IF winner = None THEN {} ELSE cand[winner].commit
        /\ state' = IF winner = None THEN "no_winner" ELSE "complete"
    BY <1>9 DEF Export, ArenaTypes
  <2> QED BY <2>1 DEF DecisionIsProven, Proven, Eligible, ArenaTypes
<1>15. CASE Report
  <2>1. /\ main.pc = "reporting" /\ UNCHANGED <<cand, winner, state, exported, canceller>>
        /\ main'.pc = "ended"
    BY <1>15 DEF Report, ArenaTypes, pvars
  <2>2. state \notin {"failed", "cancelled"}
    BY <2>1 DEF DecisionIsProven
  <2> QED BY <2>1, <2>2 DEF DecisionIsProven, Proven, Eligible
<1>10. CASE InterruptedInSerial \/ Breaks
  <2>1. /\ UNCHANGED <<cand, winner, state, exported, canceller>> /\ main'.pc = "raised"
        /\ main.pc \in Serial
    BY <1>10 DEF InterruptedInSerial, Breaks, ArenaTypes, pvars
  <2> QED BY <1>10, <2>1, DecisionRests, OnwardProceeds DEF Onward, Serial
<1>11. CASE Fails \/ Cancelled
  <2>1. /\ main'.pc = "ended" /\ state' \in {"failed", "cancelled"}
        /\ state' = "cancelled" => canceller'.pc = "done"
    BY <1>11 DEF Fails, Cancelled, ArenaTypes, pvars
  <2> QED BY <2>1 DEF DecisionIsProven
<1>12. CASE Cancels /\ UNCHANGED avars
  <2>1. canceller.pc # "done"
    BY <1>12 DEF Cancels, Flag, Look, StopOne, Settle
  <2>2. state # "cancelled"
    BY <2>1 DEF DecisionIsProven
  <2> QED BY <1>12, <2>2 DEF avars, DecisionIsProven, Proven, Eligible
<1>13. ASSUME NEW g \in Groups, Exits(g) \/ Reused(g), UNCHANGED avars
       PROVE  DecisionIsProven'
  BY <1>13 DEF Exits, Reused, avars, DecisionIsProven, Proven, Eligible
<1> QED
  BY <1>4, <1>5, <1>6, <1>7, <1>8, <1>9, <1>10, <1>11, <1>12, <1>13, <1>14, <1>15
  DEF Next, Coordinator, Environment, Thread

-------------------------------------------------------------------------------
(* Theorems *)

LEMMA ArenaStarts ==
  ASSUME ArenaAssumption, Init
  PROVE  ArenaInvariant
<1> USE DEF Init, ProcessInit
<1>1. ArenaTypes
  <2>1. {Base} \in SUBSET Generations /\ {} \in SUBSET Generations /\ 0 \in 0..Rounds /\ 0 \in 0..MaxScore
    BY DEF Base, Generations, ArenaAssumption
  <2>2. cand \in [Engineers -> Candidates]
    <3>1. [ok |-> FALSE, valid |-> FALSE, commit |-> {Base}, evaluated |-> {}, passed |-> FALSE,
           score |-> 0] \in Candidates
      BY <2>1 DEF Candidates
    <3> QED BY <3>1
  <2>3. /\ os \in [Groups -> Live \cup {"none", "gone", "stranger"}]
        /\ term \in [Groups -> {"none", "confirmed", "unconfirmed"}]
        /\ calls \in [Groups -> {"idle", "checked", "running"} \cup Over]
        /\ thread \in [Engineers -> Working] /\ head \in [Engineers -> SUBSET Generations]
    BY <2>1 DEF Working
  <2>4. /\ canceller \in [pc : {"idle", "asked", "flagged", "stopping", "done", "failed"},
                          left : SUBSET Groups, failed : BOOLEAN]
        /\ main \in [pc : Serial \cup {"parallel", "cancelling", "raised", "handling", "ended"},
                     phase : Phases, round : 0..Rounds, why : {None, "error", "interrupt"}]
    BY <2>1 DEF Phases
  <2> QED BY <2>1, <2>2, <2>3, <2>4 DEF ArenaTypes
<1>2. CallsAreOfThreads /\ StartsAreAlone /\ FutureIsUntouched /\ StopsAreTrue
  BY DEF CallsAreOfThreads, StartsAreAlone, FutureIsUntouched, Untouched, StopsAreTrue, Live,
         Group, ArenaAssumption
<1>3. CancelReaches /\ FailuresStay /\ DecisionIsProven
  BY DEF CancelReaches, FailuresStay, DecisionIsProven
<1>4. HeadsGrow
  <2>1. 0..0 = {0}
    OBVIOUS
  <2> QED BY <2>1 DEF HeadsGrow, Serial, Base
<1> QED BY <1>1, <1>2, <1>3, <1>4 DEF ArenaInvariant

LEMMA ArenaStep ==
  ASSUME ArenaAssumption, ArenaInvariant, [Next]_vars
  PROVE  ArenaInvariant'
<1>1. CASE Next
  BY <1>1, TypesKept, CallsKept, StartsKept, FutureKept, StopsKept, CancelKept, HeadsKept,
     FailuresKept, DecisionKept DEF ArenaInvariant
<1>2. CASE UNCHANGED vars
  BY <1>2 DEF vars, pvars, avars, ArenaInvariant, ArenaTypes, CallsAreOfThreads, StartsAreAlone,
     FutureIsUntouched, Untouched, StopsAreTrue, CancelReaches, HeadsGrow, FailuresStay,
     DecisionIsProven, Proven, Eligible, Group
<1> QED BY <1>1, <1>2

\* Threads work only while a phase is under way, a thread's group is the one it was started
\* for, whatever runs is on the register, cancel_all reaches all of it, and a valid candidate
\* has every generation before it: the invariant the theorems below rest on.
THEOREM ArenaInvariantHolds ==
  ASSUME ArenaAssumption
  PROVE  Spec => []ArenaInvariant
<1>1. Init => ArenaInvariant
  BY ArenaStarts
<1>2. ArenaInvariant /\ [Next]_vars => ArenaInvariant'
  BY ArenaStep
<1> QED BY <1>1, <1>2, PTL DEF Spec

LEMMA WinnersAreProven ==
  ASSUME ArenaAssumption, ArenaInvariant
  PROVE  WinnerIsProven
BY DEF ArenaInvariant, DecisionIsProven, Proven, Eligible, FailuresStay, WinnerIsProven

LEMMA EndsAreQuiet ==
  ASSUME ArenaAssumption, ArenaInvariant
  PROVE  OverMeansStopped /\ StoppedMeansStopped
<1> USE DEF ArenaInvariant
<1>1. ASSUME main.pc = "ended"
      PROVE  /\ \A e \in Engineers : thread[e] \notin {"running", "queued"}
             /\ \A g \in Groups : os[g] \in Live => term[g] = "unconfirmed" /\ state # "cancelled"
  <2>1. \A e \in Engineers : thread[e] \notin {"running", "queued"}
    BY <1>1 DEF CallsAreOfThreads
  <2>2. ASSUME NEW g \in Groups, os[g] \in Live
        PROVE  term[g] = "unconfirmed" /\ state # "cancelled"
    <3>1. calls[g] = "idle"
      BY <2>1 DEF CallsAreOfThreads
    <3>2. term[g] # "none" /\ term[g] # "confirmed"
      BY <2>2, <3>1 DEF StopsAreTrue, Live
    <3>3. state # "cancelled"
      BY <2>2 DEF DecisionIsProven, CancelReaches
    <3> QED BY <3>2, <3>3 DEF ArenaTypes
  <2> QED BY <2>1, <2>2
<1>2. StoppedMeansStopped
  BY DEF StoppedMeansStopped, CancelReaches, StartsAreAlone
<1> QED BY <1>1, <1>2 DEF OverMeansStopped

\* The winner that is exported is the commit that was evaluated, it passed, it has every
\* generation it was reviewed as, its engineer failed no phase, and the judge overruled no more
\* than the band.
THEOREM WinnersAreAlwaysProven ==
  ASSUME ArenaAssumption
  PROVE  Spec => []WinnerIsProven
<1>1. ArenaInvariant => WinnerIsProven
  BY WinnersAreProven
<1> QED BY <1>1, ArenaInvariantHolds, PTL

\* Once cancel_all returned without an error nothing runs, and what is left when the run is over
\* was reported, and not as cancelled.
THEOREM TournamentsStop ==
  ASSUME ArenaAssumption
  PROVE  Spec => [](OverMeansStopped /\ StoppedMeansStopped)
<1>1. ArenaInvariant => OverMeansStopped /\ StoppedMeansStopped
  BY EndsAreQuiet
<1> QED BY <1>1, ArenaInvariantHolds, PTL

===============================================================================
