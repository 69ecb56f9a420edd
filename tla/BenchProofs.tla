------------------------------ MODULE BenchProofs ------------------------------
(***************************************************************************)
(* Proofs about the ways a run executes: queues, the adaptive controller   *)
(* and the integration of its result; with ArenaProofs, that what any of   *)
(* them calls its result was verified and that none leaves anything behind *)
(* when it ends.  They hold for any number of tasks, steps, engineers and  *)
(* integrations, and for every fault.                                      *)
(***************************************************************************)
EXTENDS MCBench, SequenceTheorems, FiniteSetTheorems, TLAPS

-------------------------------------------------------------------------------
(* Queues: the inductive invariant *)

Places == {"next", "prepare", "agent", "check", "record", "seal", "state", "journal", "summary",
           "over", "dead"}

QueueTypes ==
  /\ keepGoing \in BOOLEAN /\ finished \in BOOLEAN /\ stopFile \in BOOLEAN
  /\ step \in 1..(QueueSteps + 1) /\ at \in Places
  /\ at \in Places \ {"next", "over", "dead"} => step \in Queue!Numbers
  /\ live \in SUBSET (Queue!Numbers \X {"agent", "check"})
  /\ checks \in [Queue!Numbers -> Seq({"PASS", "FAIL", "UNKNOWN"})]
  /\ kept \in [Queue!Numbers -> {"none", "open", "recorded", "sealed"}]
  /\ told \in SUBSET Queue!Numbers
  /\ code \in [Queue!Numbers -> {"none", "error", "verified", "FAIL", "UNKNOWN"}]
  /\ log \in [Queue!Numbers -> SUBSET {"started", "message", "report"}]

\* An agent runs while its step waits for it, and what runs otherwise outlived the queue.
OneRuns ==
  /\ at = "agent" => live = {<<step, "agent">>}
  /\ at \notin {"agent", "dead"} => live = {}
  /\ at = "dead" => \E s \in 1..(QueueSteps + 1) : live = {} \/ live = {<<s, "agent">>} \/ live = {<<s, "check">>}

\* What is known of the step under way, and nothing of those to come.
Before == {"next", "prepare", "agent", "check", "record", "seal", "state"}

StepGoesOn ==
  /\ \A s \in Queue!Numbers : s > step \/ (s = step /\ at = "next") => log[s] = {}
  /\ \A s \in Queue!Numbers : s > step \/ (s = step /\ at \in Before) => code[s] = "none"
  /\ \A s \in Queue!Numbers :
       s > step \/ (s = step /\ at \in {"next", "prepare", "agent"}) => checks[s] = <<>>
  /\ at = "check" => Len(checks[step]) < QueueChecks
  /\ at \in {"record", "seal", "state"} => Len(checks[step]) = QueueChecks
  /\ at = "state" => kept[step] = "sealed"
  /\ at = "journal" => code[step] # "none"
  /\ at = "over" => finished

\* A step's exit code says how its checks ended, and the console says what the code is.
CodeIsTrue(s) ==
  /\ code[s] = "verified" =>
       Queue!Verified(s) /\ checks[s] # <<>> /\ kept[s] = "sealed" /\ s \in told
  /\ code[s] \in {"FAIL", "UNKNOWN"} => ~Queue!Verified(s)
  /\ s < step => code[s] = "verified" \/ keepGoing
  /\ "report" \in log[s] => code[s] \in {"verified", "FAIL", "UNKNOWN"}
  /\ "message" \in log[s] => code[s] = "error"
  /\ code[s] \in {"verified", "FAIL", "UNKNOWN"} =>
       "report" \in log[s] \/ (s = step /\ at \in {"journal", "dead"})

CodesAreTrue == \A s \in Queue!Numbers : CodeIsTrue(s)

QueueInvariant == QueueTypes /\ OneRuns /\ StepGoesOn /\ CodesAreTrue

-------------------------------------------------------------------------------
(* Queues: the steps *)

\* The instance's cardinality is the one of the library's theorems.
LEMMA SameCardinality ==
  ASSUME NEW S
  PROVE  Queue!Cardinality(S) = Cardinality(S)
BY DEF Queue!Cardinality, Cardinality

\* A record is verified when each of its checks passed.
LEMMA VerifiedMeansPassed ==
  ASSUME QueueTypes, NEW s \in Queue!Numbers
  PROVE  Queue!Verified(s) <=> \A i \in DOMAIN checks[s] : checks[s][i] = "PASS"
<1> DEFINE passed == {i \in DOMAIN checks[s] : checks[s][i] = "PASS"}
<1>1. checks[s] \in Seq({"PASS", "FAIL", "UNKNOWN"})
  BY DEF QueueTypes
<1>2. Len(checks[s]) \in Nat /\ DOMAIN checks[s] = 1..Len(checks[s])
  BY <1>1, LenProperties
<1>3. /\ IsFiniteSet(DOMAIN checks[s])
      /\ Cardinality(DOMAIN checks[s]) = Len(checks[s])
  <2> DEFINE n == Len(checks[s])
  <2>1. n \in Nat /\ DOMAIN checks[s] = 1..n
    BY <1>2
  <2> HIDE DEF n
  <2>2. IsFiniteSet(1..n) /\ Cardinality(1..n) = n
    <3>1. /\ IsFiniteSet(1..n)
          /\ Cardinality(1..n) = IF 1 > n THEN 0 ELSE n - 1 + 1
      BY <2>1, FS_Interval
    <3>2. (IF 1 > n THEN 0 ELSE n - 1 + 1) = n
      BY <2>1
    <3> QED BY <3>1, <3>2
  <2> QED BY <2>1, <2>2 DEF n
<1>4. passed \subseteq DOMAIN checks[s]
  OBVIOUS
<1>5. Cardinality(DOMAIN checks[s]) = Cardinality(passed) => DOMAIN checks[s] = passed
  BY <1>3, <1>4, FS_Subset
<1>6. Queue!Verified(s) <=> Cardinality(passed) = Len(checks[s])
  BY SameCardinality DEF Queue!Verified, Queue!Count
<1>7. Queue!Verified(s) <=> DOMAIN checks[s] = passed
  BY <1>3, <1>5, <1>6
<1> QED BY <1>7

\* A step that fails on anything but its checks.
LEMMA FailsKeeps ==
  ASSUME BenchAssumption, QueueInvariant, NEW error, NEW place \in Before \ {"next"},
         Queue!Fails(error, place),
         \/ UNCHANGED live /\ (error \in Queue!Caught => place # "agent")
         \/ error \notin Queue!Caught /\ live' = live \ {<<step, "agent">>}
         \/ error \notin Queue!Caught /\ place = "check" /\ live' = live \cup {<<step, "check">>}
  PROVE  QueueInvariant'
<1> USE DEF QueueInvariant
<1>1. /\ at = place /\ step \in Queue!Numbers /\ at \in Before
      /\ UNCHANGED <<keepGoing, step, checks, kept, told, finished, stopFile>>
  BY DEF Queue!Fails, QueueTypes, Before
<1>2. CASE error \in Queue!Caught
  <2>1. /\ code' = [code EXCEPT ![step] = "error"] /\ at' = "journal" /\ UNCHANGED live
        /\ log' = [log EXCEPT ![step] = @ \cup {"message"}]
    BY <1>2 DEF Queue!Fails, Queue!Raises
  <2>2. /\ code'[step] = "error" /\ log'[step] = log[step] \cup {"message"} /\ code[step] = "none"
        /\ \A s \in Queue!Numbers : s # step => code'[s] = code[s] /\ log'[s] = log[s]
    BY <1>1, <2>1 DEF QueueTypes, StepGoesOn
  <2>3. QueueTypes'
    BY <1>1, <2>1 DEF QueueTypes, Places
  <2>4. OneRuns'
    BY <1>1, <1>2, <2>1 DEF OneRuns, Before
  <2>5. StepGoesOn'
    BY <1>1, <2>1, <2>2 DEF StepGoesOn, Before, QueueTypes
  <2>6. CodesAreTrue'
    <3> SUFFICES ASSUME NEW s \in Queue!Numbers PROVE CodeIsTrue(s)'
      BY DEF CodesAreTrue
    <3>1. CodeIsTrue(s)
      BY DEF CodesAreTrue
    <3>2. Queue!Verified(s)' <=> Queue!Verified(s)
      BY <1>1 DEF Queue!Verified, Queue!Count
    <3>3. CASE s = step
      BY <1>1, <2>1, <2>2, <3>1, <3>2, <3>3 DEF CodeIsTrue, Before
    <3>4. CASE s # step
      BY <1>1, <2>1, <2>2, <3>1, <3>2, <3>4 DEF CodeIsTrue, Before
    <3> QED BY <3>3, <3>4
  <2> QED BY <2>3, <2>4, <2>5, <2>6
<1>3. CASE error \notin Queue!Caught
  <2>1. at' = "dead" /\ UNCHANGED <<code, log>>
    BY <1>3 DEF Queue!Fails, Queue!Raises
  <2>2. live = {} \/ live = {<<step, "agent">>}
    BY <1>1 DEF OneRuns, Before
  <2>3. live' = {} \/ live' = {<<step, "agent">>} \/ live' = {<<step, "check">>}
    BY <1>1, <2>2 DEF OneRuns
  <2>4. QueueTypes'
    BY <1>1, <2>1, <2>3 DEF QueueTypes, Places
  <2>5. OneRuns'
    BY <1>1, <2>1, <2>3 DEF OneRuns, QueueTypes
  <2>6. StepGoesOn'
    BY <1>1, <2>1 DEF StepGoesOn, Before, QueueTypes
  <2>7. CodesAreTrue'
    <3> SUFFICES ASSUME NEW s \in Queue!Numbers PROVE CodeIsTrue(s)'
      BY DEF CodesAreTrue
    <3>1. CodeIsTrue(s)
      BY DEF CodesAreTrue
    <3>2. Queue!Verified(s)' <=> Queue!Verified(s)
      BY <1>1, <2>1 DEF Queue!Verified, Queue!Count
    <3>3. CASE s = step
      BY <1>1, <2>1, <3>1, <3>2, <3>3 DEF CodeIsTrue, Before, QueueTypes, StepGoesOn
    <3>4. CASE s # step
      BY <1>1, <2>1, <3>1, <3>2, <3>4 DEF CodeIsTrue, Before, QueueTypes, StepGoesOn
    <3> QED BY <3>3, <3>4
  <2> QED BY <2>4, <2>5, <2>6, <2>7
<1> QED BY <1>2, <1>3

LEMMA QueueStep ==
  ASSUME BenchAssumption, QueueInvariant, Queue!QueueNext
  PROVE  QueueInvariant'
<1> USE DEF QueueInvariant
<1>0. QueueSteps \in Nat /\ QueueChecks \in Nat \ {0} /\ Queue!Numbers = 1..QueueSteps
  BY BenchAssumption DEF Queue!QueueAssumption, Queue!Numbers
<1>1. CASE Queue!Refuse \/ Queue!Unpriced \/ Queue!DiskFull \/ Queue!Untold
           \/ Queue!Unstoppable \/ Queue!Interrupt
  BY <1>1, FailsKeeps DEF Queue!Refuse, Queue!Unpriced, Queue!DiskFull, Queue!Untold,
     Queue!Unstoppable, Queue!Interrupt, Queue!Caught, Before
<1>2. CASE Queue!Launch
  <2>1. /\ at = "prepare" /\ at' = "agent" /\ kept' = [kept EXCEPT ![step] = "open"]
        /\ live' = live \cup {<<step, "agent">>}
        /\ UNCHANGED <<keepGoing, step, checks, told, code, log, finished, stopFile>>
    BY <1>2 DEF Queue!Launch, Queue!Goes
  <2>2. step \in Queue!Numbers /\ code[step] = "none"
    BY <2>1 DEF QueueTypes, StepGoesOn, Before
  <2>3. QueueTypes'
    BY <2>1, <2>2 DEF QueueTypes, Places
  <2>4. OneRuns' /\ StepGoesOn'
    BY <2>1, <2>2 DEF OneRuns, StepGoesOn, Before
  <2>5. CodesAreTrue'
    <3> SUFFICES ASSUME NEW s \in Queue!Numbers PROVE CodeIsTrue(s)'
      BY DEF CodesAreTrue
    <3>1. CodeIsTrue(s)
      BY DEF CodesAreTrue
    <3>2. Queue!Verified(s)' <=> Queue!Verified(s)
      BY <2>1, <2>2 DEF Queue!Verified, Queue!Count
    <3>3. CASE s = step
      BY <2>1, <2>2, <3>1, <3>2, <3>3 DEF CodeIsTrue, Before, QueueTypes, StepGoesOn
    <3>4. CASE s # step
      BY <2>1, <2>2, <3>1, <3>2, <3>4 DEF CodeIsTrue, Before, QueueTypes, StepGoesOn
    <3> QED BY <3>3, <3>4
  <2> QED BY <2>3, <2>4, <2>5
<1>3. CASE Queue!AgentEnds
  <2>1. /\ at = "agent" /\ at' = "check" /\ live' = live \ {<<step, "agent">>}
        /\ UNCHANGED <<keepGoing, step, checks, kept, told, code, log, finished, stopFile>>
    BY <1>3 DEF Queue!AgentEnds, Queue!Goes
  <2>2. step \in Queue!Numbers /\ checks[step] = <<>> /\ Len(checks[step]) = 0
    BY <2>1 DEF QueueTypes, StepGoesOn
  <2>3. QueueTypes'
    BY <2>1, <2>2 DEF QueueTypes, Places
  <2>4. OneRuns' /\ StepGoesOn'
    BY <1>0, <2>1, <2>2 DEF OneRuns, StepGoesOn, Before
  <2>5. CodesAreTrue'
    <3> SUFFICES ASSUME NEW s \in Queue!Numbers PROVE CodeIsTrue(s)'
      BY DEF CodesAreTrue
    <3>1. CodeIsTrue(s)
      BY DEF CodesAreTrue
    <3>2. Queue!Verified(s)' <=> Queue!Verified(s)
      BY <2>1, <2>2 DEF Queue!Verified, Queue!Count
    <3>3. CASE s = step
      BY <2>1, <2>2, <3>1, <3>2, <3>3 DEF CodeIsTrue, Before, QueueTypes, StepGoesOn
    <3>4. CASE s # step
      BY <2>1, <2>2, <3>1, <3>2, <3>4 DEF CodeIsTrue, Before, QueueTypes, StepGoesOn
    <3> QED BY <3>3, <3>4
  <2> QED BY <2>3, <2>4, <2>5
<1>4. CASE Queue!Check
  <2>1. PICK status \in {"PASS", "FAIL", "UNKNOWN"} :
          /\ at = "check" /\ checks' = [checks EXCEPT ![step] = Append(@, status)]
          /\ at' = IF Len(checks[step]) + 1 = QueueChecks THEN "record" ELSE at
          /\ UNCHANGED <<keepGoing, step, live, kept, told, code, log, finished, stopFile>>
    BY <1>4 DEF Queue!Check
  <2>2. /\ step \in Queue!Numbers /\ checks[step] \in Seq({"PASS", "FAIL", "UNKNOWN"})
        /\ code[step] = "none" /\ Len(checks[step]) < QueueChecks
    BY <2>1 DEF QueueTypes, StepGoesOn, Before
  <2>3. /\ checks'[step] \in Seq({"PASS", "FAIL", "UNKNOWN"})
        /\ Len(checks'[step]) = Len(checks[step]) + 1 /\ Len(checks[step]) \in Nat
        /\ \A s \in Queue!Numbers : s # step => checks'[s] = checks[s]
    BY <2>1, <2>2, AppendProperties, LenProperties DEF QueueTypes
  <2>4. checks' \in [Queue!Numbers -> Seq({"PASS", "FAIL", "UNKNOWN"})]
    BY <2>1, <2>3 DEF QueueTypes
  <2>5. QueueTypes'
    BY <2>1, <2>2, <2>4 DEF QueueTypes, Places
  <2>6. OneRuns'
    BY <2>1 DEF OneRuns
  <2>7. StepGoesOn'
    <3>1. at' \in {"check", "record"} /\ UNCHANGED <<step, code, log, kept, finished>>
      BY <2>1
    <3>2. /\ at' = "check" => Len(checks'[step]) < QueueChecks
          /\ at' = "record" => Len(checks'[step]) = QueueChecks
      BY <1>0, <2>1, <2>2, <2>3
    <3>3. \A s \in Queue!Numbers : s > step => checks'[s] = <<>>
      BY <1>0, <2>2, <2>3 DEF StepGoesOn
    <3> QED BY <2>1, <3>1, <3>2, <3>3 DEF StepGoesOn, Before
  <2>8. CodesAreTrue'
    <3> SUFFICES ASSUME NEW s \in Queue!Numbers PROVE CodeIsTrue(s)'
      BY DEF CodesAreTrue
    <3>1. CodeIsTrue(s)
      BY DEF CodesAreTrue
    <3>2. s # step => (Queue!Verified(s)' <=> Queue!Verified(s))
      BY <2>1, <2>2, <2>3 DEF Queue!Verified, Queue!Count
    <3>3. CASE s = step
      BY <2>1, <2>2, <2>3, <3>1, <3>2, <3>3 DEF CodeIsTrue, Before, QueueTypes, StepGoesOn
    <3>4. CASE s # step
      BY <2>1, <2>2, <2>3, <3>1, <3>2, <3>4 DEF CodeIsTrue, Before, QueueTypes, StepGoesOn
    <3> QED BY <3>3, <3>4
  <2> QED BY <2>5, <2>6, <2>7, <2>8
<1>5. CASE Queue!Record \/ Queue!Seal
  <2>1. PICK to \in {"recorded", "sealed"} :
          /\ at \in {"record", "seal"}
          /\ kept' = [kept EXCEPT ![step] = to]
          /\ \/ at = "record" /\ to = "recorded" /\ at' = "seal"
             \/ at = "seal" /\ to = "sealed" /\ at' = "state"
          /\ UNCHANGED <<keepGoing, step, live, checks, told, code, log, finished, stopFile>>
    BY <1>5 DEF Queue!Record, Queue!Seal, Queue!Goes
  <2>2. /\ step \in Queue!Numbers /\ code[step] = "none"
        /\ at' = "state" => kept'[step] = "sealed"
        /\ Len(checks[step]) = QueueChecks
    BY <2>1 DEF QueueTypes, StepGoesOn, Before
  <2>3. QueueTypes'
    BY <2>1, <2>2 DEF QueueTypes, Places
  <2>4. OneRuns' /\ StepGoesOn'
    BY <2>1, <2>2 DEF OneRuns, StepGoesOn, Before
  <2>5. CodesAreTrue'
    <3> SUFFICES ASSUME NEW s \in Queue!Numbers PROVE CodeIsTrue(s)'
      BY DEF CodesAreTrue
    <3>1. CodeIsTrue(s)
      BY DEF CodesAreTrue
    <3>2. Queue!Verified(s)' <=> Queue!Verified(s)
      BY <2>1, <2>2 DEF Queue!Verified, Queue!Count
    <3>3. CASE s = step
      BY <2>1, <2>2, <3>1, <3>2, <3>3 DEF CodeIsTrue, Before, QueueTypes, StepGoesOn
    <3>4. CASE s # step
      BY <2>1, <2>2, <3>1, <3>2, <3>4 DEF CodeIsTrue, Before, QueueTypes, StepGoesOn
    <3> QED BY <3>3, <3>4
  <2> QED BY <2>3, <2>4, <2>5
<1>6. CASE Queue!Report
  <2>1. /\ at = "state" /\ at' = "journal" /\ told' = told \cup {step}
        /\ code' = [code EXCEPT ![step] =
             IF Queue!Verified(step) THEN "verified"
             ELSE IF Queue!Count(step, "FAIL") > 0 THEN "FAIL" ELSE "UNKNOWN"]
        /\ UNCHANGED <<keepGoing, step, live, checks, kept, log, finished, stopFile>>
    BY <1>6 DEF Queue!Report, Queue!Goes
  <2>2. /\ step \in Queue!Numbers /\ kept[step] = "sealed" /\ Len(checks[step]) = QueueChecks
        /\ code[step] = "none"
    BY <2>1 DEF QueueTypes, StepGoesOn, Before
  <2>3. checks[step] # <<>>
    BY <1>0, <2>2
  <2>4. /\ code'[step] \in {"verified", "FAIL", "UNKNOWN"}
        /\ code'[step] = "verified" <=> Queue!Verified(step)
        /\ \A s \in Queue!Numbers : s # step => code'[s] = code[s]
    BY <2>1, <2>2 DEF QueueTypes
  <2>5. code' \in [Queue!Numbers -> {"none", "error", "verified", "FAIL", "UNKNOWN"}]
    BY <2>1, <2>2 DEF QueueTypes
  <2>6. QueueTypes'
    BY <2>1, <2>2, <2>5 DEF QueueTypes, Places
  <2>7. OneRuns' /\ StepGoesOn'
    <3>1. OneRuns'
      BY <2>1 DEF OneRuns
    <3>2. \A s \in Queue!Numbers : s > step => code'[s] = "none"
      BY <1>0, <2>2, <2>4 DEF StepGoesOn
    <3>3. StepGoesOn'
      BY <2>1, <2>4, <3>2 DEF StepGoesOn, Before
    <3> QED BY <3>1, <3>3
  <2>8. CodesAreTrue'
    <3> SUFFICES ASSUME NEW s \in Queue!Numbers PROVE CodeIsTrue(s)'
      BY DEF CodesAreTrue
    <3>1. CodeIsTrue(s)
      BY DEF CodesAreTrue
    <3>2. Queue!Verified(s)' <=> Queue!Verified(s)
      BY <2>1, <2>2, <2>3, <2>4 DEF Queue!Verified, Queue!Count
    <3>3. CASE s = step
      BY <2>1, <2>2, <2>3, <2>4, <3>1, <3>2, <3>3 DEF CodeIsTrue, Before, QueueTypes, StepGoesOn
    <3>4. CASE s # step
      BY <2>1, <2>2, <2>3, <2>4, <3>1, <3>2, <3>4 DEF CodeIsTrue, Before, QueueTypes, StepGoesOn
    <3> QED BY <3>3, <3>4
  <2> QED BY <2>6, <2>7, <2>8
<1>7. CASE Queue!Begin
  <2>1. /\ at = "next" /\ at' = "prepare" /\ step <= QueueSteps
        /\ log' = [log EXCEPT ![step] = {"started"}]
        /\ UNCHANGED <<keepGoing, step, live, checks, kept, told, code, finished, stopFile>>
    BY <1>7 DEF Queue!Begin, Queue!Goes
  <2>2. step \in Queue!Numbers /\ code[step] = "none"
    BY <1>0, <2>1 DEF QueueTypes, StepGoesOn, Before
  <2>3. QueueTypes'
    BY <2>1, <2>2 DEF QueueTypes, Places
  <2>4. OneRuns' /\ StepGoesOn'
    BY <2>1, <2>2 DEF OneRuns, StepGoesOn, Before, QueueTypes
  <2>5. CodesAreTrue'
    <3> SUFFICES ASSUME NEW s \in Queue!Numbers PROVE CodeIsTrue(s)'
      BY DEF CodesAreTrue
    <3>1. CodeIsTrue(s)
      BY DEF CodesAreTrue
    <3>2. Queue!Verified(s)' <=> Queue!Verified(s)
      BY <2>1, <2>2 DEF Queue!Verified, Queue!Count
    <3>3. CASE s = step
      BY <2>1, <2>2, <3>1, <3>2, <3>3 DEF CodeIsTrue, Before, QueueTypes, StepGoesOn
    <3>4. CASE s # step
      BY <2>1, <2>2, <3>1, <3>2, <3>4 DEF CodeIsTrue, Before, QueueTypes, StepGoesOn
    <3> QED BY <3>3, <3>4
  <2> QED BY <2>3, <2>4, <2>5
<1>8. CASE Queue!Journal
  <2>1. /\ at = "journal"
        /\ log' = IF code[step] = "error" THEN log ELSE [log EXCEPT ![step] = @ \cup {"report"}]
        /\ \/ (code[step] = "verified" \/ keepGoing) /\ step' = step + 1 /\ at' = "next"
           \/ at' = "summary" /\ UNCHANGED step
        /\ UNCHANGED <<keepGoing, live, checks, kept, told, code, finished, stopFile>>
    BY <1>8 DEF Queue!Journal
  <2>2. step \in Queue!Numbers /\ step \in 1..QueueSteps
    BY <1>0, <2>1 DEF QueueTypes
  <2>3. /\ code[step] # "error" => log'[step] = log[step] \cup {"report"}
        /\ code[step] = "error" => log'[step] = log[step]
        /\ \A s \in Queue!Numbers : s # step => log'[s] = log[s]
    BY <2>1, <2>2 DEF QueueTypes
  <2>4. QueueTypes'
    BY <1>0, <2>1, <2>2 DEF QueueTypes, Places
  <2>5. OneRuns'
    BY <2>1 DEF OneRuns
  <2>6. step' \in {step, step + 1} /\ (at' = "next" => step' = step + 1)
    BY <2>1
  <2>7. StepGoesOn'
    BY <1>0, <2>1, <2>2, <2>3, <2>6 DEF StepGoesOn, Before
  <2>9. /\ code[step] \in {"error", "verified", "FAIL", "UNKNOWN"}
        /\ step' = step \/ (step' = step + 1 /\ (code[step] = "verified" \/ keepGoing))
        /\ at' \in {"next", "summary"}
    BY <2>1, <2>2 DEF QueueTypes, StepGoesOn
  <2>8. CodesAreTrue'
    <3> SUFFICES ASSUME NEW s \in Queue!Numbers PROVE CodeIsTrue(s)'
      BY DEF CodesAreTrue
    <3>1. CodeIsTrue(s)
      BY DEF CodesAreTrue
    <3>2. Queue!Verified(s)' <=> Queue!Verified(s)
      BY <2>1 DEF Queue!Verified, Queue!Count
    <3>3. CASE s = step
      <4>1. UNCHANGED <<code, checks, kept, told, keepGoing>>
        BY <2>1
      <4>2. (code[s] = "error" /\ log'[s] = log[s]) \/ (code[s] # "error" /\ "report" \in log'[s])
        BY <2>3, <3>3
      <4>3. s < step' => code[s] = "verified" \/ keepGoing
        BY <2>2, <2>9, <3>3
      <4>4. "message" \in log'[s] => "message" \in log[s]
        BY <2>3, <3>3
      <4> QED BY <2>9, <3>1, <3>2, <3>3, <4>1, <4>2, <4>3, <4>4 DEF CodeIsTrue
    <3>4. CASE s # step
      <4>1. UNCHANGED <<code, checks, kept, told, keepGoing>> /\ log'[s] = log[s]
        BY <2>1, <2>3, <3>4
      <4>2. s < step' => s < step
        BY <1>0, <2>2, <2>9, <3>4
      <4> QED BY <3>1, <3>2, <3>4, <4>1, <4>2 DEF CodeIsTrue
    <3> QED BY <3>3, <3>4
  <2> QED BY <2>4, <2>5, <2>7, <2>8
<1>9. CASE Queue!Finish
  <2>1. /\ at \in {"summary", "next"} /\ at' = "over" /\ finished' = TRUE
        /\ UNCHANGED <<keepGoing, step, live, checks, kept, told, code, log, stopFile>>
    BY <1>9 DEF Queue!Finish
  <2>2. QueueTypes'
    BY <2>1 DEF QueueTypes, Places
  <2>3. OneRuns'
    BY <2>1 DEF OneRuns
  <2>4. StepGoesOn'
    BY <2>1 DEF StepGoesOn, Before
  <2>5. CodesAreTrue'
    <3> SUFFICES ASSUME NEW s \in Queue!Numbers PROVE CodeIsTrue(s)'
      BY DEF CodesAreTrue
    <3>1. CodeIsTrue(s)
      BY DEF CodesAreTrue
    <3>2. Queue!Verified(s)' <=> Queue!Verified(s)
      BY <2>1 DEF Queue!Verified, Queue!Count
    <3>3. CASE s = step
      BY <2>1, <3>1, <3>2, <3>3 DEF CodeIsTrue, Before, QueueTypes, StepGoesOn
    <3>4. CASE s # step
      BY <2>1, <3>1, <3>2, <3>4 DEF CodeIsTrue, Before, QueueTypes, StepGoesOn
    <3> QED BY <3>3, <3>4
  <2> QED BY <2>2, <2>3, <2>4, <2>5
<1>10. CASE Queue!Stop
  <2>1. /\ at \notin {"over", "dead"} /\ at' = "dead"
        /\ UNCHANGED <<keepGoing, step, live, checks, kept, told, code, log, finished, stopFile>>
    BY <1>10 DEF Queue!Stop, Queue!Ended
  <2>2. QueueTypes'
    BY <2>1 DEF QueueTypes, Places
  <2>3. OneRuns'
    BY <2>1 DEF OneRuns, QueueTypes
  <2>4. StepGoesOn'
    BY <2>1 DEF StepGoesOn, Before
  <2>5. CodesAreTrue'
    <3> SUFFICES ASSUME NEW s \in Queue!Numbers PROVE CodeIsTrue(s)'
      BY DEF CodesAreTrue
    <3>1. CodeIsTrue(s)
      BY DEF CodesAreTrue
    <3>2. Queue!Verified(s)' <=> Queue!Verified(s)
      BY <2>1 DEF Queue!Verified, Queue!Count
    <3>3. CASE s = step
      BY <2>1, <3>1, <3>2, <3>3 DEF CodeIsTrue, Before, QueueTypes, StepGoesOn
    <3>4. CASE s # step
      BY <2>1, <3>1, <3>2, <3>4 DEF CodeIsTrue, Before, QueueTypes, StepGoesOn
    <3> QED BY <3>3, <3>4
  <2> QED BY <2>2, <2>3, <2>4, <2>5
<1>11. CASE Queue!TouchStopFile
  <2>1. stopFile' = TRUE
        /\ UNCHANGED <<keepGoing, step, at, live, checks, kept, told, code, log, finished>>
    BY <1>11 DEF Queue!TouchStopFile
  <2>2. QueueTypes'
    BY <2>1 DEF QueueTypes
  <2>3. OneRuns' /\ StepGoesOn'
    BY <2>1 DEF OneRuns, StepGoesOn
  <2>4. CodesAreTrue'
    <3> SUFFICES ASSUME NEW s \in Queue!Numbers PROVE CodeIsTrue(s)'
      BY DEF CodesAreTrue
    <3>1. CodeIsTrue(s)
      BY DEF CodesAreTrue
    <3>2. Queue!Verified(s)' <=> Queue!Verified(s)
      BY <2>1 DEF Queue!Verified, Queue!Count
    <3>3. CASE s = step
      BY <2>1, <3>1, <3>2, <3>3 DEF CodeIsTrue, Before, QueueTypes, StepGoesOn
    <3>4. CASE s # step
      BY <2>1, <3>1, <3>2, <3>4 DEF CodeIsTrue, Before, QueueTypes, StepGoesOn
    <3> QED BY <3>3, <3>4
  <2> QED BY <2>2, <2>3, <2>4
<1> QED
  BY <1>1, <1>2, <1>3, <1>4, <1>5, <1>6, <1>7, <1>8, <1>9, <1>10, <1>11
  DEF Queue!QueueNext, Queue!Runner

LEMMA QueueStarts ==
  ASSUME BenchAssumption, Queue!QueueInit
  PROVE  QueueInvariant
<1>1. QueueSteps \in Nat /\ QueueChecks \in Nat \ {0} /\ Queue!Numbers = 1..QueueSteps
  BY BenchAssumption DEF Queue!QueueAssumption, Queue!Numbers
<1>2. <<>> \in Seq({"PASS", "FAIL", "UNKNOWN"})
  OBVIOUS
<1>3. /\ keepGoing \in BOOLEAN /\ step = 1 /\ at = "next" /\ live = {} /\ told = {}
      /\ checks = [s \in Queue!Numbers |-> <<>>] /\ kept = [s \in Queue!Numbers |-> "none"]
      /\ code = [s \in Queue!Numbers |-> "none"] /\ log = [s \in Queue!Numbers |-> {}]
      /\ finished = FALSE /\ stopFile = FALSE
  BY DEF Queue!QueueInit
<1>4. QueueTypes
  <2>1. 1 \in 1..(QueueSteps + 1)
    BY <1>1
  <2>2. checks \in [Queue!Numbers -> Seq({"PASS", "FAIL", "UNKNOWN"})]
    BY <1>2, <1>3
  <2> QED BY <1>3, <2>1, <2>2 DEF QueueTypes, Places
<1>5. OneRuns
  BY <1>3 DEF OneRuns
<1>6. StepGoesOn
  BY <1>3 DEF StepGoesOn
<1>7. CodesAreTrue
  BY <1>1, <1>3 DEF CodesAreTrue, CodeIsTrue
<1> QED BY <1>4, <1>5, <1>6, <1>7 DEF QueueInvariant

\* What follows: the promises of a queue.
LEMMA QueueIsProven ==
  ASSUME BenchAssumption, QueueInvariant
  PROVE  Queue!BuiltOnProven /\ Queue!OneAtATime /\ Queue!BoardTells
<1> USE DEF QueueInvariant
<1>0. QueueSteps \in Nat /\ Queue!Numbers = 1..QueueSteps
  BY BenchAssumption DEF Queue!QueueAssumption, Queue!Numbers
<1>1. Queue!BuiltOnProven
  <2>1. ASSUME NEW s \in Queue!Numbers, log[s] # {}, ~keepGoing, NEW before \in 1..(s - 1)
        PROVE  /\ checks[before] # <<>> /\ \A i \in DOMAIN checks[before] : checks[before][i] = "PASS"
               /\ kept[before] = "sealed" /\ before \in told
    <3>1. s <= step /\ before \in Queue!Numbers /\ before < step
      BY <1>0, <2>1 DEF StepGoesOn, QueueTypes
    <3>2. code[before] = "verified"
      BY <2>1, <3>1 DEF CodesAreTrue, CodeIsTrue
    <3> QED BY <3>1, <3>2, VerifiedMeansPassed DEF CodesAreTrue, CodeIsTrue
  <2> QED BY <2>1 DEF Queue!BuiltOnProven
<1>2. Queue!OneAtATime
  <2>1. live = {} \/ \E x : live = {x}
    BY DEF OneRuns
  <2>2. Queue!Cardinality(live) <= 1
    <3>1. Cardinality(live) \in {0, 1}
      BY <2>1, FS_EmptySet, FS_Singleton
    <3> QED BY <3>1, SameCardinality
  <2> QED BY <2>2 DEF Queue!OneAtATime, OneRuns
<1>3. Queue!BoardTells
  <2> SUFFICES ASSUME NEW s \in Queue!Numbers, NEW wordy \in BOOLEAN
               PROVE  /\ Queue!Shown(s, wordy) = "verified" => code[s] = "verified" /\ kept[s] = "sealed"
                      /\ Queue!Shown(s, wordy) = "failed" => code[s] \in {"FAIL", "UNKNOWN", "error"}
                      /\ s < step \/ at \in {"summary", "over"} =>
                           /\ code[s] = "verified" => Queue!Shown(s, wordy) = "verified"
                           /\ code[s] \in {"FAIL", "UNKNOWN"} => Queue!Shown(s, wordy) = "failed"
                      /\ at = "over" => Queue!Shown(s, wordy) \notin {"running", "queued"}
    BY DEF Queue!BoardTells
  <2>1. CASE log[s] = {}
    <3>1. Queue!Shown(s, wordy) = IF finished THEN "not run" ELSE "queued"
      BY <2>1 DEF Queue!Shown
    <3> QED BY ZenonT(40), <1>0, <2>1, <3>1 DEF CodesAreTrue, CodeIsTrue, StepGoesOn, QueueTypes
  <2>2. CASE "report" \in log[s]
    <3>1. Queue!Shown(s, wordy) = IF Queue!Verified(s) THEN "verified" ELSE "failed"
      BY <2>2 DEF Queue!Shown
    <3> QED BY <2>2, <3>1 DEF CodesAreTrue, CodeIsTrue
  <2>3. CASE log[s] # {} /\ "report" \notin log[s]
    <3>1. Queue!Shown(s, wordy) \in {"failed", "stopped", "running"}
      BY <2>3 DEF Queue!Shown
    <3>2. Queue!Shown(s, wordy) = "failed" => "message" \in log[s]
      BY <2>3 DEF Queue!Shown
    <3>3. finished => Queue!Shown(s, wordy) # "running"
      BY <2>3 DEF Queue!Shown
    <3> QED BY <1>0, <2>3, <3>1, <3>2, <3>3 DEF CodesAreTrue, CodeIsTrue, StepGoesOn, QueueTypes
  <2> QED BY <2>1, <2>2, <2>3
<1> QED BY <1>1, <1>2, <1>3

-------------------------------------------------------------------------------
(* The adaptive controller and the integration: the inductive invariant *)

Controls == {"preflight", "step", "planning", "planner", "planned", "done", "dispatching", "writer",
             "written", "verifying", "verified", "scoping", "reviewer", "scoped", "deciding",
             "accepting", "accepted", "exporting", "listing", "raised error", "raised deadline", "raised interrupt",
             "closing", "ended"}

RunStates == Terminal \cup {"preflight", "planning", "dispatching", "verifying"}

\* The steps of a commit; a commit never holds step 0, which stands for no commit at all.
Work == SUBSET (Nat \ {0})

Candidates == [commit : Work \cup {NoCommit}, reasons : SUBSET (Defects \cup {"scope"}),
               checked : BOOLEAN, review : {"none", "approve", "reject", "failed"}]
AcceptedTasks == [step : Nat, cand : Candidates]

RunFiles == [state : RunStates, accepted : Seq(AcceptedTasks)]
Locals == [step : Nat \ {0}, ok : BOOLEAN, plan : {"none", "task", "done", "blocked", "invalid"},
           cand : Candidates, rejections : Nat, accepted : Seq(AcceptedTasks),
           evaluated : {"no", "passed", "failed"}]
Repositories == [ref : Work \cup {NoCommit}, head : Work, branch : BOOLEAN]
Stops == [pc : {"idle", "asked", "done"}, filed : BOOLEAN, since : Nat]
Records == [there : BOOLEAN, commit : Work \cup {NoCommit}, accepted : Seq(AcceptedTasks)]
Manifests == [there : BOOLEAN, stop : BOOLEAN]

AdaptiveTypes ==
  /\ pc \in Controls /\ run \in RunFiles /\ loop \in Locals /\ clock \in 0..2
  /\ repo \in Repositories /\ green \in Work \cup {NoCommit}
  /\ stop \in Stops /\ stray \in SUBSET Nat
  /\ record \in Records /\ manifest \in Manifests
  /\ outcome \in {"none", "returned", "raised"} /\ signals \in Nat

AcceptedSteps == {loop.accepted[i].step : i \in 1..Len(loop.accepted)}

\* Whatever is in the worktree or the candidate was accepted, is the work of the step under way,
\* or that of a writer nothing could stop.
Accountable == AcceptedSteps \cup stray \cup {loop.step}

\* Where the controller has a candidate.
HasCandidate == {"verified", "scoping", "reviewer", "scoped", "deciding", "accepting"}

\* Last-green is the last task of the controller's list ...
Counted ==
  green = IF loop.accepted = <<>> THEN Base ELSE loop.accepted[Len(loop.accepted)].cand.commit

\* ... or an accepted candidate that was not counted yet.
Uncounted == green = loop.cand.commit /\ Accepted(loop.cand) /\ loop.cand \in Candidates

\* An error or an interrupt may have come between two writes.
Untidy ==
  \/ pc \in {"raised error", "raised interrupt"}
  \/ pc = "closing" /\ run.state = "stopped"
  \/ pc = "ended" /\ outcome = "raised"

WorkIsAccounted ==
  /\ green # NoCommit => /\ green \subseteq Accountable
                         /\ Counted => green \subseteq AcceptedSteps \cup stray
  /\ repo.head \subseteq Accountable
  /\ pc \in HasCandidate => loop.cand.commit \in Work /\ loop.cand.commit \subseteq Accountable
  /\ pc = "accepted" => loop.step \in AcceptedSteps

\* Last-green is the last accepted candidate, each of which was; before it, nothing is accepted.
GreenIsLast ==
  /\ \A i \in 1..Len(loop.accepted) : Accepted(loop.accepted[i].cand)
  /\ green # NoCommit => Counted \/ (Uncounted /\ (pc = "accepting" \/ Untidy))
  /\ pc = "accepting" => Uncounted
  /\ green = NoCommit => pc \in {"preflight", "raised error", "raised deadline", "raised interrupt",
                                 "closing", "ended"}
  /\ pc = "preflight" => green = NoCommit /\ loop.accepted = <<>>
  /\ run.accepted = loop.accepted \/ pc = "accepted" \/ Untidy

\* What lets a candidate through was found.
VerdictsCount ==
  /\ pc \in HasCandidate /\ loop.cand.reasons = {} => loop.cand.checked
  /\ pc \in {"scoping", "reviewer"} => loop.cand.reasons = {}
  /\ pc \in {"scoped", "deciding"} /\ loop.cand.reasons = {} => Accepted(loop.cand)

\* The ref is last-green, unless moving it was interrupted or failed.
RefIsGreen == repo.ref = green \/ Untidy

\* What the end of a run has recorded.
OnRecord == record.there /\ record.commit = green /\ record.accepted = loop.accepted

EndIsRecorded ==
  /\ pc \in {"exporting", "listing"} => run.state \in Terminal
  /\ pc = "listing" => OnRecord
  /\ pc = "closing" => \/ run.state = "deadline" /\ OnRecord
                       \/ run.state = "stopped"
  /\ pc = "ended" <=> outcome # "none"
  /\ manifest.there => pc = "ended"
  /\ record.there => /\ green # NoCommit /\ OnRecord
                     /\ pc \in {"listing", "raised error", "raised interrupt", "closing", "ended"}
  /\ outcome = "returned" => run.state \in Terminal /\ manifest.there /\ OnRecord

\* A provider phase begins only before the stop is filed.
StopIsNear ==
  /\ stop.since <= 1
  /\ ~stop.filed => stop.since = 0
  /\ pc \in DOMAIN Phase => stop.since = 0

AdaptiveInvariant ==
  AdaptiveTypes /\ WorkIsAccounted /\ GreenIsLast /\ VerdictsCount /\ RefIsGreen /\ EndIsRecorded
  /\ StopIsNear

\* The integrations that have their branch.
HaveBranch == {"created", "applied", "receipted", "done"}

IntegrationTypes ==
  /\ call \in [Calls -> {"asked", "verified", "compared", "refused", "cut short"} \cup HaveBranch]
  /\ tip \in [Branches -> Work \cup {NoCommit}]
  /\ receipts \in [written : SUBSET Calls, listed : SUBSET Calls]
  /\ source \in {"as found", "dirty", "moved"}

\* What an integration verified stays so: the run is over.
VerifiedStays ==
  \A c \in Calls : call[c] # "asked" =>
    /\ pc = "ended" /\ manifest.there /\ green # NoCommit
    /\ record.there /\ record.commit = green /\ loop.evaluated = "passed"

\* A branch belongs to the one integration that made it.
BranchesAreOwned ==
  /\ \A c \in Calls : call[c] \in HaveBranch =>
       /\ tip[Branch[c]] # NoCommit
       /\ \A d \in Calls : Branch[d] = Branch[c] /\ call[d] \in HaveBranch => d = c
  /\ \A c \in Calls : call[c] \in HaveBranch \ {"created"} => tip[Branch[c]] = green
  /\ \A b \in Branches : tip[b] # NoCommit =>
       \E c \in Calls : Branch[c] = b /\ call[c] \in HaveBranch \cup {"cut short"}

IntegrationInvariant == IntegrationTypes /\ VerifiedStays /\ BranchesAreOwned

-------------------------------------------------------------------------------
(* The adaptive controller: the steps *)

\* What a status written to run.json leaves alone.
LEMMA SaysKeeps ==
  ASSUME AdaptiveTypes, NEW said \in RunStates, Says(said)
  PROVE  run' \in RunFiles /\ run'.accepted = run.accepted /\ run'.state = said
BY DEF AdaptiveTypes, Says, RunFiles

\* Where last-green may be ahead of the list, or the record is there.
Hanging == {"accepting", "accepted", "listing", "raised error", "raised interrupt", "closing"}

\* A step of the controller within one step of the loop: nothing is accepted or recorded by it,
\* and what it adds to the worktree is the work of the step or of a writer nothing could stop.
LEMMA Proceeds ==
  ASSUME AdaptiveInvariant, pc # "ended",
         pc' \in Controls \ {"preflight", "ended", "closing", "listing", "accepting", "accepted"},
         pc \in Hanging => pc' \in {"raised error", "raised interrupt"} /\ UNCHANGED loop,
         UNCHANGED <<green, record, manifest, outcome>>, clock' \in 0..2, signals' \in Nat,
         run' \in RunFiles, run'.accepted = run.accepted,
         pc' = "exporting" => run'.state \in Terminal,
         loop' \in Locals, loop'.step = loop.step, loop'.accepted = loop.accepted,
         stop' \in Stops, StopIsNear',
         stray' \in SUBSET Nat, stray \subseteq stray',
         repo' \in Repositories,
         repo'.head \subseteq repo.head \cup {loop.step} \cup stray',
         repo'.ref = green \/ pc' \in {"raised error", "raised interrupt"},
         green = NoCommit => pc' \in {"raised error", "raised deadline", "raised interrupt"},
         pc' \in HasCandidate =>
           \/ pc \in HasCandidate /\ loop'.cand.commit = loop.cand.commit
           \/ loop'.cand.commit = repo.head,
         VerdictsCount'
  PROVE  AdaptiveInvariant'
<1> USE DEF AdaptiveInvariant
<1>1. AdaptiveTypes'
  BY DEF AdaptiveTypes
<1>2. AcceptedSteps' = AcceptedSteps /\ Accountable \subseteq Accountable'
  BY DEF AcceptedSteps, Accountable
<1>3. WorkIsAccounted'
  <2>1. green' # NoCommit => /\ green' \subseteq Accountable'
                             /\ Counted' => green' \subseteq AcceptedSteps' \cup stray'
    BY <1>2 DEF WorkIsAccounted, Counted
  <2>2. repo'.head \subseteq Accountable'
    BY <1>2 DEF WorkIsAccounted, Accountable
  <2>3. pc' \in HasCandidate => loop'.cand.commit \in Work /\ loop'.cand.commit \subseteq Accountable'
    BY <1>2 DEF WorkIsAccounted, AdaptiveTypes, Repositories
  <2> QED BY <2>1, <2>2, <2>3 DEF WorkIsAccounted
<1>7. Untidy => Untidy'
  BY DEF Untidy, Hanging
<1>4. GreenIsLast'
  <2>1. pc = "accepting" \/ Untidy => Untidy' /\ UNCHANGED loop
    BY DEF Untidy, Hanging
  <2>2. green' # NoCommit => Counted' \/ (Uncounted' /\ Untidy')
    <3>1. CASE Counted
      BY <3>1 DEF Counted
    <3>2. CASE ~Counted
      BY <2>1, <3>2 DEF GreenIsLast, Uncounted, Accepted
    <3> QED BY <3>1, <3>2
  <2>3. run'.accepted = loop'.accepted \/ Untidy'
    BY <1>7 DEF GreenIsLast, Untidy, Hanging
  <2> QED BY <2>2, <2>3 DEF GreenIsLast, Accepted
<1>5. RefIsGreen'
  BY <1>7 DEF RefIsGreen, Untidy
<1>6. EndIsRecorded'
  BY DEF EndIsRecorded, OnRecord, Hanging
<1> QED BY <1>1, <1>3, <1>4, <1>5, <1>6

\* Where the ref is last-green, and last-green there.
LEMMA Underway ==
  ASSUME AdaptiveInvariant,
         pc \notin {"preflight", "raised error", "raised deadline", "raised interrupt", "closing", "ended"}
  PROVE  green # NoCommit /\ repo.ref = green
BY DEF AdaptiveInvariant, GreenIsLast, RefIsGreen, Untidy

LEMMA PhasesAre == DOMAIN Phase = {"planning", "dispatching", "scoping"}
BY DEF Phase

\* The steps that change nothing but where the controller is, its status and the stop.
LEMMA Moves ==
  ASSUME AdaptiveInvariant, TopOfLoop \/ Invoke \/ ReadPlan \/ AfterWriting \/ AfterVerification
                            \/ AfterReview
  PROVE  AdaptiveInvariant'
<1> USE DEF AdaptiveInvariant
<1>1. UNCHANGED <<loop, repo, green, stray, record, manifest, outcome, clock, signals>>
  BY DEF TopOfLoop, Invoke, ReadPlan, AfterWriting, AfterVerification, AfterReview, Halts, Leaves, Keeps
<1>2. pc \in {"step", "planning", "dispatching", "scoping", "planned", "written", "verified", "scoped"}
  BY PhasesAre DEF TopOfLoop, Invoke, ReadPlan, AfterWriting, AfterVerification, AfterReview
<1>3. green # NoCommit /\ repo.ref = green
  BY <1>2, Underway
<1>4. /\ run' \in RunFiles /\ run'.accepted = run.accepted
      /\ pc' = "exporting" => run'.state \in Terminal
      /\ pc' \in Controls \ {"preflight", "ended", "closing", "listing", "accepting", "accepted"}
  <2>1. CASE Invoke
    <3>1. pc' \in {"planner", "writer", "reviewer"} /\ UNCHANGED run
      BY <2>1, PhasesAre DEF Invoke, Goes, Phase
    <3> QED BY <3>1 DEF AdaptiveTypes, Controls
  <2>2. ASSUME NEW said \in Terminal, Leaves(said)
        PROVE  run' \in RunFiles /\ run'.accepted = run.accepted /\ run'.state \in Terminal /\ pc' = "exporting"
    BY <2>2, SaysKeeps DEF Leaves, Goes, RunStates
  <2>3. ASSUME NEW said \in RunStates, Says(said), NEW where \in {"planning", "dispatching", "verifying"},
               Goes(where)
        PROVE  run' \in RunFiles /\ run'.accepted = run.accepted /\ pc' = where
    BY <2>3, SaysKeeps DEF Goes
  <2>4. CASE TopOfLoop
    BY <2>4, <2>2, <2>3 DEF TopOfLoop, Halts, Terminal, RunStates, Controls
  <2>5. CASE ReadPlan
    <3>1. CASE pc' = "done" /\ UNCHANGED run
      BY <3>1 DEF AdaptiveTypes, Controls
    <3>2. CASE ~(pc' = "done" /\ UNCHANGED run)
      BY <2>5, <3>2, <2>2, <2>3 DEF ReadPlan, Terminal, RunStates, Controls, Goes
    <3> QED BY <3>1, <3>2
  <2>6. CASE AfterWriting
    BY <2>6, <2>2, <2>3 DEF AfterWriting, Halts, Terminal, RunStates, Controls
  <2>7. CASE AfterVerification
    <3>1. CASE Halts
      BY <3>1, <2>2 DEF Halts, Terminal, Controls
    <3>2. CASE ~Halts
      BY <2>7, <3>2 DEF AfterVerification, Goes, AdaptiveTypes, Controls
    <3> QED BY <3>1, <3>2
  <2>8. CASE AfterReview
    <3>1. CASE Halts
      BY <3>1, <2>2 DEF Halts, Terminal, Controls
    <3>2. CASE ~Halts
      BY <2>8, <3>2 DEF AfterReview, Goes, AdaptiveTypes, Controls
    <3> QED BY <3>1, <3>2
  <2> QED BY <2>1, <2>4, <2>5, <2>6, <2>7, <2>8
<1>5. stop' \in Stops /\ StopIsNear'
  <2>1. CASE Invoke
    <3>1. stop' = [stop EXCEPT !.since = IF stop.filed THEN stop.since + 1 ELSE stop.since]
      BY <2>1 DEF Invoke
    <3>2. stop.since = 0 /\ pc' \notin DOMAIN Phase
      BY <2>1, PhasesAre DEF Invoke, StopIsNear, Goes, Phase
    <3>3. stop \in Stops
      BY DEF AdaptiveTypes
    <3>4. stop' \in Stops /\ stop'.filed = stop.filed /\ stop'.since = IF stop.filed THEN 1 ELSE 0
      BY <3>1, <3>2, <3>3 DEF Stops
    <3> QED BY <3>2, <3>4 DEF StopIsNear
  <2>2. CASE ~Invoke
    <3>1. UNCHANGED stop /\ (pc' \in DOMAIN Phase => ~stop.filed)
      BY <2>2, PhasesAre DEF TopOfLoop, ReadPlan, AfterWriting, AfterVerification, AfterReview, Halts,
         Leaves, Goes
    <3> QED BY <3>1 DEF StopIsNear, AdaptiveTypes
  <2> QED BY <2>1, <2>2
<1>6. VerdictsCount' /\ (pc' \in HasCandidate => pc \in HasCandidate)
  <2>1. CASE TopOfLoop \/ ReadPlan \/ AfterWriting
    <3>1. pc' \in {"exporting", "planning", "dispatching", "done", "verifying"}
      BY <2>1 DEF TopOfLoop, ReadPlan, AfterWriting, Halts, Leaves, Goes
    <3> QED BY <3>1 DEF VerdictsCount, HasCandidate
  <2>2. CASE Invoke
    <3>1. pc' \in {"planner", "writer"} \/ (pc = "scoping" /\ pc' = "reviewer")
      BY <2>2, PhasesAre DEF Invoke, Goes, Phase
    <3> QED BY <1>1, <3>1 DEF VerdictsCount, HasCandidate
  <2>3. CASE AfterVerification
    <3>1. /\ pc = "verified"
          /\ \/ pc' = "exporting"
             \/ pc' = "scoping" /\ loop.cand.reasons = {}
             \/ pc' = "deciding" /\ (loop.cand.reasons = {} => ~Hackathon)
      BY <2>3 DEF AfterVerification, Halts, Leaves, Goes
    <3> QED BY <1>1, <3>1 DEF VerdictsCount, HasCandidate, Accepted
  <2>4. CASE AfterReview
    <3>1. pc = "scoped" /\ pc' \in {"exporting", "deciding"}
      BY <2>4 DEF AfterReview, Halts, Leaves, Goes
    <3> QED BY <1>1, <3>1 DEF VerdictsCount, HasCandidate, Accepted
  <2> QED BY <2>1, <2>2, <2>3, <2>4
<1>7. /\ pc # "ended" /\ clock' \in 0..2 /\ signals' \in Nat /\ loop' \in Locals
      /\ stray' \in SUBSET Nat /\ repo' \in Repositories
  BY <1>1, <1>2 DEF AdaptiveTypes
<1> QED BY <1>1, <1>2, <1>3, <1>4, <1>5, <1>6, <1>7, Proceeds DEF Hanging

\* A candidate as it was frozen and evaluated.
LEMMA JudgedFacts ==
  ASSUME AdaptiveTypes, NEW more \in SUBSET Defects
  PROVE  /\ Judged(more) \in Candidates /\ Judged(more).commit = repo.head
         /\ Judged(more).reasons = {} => Judged(more).checked
<1> DEFINE why == Reasons(more \cup IF Late THEN {"unfreezable"} ELSE {})
           checked_ == loop.ok /\ repo.branch /\ ~Late /\ more = {}
<1>1. loop \in Locals /\ repo \in Repositories
  BY DEF AdaptiveTypes
<1>2. why \in SUBSET (Defects \cup {"scope"}) /\ (why = {} => checked_) /\ checked_ \in BOOLEAN
  BY <1>1 DEF Reasons, Defects, Locals, Repositories
<1>3. Judged(more) = [commit |-> repo.head, reasons |-> why, checked |-> checked_, review |-> "none"]
  BY DEF Judged
<1> HIDE DEF why, checked_
<1> QED BY <1>1, <1>2, <1>3 DEF Candidates, Repositories

\* The end that `done' comes to.
LEMMA ConcludesFacts ==
  ASSUME AdaptiveTypes, Concludes
  PROVE  /\ pc' = "exporting"
         /\ loop' \in Locals /\ loop'.step = loop.step /\ loop'.accepted = loop.accepted
         /\ run' \in RunFiles /\ run'.accepted = run.accepted /\ run'.state \in Terminal
<1>1. loop \in Locals /\ run \in RunFiles
  BY DEF AdaptiveTypes
<1>2. PICK passes \in {"passed", "failed"} :
        /\ loop' = [loop EXCEPT !.evaluated = passes]
        /\ Says(IF passes = "passed" THEN "complete" ELSE "blocked")
  <2>1. loop.evaluated \in {"no", "passed", "failed"}
    BY <1>1 DEF Locals
  <2> QED BY <2>1 DEF Concludes
<1>3. loop' \in Locals /\ loop'.step = loop.step /\ loop'.accepted = loop.accepted
  BY <1>1, <1>2 DEF Locals
<1>4. run' \in RunFiles /\ run'.accepted = run.accepted /\ run'.state \in Terminal
  BY <1>2, SaysKeeps DEF RunStates, Terminal
<1> QED BY <1>3, <1>4 DEF Concludes, Goes

\* The steps that answer for the planner, the writer, the reviewer or the checks.
LEMMA Answers ==
  ASSUME AdaptiveInvariant, Planned \/ Done \/ Written \/ Verify \/ Reviewed \/ RejectRefused
  PROVE  AdaptiveInvariant'
<1> USE DEF AdaptiveInvariant
<1>1. UNCHANGED <<green, stop, stray, record, manifest, outcome, clock, signals>>
  BY ZenonT(40) DEF Planned, Done, Written, Verify, Reviewed, RejectRefused, Keeps
<1>2. pc \in {"planner", "done", "writer", "verifying", "reviewer", "deciding"}
  BY DEF Planned, Done, Written, Verify, Reviewed, RejectRefused
<1>3. green # NoCommit /\ repo.ref = green
  BY <1>2, Underway
<1>4. /\ pc # "ended" /\ clock' \in 0..2 /\ signals' \in Nat /\ stray' \in SUBSET Nat
      /\ stop' \in Stops /\ loop \in Locals /\ repo \in Repositories /\ run \in RunFiles
  BY <1>1, <1>2 DEF AdaptiveTypes
<1>5. pc' \notin DOMAIN Phase => StopIsNear'
  BY <1>1 DEF StopIsNear
<1>6. CASE Planned
  <2>1. PICK ok \in BOOLEAN, plan \in {"task", "done", "blocked", "invalid"} :
          loop' = [loop EXCEPT !.ok = ok, !.plan = plan]
    BY <1>6 DEF Planned
  <2>2. pc' = "planned" /\ UNCHANGED <<run, repo>>
    BY <1>6 DEF Planned, Goes
  <2>3. loop' \in Locals /\ loop'.step = loop.step /\ loop'.accepted = loop.accepted
    BY <1>4, <2>1 DEF Locals
  <2>4. VerdictsCount' /\ StopIsNear' /\ pc' \in Controls \ {"preflight", "ended", "closing", "listing", "accepting", "accepted"}
    BY <1>5, <2>2, PhasesAre DEF VerdictsCount, HasCandidate, Controls
  <2> QED BY <1>1, <1>2, <1>3, <1>4, <2>2, <2>3, <2>4, Proceeds DEF HasCandidate, Hanging
<1>7. CASE Done
  <2>1. Concludes /\ UNCHANGED repo
    BY <1>7 DEF Done
  <2>2. VerdictsCount' /\ StopIsNear' /\ pc' \in Controls \ {"preflight", "ended", "closing", "listing", "accepting", "accepted"}
    BY <1>5, <2>1, ConcludesFacts, PhasesAre DEF VerdictsCount, HasCandidate, Controls
  <2> QED BY <1>1, <1>2, <1>3, <1>4, <2>1, <2>2, ConcludesFacts, Proceeds DEF HasCandidate, Hanging
<1>8. CASE Written
  <2>1. PICK ok \in BOOLEAN, left \in BOOLEAN :
          /\ loop' = [loop EXCEPT !.ok = ok]
          /\ repo' = [repo EXCEPT !.head = repo.head \cup {loop.step}, !.branch = left]
    BY <1>8 DEF Written
  <2>2. pc' = "written" /\ UNCHANGED run
    BY <1>8 DEF Written, Goes
  <2>3. loop' \in Locals /\ loop'.step = loop.step /\ loop'.accepted = loop.accepted
    BY <1>4, <2>1 DEF Locals
  <2>4. /\ repo' \in Repositories /\ repo'.ref = repo.ref
        /\ repo'.head \subseteq repo.head \cup {loop.step} \cup stray'
    <3>1. repo.head \cup {loop.step} \in Work
      BY <1>4 DEF Repositories, Locals, Work
    <3> QED BY <1>4, <2>1, <3>1 DEF Repositories
  <2>5. VerdictsCount' /\ StopIsNear' /\ pc' \in Controls \ {"preflight", "ended", "closing", "listing", "accepting", "accepted"}
    BY <1>5, <2>2, PhasesAre DEF VerdictsCount, HasCandidate, Controls
  <2> QED BY <1>1, <1>2, <1>3, <1>4, <2>2, <2>3, <2>4, <2>5, Proceeds DEF HasCandidate, Hanging
<1>9. CASE Verify
  <2>1. PICK more \in {{}} \cup {{d} : d \in Defects \ {"writer", "branch"}} :
          loop' = [loop EXCEPT !.cand = Judged(more)]
    BY <1>9 DEF Verify
  <2>2. pc' = "verified" /\ UNCHANGED <<run, repo>>
    BY <1>9 DEF Verify, Goes
  <2> DEFINE now == Judged(more)
  <2>5. now \in Candidates /\ now.commit = repo.head /\ (now.reasons = {} => now.checked)
    BY JudgedFacts DEF Defects
  <2>4. loop' = [loop EXCEPT !.cand = now]
    BY <2>1
  <2> HIDE DEF now
  <2>6. loop' \in Locals /\ loop'.step = loop.step /\ loop'.accepted = loop.accepted /\ loop'.cand = now
    BY <1>4, <2>4, <2>5 DEF Locals
  <2>7. VerdictsCount'
    BY <2>2, <2>5, <2>6 DEF VerdictsCount, HasCandidate
  <2>8. StopIsNear' /\ pc' \in Controls \ {"preflight", "ended", "closing", "listing", "accepting", "accepted"}
    BY <1>5, <2>2, PhasesAre DEF Controls
  <2> QED BY <1>1, <1>2, <1>3, <1>4, <2>2, <2>5, <2>6, <2>7, <2>8, Proceeds DEF Hanging
<1>10. CASE Reviewed
  <2>1. PICK verdict \in {"approve", "reject", "failed"} :
          loop' = [loop EXCEPT !.cand.review = verdict,
                               !.cand.reasons = IF verdict = "approve" THEN {} ELSE {"scope"}]
    BY <1>10 DEF Reviewed
  <2>2. pc = "reviewer" /\ pc' = "scoped" /\ UNCHANGED <<run, repo>>
    BY <1>10 DEF Reviewed, Goes
  <2>3. loop.cand \in Candidates /\ loop.cand.checked
    BY <1>4, <2>2 DEF Locals, VerdictsCount, HasCandidate
  <2> DEFINE now == [loop.cand EXCEPT !.review = verdict,
                                      !.reasons = IF verdict = "approve" THEN {} ELSE {"scope"}]
  <2>4. now \in Candidates /\ now.commit = loop.cand.commit /\ (now.reasons = {} => Accepted(now))
    BY <2>3 DEF Candidates, Accepted
  <2>5. loop' = [loop EXCEPT !.cand = now]
    BY <1>4, <2>1 DEF Locals
  <2> HIDE DEF now
  <2>6. loop' \in Locals /\ loop'.step = loop.step /\ loop'.accepted = loop.accepted /\ loop'.cand = now
    BY <1>4, <2>4, <2>5 DEF Locals
  <2>7. VerdictsCount'
    BY <2>2, <2>4, <2>6 DEF VerdictsCount, HasCandidate, Accepted
  <2>8. StopIsNear' /\ pc' \in Controls \ {"preflight", "ended", "closing", "listing", "accepting", "accepted"}
    BY <1>5, <2>2, PhasesAre DEF Controls
  <2> QED BY <1>1, <1>2, <1>3, <1>4, <2>2, <2>4, <2>6, <2>7, <2>8, Proceeds DEF HasCandidate, Hanging
<1>11. CASE RejectRefused
  <2>1. /\ pc' = "raised error" /\ UNCHANGED <<run, repo>>
        /\ loop' = [loop EXCEPT !.rejections = loop.rejections + 1]
    BY <1>11 DEF RejectRefused, Goes
  <2>2. loop' \in Locals /\ loop'.step = loop.step /\ loop'.accepted = loop.accepted
    <3>1. loop.rejections + 1 \in Nat
      BY <1>4 DEF Locals
    <3> QED BY <1>4, <2>1, <3>1 DEF Locals
  <2>3. VerdictsCount' /\ StopIsNear' /\ pc' \in Controls \ {"preflight", "ended", "closing", "listing", "accepting", "accepted"}
    BY <1>5, <2>1, PhasesAre DEF VerdictsCount, HasCandidate, Controls
  <2> QED BY <1>1, <1>2, <1>3, <1>4, <2>1, <2>2, <2>3, Proceeds DEF HasCandidate, Hanging
<1> QED BY SMTT(30), <1>6, <1>7, <1>8, <1>9, <1>10, <1>11

\* What may go wrong in a step, and what a writer nothing could stop goes on doing.
LEMMA GoesWrong ==
  ASSUME AdaptiveInvariant, OutOfTime \/ Breaks \/ Interrupt \/ Unstopped \/ StrayWrites
  PROVE  AdaptiveInvariant'
<1> USE DEF AdaptiveInvariant
<1>1. /\ clock \in 0..2 /\ signals \in Nat /\ stray \in SUBSET Nat
      /\ stop \in Stops /\ loop \in Locals /\ repo \in Repositories /\ run \in RunFiles
      /\ green \in Work \cup {NoCommit}
  BY DEF AdaptiveTypes
<1>2. pc' \notin DOMAIN Phase /\ UNCHANGED stop => StopIsNear'
  BY DEF StopIsNear
<1>3. pc' \notin HasCandidate /\ pc' # "verifying" => VerdictsCount'
  BY DEF VerdictsCount, HasCandidate
<1>4. CASE OutOfTime
  <2>1. /\ pc \in {"preflight", "done", "deciding", "planning", "dispatching", "scoping"}
        /\ pc' = "raised deadline"
        /\ UNCHANGED <<run, loop, repo, green, stop, clock, stray, record, manifest, outcome, signals>>
    BY <1>4 DEF OutOfTime, Goes, Keeps
  <2>2. repo.ref = green
    BY <2>1 DEF RefIsGreen, Untidy
  <2>3. StopIsNear' /\ VerdictsCount' /\ pc' \in Controls \ {"preflight", "ended", "closing", "listing", "accepting", "accepted"}
        /\ pc' \notin HasCandidate
    BY <1>2, <1>3, <2>1, PhasesAre DEF HasCandidate, Controls
  <2> QED BY <1>1, <2>1, <2>2, <2>3, Proceeds DEF Hanging
<1>5. CASE Breaks \/ Interrupt
  <2>1. /\ pc' \in {"raised error", "raised interrupt"} /\ signals' \in Nat
        /\ UNCHANGED <<run, loop, green, stop, clock, stray, record, manifest, outcome>>
    <3>1. CASE Breaks
      BY <1>1, <3>1 DEF Breaks, Goes, Keeps
    <3>2. CASE Interrupt
      <4>1. /\ pc' = "raised interrupt" /\ signals' = 1
            /\ UNCHANGED <<run, loop, green, stop, clock, stray, record, manifest, outcome>>
        BY <3>2 DEF Interrupt, Goes
      <4> QED BY <4>1
    <3> QED BY <1>5, <3>1, <3>2
  <2>2. pc # "ended"
    BY <1>5 DEF Breaks, Interrupt, EndIsRecorded
  <2>3. repo' \in Repositories /\ repo'.head = repo.head
    <3>1. CASE UNCHANGED repo
      BY <1>1, <3>1
    <3>2. CASE ~UNCHANGED repo
      <4>1. pc = "deciding" /\ repo' = [repo EXCEPT !.ref = loop.cand.commit]
        BY <1>5, <3>2 DEF Breaks, Interrupt, RefMoved
      <4>2. loop.cand.commit \in Work
        BY <4>1 DEF WorkIsAccounted, HasCandidate
      <4> QED BY <1>1, <4>1, <4>2 DEF Repositories
    <3> QED BY <3>1, <3>2
  <2>4. StopIsNear' /\ VerdictsCount' /\ pc' \in Controls \ {"preflight", "ended", "closing", "listing", "accepting", "accepted"}
        /\ pc' \notin HasCandidate
    BY <1>2, <1>3, <2>1, PhasesAre DEF HasCandidate, Controls
  <2> QED BY <1>1, <2>1, <2>2, <2>3, <2>4, Proceeds DEF Hanging
<1>6. CASE Unstopped
  <2>1. /\ pc \in {"planner", "writer", "reviewer", "verifying", "done"} /\ signals' \in Nat
        /\ UNCHANGED <<clock, repo, green, stop, record, manifest, outcome>>
    BY <1>1, <1>6 DEF Unstopped
  <2>2. stray' \in SUBSET Nat /\ stray \subseteq stray'
    BY <1>1, <1>6 DEF Unstopped, Locals
  <2>3. green # NoCommit /\ repo.ref = green
    BY <2>1, Underway
  <2>4. \/ pc' \in {"planned", "written"} /\ loop' = [loop EXCEPT !.ok = FALSE] /\ UNCHANGED run
        \/ /\ pc = "reviewer" /\ pc' = "scoped" /\ UNCHANGED run
           /\ loop' = [loop EXCEPT !.cand.review = "failed", !.cand.reasons = {"scope"}]
        \/ /\ pc = "verifying" /\ pc' = "verified" /\ UNCHANGED run
           /\ \E more \in {{}, {"check"}} : loop' = [loop EXCEPT !.cand = Judged(more)]
        \/ Concludes
    BY <1>6 DEF Unstopped, Goes
  <2>5. loop.cand \in Candidates /\ repo.head \in Work
    BY <1>1 DEF Locals, Repositories
  <2>6. pc' # "exporting" => StopIsNear' /\ pc' \in Controls \ {"preflight", "ended", "closing", "listing", "accepting", "accepted"}
    BY <1>2, <2>1, <2>4, ConcludesFacts, PhasesAre DEF Controls
  <2>7. CASE pc' \in {"planned", "written"} /\ loop' = [loop EXCEPT !.ok = FALSE] /\ UNCHANGED run
    <3>1. loop' \in Locals /\ loop'.step = loop.step /\ loop'.accepted = loop.accepted
      BY <1>1, <2>7 DEF Locals
    <3>2. VerdictsCount' /\ pc' \notin HasCandidate
      BY <1>3, <2>7 DEF HasCandidate
    <3> QED BY <1>1, <2>1, <2>2, <2>3, <2>6, <2>7, <3>1, <3>2, Proceeds DEF Hanging
  <2>8. CASE /\ pc = "reviewer" /\ pc' = "scoped" /\ UNCHANGED run
             /\ loop' = [loop EXCEPT !.cand.review = "failed", !.cand.reasons = {"scope"}]
    <3> DEFINE now == [loop.cand EXCEPT !.review = "failed", !.reasons = {"scope"}]
    <3>1. now \in Candidates /\ now.commit = loop.cand.commit /\ now.reasons # {}
      BY <2>5 DEF Candidates
    <3>2. loop' = [loop EXCEPT !.cand = now]
      BY <1>1, <2>8 DEF Locals
    <3> HIDE DEF now
    <3>3. loop' \in Locals /\ loop'.step = loop.step /\ loop'.accepted = loop.accepted /\ loop'.cand = now
      BY <1>1, <3>1, <3>2 DEF Locals
    <3>4. VerdictsCount'
      BY <2>8, <3>1, <3>3 DEF VerdictsCount, HasCandidate
    <3> QED BY <1>1, <2>1, <2>2, <2>3, <2>6, <2>8, <3>1, <3>3, <3>4, Proceeds DEF HasCandidate, Hanging
  <2>9. CASE /\ pc = "verifying" /\ pc' = "verified" /\ UNCHANGED run
             /\ \E more \in {{}, {"check"}} : loop' = [loop EXCEPT !.cand = Judged(more)]
    <3>1. PICK more \in {{}, {"check"}} : loop' = [loop EXCEPT !.cand = Judged(more)]
      BY <2>9
    <3> DEFINE now == Judged(more)
    <3>2. now \in Candidates /\ now.commit = repo.head /\ (now.reasons = {} => now.checked)
      BY JudgedFacts DEF Defects
    <3>3. loop' = [loop EXCEPT !.cand = now]
      BY <3>1
    <3> HIDE DEF now
    <3>4. loop' \in Locals /\ loop'.step = loop.step /\ loop'.accepted = loop.accepted /\ loop'.cand = now
      BY <1>1, <3>2, <3>3 DEF Locals
    <3>5. VerdictsCount'
      BY <2>9, <3>2, <3>4 DEF VerdictsCount, HasCandidate
    <3> QED BY <1>1, <2>1, <2>2, <2>3, <2>6, <2>9, <3>2, <3>4, <3>5, Proceeds DEF HasCandidate, Hanging
  <2>10. CASE Concludes
    <3>1. VerdictsCount' /\ StopIsNear' /\ pc' \in Controls \ {"preflight", "ended", "closing", "listing", "accepting", "accepted"}
      BY <1>2, <1>3, <2>1, <2>10, ConcludesFacts, PhasesAre DEF HasCandidate, Controls
    <3> QED BY <1>1, <2>1, <2>2, <2>3, <2>10, <3>1, ConcludesFacts, Proceeds DEF HasCandidate, Hanging
  <2> QED BY <2>4, <2>7, <2>8, <2>9, <2>10
<1>7. CASE StrayWrites
  <2>1. UNCHANGED <<pc, run, loop, clock, green, stop, stray, record, manifest, outcome, signals>>
    BY <1>7 DEF StrayWrites
  <2>2. PICK s \in stray \ {0} : repo' = [repo EXCEPT !.head = repo.head \cup {s}]
    BY <1>7 DEF StrayWrites
  <2>3. repo' \in Repositories /\ repo'.ref = repo.ref /\ repo'.head = repo.head \cup {s}
    <3>1. repo.head \cup {s} \in Work
      BY <1>1, <2>2 DEF Repositories, Work
    <3> QED BY <1>1, <2>2, <3>1 DEF Repositories
  <2>4. AdaptiveTypes'
    BY <2>1, <2>3 DEF AdaptiveTypes
  <2>5. WorkIsAccounted'
    <3>1. AcceptedSteps' = AcceptedSteps /\ Accountable' = Accountable
      BY <2>1 DEF AcceptedSteps, Accountable
    <3> QED BY <2>1, <2>2, <2>3, <3>1 DEF WorkIsAccounted, Accountable, Counted
  <2>6. GreenIsLast' /\ VerdictsCount'
    BY <2>1 DEF GreenIsLast, VerdictsCount, Accepted, Counted, Uncounted, Untidy
  <2>7. RefIsGreen' /\ EndIsRecorded' /\ StopIsNear'
    BY <2>1, <2>3 DEF RefIsGreen, EndIsRecorded, OnRecord, StopIsNear, Untidy
  <2> QED BY <2>4, <2>5, <2>6, <2>7
<1> QED BY <1>4, <1>5, <1>6, <1>7

\* What Append does to a sequence of accepted tasks.
LEMMA AcceptedGrows ==
  ASSUME NEW s \in Seq(AcceptedTasks), NEW t \in AcceptedTasks
  PROVE  /\ Append(s, t) \in Seq(AcceptedTasks) /\ Append(s, t) # <<>>
         /\ Len(s) \in Nat /\ Len(Append(s, t)) = Len(s) + 1
         /\ \A i \in 1..Len(s) : Append(s, t)[i] = s[i]
         /\ Append(s, t)[Len(s) + 1] = t
BY AppendProperties, LenProperties

\* Preflight, the two verdicts on a candidate, and the records of the first.
LEMMA Decides ==
  ASSUME AdaptiveInvariant, Preflight \/ Accept \/ Count \/ Tell \/ Reject
  PROVE  AdaptiveInvariant'
<1> USE DEF AdaptiveInvariant
<1>1. /\ clock \in 0..2 /\ signals \in Nat /\ stray \in SUBSET Nat /\ stop \in Stops
      /\ loop \in Locals /\ repo \in Repositories /\ run \in RunFiles /\ green \in Work \cup {NoCommit}
      /\ record \in Records /\ manifest \in Manifests /\ outcome \in {"none", "returned", "raised"}
  BY DEF AdaptiveTypes
<1>2. UNCHANGED <<stop, clock, stray, record, manifest, outcome, signals>>
  BY DEF Preflight, Accept, Count, Tell, Reject, Keeps
<1>3. Base \in Work /\ Base # NoCommit
  BY DEF Base, NoCommit, Work
<1>4. pc' \notin DOMAIN Phase => StopIsNear'
  BY <1>2 DEF StopIsNear
<1>5. pc' \notin HasCandidate => VerdictsCount'
  BY DEF VerdictsCount, HasCandidate
<1>6. pc \in {"preflight", "deciding", "accepting", "accepted"} /\ outcome = "none" /\ ~record.there
  BY DEF Preflight, Accept, Count, Tell, Reject, EndIsRecorded
<1>7. CASE Preflight
  <2>1. /\ pc' = "step" /\ green' = Base /\ repo' = [repo EXCEPT !.ref = Base]
        /\ UNCHANGED <<run, loop>> /\ loop.accepted = <<>> /\ run.accepted = loop.accepted
    BY <1>7 DEF Preflight, Goes, GreenIsLast, Untidy
  <2>2. repo' \in Repositories /\ repo'.ref = Base /\ repo'.head = repo.head
    BY <1>1, <1>3, <2>1 DEF Repositories
  <2>3. AdaptiveTypes'
    BY <1>1, <1>2, <1>3, <2>1, <2>2 DEF AdaptiveTypes, Controls
  <2>4. WorkIsAccounted'
    <3>1. AcceptedSteps' = AcceptedSteps /\ Accountable' = Accountable
      BY <1>2, <2>1 DEF AcceptedSteps, Accountable
    <3> QED BY <1>2, <2>1, <2>2, <3>1 DEF WorkIsAccounted, HasCandidate, Base
  <2>5. GreenIsLast'
    BY <1>3, <2>1 DEF GreenIsLast, Accepted, Counted, Untidy
  <2>6. RefIsGreen' /\ EndIsRecorded'
    BY <1>2, <1>3, <1>6, <2>1, <2>2 DEF RefIsGreen, EndIsRecorded
  <2>7. VerdictsCount' /\ StopIsNear'
    BY <1>4, <1>5, <2>1, PhasesAre DEF HasCandidate
  <2> QED BY <2>3, <2>4, <2>5, <2>6, <2>7
<1>8. CASE Accept
  <2>1. /\ pc = "deciding" /\ loop.cand.reasons = {} /\ repo.ref = green
        /\ pc' = "accepting" /\ green' = loop.cand.commit /\ UNCHANGED run
        /\ repo' = [repo EXCEPT !.ref = loop.cand.commit]
        /\ loop' = [loop EXCEPT !.evaluated = "passed"]
    BY <1>8 DEF Accept, Goes
  <2>2. /\ loop.cand \in Candidates /\ loop.cand.commit \in Work /\ Accepted(loop.cand)
        /\ loop.cand.commit \subseteq Accountable /\ loop.cand.commit # NoCommit
    BY <1>1, <2>1 DEF Locals, WorkIsAccounted, HasCandidate, VerdictsCount, Work, NoCommit
  <2>3. /\ loop' \in Locals /\ loop'.step = loop.step /\ loop'.accepted = loop.accepted
        /\ loop'.cand = loop.cand
    BY <1>1, <2>1 DEF Locals
  <2>4. green # NoCommit /\ Counted /\ run.accepted = loop.accepted
    BY <2>1, Underway DEF GreenIsLast, Untidy
  <2>5. repo' \in Repositories /\ repo'.ref = loop.cand.commit /\ repo'.head = repo.head
    BY <1>1, <2>1, <2>2 DEF Repositories
  <2>6. AdaptiveTypes'
    BY <1>1, <1>2, <2>1, <2>2, <2>3, <2>5 DEF AdaptiveTypes, Controls
  <2>7. WorkIsAccounted'
    <3>1. AcceptedSteps' = AcceptedSteps /\ Accountable' = Accountable
      BY <1>2, <2>3 DEF AcceptedSteps, Accountable
    <3>2. Counted' => green' = green
      BY <2>3, <2>4 DEF Counted
    <3> QED BY <1>2, <2>1, <2>2, <2>3, <2>4, <2>5, <3>1, <3>2 DEF WorkIsAccounted
  <2>8. GreenIsLast'
    BY <2>1, <2>2, <2>3, <2>4 DEF GreenIsLast, Uncounted, Accepted
  <2>9. RefIsGreen' /\ EndIsRecorded'
    BY <1>2, <1>6, <2>1, <2>5 DEF RefIsGreen, EndIsRecorded
  <2>10. VerdictsCount' /\ StopIsNear'
    BY <1>4, <2>1, <2>2, <2>3, PhasesAre DEF VerdictsCount, Accepted
  <2> QED BY <2>6, <2>7, <2>8, <2>9, <2>10
<1>10. CASE Count
  <2> DEFINE task == [step |-> loop.step, cand |-> loop.cand]
             more == Append(loop.accepted, task)
  <2>1. /\ pc = "accepting" /\ pc' = "accepted" /\ UNCHANGED <<run, repo, green>>
        /\ loop' = [loop EXCEPT !.accepted = more, !.rejections = 0]
    BY <1>10 DEF Count, Goes
  <2>2. /\ loop.cand \in Candidates /\ Accepted(loop.cand) /\ green = loop.cand.commit
        /\ green # NoCommit /\ loop.step \in Nat \ {0} /\ loop.accepted \in Seq(AcceptedTasks)
    BY <1>1, <2>1, Underway DEF Locals, GreenIsLast, Uncounted
  <2>3. task \in AcceptedTasks /\ task.step = loop.step /\ task.cand = loop.cand
    BY <2>2 DEF AcceptedTasks
  <2>4. /\ more \in Seq(AcceptedTasks) /\ more # <<>>
        /\ Len(loop.accepted) \in Nat /\ Len(more) = Len(loop.accepted) + 1
        /\ \A i \in 1..Len(loop.accepted) : more[i] = loop.accepted[i]
        /\ more[Len(loop.accepted) + 1] = task
    <3> HIDE DEF task
    <3> QED BY <2>2, <2>3, AcceptedGrows
  <2> HIDE DEF more, task
  <2>5. loop' \in Locals /\ loop'.step = loop.step /\ loop'.accepted = more /\ loop'.cand = loop.cand
    BY <1>1, <2>1, <2>4 DEF Locals
  <2>6. AdaptiveTypes'
    BY <1>1, <1>2, <2>1, <2>5 DEF AdaptiveTypes, Controls
  <2>7. Counted'
    BY <2>1, <2>2, <2>3, <2>4, <2>5 DEF Counted
  <2>8. WorkIsAccounted'
    <3>1. AcceptedSteps \subseteq AcceptedSteps'
      BY <2>4, <2>5 DEF AcceptedSteps
    <3>2. loop.step \in AcceptedSteps'
      <4>1. Len(more) \in 1..Len(more) /\ more[Len(more)].step = loop.step
        BY <2>3, <2>4
      <4> QED BY <2>5, <4>1 DEF AcceptedSteps
    <3>3. Accountable \subseteq AcceptedSteps' \cup stray'
      BY <1>2, <3>1, <3>2 DEF Accountable
    <3> QED BY <2>1, <2>2, <2>5, <3>2, <3>3 DEF WorkIsAccounted, Accountable, HasCandidate
  <2>9. GreenIsLast'
    <3>1. \A i \in 1..Len(more) : Accepted(more[i].cand)
      <4> SUFFICES ASSUME NEW i \in 1..Len(more) PROVE Accepted(more[i].cand)
        OBVIOUS
      <4>1. CASE i = Len(loop.accepted) + 1
        BY <2>2, <2>3, <2>4, <4>1
      <4>2. CASE i # Len(loop.accepted) + 1
        <5>1. i \in 1..Len(loop.accepted)
          BY <2>4, <4>2
        <5> QED BY <2>4, <5>1 DEF GreenIsLast
      <4> QED BY <4>1, <4>2
    <3>2. \A i \in 1..Len(loop'.accepted) : Accepted(loop'.accepted[i].cand)
      BY <2>5, <3>1
    <3> QED BY <2>1, <2>2, <2>7, <3>2 DEF GreenIsLast, Accepted
  <2>10. RefIsGreen' /\ EndIsRecorded'
    BY <1>2, <1>6, <2>1, Underway DEF RefIsGreen, EndIsRecorded
  <2>11. VerdictsCount' /\ StopIsNear'
    BY <1>4, <1>5, <2>1, PhasesAre DEF HasCandidate
  <2> QED BY <2>6, <2>8, <2>9, <2>10, <2>11
<1>11. CASE Tell
  <2>1. /\ pc = "accepted" /\ pc' = "step" /\ UNCHANGED <<repo, green>>
        /\ run' = [run EXCEPT !.accepted = loop.accepted]
        /\ loop' = [loop EXCEPT !.step = loop.step + 1, !.cand = NoCandidate]
    BY <1>11 DEF Tell, Goes
  <2>2. NoCandidate \in Candidates
    BY DEF NoCandidate, Candidates, NoCommit, Defects
  <2>3. loop' \in Locals /\ loop'.accepted = loop.accepted /\ loop.accepted \in Seq(AcceptedTasks)
    <3>1. loop.step + 1 \in Nat \ {0} /\ loop.accepted \in Seq(AcceptedTasks)
      BY <1>1 DEF Locals
    <3> QED BY <1>1, <2>1, <2>2, <3>1 DEF Locals
  <2>4. run' \in RunFiles /\ run'.accepted = loop'.accepted
    BY <1>1, <2>1, <2>3 DEF RunFiles
  <2>5. green # NoCommit /\ repo.ref = green /\ Counted
    BY <2>1, Underway DEF GreenIsLast, Untidy
  <2>6. Counted'
    BY <2>1, <2>3, <2>5 DEF Counted
  <2>7. AdaptiveTypes'
    BY <1>1, <1>2, <2>1, <2>3, <2>4 DEF AdaptiveTypes, Controls
  <2>8. WorkIsAccounted'
    <3>1. AcceptedSteps' = AcceptedSteps
      BY <2>3 DEF AcceptedSteps
    <3>2. Accountable \subseteq AcceptedSteps' \cup stray'
      BY <1>2, <2>1, <3>1 DEF WorkIsAccounted, Accountable
    <3> QED BY <2>1, <3>2 DEF WorkIsAccounted, Accountable, HasCandidate
  <2>9. GreenIsLast'
    BY <2>1, <2>3, <2>4, <2>5, <2>6 DEF GreenIsLast, Accepted
  <2>10. RefIsGreen' /\ EndIsRecorded'
    BY <1>2, <1>6, <2>1, <2>5 DEF RefIsGreen, EndIsRecorded
  <2>11. VerdictsCount' /\ StopIsNear'
    BY <1>4, <1>5, <2>1, PhasesAre DEF HasCandidate
  <2> QED BY <2>7, <2>8, <2>9, <2>10, <2>11
<1>9. CASE Reject
  <2>1. /\ pc = "deciding" /\ repo' = [repo EXCEPT !.head = green] /\ UNCHANGED green
        /\ loop' = [loop EXCEPT !.rejections = loop.rejections + 1, !.step = loop.step + 1,
                                !.cand = NoCandidate]
        /\ \/ pc' = "step" /\ UNCHANGED run
           \/ pc' = "exporting" /\ Says("blocked")
    BY <1>9 DEF Reject, Goes
  <2>2. green # NoCommit /\ repo.ref = green /\ green \in Work /\ Counted
        /\ run.accepted = loop.accepted
    BY <1>1, <2>1, Underway DEF GreenIsLast, Untidy
  <2>3. NoCandidate \in Candidates
    BY DEF NoCandidate, Candidates, NoCommit, Defects
  <2>4. loop' \in Locals /\ loop'.accepted = loop.accepted
    <3>1. loop.step + 1 \in Nat \ {0} /\ loop.rejections + 1 \in Nat
      BY <1>1 DEF Locals
    <3> QED BY <1>1, <2>1, <2>3, <3>1 DEF Locals
  <2>5. repo' \in Repositories /\ repo'.ref = green /\ repo'.head = green
    BY <1>1, <2>1, <2>2 DEF Repositories
  <2>6. run' \in RunFiles /\ run'.accepted = run.accepted /\ (pc' = "exporting" => run'.state \in Terminal)
    BY <1>1, <2>1, SaysKeeps DEF RunStates, Terminal
  <2>7. AdaptiveTypes'
    BY <1>1, <1>2, <2>1, <2>4, <2>5, <2>6 DEF AdaptiveTypes, Controls
  <2>8. WorkIsAccounted'
    <3>1. AcceptedSteps' = AcceptedSteps
      BY <2>4 DEF AcceptedSteps
    <3>2. green' \subseteq AcceptedSteps' \cup stray'
      BY <1>2, <2>1, <2>2, <3>1 DEF WorkIsAccounted
    <3> QED BY <2>1, <2>5, <3>2 DEF WorkIsAccounted, Accountable, HasCandidate
  <2>9. GreenIsLast'
    BY <2>1, <2>2, <2>4, <2>6 DEF GreenIsLast, Accepted, Counted
  <2>10. RefIsGreen' /\ EndIsRecorded'
    BY <1>2, <1>6, <2>1, <2>2, <2>5, <2>6 DEF RefIsGreen, EndIsRecorded
  <2>11. VerdictsCount' /\ StopIsNear'
    BY <1>4, <1>5, <2>1, PhasesAre DEF HasCandidate
  <2> QED BY <2>7, <2>8, <2>9, <2>10, <2>11
<1> QED BY <1>7, <1>8, <1>9, <1>10, <1>11

\* Where nothing of the work changes, and the controller leaves the loop, what is proven of the
\* work stays so.
LEMMA WorkStays ==
  ASSUME AdaptiveInvariant, UNCHANGED <<loop, repo, green, stray>>, run'.accepted = run.accepted,
         pc' \in {"listing", "closing", "ended", "raised error", "raised deadline", "raised interrupt"},
         pc \notin {"preflight", "accepting", "accepted"}, green = NoCommit => pc' # "listing",
         Untidy => Untidy'
  PROVE  WorkIsAccounted' /\ GreenIsLast' /\ VerdictsCount'
<1> USE DEF AdaptiveInvariant
<1>1. AcceptedSteps' = AcceptedSteps /\ Accountable' = Accountable
  BY DEF AcceptedSteps, Accountable
<1>2. WorkIsAccounted' /\ VerdictsCount'
  BY <1>1 DEF WorkIsAccounted, VerdictsCount, HasCandidate, Counted
<1>3. GreenIsLast'
  BY DEF GreenIsLast, Accepted, Counted, Uncounted
<1> QED BY <1>2, <1>3

\* The end of a run.
LEMMA Ends ==
  ASSUME AdaptiveInvariant, Export \/ Return \/ Unrecorded \/ Fails \/ EndsEarly \/ Close
  PROVE  AdaptiveInvariant'
<1> USE DEF AdaptiveInvariant
<1>1. /\ clock \in 0..2 /\ signals \in Nat /\ stray \in SUBSET Nat /\ stop \in Stops
      /\ loop \in Locals /\ repo \in Repositories /\ run \in RunFiles /\ green \in Work \cup {NoCommit}
      /\ record \in Records /\ manifest \in Manifests /\ outcome \in {"none", "returned", "raised"}
      /\ loop.accepted \in Seq(AcceptedTasks) /\ stop.filed \in BOOLEAN
  BY DEF AdaptiveTypes, Locals, Stops
<1>2. UNCHANGED <<loop, clock, repo, green, stop, stray, signals>>
  BY DEF Export, Return, Unrecorded, Fails, EndsEarly, Close
<1>3. pc \in {"exporting", "listing", "closing", "raised error", "raised deadline", "raised interrupt"}
  BY DEF Export, Return, Unrecorded, Fails, EndsEarly, Close
<1>4. outcome = "none" /\ ~manifest.there
  BY <1>3 DEF EndIsRecorded
<1>5. pc' \notin DOMAIN Phase => StopIsNear'
  BY <1>2 DEF StopIsNear
<1>6. /\ Listed => manifest' \in Manifests /\ manifest'.there
      /\ Unlisted => UNCHANGED manifest
  <2>1. ASSUME Listed PROVE manifest' \in Manifests /\ manifest'.there
    BY <1>1, <2>1 DEF Listed, Manifests
  <2> QED BY <2>1 DEF Unlisted
<1>7. Exported => record' \in Records /\ record'.there /\ record'.commit = green
                  /\ record'.accepted = loop.accepted
  BY <1>1 DEF Exported, Records
<1>8. ASSUME NEW said \in RunStates, Says(said)
      PROVE  run' \in RunFiles /\ run'.accepted = run.accepted /\ run'.state = said
  BY <1>8, SaysKeeps
<1>9. CASE Export
  <2>1. /\ pc = "exporting" /\ UNCHANGED <<run, manifest, outcome>>
        /\ \/ Exported /\ pc' = "listing"
           \/ pc' = "raised error" /\ UNCHANGED record
    BY <1>9 DEF Export, Goes
  <2>2. green # NoCommit /\ repo.ref = green /\ run.state \in Terminal
    BY <2>1, Underway DEF EndIsRecorded
  <2>3. AdaptiveTypes'
    BY <1>1, <1>2, <1>7, <2>1 DEF AdaptiveTypes, Controls
  <2>4. EndIsRecorded' /\ RefIsGreen'
    BY <1>2, <1>4, <1>7, <2>1, <2>2 DEF EndIsRecorded, OnRecord, RefIsGreen
  <2>5. StopIsNear' /\ WorkIsAccounted' /\ GreenIsLast' /\ VerdictsCount'
    BY <1>2, <1>4, <1>5, <2>1, <2>2, WorkStays, PhasesAre DEF Untidy
  <2> QED BY <2>3, <2>4, <2>5
<1>10. CASE Return
  <2>1. /\ pc = "listing" /\ UNCHANGED <<run, record>>
        /\ \/ Listed /\ pc' = "ended" /\ outcome' = "returned"
           \/ Unlisted /\ pc' = "raised error" /\ UNCHANGED outcome
    BY <1>10 DEF Return, Goes
  <2>2. green # NoCommit /\ repo.ref = green
    BY <2>1, Underway
  <2>3. AdaptiveTypes'
    BY <1>1, <1>2, <1>6, <2>1 DEF AdaptiveTypes, Controls
  <2>4. EndIsRecorded' /\ RefIsGreen'
    BY <1>2, <1>4, <1>6, <2>1, <2>2 DEF EndIsRecorded, OnRecord, RefIsGreen
  <2>5. StopIsNear' /\ WorkIsAccounted' /\ GreenIsLast' /\ VerdictsCount'
    BY <1>2, <1>5, <2>1, <2>2, WorkStays, PhasesAre DEF Untidy
  <2> QED BY <2>3, <2>4, <2>5
<1>11. CASE Unrecorded
  <2>1. /\ pc \in {"raised error", "raised deadline", "raised interrupt"}
        /\ pc' = "ended" /\ outcome' = "raised" /\ UNCHANGED <<run, record, manifest>>
    BY <1>11 DEF Unrecorded, Goes
  <2>2. AdaptiveTypes'
    BY <1>1, <1>2, <2>1 DEF AdaptiveTypes, Controls
  <2>3. EndIsRecorded' /\ RefIsGreen'
    BY <1>2, <1>4, <2>1 DEF EndIsRecorded, OnRecord, RefIsGreen, Untidy
  <2>4. StopIsNear' /\ WorkIsAccounted' /\ GreenIsLast' /\ VerdictsCount'
    BY <1>2, <1>5, <2>1, WorkStays, PhasesAre DEF Untidy
  <2> QED BY <2>2, <2>3, <2>4
<1>12. CASE Fails
  <2>1. /\ pc = "raised error" /\ Says("failed") /\ (Listed \/ Unlisted)
        /\ pc' = "ended" /\ outcome' = "raised" /\ UNCHANGED record
    BY <1>12 DEF Fails, Goes
  <2>2. run' \in RunFiles /\ run'.accepted = run.accepted
    BY <1>8, <2>1 DEF RunStates, Terminal
  <2>3. AdaptiveTypes'
    BY <1>1, <1>2, <1>6, <2>1, <2>2 DEF AdaptiveTypes, Controls
  <2>4. EndIsRecorded' /\ RefIsGreen'
    BY <1>2, <1>4, <1>6, <2>1 DEF EndIsRecorded, OnRecord, RefIsGreen, Untidy
  <2>5. StopIsNear' /\ WorkIsAccounted' /\ GreenIsLast' /\ VerdictsCount'
    BY <1>2, <1>5, <2>1, <2>2, WorkStays, PhasesAre DEF Untidy
  <2> QED BY <2>3, <2>4, <2>5
<1>13. CASE EndsEarly
  <2>1. /\ pc \in {"raised deadline", "raised interrupt"} /\ UNCHANGED manifest
        /\ \/ /\ pc = "raised deadline" /\ green = NoCommit /\ pc' = "ended" /\ outcome' = "raised"
              /\ UNCHANGED <<run, record>>
           \/ /\ pc = "raised deadline" => green # NoCommit
              /\ Says(IF pc = "raised deadline" THEN "deadline" ELSE "stopped")
              /\ \/ /\ IF green = NoCommit THEN UNCHANGED record ELSE Exported
                    /\ pc' = "closing" /\ UNCHANGED outcome
                 \/ pc' = "ended" /\ outcome' = "raised" /\ UNCHANGED record
    BY <1>13 DEF EndsEarly, Goes
  <2>2. CASE /\ pc = "raised deadline" /\ green = NoCommit /\ pc' = "ended" /\ outcome' = "raised"
             /\ UNCHANGED <<run, record>>
    <3>1. AdaptiveTypes'
      BY <1>1, <1>2, <2>1, <2>2 DEF AdaptiveTypes, Controls
    <3>2. EndIsRecorded' /\ RefIsGreen'
      BY <1>2, <1>4, <2>1, <2>2 DEF EndIsRecorded, OnRecord, RefIsGreen, Untidy
    <3>3. StopIsNear' /\ WorkIsAccounted' /\ GreenIsLast' /\ VerdictsCount'
      BY <1>2, <1>5, <2>2, WorkStays, PhasesAre DEF Untidy
    <3> QED BY <3>1, <3>2, <3>3
  <2>3. CASE /\ pc = "raised deadline" => green # NoCommit
             /\ Says(IF pc = "raised deadline" THEN "deadline" ELSE "stopped")
             /\ \/ /\ IF green = NoCommit THEN UNCHANGED record ELSE Exported
                   /\ pc' = "closing" /\ UNCHANGED outcome
                \/ pc' = "ended" /\ outcome' = "raised" /\ UNCHANGED record
    <3>1. /\ run' \in RunFiles /\ run'.accepted = run.accepted
          /\ run'.state = IF pc = "raised deadline" THEN "deadline" ELSE "stopped"
      BY <1>8, <2>3 DEF RunStates, Terminal
    <3>2. pc = "raised deadline" => repo.ref = green
      BY DEF RefIsGreen, EndIsRecorded, Untidy
    <3>8. Untidy => Untidy'
      BY <1>2, <2>1, <2>3, <3>1 DEF Untidy
    <3>3. record' \in Records /\ (record'.there => green # NoCommit)
      BY <1>1, <1>7, <2>3 DEF EndIsRecorded
    <3>4. AdaptiveTypes'
      BY <1>1, <1>2, <2>1, <2>3, <3>1, <3>3 DEF AdaptiveTypes, Controls
    <3>5. EndIsRecorded'
      BY <1>2, <1>4, <1>7, <2>1, <2>3, <3>1, <3>3 DEF EndIsRecorded, OnRecord
    <3>6. RefIsGreen'
      BY <1>2, <2>1, <2>3, <3>1, <3>2 DEF RefIsGreen, Untidy
    <3>7. StopIsNear' /\ WorkIsAccounted' /\ GreenIsLast' /\ VerdictsCount'
      BY <1>2, <1>5, <2>1, <2>3, <3>1, <3>8, WorkStays, PhasesAre
    <3> QED BY <3>4, <3>5, <3>6, <3>7
  <2> QED BY <2>1, <2>2, <2>3
<1>14. CASE Close
  <2>1. /\ pc = "closing" /\ pc' = "ended" /\ UNCHANGED <<run, record>>
        /\ \/ Listed /\ outcome' = IF run.state = "deadline" THEN "returned" ELSE "raised"
           \/ Unlisted /\ outcome' = "raised"
    BY <1>14 DEF Close, Goes
  <2>2. AdaptiveTypes'
    BY <1>1, <1>2, <1>6, <2>1 DEF AdaptiveTypes, Controls
  <2>3. EndIsRecorded'
    BY <1>2, <1>4, <1>6, <2>1 DEF EndIsRecorded, OnRecord, Terminal
  <2>6. Untidy => Untidy'
    BY <2>1 DEF Untidy
  <2>4. RefIsGreen'
    BY <1>2, <2>1, <2>6 DEF RefIsGreen
  <2>5. StopIsNear' /\ WorkIsAccounted' /\ GreenIsLast' /\ VerdictsCount'
    BY <1>2, <1>5, <2>1, <2>6, WorkStays, PhasesAre
  <2> QED BY <2>2, <2>3, <2>4, <2>5
<1> HIDE DEF AdaptiveInvariant
<1> QED BY <1>9, <1>10, <1>11, <1>12, <1>13, <1>14

\* The owner and the clock.
LEMMA OthersAct ==
  ASSUME AdaptiveInvariant, Tick \/ AskStop \/ FileStop
  PROVE  AdaptiveInvariant'
<1> USE DEF AdaptiveInvariant
<1>1. UNCHANGED <<pc, run, loop, repo, green, stray, record, manifest, outcome, signals>>
  BY DEF Tick, AskStop, FileStop
<1>2. clock' \in 0..2
  BY DEF Tick, AskStop, FileStop, AdaptiveTypes
<1>3. stop' \in Stops /\ StopIsNear'
  <2>1. stop \in Stops
    BY DEF AdaptiveTypes
  <2>2. CASE Tick
    BY <1>1, <2>1, <2>2 DEF Tick, StopIsNear
  <2>3. CASE AskStop
    BY <1>1, <2>1, <2>3 DEF AskStop, Stops, StopIsNear
  <2>4. CASE FileStop
    BY <1>1, <2>1, <2>4 DEF FileStop, Stops, StopIsNear
  <2> QED BY <2>2, <2>3, <2>4
<1>4. AdaptiveTypes'
  BY <1>1, <1>2, <1>3 DEF AdaptiveTypes
<1>5. WorkIsAccounted' /\ GreenIsLast' /\ VerdictsCount'
  <2>1. AcceptedSteps' = AcceptedSteps /\ Accountable' = Accountable
    BY <1>1 DEF AcceptedSteps, Accountable
  <2>2. WorkIsAccounted'
    BY <1>1, <2>1 DEF WorkIsAccounted, Counted
  <2> QED BY <1>1, <2>2 DEF GreenIsLast, VerdictsCount, Accepted, Counted, Uncounted, Untidy
<1>6. RefIsGreen' /\ EndIsRecorded'
  BY <1>1 DEF RefIsGreen, EndIsRecorded, OnRecord, Untidy
<1> QED BY <1>3, <1>4, <1>5, <1>6

LEMMA AdaptiveStep ==
  ASSUME AdaptiveInvariant, Next
  PROVE  AdaptiveInvariant'
BY Moves, Answers, GoesWrong, Decides, Ends, OthersAct DEF Next, Controller

LEMMA AdaptiveStarts ==
  ASSUME Init
  PROVE  AdaptiveInvariant
<1> USE DEF Init
<1>1. /\ <<>> \in Seq(AcceptedTasks) /\ Len(<<>>) = 0
      /\ NoCandidate \in Candidates /\ Base \in Work
  BY DEF NoCandidate, Candidates, NoCommit, Base, Work
<1>2. AdaptiveTypes
  BY <1>1 DEF AdaptiveTypes, Controls, RunFiles, RunStates, Locals, Repositories, Stops, Records, Manifests
<1>3. WorkIsAccounted
  BY DEF WorkIsAccounted, HasCandidate, Base, Accountable
<1>4. GreenIsLast
  BY <1>1 DEF GreenIsLast
<1>5. VerdictsCount /\ RefIsGreen /\ EndIsRecorded
  BY DEF VerdictsCount, HasCandidate, RefIsGreen, EndIsRecorded
<1>6. StopIsNear
  BY PhasesAre DEF StopIsNear
<1> QED BY <1>2, <1>3, <1>4, <1>5, <1>6 DEF AdaptiveInvariant

\* What follows: the promises of an adaptive run.
LEMMA AdaptiveIsProven ==
  ASSUME AdaptiveInvariant
  PROVE  GreenIsProven /\ ReturnsOnRecord /\ StopsSoon
<1> USE DEF AdaptiveInvariant
<1>1. GreenIsProven
  <2> SUFFICES ASSUME green # NoCommit
               PROVE  /\ \A i \in 1..Len(GreenWork) : Accepted(GreenWork[i].cand)
                      /\ green = IF GreenWork = <<>> THEN Base
                                 ELSE GreenWork[Len(GreenWork)].cand.commit
                      /\ green \ {GreenWork[i].step : i \in 1..Len(GreenWork)} \subseteq stray
    BY DEF GreenIsProven
  <2>1. CASE Counted
    <3>1. GreenWork = loop.accepted
      BY <2>1 DEF GreenWork, Counted
    <3> QED BY <2>1, <3>1 DEF GreenIsLast, WorkIsAccounted, AcceptedSteps, Counted
  <2>2. CASE ~Counted
    <3> DEFINE task == [step |-> loop.step, cand |-> loop.cand]
               more == Append(loop.accepted, task)
    <3>1. /\ Uncounted /\ loop.accepted \in Seq(AcceptedTasks) /\ loop.step \in Nat
      BY <2>2 DEF GreenIsLast, AdaptiveTypes, Locals
    <3>2. task \in AcceptedTasks /\ task.step = loop.step /\ task.cand = loop.cand
      BY <3>1 DEF AcceptedTasks, Uncounted
    <3>3. GreenWork = more
      BY <2>2 DEF GreenWork, Counted
    <3>4. /\ more # <<>> /\ Len(loop.accepted) \in Nat /\ Len(more) = Len(loop.accepted) + 1
          /\ \A i \in 1..Len(loop.accepted) : more[i] = loop.accepted[i]
          /\ more[Len(loop.accepted) + 1] = task
      <4> HIDE DEF task
      <4> QED BY <3>1, <3>2, AcceptedGrows
    <3> HIDE DEF more, task
    <3>5. ASSUME NEW i \in 1..Len(more)
          PROVE  Accepted(more[i].cand)
      <4>1. CASE i = Len(loop.accepted) + 1
        BY <3>1, <3>2, <3>4, <4>1 DEF Uncounted
      <4>2. CASE i # Len(loop.accepted) + 1
        <5>1. i \in 1..Len(loop.accepted)
          BY <3>4, <4>2
        <5> QED BY <3>4, <5>1 DEF GreenIsLast
      <4> QED BY <4>1, <4>2
    <3>6. AcceptedSteps \cup {loop.step} \subseteq {more[i].step : i \in 1..Len(more)}
      <4>1. AcceptedSteps \subseteq {more[i].step : i \in 1..Len(more)}
        BY <3>4 DEF AcceptedSteps
      <4>2. Len(more) \in 1..Len(more) /\ more[Len(more)].step = loop.step
        BY <3>2, <3>4
      <4> QED BY <4>1, <4>2
    <3>7. green \ {more[i].step : i \in 1..Len(more)} \subseteq stray
      BY <3>6 DEF WorkIsAccounted, Accountable
    <3>8. green = more[Len(more)].cand.commit
      BY <3>1, <3>2, <3>4 DEF Uncounted
    <3> QED BY <3>3, <3>4, <3>5, <3>7, <3>8
  <2> QED BY <2>1, <2>2
<1>2. ReturnsOnRecord
  BY DEF ReturnsOnRecord, EndIsRecorded, OnRecord, RefIsGreen, GreenIsLast, Untidy
<1>3. StopsSoon
  BY DEF StopsSoon, StopIsNear
<1> QED BY <1>1, <1>2, <1>3

-------------------------------------------------------------------------------
(* Integration: the steps *)

\* Once a run is over, only stop.request may still change.
LEMMA OverStays ==
  ASSUME AdaptiveInvariant, Next, pc = "ended"
  PROVE  UNCHANGED <<pc, run, loop, repo, green, record, manifest, outcome>>
<1>1. outcome # "none"
  BY DEF AdaptiveInvariant, EndIsRecorded
<1>2. Tick \/ AskStop \/ FileStop
  <2>1. ~Controller
    BY PhasesAre DEF Controller, Preflight, TopOfLoop, Invoke, OutOfTime, Planned, ReadPlan, Done, Written,
       AfterWriting, Verify, AfterVerification, Reviewed, AfterReview, Accept, Count, Tell, Reject,
       RejectRefused, Export, Return, Unrecorded, Fails, EndsEarly, Close
  <2>2. ~Breaks /\ ~Unstopped /\ ~StrayWrites /\ ~Interrupt
    BY <1>1 DEF Breaks, Unstopped, StrayWrites, Interrupt
  <2> QED BY <2>1, <2>2 DEF Next
<1> QED BY <1>2 DEF Tick, AskStop, FileStop

\* A call that goes on without touching a branch, and has one afterwards if it had one before.
LEMMA CallGoesOn ==
  ASSUME IntegrationInvariant, NEW c \in Calls, NEW to \in {"verified", "compared", "refused", "receipted", "done"},
         call' = [call EXCEPT ![c] = to],
         UNCHANGED <<tip, green>>,
         \/ call[c] \in HaveBranch \ {"created"} /\ to \in HaveBranch
         \/ call[c] \in {"asked", "verified", "compared"} /\ to \notin HaveBranch
  PROVE  BranchesAreOwned' /\ call' \in [Calls -> {"asked", "verified", "compared", "refused", "cut short"}
                                                  \cup HaveBranch]
<1> USE DEF IntegrationInvariant
<1>1. /\ call'[c] = to /\ \A d \in Calls : d # c => call'[d] = call[d]
  BY DEF IntegrationTypes
<1>2. \A d \in Calls : /\ call'[d] \in HaveBranch <=> call[d] \in HaveBranch
                       /\ call'[d] \in HaveBranch \ {"created"} <=> call[d] \in HaveBranch \ {"created"}
                       /\ call[d] = "cut short" => call'[d] = "cut short"
  BY <1>1 DEF HaveBranch
<1>3. BranchesAreOwned'
  <2>1. ASSUME NEW d \in Calls, call'[d] \in HaveBranch
        PROVE  /\ tip[Branch[d]] # NoCommit
               /\ \A e \in Calls : Branch[e] = Branch[d] /\ call'[e] \in HaveBranch => e = d
               /\ call'[d] \in HaveBranch \ {"created"} => tip[Branch[d]] = green
    BY <1>2, <2>1 DEF BranchesAreOwned
  <2>2. ASSUME NEW b \in Branches, tip[b] # NoCommit
        PROVE  \E d \in Calls : Branch[d] = b /\ call'[d] \in HaveBranch \cup {"cut short"}
    <3>1. PICK d \in Calls : Branch[d] = b /\ call[d] \in HaveBranch \cup {"cut short"}
      BY <2>2 DEF BranchesAreOwned
    <3> QED BY <1>2, <3>1
  <2> QED BY <2>1, <2>2 DEF BranchesAreOwned
<1> QED BY <1>3 DEF IntegrationTypes, HaveBranch

LEMMA IntegrationStep ==
  ASSUME AdaptiveInvariant, IntegrationInvariant, IntegrationNext
  PROVE  AdaptiveInvariant' /\ IntegrationInvariant'
<1> USE DEF IntegrationInvariant
<1>1. UNCHANGED vars => AdaptiveInvariant'
  <2> SUFFICES ASSUME UNCHANGED vars PROVE AdaptiveInvariant'
    OBVIOUS
  <2>1. AdaptiveTypes'
    BY DEF vars, AdaptiveInvariant, AdaptiveTypes
  <2>2. WorkIsAccounted' /\ GreenIsLast' /\ VerdictsCount'
    <3>1. AcceptedSteps' = AcceptedSteps /\ Accountable' = Accountable
      BY DEF vars, AcceptedSteps, Accountable
    <3> QED BY <3>1 DEF vars, AdaptiveInvariant, WorkIsAccounted, GreenIsLast, VerdictsCount, Accepted,
                        Counted, Uncounted, Untidy
  <2>3. RefIsGreen' /\ EndIsRecorded' /\ StopIsNear'
    BY DEF vars, AdaptiveInvariant, RefIsGreen, EndIsRecorded, OnRecord, StopIsNear, Untidy
  <2> QED BY <2>1, <2>2, <2>3 DEF AdaptiveInvariant
<1>2. CASE Runs
  <2>1. AdaptiveInvariant' /\ UNCHANGED ivars /\ Next
    BY <1>2, AdaptiveStep DEF Runs
  <2>2. pc = "ended" => UNCHANGED <<pc, run, loop, repo, green, record, manifest, outcome>>
    BY <2>1, OverStays
  <2>3. VerifiedStays'
    BY <2>1, <2>2 DEF VerifiedStays, ivars
  <2>4. BranchesAreOwned'
    <3>1. \A c \in Calls : call[c] \in HaveBranch => green' = green
      BY <2>2 DEF VerifiedStays, HaveBranch
    <3> QED BY <2>1, <3>1 DEF BranchesAreOwned, ivars, HaveBranch
  <2> QED BY <2>1, <2>3, <2>4 DEF IntegrationTypes, ivars
<1>3. CASE OwnerWorks
  <2>1. UNCHANGED <<vars, call, tip, receipts>> /\ source' \in {"as found", "dirty", "moved"}
    BY <1>3 DEF OwnerWorks
  <2>2. IntegrationTypes' /\ VerifiedStays' /\ BranchesAreOwned'
    BY <2>1 DEF IntegrationTypes, VerifiedStays, BranchesAreOwned, vars
  <2> QED BY <1>1, <2>1, <2>2 DEF vars
<1>4. ASSUME NEW c \in Calls, Examine(c)
      PROVE  AdaptiveInvariant' /\ IntegrationInvariant'
  <2>1. /\ call[c] = "asked" /\ ManifestHolds /\ EvidenceHolds
        /\ call' = [call EXCEPT ![c] = "verified"] /\ UNCHANGED <<vars, source, tip, receipts>>
    BY <1>4 DEF Examine
  <2>2. /\ pc = "ended" /\ manifest.there /\ green # NoCommit /\ record.there
        /\ loop.evaluated = "passed"
    BY <2>1 DEF ManifestHolds, EvidenceHolds, AdaptiveInvariant, EndIsRecorded
  <2>3. record.commit = green
    BY <2>2 DEF AdaptiveInvariant, EndIsRecorded, OnRecord
  <2>4. VerifiedStays'
    BY <2>1, <2>2, <2>3 DEF VerifiedStays, IntegrationTypes, vars
  <2> QED BY <1>1, <2>1, <2>4, CallGoesOn DEF IntegrationTypes, vars, HaveBranch
<1>5. ASSUME NEW c \in Calls, CompareSource(c)
      PROVE  AdaptiveInvariant' /\ IntegrationInvariant'
  <2>1. PICK to \in {"compared", "refused"} :
          /\ call[c] = "verified" /\ call' = [call EXCEPT ![c] = to]
          /\ UNCHANGED <<vars, source, tip, receipts>>
    BY <1>5 DEF CompareSource
  <2>2. VerifiedStays'
    BY <2>1 DEF VerifiedStays, IntegrationTypes, vars
  <2> QED BY <1>1, <2>1, <2>2, CallGoesOn DEF IntegrationTypes, vars, HaveBranch
<1>6. ASSUME NEW c \in Calls, AddWorktree(c) \/ AddTimesOut(c)
      PROVE  AdaptiveInvariant' /\ IntegrationInvariant'
  <2>1. /\ call[c] = "compared" /\ UNCHANGED <<vars, source, receipts>>
        /\ \/ call' = [call EXCEPT ![c] = "refused"] /\ UNCHANGED tip
           \/ /\ tip[Branch[c]] = NoCommit
              /\ \/ /\ call' = [call EXCEPT ![c] = "created"]
                    /\ tip' = [tip EXCEPT ![Branch[c]] = Base]
                 \/ /\ call' = [call EXCEPT ![c] = "cut short"]
                    /\ tip' \in {tip, [tip EXCEPT ![Branch[c]] = Base]}
    BY <1>6 DEF AddWorktree, AddTimesOut
  <2>2. PICK to \in {"refused", "created", "cut short"} : call' = [call EXCEPT ![c] = to]
    BY <2>1
  <2>3. VerifiedStays'
    BY <2>1, <2>2 DEF VerifiedStays, IntegrationTypes, vars
  <2>4. Branch[c] \in Branches /\ Base \in Work /\ Base # NoCommit
    BY DEF Branches, Base, Work, NoCommit
  <2>5. CASE call' = [call EXCEPT ![c] = "refused"] /\ UNCHANGED tip
    <3>1. UNCHANGED green
      BY <2>1 DEF vars
    <3> QED BY <1>1, <2>1, <2>3, <2>5, <3>1, CallGoesOn DEF IntegrationTypes, HaveBranch
  <2>6. CASE /\ tip[Branch[c]] = NoCommit
             /\ \/ /\ call' = [call EXCEPT ![c] = "created"]
                   /\ tip' = [tip EXCEPT ![Branch[c]] = Base]
                \/ /\ call' = [call EXCEPT ![c] = "cut short"]
                   /\ tip' \in {tip, [tip EXCEPT ![Branch[c]] = Base]}
    <3>1. tip' \in [Branches -> Work \cup {NoCommit}]
          /\ \A b \in Branches : b # Branch[c] => tip'[b] = tip[b]
      <4>1. tip \in [Branches -> Work \cup {NoCommit}]
        BY DEF IntegrationTypes
      <4>2. CASE UNCHANGED tip
        BY <4>1, <4>2
      <4>3. CASE tip' = [tip EXCEPT ![Branch[c]] = Base]
        BY <2>4, <4>1, <4>3
      <4> QED BY <2>6, <4>2, <4>3
    <3>2. call'[c] \in {"created", "cut short"} /\ (\A d \in Calls : d # c => call'[d] = call[d])
          /\ call' \in [Calls -> {"asked", "verified", "compared", "refused", "cut short"} \cup HaveBranch]
      BY <2>6 DEF IntegrationTypes, HaveBranch
    <3>3. call'[c] = "created" => tip'[Branch[c]] = Base
      BY <2>4, <2>6, <2>1 DEF IntegrationTypes
    <3>4. \A d \in Calls : call[d] \in HaveBranch => Branch[d] # Branch[c] /\ d # c
      BY <2>6, <2>1 DEF BranchesAreOwned
    <3>5. \A d \in Calls : Branch[d] \in Branches
      BY DEF Branches
    <3>6. ASSUME NEW d \in Calls, call'[d] \in HaveBranch
          PROVE  /\ tip'[Branch[d]] # NoCommit
                 /\ \A e \in Calls : Branch[e] = Branch[d] /\ call'[e] \in HaveBranch => e = d
                 /\ call'[d] # "created" => tip'[Branch[d]] = green
      <4>1. CASE d = c
        <5>1. call'[c] = "created"
          BY <3>2, <3>6, <4>1 DEF HaveBranch
        <5> QED BY <2>4, <3>2, <3>3, <3>4, <4>1, <5>1
      <4>2. CASE d # c
        <5>1. call[d] \in HaveBranch /\ call'[d] = call[d]
          BY <3>2, <3>6, <4>2
        <5>2. Branch[d] # Branch[c] /\ tip'[Branch[d]] = tip[Branch[d]]
          BY <3>1, <3>4, <3>5, <5>1
        <5>3. tip[Branch[d]] # NoCommit /\ (call[d] # "created" => tip[Branch[d]] = green)
          BY <5>1 DEF BranchesAreOwned
        <5>4. \A e \in Calls : Branch[e] = Branch[d] /\ call[e] \in HaveBranch => e = d
          BY <5>1 DEF BranchesAreOwned
        <5> QED BY <3>2, <5>1, <5>2, <5>3, <5>4
      <4> QED BY <4>1, <4>2
    <3>7. ASSUME NEW b \in Branches, tip'[b] # NoCommit
          PROVE  \E d \in Calls : Branch[d] = b /\ call'[d] \in HaveBranch \cup {"cut short"}
      <4>1. CASE b = Branch[c]
        BY <3>2, <4>1 DEF HaveBranch
      <4>2. CASE b # Branch[c]
        <5>1. PICK d \in Calls : Branch[d] = b /\ call[d] \in HaveBranch \cup {"cut short"}
          BY <3>1, <3>7, <4>2 DEF BranchesAreOwned
        <5> QED BY <3>2, <4>2, <5>1
      <4> QED BY <4>1, <4>2
    <3>8. UNCHANGED green
      BY <2>1 DEF vars
    <3>9. BranchesAreOwned'
      BY <3>6, <3>7, <3>8 DEF BranchesAreOwned
    <3> QED BY <1>1, <2>1, <2>3, <3>1, <3>2, <3>9 DEF IntegrationTypes
  <2> QED BY <2>1, <2>5, <2>6
<1>7. ASSUME NEW c \in Calls, ApplyPatch(c) \/ RollBack(c)
      PROVE  AdaptiveInvariant' /\ IntegrationInvariant'
  <2>1. /\ call[c] = "created" /\ UNCHANGED <<vars, source, receipts>>
        /\ \/ /\ call' = [call EXCEPT ![c] = "applied"]
              /\ tip' = [tip EXCEPT ![Branch[c]] = record.commit]
           \/ /\ call' = [call EXCEPT ![c] = "refused"]
              /\ tip' = [tip EXCEPT ![Branch[c]] = NoCommit]
    BY <1>7 DEF ApplyPatch, RollBack
  <2>2. record.commit = green /\ green # NoCommit /\ green \in Work \cup {NoCommit}
    BY <2>1 DEF VerifiedStays, AdaptiveInvariant, AdaptiveTypes
  <2>3. VerifiedStays'
    <3>1. PICK to \in {"applied", "refused"} : call' = [call EXCEPT ![c] = to]
      BY <2>1
    <3> QED BY <2>1, <3>1 DEF VerifiedStays, IntegrationTypes, vars
  <2>4. Branch[c] \in Branches /\ \A d \in Calls : Branch[d] \in Branches
    BY DEF Branches
  <2>5. /\ tip' \in [Branches -> Work \cup {NoCommit}]
        /\ \A b \in Branches : b # Branch[c] => tip'[b] = tip[b]
        /\ tip'[Branch[c]] = IF call'[c] = "applied" THEN green ELSE NoCommit
        /\ call'[c] \in {"applied", "refused"}
        /\ \A d \in Calls : d # c => call'[d] = call[d]
        /\ call' \in [Calls -> {"asked", "verified", "compared", "refused", "cut short"} \cup HaveBranch]
    BY <2>1, <2>2, <2>4 DEF IntegrationTypes, HaveBranch
  <2>6. \A d \in Calls : call[d] \in HaveBranch /\ d # c => Branch[d] # Branch[c]
    BY <2>1 DEF BranchesAreOwned, HaveBranch
  <2>7. ASSUME NEW d \in Calls, call'[d] \in HaveBranch
        PROVE  /\ tip'[Branch[d]] # NoCommit
               /\ \A e \in Calls : Branch[e] = Branch[d] /\ call'[e] \in HaveBranch => e = d
               /\ call'[d] # "created" => tip'[Branch[d]] = green
    <3>1. CASE d = c
      <4>1. call'[c] = "applied" /\ call[c] \in HaveBranch
        BY <2>1, <2>5, <2>7, <3>1 DEF HaveBranch
      <4> QED BY <2>2, <2>5, <2>6, <3>1, <4>1
    <3>2. CASE d # c
      <4>1. call[d] \in HaveBranch /\ call'[d] = call[d] /\ Branch[d] # Branch[c]
        BY <2>5, <2>6, <2>7, <3>2
      <4>2. tip'[Branch[d]] = tip[Branch[d]]
        BY <2>4, <2>5, <4>1
      <4>3. tip[Branch[d]] # NoCommit /\ (call[d] # "created" => tip[Branch[d]] = green)
        BY <4>1 DEF BranchesAreOwned
      <4>4. \A e \in Calls : Branch[e] = Branch[d] /\ call[e] \in HaveBranch => e = d
        BY <4>1 DEF BranchesAreOwned
      <4> QED BY <2>5, <4>1, <4>2, <4>3, <4>4
    <3> QED BY <3>1, <3>2
  <2>8. ASSUME NEW b \in Branches, tip'[b] # NoCommit
        PROVE  \E d \in Calls : Branch[d] = b /\ call'[d] \in HaveBranch \cup {"cut short"}
    <3>1. CASE b = Branch[c]
      BY <2>5, <2>8, <3>1 DEF HaveBranch
    <3>2. CASE b # Branch[c]
      <4>1. PICK d \in Calls : Branch[d] = b /\ call[d] \in HaveBranch \cup {"cut short"}
        BY <2>5, <2>8, <3>2 DEF BranchesAreOwned
      <4> QED BY <2>5, <3>2, <4>1
    <3> QED BY <3>1, <3>2
  <2>9. BranchesAreOwned'
    <3>1. UNCHANGED green
      BY <2>1 DEF vars
    <3> QED BY <2>7, <2>8, <3>1 DEF BranchesAreOwned
  <2> QED BY <1>1, <2>1, <2>3, <2>5, <2>9 DEF IntegrationTypes
<1>8. ASSUME NEW c \in Calls, WriteReceipt(c)
      PROVE  AdaptiveInvariant' /\ IntegrationInvariant'
  <2>1. /\ call[c] = "applied" /\ call' = [call EXCEPT ![c] = "receipted"]
        /\ receipts' = [receipts EXCEPT !.written = receipts.written \cup {c}]
        /\ UNCHANGED <<vars, source, tip>>
    BY <1>8 DEF WriteReceipt
  <2>2. VerifiedStays'
    BY <2>1 DEF VerifiedStays, IntegrationTypes, vars
  <2>3. receipts' \in [written : SUBSET Calls, listed : SUBSET Calls]
    BY <2>1 DEF IntegrationTypes
  <2> QED BY <1>1, <2>1, <2>2, <2>3, CallGoesOn DEF IntegrationTypes, vars, HaveBranch
<1>9. ASSUME NEW c \in Calls, Relist(c)
      PROVE  AdaptiveInvariant' /\ IntegrationInvariant'
  <2>1. /\ call[c] = "receipted" /\ call' = [call EXCEPT ![c] = "done"]
        /\ receipts' = [receipts EXCEPT !.listed = receipts.written]
        /\ manifest' = [there |-> TRUE, stop |-> stop.filed]
        /\ UNCHANGED <<pc, run, loop, clock, repo, green, stop, stray, record, outcome, signals,
                       source, tip>>
    BY <1>9 DEF Relist
  <2>2. VerifiedStays'
    BY <2>1 DEF VerifiedStays, IntegrationTypes
  <2>3. receipts' \in [written : SUBSET Calls, listed : SUBSET Calls]
    BY <2>1 DEF IntegrationTypes
  <2>4. pc = "ended" /\ manifest' \in Manifests /\ manifest'.there
    BY <2>1 DEF VerifiedStays, AdaptiveInvariant, AdaptiveTypes, Stops, Manifests
  <2>5. AdaptiveTypes'
    BY <2>1, <2>4 DEF AdaptiveInvariant, AdaptiveTypes
  <2>6. WorkIsAccounted' /\ GreenIsLast' /\ VerdictsCount'
    <3>1. AcceptedSteps' = AcceptedSteps /\ Accountable' = Accountable
      BY <2>1 DEF AcceptedSteps, Accountable
    <3> QED BY <2>1, <2>4, <3>1
            DEF AdaptiveInvariant, WorkIsAccounted, GreenIsLast, VerdictsCount, Accepted,
                Counted, Uncounted, Untidy
  <2>7. RefIsGreen' /\ EndIsRecorded' /\ StopIsNear'
    BY <2>1, <2>4
    DEF AdaptiveInvariant, RefIsGreen, EndIsRecorded, OnRecord, StopIsNear, Untidy
  <2>8. AdaptiveInvariant'
    BY <2>5, <2>6, <2>7 DEF AdaptiveInvariant
  <2> QED BY <2>1, <2>2, <2>3, <2>8, CallGoesOn DEF IntegrationTypes, HaveBranch
<1> QED
  BY <1>2, <1>3, <1>4, <1>5, <1>6, <1>7, <1>8, <1>9 DEF IntegrationNext, Integrates

LEMMA IntegrationStarts ==
  ASSUME IntegrationInit
  PROVE  AdaptiveInvariant /\ IntegrationInvariant
<1>1. AdaptiveInvariant
  BY AdaptiveStarts DEF IntegrationInit
<1>2. IntegrationInvariant
  BY DEF IntegrationInit, IntegrationInvariant, IntegrationTypes, VerifiedStays, BranchesAreOwned,
         HaveBranch, Branches
<1> QED BY <1>1, <1>2

\* What follows: an integration brings what was proven, and only one that made its branch leaves
\* anything.
LEMMA IntegrationIsProven ==
  ASSUME AdaptiveInvariant, IntegrationInvariant
  PROVE  IntegratesProvenWork
<1> USE DEF IntegrationInvariant
<1>1. ASSUME NEW c \in Calls, call[c] \in {"applied", "receipted", "done"}
      PROVE  /\ tip[Branch[c]] = green /\ loop.evaluated = "passed"
             /\ \A i \in 1..Len(loop.accepted) : Accepted(loop.accepted[i].cand)
  BY <1>1 DEF VerifiedStays, BranchesAreOwned, HaveBranch, AdaptiveInvariant, GreenIsLast
<1>2. ASSUME NEW b \in Branches, tip[b] # NoCommit
      PROVE  \E c \in Calls :
               Branch[c] = b /\ call[c] \notin {"asked", "verified", "compared", "refused"}
  BY <1>2 DEF BranchesAreOwned, HaveBranch
<1> QED BY <1>1, <1>2 DEF IntegratesProvenWork

\* What the status shows as the end stays.
LEMMA EndIsFinal ==
  ASSUME AdaptiveInvariant, IntegrationInvariant, IntegrationNext, Shown \in Terminal
  PROVE  Shown' = Shown
<1>1. manifest.there /\ pc = "ended" /\ Shown = run.state
  BY DEF Shown, AdaptiveInvariant, EndIsRecorded, Terminal
<1>2. UNCHANGED run /\ manifest'.there
  <2>1. CASE Runs
    BY <1>1, <2>1, OverStays DEF Runs
  <2>2. CASE OwnerWorks
    BY <1>1, <2>2 DEF OwnerWorks, vars
  <2>3. ASSUME NEW c \in Calls, Integrates(c)
        PROVE  UNCHANGED run /\ manifest'.there
    <3>1. CASE Relist(c)
      BY <3>1 DEF Relist
    <3>2. CASE ~Relist(c)
      <4>1. UNCHANGED vars
        BY <2>3, <3>2 DEF Integrates, Examine, CompareSource, AddWorktree, AddTimesOut, ApplyPatch,
           RollBack, WriteReceipt
      <4> QED BY <1>1, <4>1 DEF vars
    <3> QED BY <3>1, <3>2
  <2> QED BY <2>1, <2>2, <2>3 DEF IntegrationNext
<1> QED BY <1>1, <1>2 DEF Shown

-------------------------------------------------------------------------------
(* The ways a run executes, together *)

AP == INSTANCE ArenaProofs WITH
  Groups <- Engineers \X {"implement", "review", "revise", "check", "judge"} \X (0..Rounds),
  Faults <- ArenaFaults

\* The tournament as ArenaProofs reasons about it is the one explored.
LEMMA SameTournament ==
  /\ BenchAssumption => AP!ArenaAssumption
  /\ Arena!Init => AP!Init
  /\ Arena!Next => AP!Next
  /\ UNCHANGED arena => UNCHANGED AP!vars
<1>1. BenchAssumption => AP!ArenaAssumption
  BY DEF BenchAssumption, Arena!ArenaAssumption, AP!ArenaAssumption
<1>2. Arena!Init => AP!Init
  BY SMTT(30) DEF AP!Init, Arena!Init, AP!ProcessInit, Arena!ProcessInit, AP!None, Arena!None, AP!Base, Arena!Base
<1>3. Arena!Next => AP!Next
  BY DEF Arena!vars, AP!vars, Arena!pvars, AP!pvars, Arena!avars, AP!avars, Arena!None, AP!None,
         Arena!Base, AP!Base, Arena!Group, AP!Group, Arena!TakesPart, AP!TakesPart, Arena!Begins,
         AP!Begins, Arena!Take, AP!Take, Arena!RunsProvider, AP!RunsProvider, Arena!Answers,
         AP!Answers, Arena!Collect, AP!Collect, Arena!Frozen, AP!Frozen, Arena!Freeze, AP!Freeze,
         Arena!CheckGroup, AP!CheckGroup, Arena!Evaluate, AP!Evaluate, Arena!NextRound,
         AP!NextRound, Arena!Eligible, AP!Eligible, Arena!Best, AP!Best, Arena!Score, AP!Score,
         Arena!InBand, AP!InBand, Arena!Judges, AP!Judges, Arena!Export, AP!Export,
         Arena!Cancelling, AP!Cancelling, Arena!ThreadRaised, AP!ThreadRaised,
         Arena!InterruptedInParallel, AP!InterruptedInParallel, Arena!Join, AP!Join, Arena!Serial,
         AP!Serial, Arena!InterruptedInSerial, AP!InterruptedInSerial, Arena!Breaks, AP!Breaks,
         Arena!Fails, AP!Fails, Arena!CancelsAgain, AP!CancelsAgain, Arena!Cancelled, AP!Cancelled,
         Arena!Coordinator, AP!Coordinator, Arena!Thread, AP!Thread, Arena!Environment,
         AP!Environment, Arena!Next, AP!Next, Arena!Live, AP!Live, Arena!Over, AP!Over,
         Arena!Exits, AP!Exits, Arena!Reused, AP!Reused, Arena!MayFail, AP!MayFail,
         Arena!JudgeGroup, AP!JudgeGroup, Arena!LeftBehind, AP!LeftBehind,
         Arena!Report, AP!Report, Arena!Stops, AP!Stops, Arena!Check, AP!Check, Arena!Spawn,
         AP!Spawn, Arena!Forgotten, AP!Forgotten, Arena!Leave, AP!Leave, Arena!Flag, AP!Flag,
         Arena!Look, AP!Look, Arena!StopOne, AP!StopOne, Arena!Settle, AP!Settle, Arena!Cancels,
         AP!Cancels, Arena!Cardinality, AP!Cardinality
<1>4. UNCHANGED arena => UNCHANGED AP!vars
  BY DEF arena, AP!vars, AP!pvars, AP!avars
<1> QED BY <1>1, <1>2, <1>3, <1>4

LEMMA SamePromises ==
  /\ AP!WinnerIsProven => Arena!WinnerIsProven
  /\ AP!OverMeansStopped => Arena!OverMeansStopped
  /\ AP!StoppedMeansStopped => Arena!StoppedMeansStopped
BY DEF AP!WinnerIsProven, Arena!WinnerIsProven, AP!Eligible, Arena!Eligible,
       AP!OverMeansStopped, Arena!OverMeansStopped, AP!StoppedMeansStopped, Arena!StoppedMeansStopped, AP!Live, Arena!Live

BenchInvariant ==
  AdaptiveInvariant /\ IntegrationInvariant /\ AP!ArenaInvariant /\ QueueInvariant

\* Whoever does not move keeps what is known of it.
LEMMA OthersStay ==
  /\ AdaptiveInvariant /\ IntegrationInvariant /\ UNCHANGED adaptive =>
       AdaptiveInvariant' /\ IntegrationInvariant'
  /\ AP!ArenaInvariant /\ UNCHANGED arena => AP!ArenaInvariant'
  /\ QueueInvariant /\ UNCHANGED queue => QueueInvariant'
<1>1. ASSUME AdaptiveInvariant, IntegrationInvariant, UNCHANGED adaptive
      PROVE  AdaptiveInvariant' /\ IntegrationInvariant'
  <2>1. UNCHANGED <<vars, ivars>>
    BY <1>1 DEF adaptive
  <2>2. AdaptiveTypes'
    BY <1>1, <2>1 DEF vars, AdaptiveInvariant, AdaptiveTypes
  <2>3. WorkIsAccounted' /\ GreenIsLast' /\ VerdictsCount'
    <3>1. AcceptedSteps' = AcceptedSteps /\ Accountable' = Accountable
      BY <2>1 DEF vars, AcceptedSteps, Accountable
    <3> QED BY <1>1, <2>1, <3>1
            DEF vars, AdaptiveInvariant, WorkIsAccounted, GreenIsLast, VerdictsCount, Accepted,
                Counted, Uncounted, Untidy
  <2>4. RefIsGreen' /\ EndIsRecorded' /\ StopIsNear'
    BY <1>1, <2>1
    DEF vars, AdaptiveInvariant, RefIsGreen, EndIsRecorded, OnRecord, StopIsNear, Untidy
  <2>5. IntegrationInvariant'
    BY <1>1, <2>1
    DEF vars, ivars, IntegrationInvariant, IntegrationTypes, VerifiedStays, BranchesAreOwned
  <2> QED BY <2>2, <2>3, <2>4, <2>5 DEF AdaptiveInvariant
<1>2. ASSUME AP!ArenaInvariant, UNCHANGED arena
      PROVE  AP!ArenaInvariant'
  <2>1. UNCHANGED AP!vars /\ AP!ArenaAssumption
    BY <1>2, SameTournament, BenchAssumption
  <2> QED BY <1>2, <2>1, AP!ArenaStep
<1>3. ASSUME QueueInvariant, UNCHANGED queue
      PROVE  QueueInvariant'
  <2>1. UNCHANGED <<keepGoing, step, at, live, checks, kept, told, code, log, finished, stopFile>>
    BY <1>3 DEF queue
  <2>2. QueueTypes' /\ OneRuns' /\ StepGoesOn'
    BY <1>3, <2>1 DEF QueueInvariant, QueueTypes, OneRuns, StepGoesOn
  <2>3. CodesAreTrue'
    <3> SUFFICES ASSUME NEW s \in Queue!Numbers PROVE CodeIsTrue(s)'
      BY DEF CodesAreTrue
    <3>1. CodeIsTrue(s)
      BY <1>3 DEF QueueInvariant, CodesAreTrue
    <3>2. Queue!Verified(s)' <=> Queue!Verified(s)
      BY <2>1 DEF Queue!Verified, Queue!Count
    <3> QED BY <2>1, <3>1, <3>2 DEF CodeIsTrue
  <2> QED BY <2>2, <2>3 DEF QueueInvariant
<1> QED BY <1>1, <1>2, <1>3

LEMMA BenchStep ==
  ASSUME BenchInvariant, [BenchNext]_bench
  PROVE  BenchInvariant'
<1> USE DEF BenchInvariant
<1>1. CASE IntegrationNext /\ UNCHANGED <<arena, queue>>
  BY <1>1, IntegrationStep, OthersStay
<1>2. CASE Arena!Next /\ UNCHANGED <<adaptive, queue>>
  <2>1. AP!Next /\ AP!ArenaAssumption
    BY <1>2, SameTournament, BenchAssumption
  <2> QED BY <1>2, <2>1, AP!ArenaStep, OthersStay
<1>3. CASE Queue!QueueNext /\ UNCHANGED <<adaptive, arena>>
  BY <1>3, QueueStep, OthersStay, BenchAssumption
<1>4. CASE UNCHANGED bench
  <2>1. UNCHANGED arena /\ UNCHANGED adaptive /\ UNCHANGED queue
    BY <1>4 DEF bench
  <2> QED BY <2>1, OthersStay
<1> QED BY <1>1, <1>2, <1>3, <1>4 DEF BenchNext

\* The inductive invariant of every way a run executes: of the adaptive controller and the
\* integrations of its result, of the tournament and its process runner, and of a queue.
THEOREM BenchInvariantHolds == BenchSpec => []BenchInvariant
<1>1. BenchInit => BenchInvariant
  <2> SUFFICES ASSUME BenchInit PROVE BenchInvariant
    OBVIOUS
  <2>1. IntegrationInit /\ Arena!Init /\ Queue!QueueInit
    BY DEF BenchInit
  <2>2. AP!Init /\ AP!ArenaAssumption
    BY <2>1, SameTournament, BenchAssumption
  <2>3. AP!ArenaInvariant
    BY <2>2, AP!ArenaStarts
  <2> QED BY <2>1, <2>3, IntegrationStarts, QueueStarts, BenchAssumption DEF BenchInvariant
<1>2. BenchInvariant /\ [BenchNext]_bench => BenchInvariant'
  BY BenchStep
<1> QED BY <1>1, <1>2, PTL DEF BenchSpec

\* However a run executes, what it calls its result was verified: last-green and the branch it
\* is integrated into (adaptive.py, integration.py), the winner of a tournament
\* (orchestrator.py), and what the next step of a queue builds on or the panel shows
\* (run_mode.py, batch.py, gui.py); for any number of steps, tasks, engineers and integrations.
THEOREM ResultsAreAlwaysProven == BenchSpec => []ResultsAreProven
<1>1. BenchInvariant => ResultsAreProven
  <2> SUFFICES ASSUME BenchInvariant PROVE ResultsAreProven
    OBVIOUS
  <2>1. GreenIsProven /\ IntegratesProvenWork
    BY AdaptiveIsProven, IntegrationIsProven DEF BenchInvariant
  <2>2. Arena!WinnerIsProven
    <3>1. AP!ArenaAssumption /\ AP!ArenaInvariant
      BY SameTournament, BenchAssumption DEF BenchInvariant
    <3> QED BY <3>1, AP!WinnersAreProven, SamePromises
  <2>3. Queue!BuiltOnProven /\ Queue!BoardTells
    BY QueueIsProven, BenchAssumption DEF BenchInvariant
  <2> QED BY <2>1, <2>2, <2>3 DEF ResultsAreProven
<1> QED BY <1>1, BenchInvariantHolds, PTL

\* However a run executes, it leaves nothing behind when it ends: what the record, the ref and
\* run.json say agrees, nothing that was started runs on unreported, and no step of a queue
\* starts beside an earlier one's.
THEOREM NothingIsLeftBehind == BenchSpec => []EndsLeaveNothingBehind
<1>1. BenchInvariant => EndsLeaveNothingBehind
  <2> SUFFICES ASSUME BenchInvariant PROVE EndsLeaveNothingBehind
    OBVIOUS
  <2>1. ReturnsOnRecord /\ StopsSoon
    BY AdaptiveIsProven DEF BenchInvariant
  <2>2. Arena!OverMeansStopped /\ Arena!StoppedMeansStopped
    <3>1. AP!ArenaAssumption /\ AP!ArenaInvariant
      BY SameTournament, BenchAssumption DEF BenchInvariant
    <3> QED BY <3>1, AP!EndsAreQuiet, SamePromises
  <2>3. Queue!OneAtATime
    BY QueueIsProven, BenchAssumption DEF BenchInvariant
  <2> QED BY <2>1, <2>2, <2>3 DEF EndsLeaveNothingBehind
<1> QED BY <1>1, BenchInvariantHolds, PTL

\* What the status of an adaptive run shows as its end stays, while the owner asks for stops and
\* integrates: adaptive_status shows an end only once the manifest is written.
THEOREM EndsStayAsShown == BenchSpec => EndsStay
<1>1. BenchInvariant /\ [BenchNext]_bench =>
        [(Shown \in Terminal /\ signals' = 0) => (Shown' = Shown)]_vars
  <2> SUFFICES ASSUME BenchInvariant, [BenchNext]_bench, Shown \in Terminal, ~UNCHANGED vars
               PROVE  Shown' = Shown
    OBVIOUS
  <2>1. IntegrationNext
    BY DEF BenchNext, bench, adaptive
  <2> QED BY <2>1, EndIsFinal DEF BenchInvariant
<1> QED BY <1>1, BenchInvariantHolds, PTL DEF BenchSpec, EndsStay
===============================================================================
