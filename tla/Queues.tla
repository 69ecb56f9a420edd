-------------------------------- MODULE Queues --------------------------------
(***************************************************************************)
(* A queue of runs (batch.py), each one headless agent, its checks and its *)
(* sealed record (run_mode.py), started, stopped and shown by the panel    *)
(* (gui.py).                                                               *)
(***************************************************************************)
EXTENDS Integers, Sequences, FiniteSets

CONSTANTS
  Steps,     \* number of tasks of the queue
  Checks,    \* number of checks of every task
  Faults     \* bound: how a step may fail besides its checks

\* What kind of values these are; a run without a check is refused.
QueueAssumption == Steps \in Nat /\ Checks \in Nat \ {0}

VARIABLES
  keepGoing,  \* the queue file or --keep-going: go on after a step that failed
  step, pc,   \* the loop of the queue's process and where execute() is; "dead" when it died
  live,       \* process groups alive in the repository: <<step, "agent" or "check">>
  checks,     \* step -> the statuses its checks ended with
  run,        \* step -> "none", "open", "recorded" (result.json) or "sealed"
  told,       \* steps with an entry in STATE.md, what the next agent is told
  code,       \* step -> its exit code, by its label
  log,        \* step -> what the console log shows of it
  finished,   \* the log has the queue's summary
  stopFile    \* ~/.agent-arena/STOP

qvars == <<keepGoing, step, pc, live, checks, run, told, code, log, finished, stopFile>>

Numbers == 1..Steps

QueueInit ==
  /\ keepGoing \in BOOLEAN
  /\ step = 1 /\ pc = "next"
  /\ live = {} /\ told = {}
  /\ checks = [s \in Numbers |-> <<>>]
  /\ run = [s \in Numbers |-> "none"]
  /\ code = [s \in Numbers |-> "none"]
  /\ log = [s \in Numbers |-> {}]
  /\ finished = FALSE /\ stopFile = FALSE

-------------------------------------------------------------------------------
(* run_mode.execute() and main() *)

\* Mutant: a group that would not end is reported as the step's failure.
CaughtEverything == {"refused", "pricing", "symlink", "unstoppable", "disk"}
\* What main() turns into exit code 3; anything else ends the process of the queue.
Caught == {"refused", "pricing", "symlink"}

Raises(error) ==
  /\ error \in Faults
  /\ IF error \in Caught
     THEN /\ code' = [code EXCEPT ![step] = "error"]
          /\ log' = [log EXCEPT ![step] = @ \cup {"message"}]
          /\ pc' = "journal"
     ELSE pc' = "dead" /\ UNCHANGED <<code, log>>

Fails(error, at) ==
  /\ pc = at /\ Raises(error)
  /\ UNCHANGED <<keepGoing, step, checks, run, told, finished, stopFile>>

Goes(from, to) == pc = from /\ pc' = to

\* Nothing was made yet: no repository, no executable, a bad list of excluded runs.
Refuse == Fails("refused", "prepare") /\ UNCHANGED live

Launch ==
  /\ Goes("prepare", "agent")
  /\ run' = [run EXCEPT ![step] = "open"]
  /\ live' = live \cup {<<step, "agent">>}
  /\ UNCHANGED <<keepGoing, step, checks, told, code, log, finished, stopFile>>

\* The agent ends, or its time does; a group of either kind that cannot be seen to end raises.
AgentEnds ==
  /\ Goes("agent", "check")
  /\ live' = live \ {<<step, "agent">>}
  /\ UNCHANGED <<keepGoing, step, checks, run, told, code, log, finished, stopFile>>

Unstoppable ==
  \/ Fails("unstoppable", "agent") /\ UNCHANGED live
  \/ Fails("unstoppable", "check") /\ live' = live \cup {<<step, "check">>}

\* Ctrl-C: the group is stopped before the interrupt ends the queue.
Interrupt ==
  /\ Fails("interrupt", "agent")
  /\ live' = live \ {<<step, "agent">>}

\* run_checks(): one after another; a check that cannot run or times out is UNKNOWN.
Check ==
  \E status \in {"PASS", "FAIL", "UNKNOWN"} :
    /\ pc = "check"
    /\ checks' = [checks EXCEPT ![step] = Append(@, status)]
    /\ pc' = IF Len(checks[step]) + 1 = Checks THEN "record" ELSE pc
    /\ UNCHANGED <<keepGoing, step, live, run, told, code, log, finished, stopFile>>

Count(s, status) == Cardinality({i \in DOMAIN checks[s] : checks[s][i] = status})
\* Mutant: a check nobody could run is no failure.
VerifiedUnlessFailed(s) == Count(s, "FAIL") = 0
Verified(s) == Count(s, "PASS") = Len(checks[s])

\* result.json, which the ledger and the panel list from now on.
Record ==
  /\ Goes("record", "seal")
  /\ run' = [run EXCEPT ![step] = "recorded"]
  /\ UNCHANGED <<keepGoing, step, live, checks, told, code, log, finished, stopFile>>

Unpriced == Fails("pricing", "record") /\ UNCHANGED live

Seal ==
  /\ Goes("seal", "state")
  /\ run' = [run EXCEPT ![step] = "sealed"]
  /\ UNCHANGED <<keepGoing, step, live, checks, told, code, log, finished, stopFile>>

\* A full disk at any write of execute(), append_state() included.
DiskFull == (\E at \in {"prepare", "record", "seal", "state"} : Fails("disk", at)) /\ UNCHANGED live

Untold == Fails("symlink", "state") /\ UNCHANGED live

\* append_state(); main() prints the report, which stays in a buffer while the step lasts.
Report ==
  /\ Goes("state", "journal")
  /\ told' = told \cup {step}
  /\ code' = [code EXCEPT ![step] = IF Verified(step) THEN "verified"
                                    ELSE IF Count(step, "FAIL") > 0 THEN "FAIL" ELSE "UNKNOWN"]
  /\ UNCHANGED <<keepGoing, step, live, checks, run, log, finished, stopFile>>

-------------------------------------------------------------------------------
(* batch.main() and the panel *)

Begin ==
  /\ Goes("next", "prepare") /\ step <= Steps /\ ~stopFile
  /\ log' = [log EXCEPT ![step] = {"started"}]
  /\ UNCHANGED <<keepGoing, step, live, checks, run, told, code, finished, stopFile>>

\* after_run() and the journal's entry, which never stop the queue; then the log is flushed.
Journal ==
  /\ pc = "journal"
  /\ log' = IF code[step] = "error" THEN log ELSE [log EXCEPT ![step] = @ \cup {"report"}]
  /\ IF code[step] = "verified" \/ keepGoing
     THEN step' = step + 1 /\ pc' = "next"
     ELSE pc' = "summary" /\ UNCHANGED step
  /\ UNCHANGED <<keepGoing, live, checks, run, told, code, finished, stopFile>>

Finish ==
  /\ \/ pc = "summary"
     \/ pc = "next" /\ (step > Steps \/ stopFile)
  /\ pc' = "over" /\ finished' = TRUE
  /\ UNCHANGED <<keepGoing, step, live, checks, run, told, code, log, stopFile>>

Ended == {"over", "dead"}

\* The panel's Stop ends the queue's process group; agent and check live in groups of their own.
Stop ==
  /\ "stop" \in Faults /\ pc \notin Ended
  /\ pc' = "dead"
  /\ UNCHANGED <<keepGoing, step, live, checks, run, told, code, log, finished, stopFile>>

TouchStopFile ==
  /\ "stopfile" \in Faults /\ stopFile' = TRUE
  /\ UNCHANGED <<keepGoing, step, pc, live, checks, run, told, code, log, finished>>

Runner ==
  \/ Refuse \/ Launch \/ AgentEnds \/ Unstoppable \/ Interrupt
  \/ Check \/ Record \/ Unpriced \/ Seal \/ DiskFull \/ Untold \/ Report
  \/ Begin \/ Journal \/ Finish

QueueNext == Runner \/ Stop \/ TouchStopFile

\* parse_queue_log(): `wordy' says that the message of a failed step reads "error".
Shown(s, wordy) ==
  LET last == \A later \in Numbers : later > s => log[later] = {}
      harness == \E other \in Numbers : code[other] = "error" IN
  IF log[s] = {} THEN IF finished THEN "not run" ELSE "queued"
  ELSE IF "report" \in log[s] THEN IF Verified(s) THEN "verified" ELSE "failed"
  ELSE IF "message" \in log[s] /\ (wordy \/ (finished /\ last /\ harness)) THEN "failed"
  ELSE IF finished THEN "stopped" ELSE "running"

-------------------------------------------------------------------------------
\* A step of a queue that stops on failure starts on steps whose every check passed, on a sealed
\* record, and were noted for the agent that follows.
BuiltOnProven ==
  \A s \in Numbers : log[s] # {} /\ ~keepGoing =>
    \A before \in 1..(s - 1) :
      /\ checks[before] # <<>> /\ \A i \in DOMAIN checks[before] : checks[before][i] = "PASS"
      /\ run[before] = "sealed" /\ before \in told

\* Nothing of an earlier step runs in the repository while a later one, or a check, does, even
\* when a group cannot be stopped and the queue goes on after failures.
OneAtATime ==
  /\ Cardinality(live) <= 1
  /\ pc \in {"prepare", "check", "record"} => live = {}

\* The panel shows a step verified when all its checks passed on a sealed record, failed when it
\* failed, and none as running in a queue that is over.
BoardTells ==
  \A s \in Numbers, wordy \in BOOLEAN :
    /\ Shown(s, wordy) = "verified" => code[s] = "verified" /\ run[s] = "sealed"
    /\ Shown(s, wordy) = "failed" => code[s] \in {"FAIL", "UNKNOWN", "error"}
    /\ s < step \/ pc \in {"summary", "over"} =>
         /\ code[s] = "verified" => Shown(s, wordy) = "verified"
         /\ code[s] \in {"FAIL", "UNKNOWN"} => Shown(s, wordy) = "failed"
    /\ pc = "over" => Shown(s, wordy) \notin {"running", "queued"}

\* Every queue comes to its summary, unless it is stopped or dies of an error.
Over == pc \in Ended
QueueEnds == <>Over
===============================================================================
