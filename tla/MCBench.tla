-------------------------------- MODULE MCBench --------------------------------
(***************************************************************************)
(* The ways a run executes, for TLC: the adaptive controller with the      *)
(* integration of its result, the arena's tournament with the process      *)
(* runner, and a queue of single agents.  A run is one of them, so a       *)
(* behaviour explores one and leaves the others as they start.             *)
(***************************************************************************)
EXTENDS Integration, TLC

CONSTANTS
  call1, call2, branch,                                      \* Integration
  Engineers, Rounds, Judge, Band, MaxScore, MaxUnconfirmed, ArenaFaults,   \* Arena
  QueueSteps, QueueChecks, QueueFaults                       \* Queues

\* The second call asks for the same branch.
SameBranch == [c \in Calls |-> branch]

VARIABLES
  part,                                                              \* what is explored
  cancelled, registry, active, os, term, calls, canceller,          \* Processes
  main, thread, head, cand, failed, state, winner, exported,        \* Arena
  keepGoing, step, at, live, checks, kept, told, code, log, finished, stopFile   \* Queues

arena == <<cancelled, registry, active, os, term, calls, canceller,
           main, thread, head, cand, failed, state, winner, exported>>
adaptive == <<vars, ivars>>
queue == <<keepGoing, step, at, live, checks, kept, told, code, log, finished, stopFile>>

Arena == INSTANCE Arena WITH
  Groups <- Engineers \X {"implement", "review", "revise", "check", "judge"} \X (0..Rounds),
  Faults <- ArenaFaults

Queue == INSTANCE Queues WITH
  pc <- at, run <- kept, Steps <- QueueSteps, Checks <- QueueChecks, Faults <- QueueFaults

\* Of the adaptive run and its integration: AdaptiveAssumption, IntegrationAssumption.
ASSUME BenchAssumption == Arena!ArenaAssumption /\ Queue!QueueAssumption

BenchInit ==
  /\ part \in {"adaptive", "arena", "queue"}
  /\ IntegrationInit /\ Arena!Init /\ Queue!QueueInit

BenchNext ==
  /\ UNCHANGED part
  /\ \/ part = "adaptive" /\ IntegrationNext /\ UNCHANGED <<arena, queue>>
     \/ part = "arena" /\ Arena!Next /\ UNCHANGED <<adaptive, queue>>
     \/ part = "queue" /\ Queue!QueueNext /\ UNCHANGED <<adaptive, arena>>

bench == <<part, arena, adaptive, queue>>

\* Whichever is explored goes on as long as one of its threads can: weaker than the fairness
\* of Adaptive and of Arena, where every thread does.
SomeThread ==
  \/ part = "adaptive" /\ Controller /\ UNCHANGED <<part, arena, ivars, queue>>
  \/ /\ part = "arena"
     /\ Arena!Coordinator \/ \E e \in Engineers : Arena!Thread(e)
     /\ UNCHANGED <<part, adaptive, queue>>
  \/ part = "queue" /\ Queue!Runner /\ UNCHANGED <<part, adaptive, arena>>

BenchSpec == BenchInit /\ [][BenchNext]_bench /\ WF_bench(SomeThread)

-------------------------------------------------------------------------------
\* No stop reaches a process that took over a group's ID: see Processes; not so.
StrangersAreSafe == Arena!StrangersAreSafe

\* What a run calls its result was verified: last-green, the branch it is integrated into, the
\* winner of a tournament, and what the next step of a queue builds on or the panel shows.
ResultsAreProven ==
  /\ GreenIsProven /\ IntegratesProvenWork /\ Arena!WinnerIsProven
  /\ Queue!BuiltOnProven /\ Queue!BoardTells

\* A run leaves nothing behind when it ends: an adaptive run that returns has ended on the
\* record, at most one provider phase after it was told to stop; when a tournament is over or
\* its runner stopped, nothing it started runs on; and no step of a queue starts beside an
\* earlier one's.
EndsLeaveNothingBehind ==
  /\ ReturnsOnRecord /\ StopsSoon
  /\ Arena!OverMeansStopped /\ Arena!StoppedMeansStopped
  /\ Queue!OneAtATime

\* Every run ends, and an adaptive run's status shows no end that is not the end.
RunsEnd ==
  /\ EndsStay
  /\ <>(CASE part = "arena" -> Arena!TournamentOver [] part = "queue" -> Queue!Over [] OTHER -> Returned)
===============================================================================
