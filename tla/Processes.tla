------------------------------- MODULE Processes -------------------------------
(***************************************************************************)
(* The process runner (process.py): every provider and every check runs in *)
(* a process group of its own; leaving a run, for whatever reason, stops   *)
(* what is left of its group, and cancel_all stops every group at once     *)
(* while the runs go on in their threads.                                  *)
(*                                                                         *)
(* Abstracted: output, signals and grace periods: stopping a group is one  *)
(* step, as it happens under the group's own lock, and either proves it    *)
(* gone or does not.                                                       *)
(***************************************************************************)
EXTENDS Naturals, FiniteSets

CONSTANTS
  Groups,   \* the process groups, one for each call of run()
  Faults,   \* what may happen: "reuse" (a process ID is given to a stranger), and what the
            \* modules above add
  MaxUnconfirmed  \* how many groups cannot be stopped

VARIABLES
  cancelled,   \* _cancelled
  registry,    \* who holds _active_lock over more than one step: the group being started, if any
  active,      \* _active
  os,          \* what runs under each group's ID: it, its remains, nothing, or a stranger
  term,        \* _terminations: how the stop of each group ended
  calls,       \* how far each call of run() is
  canceller    \* cancel_all: its step, the groups it has yet to stop, whether one failed

pvars == <<cancelled, registry, active, os, term, calls, canceller>>

Live == {"alive", "left"}                         \* with or without its leader
Over == {"ended", "timed out", "interrupted", "unconfirmed"}

ProcessInit ==
  /\ cancelled = FALSE /\ registry = {} /\ active = {}
  /\ os = [g \in Groups |-> "none"]
  /\ term = [g \in Groups |-> "none"]
  /\ calls = [g \in Groups |-> "idle"]
  /\ canceller = [pc |-> "idle", left |-> {}, failed |-> FALSE]

-------------------------------------------------------------------------------
(* A group's processes.                                                    *)

\* A group nobody could stop may be there for ever.
Exits(g) ==
  /\ term[g] = "none"
  /\ \/ os[g] = "alive" /\ os' \in {[os EXCEPT ![g] = "left"], [os EXCEPT ![g] = "gone"]}
     \/ os[g] = "left" /\ os' = [os EXCEPT ![g] = "gone"]
  /\ UNCHANGED <<cancelled, registry, active, term, calls, canceller>>

\* Once a group is gone and reaped, its ID may be another's.  Told apart until the group's stop:
\* after it nobody probes or signals that ID for the group's sake.  Bound: one at a time.
Reused(g) ==
  /\ "reuse" \in Faults /\ os[g] = "gone" /\ term[g] = "none"
  /\ \A h \in Groups : os[h] # "stranger"
  /\ os' = [os EXCEPT ![g] = "stranger"]
  /\ UNCHANGED <<cancelled, registry, active, term, calls, canceller>>

MayFail == Cardinality({g \in Groups : term[g] = "unconfirmed"}) < MaxUnconfirmed

\* _terminate_group: the first stop counts, for every thread that asks.  It goes by the ID, and
\* a stranger who has it is signalled, and is gone or stays, like the group itself.
Stops(g) ==
  IF term[g] # "none" THEN {[os |-> os[g], term |-> term[g]]}
  ELSE {[os |-> "gone", term |-> "confirmed"]}
       \cup (IF MayFail /\ os[g] \in Live \cup {"stranger"}
             THEN {[os |-> os[g], term |-> "unconfirmed"]} ELSE {})

-------------------------------------------------------------------------------
(* run().                                                                  *)

\* The look at _cancelled ...
Check(g) ==
  /\ calls[g] = "idle" /\ registry = {}
  /\ IF cancelled THEN calls' = [calls EXCEPT ![g] = "interrupted"] /\ UNCHANGED registry
     ELSE calls' = [calls EXCEPT ![g] = "checked"] /\ registry' = {g}
  /\ UNCHANGED <<cancelled, active, os, term, canceller>>

\* ... and the start are under one lock.
Spawn(g) ==
  /\ calls[g] = "checked"
  /\ calls' = [calls EXCEPT ![g] = "running"]
  /\ os' = [os EXCEPT ![g] = "alive"]
  /\ active' = active \cup {g}
  /\ registry' = {}
  /\ UNCHANGED <<cancelled, term, canceller>>

\* Mutant: a group is forgotten whether or not it is gone.
ForgottenAnyway(g, stop) == active \ {g}

\* A group that may still be there stays in the register.
Forgotten(g, stop) == IF stop.term = "confirmed" THEN active \ {g} ELSE active

\* The run is left because the leader ended, the time is up or the runner was cancelled;
\* its group is stopped in each case.
Leave(g) ==
  /\ calls[g] = "running" /\ registry = {}
  /\ \E stop \in Stops(g),
        why \in (IF os[g] = "alive" THEN {} ELSE {"ended"}) \cup {"timed out"}
                \cup (IF cancelled THEN {"interrupted"} ELSE {}) :
       /\ os' = [os EXCEPT ![g] = stop.os]
       /\ term' = [term EXCEPT ![g] = stop.term]
       /\ active' = Forgotten(g, stop)
       /\ calls' = [calls EXCEPT ![g] = IF stop.term = "confirmed" THEN why ELSE "unconfirmed"]
  /\ UNCHANGED <<cancelled, registry, canceller>>

-------------------------------------------------------------------------------
(* cancel_all().                                                           *)

Flag ==
  /\ canceller.pc = "asked"
  /\ cancelled' = TRUE
  /\ canceller' = [canceller EXCEPT !.pc = "flagged"]
  /\ UNCHANGED <<registry, active, os, term, calls>>

\* Mutant: the register is read without its lock.
LookUnlocked ==
  /\ canceller.pc = "flagged"
  /\ canceller' = [canceller EXCEPT !.pc = "stopping", !.left = active]
  /\ UNCHANGED <<cancelled, registry, active, os, term, calls>>

Look ==
  /\ canceller.pc = "flagged" /\ registry = {}
  /\ canceller' = [canceller EXCEPT !.pc = "stopping", !.left = active]
  /\ UNCHANGED <<cancelled, registry, active, os, term, calls>>

StopOne(g) ==
  /\ canceller.pc = "stopping" /\ g \in canceller.left
  /\ \E stop \in Stops(g) :
       /\ os' = [os EXCEPT ![g] = stop.os]
       /\ term' = [term EXCEPT ![g] = stop.term]
       /\ canceller' = [canceller EXCEPT !.left = @ \ {g},
                                         !.failed = @ \/ stop.term = "unconfirmed"]
  /\ UNCHANGED <<cancelled, registry, active, calls>>

Settle ==
  /\ canceller.pc = "stopping" /\ canceller.left = {}
  /\ canceller' = [canceller EXCEPT !.pc = IF canceller.failed THEN "failed" ELSE "done"]
  /\ UNCHANGED <<cancelled, registry, active, os, term, calls>>

Cancels == Flag \/ Look \/ (\E g \in Groups : StopOne(g)) \/ Settle

-------------------------------------------------------------------------------
\* Once cancel_all returned without an error nothing runs, and nothing will: what was being
\* started when it began is stopped like the rest.
StoppedMeansStopped ==
  canceller.pc = "done" =>
    \A g \in Groups : os[g] \notin Live /\ calls[g] # "checked"

\* No group is stopped when its ID has become another's.  Not so: run() reaps the leader while
\* it waits for it, and the group's stop then goes by a number that may be given away.
StrangersAreSafe == [][\A g \in Groups : os[g] = "stranger" => term'[g] = term[g]]_pvars
===============================================================================
