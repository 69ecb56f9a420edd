------------------------------- MODULE Workspaces -------------------------------
(***************************************************************************)
(* The clones attempts work in, and `prune-workspaces', which removes the  *)
(* clones of finished work while the scheduler and the owner go on         *)
(* (control/workspaces.py), composed with Leases.                          *)
(*                                                                         *)
(* The pruner reads the ledger once for its survey, then again for each    *)
(* clone it is about to remove, and removes it after that reading.  How    *)
(* long a clone has been idle is not modelled: `--days 0' asks for none,   *)
(* and any clone may have been idle for long.                              *)
(***************************************************************************)
EXTENDS Leases

VARIABLES
  dirs,     \* the attempts whose clone is under <home>/workspaces
  plan,     \* the survey's prunable clones the pruner has not come to yet
  doomed    \* the clone the pruner has checked again and is about to remove

wsvars == <<dirs, plan, doomed>>

WorkspacesInit == Init /\ dirs = {} /\ plan = {} /\ doomed = None

-------------------------------------------------------------------------------
(* Guardians: a clone first, with the reviewed build fetched from its author's clone. *)

ReadsBuild(a) == att[a].phase \in {"review", "direct"}

Clone(a) ==
  /\ guard[a] = "up" /\ a \notin dirs
  /\ ReadsBuild(a) => att[a].base \in dirs
  /\ dirs' = dirs \cup {a}
  /\ UNCHANGED <<vars, plan, doomed>>

\* The child runs in its clone.
Ledger ==
  /\ Next
  /\ \A a \in Attempts : guard[a] = "up" /\ guard'[a] = "cli" => a \in dirs
  /\ UNCHANGED wsvars

-------------------------------------------------------------------------------
(* judge *)

PrunableStates == {"completed", "cancelled", "blocked"}

\* Its result says the stop was not confirmed.
Unconfirmed(a) == outcome[a] = "unconfirmed" /\ att[a].state = "failed"

\* Retrying the blocked task reviews this build again.
RetryReads(a) ==
  LET t == att[a].task IN
  /\ task[t].state = "blocked" /\ task[t].phase \in {"review", "direct"}
  /\ task[t].build_attempt = a /\ task[t].repairs < MaxRepairs

\* Mutants: a stop is taken for confirmed; a retry is not expected.
PrunableUnconfirmed(a) ==
  /\ att[a].state \notin Active \cup {"unused"}
  /\ task[att[a].task].state \in PrunableStates
  /\ ~RetryReads(a)
PrunableRetried(a) ==
  /\ att[a].state \notin Active \cup {"unused"}
  /\ ~Unconfirmed(a)
  /\ task[att[a].task].state \in PrunableStates

Prunable(a) ==
  /\ att[a].state \notin Active \cup {"unused"}
  /\ ~Unconfirmed(a)
  /\ task[att[a].task].state \in PrunableStates
  /\ ~RetryReads(a)

-------------------------------------------------------------------------------
(* prune --apply *)

Survey ==
  /\ plan = {} /\ doomed = None
  /\ plan' = {a \in dirs : Prunable(a)}
  /\ plan' # {}
  /\ UNCHANGED <<vars, dirs, doomed>>

\* A fresh verdict right before removing.
Recheck(a) ==
  /\ doomed = None /\ a \in plan
  /\ plan' = plan \ {a}
  /\ doomed' = IF Prunable(a) THEN a ELSE None
  /\ UNCHANGED <<vars, dirs>>

Remove ==
  /\ doomed # None
  /\ dirs' = dirs \ {doomed} /\ doomed' = None
  /\ UNCHANGED <<vars, plan>>

\* The command is interrupted.
PrunerStops ==
  /\ plan # {} \/ doomed # None
  /\ plan' = {} /\ doomed' = None
  /\ UNCHANGED <<vars, dirs>>

WorkspacesNext ==
  \/ Ledger
  \/ \E a \in Attempts : Clone(a) \/ Recheck(a)
  \/ Survey \/ Remove \/ PrunerStops

WorkspacesSpec == WorkspacesInit /\ [][WorkspacesNext]_<<vars, wsvars>>

-------------------------------------------------------------------------------
\* A review or a director check under a lease that stands finds the build it reviews, also when
\* the owner retries old work while the pruner runs.
ReviewedBuildsStay ==
  \A a \in Leased :
    ReadsBuild(a) /\ guard[a] \in {"starting", "up"} => att[a].base \in dirs

\* No agent loses the clone it works in, not even one whose stop could not be confirmed.
AgentsKeepTheirClones ==
  \A a \in Attempts : child[a] \in {"unrecorded", "recorded"} => a \in dirs

\* No agent loses the clone it works in, and a review finds the build it reviews, while the
\* owner retries old work and the pruner goes through its survey.
ClonesStay == ReviewedBuildsStay /\ AgentsKeepTheirClones
===============================================================================
