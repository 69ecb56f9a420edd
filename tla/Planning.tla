-------------------------------- MODULE Planning --------------------------------
(***************************************************************************)
(* What makes a director's plan acceptable (control/planning.py): a plan   *)
(* is a sequence of parts, each with the paths it may touch and the        *)
(* numbers of the parts it needs.  The schema's limits on texts and        *)
(* lengths are abstracted.                                                 *)
(***************************************************************************)
EXTENDS Integers, Sequences, FiniteSetsExt

RECURSIVE Visit(_, _, _, _)

\* Mutant: a part once entered is not entered again.
SeenBefore(plan, i, visiting, visited) ==
  IF i \in visiting THEN visited
  ELSE FoldSet(LAMBDA dep, seen : Visit(plan, dep, visiting \cup {i}, seen),
               visited, plan[i].needs) \cup {i}
\* visit(): the parts visited after i and all it needs, with -1 once a part needs itself.
Visit(plan, i, visiting, visited) ==
  IF i \in visiting THEN visited \cup {-1}
  ELSE IF i \in visited \/ -1 \in visited THEN visited
  ELSE FoldSet(LAMBDA dep, seen : Visit(plan, dep, visiting \cup {i}, seen),
               visited, plan[i].needs) \cup {i}

\* validate_plan()
Accepted(plan, authorized) ==
  /\ \A i \in DOMAIN plan :
       plan[i].scope \subseteq authorized /\ plan[i].needs \subseteq DOMAIN plan \ {i}
  /\ -1 \notin FoldSet(LAMBDA i, seen : Visit(plan, i, {}, seen), {}, DOMAIN plan)

-------------------------------------------------------------------------------
\* The plans accepted are the ones that stay within their authority and that can be worked
\* off: whatever is left undone, some part of it needs nothing else that is left.
AcceptedPlansCanBeWorked(Plans, authorized) ==
  \A plan \in Plans :
    Accepted(plan, authorized) <=>
      /\ \A i \in DOMAIN plan : plan[i].scope \subseteq authorized
      /\ \A i \in DOMAIN plan : plan[i].needs \subseteq DOMAIN plan
      /\ \A left \in SUBSET DOMAIN plan \ {{}} : \E i \in left : plan[i].needs \cap left = {}
===============================================================================
