------------------------------ MODULE LocalMain ------------------------------
(***************************************************************************)
(* What the owner is promised of the local main branch, with no staging,   *)
(* job or receipt in sight: main only ever moves forward, by a commit of   *)
(* the owner's or to an exact commit that has been accepted.  Staging      *)
(* implements it.                                                          *)
(***************************************************************************)
EXTENDS SequencesExt

CONSTANTS Change, Owner

VARIABLES
  main,       \* the commit main is at
  accepted    \* commits accepted by the owner, or by the policy the owner set

branch == <<main, accepted>>

Init == main = <<>> /\ accepted = {}

OwnerCommits ==
  /\ Len(main') = Len(main) + 1 /\ IsPrefix(main, main')
  /\ Last(main') \in Change /\ Last(main').by = Owner
  /\ UNCHANGED accepted

Accept ==
  /\ \E commit \in accepted' : commit \in Seq(Change) /\ accepted' = accepted \cup {commit}
  /\ UNCHANGED main

Advance ==
  /\ main' \in accepted /\ IsPrefix(main, main')
  /\ UNCHANGED accepted

Next == OwnerCommits \/ Accept \/ Advance

Spec == Init /\ [][Next]_branch
===============================================================================
