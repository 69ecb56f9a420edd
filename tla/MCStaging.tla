------------------------------ MODULE MCStaging ------------------------------
(* Small instances of Staging for TLC. *)
EXTENDS StagingProperties, TLC

CONSTANTS t1, t2, t3

AnyOrder == Permutations(Tasks)
===============================================================================
