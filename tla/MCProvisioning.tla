----------------------------- MODULE MCProvisioning -----------------------------
(* A small instance of Provisioning for TLC. *)
EXTENDS Provisioning

CONSTANTS tap1, new1, new2, source, secret

OneKey == [t \in Taps |-> "key"]
===============================================================================
