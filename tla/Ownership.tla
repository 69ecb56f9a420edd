------------------------------ MODULE Ownership ------------------------------
(***************************************************************************)
(* What leasing promises, with no queue, process or recovery in sight: a   *)
(* task is owned by one attempt at a time, an account works for one        *)
(* attempt at a time, and an attempt that has been an owner never is one   *)
(* again.  Leases implements it.                                           *)
(***************************************************************************)
CONSTANTS Tasks, Attempts, Accounts, None

VARIABLES
  owner,   \* task -> the attempt that owns it, or None
  holds,   \* pairs: the attempt at work and the account it works with
  spent    \* attempts that are or have been owners

ownership == <<owner, holds, spent>>

Init ==
  /\ owner = [t \in Tasks |-> None]
  /\ holds = {}
  /\ spent = {}

Grant(t, a, c) ==
  /\ owner[t] = None
  /\ a \notin spent
  /\ \A h \in holds : h[2] # c
  /\ owner' = [owner EXCEPT ![t] = a]
  /\ holds' = holds \cup {<<a, c>>}
  /\ spent' = spent \cup {a}

Revoke(t) ==
  /\ owner[t] # None
  /\ owner' = [owner EXCEPT ![t] = None]
  /\ holds' = {h \in holds : h[1] # owner[t]}
  /\ UNCHANGED spent

Next ==
  \/ \E t \in Tasks, a \in Attempts, c \in Accounts : Grant(t, a, c)
  \/ \E t \in Tasks : Revoke(t)

Spec == Init /\ [][Next]_ownership

===============================================================================
