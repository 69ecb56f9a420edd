-------------------------------- MODULE Story --------------------------------
(***************************************************************************)
(* What the phone tells the owner of a task, and which work counts as      *)
(* still going (control/story.py): pure functions of the store.  `state'   *)
(* and `deps' are the columns of the tasks asked about.                    *)
(***************************************************************************)

Active == {"leased", "running", "verifying", "reviewing", "recovering"}
Queued == {"ready", "waiting_capacity", "waiting_dependency", "repair_queued", "cooldown"}
InFlight == Active \cup {"integrating"}
Halted == {"blocked", "interrupted", "cancelled", "needs_auth", "needs_permission"}
OwnerStates == {"awaiting_input", "needs_auth", "needs_permission"}

\* A task without an approval of its own.
NoApproval == [state |-> "none", publication |-> "none"]

\* Verified work: waiting for a decision, refused by main, or on its way there.
Verified(approval, automatic) ==
  IF approval.state = "pending" THEN "needs_you"
  ELSE IF approval.publication = "failed" THEN "blocked"
  ELSE IF approval = NoApproval /\ ~automatic THEN "needs_you" ELSE "running"

\* block_state()
Block(state, approval, automatic) ==
  CASE state \in InFlight                 -> "running"
    [] state = "waiting_dependency"       -> "waiting"
    [] state \in Queued \ {"waiting_dependency"} -> "queued"
    [] state \in OwnerStates              -> "needs_you"
    [] state = "ready_for_approval"       -> Verified(approval, automatic)
    [] state = "completed"                -> "completed"
    [] state \in {"blocked", "interrupted"} -> "blocked"
    [] state = "cancelled"                -> "cancelled"

\* stuck_waits(): the least set of tasks that wait for a task that stopped, or for one of it.
Stuck(state, deps) ==
  LET Waits(t, on) == /\ state[t] = "waiting_dependency"
                      /\ \E d \in deps[t] : state[d] \in Halted \/ d \in on
  IN {t \in DOMAIN state : \A on \in SUBSET DOMAIN state :
        (\A u \in DOMAIN state : Waits(u, on) => u \in on) => t \in on}

\* still_going(): `block' shows the verified work, `merging' is on its way into main.
StillGoing(state, deps, block, merging, ownerWaits) ==
  {t \in DOMAIN state :
     \/ state[t] = "ready_for_approval"
          /\ (block[t] = "running" \/ (ownerWaits /\ block[t] = "needs_you"))
     \/ state[t] \in InFlight
     \/ state[t] \in Queued /\ t \notin Stuck(state, deps)
     \/ ownerWaits /\ state[t] = "awaiting_input"
     \/ t \in merging}

\* waiting_for_owner()
WaitingForOwner(state, block) ==
  {t \in DOMAIN state :
     \/ state[t] \in OwnerStates
     \/ state[t] = "ready_for_approval" /\ block[t] = "needs_you"}

\* goal_status(), of the states of a build's blocks.
GoalStatus(shown) ==
  CASE "running" \in shown -> "running"
    [] "needs_you" \in shown /\ "running" \notin shown -> "needs_you"
    [] "blocked" \in shown /\ shown \cap {"running", "needs_you"} = {} -> "blocked"
    [] shown \subseteq {"queued", "waiting", "completed", "cancelled"} ->
         IF shown \subseteq {"completed"} \cup {"cancelled"} /\ shown # {}
         THEN (IF "completed" \in shown THEN "completed" ELSE "cancelled")
         ELSE "queued"

\* needs_you(): what the owner is asked for, and for which task.
NeedsYou(state, block) ==
  LET Asks(kind, from) == {[kind |-> kind, task |-> t] : t \in {u \in DOMAIN state : state[u] = from}} IN
  Asks("answer", "awaiting_input") \cup Asks("sign_in", "needs_auth")
    \cup Asks("permission", "needs_permission")
    \cup {ask \in Asks("approve", "ready_for_approval") : block[ask.task] = "needs_you"}
===============================================================================
