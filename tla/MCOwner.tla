-------------------------------- MODULE MCOwner --------------------------------
(***************************************************************************)
(* What the owner asks of the host and its work in progress, for TLC.  A   *)
(* behaviour explores one part, chosen at its start: of the scheduler, the *)
(* controls (stop everything, resume, projects), troubles (retries of      *)
(* work whose attempts fail in every way) or the archive; routing, as the  *)
(* owner pins models; and the acceptance of plans, a pure function, which  *)
(* has no steps.                                                           *)
(***************************************************************************)
EXTENDS Archive, TLC

CONSTANTS t1, t2, c1, c2, p1, Unpinned

OneProject == [t \in Tasks |-> p1]
Own == [t \in Tasks |-> t]
\* The owner asks for t1, and for t2 on top of it.
Chained == (t1 :> {}) @@ (t2 :> {t1})
Alone == (t1 :> {})
NoPlans == [t \in Tasks |-> {}]
SplitRoles == [c \in Accounts |-> IF c = c1 THEN {"plan", "build"} ELSE {"build", "review"}]
AllRoles == [c \in Accounts |-> {"plan", "build", "review"}]

\* One CLI of each kind; Codex's catalog may be lost, and a refused model is soon remembered
\* no more.
Enrolled == (c1 :> [provider |-> "codex", model |-> "sol61"])
              @@ (c2 :> [provider |-> "claude", model |-> "sonnet"])
Advertised == (c1 :> {<<>>, ("sol61" :> {1, 3}) @@ ("astra" :> {3, 5})})
                @@ (c2 :> {("sonnet" :> 1..5) @@ ("fable" :> {5})})
Work == {[complexity |-> "moderate", risk |-> "low", director |-> TRUE, light |-> TRUE]}
Pins == {[model |-> "astra", effort |-> 3], [model |-> "sonnet", effort |-> 2]}

VARIABLES
  part,
  attempts, catalog, pins, changes    \* Routing

routing == <<attempts, catalog, pins, changes>>

Troubles == INSTANCE Leases WITH
  Goals <- Alone, Roles <- AllRoles, MaxRepairs <- 1, MaxRetries <- 1, MaxRecoveries <- 1,
  Faults <- {}, Requests <- {"retry", "account"},
  Ends <- {"failed", "model_unavailable"}

Shelf == INSTANCE Archive WITH
  MaxSlots <- 1, MaxRepairs <- 1, Faults <- {}, Requests <- {"retry"}, Ends <- {"failed", "throttled"}

Routes == INSTANCE Routing WITH
  Jobs <- Work, Slots <- Enrolled, Catalogs <- Advertised, Samples <- 2, Window <- 3,
  Choosable <- Pins, MaxRouted <- 3, MaxChanges <- 1

\* The accounts and their catalogs are what enrolment and the CLIs make of them.
ASSUME OwnerAssumption == Routes!RoutingAssumption

OwnerInit ==
  /\ part \in {"controls", "troubles", "archive", "routing", "plans"}
  /\ IF part = "archive" THEN Shelf!ArchiveInit ELSE ArchiveInit
  /\ Routes!RoutingInit /\ (part # "routing" => catalog[c1] = <<>>)

OwnerNext ==
  /\ UNCHANGED part
  /\ \/ part = "controls" /\ Next /\ UNCHANGED <<archive, routing>>
     \/ part = "troubles" /\ Troubles!Next /\ UNCHANGED <<archive, routing>>
     \/ part = "archive" /\ Shelf!ArchiveNext /\ UNCHANGED routing
     \/ part = "routing" /\ Routes!RoutingNext /\ UNCHANGED <<vars, archive>>

OwnerSpec == OwnerInit /\ [][OwnerNext]_<<part, vars, archive, routing>>

-------------------------------------------------------------------------------
Plan == INSTANCE Planning

\* Up to three parts, one of which may ask for more than its authority or for no part at all.
SmallPlans ==
  UNION {[1..n -> [scope : {{"src"}}, needs : SUBSET (1..n)]
                    \cup [scope : {{"src", "etc"}}, needs : {{}, {0}}]] : n \in 1..3}

\* Refused models are not asked again, a pin never holds work up, failing providers and authors
\* make room for others, and efforts are ones the models have; the plans accepted are those
\* whose parts can be worked off in some order.
RoutesAndPlansAreSound ==
  /\ part = "routing" => Routes!RoutesAreSound
  /\ part = "plans" => Plan!AcceptedPlansCanBeWorked(SmallPlans, {"src"})
===============================================================================
