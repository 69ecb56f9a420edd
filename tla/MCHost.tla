--------------------------------- MODULE MCHost ---------------------------------
(***************************************************************************)
(* What runs on the host beside the scheduler, for TLC: the pruning of     *)
(* clones, Arena's own releases, the enrolment and creation of products,   *)
(* the codes that pair devices, the sessions of those devices, and the     *)
(* outreach laboratory.  None of them reads or writes what another keeps,  *)
(* so a behaviour explores one and leaves the others as they start.        *)
(***************************************************************************)
EXTENDS Workspaces, TLC

CONSTANTS
  task1, account1, account2, project1,     \* Workspaces
  r1, r2, r3, base,                        \* Releases
  tap1, tap2, new1, new2, source, secret,  \* Provisioning
  phone, tablet, code1, code2, mac, api, first, second, Off   \* Access

OneProject == [t \in Tasks |-> project1]
Alone == (task1 :> {})
NoPlans == [t \in Tasks |-> {}]
SplitRoles ==
  [c \in Accounts |-> IF c = account1 THEN {"plan", "build"} ELSE {"build", "review"}]

VARIABLES
  part,                                                               \* what is explored
  activators, files, record, worktrees, service, proven, strayed,    \* Releases
  repo, commits, projects, archived, job, commands, meddled, moves,  \* Provisioning
  restarts, remote, requests,
  clock, pairing, tmp, issuer, used, sessions, cookie, request, pairs, gone, looked,  \* Access
  prospects, issues, campaigns, contacts, operations, receipts, day, executor   \* Acquisition

releases == <<activators, files, record, worktrees, service, proven, strayed>>
products == <<repo, commits, projects, archived, job, commands, meddled, moves, restarts,
              remote, requests>>
access == <<clock, pairing, tmp, issuer, used, sessions, cookie, request, pairs, gone, looked>>
clones == <<vars, wsvars>>
outreach == <<prospects, issues, campaigns, contacts, operations, receipts, day, executor>>

Releases == INSTANCE Releases WITH
  job <- activators, Commits <- {r1, r2, r3}, MaxJobs <- 3, Base <- base, Spare <- 1,
  Overlaps <- TRUE, Faults <- {"prepare", "bootout", "bootstrap", "health", "die"}

Everyone == {tap1, tap2, new1, new2}

\* Two taps with the same idempotency key, or one tap and two proposals of the same name.
TwoTaps == INSTANCE Provisioning WITH
  Taps <- {tap1, tap2}, Key <- [t \in {tap1, tap2} |-> "key"], Checkpoint <- {tap1, tap2},
  Provisions <- {}, Jobs <- Everyone, Files <- {source, secret}, Secret <- secret,
  MaxMoves <- 3, MaxRestarts <- 1, Nested <- FALSE
Proposals == INSTANCE Provisioning WITH
  Taps <- {tap1}, Key <- [t \in {tap1} |-> "key"], Checkpoint <- {tap1},
  Provisions <- {new1, new2}, Jobs <- Everyone, Files <- {source, secret}, Secret <- secret,
  MaxMoves <- 1, MaxRestarts <- 1, Nested <- FALSE

\* Two codes for two devices, from two issuers at once.
Pairings == INSTANCE Access WITH
  Devices <- {phone, tablet}, Codes <- {code1, code2}, Issuers <- {mac, api}, Slots <- {},
  CodeLife <- 1, SessionLife <- 3, RenewAfter <- 1, MaxSession <- 3, Away <- 1,
  MaxClock <- 3

\* Two requests of one device at once, past the end of its renewals.
Sessions == INSTANCE Access WITH
  Devices <- {phone}, Codes <- {code1}, Issuers <- {mac}, Slots <- {first, second},
  CodeLife <- 1, SessionLife <- 3, RenewAfter <- 1, MaxSession <- 3, Away <- 1,
  MaxClock <- 4

Rec(id, contact, cost, value, delay) ==
  [id |-> id, contact |-> contact, fit |-> "fit", cost |-> cost, value |-> value,
   delay |-> delay]

\* One campaign that two processes execute; records that conflict arrive meanwhile.
Campaign == INSTANCE Acquisition WITH
  Records <- {Rec(1, "ann", 2, 3, 1), Rec(2, "bob", 2, 4, 2), Rec(2, "bob", 1, 9, 1)},
  Keys <- {"spring"}, Budgets <- {3, 4}, Methods <- {"scripted-agent"},
  Executors <- {"api", "cli"}, Failures <- {"once", "after_receipt"},
  MaxAttempts <- 2, MaxDay <- 2
\* Two campaigns, by either method, after the same contacts.
Rivals == INSTANCE Acquisition WITH
  Records <- {Rec(1, "ann", 2, 3, 1), Rec(2, "bob", 2, 4, 2), Rec(3, "cyd", 3, 5, 1),
              [Rec(4, "dee", 1, 1, 1) EXCEPT !.fit = "faulty"]},
  Keys <- {"spring", "autumn"}, Budgets <- {4}, Methods <- {"baseline", "scripted-agent"},
  Executors <- {"api"}, Failures <- {"none"}, MaxAttempts <- 1, MaxDay <- 1

ASSUME HostAssumption ==
  /\ Releases!BaseIsNoRelease /\ TwoTaps!ProvisioningAssumption /\ Proposals!ProvisioningAssumption
  /\ Pairings!AccessAssumption /\ Sessions!AccessAssumption
  /\ Campaign!AcquisitionAssumption /\ Rivals!AcquisitionAssumption

\* The two requests in flight are alike.
RequestSymmetry == Permutations({first, second})

HostInit ==
  /\ part \in {"clones", "releases", "taps", "proposals", "codes", "sessions", "campaign", "rivals"}
  /\ WorkspacesInit
  /\ Releases!Init
  /\ IF part = "proposals" THEN Proposals!Init ELSE TwoTaps!Init
  /\ IF part = "codes" THEN Pairings!AccessInit ELSE Sessions!AccessInit
  /\ IF part = "rivals" THEN Rivals!AcquisitionInit ELSE Campaign!AcquisitionInit

HostNext ==
  /\ UNCHANGED part
  /\ \/ part = "clones" /\ WorkspacesNext /\ UNCHANGED <<releases, products, access, outreach>>
     \/ part = "releases" /\ Releases!Next /\ UNCHANGED <<clones, products, access, outreach>>
     \/ part = "taps" /\ TwoTaps!Next /\ UNCHANGED <<clones, releases, access, outreach>>
     \/ part = "proposals" /\ Proposals!Next /\ UNCHANGED <<clones, releases, access, outreach>>
     \/ part = "codes" /\ Pairings!AccessNext /\ UNCHANGED <<clones, releases, products, outreach>>
     \/ part = "sessions" /\ Sessions!AccessNext /\ UNCHANGED <<clones, releases, products, outreach>>
     \/ /\ part = "campaign" /\ Campaign!AcquisitionNext
        /\ UNCHANGED <<clones, releases, products, access>>
     \/ /\ part = "rivals" /\ Rivals!AcquisitionNext
        /\ UNCHANGED <<clones, releases, products, access>>

hostvars == <<part, clones, releases, products, access, outreach>>
HostSpec == HostInit /\ [][HostNext]_hostvars

-------------------------------------------------------------------------------
\* As long as no activator died, overlapped with another or failed to roll back, and the owner
\* rolled back only what had been activated, the service ends up loaded, on a release that passed
\* its checks; releases.json agrees with it, and what it or a rollback needs is not pruned.  An
\* overlap alone leaves it loaded.
ReleasesAreSound == part = "releases" => Releases!TypeOK /\ Releases!ReleasesAreSound

\* What Arena commits for the owner is what the tap listed, but for what others did since, and
\* Arena's refusals own up to it; one repository is one project, one key has one answer, and a
\* provision that is done has its own repository, project and request.
ProductsAreTheOwners ==
  /\ part = "taps" => TwoTaps!HistoryIsTheOwners /\ TwoTaps!EnrolledOnce
  /\ part = "proposals" =>
       Proposals!HistoryIsTheOwners /\ Proposals!EnrolledOnce /\ Proposals!DoneIsItsOwn

\* Of the rows: codes pair once, the sessions of devices signed out stay gone, those of devices in
\* use are renewed, and an absence only grows until the owner looks.
DevicesAreKept ==
  /\ [](part = "codes" => Pairings!Trusted)
  /\ [](part = "sessions" => Sessions!Trusted)
  /\ [][part = "sessions" => Sessions!AbsencesGrow]_access

\* Nobody is contacted twice or without approval, what is called finished was delivered, and
\* the plan that was proposed is the best there was.
OutreachIsSound ==
  /\ part = "campaign" =>
       Campaign!ContactedOnce /\ Campaign!FinishedIsDelivered /\ Campaign!PlansAreOptimal
  /\ part = "rivals" =>
       Rivals!ContactedOnce /\ Rivals!FinishedIsDelivered /\ Rivals!PlansAreOptimal
===============================================================================
