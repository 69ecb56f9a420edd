------------------------------ MODULE ServiceProofs ------------------------------
(***************************************************************************)
(* Proofs about the service on the host: how Arena replaces itself         *)
(* (Releases), and which devices it serves (Access).                       *)
(*                                                                         *)
(* Releases.  The theorems hold for any commits, any number of activations *)
(* and rollbacks, overlapping or not, and every fault; of the names they   *)
(* assume only that the checkout the service was first pointed at is not   *)
(* called like a release of a commit.  As long as no two activators        *)
(* overlapped, the one at work finds the files as it left them             *)
(* (SwapsAreOrderly); as long as moreover none died or failed to roll      *)
(* back, what it read at its start is still on record, and                 *)
(* control.plist.previous is what a rollback needs (BooksAreKept).         *)
(*                                                                         *)
(* Devices.  The theorems hold for any devices, codes, issuers of codes    *)
(* and requests served at once, and for any periods.  What a request read  *)
(* of its session is out of date in one direction only: rows are renewed   *)
(* and signed out, never shortened or handed on (RequestsFit); and two     *)
(* requests about to write an absence found the same one, unless the owner *)
(* has looked meanwhile (AbsencesFit).                                     *)
(***************************************************************************)
EXTENDS Releases, Access, TLAPS


-------------------------------------------------------------------------------
(* Releases: the inductive invariant *)

Swapping == {"unloading", "installing", "loading", "checking"}

ModesFit ==
  \A j \in Jobs : AtWork(j) =>
    /\ job[j].mode \in {"activate", "undo", "rollback"}
    /\ job[j].mode = "activate" => job[j].sha \in Commits
    /\ job[j].pc \in {"preparing", "saving", "pruning"} => job[j].mode = "activate"
    /\ job[j].pc \in {"preparing", "saving", "pruning"} \cup Swapping

OneAtWork ==
  "overlap" \notin strayed => \A j, k \in Jobs : AtWork(j) /\ AtWork(k) => j = k

\* What an activator alone at work finds in the files and in launchd.
SwapsAreOrderly ==
  "overlap" \notin strayed => \A j \in Jobs :
    LET pc == job[j].pc  activates == job[j].mode = "activate" IN
    /\ activates /\ pc \in {"saving", "unloading", "installing"} => files.next = job[j].sha
    /\ activates /\ pc \in {"loading", "checking", "pruning"} => files.control = job[j].sha
    /\ ~activates /\ pc \in {"loading", "checking"} => files.control = files.previous
    /\ pc \in {"installing", "loading"} => ~service.loaded
    /\ pc \in {"checking", "pruning"} => service.loaded /\ service.release = files.control

\* Between swaps the service runs the proven release that is on record; during one, what was
\* read at the start is on record, and control.plist.previous is the release to go back to.
BooksAreKept ==
  strayed \subseteq {"forgot"} =>
    /\ (\A j \in Jobs : job[j].pc \notin Swapping) =>
         /\ service.loaded /\ service.release \in proven
         /\ files.control = service.release /\ record.current = OnRecord(service.release)
    /\ \A j \in Jobs : AtWork(j) =>
         /\ job[j].pc # "pruning" =>
              record.current = job[j].current /\ record.previous = job[j].previous
         /\ job[j].pc \in Swapping =>
              OnRecord(files.previous) =
                IF job[j].mode = "rollback" THEN job[j].previous ELSE job[j].current

\* If nothing ever strayed, the predecessor is on record too, and both are checked out.
PredecessorIsKept ==
  strayed = {} =>
    /\ record.last = "activated"
         /\ (\A j \in Jobs : job[j].pc \in Swapping => job[j].mode = "rollback")
         => record.previous = OnRecord(files.previous)
    /\ \A j \in Jobs :
         /\ job[j].pc = "pruning" => record.last = "activated" /\ record.previous = job[j].current
         /\ AtWork(j) /\ job[j].mode = "activate" /\ job[j].pc # "preparing"
              => job[j].sha \in worktrees

\* Who unloads the service loads it again, or reports that it could not.
UnloadedForASwap ==
  {"death", "unrestored"} \cap strayed = {} /\ ~service.loaded =>
    \E j \in Jobs : \/ job[j].pc \in {"installing", "loading"}
                    \/ job[j].pc = "unloading" /\ job[j].mode = "undo"

ReleaseInvariant ==
  /\ TypeOK /\ ModesFit /\ OneAtWork /\ SwapsAreOrderly
  /\ BooksAreKept /\ PredecessorIsKept /\ InUseIsKept /\ UnloadedForASwap

-------------------------------------------------------------------------------
(* Releases: types *)

Row == [pc : {"idle", "preparing", "saving", "unloading", "installing", "loading", "checking",
              "pruning", "ended"},
        mode : {"none", "activate", "undo", "rollback"}, sha : OnBooks, current : OnBooks,
        previous : OnBooks]

LEMMA Rows ==
  ASSUME TypeOK
  PROVE  /\ job \in [Jobs -> Row]
         /\ \A j \in Jobs : /\ job[j] \in Row
                            /\ job[j].sha \in OnBooks /\ job[j].current \in OnBooks
                            /\ job[j].previous \in OnBooks
BY DEF TypeOK, Row

\* What becomes of the activators when one moves.
LEMMA JobMoves ==
  ASSUME TypeOK, NEW j \in Jobs
  PROVE  /\ \A pc : Goes(j, pc) =>
              /\ job' = [job EXCEPT ![j] = [job[j] EXCEPT !.pc = pc]]
              /\ job'[j].pc = pc /\ job'[j].mode = job[j].mode /\ job'[j].sha = job[j].sha
              /\ job'[j].current = job[j].current /\ job'[j].previous = job[j].previous
              /\ \A k \in Jobs \ {j} : job'[k] = job[k]
         /\ Stops(j) =>
              /\ job' = [job EXCEPT ![j] = [Idle EXCEPT !.pc = "ended"]]
              /\ job'[j].pc = "ended" /\ \A k \in Jobs \ {j} : job'[k] = job[k]
<1>1. job \in [Jobs -> Row] /\ job[j] \in Row
  BY Rows
<1> QED
  BY <1>1 DEF Goes, Stops, Row, Idle

LEMMA JobsStayTyped ==
  ASSUME TypeOK, NEW j \in Jobs
  PROVE  /\ \A pc \in {"saving", "unloading", "installing", "loading", "checking", "pruning"} :
              Goes(j, pc) => job' \in [Jobs -> Row]
         /\ Stops(j) => job' \in [Jobs -> Row]
<1>1. job \in [Jobs -> Row] /\ job[j] \in Row
  BY Rows
<1>2. [Idle EXCEPT !.pc = "ended"] \in Row
  BY DEF Idle, Row, OnBooks
<1> QED
  BY <1>1, <1>2 DEF Goes, Stops, Row

LEMMA StepsKeepTypes ==
  ASSUME TypeOK, ModesFit, [Next]_vars
  PROVE  TypeOK'
<1>t. /\ job \in [Jobs -> Row]
      /\ files \in [control : Commits \cup {Base}, next : OnBooks, previous : OnBooks \cup {Base}]
      /\ record \in [current : OnBooks, previous : OnBooks,
                     last : {"none", "activated", "rolled_back", "failed"}]
      /\ worktrees \subseteq Commits
      /\ service \in [loaded : BOOLEAN, release : Commits \cup {Base}]
      /\ proven \subseteq Commits \cup {Base}
      /\ strayed \subseteq {"death", "unrestored", "misuse", "forgot", "overlap"}
  BY DEF TypeOK, Row
<1>w. /\ job' \in [Jobs -> Row]
      /\ files' \in [control : Commits \cup {Base}, next : OnBooks, previous : OnBooks \cup {Base}]
      /\ record' \in [current : OnBooks, previous : OnBooks,
                      last : {"none", "activated", "rolled_back", "failed"}]
      /\ worktrees' \subseteq Commits
      /\ service' \in [loaded : BOOLEAN, release : Commits \cup {Base}]
      /\ proven' \subseteq Commits \cup {Base}
      /\ strayed' \subseteq {"death", "unrestored", "misuse", "forgot", "overlap"}
      => TypeOK'
  BY DEF TypeOK, Row
<1>1. CASE UNCHANGED vars
  BY <1>1, <1>t, <1>w DEF vars
<1>2. ASSUME NEW j \in Jobs, NEW sha \in Commits, Activate(j, sha)
      PROVE  TypeOK'
  <2>1. [pc |-> "preparing", mode |-> "activate", sha |-> sha,
         current |-> record.current, previous |-> record.previous] \in Row
    BY <1>t DEF Row, OnBooks
  <2> QED
    BY <1>2, <1>t, <1>w, <2>1 DEF Activate, Begins
<1>3. ASSUME NEW j \in Jobs, Rollback(j)
      PROVE  TypeOK'
  <2>1. [pc |-> "unloading", mode |-> "rollback", sha |-> None,
         current |-> record.current, previous |-> record.previous] \in Row
    BY <1>t DEF Row, OnBooks
  <2> QED
    BY <1>3, <1>t, <1>w, <2>1 DEF Rollback, Begins
<1>4. ASSUME NEW j \in Jobs, Prepare(j) \/ PrepareFails(j) \/ Prune(j)
      PROVE  TypeOK'
  <2>1. AtWork(j) /\ job[j].mode = "activate" /\ job[j].sha \in Commits
    BY <1>4 DEF Prepare, PrepareFails, Prune, AtWork, ModesFit
  <2> QED
    BY <1>4, <1>t, <1>w, <2>1, Rows, JobsStayTyped
       DEF Prepare, PrepareFails, Prune, Added, Recorded, OnBooks, Pruned
<1>5. ASSUME NEW j \in Jobs, Save(j) \/ Unload(j) \/ Install(j) \/ Load(j)
      PROVE  TypeOK'
  <2>1. CASE Save(j)
    BY <2>1, <1>t, <1>w, JobsStayTyped DEF Save, OnBooks
  <2>2. CASE Unload(j)
    BY <2>2, <1>t, <1>w, JobsStayTyped DEF Unload
  <2>3. CASE Install(j)
    BY <2>3, <1>t, <1>w, JobsStayTyped DEF Install, Source, OnBooks
  <2>4. CASE Load(j)
    BY <2>4, <1>t, <1>w, JobsStayTyped DEF Load, OnBooks
  <2> QED
    BY <1>5, <2>1, <2>2, <2>3, <2>4
<1>6. ASSUME NEW j \in Jobs, GivesUp(j)
      PROVE  /\ job' \in [Jobs -> Row]
             /\ record' \in [current : OnBooks, previous : OnBooks,
                             last : {"none", "activated", "rolled_back", "failed"}]
             /\ strayed' \subseteq {"death", "unrestored", "misuse", "forgot", "overlap"}
  <2>1. CASE job[j].mode = "activate"
    BY <1>6, <2>1, <1>t DEF GivesUp, Row
  <2>2. CASE job[j].mode # "activate"
    BY <1>6, <2>2, <1>t, Rows, JobsStayTyped DEF GivesUp, Recorded
  <2> QED
    BY <2>1, <2>2
<1>7. ASSUME NEW j \in Jobs, SwapFails(j) \/ SwapDies(j) \/ Unhealthy(j) \/ Die(j)
      PROVE  TypeOK'
  <2>1. CASE SwapFails(j)
    BY <2>1, <1>6, <1>t, <1>w DEF SwapFails
  <2>2. CASE Unhealthy(j)
    BY <2>2, <1>6, <1>t, <1>w DEF Unhealthy
  <2>3. CASE SwapDies(j) \/ Die(j)
    BY <2>3, <1>t, <1>w, JobsStayTyped DEF SwapDies, Die
  <2> QED
    BY <1>7, <2>1, <2>2, <2>3
<1>8. ASSUME NEW j \in Jobs, Healthy(j)
      PROVE  TypeOK'
  <2>1. job' \in [Jobs -> Row]
    BY <1>8, JobsStayTyped DEF Healthy, Decided
  <2>2. record' \in [current : OnBooks, previous : OnBooks,
                    last : {"none", "activated", "rolled_back", "failed"}]
    BY <1>8, Rows DEF Healthy, Decided, Recorded, OnBooks
  <2>3. strayed' \subseteq {"death", "unrestored", "misuse", "forgot", "overlap"}
    BY <1>8, <1>t DEF Healthy, Decided
  <2> QED
    BY <1>8, <1>t, <1>w, <2>1, <2>2, <2>3 DEF Healthy
<1>9. CASE Login
  BY <1>9, <1>t, <1>w DEF Login
<1> QED
  BY <1>1, <1>2, <1>3, <1>4, <1>5, <1>7, <1>8, <1>9 DEF Next, Step

-------------------------------------------------------------------------------
(* Releases: one activator at work *)

\* A step is one activator's, or logging in.
LEMMA OneMoves ==
  ASSUME TypeOK, [Next]_vars
  PROVE  \/ UNCHANGED vars
         \/ Login
         \/ \E j \in Jobs : /\ \/ \E sha \in Commits : Activate(j, sha)
                               \/ Rollback(j)
                               \/ (Step(j) \/ Die(j)) /\ AtWork(j)
                            /\ \A k \in Jobs \ {j} : job'[k] = job[k]
<1>t. job \in [Jobs -> Row]
  BY Rows
<1>1. ASSUME NEW j \in Jobs, \E sha \in Commits : Activate(j, sha)
      PROVE  \A k \in Jobs \ {j} : job'[k] = job[k]
  BY <1>1, <1>t DEF Activate, Begins
<1>2. ASSUME NEW j \in Jobs, Rollback(j)
      PROVE  \A k \in Jobs \ {j} : job'[k] = job[k]
  BY <1>2, <1>t DEF Rollback, Begins
<1>3. ASSUME NEW j \in Jobs, Step(j) \/ Die(j)
      PROVE  AtWork(j) /\ \A k \in Jobs \ {j} : job'[k] = job[k]
  <2>1. AtWork(j)
    BY <1>3 DEF Step, Prepare, PrepareFails, Save, Unload, Install, Load, SwapFails, SwapDies,
       Unhealthy, Healthy, Prune, Die, AtWork
  <2>2. Goes(j, job'[j].pc) \/ Stops(j) \/ GivesUp(j) => \A k \in Jobs \ {j} : job'[k] = job[k]
    BY <1>t, JobMoves DEF GivesUp
  <2>3. \A pc : Goes(j, pc) => \A k \in Jobs \ {j} : job'[k] = job[k]
    BY JobMoves
  <2> QED
    BY <1>3, <2>1, <2>2, <2>3 DEF Step, Prepare, PrepareFails, Save, Unload, Install, Load,
       SwapFails, SwapDies, Unhealthy, Healthy, Decided, Prune, Die
<1> QED
  BY <1>1, <1>2, <1>3 DEF Next

LEMMA ModesStayFit ==
  ASSUME TypeOK, ModesFit, [Next]_vars
  PROVE  ModesFit'
<1>t. job \in [Jobs -> Row]
  BY Rows
<1>1. CASE UNCHANGED vars \/ Login
  BY <1>1 DEF vars, Login, ModesFit, AtWork
<1>2. ASSUME NEW j \in Jobs, \A k \in Jobs \ {j} : job'[k] = job[k],
             AtWork(j)' => /\ job'[j].mode \in {"activate", "undo", "rollback"}
                           /\ job'[j].mode = "activate" => job'[j].sha \in Commits
                           /\ job'[j].pc \in {"preparing", "saving", "pruning"} =>
                                job'[j].mode = "activate"
                           /\ job'[j].pc \in {"preparing", "saving", "pruning"} \cup Swapping
      PROVE  ModesFit'
  BY <1>2 DEF ModesFit, AtWork
<1>3. ASSUME NEW j \in Jobs, \E sha \in Commits : Activate(j, sha),
             \A k \in Jobs \ {j} : job'[k] = job[k]
      PROVE  ModesFit'
  BY <1>2, <1>3, <1>t DEF Activate, Begins, Swapping
<1>4. ASSUME NEW j \in Jobs, Rollback(j), \A k \in Jobs \ {j} : job'[k] = job[k]
      PROVE  ModesFit'
  BY <1>2, <1>4, <1>t DEF Rollback, Begins, Swapping
<1>5. ASSUME NEW j \in Jobs, Step(j) \/ Die(j), AtWork(j), \A k \in Jobs \ {j} : job'[k] = job[k]
      PROVE  ModesFit'
  <2>m. /\ job[j].mode \in {"activate", "undo", "rollback"}
        /\ job[j].mode = "activate" => job[j].sha \in Commits
        /\ job[j].pc \in {"preparing", "saving", "pruning"} => job[j].mode = "activate"
    BY <1>5 DEF ModesFit
  <2>1. CASE Stops(j)
    BY <1>2, <1>5, <2>1, JobMoves DEF AtWork
  <2>2. ASSUME NEW pc, Goes(j, pc), pc \in Swapping \/ job[j].mode = "activate",
               pc \in {"preparing", "saving", "pruning"} \cup Swapping
        PROVE  ModesFit'
    BY <1>2, <1>5, <2>2, <2>m, JobMoves DEF Swapping
  <2>3. CASE GivesUp(j)
    <3>1. CASE job[j].mode = "activate"
      <4>1. job'[j].mode = "undo" /\ job'[j].pc = "unloading"
        BY <1>t, <2>3, <3>1 DEF GivesUp, Row
      <4> QED
        BY <1>2, <1>5, <4>1 DEF Swapping
    <3> QED
      BY <2>1, <2>3, <3>1 DEF GivesUp
  <2>4. CASE Prepare(j) \/ Save(j) \/ Unload(j) \/ Install(j) \/ Load(j)
    BY <2>2, <2>4, <2>m DEF Prepare, Save, Unload, Install, Load, Swapping
  <2>5. CASE Healthy(j)
    BY <2>1, <2>2, <2>5 DEF Healthy, Decided
  <2>6. CASE PrepareFails(j) \/ SwapDies(j) \/ Prune(j) \/ Die(j)
    BY <2>1, <2>6 DEF PrepareFails, SwapDies, Prune, Die
  <2> QED
    BY <1>5, <2>3, <2>4, <2>5, <2>6 DEF Step, SwapFails, Unhealthy
<1> QED
  BY <1>1, <1>3, <1>4, <1>5, OneMoves

LEMMA StillOneAtWork ==
  ASSUME TypeOK, ModesFit, OneAtWork, [Next]_vars
  PROVE  OneAtWork'
<1> SUFFICES ASSUME "overlap" \notin strayed'
             PROVE  \A j, k \in Jobs : AtWork(j)' /\ AtWork(k)' => j = k
  BY DEF OneAtWork
<1>1. CASE UNCHANGED vars \/ Login
  BY <1>1 DEF vars, Login, OneAtWork, AtWork
<1>2. ASSUME NEW j \in Jobs, (\E sha \in Commits : Activate(j, sha)) \/ Rollback(j),
             \A k \in Jobs \ {j} : job'[k] = job[k]
      PROVE  \A k, l \in Jobs : AtWork(k)' /\ AtWork(l)' => k = l
  <2>1. \A k \in Jobs : ~AtWork(k)
    BY <1>2 DEF Activate, Rollback, Begins
  <2> QED
    BY <1>2, <2>1 DEF AtWork
<1>3. ASSUME NEW j \in Jobs, Step(j) \/ Die(j), AtWork(j), \A k \in Jobs \ {j} : job'[k] = job[k]
      PROVE  \A k, l \in Jobs : AtWork(k)' /\ AtWork(l)' => k = l
  <2>1. "overlap" \notin strayed
    BY <1>3 DEF Step, Prepare, PrepareFails, Save, Unload, Install, Load, SwapFails, SwapDies,
       Unhealthy, Healthy, Decided, GivesUp, Prune, Die
  <2>2. \A k \in Jobs \ {j} : ~AtWork(k)
    BY <1>3, <2>1 DEF OneAtWork
  <2> QED
    BY <1>3, <2>2 DEF AtWork
<1> QED
  BY <1>1, <1>2, <1>3, OneMoves

\* As long as no two overlapped, a step is made by the one that is at work.
LEMMA OnlyOneMoves ==
  ASSUME TypeOK, OneAtWork, [Next]_vars, "overlap" \notin strayed'
  PROVE  \/ UNCHANGED vars
         \/ Login /\ \A k \in Jobs : job[k].pc \in {"idle", "ended"}
         \/ \E j \in Jobs :
              /\ \/ /\ (\E sha \in Commits : Activate(j, sha)) \/ Rollback(j)
                    /\ \A k \in Jobs : job[k].pc \in {"idle", "ended"}
                 \/ (Step(j) \/ Die(j)) /\ AtWork(j)
              /\ "overlap" \notin strayed
              /\ \A k \in Jobs \ {j} : job'[k] = job[k] /\ job[k].pc \in {"idle", "ended"}
<1>1. ASSUME NEW j \in Jobs, (\E sha \in Commits : Activate(j, sha)) \/ Rollback(j)
      PROVE  "overlap" \notin strayed /\ \A k \in Jobs : ~AtWork(k)
  BY <1>1 DEF Activate, Rollback, Begins
<1>2. ASSUME NEW j \in Jobs, Step(j) \/ Die(j), AtWork(j)
      PROVE  "overlap" \notin strayed /\ \A k \in Jobs \ {j} : ~AtWork(k)
  <2>1. "overlap" \notin strayed
    BY <1>2 DEF Step, Prepare, PrepareFails, Save, Unload, Install, Load, SwapFails, SwapDies,
       Unhealthy, Healthy, Decided, GivesUp, Prune, Die
  <2> QED
    BY <1>2, <2>1 DEF OneAtWork
<1>3. Login => \A k \in Jobs : ~AtWork(k)
  BY DEF Login
<1> QED
  BY <1>1, <1>2, <1>3, OneMoves DEF AtWork

LEMMA SwapsStayOrderly ==
  ASSUME TypeOK, ModesFit, OneAtWork, SwapsAreOrderly, [Next]_vars
  PROVE  SwapsAreOrderly'
<1> SUFFICES ASSUME "overlap" \notin strayed' PROVE SwapsAreOrderly'
  BY DEF SwapsAreOrderly
<1>t. /\ job \in [Jobs -> Row]
      /\ files \in [control : Commits \cup {Base}, next : OnBooks, previous : OnBooks \cup {Base}]
      /\ service \in [loaded : BOOLEAN, release : Commits \cup {Base}]
  BY Rows DEF TypeOK
<1>1. CASE UNCHANGED vars
  BY <1>1 DEF vars, SwapsAreOrderly
<1>2. CASE Login /\ \A k \in Jobs : job[k].pc \in {"idle", "ended"}
  BY <1>2 DEF Login, SwapsAreOrderly
<1>3. ASSUME NEW j \in Jobs,
             \A k \in Jobs \ {j} : job'[k] = job[k] /\ job[k].pc \in {"idle", "ended"},
             LET pc == job'[j].pc  activates == job'[j].mode = "activate" IN
             /\ activates /\ pc \in {"saving", "unloading", "installing"} => files'.next = job'[j].sha
             /\ activates /\ pc \in {"loading", "checking", "pruning"} => files'.control = job'[j].sha
             /\ ~activates /\ pc \in {"loading", "checking"} => files'.control = files'.previous
             /\ pc \in {"installing", "loading"} => ~service'.loaded
             /\ pc \in {"checking", "pruning"} => service'.loaded /\ service'.release = files'.control
      PROVE  SwapsAreOrderly'
  BY <1>3 DEF SwapsAreOrderly
<1>4. ASSUME NEW j \in Jobs, (\E sha \in Commits : Activate(j, sha)) \/ Rollback(j),
             \A k \in Jobs \ {j} : job'[k] = job[k] /\ job[k].pc \in {"idle", "ended"}
      PROVE  SwapsAreOrderly'
  <2>1. \/ job'[j].mode = "activate" /\ job'[j].pc = "preparing"
        \/ job'[j].mode = "rollback" /\ job'[j].pc = "unloading"
    BY <1>4, <1>t DEF Activate, Rollback, Begins
  <2> QED
    BY <1>3, <1>4, <2>1
<1>5. ASSUME NEW j \in Jobs, Step(j) \/ Die(j), AtWork(j), "overlap" \notin strayed,
             \A k \in Jobs \ {j} : job'[k] = job[k] /\ job[k].pc \in {"idle", "ended"}
      PROVE  SwapsAreOrderly'
  <2>s. LET pc == job[j].pc  activates == job[j].mode = "activate" IN
        /\ activates /\ pc \in {"saving", "unloading", "installing"} => files.next = job[j].sha
        /\ activates /\ pc \in {"loading", "checking", "pruning"} => files.control = job[j].sha
        /\ ~activates /\ pc \in {"loading", "checking"} => files.control = files.previous
        /\ pc \in {"installing", "loading"} => ~service.loaded
        /\ pc \in {"checking", "pruning"} => service.loaded /\ service.release = files.control
    BY <1>5 DEF SwapsAreOrderly
  <2>1. CASE Stops(j)
    BY <1>3, <1>5, <2>1, JobMoves
  <2>2. CASE GivesUp(j)
    <3>1. CASE job[j].mode = "activate"
      <4>1. job'[j].mode = "undo" /\ job'[j].pc = "unloading"
        BY <1>t, <2>2, <3>1 DEF GivesUp, Row
      <4> QED
        BY <1>3, <1>5, <4>1
    <3> QED
      BY <2>1, <2>2, <3>1 DEF GivesUp
  <2>3. CASE Prepare(j)
    <3>1. /\ job'[j].pc = "saving" /\ job'[j].mode = job[j].mode /\ job'[j].sha = job[j].sha
          /\ files'.next = job[j].sha
      BY <1>t, <2>3, JobMoves DEF Prepare
    <3> QED
      BY <1>3, <1>5, <2>3, <3>1 DEF Prepare, ModesFit
  <2>4. CASE Save(j)
    <3>1. /\ job'[j].pc = "unloading" /\ job'[j].mode = job[j].mode /\ job'[j].sha = job[j].sha
          /\ files'.next = files.next /\ job[j].pc = "saving"
      BY <1>t, <2>4, JobMoves DEF Save
    <3> QED
      BY <1>3, <1>5, <2>s, <3>1
  <2>5. CASE Unload(j)
    <3>1. /\ job'[j].pc = "installing" /\ job'[j].mode = job[j].mode /\ job'[j].sha = job[j].sha
          /\ files' = files /\ job[j].pc = "unloading" /\ ~service'.loaded
      BY <1>t, <2>5, JobMoves DEF Unload
    <3> QED
      BY <1>3, <1>5, <2>s, <3>1
  <2>6. CASE Install(j)
    <3>1. /\ job'[j].pc = "loading" /\ job'[j].mode = job[j].mode /\ job'[j].sha = job[j].sha
          /\ files'.control = Source(j) /\ files'.previous = files.previous
          /\ service' = service /\ job[j].pc = "installing"
      BY <1>t, <2>6, JobMoves DEF Install
    <3> QED
      BY <1>3, <1>5, <2>s, <3>1 DEF Source
  <2>7. CASE Load(j)
    <3>1. /\ job'[j].pc = "checking" /\ job'[j].mode = job[j].mode /\ job'[j].sha = job[j].sha
          /\ files'.control = files.control /\ files'.previous = files.previous
          /\ job[j].pc = "loading"
      BY <1>t, <2>7, JobMoves DEF Load
    <3>2. service' = [loaded |-> TRUE, release |-> files.control]
      BY <2>s, <2>7, <3>1 DEF Load
    <3> QED
      BY <1>3, <1>5, <2>s, <3>1, <3>2
  <2>8. CASE Healthy(j) /\ ~Stops(j)
    <3>1. /\ job'[j].pc = "pruning" /\ job'[j].mode = "activate" /\ job'[j].sha = job[j].sha
          /\ files' = files /\ service' = service /\ job[j].pc = "checking"
          /\ job[j].mode = "activate"
      BY <2>8, JobMoves DEF Healthy, Decided
    <3> QED
      BY <1>3, <1>5, <2>s, <3>1
  <2>9. PrepareFails(j) \/ SwapDies(j) \/ Prune(j) \/ Die(j) => Stops(j)
    BY DEF PrepareFails, SwapDies, Prune, Die
  <2> QED
    BY <1>5, <2>1, <2>2, <2>3, <2>4, <2>5, <2>6, <2>7, <2>8, <2>9 DEF Step, SwapFails, Unhealthy
<1> QED
  BY <1>1, <1>2, <1>4, <1>5, OnlyOneMoves

-------------------------------------------------------------------------------
(* Releases: the books *)

LEMMA BooksStayKept ==
  ASSUME BaseIsNoRelease, TypeOK, ModesFit, OneAtWork, SwapsAreOrderly, BooksAreKept,
         PredecessorIsKept, [Next]_vars
  PROVE  BooksAreKept'
<1> DEFINE Rests == /\ service.loaded /\ service.release \in proven
                    /\ files.control = service.release
                    /\ record.current = OnRecord(service.release)
           Serves(j) == AtWork(j) =>
             /\ job[j].pc # "pruning" =>
                  record.current = job[j].current /\ record.previous = job[j].previous
             /\ job[j].pc \in Swapping =>
                  OnRecord(files.previous) =
                    IF job[j].mode = "rollback" THEN job[j].previous ELSE job[j].current
<1> SUFFICES ASSUME strayed' \subseteq {"forgot"} PROVE BooksAreKept'
  BY DEF BooksAreKept
<1>t. /\ job \in [Jobs -> Row]
      /\ files \in [control : Commits \cup {Base}, next : OnBooks, previous : OnBooks \cup {Base}]
      /\ record \in [current : OnBooks, previous : OnBooks,
                     last : {"none", "activated", "rolled_back", "failed"}]
      /\ service \in [loaded : BOOLEAN, release : Commits \cup {Base}]
      /\ "overlap" \notin strayed'
  BY Rows DEF TypeOK
<1>1. CASE UNCHANGED vars
  BY <1>1 DEF vars, BooksAreKept, AtWork, OnRecord
<1>2. CASE Login /\ \A k \in Jobs : job[k].pc \in {"idle", "ended"}
  <2>1. service.loaded
    BY <1>2 DEF BooksAreKept, Swapping, Login
  <2> QED
    BY <1>2, <2>1 DEF Login
<1>3. ASSUME NEW j \in Jobs,
             \A k \in Jobs \ {j} : job'[k] = job[k] /\ job[k].pc \in {"idle", "ended"},
             job'[j].pc \notin Swapping => Rests', Serves(j)'
      PROVE  BooksAreKept'
  BY <1>3 DEF BooksAreKept, AtWork
<1>b. strayed \subseteq {"forgot"} =>
        /\ (\A k \in Jobs : job[k].pc \notin Swapping) => Rests
        /\ \A k \in Jobs : Serves(k)
  BY DEF BooksAreKept
<1>4. ASSUME NEW j \in Jobs, NEW sha \in Commits, Activate(j, sha),
             \A k \in Jobs : job[k].pc \in {"idle", "ended"},
             \A k \in Jobs \ {j} : job'[k] = job[k] /\ job[k].pc \in {"idle", "ended"}
      PROVE  BooksAreKept'
  <2>1. /\ job'[j].pc = "preparing" /\ job'[j].current = record.current
        /\ job'[j].previous = record.previous /\ strayed \subseteq {"forgot"}
        /\ UNCHANGED <<files, record, service, proven>>
    BY <1>4, <1>t DEF Activate, Begins
  <2>2. Rests
    BY <1>b, <1>4, <2>1 DEF Swapping
  <2>3. Rests' /\ Serves(j)'
    BY <2>1, <2>2 DEF Swapping, OnRecord
  <2> QED
    BY <1>3, <1>4, <2>3
<1>5. ASSUME NEW j \in Jobs, Rollback(j),
             \A k \in Jobs : job[k].pc \in {"idle", "ended"},
             \A k \in Jobs \ {j} : job'[k] = job[k] /\ job[k].pc \in {"idle", "ended"}
      PROVE  BooksAreKept'
  <2>1. /\ job'[j].pc = "unloading" /\ job'[j].mode = "rollback"
        /\ job'[j].current = record.current /\ job'[j].previous = record.previous
        /\ UNCHANGED <<files, record, service, proven>>
    BY <1>5, <1>t DEF Rollback, Begins
  <2>2. strayed = {} /\ record.last = "activated"
    BY <1>5 DEF Rollback, Begins
  <2>3. record.previous = OnRecord(files.previous)
    BY <1>5, <2>2 DEF PredecessorIsKept, Swapping
  <2>4. Serves(j)'
    BY <2>1, <2>3 DEF OnRecord
  <2> QED
    BY <1>3, <1>5, <2>1, <2>4 DEF Swapping
<1>6. ASSUME NEW j \in Jobs, Step(j) \/ Die(j), AtWork(j), "overlap" \notin strayed,
             \A k \in Jobs \ {j} : job'[k] = job[k] /\ job[k].pc \in {"idle", "ended"}
      PROVE  BooksAreKept'
  <2>s. LET pc == job[j].pc  activates == job[j].mode = "activate" IN
        /\ activates /\ pc \in {"loading", "checking", "pruning"} => files.control = job[j].sha
        /\ ~activates /\ pc \in {"loading", "checking"} => files.control = files.previous
        /\ pc \in {"checking", "pruning"} => service.loaded /\ service.release = files.control
    BY <1>6 DEF SwapsAreOrderly
  <2>m. /\ job[j].mode \in {"activate", "undo", "rollback"}
        /\ job[j].mode = "activate" => job[j].sha \in Commits
    BY <1>6 DEF ModesFit
  <2>k. strayed \subseteq {"forgot"} => Serves(j) /\ (job[j].pc \notin Swapping => Rests)
    BY <1>b, <1>6 DEF Swapping
  <2>1. CASE Prepare(j)
    <3>1. /\ job'[j].pc = "saving" /\ job'[j].current = job[j].current
          /\ job'[j].previous = job[j].previous /\ job[j].pc = "preparing"
          /\ files'.control = files.control /\ UNCHANGED <<record, service, proven, strayed>>
      BY <1>t, <2>1, JobMoves DEF Prepare
    <3>2. Rests' /\ Serves(j)'
      BY <1>6, <2>k, <3>1 DEF Swapping, OnRecord
    <3> QED
      BY <1>3, <1>6, <3>2
  <2>2. CASE PrepareFails(j)
    <3>1. /\ job'[j].pc = "ended" /\ job[j].pc = "preparing"
          /\ record'.current = job[j].current /\ files'.control = files.control
          /\ UNCHANGED <<service, proven, strayed>>
      BY <1>t, <2>2, JobMoves DEF PrepareFails, Recorded
    <3>2. Rests' /\ Serves(j)'
      BY <1>6, <2>k, <3>1 DEF Swapping, OnRecord, AtWork
    <3> QED
      BY <1>3, <1>6, <3>2
  <2>3. CASE Save(j)
    <3>1. /\ job'[j].pc = "unloading" /\ job'[j].current = job[j].current
          /\ job'[j].previous = job[j].previous /\ job'[j].mode = job[j].mode
          /\ job[j].pc = "saving" /\ files'.previous = files.control
          /\ UNCHANGED <<record, service, proven, strayed>>
      BY <1>t, <2>3, JobMoves DEF Save
    <3>2. job[j].mode = "activate"
      BY <1>6, <3>1 DEF ModesFit
    <3>3. Serves(j)'
      BY <1>6, <2>k, <3>1, <3>2 DEF Swapping, OnRecord
    <3> QED
      BY <1>3, <1>6, <3>1, <3>3 DEF Swapping
  <2>4. ASSUME NEW pc \in Swapping, Goes(j, pc), job[j].pc \in Swapping,
               files'.previous = files.previous, UNCHANGED <<record, strayed>>
        PROVE  BooksAreKept'
    <3>1. /\ job'[j].pc = pc /\ job'[j].current = job[j].current
          /\ job'[j].previous = job[j].previous /\ job'[j].mode = job[j].mode
      BY <2>4, JobMoves
    <3>2. Serves(j)'
      BY <1>6, <2>k, <2>4, <3>1 DEF Swapping, OnRecord
    <3> QED
      BY <1>3, <1>6, <2>4, <3>1, <3>2
  <2>5. CASE Unload(j) \/ Install(j) \/ Load(j)
    BY <1>t, <2>4, <2>5 DEF Unload, Install, Load, Swapping
  <2>6. CASE GivesUp(j) /\ job[j].pc \in Swapping /\ UNCHANGED files
    <3>1. CASE job[j].mode = "activate"
      <4>1. /\ job'[j].mode = "undo" /\ job'[j].pc = "unloading"
            /\ job'[j].current = job[j].current /\ job'[j].previous = job[j].previous
            /\ UNCHANGED <<record, strayed, files>>
        BY <1>t, <2>6, <3>1 DEF GivesUp, Row
      <4>2. Serves(j)'
        BY <1>6, <2>k, <2>6, <3>1, <4>1 DEF Swapping, OnRecord
      <4> QED
        BY <1>3, <1>6, <4>1, <4>2 DEF Swapping
    <3> QED
      BY <2>6, <3>1 DEF GivesUp
  <2>7. CASE Healthy(j)
    <3>h. /\ job[j].pc = "checking" /\ service.loaded
          /\ service.release \in proven' /\ UNCHANGED <<files, service>>
          /\ files.control = service.release
      BY <2>7, <2>s DEF Healthy
    <3>1. CASE job[j].mode = "activate"
      <4>1. /\ job'[j].pc = "pruning" /\ record'.current = job[j].sha
        BY <2>7, <3>1, JobMoves DEF Healthy, Decided
      <4>2. OnRecord(service.release) = job[j].sha
        BY <2>m, <2>s, <3>h, <3>1 DEF OnRecord, BaseIsNoRelease
      <4>3. Rests' /\ Serves(j)'
        BY <3>h, <4>1, <4>2 DEF Swapping, OnRecord
      <4> QED
        BY <1>3, <1>6, <4>3
    <3>2. CASE job[j].mode # "activate"
      <4>1. /\ job'[j].pc = "ended" /\ strayed' = strayed
            /\ record'.current = IF job[j].mode = "rollback" THEN job[j].previous ELSE job[j].current
        BY <2>7, <2>m, <3>2, JobMoves DEF Healthy, Decided, Recorded
      <4>2. files.control = files.previous
        BY <2>s, <3>h, <3>2
      <4>3. OnRecord(files.previous) = record'.current
        BY <1>6, <2>k, <3>h, <4>1 DEF Swapping
      <4>4. Rests' /\ Serves(j)'
        BY <3>h, <4>1, <4>2, <4>3 DEF OnRecord, AtWork
      <4> QED
        BY <1>3, <1>6, <4>4
    <3> QED
      BY <3>1, <3>2
  <2>8. CASE Prune(j)
    <3>1. /\ job'[j].pc = "ended" /\ job[j].pc = "pruning"
          /\ UNCHANGED <<files, record, service, proven, strayed>>
      BY <2>8, JobMoves DEF Prune
    <3>2. Rests' /\ Serves(j)'
      BY <1>6, <2>k, <3>1 DEF Swapping, OnRecord, AtWork
    <3> QED
      BY <1>3, <1>6, <3>2
  <2>9. ~SwapDies(j) /\ ~Die(j)
    BY DEF SwapDies, Die
  <2>10. SwapFails(j) \/ Unhealthy(j) => GivesUp(j) /\ job[j].pc \in Swapping /\ UNCHANGED files
    BY DEF SwapFails, Unhealthy, Swapping
  <2> QED
    BY <1>6, <2>1, <2>2, <2>3, <2>5, <2>6, <2>7, <2>8, <2>9, <2>10 DEF Step
<1> QED
  BY <1>1, <1>2, <1>4, <1>5, <1>6, <1>t, OnlyOneMoves

-------------------------------------------------------------------------------
(* Releases: the predecessor, and what is checked out *)

\* Nothing that strayed is ever forgotten without a trace.
LEMMA OnceStrayed ==
  ASSUME [Next]_vars, strayed' = {}
  PROVE  strayed = {}
<1>1. ASSUME NEW j \in Jobs, Step(j) \/ Die(j)
      PROVE  strayed = {}
  BY <1>1 DEF Step, Prepare, PrepareFails, Save, Unload, Install, Load, SwapFails, SwapDies,
     Unhealthy, Healthy, Decided, GivesUp, Prune, Die
<1> QED
  BY <1>1 DEF Next, Activate, Rollback, Begins, Login, vars

LEMMA PredecessorStaysKept ==
  ASSUME TypeOK, ModesFit, OneAtWork, BooksAreKept, PredecessorIsKept, [Next]_vars
  PROVE  PredecessorIsKept'
<1> SUFFICES ASSUME strayed' = {}, strayed = {} PROVE PredecessorIsKept'
  BY OnceStrayed DEF PredecessorIsKept
<1>t. /\ job \in [Jobs -> Row]
      /\ files \in [control : Commits \cup {Base}, next : OnBooks, previous : OnBooks \cup {Base}]
      /\ "overlap" \notin strayed'
  BY Rows DEF TypeOK
<1>1. CASE UNCHANGED vars
  BY <1>1 DEF vars, PredecessorIsKept, AtWork, OnRecord
<1>2. CASE Login
  BY <1>2 DEF Login, PredecessorIsKept, AtWork, OnRecord
<1>3. ASSUME NEW j \in Jobs,
             \A k \in Jobs \ {j} : job'[k] = job[k] /\ job[k].pc \in {"idle", "ended"},
             record'.last = "activated" /\ (job'[j].pc \in Swapping => job'[j].mode = "rollback")
               => record'.previous = OnRecord(files'.previous),
             job'[j].pc = "pruning" =>
               record'.last = "activated" /\ record'.previous = job'[j].current,
             AtWork(j)' /\ job'[j].mode = "activate" /\ job'[j].pc # "preparing"
               => job'[j].sha \in worktrees'
      PROVE  PredecessorIsKept'
  BY <1>3 DEF PredecessorIsKept, AtWork, OnRecord
<1>4. ASSUME NEW j \in Jobs, (\E sha \in Commits : Activate(j, sha)) \/ Rollback(j),
             \A k \in Jobs : job[k].pc \in {"idle", "ended"},
             \A k \in Jobs \ {j} : job'[k] = job[k] /\ job[k].pc \in {"idle", "ended"}
      PROVE  PredecessorIsKept'
  <2>1. /\ UNCHANGED <<record, files, worktrees>>
        /\ \/ job'[j].mode = "activate" /\ job'[j].pc = "preparing"
           \/ job'[j].mode = "rollback" /\ job'[j].pc = "unloading"
    BY <1>4, <1>t DEF Activate, Rollback, Begins
  <2>2. record.last = "activated" => record.previous = OnRecord(files.previous)
    BY <1>4 DEF PredecessorIsKept, Swapping
  <2> QED
    BY <1>3, <1>4, <2>1, <2>2
<1>5. ASSUME NEW j \in Jobs, Step(j) \/ Die(j), AtWork(j),
             \A k \in Jobs \ {j} : job'[k] = job[k] /\ job[k].pc \in {"idle", "ended"}
      PROVE  PredecessorIsKept'
  <2>p. /\ record.last = "activated" /\ (job[j].pc \in Swapping => job[j].mode = "rollback")
             => record.previous = OnRecord(files.previous)
        /\ job[j].mode = "activate" /\ job[j].pc # "preparing" => job[j].sha \in worktrees
    BY <1>5 DEF PredecessorIsKept, Swapping
  <2>1. CASE Prepare(j)
    <3>1. /\ job'[j].pc = "saving" /\ job'[j].sha = job[j].sha /\ job[j].pc = "preparing"
          /\ record' = record /\ files'.previous = files.previous /\ job'[j].sha \in worktrees'
      BY <1>t, <2>1, JobMoves DEF Prepare, Added
    <3> QED
      BY <1>3, <1>5, <2>p, <3>1 DEF Swapping
  <2>2. CASE PrepareFails(j)
    <3>1. job'[j].pc = "ended" /\ record'.last = "failed"
      BY <2>2, JobMoves DEF PrepareFails, Recorded
    <3> QED
      BY <1>3, <1>5, <3>1 DEF AtWork
  <2>3. CASE Save(j)
    <3>1. /\ job'[j].pc = "unloading" /\ job'[j].mode = job[j].mode /\ job'[j].sha = job[j].sha
          /\ job[j].pc = "saving" /\ worktrees' = worktrees
      BY <1>t, <2>3, JobMoves DEF Save
    <3>2. job[j].mode = "activate"
      BY <1>5, <3>1 DEF ModesFit
    <3> QED
      BY <1>3, <1>5, <2>p, <3>1, <3>2 DEF Swapping
  <2>4. CASE Unload(j) \/ Install(j) \/ Load(j)
    <3>1. /\ job[j].pc \in Swapping /\ job'[j].pc \in Swapping
          /\ job'[j].mode = job[j].mode /\ job'[j].sha = job[j].sha
          /\ record' = record /\ files'.previous = files.previous /\ worktrees' = worktrees
      BY <1>t, <2>4, JobMoves DEF Unload, Install, Load, Swapping
    <3> QED
      BY <1>3, <1>5, <2>p, <3>1 DEF Swapping
  <2>5. CASE GivesUp(j)
    <3>1. job'[j].mode = "undo" /\ job'[j].pc = "unloading"
      BY <1>t, <2>5 DEF GivesUp, Row
    <3> QED
      BY <1>3, <1>5, <3>1 DEF Swapping
  <2>6. CASE Healthy(j)
    <3>1. CASE job[j].mode = "activate"
      <4>1. /\ job'[j].pc = "pruning" /\ job'[j].sha = job[j].sha /\ job'[j].current = job[j].current
            /\ record'.previous = job[j].current /\ record'.last = "activated"
            /\ UNCHANGED <<files, worktrees>> /\ job[j].pc = "checking"
        BY <2>6, <3>1, JobMoves DEF Healthy, Decided
      <4>2. OnRecord(files.previous) = job[j].current
        BY <1>5, <3>1, <4>1 DEF BooksAreKept, Swapping
      <4> QED
        BY <1>3, <1>5, <2>p, <3>1, <4>1, <4>2
    <3>2. CASE job[j].mode # "activate"
      <4>1. job'[j].pc = "ended" /\ record'.last = "rolled_back"
        BY <2>6, <3>2, JobMoves DEF Healthy, Decided, Recorded
      <4> QED
        BY <1>3, <1>5, <4>1 DEF AtWork
    <3> QED
      BY <3>1, <3>2
  <2>7. CASE Prune(j)
    <3>1. job'[j].pc = "ended" /\ job[j].pc = "pruning" /\ UNCHANGED <<record, files>>
      BY <2>7, JobMoves DEF Prune
    <3> QED
      BY <1>3, <1>5, <2>p, <3>1 DEF AtWork, Swapping
  <2>8. ~SwapDies(j) /\ ~Die(j)
    BY DEF SwapDies, Die
  <2> QED
    BY <1>5, <2>1, <2>2, <2>3, <2>4, <2>5, <2>6, <2>7, <2>8 DEF Step, SwapFails, Unhealthy
<1> QED
  BY <1>1, <1>2, <1>4, <1>5, <1>t, OnlyOneMoves

LEMMA InUseStaysKept ==
  ASSUME TypeOK, ModesFit, OneAtWork, SwapsAreOrderly, PredecessorIsKept, InUseIsKept,
         [Next]_vars
  PROVE  InUseIsKept'
<1> SUFFICES ASSUME strayed' = {}, strayed = {}
             PROVE  {files'.control, files'.previous, service'.release} \ {Base, None}
                      \subseteq worktrees'
  BY OnceStrayed DEF InUseIsKept
<1>t. /\ files \in [control : Commits \cup {Base}, next : OnBooks, previous : OnBooks \cup {Base}]
      /\ service \in [loaded : BOOLEAN, release : Commits \cup {Base}]
      /\ "overlap" \notin strayed'
  BY DEF TypeOK
<1>k. {files.control, files.previous, service.release} \ {Base, None} \subseteq worktrees
  BY DEF InUseIsKept
<1>1. CASE UNCHANGED vars \/ Login
  BY <1>1, <1>k, <1>t DEF vars, Login
<1>2. ASSUME NEW j \in Jobs, (\E sha \in Commits : Activate(j, sha)) \/ Rollback(j)
      PROVE  UNCHANGED <<files, service, worktrees>>
  BY <1>2 DEF Activate, Rollback, Begins
<1>3. ASSUME NEW j \in Jobs, Step(j) \/ Die(j), AtWork(j)
      PROVE  {files'.control, files'.previous, service'.release} \ {Base, None} \subseteq worktrees'
  <2>1. CASE Prepare(j) \/ PrepareFails(j)
    BY <1>k, <1>t, <2>1 DEF Prepare, PrepareFails, Added
  <2>2. CASE Save(j) \/ Unload(j) \/ Load(j)
    BY <1>k, <1>t, <2>2 DEF Save, Unload, Load
  <2>3. CASE Install(j)
    <3>1. job[j].mode = "activate" => files.next = job[j].sha /\ job[j].sha \in worktrees
      BY <1>3, <2>3 DEF SwapsAreOrderly, PredecessorIsKept, Install
    <3> QED
      BY <1>k, <1>t, <2>3, <3>1 DEF Install, Source
  <2>4. CASE SwapFails(j) \/ SwapDies(j) \/ Unhealthy(j) \/ Healthy(j) \/ Die(j)
    BY <1>k, <2>4 DEF SwapFails, SwapDies, Unhealthy, Healthy, Die
  <2>5. CASE Prune(j)
    <3>1. job[j].pc = "pruning" /\ job[j].mode = "activate"
      BY <1>3, <2>5 DEF Prune, ModesFit
    <3>2. /\ files.control = job[j].sha /\ service.release = job[j].sha
          /\ job[j].sha \in worktrees
      BY <1>3, <3>1 DEF SwapsAreOrderly, PredecessorIsKept
    <3>3. OnRecord(files.previous) = job[j].current
      <4>1. \A k \in Jobs : job[k].pc \notin Swapping
        BY <1>3, <3>1 DEF OneAtWork, AtWork, Swapping
      <4> QED
        BY <3>1, <4>1 DEF PredecessorIsKept
    <3>4. worktrees \cap Kept(j) \subseteq worktrees'
      BY <2>5 DEF Prune, Pruned
    <3> QED
      BY <1>k, <2>5, <3>2, <3>3, <3>4 DEF Prune, Kept, OnRecord
  <2> QED
    BY <1>3, <2>1, <2>2, <2>3, <2>4, <2>5 DEF Step
<1> QED
  BY <1>1, <1>2, <1>3, <1>k, OnlyOneMoves

LEMMA StillUnloadedForASwap ==
  ASSUME TypeOK, ModesFit, UnloadedForASwap, [Next]_vars
  PROVE  UnloadedForASwap'
<1> DEFINE Loads(k) == \/ job[k].pc \in {"installing", "loading"}
                       \/ job[k].pc = "unloading" /\ job[k].mode = "undo"
<1> SUFFICES ASSUME {"death", "unrestored"} \cap strayed' = {}, ~service'.loaded
             PROVE  \E k \in Jobs : Loads(k)'
  BY DEF UnloadedForASwap
<1>t. job \in [Jobs -> Row] /\ service \in [loaded : BOOLEAN, release : Commits \cup {Base}]
  BY Rows DEF TypeOK
<1>1. CASE UNCHANGED vars \/ Login
  BY <1>1 DEF vars, Login, UnloadedForASwap
<1>2. ASSUME NEW j \in Jobs, (\E sha \in Commits : Activate(j, sha)) \/ Rollback(j),
             \A k \in Jobs \ {j} : job'[k] = job[k]
      PROVE  \E k \in Jobs : Loads(k)'
  <2>1. /\ ~service.loaded /\ {"death", "unrestored"} \cap strayed = {}
        /\ job[j].pc = "idle"
    BY <1>2 DEF Activate, Rollback, Begins
  <2>2. PICK k \in Jobs : Loads(k)
    BY <2>1 DEF UnloadedForASwap
  <2>3. k # j
    BY <2>1, <2>2
  <2> QED
    BY <1>2, <2>2, <2>3
<1>3. ASSUME NEW j \in Jobs, Step(j) \/ Die(j), AtWork(j), \A k \in Jobs \ {j} : job'[k] = job[k]
      PROVE  \E k \in Jobs : Loads(k)'
  <2>1. CASE Unload(j) \/ Install(j)
    <3>1. job'[j].pc \in {"installing", "loading"}
      BY <2>1, JobMoves DEF Unload, Install
    <3> QED
      BY <3>1
  <2>2. CASE GivesUp(j)
    <3>1. job'[j].mode = "undo" /\ job'[j].pc = "unloading"
      BY <1>t, <2>2 DEF GivesUp, Row
    <3> QED
      BY <3>1
  <2>3. CASE Prepare(j) \/ PrepareFails(j) \/ Save(j) \/ Prune(j)
    <3>1. /\ ~service.loaded /\ strayed' = strayed
          /\ job[j].pc \in {"preparing", "saving", "pruning"}
      BY <2>3 DEF Prepare, PrepareFails, Save, Prune
    <3>2. PICK k \in Jobs : Loads(k)
      BY <3>1 DEF UnloadedForASwap
    <3>3. k # j
      BY <3>1, <3>2
    <3> QED
      BY <1>3, <3>2, <3>3
  <2>4. ~Load(j) /\ ~Healthy(j) /\ ~SwapDies(j) /\ ~Die(j)
    BY <1>t DEF Load, Healthy, SwapDies, Die
  <2> QED
    BY <1>3, <2>1, <2>2, <2>3, <2>4 DEF Step, SwapFails, Unhealthy
<1> QED
  BY <1>1, <1>2, <1>3, OneMoves

-------------------------------------------------------------------------------
(* Releases: the theorems *)

LEMMA ReleaseInvariantInitially == Init => ReleaseInvariant
<1> SUFFICES ASSUME Init PROVE ReleaseInvariant
  OBVIOUS
<1>1. \A j \in Jobs : job[j] = Idle
  BY DEF Init
<1>2. TypeOK
  BY DEF Init, TypeOK, Idle, OnBooks
<1>3. ModesFit /\ OneAtWork /\ SwapsAreOrderly /\ UnloadedForASwap
  BY <1>1 DEF Init, Idle, AtWork, ModesFit, OneAtWork, SwapsAreOrderly, UnloadedForASwap
<1>4. BooksAreKept /\ PredecessorIsKept /\ InUseIsKept
  BY <1>1 DEF Init, Idle, AtWork, OnRecord, BooksAreKept, PredecessorIsKept, InUseIsKept
<1> QED
  BY <1>2, <1>3, <1>4 DEF ReleaseInvariant

\* Whichever activators run, overlap, fail or die, their files, releases.json and launchd stay
\* related as BooksAreKept and its companions say.
THEOREM ReleaseInvariantHolds == ASSUME BaseIsNoRelease PROVE Spec => []ReleaseInvariant
<1>1. ReleaseInvariant /\ [Next]_vars => ReleaseInvariant'
  BY BaseIsNoRelease, StepsKeepTypes, ModesStayFit, StillOneAtWork, SwapsStayOrderly, BooksStayKept,
     PredecessorStaysKept, InUseStaysKept, StillUnloadedForASwap DEF ReleaseInvariant
<1> QED
  BY ReleaseInvariantInitially, <1>1, PTL DEF Spec

\* As long as no activator died, overlapped with another or failed to roll back, and only what had
\* been activated was rolled back, activations end with the service loaded, on a release that
\* passed its checks and that releases.json names, with its predecessor still checked out; and
\* even those that overlap leave some release loaded.
THEOREM ActivationsEndSound == ASSUME BaseIsNoRelease PROVE Spec => []ReleasesAreSound
<1>1. ReleaseInvariant => ReleasesAreSound
  <2> SUFFICES ASSUME ReleaseInvariant PROVE ReleasesAreSound
    OBVIOUS
  <2>1. Quiet => \A j \in Jobs : job[j].pc \in {"idle", "ended"}
    BY DEF Quiet, AtWork
  <2>2. EndsHealthy
    BY <2>1 DEF EndsHealthy, ReleaseInvariant, BooksAreKept, Swapping
  <2>3. RecordAgrees
    BY <2>1 DEF RecordAgrees, ReleaseInvariant, BooksAreKept, PredecessorIsKept, Swapping
  <2>4. StaysLoaded
    BY <2>1 DEF StaysLoaded, ReleaseInvariant, UnloadedForASwap
  <2> QED
    BY <2>2, <2>3, <2>4 DEF ReleasesAreSound, ReleaseInvariant
<1> QED
  BY <1>1, ReleaseInvariantHolds, PTL

-------------------------------------------------------------------------------
(* Devices: the inductive invariant *)

SessionRows == [created : Nat, expires : Nat, last : Nat, away : Nat]
RequestSteps == {"idle", "handler", "absent", "touch"}

\* Devices that have a pairing: none of them pairs again.
Paired == {p[2] : p \in pairs}

RequestTypes ==
  /\ request \in [Slots ->
       [device : Devices \cup {Off}, kind : {"none", "poll", "session", "seen", "revoke", "logout"},
        auth : SessionRows, read : SessionRows, step : RequestSteps]]
  /\ \A s \in Slots : request[s].step # "idle" => request[s].device \in Devices

AccessTypes ==
  /\ clock \in Nat \ {0}
  /\ sessions \in [Devices -> SessionRows]
  /\ RequestTypes
  /\ looked \in [Devices -> Nat]
  /\ gone \subseteq Devices

\* A code in use pairs no other device.
CodesPairOnce ==
  /\ \A p, q \in pairs : p[1] = q[1] => p = q
  /\ \A p \in pairs : p[1] \in used

\* Who has a session was paired, and so it cannot be paired again; who was signed out has none.
RowsAreOwned ==
  /\ \A d \in Devices : sessions[d] # NoRow => d \in Paired /\ sessions[d].created > 0
  /\ \A d \in gone : sessions[d] = NoRow /\ d \in Paired

Lasts(row) ==
  row # NoRow =>
    /\ row.expires < row.created + MaxSession + SessionLife
    /\ row.last - row.created < MaxSession => row.expires >= row.last + SessionLife - RenewAfter
    /\ row.last > 0

\* What a request read of its session is out of date in one direction only.
RequestsFit ==
  \A s \in Slots : request[s].step # "idle" =>
    LET row == sessions[request[s].device]  auth == request[s].auth IN
    /\ request[s].device \in Paired
    /\ row # NoRow => auth.created = row.created /\ auth.expires <= row.expires

\* Since of a row, by its parts.
SinceWhen(away, last) == IF away # 0 /\ away < last THEN away ELSE last

\* Requests that are about to write an absence are about to write the same one, unless the owner
\* has looked meanwhile.
AbsencesFit ==
  /\ \A s \in Slots : request[s].step = "absent" =>
       LET d == request[s].device  row == sessions[d]  read == request[s].read IN
       /\ 0 < read.last /\ read.last < clock
       /\ row # NoRow => /\ row.last \in {read.last, clock}
                         /\ looked[d] < clock => SinceWhen(row.away, read.last) = Since(read)
  /\ \A s, u \in Slots :
       request[s].step = "absent" /\ request[u].step = "absent"
         /\ request[s].device = request[u].device
         /\ sessions[request[s].device] # NoRow => request[s].read.last = request[u].read.last

AccessInvariant ==
  /\ AccessTypes /\ CodesPairOnce /\ RowsAreOwned
  /\ \A d \in Devices : Lasts(sessions[d])
  /\ RequestsFit /\ AbsencesFit

-------------------------------------------------------------------------------
(* Devices: what a step does to a session and to a request *)

RowKept(d) ==
  \/ sessions'[d] = NoRow
  \/ /\ sessions[d] # NoRow /\ sessions'[d] # NoRow
     /\ sessions'[d].created = sessions[d].created
     /\ sessions[d].expires <= sessions'[d].expires
     /\ sessions'[d].last \in {sessions[d].last, clock}

AwayKept(d) ==
  \/ sessions'[d].away = sessions[d].away
  \/ sessions'[d].away = 0 /\ (sessions'[d] = NoRow \/ looked'[d] = clock)
  \/ \E s \in Slots : /\ request[s].step = "absent" /\ request[s].device = d
                      /\ sessions'[d].away = Since(request[s].read)

RequestKept(u) ==
  \/ request'[u] = NoRequest
  \/ request'[u] = request[u]
  \/ /\ request[u].step # "idle" /\ request'[u].step = "touch"
     /\ request'[u].device = request[u].device /\ request'[u].auth = request[u].auth

\* A step of a request, or of the host's command, that pairs nobody.
Handles ==
  /\ AccessTypes'
  /\ UNCHANGED <<clock, used, pairs>>
  /\ \A d \in Devices : RowKept(d) /\ AwayKept(d) /\ looked'[d] \in {looked[d], clock}
                        /\ Lasts(sessions'[d])
  /\ \A d \in gone' : sessions'[d] = NoRow /\ (d \in gone \/ sessions[d] # NoRow)
  /\ \A u \in Slots : RequestKept(u)

LEMMA SinceIsStable ==
  ASSUME NEW read \in SessionRows, NEW away \in Nat, read.last > 0
  PROVE  /\ Since(read) = SinceWhen(read.away, read.last)
         /\ Since(read) \in Nat \ {0}
         /\ SinceWhen(Since(read), read.last) = Since(read)
         /\ away # 0 /\ SinceWhen(away, read.last) = Since(read) => Since(read) <= away
BY DEF Since, SinceWhen, SessionRows

LEMMA HandlingKeeps ==
  ASSUME AccessAssumption, AccessInvariant, Handles
  PROVE  AccessInvariant'
<1>1. /\ UNCHANGED <<clock, used, pairs>> /\ clock \in Nat
      /\ Paired' = Paired
  BY DEF Handles, Paired, AccessInvariant, AccessTypes, RequestTypes
<1>2. CodesPairOnce'
  BY <1>1 DEF CodesPairOnce, AccessInvariant
<1>3. RowsAreOwned'
  <2>1. ASSUME NEW d \in Devices, sessions'[d] # NoRow PROVE d \in Paired' /\ sessions'[d].created > 0
    BY <1>1, <2>1 DEF Handles, RowKept, AccessInvariant, RowsAreOwned
  <2>2. ASSUME NEW d \in gone' PROVE sessions'[d] = NoRow /\ d \in Paired'
    <3>1. d \in Devices
      BY DEF Handles, AccessTypes, RequestTypes
    <3> QED BY <1>1, <3>1 DEF Handles, AccessInvariant, RowsAreOwned
  <2> QED BY <2>1, <2>2 DEF RowsAreOwned
<1>4. \A d \in Devices : Lasts(sessions'[d])
  BY DEF Handles
<1>5. RequestsFit'
  <2> SUFFICES ASSUME NEW s \in Slots, request'[s].step # "idle"
               PROVE  /\ request'[s].device \in Paired'
                      /\ sessions'[request'[s].device] # NoRow =>
                           /\ request'[s].auth.created = sessions'[request'[s].device].created
                           /\ request'[s].auth.expires <= sessions'[request'[s].device].expires
    BY DEF RequestsFit
  <2>1. /\ request[s].step # "idle" /\ request'[s].device = request[s].device
        /\ request'[s].auth = request[s].auth
    BY DEF Handles, RequestKept, NoRequest
  <2>2. PICK d \in Devices : d = request[s].device
    BY <2>1 DEF AccessInvariant, AccessTypes, RequestTypes
  <2>3. /\ d \in Paired
        /\ sessions[d] # NoRow => request[s].auth.created = sessions[d].created
                                  /\ request[s].auth.expires <= sessions[d].expires
    BY <2>1, <2>2 DEF AccessInvariant, RequestsFit
  <2>4. RowKept(d)
    BY DEF Handles
  <2>5. /\ request[s].auth \in SessionRows /\ sessions[d] \in SessionRows /\ sessions'[d] \in SessionRows
    BY DEF Handles, AccessInvariant, AccessTypes, RequestTypes
  <2> QED BY <1>1, <2>1, <2>2, <2>3, <2>4, <2>5 DEF RowKept, SessionRows
<1>6. \A s \in Slots : request'[s].step = "absent" => request'[s] = request[s]
  BY DEF Handles, RequestKept, NoRequest
<1>7. AbsencesFit'
  <2>1. ASSUME NEW s \in Slots, request'[s].step = "absent",
               NEW d \in Devices, d = request'[s].device, NEW read, read = request'[s].read
        PROVE  /\ 0 < read.last /\ read.last < clock
               /\ sessions'[d] # NoRow =>
                    /\ sessions'[d].last \in {read.last, clock}
                    /\ looked'[d] < clock => SinceWhen(sessions'[d].away, read.last) = Since(read)
    <3>1. request[s].step = "absent" /\ d = request[s].device /\ read = request[s].read
      BY <1>6, <2>1
    <3>2. /\ 0 < read.last /\ read.last < clock
          /\ sessions[d] # NoRow =>
               /\ sessions[d].last \in {read.last, clock}
               /\ looked[d] < clock => SinceWhen(sessions[d].away, read.last) = Since(read)
      BY <3>1 DEF AccessInvariant, AbsencesFit
    <3>3. read \in SessionRows
      BY <3>1 DEF AccessInvariant, AccessTypes, RequestTypes
    <3>4. ASSUME sessions'[d] # NoRow PROVE sessions[d] # NoRow /\ sessions'[d].last \in {read.last, clock}
      BY <3>2, <3>4 DEF Handles, RowKept
    <3>5. ASSUME sessions'[d] # NoRow, looked'[d] < clock
          PROVE  SinceWhen(sessions'[d].away, read.last) = Since(read)
      <4>1. looked[d] < clock /\ AwayKept(d) /\ looked'[d] # clock
        BY <1>1, <3>5 DEF Handles, AccessInvariant, AccessTypes, RequestTypes
      <4>2. CASE sessions'[d].away = sessions[d].away
        BY <3>2, <3>4, <3>5, <4>1, <4>2
      <4>3. CASE \E u \in Slots : /\ request[u].step = "absent" /\ request[u].device = d
                                  /\ sessions'[d].away = Since(request[u].read)
        <5>1. PICK u \in Slots : /\ request[u].step = "absent" /\ request[u].device = d
                                 /\ sessions'[d].away = Since(request[u].read)
          BY <4>3
        <5>2. sessions[d] # NoRow
          BY <3>4, <3>5
        <5>3. request[u].read.last = read.last /\ request[u].read \in SessionRows
          BY <3>1, <5>1, <5>2 DEF AccessInvariant, AbsencesFit, AccessTypes, RequestTypes
        <5>4. SinceWhen(sessions[d].away, read.last) = Since(request[u].read)
          BY <4>1, <5>1, <5>2, <5>3 DEF AccessInvariant, AbsencesFit
        <5>5. Since(request[u].read) = Since(read)
          BY <3>2, <4>1, <5>2, <5>4
        <5> QED BY <3>2, <3>3, <5>1, <5>5, SinceIsStable
      <4> QED BY <3>5, <4>1, <4>2, <4>3 DEF AwayKept
    <3> QED BY <3>2, <3>4, <3>5
  <2>2. ASSUME NEW s \in Slots, NEW u \in Slots, request'[s].step = "absent", request'[u].step = "absent",
               request'[s].device = request'[u].device, sessions'[request'[s].device] # NoRow
        PROVE  request'[s].read.last = request'[u].read.last
    <3>1. request'[s] = request[s] /\ request'[u] = request[u]
      BY <1>6, <2>2
    <3>2. request[s].device \in Devices
      BY <2>2, <3>1 DEF AccessInvariant, AccessTypes, RequestTypes
    <3>3. sessions[request[s].device] # NoRow
      BY <2>2, <3>1, <3>2 DEF Handles, RowKept
    <3> QED BY <2>2, <3>1, <3>3 DEF AccessInvariant, AbsencesFit
  <2>3. \A s \in Slots : request'[s].step = "absent" => request'[s].device \in Devices
    BY DEF Handles, AccessTypes, RequestTypes
  <2> QED BY <1>1, <2>1, <2>2, <2>3 DEF AbsencesFit
<1> QED BY <1>2, <1>3, <1>4, <1>5, <1>7 DEF AccessInvariant, Handles

-------------------------------------------------------------------------------
(* Devices: the steps of requests *)

LEMMA RowsAreRecords == NoRow \in SessionRows /\ NoRow.away = 0 /\ NoRow.created = 0
BY DEF NoRow, SessionRows

LEMMA RequestGoesOn ==
  ASSUME AccessTypes, NEW s \in Slots, request[s].step # "idle", GoesOn(s, "touch") \/ Served(s)
  PROVE  RequestTypes' /\ \A u \in Slots : RequestKept(u)
<1> DEFINE R == [device : Devices \cup {Off}, kind : {"none", "poll", "session", "seen", "revoke", "logout"},
                 auth : SessionRows, read : SessionRows, step : RequestSteps]
<1>1. request \in [Slots -> R] /\ \A u \in Slots : request[u].step # "idle" => request[u].device \in Devices
  BY DEF AccessTypes, RequestTypes
<1>2. NoRequest \in R /\ NoRequest.step = "idle"
  BY RowsAreRecords DEF NoRequest, RequestSteps
<1>3. CASE Served(s)
  <2>1. request' = [request EXCEPT ![s] = NoRequest]
    BY <1>3 DEF Served
  <2>2. request' \in [Slots -> R] /\ \A u \in Slots : request'[u] = NoRequest \/ request'[u] = request[u]
    <3> HIDE DEF R
    <3> QED BY <1>1, <1>2, <2>1
  <2> QED BY <1>1, <1>2, <2>2 DEF RequestTypes, RequestKept
<1>4. CASE GoesOn(s, "touch")
  <2>1. request' = [request EXCEPT ![s].step = "touch"]
    BY <1>4 DEF GoesOn
  <2>2. [request[s] EXCEPT !.step = "touch"] \in R
    BY <1>1 DEF RequestSteps
  <2>3. request' \in [Slots -> R]
    <3> HIDE DEF R
    <3> QED BY <1>1, <2>1, <2>2
  <2>4. request'[s].step = "touch" /\ request'[s].device = request[s].device /\ request'[s].auth = request[s].auth
    BY <1>1, <2>1
  <2>5. \A u \in Slots : u # s => request'[u] = request[u]
    BY <1>1, <2>1
  <2>6. \A u \in Slots : RequestKept(u)
    BY <2>4, <2>5 DEF RequestKept
  <2> QED BY <1>1, <2>3, <2>4, <2>5, <2>6 DEF RequestTypes
<1> QED BY <1>3, <1>4

\* A step that leaves the sessions alone.
LEMMA StillHandles ==
  ASSUME AccessInvariant, RequestTypes', \A u \in Slots : RequestKept(u),
         UNCHANGED <<clock, used, pairs, sessions, gone, looked>>
  PROVE  Handles
<1>1. AccessTypes'
  BY DEF AccessInvariant, AccessTypes
<1>2. \A d \in Devices : RowKept(d) /\ AwayKept(d) /\ looked'[d] \in {looked[d], clock} /\ Lasts(sessions'[d])
  <2>1. \A d \in Devices : RowKept(d) /\ AwayKept(d)
    BY DEF RowKept, AwayKept, AccessInvariant, AccessTypes, SessionRows
  <2> QED BY <2>1 DEF AccessInvariant
<1>3. \A d \in gone' : sessions'[d] = NoRow /\ (d \in gone \/ sessions[d] # NoRow)
  BY DEF AccessInvariant, RowsAreOwned
<1> QED BY <1>1, <1>2, <1>3 DEF Handles

LEMMA SigningOutHandles ==
  ASSUME AccessInvariant, RequestTypes', \A u \in Slots : RequestKept(u),
         NEW out \in SUBSET Devices, SignedOut(out),
         UNCHANGED <<clock, used, pairs, looked>>
  PROVE  Handles
<1>1. /\ sessions' = [d \in Devices |-> IF d \in out THEN NoRow ELSE sessions[d]]
      /\ gone' = gone \cup {d \in out : sessions[d] # NoRow}
  BY DEF SignedOut
<1>2. sessions \in [Devices -> SessionRows]
  BY DEF AccessInvariant, AccessTypes
<1>3. sessions' \in [Devices -> SessionRows]
  BY <1>1, <1>2, RowsAreRecords
<1>4. AccessTypes'
  BY <1>1, <1>3 DEF AccessInvariant, AccessTypes
<1>5. \A d \in Devices : RowKept(d) /\ AwayKept(d) /\ looked'[d] \in {looked[d], clock} /\ Lasts(sessions'[d])
  <2> SUFFICES ASSUME NEW d \in Devices
               PROVE  RowKept(d) /\ AwayKept(d) /\ looked'[d] \in {looked[d], clock} /\ Lasts(sessions'[d])
    OBVIOUS
  <2>1. CASE d \in out
    <3>1. sessions'[d] = NoRow
      BY <1>1, <2>1
    <3> QED BY <3>1, RowsAreRecords DEF RowKept, AwayKept, Lasts
  <2>2. CASE d \notin out
    <3>1. sessions'[d] = sessions[d]
      BY <1>1, <2>2
    <3>2. RowKept(d)
      BY <1>2, <3>1 DEF RowKept, SessionRows
    <3> QED BY <3>1, <3>2 DEF AwayKept, AccessInvariant
  <2> QED BY <2>1, <2>2
<1>6. \A d \in gone' : sessions'[d] = NoRow /\ (d \in gone \/ sessions[d] # NoRow)
  <2> SUFFICES ASSUME NEW d \in gone' PROVE sessions'[d] = NoRow /\ (d \in gone \/ sessions[d] # NoRow)
    OBVIOUS
  <2>1. CASE d \in gone
    <3>1. d \in Devices /\ sessions[d] = NoRow
      BY <2>1 DEF AccessInvariant, AccessTypes, RowsAreOwned
    <3> QED BY <1>1, <2>1, <3>1
  <2>2. CASE d \notin gone
    BY <1>1, <2>2
  <2> QED BY <2>1, <2>2
<1> QED BY <1>4, <1>5, <1>6 DEF Handles

\* A step that changes the row of one device, and does not sign it out.
LEMMA OneRowHandles ==
  ASSUME AccessInvariant, RequestTypes', \A u \in Slots : RequestKept(u),
         UNCHANGED <<clock, used, pairs, gone>>,
         looked' \in [Devices -> Nat], \A e \in Devices : looked'[e] \in {looked[e], clock},
         NEW d \in Devices, NEW row \in SessionRows, sessions[d] # NoRow,
         sessions' = [sessions EXCEPT ![d] = row],
         RowKept(d), AwayKept(d), Lasts(row)
  PROVE  Handles
<1>1. sessions \in [Devices -> SessionRows]
  BY DEF AccessInvariant, AccessTypes
<1>2. sessions' \in [Devices -> SessionRows]
  BY <1>1
<1>3. AccessTypes'
  BY <1>2 DEF AccessInvariant, AccessTypes
<1>4. ASSUME NEW e \in Devices PROVE RowKept(e) /\ AwayKept(e) /\ Lasts(sessions'[e])
  <2>1. CASE e = d
    <3>1. sessions'[d] = row
      BY <1>1
    <3> QED BY <2>1, <3>1
  <2>2. CASE e # d
    <3>1. sessions'[e] = sessions[e]
      BY <1>1, <2>2
    <3>2. RowKept(e)
      BY <1>1, <3>1 DEF RowKept, SessionRows
    <3> QED BY <3>1, <3>2 DEF AwayKept, AccessInvariant
  <2> QED BY <2>1, <2>2
<1>5. ASSUME NEW e \in gone' PROVE sessions'[e] = NoRow /\ (e \in gone \/ sessions[e] # NoRow)
  <2>1. e \in Devices /\ e \in gone /\ sessions[e] = NoRow
    BY <1>5 DEF AccessInvariant, AccessTypes, RowsAreOwned
  <2>2. sessions'[e] = sessions[e]
    BY <1>1, <2>1
  <2> QED BY <2>1, <2>2
<1> QED BY <1>3, <1>4, <1>5 DEF Handles

LEMMA RequestsHandle ==
  ASSUME AccessInvariant, NEW s \in Slots, Poll(s) \/ Revoke(s) \/ Logout(s)
  PROVE  Handles
<1>1. request[s].step # "idle" /\ (GoesOn(s, "touch") \/ Served(s))
  BY DEF Poll, Revoke, Logout, At
<1>2. RequestTypes' /\ \A u \in Slots : RequestKept(u)
  BY <1>1, RequestGoesOn DEF AccessInvariant
<1>3. UNCHANGED <<clock, used, pairs, looked>>
  BY DEF Poll, Revoke, Logout
<1>4. CASE Poll(s)
  BY <1>2, <1>4, StillHandles DEF Poll
<1>5. CASE Revoke(s)
  <2>1. PICK d \in Devices : SignedOut({d})
    BY <1>5 DEF Revoke
  <2> QED BY <1>2, <1>3, <2>1, SigningOutHandles
<1>6. CASE Logout(s)
  <2>1. CASE LiveRow(Of(s)) = NoRow
    BY <1>2, <1>6, <2>1, StillHandles DEF Logout
  <2>2. CASE LiveRow(Of(s)) # NoRow
    <3>1. SignedOut({Of(s)})
      BY <1>6, <2>2 DEF Logout
    <3>2. {Of(s)} \in SUBSET Devices
      BY <1>1 DEF Of, AccessInvariant, AccessTypes, RequestTypes
    <3> QED BY <1>2, <1>3, <3>1, <3>2, SigningOutHandles
  <2> QED BY <2>1, <2>2
<1> QED BY <1>4, <1>5, <1>6

LEMMA CommandHandles == ASSUME AccessInvariant, RevokeAll PROVE Handles
<1>1. RequestTypes' /\ \A u \in Slots : RequestKept(u)
  BY DEF RevokeAll, AccessInvariant, AccessTypes, RequestTypes, RequestKept
<1> QED BY <1>1, SigningOutHandles DEF RevokeAll

LEMMA AbsenceHandles == ASSUME AccessInvariant, NEW s \in Slots, WriteAbsence(s) PROVE Handles
<1> DEFINE d == request[s].device
           read == request[s].read
           row == [sessions[d] EXCEPT !.away = Since(read)]
<1>1. request[s].step = "absent" /\ GoesOn(s, "touch") /\ UNCHANGED <<clock, used, pairs, gone, looked>>
  BY DEF WriteAbsence, At
<1>2. RequestTypes' /\ \A u \in Slots : RequestKept(u)
  BY <1>1, RequestGoesOn DEF AccessInvariant
<1>3. d \in Devices /\ read \in SessionRows /\ sessions \in [Devices -> SessionRows]
  BY <1>1 DEF AccessInvariant, AccessTypes, RequestTypes
<1>4. CASE sessions[d] = NoRow
  <2>1. UNCHANGED sessions
    BY <1>4 DEF WriteAbsence, Of
  <2> QED BY <1>1, <1>2, <2>1, StillHandles
<1>5. CASE sessions[d] # NoRow
  <2>1. sessions' = [sessions EXCEPT ![d] = row]
    BY <1>3, <1>5 DEF WriteAbsence, Of
  <2>2. Since(read) \in Nat
    BY <1>3 DEF Since, SessionRows
  <2>3. sessions[d] \in SessionRows /\ sessions[d].created > 0
    BY <1>3, <1>5 DEF AccessInvariant, RowsAreOwned
  <2>4. /\ row \in SessionRows /\ row.created = sessions[d].created /\ row.expires = sessions[d].expires
        /\ row.last = sessions[d].last /\ row.away = Since(read)
    BY <2>2, <2>3 DEF SessionRows
  <2>5. sessions'[d] = row
    BY <1>3, <2>1
  <2>6. row # NoRow
    <3> HIDE DEF row, d
    <3>1. row.created # NoRow.created
      BY <2>3, <2>4, RowsAreRecords
    <3> QED BY <3>1
  <2>7. RowKept(d)
    <3> HIDE DEF row
    <3> QED BY <1>5, <2>3, <2>4, <2>5, <2>6 DEF RowKept, SessionRows
  <2>8. AwayKept(d)
    <3> HIDE DEF row
    <3> QED BY <1>1, <2>4, <2>5 DEF AwayKept
  <2>9. Lasts(row)
    <3> HIDE DEF row
    <3>1. Lasts(sessions[d])
      BY <1>3 DEF AccessInvariant
    <3> QED BY <1>5, <2>4, <3>1 DEF Lasts
  <2>10. looked' \in [Devices -> Nat] /\ \A e \in Devices : looked'[e] \in {looked[e], clock}
    BY <1>1 DEF AccessInvariant, AccessTypes
  <2> HIDE DEF row, d, read
  <2> QED BY <1>1, <1>2, <1>3, <1>5, <2>1, <2>4, <2>7, <2>8, <2>9, <2>10, OneRowHandles
<1> QED BY <1>4, <1>5

LEMMA SeenHandles == ASSUME AccessInvariant, NEW s \in Slots, Seen(s) PROVE Handles
<1> DEFINE d == request[s].device
           row == [sessions[d] EXCEPT !.away = 0]
<1>1. request[s].step # "idle" /\ (GoesOn(s, "touch") \/ Served(s)) /\ UNCHANGED <<clock, used, pairs, gone>>
  BY DEF Seen, At
<1>2. RequestTypes' /\ \A u \in Slots : RequestKept(u)
  BY <1>1, RequestGoesOn DEF AccessInvariant
<1>3. d \in Devices /\ sessions \in [Devices -> SessionRows] /\ looked \in [Devices -> Nat] /\ clock \in Nat
  BY <1>1 DEF AccessInvariant, AccessTypes, RequestTypes
<1>4. CASE LiveRow(d) = NoRow
  <2>1. UNCHANGED <<sessions, looked>>
    BY <1>4 DEF Seen, Of
  <2> QED BY <1>1, <1>2, <2>1, StillHandles
<1>5. CASE LiveRow(d) # NoRow
  <2>1. sessions' = [sessions EXCEPT ![d] = row] /\ looked' = [looked EXCEPT ![d] = clock]
    BY <1>3, <1>5 DEF Seen, Of
  <2>2. sessions[d] \in SessionRows /\ sessions[d] # NoRow /\ sessions[d].created > 0
    BY <1>3, <1>5 DEF AccessInvariant, RowsAreOwned, LiveRow
  <2>4. /\ row \in SessionRows /\ row.created = sessions[d].created /\ row.expires = sessions[d].expires
        /\ row.last = sessions[d].last /\ row.away = 0
    BY <2>2 DEF SessionRows
  <2>5. sessions'[d] = row /\ looked'[d] = clock
    BY <1>3, <2>1
  <2>6. row # NoRow
    <3> HIDE DEF row, d
    <3>1. row.created # NoRow.created
      BY <2>2, <2>4, RowsAreRecords
    <3> QED BY <3>1
  <2>7. RowKept(d)
    <3> HIDE DEF row
    <3> QED BY <2>2, <2>4, <2>5, <2>6 DEF RowKept, SessionRows
  <2>8. AwayKept(d)
    <3> HIDE DEF row
    <3> QED BY <1>1, <2>4, <2>5 DEF AwayKept
  <2>9. Lasts(row)
    <3> HIDE DEF row
    <3>1. Lasts(sessions[d])
      BY <1>3 DEF AccessInvariant
    <3> QED BY <2>2, <2>4, <3>1 DEF Lasts
  <2>10. looked' \in [Devices -> Nat] /\ \A e \in Devices : looked'[e] \in {looked[e], clock}
    BY <1>3, <2>1
  <2> HIDE DEF row, d
  <2> QED BY <1>1, <1>2, <1>3, <2>1, <2>2, <2>4, <2>7, <2>8, <2>9, <2>10, OneRowHandles
<1> QED BY <1>4, <1>5

LEMMA TouchHandles == ASSUME AccessAssumption, AccessInvariant, NEW s \in Slots, Touch(s) PROVE Handles
<1> DEFINE d == request[s].device
           auth == request[s].auth
           renew == Renews(auth)
           row == Touched(d, auth, renew)
<1>1. request[s].step # "idle" /\ Served(s) /\ UNCHANGED <<clock, used, pairs, gone, looked>>
  BY DEF Touch
<1>2. RequestTypes' /\ \A u \in Slots : RequestKept(u)
  BY <1>1, RequestGoesOn DEF AccessInvariant
<1>3. /\ d \in Devices /\ auth \in SessionRows /\ sessions \in [Devices -> SessionRows] /\ clock \in Nat \ {0}
      /\ SessionLife \in Nat /\ RenewAfter \in Nat /\ MaxSession \in Nat
  BY <1>1 DEF AccessInvariant, AccessTypes, RequestTypes, AccessAssumption
<1>4. UNCHANGED sessions \/ sessions' = [sessions EXCEPT ![d] = row]
  BY DEF Touch, Of
<1>5. CASE UNCHANGED sessions
  BY <1>1, <1>2, <1>5, StillHandles
<1>6. CASE sessions' = [sessions EXCEPT ![d] = row] /\ sessions[d] = NoRow
  <2>1. row = sessions[d]
    BY <1>6 DEF Touched
  <2>2. sessions' = sessions
    BY <1>3, <1>6, <2>1
  <2> QED BY <1>1, <1>2, <2>2, StillHandles
<1>7. CASE sessions' = [sessions EXCEPT ![d] = row] /\ sessions[d] # NoRow
  <2>1. /\ sessions[d] \in SessionRows /\ sessions[d].created > 0 /\ Lasts(sessions[d])
        /\ auth.created = sessions[d].created /\ auth.expires <= sessions[d].expires
    BY <1>1, <1>3, <1>7 DEF AccessInvariant, RowsAreOwned, RequestsFit
  <2>2. row = [sessions[d] EXCEPT !.last = clock,
                 !.expires = IF renew /\ @ < clock + SessionLife THEN clock + SessionLife ELSE @]
    BY <1>7 DEF Touched
  <2>3. PICK expires \in Nat : expires = IF renew /\ sessions[d].expires < clock + SessionLife
                                         THEN clock + SessionLife ELSE sessions[d].expires
    BY <1>3, <2>1 DEF SessionRows
  <2>4. /\ row \in SessionRows /\ row.created = sessions[d].created /\ row.expires = expires
        /\ row.last = clock /\ row.away = sessions[d].away
    BY <1>3, <2>1, <2>2, <2>3 DEF SessionRows
  <2>5. sessions'[d] = row
    BY <1>3, <1>7
  <2>6. row # NoRow
    BY <2>1, <2>4, RowsAreRecords
  <2>7. sessions[d].expires <= expires
    BY <1>3, <2>1, <2>3 DEF SessionRows
  <2>8. RowKept(d)
    <3> HIDE DEF row
    <3> QED BY <1>7, <2>4, <2>5, <2>6, <2>7 DEF RowKept
  <2>9. AwayKept(d)
    <3> HIDE DEF row
    <3> QED BY <2>4, <2>5 DEF AwayKept
  <2>10. /\ sessions[d].expires < sessions[d].created + MaxSession + SessionLife
         /\ renew <=> /\ auth.expires - clock < SessionLife - RenewAfter
                      /\ clock - auth.created < MaxSession
    BY <1>7, <2>1 DEF Lasts, Renews
  <2>11. /\ expires < sessions[d].created + MaxSession + SessionLife
         /\ clock - sessions[d].created < MaxSession => expires >= clock + SessionLife - RenewAfter
    <3> HIDE DEF row, d, auth, renew
    <3> QED BY <1>3, <2>1, <2>3, <2>10 DEF SessionRows
  <2>12. Lasts(row)
    <3> HIDE DEF row, d, auth, renew
    <3> QED BY <1>3, <2>4, <2>11 DEF Lasts
  <2>13. looked' \in [Devices -> Nat] /\ \A e \in Devices : looked'[e] \in {looked[e], clock}
    BY <1>1 DEF AccessInvariant, AccessTypes
  <2> HIDE DEF row, d, auth, renew
  <2> QED BY <1>1, <1>2, <1>3, <1>7, <2>4, <2>8, <2>9, <2>12, <2>13, OneRowHandles
<1> QED BY <1>4, <1>5, <1>6, <1>7

-------------------------------------------------------------------------------
(* Devices: the other steps *)

\* A step that leaves alone all that the invariant speaks of.
LEMMA ElsewhereKeeps ==
  ASSUME AccessInvariant, UNCHANGED <<clock, used, sessions, request, pairs, gone, looked>>
  PROVE  AccessInvariant'
BY DEF AccessInvariant, AccessTypes, RequestTypes, CodesPairOnce, RowsAreOwned, Lasts, RequestsFit,
       AbsencesFit, Paired, Since, SinceWhen

LEMMA PairKeeps ==
  ASSUME AccessAssumption, AccessInvariant, NEW d \in Devices, NEW c \in Codes, Pair(d, c)
  PROVE  AccessInvariant'
<1> DEFINE row == [created |-> clock, expires |-> clock + SessionLife, last |-> clock, away |-> 0]
<1>1. /\ sessions' = [sessions EXCEPT ![d] = row] /\ used' = used \cup {c}
      /\ pairs' = pairs \cup {<<c, d>>} /\ c \notin used /\ \A p \in pairs : p[2] # d
  BY DEF Pair
<1>2. UNCHANGED <<clock, request, gone, looked>>
  BY DEF Pair
<1>3. /\ clock \in Nat \ {0} /\ sessions \in [Devices -> SessionRows]
      /\ SessionLife \in Nat /\ RenewAfter \in Nat /\ MaxSession \in Nat \ {0}
  BY DEF AccessAssumption, AccessInvariant, AccessTypes
<1>4. /\ row \in SessionRows /\ row.created = clock /\ row.expires = clock + SessionLife
      /\ row.last = clock /\ row.away = 0
  BY <1>3 DEF SessionRows
<1>5. d \notin Paired /\ Paired' = Paired \cup {d}
  <2>1. <<c, d>>[2] = d
    OBVIOUS
  <2>2. pairs' = pairs \cup {<<c, d>>} /\ \A p \in pairs : p[2] # d
    BY <1>1
  <2>3. d \notin Paired
    BY <2>2 DEF Paired
  <2>4. ASSUME NEW e PROVE e \in Paired' <=> e \in Paired \cup {d}
    <3>1. e \in Paired' <=> \E p \in pairs' : p[2] = e
      BY Zenon DEF Paired
    <3>2. e \in Paired <=> \E p \in pairs : p[2] = e
      BY Zenon DEF Paired
    <3> QED BY <2>1, <2>2, <3>1, <3>2
  <2> QED BY <2>3, <2>4
<1> HIDE DEF row
<1>6. /\ sessions' \in [Devices -> SessionRows] /\ sessions'[d] = row
      /\ \A e \in Devices : e # d => sessions'[e] = sessions[e]
  BY <1>1, <1>3, <1>4
<1>7. AccessTypes'
  BY <1>2, <1>6 DEF AccessInvariant, AccessTypes, RequestTypes
<1>8. CodesPairOnce'
  <2>1. /\ \A p, q \in pairs : p[1] = q[1] => p = q
        /\ \A p \in pairs : p[1] \in used
    BY DEF AccessInvariant, CodesPairOnce
  <2>2. \A p \in pairs' : p \in pairs \/ p = <<c, d>>
    BY <1>1
  <2>3. \A p \in pairs : p[1] # c
    BY <1>1, <2>1
  <2>4. ASSUME NEW p \in pairs', NEW q \in pairs', p[1] = q[1] PROVE p = q
    BY <2>1, <2>2, <2>3, <2>4
  <2>5. ASSUME NEW p \in pairs' PROVE p[1] \in used'
    BY <1>1, <2>1, <2>2
  <2> QED BY <2>4, <2>5 DEF CodesPairOnce
<1>9. RowsAreOwned'
  <2>1. ASSUME NEW e \in Devices, sessions'[e] # NoRow PROVE e \in Paired' /\ sessions'[e].created > 0
    BY <1>3, <1>4, <1>5, <1>6, <2>1 DEF AccessInvariant, RowsAreOwned
  <2>2. ASSUME NEW e \in gone' PROVE sessions'[e] = NoRow /\ e \in Paired'
    <3>1. e \in gone /\ e \in Devices /\ sessions[e] = NoRow /\ e \in Paired
      BY <1>2, <2>2 DEF AccessInvariant, AccessTypes, RowsAreOwned
    <3> QED BY <1>5, <1>6, <3>1
  <2> QED BY <2>1, <2>2 DEF RowsAreOwned
<1>10. \A e \in Devices : Lasts(sessions'[e])
  <2>1. Lasts(row)
    BY <1>3, <1>4 DEF Lasts
  <2>2. \A e \in Devices : Lasts(sessions[e])
    BY DEF AccessInvariant
  <2> QED BY <1>6, <2>1, <2>2
<1>11. ASSUME NEW s \in Slots, request[s].step # "idle"
       PROVE  /\ request[s].device \in Devices /\ request[s].device \in Paired
              /\ sessions'[request[s].device] = sessions[request[s].device]
  BY <1>5, <1>6, <1>11 DEF AccessInvariant, AccessTypes, RequestTypes, RequestsFit
<1>12. RequestsFit'
  BY <1>2, <1>5, <1>11 DEF RequestsFit, AccessInvariant
<1>13. AbsencesFit'
  <2>1. \A s \in Slots : request[s].step = "absent" => sessions'[request[s].device] = sessions[request[s].device]
    BY <1>11
  <2> QED BY <1>2, <2>1 DEF AbsencesFit, AccessInvariant, Since, SinceWhen
<1> QED BY <1>7, <1>8, <1>9, <1>10, <1>12, <1>13 DEF AccessInvariant

LEMMA TickKeeps == ASSUME AccessInvariant, Tick PROVE AccessInvariant'
<1>1. /\ UNCHANGED <<used, sessions, request, pairs, gone, looked>> /\ clock' = clock + 1
      /\ \A s \in Slots : request[s].step = "idle"
  BY DEF Tick, NoRequest
<1>2. AccessTypes'
  BY <1>1 DEF AccessInvariant, AccessTypes, RequestTypes
<1>3. CodesPairOnce' /\ RowsAreOwned' /\ \A d \in Devices : Lasts(sessions'[d])
  BY <1>1 DEF AccessInvariant, CodesPairOnce, RowsAreOwned, Paired
<1>4. RequestsFit' /\ AbsencesFit'
  BY <1>1 DEF RequestsFit, AbsencesFit
<1> QED BY <1>2, <1>3, <1>4 DEF AccessInvariant

LEMMA ArriveKeeps ==
  ASSUME AccessInvariant, NEW s \in Slots, NEW d \in Devices,
         NEW kind \in {"poll", "session", "seen", "revoke", "logout"}, Arrive(s, d, kind)
  PROVE  AccessInvariant'
<1> DEFINE new == [device |-> d, kind |-> kind, auth |-> LiveRow(d), read |-> NoRow, step |-> "handler"]
<1>1. request' = [request EXCEPT ![s] = new] /\ LiveRow(d) # NoRow
  BY DEF Arrive
<1>2. UNCHANGED <<clock, used, sessions, pairs, gone, looked>>
  BY DEF Arrive
<1>3. LiveRow(d) = sessions[d] /\ sessions[d] \in SessionRows /\ sessions[d] # NoRow
  BY <1>1 DEF LiveRow, AccessInvariant, AccessTypes
<1>4. RequestTypes
  BY DEF AccessInvariant, AccessTypes
<1> DEFINE R == [device : Devices \cup {Off}, kind : {"none", "poll", "session", "seen", "revoke", "logout"},
                 auth : SessionRows, read : SessionRows, step : RequestSteps]
<1>5. RequestTypes'
  <2>1. new \in R /\ new.device = d
    BY <1>3, RowsAreRecords DEF RequestSteps
  <2>2. request \in [Slots -> R] /\ \A u \in Slots : request[u].step # "idle" => request[u].device \in Devices
    BY <1>4 DEF RequestTypes
  <2>3. request' \in [Slots -> R] /\ \A u \in Slots : request'[u] = new \/ request'[u] = request[u]
    <3> HIDE DEF R, new
    <3> QED BY <1>1, <2>1, <2>2
  <2>4. \A u \in Slots : request'[u].step # "idle" => request'[u].device \in Devices
    <3> HIDE DEF R, new
    <3> QED BY <2>1, <2>2, <2>3
  <2> QED BY <2>3, <2>4 DEF RequestTypes
<1>6. request'[s] = new /\ \A u \in Slots : u # s => request'[u] = request[u]
  BY <1>1, <1>4 DEF RequestTypes
<1>7. new.device = d /\ new.auth = sessions[d] /\ new.step = "handler"
  BY <1>3
<1> HIDE DEF new
<1>8. AccessTypes' /\ CodesPairOnce' /\ RowsAreOwned' /\ \A e \in Devices : Lasts(sessions'[e])
  BY <1>2, <1>5 DEF AccessInvariant, AccessTypes, CodesPairOnce, RowsAreOwned, Paired
<1>9. Paired' = Paired
  BY <1>2 DEF Paired
<1>10. RequestsFit'
  <2> SUFFICES ASSUME NEW u \in Slots, request'[u].step # "idle"
               PROVE  /\ request'[u].device \in Paired
                      /\ sessions[request'[u].device] # NoRow =>
                           /\ request'[u].auth.created = sessions[request'[u].device].created
                           /\ request'[u].auth.expires <= sessions[request'[u].device].expires
    BY <1>2, <1>9 DEF RequestsFit
  <2>1. CASE u = s
    <3>1. d \in Paired /\ sessions[d].expires \in Nat
      BY <1>3 DEF AccessInvariant, RowsAreOwned, SessionRows
    <3> QED BY <1>6, <1>7, <2>1, <3>1
  <2>2. CASE u # s
    BY <1>6, <2>2 DEF AccessInvariant, RequestsFit
  <2> QED BY <2>1, <2>2
<1>11. AbsencesFit'
  <2>1. \A u \in Slots : request'[u].step = "absent" => request'[u] = request[u]
    BY <1>6, <1>7
  <2> QED BY <1>2, <2>1 DEF AbsencesFit, AccessInvariant, Since, SinceWhen
<1> QED BY <1>8, <1>10, <1>11 DEF AccessInvariant

LEMMA ReadSessionKeeps ==
  ASSUME AccessAssumption, AccessInvariant, NEW s \in Slots, ReadSession(s)
  PROVE  AccessInvariant'
<1> DEFINE d == request[s].device
           row == LiveRow(d)
           R == [device : Devices \cup {Off}, kind : {"none", "poll", "session", "seen", "revoke", "logout"},
                 auth : SessionRows, read : SessionRows, step : RequestSteps]
<1>1. request[s].step = "handler" /\ UNCHANGED <<clock, used, sessions, pairs, gone, looked>>
  BY DEF ReadSession, At
<1>2. request \in [Slots -> R] /\ \A u \in Slots : request[u].step # "idle" => request[u].device \in Devices
  BY DEF AccessInvariant, AccessTypes, RequestTypes
<1>3. d \in Devices /\ sessions[d] \in SessionRows /\ clock \in Nat /\ Away \in Nat \ {0}
  BY <1>1, <1>2 DEF AccessAssumption, AccessInvariant, AccessTypes
<1>4. CASE row = NoRow
  <2>1. Served(s)
    BY <1>4 DEF ReadSession, Of
  <2>2. RequestTypes' /\ \A u \in Slots : RequestKept(u)
    BY <1>1, <2>1, RequestGoesOn DEF AccessInvariant
  <2> QED BY <1>1, <2>2, StillHandles, HandlingKeeps
<1>5. CASE row # NoRow
  <2>1. row = sessions[d] /\ row \in SessionRows
    BY <1>3, <1>5 DEF LiveRow
  <2>2. PICK step \in {"absent", "touch"} : step = IF clock - row.last >= Away THEN "absent" ELSE "touch"
    OBVIOUS
  <2> DEFINE new == [request[s] EXCEPT !.read = row, !.step = step]
  <2>3. request' = [request EXCEPT ![s] = new]
    <3>1. request' = [request EXCEPT ![s].read = row, ![s].step = step]
      BY <1>5, <2>2 DEF ReadSession, Of
    <3> QED BY <1>2, <3>1
  <2>4. /\ new \in R /\ new.read = row /\ new.step = step /\ new.device = d
        /\ new.auth = request[s].auth
    <3>1. request[s] \in R /\ step \in RequestSteps
      BY <1>2 DEF RequestSteps
    <3> HIDE DEF row
    <3> QED BY <2>1, <3>1
  <2> HIDE DEF new, R
  <2>5. request' \in [Slots -> R] /\ request'[s] = new /\ \A u \in Slots : u # s => request'[u] = request[u]
    BY <1>2, <2>3, <2>4
  <2>6. RequestTypes'
    <3>1. \A u \in Slots : request'[u].step # "idle" => request'[u].device \in Devices
      BY <1>2, <1>3, <2>4, <2>5
    <3> USE DEF R
    <3> QED BY <2>5, <3>1 DEF RequestTypes
  <2>7. AccessTypes' /\ CodesPairOnce' /\ RowsAreOwned' /\ \A e \in Devices : Lasts(sessions'[e])
    BY <1>1, <2>6 DEF AccessInvariant, AccessTypes, CodesPairOnce, RowsAreOwned, Paired
  <2>8. Paired' = Paired
    BY <1>1 DEF Paired
  <2>9. RequestsFit'
    <3>1. \A u \in Slots : request'[u].device = request[u].device /\ request'[u].auth = request[u].auth
      BY <2>4, <2>5
    <3>2. \A u \in Slots : request'[u].step # "idle" => request[u].step # "idle"
      BY <1>1, <2>5
    <3> QED BY <1>1, <2>8, <3>1, <3>2 DEF RequestsFit, AccessInvariant
  <2>10. CASE step = "touch"
    <3>1. \A u \in Slots : request'[u].step = "absent" => request'[u] = request[u]
      BY <2>4, <2>5, <2>10
    <3>2. AbsencesFit'
      BY <1>1, <3>1 DEF AbsencesFit, AccessInvariant, Since, SinceWhen
    <3> QED BY <2>7, <2>9, <3>2 DEF AccessInvariant
  <2>11. CASE step = "absent"
    <3>1. clock - row.last >= Away
      BY <2>2, <2>11
    <3>2. 0 < row.last /\ row.last < clock
      <4>1. Lasts(row)
        BY <1>3, <2>1 DEF AccessInvariant
      <4>2. row.last > 0 /\ row.last \in Nat
        BY <1>5, <2>1, <4>1 DEF Lasts, SessionRows
      <4> HIDE DEF row
      <4> QED BY <1>3, <3>1, <4>2
    <3>3. SinceWhen(row.away, row.last) = Since(row)
      BY DEF SinceWhen, Since
    <3>4. ASSUME NEW u \in Slots, u # s, request'[u].step = "absent"
          PROVE  /\ request'[u] = request[u]
                 /\ request[u].device = d => request[u].read.last = row.last
      <4>1. request'[u] = request[u]
        BY <2>5, <3>4
      <4>2. ASSUME request[u].device = d PROVE request[u].read.last = row.last
        <5>1. sessions[d].last \in {request[u].read.last, clock}
          BY <1>5, <2>1, <3>4, <4>1, <4>2 DEF AccessInvariant, AbsencesFit
        <5> QED BY <2>1, <3>2, <5>1, <1>3 DEF SessionRows
      <4> QED BY <4>1, <4>2
    <3>5. ASSUME NEW u \in Slots, request'[u].step = "absent",
                 NEW e, e = request'[u].device, NEW read, read = request'[u].read
          PROVE  /\ 0 < read.last /\ read.last < clock
                 /\ sessions[e] # NoRow =>
                      /\ sessions[e].last \in {read.last, clock}
                      /\ looked[e] < clock => SinceWhen(sessions[e].away, read.last) = Since(read)
      <4>1. CASE u = s
        <5>1. read = row /\ e = d
          BY <2>4, <2>5, <3>5, <4>1
        <5> HIDE DEF row, d
        <5> QED BY <2>1, <3>2, <3>3, <5>1
      <4>2. CASE u # s
        <5>1. request[u].step = "absent" /\ e = request[u].device /\ read = request[u].read
          BY <3>4, <3>5, <4>2
        <5> QED BY <5>1 DEF AccessInvariant, AbsencesFit
      <4> QED BY <4>1, <4>2
    <3>6. ASSUME NEW u \in Slots, NEW v \in Slots, request'[u].step = "absent", request'[v].step = "absent",
                 request'[u].device = request'[v].device, sessions[request'[u].device] # NoRow
          PROVE  request'[u].read.last = request'[v].read.last
      <4>1. CASE u = s \/ v = s
        BY <2>4, <2>5, <3>4, <3>6, <4>1
      <4>2. CASE u # s /\ v # s
        <5>1. request'[u] = request[u] /\ request'[v] = request[v]
          BY <3>4, <3>6, <4>2
        <5> QED BY <3>6, <5>1 DEF AccessInvariant, AbsencesFit
      <4> QED BY <4>1, <4>2
    <3>7. AbsencesFit'
      BY <1>1, <3>5, <3>6 DEF AbsencesFit
    <3> QED BY <2>7, <2>9, <3>7 DEF AccessInvariant
  <2> QED BY <2>2, <2>10, <2>11
<1> QED BY <1>4, <1>5

-------------------------------------------------------------------------------
(* Devices: the theorem *)

LEMMA AccessStarts == AccessInit => AccessInvariant
<1> SUFFICES ASSUME AccessInit PROVE AccessInvariant
  OBVIOUS
<1>1. /\ clock = 1 /\ used = {} /\ pairs = {} /\ gone = {} /\ looked = [d \in Devices |-> 0]
      /\ sessions = [d \in Devices |-> NoRow] /\ request = [s \in Slots |-> NoRequest]
  BY DEF AccessInit
<1>2. AccessTypes
  <2>1. RequestTypes
    BY <1>1, RowsAreRecords DEF RequestTypes, NoRequest, RequestSteps
  <2> QED BY <1>1, <2>1, RowsAreRecords DEF AccessTypes
<1>3. CodesPairOnce /\ RowsAreOwned /\ \A d \in Devices : Lasts(sessions[d])
  BY <1>1 DEF CodesPairOnce, RowsAreOwned, Lasts
<1>4. RequestsFit /\ AbsencesFit
  BY <1>1 DEF RequestsFit, AbsencesFit, NoRequest
<1> QED BY <1>2, <1>3, <1>4 DEF AccessInvariant

LEMMA HandlingGrowsAbsences == ASSUME AccessInvariant, Handles PROVE AbsencesGrow
<1> SUFFICES ASSUME NEW d \in Devices, sessions[d].away # 0, sessions'[d].away # 0, looked[d] < clock
             PROVE  sessions'[d].away <= sessions[d].away
  BY DEF AbsencesGrow
<1>1. sessions[d] \in SessionRows /\ sessions[d] # NoRow /\ AwayKept(d)
  BY RowsAreRecords DEF AccessInvariant, AccessTypes, Handles
<1>2. CASE sessions'[d].away = sessions[d].away
  BY <1>1, <1>2 DEF SessionRows
<1>3. CASE \E s \in Slots : /\ request[s].step = "absent" /\ request[s].device = d
                            /\ sessions'[d].away = Since(request[s].read)
  <2>1. PICK s \in Slots : /\ request[s].step = "absent" /\ request[s].device = d
                           /\ sessions'[d].away = Since(request[s].read)
    BY <1>3
  <2>2. request[s].read \in SessionRows
    BY DEF AccessInvariant, AccessTypes, RequestTypes
  <2>3. 0 < request[s].read.last /\ SinceWhen(sessions[d].away, request[s].read.last) = Since(request[s].read)
    BY <1>1, <2>1 DEF AccessInvariant, AbsencesFit
  <2>4. sessions[d].away \in Nat
    BY <1>1 DEF SessionRows
  <2> QED BY <2>1, <2>2, <2>3, <2>4, SinceIsStable
<1> QED BY <1>1, <1>2, <1>3 DEF AwayKept

LEMMA AccessSteps ==
  ASSUME AccessAssumption, AccessInvariant, [AccessNext]_acvars
  PROVE  AccessInvariant' /\ AbsencesGrow
<1>1. CASE Handles
  BY <1>1, HandlingKeeps, HandlingGrowsAbsences
<1>2. ASSUME UNCHANGED sessions PROVE AbsencesGrow
  BY <1>2 DEF AbsencesGrow, AccessInvariant, AccessTypes, SessionRows
<1>3. ASSUME NEW i \in Issuers, ReadCodes(i) \/ WriteCodes(i) \/ ReplaceCodes(i)
      PROVE  AccessInvariant' /\ AbsencesGrow
  BY <1>2, <1>3, ElsewhereKeeps DEF ReadCodes, WriteCodes, ReplaceCodes
<1>4. ASSUME NEW d \in Devices, NEW c \in Codes, Pair(d, c) PROVE AccessInvariant' /\ AbsencesGrow
  <2>1. AccessInvariant'
    BY <1>4, PairKeeps
  <2>2. ASSUME NEW e \in Devices PROVE sessions'[e] = sessions[e] \/ sessions'[e].away = 0
    BY <1>4 DEF Pair, AccessInvariant, AccessTypes
  <2>3. AbsencesGrow
    BY <2>2 DEF AbsencesGrow, AccessInvariant, AccessTypes, SessionRows
  <2> QED BY <2>1, <2>3
<1>5. ASSUME NEW s \in Slots, NEW d \in Devices,
             NEW kind \in {"poll", "session", "seen", "revoke", "logout"}, Arrive(s, d, kind)
      PROVE  AccessInvariant' /\ AbsencesGrow
  BY <1>2, <1>5, ArriveKeeps DEF Arrive
<1>6. ASSUME NEW s \in Slots, ReadSession(s) PROVE AccessInvariant' /\ AbsencesGrow
  BY <1>2, <1>6, ReadSessionKeeps DEF ReadSession
<1>7. ASSUME NEW s \in Slots,
             Poll(s) \/ WriteAbsence(s) \/ Seen(s) \/ Revoke(s) \/ Logout(s) \/ Touch(s)
      PROVE  Handles
  BY <1>7, RequestsHandle, AbsenceHandles, SeenHandles, TouchHandles
<1>8. ASSUME RevokeAll PROVE Handles
  BY <1>8, CommandHandles
<1>9. ASSUME Tick PROVE AccessInvariant' /\ AbsencesGrow
  BY <1>2, <1>9, TickKeeps DEF Tick
<1>10. ASSUME UNCHANGED acvars PROVE AccessInvariant' /\ AbsencesGrow
  BY <1>2, <1>10, ElsewhereKeeps DEF acvars
<1> QED BY <1>1, <1>3, <1>4, <1>5, <1>6, <1>7, <1>8, <1>9, <1>10 DEF AccessNext

LEMMA TrustFollows == AccessInvariant => Trusted
BY DEF AccessInvariant, CodesPairOnce, RowsAreOwned, Lasts, Trusted

\* The invariant holds whatever the number of devices, codes and requests served at once.
THEOREM AccessInvariantHolds == ASSUME AccessAssumption PROVE AccessSpec => []AccessInvariant
<1>1. AccessInvariant /\ [AccessNext]_acvars => AccessInvariant'
  BY AccessSteps
<1> QED BY <1>1, AccessStarts, PTL DEF AccessSpec

\* Codes pair one device each, devices signed out stay out, those in use do not lapse while they
\* may be renewed, and an absence the owner has not looked at only grows (control/api.py,
\* control/store.py).
THEOREM TrustIsKept == ASSUME AccessAssumption PROVE AccessSpec => DevicesAreKept
<1>1. AccessInvariant => Trusted
  BY TrustFollows
<1>2. AccessInvariant /\ [AccessNext]_acvars => [AbsencesGrow]_acvars
  BY AccessSteps
<1> QED BY <1>1, <1>2, AccessInvariantHolds, PTL DEF AccessSpec, DevicesAreKept
===============================================================================
