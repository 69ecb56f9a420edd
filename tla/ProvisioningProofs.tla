--------------------------- MODULE ProvisioningProofs ---------------------------
(***************************************************************************)
(* Proofs about enrolling a repository and creating a product, for any     *)
(* taps, keys, proposals and files, however often the owner moves and the  *)
(* host restarts.                                                          *)
(*                                                                         *)
(* The argument: from its listing to its commit, what is staged was listed *)
(* by the tap, without a secret, or staged by others since, and what it    *)
(* listed waits to be staged or is, unless others committed (ListsStand);  *)
(* so is what it committed (CommitsAreListed); whoever committed for the   *)
(* owner remembers it, was lost or failed before it could, and a refusal   *)
(* reads that memory (CommitsAreOwnedUp); a                                *)
(* stored answer is never replaced (AnswersAreStored); and from the        *)
(* creation on GitHub onwards that repository is the provision's own       *)
(* (ProvisionsOwn).                                                        *)
(***************************************************************************)
EXTENDS Provisioning, FiniteSetTheorems, WellFoundedInduction, TLAPS

-------------------------------------------------------------------------------
(* The inductive invariant *)

Steps == {"new", "examining", "describing", "saving", "listing", "staging", "committing",
          "saved", "enrolling", "reading", "read", "cloning", "inserting", "enrolled", "already",
          "answered", "refused", "lost", "queued", "checking", "writing", "adding", "asking",
          "creating", "done"}
Branches == {"main", "side"}
Answers == {Nobody, "enrolled", "already", "refused", "saved only", "failed"}

Row == [pc : Steps, listed : SUBSET Files, unstaged : SUBSET Files, saves : BOOLEAN,
        saved : BOOLEAN, head : Nat, clone : Nat, answer : Answers]
Commit == [by : Jobs \cup {Owner}, branch : Branches, files : SUBSET Files]
Repository == [there : BOOLEAN, branch : Branches, worktree : SUBSET Files, index : SUBSET Files]

ProvisioningTypes ==
  /\ repo \in Repository
  /\ commits \in Seq(Commit)
  /\ projects \subseteq [by : Jobs, head : Nat, clone : Nat]
  /\ job \in [Jobs -> Row]
  /\ commands \in [{Key[t] : t \in Taps} -> {Nobody, "enrolled", "already"}]
  /\ meddled \in [Taps -> [staged : SUBSET Files, did : SUBSET {"switched", "committed"}]]
  /\ remote \in Provisions \cup {Nobody} /\ requests \subseteq Provisions

\* A tap that has looked was on main unless others switched since; one that has listed what there
\* is finds nothing staged that it did not list or others did not stage, and all it listed staged
\* or still to be, unless others committed.
ListStands(t) ==
  /\ job[t].pc \in Looked => repo.branch = "main" \/ "switched" \in meddled[t].did
  /\ job[t].pc \in Listed =>
       /\ Secret \notin job[t].listed
       /\ repo.index \subseteq job[t].listed \cup meddled[t].staged
  /\ job[t].pc = "staging" =>
       /\ job[t].unstaged \subseteq job[t].listed
       /\ \/ job[t].listed \subseteq repo.index \cup (repo.worktree \cap job[t].unstaged)
          \/ "committed" \in meddled[t].did
  /\ job[t].pc = "committing" =>
       job[t].listed \subseteq repo.index \/ "committed" \in meddled[t].did

ListsStand == \A t \in Taps : ListStands(t)

\* Before its commit.
Early == {"new", "examining", "describing", "saving"} \cup Looked

\* What a tap committed is what it listed, but for what others did, and it commits once.
IsListed(commit, t) ==
  /\ job[t].pc \notin Early /\ Secret \notin job[t].listed
  /\ commit.files \subseteq job[t].listed \cup meddled[t].staged
  /\ job[t].listed \subseteq commit.files \/ "committed" \in meddled[t].did
  /\ commit.branch = "main" \/ "switched" \in meddled[t].did

CommitsAreListed ==
  \A i \in 1..Len(commits) : commits[i].by \in Taps => IsListed(commits[i], commits[i].by)

\* A tap that committed knows, is about to or never will, and has not said it did nothing.
Owns(t) == job[t].saved \/ job[t].pc \in {"saved", "lost"} \/ job[t].answer = "failed"

CommitsAreOwnedUp ==
  /\ \A i \in 1..Len(commits) : commits[i].by \in Taps => Owns(commits[i].by)
  /\ \A x \in Jobs :
       /\ job[x].answer \in {"refused", "failed"} => job[x].pc = "refused"
       /\ job[x].answer = "refused" => ~job[x].saved

\* The repository has at most one project.
ProjectIsOne == projects = {} \/ \E p : projects = {p}

\* Who has an answer from the store has the one that is there.
AnswersAreStored ==
  \A t \in Taps : job[t].pc = "answered" =>
    job[t].answer = commands[Key[t]] /\ commands[Key[t]] # Nobody

\* A provision past the creation on GitHub created that repository; past its enrolment it has the
\* project, and at its end the request.
ProvisionsOwn ==
  \A p \in Provisions :
    /\ job[p].pc \in {"enrolling", "reading", "read", "cloning", "inserting", "enrolled", "done"} =>
         remote = p
    /\ job[p].pc \in {"enrolled", "done"} => \E project \in projects : project.by = p
    /\ job[p].pc = "done" => p \in requests
    /\ job[p].pc # "already"

ProvisioningInvariant ==
  /\ ProvisioningTypes /\ ListsStand /\ CommitsAreListed /\ CommitsAreOwnedUp
  /\ ProjectIsOne /\ AnswersAreStored /\ ProvisionsOwn

-------------------------------------------------------------------------------
(* What a step does to the jobs *)

\* The head is a number of a commit: a set of numbers up to a bound has a greatest.
LEMMA HeadIsANumber ==
  ASSUME commits \in Seq(Commit)
  PROVE  HeadNow \in Nat
<1> DEFINE on == {i \in 1..Len(commits) : commits[i].branch = repo.branch}
           back == {Len(commits) - i : i \in on}
           less == {ss \in Nat \X Nat : ss[1] < ss[2]}
<1>1. CASE on = {}
  BY <1>1 DEF HeadNow
<1>2. CASE on # {}
  <2>1. Len(commits) \in Nat /\ back \subseteq Nat /\ back # {}
    BY <1>2
  <2>2. PICK b \in back : \A c \in back : b <= c
    <3>1. IsWellFoundedOn(less, Nat)
      BY NatLessThanWellFounded DEF OpToRel
    <3> HIDE DEF less, back
    <3>2. \E b \in back : \A c \in back : ~(<<c, b>> \in less)
      BY <2>1, <3>1, WFMin
    <3>3. PICK b \in back : \A c \in back : ~(<<c, b>> \in less)
      BY <3>2
    <3>4. ASSUME NEW c \in back PROVE b <= c
      <4>1. b \in Nat /\ c \in Nat /\ ~(<<c, b>> \in less)
        BY <2>1, <3>3
      <4>2. ~(c < b)
        BY <4>1 DEF less
      <4> QED BY <4>1, <4>2
    <3> QED BY <3>4
  <2>3. PICK i \in on : b = Len(commits) - i
    BY <2>2
  <2>4. ASSUME NEW k \in on PROVE k <= i
    <3>1. Len(commits) - k \in back /\ k \in Nat /\ i \in Nat
      BY <2>1
    <3>2. Len(commits) - i <= Len(commits) - k
      BY <2>2, <2>3, <3>1
    <3> QED BY <2>1, <3>1, <3>2
  <2>5. HeadNow \in on
    BY <1>2, <2>4 DEF HeadNow
  <2> QED BY <2>1, <2>5
<1> QED BY <1>1, <1>2

\* A step of one job that leaves what it listed and whether it committed.
Turns(x, pc) ==
  /\ job' \in [Jobs -> Row]
  /\ \A y \in Jobs \ {x} : job'[y] = job[y]
  /\ job'[x].pc = pc /\ job'[x].listed = job[x].listed
  /\ job'[x].unstaged = job[x].unstaged /\ job'[x].saved = job[x].saved

Refusal(x) == IF job[x].saved THEN "saved only" ELSE "refused"

LEMMA JobMoves ==
  ASSUME ProvisioningTypes, NEW x \in Jobs
  PROVE  /\ \A pc \in Steps : Goes(x, pc) => Turns(x, pc) /\ job'[x].answer = job[x].answer
         /\ Refused(x) => Turns(x, "refused") /\ job'[x].answer = Refusal(x)
         /\ \A a \in Answers : job' = [job EXCEPT ![x].pc = "answered", ![x].answer = a] =>
              Turns(x, "answered") /\ job'[x].answer = a
         /\ \A b \in BOOLEAN : job' = [job EXCEPT ![x].pc = "describing", ![x].saves = b] =>
              Turns(x, "describing") /\ job'[x].answer = job[x].answer
         /\ \A n \in Nat : job' = [job EXCEPT ![x].pc = "read", ![x].head = n] =>
              Turns(x, "read") /\ job'[x].answer = job[x].answer
         /\ \A n \in Nat : job' = [job EXCEPT ![x].pc = "inserting", ![x].clone = n] =>
              Turns(x, "inserting") /\ job'[x].answer = job[x].answer
<1>1. job \in [Jobs -> Row] /\ job[x] \in Row
  BY DEF ProvisioningTypes
<1>2. \A pc \in Steps : [job[x] EXCEPT !.pc = pc] \in Row
  BY <1>1 DEF Row
<1>3. \A pc \in Steps : Goes(x, pc) => job' = [job EXCEPT ![x] = [job[x] EXCEPT !.pc = pc]]
  BY <1>1 DEF Goes, Row
<1>4. \A pc \in Steps : Goes(x, pc) => Turns(x, pc) /\ job'[x].answer = job[x].answer
  BY <1>1, <1>2, <1>3 DEF Turns, Row
<1>5. Refused(x) => Turns(x, "refused") /\ job'[x].answer = Refusal(x)
  <2> SUFFICES ASSUME Refused(x) PROVE Turns(x, "refused") /\ job'[x].answer = Refusal(x)
    OBVIOUS
  <2>1. Refusal(x) \in Answers /\ "refused" \in Steps
    BY DEF Refusal, Answers, Steps
  <2>2. job' = [job EXCEPT ![x].pc = "refused", ![x].answer = Refusal(x)]
    BY DEF Refused, Refusal
  <2> QED BY <1>1, <2>1, <2>2 DEF Turns, Row
<1>6. ASSUME NEW a \in Answers, job' = [job EXCEPT ![x].pc = "answered", ![x].answer = a]
      PROVE  Turns(x, "answered") /\ job'[x].answer = a
  BY <1>1, <1>6 DEF Turns, Row, Steps
<1>7. ASSUME NEW b \in BOOLEAN, job' = [job EXCEPT ![x].pc = "describing", ![x].saves = b]
      PROVE  Turns(x, "describing") /\ job'[x].answer = job[x].answer
  BY <1>1, <1>7 DEF Turns, Row, Steps
<1>8. ASSUME NEW n \in Nat, job' = [job EXCEPT ![x].pc = "read", ![x].head = n]
      PROVE  Turns(x, "read") /\ job'[x].answer = job[x].answer
  BY <1>1, <1>8 DEF Turns, Row, Steps
<1>9. ASSUME NEW n \in Nat, job' = [job EXCEPT ![x].pc = "inserting", ![x].clone = n]
      PROVE  Turns(x, "inserting") /\ job'[x].answer = job[x].answer
  BY <1>1, <1>9 DEF Turns, Row, Steps
<1> QED BY <1>4, <1>5, <1>6, <1>7, <1>8, <1>9

\* Most steps: one job goes on, is refused or is given the stored answer, and no commit, index,
\* project or stored answer changes.  A provision comes by GitHub's repository in creating it.
Over == {"refused", "saved", "lost"}
PlainSteps == Steps \ {"staging", "committing", "saved"}
Owning == {"enrolling", "reading", "read", "cloning", "inserting", "enrolled", "done"}

FolderStays == repo' = repo \/ repo' = [repo EXCEPT !.there = TRUE, !.worktree = @ \cup {README}]

Plain(x) ==
  /\ job[x].pc \notin Over
  /\ \E pc \in PlainSteps :
       /\ pc \in Early => job[x].pc \in Early
       /\ pc = "listing" => repo.branch = "main"
       /\ Turns(x, pc)
       /\ \/ pc = "refused" /\ job'[x].answer = Refusal(x)
          \/ pc = "answered" /\ x \in Taps /\ job'[x].answer = commands[Key[x]]
               /\ commands[Key[x]] # Nobody
          \/ pc \notin {"refused", "answered"} /\ job'[x].answer = job[x].answer
       /\ x \in Provisions =>
            /\ pc \in Owning => (job[x].pc \in Owning /\ remote' = remote) \/ remote' = x
            /\ pc \in {"enrolled", "done"} => job[x].pc = "enrolled"
            /\ pc = "done" => x \in requests'
            /\ pc # "already"
  /\ UNCHANGED <<commits, projects, commands, meddled>>
  /\ FolderStays
  /\ remote' = remote \/ (remote = Nobody /\ x \in Provisions /\ remote' = x)
  /\ requests' = requests \/ (x \in Provisions /\ requests' = requests \cup {x})

Rests == UNCHANGED <<commits, projects, commands, meddled, remote, requests>> /\ FolderStays

LEMMA PlainRefusal ==
  ASSUME ProvisioningTypes, NEW x \in Jobs, Refused(x), job[x].pc \notin Over,
         UNCHANGED <<commits, projects, commands, meddled>>, FolderStays,
         remote' = remote \/ (remote = Nobody /\ x \in Provisions /\ remote' = x),
         UNCHANGED requests
  PROVE  Plain(x)
<1>1. Turns(x, "refused") /\ job'[x].answer = Refusal(x)
  BY JobMoves
<1>2. "refused" \in PlainSteps \ Early
  BY DEF Steps, PlainSteps, Early, Looked, Listed
<1> QED BY <1>1, <1>2 DEF Plain, Owning

LEMMA PlainTurn ==
  ASSUME ProvisioningTypes, NEW x \in Jobs, NEW pc \in PlainSteps \ {"refused", "answered"},
         Turns(x, pc), job'[x].answer = job[x].answer, job[x].pc \notin Over, Rests,
         pc \in Early => job[x].pc \in Early,
         pc = "listing" => repo.branch = "main",
         x \in Provisions =>
           /\ pc \in Owning => job[x].pc \in Owning
           /\ pc = "enrolled" => job[x].pc = "enrolled"
           /\ pc \notin {"already", "done"}
  PROVE  Plain(x)
BY DEF Plain, Rests

LEMMA PlainGoing ==
  ASSUME ProvisioningTypes, NEW x \in Jobs, NEW pc \in PlainSteps \ {"refused", "answered"},
         Goes(x, pc), job[x].pc \notin Over, Rests,
         pc \in Early => job[x].pc \in Early,
         pc = "listing" => repo.branch = "main",
         x \in Provisions =>
           /\ pc \in Owning => job[x].pc \in Owning
           /\ pc = "enrolled" => job[x].pc = "enrolled"
           /\ pc \notin {"already", "done"}
  PROVE  Plain(x)
BY JobMoves, PlainTurn DEF PlainSteps

LEMMA TapsArePlain ==
  ASSUME ProvisioningAssumption, ProvisioningTypes, NEW t \in Taps, UNCHANGED prvars
  PROVE  Receive(t) \/ Examine(t) \/ Describe(t) \/ LookAgain(t) => Plain(t)
<1>1. t \in Jobs /\ t \notin Provisions /\ commands[Key[t]] \in Answers
  BY DEF ProvisioningAssumption, ProvisioningTypes, Answers
<1>2. {"examining", "already", "describing", "saving", "enrolling", "listing"}
        \subseteq PlainSteps \ {"refused", "answered"}
  BY DEF Steps, PlainSteps
<1>3. OnlyJob => Rests
  BY DEF OnlyJob, Rests, FolderStays, prvars
<1>4. OnlyJob /\ job[t].pc \notin Over /\ Refused(t) => Plain(t)
  BY <1>1, PlainRefusal DEF OnlyJob, FolderStays, prvars
<1>5. \A pc \in {"examining", "already", "describing", "saving", "enrolling", "listing"} :
        OnlyJob /\ job[t].pc \in Early /\ (pc = "listing" => repo.branch = "main")
          /\ Goes(t, pc) => Plain(t)
  BY <1>1, <1>2, <1>3, PlainGoing DEF Early, Looked, Listed, Over
<1>6. ASSUME Receive(t) PROVE Plain(t)
  <2>1. CASE commands[Key[t]] # Nobody
              /\ job' = [job EXCEPT ![t].pc = "answered", ![t].answer = commands[Key[t]]]
    <3>1. Turns(t, "answered") /\ job'[t].answer = commands[Key[t]]
      BY <1>1, <2>1, JobMoves
    <3>2. "answered" \in PlainSteps \ Early /\ Rests /\ job[t].pc \notin Over
      BY <1>3, <1>6 DEF Steps, PlainSteps, Early, Looked, Listed, Over, Receive
    <3> QED BY <1>1, <2>1, <3>1, <3>2 DEF Plain, Rests
  <2> QED BY <1>4, <1>5, <1>6, <2>1 DEF Receive, Early, Over
<1>7. ASSUME Examine(t) PROVE Plain(t)
  <2>1. CASE job' = [job EXCEPT ![t].pc = "describing", ![t].saves = (Unsaved # {})]
    <3>1. Turns(t, "describing") /\ job'[t].answer = job[t].answer
      BY <1>1, <2>1, JobMoves
    <3> QED BY <1>1, <1>2, <1>3, <1>7, <3>1, PlainTurn DEF Examine, Early, Over
  <2> QED BY <1>4, <1>5, <1>7, <2>1 DEF Examine, Early, Over
<1>8. ASSUME Describe(t) PROVE Plain(t)
  <2>1. CASE Goes(t, IF job[t].saves THEN "saving" ELSE "enrolling")
    BY <1>5, <1>8, <2>1 DEF Describe, Early
  <2> QED BY <1>4, <1>8, <2>1 DEF Describe, Over
<1>9. ASSUME LookAgain(t) PROVE Plain(t)
  BY <1>4, <1>5, <1>9 DEF LookAgain, Early, Over
<1> QED BY <1>6, <1>7, <1>8, <1>9

LEMMA EnrollingIsPlain ==
  ASSUME ProvisioningAssumption, ProvisioningTypes, NEW x \in Taps \cup Provisions, UNCHANGED prvars
  PROVE  Clean(x) \/ ReadHead(x) \/ OnMain(x) \/ Clone(x) => Plain(x)
<1>1. x \in Jobs /\ HeadNow \in Nat
  BY HeadIsANumber DEF ProvisioningAssumption, ProvisioningTypes
<1>2. {"reading", "read", "cloning", "inserting"} \subseteq Owning
      /\ {"reading", "read", "cloning", "inserting"} \subseteq PlainSteps \ ({"refused", "answered"} \cup Early)
  BY DEF Steps, Owning, PlainSteps, Early, Looked, Listed
<1>3. OnlyJob => Rests
  BY DEF OnlyJob, Rests, FolderStays, prvars
<1>4. OnlyJob /\ job[x].pc \notin Over /\ Refused(x) => Plain(x)
  BY <1>1, PlainRefusal DEF OnlyJob, FolderStays, prvars
<1>5. \A pc \in {"reading", "read", "cloning", "inserting"} :
        OnlyJob /\ job[x].pc \in Owning /\ Turns(x, pc) /\ job'[x].answer = job[x].answer
          => Plain(x)
  BY <1>1, <1>2, <1>3, PlainTurn DEF Owning, Over, Early, Looked, Listed
<1>6. ASSUME Clean(x) PROVE Plain(x)
  BY <1>1, <1>2, <1>4, <1>5, <1>6, JobMoves DEF Clean, Owning, Over, PlainSteps
<1>7. ASSUME ReadHead(x) PROVE Plain(x)
  <2>1. Turns(x, "read") /\ job'[x].answer = job[x].answer
    BY <1>1, <1>7, JobMoves DEF ReadHead, Steps
  <2> QED BY <1>5, <1>7, <2>1 DEF ReadHead, Owning
<1>8. ASSUME OnMain(x) PROVE Plain(x)
  BY <1>1, <1>2, <1>4, <1>5, <1>8, JobMoves DEF OnMain, Owning, Over, PlainSteps
<1>9. ASSUME Clone(x) PROVE Plain(x)
  <2>1. CASE job' = [job EXCEPT ![x].pc = "inserting", ![x].clone = HeadNow]
    <3>1. Turns(x, "inserting") /\ job'[x].answer = job[x].answer
      BY <1>1, <2>1, JobMoves
    <3> QED BY <1>5, <1>9, <3>1 DEF Clone, Owning
  <2> QED BY <1>4, <1>9, <2>1 DEF Clone, Over
<1> QED BY <1>6, <1>7, <1>8, <1>9

LEMMA ProvisionsArePlain ==
  ASSUME ProvisioningAssumption, ProvisioningTypes, NEW p \in Provisions
  PROVE  (\/ Approve(p) \/ LookForFolder(p) \/ WriteFolder(p)
          \/ LookForRemote(p) \/ CreateRemote(p) \/ Request(p)) => Plain(p)
<1>1. p \in Jobs
  BY DEF ProvisioningAssumption
<1>2. {"queued", "checking", "writing", "adding", "creating"}
        \subseteq PlainSteps \ ({"refused", "answered", "already", "done"} \cup Owning \cup Early)
  BY DEF Steps, Owning, PlainSteps, Early, Looked, Listed
<1>3. OnlyProvision /\ UNCHANGED prvars => Rests
  BY DEF OnlyProvision, Rests, FolderStays, prvars
<1>4. OnlyProvision /\ UNCHANGED prvars /\ job[p].pc \notin Over /\ Refused(p) => Plain(p)
  BY <1>1, PlainRefusal DEF OnlyProvision, FolderStays, prvars
<1>5. \A pc \in {"queued", "checking", "writing", "adding", "creating"} :
        Rests /\ job[p].pc \notin Over /\ Goes(p, pc) => Plain(p)
  BY <1>1, <1>2, PlainGoing DEF Owning, Early, Looked, Listed
<1>6. ASSUME Approve(p) PROVE Plain(p)
  BY <1>3, <1>5, <1>6 DEF Approve, Over
<1>7. ASSUME LookForFolder(p) PROVE Plain(p)
  BY <1>3, <1>4, <1>5, <1>7 DEF LookForFolder, Over
<1>8. ASSUME WriteFolder(p) PROVE Plain(p)
  <2>1. Rests
    BY <1>8 DEF WriteFolder, Rests, FolderStays, prvars
  <2> QED BY <1>5, <1>8, <2>1 DEF WriteFolder, Over
<1>9. ASSUME LookForRemote(p) PROVE Plain(p)
  BY <1>3, <1>4, <1>5, <1>9 DEF LookForRemote, Over
<1>10. ASSUME CreateRemote(p) PROVE Plain(p)
  <2>1. UNCHANGED <<commits, projects, commands, meddled, requests>> /\ FolderStays
        /\ (remote' = remote \/ (remote = Nobody /\ remote' = p))
    BY <1>10 DEF CreateRemote, OnlyProvision, FolderStays
  <2>2. CASE Refused(p)
    BY <1>1, <1>10, <2>1, <2>2, PlainRefusal DEF CreateRemote, Over
  <2>3. CASE Goes(p, "enrolling") /\ remote' = p
    <3>1. "enrolling" \in PlainSteps \ Early
      BY DEF Steps, PlainSteps, Early, Looked, Listed
    <3>2. Turns(p, "enrolling") /\ job'[p].answer = job[p].answer /\ job[p].pc \notin Over
      BY <1>1, <1>10, <2>3, <3>1, JobMoves DEF CreateRemote, PlainSteps, Over
    <3> QED BY <2>1, <2>3, <3>1, <3>2 DEF Plain
  <2> QED BY <1>10, <2>2, <2>3 DEF CreateRemote
<1>11. ASSUME Request(p) PROVE Plain(p)
  <2>1. UNCHANGED <<commits, projects, commands, meddled, remote>> /\ FolderStays
    BY <1>11 DEF Request, OnlyProvision, FolderStays
  <2>2. CASE Refused(p) /\ UNCHANGED requests
    BY <1>1, <1>11, <2>1, <2>2, PlainRefusal DEF Request, Over
  <2>3. CASE Goes(p, "done") /\ requests' = requests \cup {p}
    <3>1. "done" \in PlainSteps \ Early /\ "enrolled" \in Owning \ Over
      BY DEF Steps, Owning, PlainSteps, Early, Looked, Listed, Over
    <3>2. Turns(p, "done") /\ job'[p].answer = job[p].answer /\ job[p].pc = "enrolled"
      BY <1>1, <1>11, <2>3, <3>1, JobMoves DEF Request, PlainSteps
    <3> QED BY <2>1, <2>3, <3>1, <3>2 DEF Plain
  <2> QED BY <1>11, <2>2, <2>3 DEF Request
<1> QED BY <1>6, <1>7, <1>8, <1>9, <1>10, <1>11

\* What remains of the steps.
LEMMA OtherSteps ==
  ASSUME ProvisioningAssumption, ProvisioningTypes, Next
  PROVE  \/ OwnerMoves /\ UNCHANGED prvars
         \/ Archive /\ UNCHANGED prvars
         \/ Restart /\ UNCHANGED prvars
         \/ \E t \in Taps : ListChanges(t) /\ UNCHANGED prvars
         \/ \E t \in Taps : StageListed(t) /\ UNCHANGED prvars
         \/ \E t \in Taps : CommitStaged(t) /\ UNCHANGED prvars
         \/ \E t \in Taps : Remember(t) /\ UNCHANGED prvars
         \/ \E t \in Taps : Record(t) /\ UNCHANGED prvars
         \/ \E p \in Provisions : CommitFolder(p)
         \/ \E x \in Taps \cup Provisions : Insert(x) /\ UNCHANGED prvars
         \/ \E x \in Taps \cup Provisions : Plain(x)
<1>1. CASE (OwnerMoves \/ Archive \/ Restart) /\ UNCHANGED prvars
  BY <1>1
<1>2. ASSUME NEW t \in Taps, Tap(t) /\ UNCHANGED prvars
      PROVE  \/ Plain(t) \/ ListChanges(t) \/ StageListed(t) \/ CommitStaged(t)
             \/ Remember(t) \/ Record(t)
  BY <1>2, TapsArePlain DEF Tap
<1>3. ASSUME NEW x \in Taps \cup Provisions, Works(x) PROVE Plain(x) \/ Insert(x)
  BY <1>3, EnrollingIsPlain DEF Works, EngineEnrols
<1>4. ASSUME NEW p \in Provisions, Provision(p) PROVE Plain(p) \/ CommitFolder(p)
  BY <1>4, ProvisionsArePlain DEF Provision
<1>5. CASE \E t \in Taps : Tap(t) /\ UNCHANGED prvars
  <2>1. PICK t \in Taps : Tap(t) /\ UNCHANGED prvars
    BY <1>5
  <2> QED BY <1>2, <2>1
<1>6. CASE \E x \in Taps \cup Provisions : Works(x)
  <2>1. PICK x \in Taps \cup Provisions : Works(x)
    BY <1>6
  <2>2. UNCHANGED prvars
    BY <2>1 DEF Works
  <2> QED BY <1>3, <2>1, <2>2
<1>7. CASE \E p \in Provisions : Provision(p)
  <2>1. PICK p \in Provisions : Provision(p)
    BY <1>7
  <2> QED BY <1>4, <2>1
<1> QED BY <1>1, <1>5, <1>6, <1>7 DEF Next

-------------------------------------------------------------------------------
(* Every step keeps the invariant *)

\* What others do is known to those who have looked.
LEMMA MeddlesFacts ==
  ASSUME ProvisioningTypes, NEW by, NEW files \in SUBSET Files,
         NEW deeds \in SUBSET {"switched", "committed"}, Meddles(by, files, deeds)
  PROVE  /\ meddled' \in [Taps -> [staged : SUBSET Files, did : SUBSET {"switched", "committed"}]]
         /\ \A t \in Taps :
              /\ meddled[t].staged \subseteq meddled'[t].staged
              /\ meddled[t].did \subseteq meddled'[t].did
              /\ t # by /\ job[t].pc \in Listed =>
                   files \subseteq meddled'[t].staged /\ deeds \subseteq meddled'[t].did
              /\ t # by /\ job[t].pc \in Looked /\ "switched" \in deeds => "switched" \in meddled'[t].did
<1> DEFINE staged(t) == meddled[t].staged \cup {f \in files : t # by /\ job[t].pc \in Listed}
           did(t) == meddled[t].did \cup
             {d \in deeds : t # by /\ job[t].pc \in (IF d = "switched" THEN Looked ELSE Listed)}
<1>1. meddled' = [t \in Taps |-> [staged |-> staged(t), did |-> did(t)]]
  BY DEF Meddles
<1>2. \A t \in Taps : staged(t) \in SUBSET Files /\ did(t) \in SUBSET {"switched", "committed"}
  BY DEF ProvisioningTypes
<1>3. \A t \in Taps : meddled'[t].staged = staged(t) /\ meddled'[t].did = did(t)
  BY <1>1
<1>4. meddled' \in [Taps -> [staged : SUBSET Files, did : SUBSET {"switched", "committed"}]]
  <2> HIDE DEF staged, did
  <2> QED BY <1>1, <1>2
<1> QED BY <1>3, <1>4 DEF Looked

\* So the list of a tap stands whatever anyone else does.
LEMMA OthersLeaveLists ==
  ASSUME ProvisioningTypes, ListsStand, NEW by, NEW files \in SUBSET Files,
         NEW deeds \in SUBSET {"switched", "committed"}, Meddles(by, files, deeds),
         \A t \in Taps \ {by} : job'[t] = job[t],
         repo'.branch = repo.branch \/ "switched" \in deeds,
         repo'.index \subseteq repo.index \cup files,
         \/ repo.index \subseteq repo'.index /\ repo.worktree \subseteq repo'.worktree \cup repo'.index
         \/ "committed" \in deeds
  PROVE  \A t \in Taps \ {by} : ListStands(t)'
<1> SUFFICES ASSUME NEW t \in Taps \ {by} PROVE ListStands(t)'
  OBVIOUS
<1>1. /\ ListStands(t) /\ job'[t] = job[t]
      /\ meddled[t].staged \subseteq meddled'[t].staged /\ meddled[t].did \subseteq meddled'[t].did
      /\ job[t].pc \in Listed => files \subseteq meddled'[t].staged /\ deeds \subseteq meddled'[t].did
      /\ job[t].pc \in Looked /\ "switched" \in deeds => "switched" \in meddled'[t].did
  BY MeddlesFacts DEF ListsStand
<1>2. job[t].pc \in Looked => repo'.branch = "main" \/ "switched" \in meddled'[t].did
  BY <1>1 DEF ListStands
<1>3. job[t].pc \in Listed =>
        Secret \notin job[t].listed /\ repo'.index \subseteq job[t].listed \cup meddled'[t].staged
  BY <1>1 DEF ListStands
<1>4. job[t].pc = "staging" =>
        /\ job[t].unstaged \subseteq job[t].listed
        /\ \/ job[t].listed \subseteq repo'.index \cup (repo'.worktree \cap job[t].unstaged)
           \/ "committed" \in meddled'[t].did
  BY <1>1 DEF ListStands, Listed
<1>5. job[t].pc = "committing" =>
        job[t].listed \subseteq repo'.index \/ "committed" \in meddled'[t].did
  BY <1>1 DEF ListStands, Listed
<1> QED BY <1>1, <1>2, <1>3, <1>4, <1>5 DEF ListStands

\* A step that stages, commits and switches nothing leaves the lists of all who do not go on with
\* theirs, and of one that looks on main.
LEMMA ListsRest ==
  ASSUME ListsStand, repo'.branch = repo.branch, repo'.index = repo.index,
         repo.worktree \subseteq repo'.worktree, meddled' = meddled,
         \A t \in Taps : job'[t].pc \in Looked =>
           /\ job'[t].listed = job[t].listed /\ job'[t].unstaged = job[t].unstaged
           /\ job'[t].pc = job[t].pc \/ (job'[t].pc = "listing" /\ repo.branch = "main")
  PROVE  ListsStand'
<1> SUFFICES ASSUME NEW t \in Taps PROVE ListStands(t)'
  BY DEF ListsStand
<1> QED BY DEF ListsStand, ListStands, Looked, Listed

\* What taps have committed stands while they keep their lists and no other tap commits.
LEMMA HistoryStands ==
  ASSUME CommitsAreListed,
         \A i \in 1..Len(commits') :
           commits'[i].by \in Taps => i \in 1..Len(commits) /\ commits'[i] = commits[i],
         \A t \in Taps : job[t].pc \notin Early =>
           /\ job'[t].pc \notin Early /\ job'[t].listed = job[t].listed
           /\ meddled[t].staged \subseteq meddled'[t].staged /\ meddled[t].did \subseteq meddled'[t].did
  PROVE  CommitsAreListed'
<1> SUFFICES ASSUME NEW i \in 1..Len(commits'), commits'[i].by \in Taps
             PROVE  IsListed(commits[i], commits[i].by)' 
  BY DEF CommitsAreListed
<1>1. commits'[i] = commits[i] /\ IsListed(commits[i], commits[i].by) /\ commits[i].by \in Taps
  BY DEF CommitsAreListed
<1> QED BY <1>1 DEF IsListed

LEMMA PlainKeeps ==
  ASSUME ProvisioningAssumption, ProvisioningInvariant, NEW x \in Jobs, Plain(x)
  PROVE  ProvisioningInvariant'
<1>1. PICK pc \in PlainSteps :
       /\ pc \in Early => job[x].pc \in Early
       /\ pc = "listing" => repo.branch = "main"
       /\ Turns(x, pc)
       /\ \/ pc = "refused" /\ job'[x].answer = Refusal(x)
          \/ pc = "answered" /\ x \in Taps /\ job'[x].answer = commands[Key[x]]
               /\ commands[Key[x]] # Nobody
          \/ pc \notin {"refused", "answered"} /\ job'[x].answer = job[x].answer
       /\ x \in Provisions =>
            /\ pc \in Owning => (job[x].pc \in Owning /\ remote' = remote) \/ remote' = x
            /\ pc \in {"enrolled", "done"} => job[x].pc = "enrolled"
            /\ pc = "done" => x \in requests'
            /\ pc # "already"
  BY DEF Plain
<1>r. /\ UNCHANGED <<commits, projects, commands, meddled>> /\ FolderStays
      /\ remote' = remote \/ (remote = Nobody /\ x \in Provisions /\ remote' = x)
      /\ requests' = requests \/ (x \in Provisions /\ requests' = requests \cup {x})
      /\ job[x].pc \notin Over
  BY DEF Plain
<1>f. /\ repo' \in Repository /\ repo'.index = repo.index /\ repo'.branch = repo.branch
      /\ repo.worktree \subseteq repo'.worktree
  <2>1. repo \in Repository /\ README \in Files
    BY DEF ProvisioningInvariant, ProvisioningTypes, ProvisioningAssumption, README
  <2> QED BY <1>r, <2>1 DEF FolderStays, Repository
<1>2. /\ UNCHANGED <<commits, projects, commands, meddled>>
      /\ remote' = remote \/ (remote = Nobody /\ x \in Provisions /\ remote' = x)
      /\ requests \subseteq requests'
  BY <1>r
<1>3. /\ job' \in [Jobs -> Row] /\ \A y \in Jobs \ {x} : job'[y] = job[y]
      /\ job'[x].pc = pc /\ job'[x].listed = job[x].listed
      /\ job'[x].unstaged = job[x].unstaged /\ job'[x].saved = job[x].saved
  BY <1>1 DEF Turns
<1>t. Taps \subseteq Jobs
  BY DEF ProvisioningAssumption
<1>4. ListsStand'
  <2>1. pc \in Looked => pc = "listing"
    BY DEF PlainSteps, Looked, Listed
  <2>2. \A t \in Taps : job'[t].pc \in Looked =>
          /\ job'[t].listed = job[t].listed /\ job'[t].unstaged = job[t].unstaged
          /\ job'[t].pc = job[t].pc \/ (job'[t].pc = "listing" /\ repo.branch = "main")
    BY <1>1, <1>3, <1>t, <2>1
  <2> QED BY <1>2, <1>f, <2>2, ListsRest DEF ProvisioningInvariant
<1>h. CommitsAreListed'
  <2>1. \A t \in Taps : job[t].pc \notin Early => job'[t].pc \notin Early /\ job'[t].listed = job[t].listed
    BY <1>1, <1>3, <1>t
  <2> QED BY <1>2, <2>1, HistoryStands DEF ProvisioningInvariant
<1>5. CommitsAreOwnedUp'
  <2>1. ASSUME NEW i \in 1..Len(commits), commits[i].by \in Taps
        PROVE  Owns(commits[i].by)'
    <3>1. commits[i].by \in Jobs /\ Owns(commits[i].by)
      BY <2>1 DEF ProvisioningInvariant, CommitsAreOwnedUp, ProvisioningAssumption
    <3>2. CASE commits[i].by = x
      <4>1. job[x].saved
        BY <1>r, <3>1, <3>2 DEF Owns, Over, ProvisioningInvariant, CommitsAreOwnedUp
      <4> QED BY <1>2, <1>3, <3>2, <4>1 DEF Owns
    <3> QED BY <1>2, <1>3, <3>1, <3>2 DEF Owns
  <2>2. ASSUME NEW y \in Jobs
        PROVE  /\ job'[y].answer \in {"refused", "failed"} => job'[y].pc = "refused"
               /\ job'[y].answer = "refused" => ~job'[y].saved
    <3>1. /\ job[y].answer \in {"refused", "failed"} => job[y].pc = "refused"
          /\ job[y].answer = "refused" => ~job[y].saved
      BY DEF ProvisioningInvariant, CommitsAreOwnedUp
    <3>2. CASE y # x
      BY <1>3, <3>1, <3>2
    <3>3. CASE y = x
      <4>1. pc = "answered" => commands[Key[x]] \notin {"refused", "failed"}
        BY <1>1 DEF ProvisioningInvariant, ProvisioningTypes, Nobody
      <4> QED BY <1>1, <1>r, <1>3, <3>1, <3>3, <4>1 DEF Refusal, Over
    <3> QED BY <3>2, <3>3
  <2> QED BY <1>2, <2>1, <2>2 DEF CommitsAreOwnedUp
<1>6. ProjectIsOne'
  BY <1>2 DEF ProjectIsOne, ProvisioningInvariant
<1>7. AnswersAreStored'
  <2> SUFFICES ASSUME NEW t \in Taps, job'[t].pc = "answered"
               PROVE  job'[t].answer = commands[Key[t]] /\ commands[Key[t]] # Nobody
    BY <1>2 DEF AnswersAreStored
  <2>1. t \in Jobs
    BY DEF ProvisioningAssumption
  <2>2. CASE t # x
    BY <1>3, <2>1, <2>2 DEF AnswersAreStored, ProvisioningInvariant
  <2>3. CASE t = x
    BY <1>1, <1>3, <2>3
  <2> QED BY <2>2, <2>3
<1>8. ProvisionsOwn'
  <2> SUFFICES ASSUME NEW p \in Provisions
               PROVE  /\ job'[p].pc \in Owning => remote' = p
                      /\ job'[p].pc \in {"enrolled", "done"} => \E project \in projects : project.by = p
                      /\ job'[p].pc = "done" => p \in requests'
                      /\ job'[p].pc # "already"
    BY <1>2 DEF ProvisionsOwn, Owning
  <2>1. p \in Jobs /\ p # Nobody
    BY DEF ProvisioningAssumption
  <2>2. /\ job[p].pc \in Owning => remote = p
        /\ job[p].pc \in {"enrolled", "done"} => \E project \in projects : project.by = p
        /\ job[p].pc = "done" => p \in requests
        /\ job[p].pc # "already"
    BY DEF ProvisionsOwn, Owning, ProvisioningInvariant
  <2>3. CASE p # x
    BY <1>2, <1>3, <2>1, <2>2, <2>3
  <2>4. CASE p = x
    BY <1>1, <1>2, <1>3, <2>1, <2>2, <2>4
  <2> QED BY <2>3, <2>4
<1>9. ProvisioningTypes'
  BY <1>r, <1>f, <1>3 DEF ProvisioningInvariant, ProvisioningTypes
<1> QED BY <1>4, <1>h, <1>5, <1>6, <1>7, <1>8, <1>9 DEF ProvisioningInvariant

\* The owner's own doings reach no job.
LEMMA OwnerKeeps ==
  ASSUME ProvisioningAssumption, ProvisioningInvariant, OwnerMoves \/ Archive, UNCHANGED prvars
  PROVE  ProvisioningInvariant'
<1>1. UNCHANGED <<projects, job, commands, remote, requests>>
  BY DEF OwnerMoves, Archive, prvars
<1>2. /\ repo \in Repository /\ commits \in Seq(Commit) /\ ProvisioningTypes /\ ListsStand
      /\ Owner \notin Taps
  BY DEF ProvisioningInvariant, ProvisioningTypes, ProvisioningAssumption
<1> DEFINE Theirs == [Taps -> [staged : SUBSET Files, did : SUBSET {"switched", "committed"}]]
           Grows == \A t \in Taps : meddled[t].staged \subseteq meddled'[t].staged
                                      /\ meddled[t].did \subseteq meddled'[t].did
           Same == commits' = commits
           Own == commits' = Append(commits, [by |-> Owner, branch |-> repo.branch,
                                              files |-> repo.index])
<1>3. repo' \in Repository /\ meddled' \in Theirs /\ Grows /\ ListsStand' /\ (Same \/ Own)
  <2>1. CASE Archive
    <3>1. repo' = repo /\ meddled' = meddled /\ Same
      BY <2>1 DEF Archive
    <3>2. ListsStand'
      BY <1>1, <1>2, <3>1, ListsRest
    <3> QED BY <1>2, <3>1, <3>2 DEF ProvisioningTypes
  <2>2. CASE (\E f \in Files \ repo.worktree : repo' = [repo EXCEPT !.worktree = @ \cup {f}])
             /\ UNCHANGED <<commits, meddled>>
    <3>1. /\ repo' \in Repository /\ repo'.branch = repo.branch /\ repo'.index = repo.index
          /\ repo.worktree \subseteq repo'.worktree
      BY <1>2, <2>2 DEF Repository
    <3>2. ListsStand'
      BY <1>1, <1>2, <2>2, <3>1, ListsRest
    <3> QED BY <1>2, <2>2, <3>1, <3>2 DEF ProvisioningTypes
  <2>3. ASSUME NEW f \in repo.worktree,
               repo' = [repo EXCEPT !.worktree = @ \ {f}, !.index = @ \cup {f}],
               Meddles(Owner, {f}, {}), UNCHANGED commits
        PROVE  repo' \in Repository /\ meddled' \in Theirs /\ Grows /\ ListsStand' /\ (Same \/ Own)
    <3>1. /\ repo' \in Repository /\ repo'.branch = repo.branch /\ {f} \in SUBSET Files
          /\ repo'.index = repo.index \cup {f} /\ repo.worktree \subseteq repo'.worktree \cup {f}
      BY <1>2, <2>3 DEF Repository
    <3>2. ListsStand'
      BY <1>1, <1>2, <2>3, <3>1, OthersLeaveLists DEF ListsStand
    <3> QED BY <1>2, <2>3, <3>1, <3>2, MeddlesFacts
  <2>4. CASE /\ repo' = [repo EXCEPT !.index = {}] /\ Own
             /\ Meddles(Owner, {}, {"committed"})
    <3>1. repo' \in Repository /\ repo'.branch = repo.branch /\ repo'.index = {}
      BY <1>2, <2>4 DEF Repository
    <3>2. ListsStand'
      <4> HIDE DEF Own
      <4> QED BY <1>1, <1>2, <2>4, <3>1, OthersLeaveLists DEF ListsStand
    <3>3. meddled' \in Theirs /\ Grows
      BY <1>2, <2>4, MeddlesFacts
    <3> QED BY <2>4, <3>1, <3>2, <3>3
  <2>5. CASE /\ repo' = [repo EXCEPT !.branch = IF @ = "main" THEN "side" ELSE "main"]
             /\ Meddles(Owner, {}, {"switched"}) /\ UNCHANGED commits
    <3>1. repo' \in Repository /\ repo'.index = repo.index /\ repo'.worktree = repo.worktree
      BY <1>2, <2>5 DEF Repository, Branches
    <3>2. ListsStand'
      BY <1>1, <1>2, <2>5, <3>1, OthersLeaveLists DEF ListsStand
    <3> QED BY <1>2, <2>5, <3>1, <3>2, MeddlesFacts
  <2> HIDE DEF Theirs, Grows, Same
  <2> QED BY <2>1, <2>2, <2>3, <2>4, <2>5 DEF OwnerMoves
<1>4. [by |-> Owner, branch |-> repo.branch, files |-> repo.index] \in Commit
  BY <1>2 DEF Repository, Commit
<1>5. /\ commits' \in Seq(Commit)
      /\ \A i \in 1..Len(commits') :
           commits'[i].by \in Taps => i \in 1..Len(commits) /\ commits'[i] = commits[i]
  <2>1. CASE Same
    BY <1>2, <2>1
  <2>2. CASE Own
    BY <1>2, <1>4, <2>2
  <2> QED BY <1>3, <2>1, <2>2
<1>6. ProvisioningTypes'
  BY <1>1, <1>3, <1>5 DEF ProvisioningInvariant, ProvisioningTypes
<1>7. CommitsAreListed'
  BY <1>1, <1>3, <1>5, HistoryStands DEF ProvisioningInvariant
<1>8. CommitsAreOwnedUp'
  BY <1>1, <1>5 DEF ProvisioningInvariant, CommitsAreOwnedUp, Owns
<1>9. ProjectIsOne' /\ AnswersAreStored' /\ ProvisionsOwn'
  BY <1>1 DEF ProvisioningInvariant, ProjectIsOne, AnswersAreStored, ProvisionsOwn
<1> QED BY <1>3, <1>6, <1>7, <1>8, <1>9 DEF ProvisioningInvariant

\* A restart loses what was under way.
LEMMA RestartKeeps ==
  ASSUME ProvisioningAssumption, ProvisioningInvariant, Restart, UNCHANGED prvars
  PROVE  ProvisioningInvariant'
<1>1. UNCHANGED <<repo, commits, projects, commands, meddled, remote, requests>>
  BY DEF Restart, prvars
<1>2. job \in [Jobs -> Row]
  BY DEF ProvisioningInvariant, ProvisioningTypes
<1>3. /\ job' \in [Jobs -> Row]
      /\ \A x \in Jobs : /\ job'[x].listed = job[x].listed /\ job'[x].saved = job[x].saved
                         /\ job'[x].unstaged = job[x].unstaged /\ job'[x].answer = job[x].answer
                         /\ \/ job'[x].pc = job[x].pc
                                 /\ job[x].pc \in {"new", "answered", "refused", "done"}
                            \/ job'[x].pc = "lost" /\ job[x].pc # "refused"
  <2>1. \A x \in Jobs : [job[x] EXCEPT !.pc = "lost"] \in Row
    BY <1>2 DEF Row, Steps
  <2>2. job' = [x \in Jobs |-> IF job[x].pc \in {"new", "answered", "refused", "done"} THEN job[x]
                               ELSE [job[x] EXCEPT !.pc = "lost"]]
    BY DEF Restart
  <2> QED BY <1>2, <2>1, <2>2 DEF Row
<1>t. Taps \subseteq Jobs /\ Provisions \subseteq Jobs
  BY DEF ProvisioningAssumption
<1>4. ProvisioningTypes'
  BY <1>1, <1>3 DEF ProvisioningInvariant, ProvisioningTypes
<1>5. ListsStand'
  <2>1. \A t \in Taps : job'[t].pc \notin Looked
    BY <1>3, <1>t DEF Looked, Listed
  <2> QED BY <1>1, <2>1, ListsRest DEF ProvisioningInvariant
<1>h. CommitsAreListed'
  <2>1. \A t \in Taps : job[t].pc \notin Early => job'[t].pc \notin Early /\ job'[t].listed = job[t].listed
    BY <1>3, <1>t DEF Early, Looked, Listed
  <2> QED BY <1>1, <2>1, HistoryStands DEF ProvisioningInvariant
<1>6. CommitsAreOwnedUp'
  <2>1. \A i \in 1..Len(commits) : commits[i].by \in Taps => commits[i].by \in Jobs
    BY <1>t
  <2> QED BY <1>1, <1>3, <2>1 DEF ProvisioningInvariant, CommitsAreOwnedUp, Owns
<1>7. AnswersAreStored' /\ ProvisionsOwn'
  <2>2. AnswersAreStored'
    BY <1>1, <1>3, <1>t DEF ProvisioningInvariant, AnswersAreStored
  <2>3. ProvisionsOwn'
    BY <1>1, <1>3, <1>t DEF ProvisioningInvariant, ProvisionsOwn
  <2> QED BY <2>2, <2>3
<1>8. ProjectIsOne'
  BY <1>1 DEF ProvisioningInvariant, ProjectIsOne
<1> QED BY <1>4, <1>5, <1>h, <1>6, <1>7, <1>8 DEF ProvisioningInvariant

\* What nobody's provision and no answer notices.
Unnoticed(x) ==
  /\ \A y \in Jobs \ {x} : job'[y] = job[y]
  /\ job'[x].answer = job[x].answer
  /\ job'[x].pc \notin {"answered", "already", "refused"} /\ job[x].pc \notin {"answered", "refused"}
  /\ x \in Provisions => job[x].pc \notin Owning /\ job'[x].pc \notin Owning
  /\ UNCHANGED <<projects, commands, remote, requests>>

LEMMA UnnoticedKeeps ==
  ASSUME ProvisioningAssumption, ProvisioningInvariant, NEW x \in Jobs, Unnoticed(x)
  PROVE  ProjectIsOne' /\ AnswersAreStored' /\ ProvisionsOwn'
<1>1. ProjectIsOne'
  BY DEF Unnoticed, ProvisioningInvariant, ProjectIsOne
<1>2. AnswersAreStored'
  BY DEF Unnoticed, ProvisioningInvariant, AnswersAreStored, ProvisioningAssumption
<1>3. ProvisionsOwn'
  <2> SUFFICES ASSUME NEW p \in Provisions
               PROVE  /\ job'[p].pc \in Owning => remote' = p
                      /\ job'[p].pc \in {"enrolled", "done"} => \E project \in projects' : project.by = p
                      /\ job'[p].pc = "done" => p \in requests'
                      /\ job'[p].pc # "already"
    BY DEF ProvisionsOwn, Owning
  <2>1. CASE p = x
    BY <2>1 DEF Unnoticed, Owning
  <2>2. CASE p # x
    BY <2>2 DEF Unnoticed, ProvisioningInvariant, ProvisionsOwn, Owning, ProvisioningAssumption
  <2> QED BY <2>1, <2>2
<1> QED BY <1>1, <1>2, <1>3

\* A tap that is early has committed nothing.
LEMMA NothingYet ==
  ASSUME CommitsAreListed, NEW t \in Taps, job[t].pc \in Early
  PROVE  \A i \in 1..Len(commits) : commits[i].by # t
BY DEF CommitsAreListed, IsListed

\* Whoever owned up to a commit still does, when only x goes on and owns up to its own.
LEMMA OwnedStands ==
  ASSUME ProvisioningAssumption, CommitsAreOwnedUp, NEW x \in Jobs,
         \A y \in Jobs \ {x} : job'[y] = job[y],
         \A i \in 1..Len(commits') :
           commits'[i].by \in Taps \ {x} => i \in 1..Len(commits) /\ commits'[i] = commits[i],
         Owns(x)' \/ \A i \in 1..Len(commits') : x \in Taps => commits'[i].by # x,
         job'[x].answer \in {"refused", "failed"} => job'[x].pc = "refused",
         job'[x].answer = "refused" => ~job'[x].saved
  PROVE  CommitsAreOwnedUp'
<1>1. ASSUME NEW i \in 1..Len(commits'), commits'[i].by \in Taps
      PROVE  Owns(commits[i].by)'
  <2>1. CASE commits'[i].by = x
    BY <1>1, <2>1 DEF Owns
  <2>2. CASE commits'[i].by # x
    <3>1. commits'[i].by \in Jobs /\ Owns(commits'[i].by)
      BY <1>1, <2>2 DEF CommitsAreOwnedUp, ProvisioningAssumption
    <3> QED BY <2>2, <3>1 DEF Owns
  <2> QED BY <2>1, <2>2
<1>2. ASSUME NEW y \in Jobs
      PROVE  /\ job'[y].answer \in {"refused", "failed"} => job'[y].pc = "refused"
             /\ job'[y].answer = "refused" => ~job'[y].saved
  <2>1. CASE y = x
    BY <2>1
  <2>2. CASE y # x
    BY <2>2 DEF CommitsAreOwnedUp
  <2> QED BY <2>1, <2>2
<1> QED BY <1>1, <1>2 DEF CommitsAreOwnedUp

\* What a tap lists has no secret, and what of it is not staged waits to be.
LEMMA ListingKeeps ==
  ASSUME ProvisioningAssumption, ProvisioningInvariant, NEW t \in Taps, ListChanges(t),
         UNCHANGED prvars
  PROVE  ProvisioningInvariant'
<1>1. t \in Jobs /\ t \notin Provisions /\ ProvisioningTypes /\ ListsStand /\ CommitsAreListed
  BY DEF ProvisioningAssumption, ProvisioningInvariant
<1>2. CASE Refused(t)
  BY <1>1, <1>2, PlainRefusal, PlainKeeps DEF ListChanges, OnlyJob, FolderStays, prvars, Over
<1>3. CASE Secret \notin Unsaved
  <2>1. UNCHANGED <<repo, commits, projects, commands, meddled, remote, requests>>
        /\ job[t].pc = "listing" /\ job[t].pc \in Early
    BY <1>3 DEF ListChanges, OnlyJob, prvars, Early, Looked
  <2>2. /\ job' \in [Jobs -> Row]
        /\ \A y \in Jobs \ {t} : job'[y] = job[y]
        /\ job'[t].pc = "staging" /\ job'[t].listed = Unsaved /\ job'[t].unstaged = repo.worktree
        /\ job'[t].saved = job[t].saved /\ job'[t].answer = job[t].answer
    <3>1. job \in [Jobs -> Row] /\ job[t] \in Row /\ repo.worktree \subseteq Files
          /\ Unsaved \subseteq Files
      BY <1>1 DEF ProvisioningTypes, Repository, Unsaved
    <3>2. job' = [job EXCEPT ![t].pc = "staging", ![t].listed = Unsaved,
                             ![t].unstaged = repo.worktree]
      BY <1>3 DEF ListChanges
    <3> QED BY <1>1, <3>1, <3>2 DEF Row, Steps
  <2>3. ProvisioningTypes'
    BY <1>1, <2>1, <2>2 DEF ProvisioningTypes
  <2>4. ListsStand'
    <3>1. ASSUME NEW u \in Taps PROVE ListStands(u)'
      <4>1. ListStands(u) /\ u \in Jobs
        BY <1>1 DEF ListsStand, ProvisioningAssumption
      <4>2. CASE u # t
        BY <2>1, <2>2, <4>1, <4>2 DEF ListStands
      <4>3. CASE u = t
        BY <1>3, <2>1, <2>2, <4>1, <4>3 DEF ListStands, Looked, Listed, Unsaved
      <4> QED BY <4>2, <4>3
    <3> QED BY <3>1 DEF ListsStand
  <2>5. CommitsAreListed'
    <3>1. \A u \in Taps : job[u].pc \notin Early => job'[u] = job[u]
      BY <2>1, <2>2 DEF ProvisioningAssumption
    <3> QED BY <1>1, <2>1, <3>1, HistoryStands
  <2>6. CommitsAreOwnedUp'
    <3>1. \A i \in 1..Len(commits) : commits[i].by # t
      BY <1>1, <2>1, NothingYet
    <3>2. job'[t].answer \notin {"refused", "failed"}
      BY <1>1, <2>1, <2>2 DEF ProvisioningInvariant, CommitsAreOwnedUp
    <3> QED BY <1>1, <2>1, <2>2, <3>1, <3>2, OwnedStands DEF ProvisioningInvariant
  <2>7. Unnoticed(t)
    BY <1>1, <2>1, <2>2 DEF Unnoticed
  <2> QED BY <1>1, <2>3, <2>4, <2>5, <2>6, <2>7, UnnoticedKeeps DEF ProvisioningInvariant
<1> QED BY <1>2, <1>3 DEF ListChanges

\* What a tap stages it listed; the others, who may not have, are told.
LEMMA StagingKeeps ==
  ASSUME ProvisioningAssumption, ProvisioningInvariant, NEW t \in Taps, StageListed(t),
         UNCHANGED prvars
  PROVE  ProvisioningInvariant'
<1>1. t \in Jobs /\ t \notin Provisions /\ ProvisioningTypes /\ ListsStand /\ CommitsAreListed
  BY DEF ProvisioningAssumption, ProvisioningInvariant
<1>2. CASE Refused(t) /\ UNCHANGED <<repo, meddled>>
  BY <1>1, <1>2, PlainRefusal, PlainKeeps DEF StageListed, FolderStays, prvars, Over
<1> DEFINE files == Staged(job[t].unstaged)
<1>3. CASE /\ Goes(t, "committing")
           /\ repo' = [repo EXCEPT !.worktree = @ \ files, !.index = @ \cup files]
           /\ Meddles(t, files, {})
  <2>1. UNCHANGED <<commits, projects, commands, remote, requests>>
        /\ job[t].pc = "staging" /\ job[t].pc \in Early
    BY DEF StageListed, prvars, Early, Looked, Listed
  <2>2. Turns(t, "committing") /\ job'[t].answer = job[t].answer
    <3>1. "committing" \in Steps
      BY DEF Steps
    <3> QED BY <1>1, <1>3, <3>1, JobMoves
  <2>f. files \in SUBSET Files /\ files = repo.worktree \cap job[t].unstaged
    BY <1>1 DEF ProvisioningTypes, Repository, Staged
  <2> HIDE DEF files
  <2>3. /\ repo' \in Repository /\ repo'.branch = repo.branch
        /\ repo'.worktree = repo.worktree \ files /\ repo'.index = repo.index \cup files
    BY <1>1, <1>3, <2>f DEF ProvisioningTypes, Repository
  <2>m. /\ meddled' \in [Taps -> [staged : SUBSET Files, did : SUBSET {"switched", "committed"}]]
        /\ \A u \in Taps : meddled[u].staged \subseteq meddled'[u].staged
                             /\ meddled[u].did \subseteq meddled'[u].did
    BY <1>1, <1>3, <2>f, MeddlesFacts
  <2>4. ProvisioningTypes'
    BY <1>1, <2>1, <2>2, <2>3, <2>m DEF ProvisioningTypes, Turns
  <2>5. ListsStand'
    <3>1. \A u \in Taps \ {t} : ListStands(u)'
      <4>1. \A u \in Taps \ {t} : job'[u] = job[u]
        BY <2>2 DEF Turns, ProvisioningAssumption
      <4>2. repo.index \subseteq repo'.index /\ repo.worktree \subseteq repo'.worktree \cup repo'.index
        BY <2>3
      <4> QED BY <1>1, <1>3, <2>3, <2>f, <4>1, <4>2, OthersLeaveLists
    <3>2. ListStands(t)'
      <4>1. ListStands(t)
        BY <1>1 DEF ListsStand
      <4> QED BY <2>1, <2>2, <2>3, <2>f, <2>m, <4>1 DEF ListStands, Turns, Looked, Listed
    <3> QED BY <3>1, <3>2 DEF ListsStand
  <2>6. CommitsAreListed'
    <3>1. \A u \in Taps : job[u].pc \notin Early => job'[u] = job[u]
      BY <2>1, <2>2 DEF ProvisioningAssumption, Turns
    <3> QED BY <1>1, <2>1, <2>m, <3>1, HistoryStands
  <2>7. CommitsAreOwnedUp'
    <3>1. \A i \in 1..Len(commits) : commits[i].by # t
      BY <1>1, <2>1, NothingYet
    <3>2. job'[t].answer \notin {"refused", "failed"}
      BY <1>1, <2>1, <2>2 DEF ProvisioningInvariant, CommitsAreOwnedUp
    <3> QED BY <1>1, <2>1, <2>2, <3>1, <3>2, OwnedStands DEF ProvisioningInvariant, Turns
  <2>8. Unnoticed(t)
    BY <1>1, <2>1, <2>2 DEF Unnoticed, Turns
  <2> QED BY <1>1, <2>4, <2>5, <2>6, <2>7, <2>8, UnnoticedKeeps DEF ProvisioningInvariant
<1> QED BY <1>2, <1>3 DEF StageListed

\* What a tap commits is what its list stood for; the lists of others no longer need be whole.
LEMMA CommittingKeeps ==
  ASSUME ProvisioningAssumption, ProvisioningInvariant, NEW t \in Taps, CommitStaged(t),
         UNCHANGED prvars
  PROVE  ProvisioningInvariant'
<1>1. t \in Jobs /\ t \notin Provisions /\ ProvisioningTypes /\ ListsStand /\ CommitsAreListed
  BY DEF ProvisioningAssumption, ProvisioningInvariant
<1>2. CASE Refused(t) /\ UNCHANGED <<repo, commits, meddled>>
  BY <1>1, <1>2, PlainRefusal, PlainKeeps DEF CommitStaged, FolderStays, prvars, Over
<1> DEFINE new == [by |-> t, branch |-> repo.branch, files |-> repo.index]
<1>3. CASE /\ commits' = Append(commits, new)
           /\ repo' = [repo EXCEPT !.index = {}]
           /\ Meddles(t, {}, {"committed"})
           /\ Goes(t, "saved")
  <2>1. UNCHANGED <<projects, commands, remote, requests>>
        /\ job[t].pc = "committing" /\ job[t].pc \in Early
    BY DEF CommitStaged, prvars, Early, Looked, Listed
  <2>2. Turns(t, "saved") /\ job'[t].answer = job[t].answer
    <3>1. "saved" \in Steps
      BY DEF Steps
    <3> QED BY <1>1, <1>3, <3>1, JobMoves
  <2>3. repo' \in Repository /\ repo'.branch = repo.branch /\ repo'.index = {}
    BY <1>1, <1>3 DEF ProvisioningTypes, Repository
  <2>4. /\ commits' \in Seq(Commit) /\ Len(commits') = Len(commits) + 1
        /\ \A i \in 1..Len(commits) : commits'[i] = commits[i]
        /\ commits'[Len(commits) + 1] = new
    <3>1. commits \in Seq(Commit) /\ new \in Commit
      BY <1>1 DEF ProvisioningTypes, Repository, Commit
    <3> HIDE DEF new
    <3> QED BY <1>3, <3>1
  <2>n. new.by = t /\ new.files = repo.index /\ new.branch = repo.branch
    OBVIOUS
  <2>l. Len(commits) \in Nat
    BY <1>1 DEF ProvisioningTypes
  <2> HIDE DEF new
  <2>m. /\ meddled' \in [Taps -> [staged : SUBSET Files, did : SUBSET {"switched", "committed"}]]
        /\ \A u \in Taps : meddled[u].staged \subseteq meddled'[u].staged
                             /\ meddled[u].did \subseteq meddled'[u].did
    BY <1>1, <1>3, MeddlesFacts
  <2>5. ProvisioningTypes'
    BY <1>1, <2>1, <2>2, <2>3, <2>4, <2>m DEF ProvisioningTypes, Turns
  <2>o. \A u \in Taps \ {t} : job'[u] = job[u]
    BY <2>2 DEF Turns, ProvisioningAssumption
  <2>6. ListsStand'
    <3>1. \A u \in Taps \ {t} : ListStands(u)'
      BY <1>1, <1>3, <2>3, <2>o, OthersLeaveLists
    <3>2. ListStands(t)'
      BY <2>2 DEF ListStands, Turns, Looked, Listed
    <3> QED BY <3>1, <3>2 DEF ListsStand
  <2>7. CommitsAreListed'
    <3>1. ASSUME NEW i \in 1..Len(commits'), commits'[i].by \in Taps
          PROVE  IsListed(commits[i], commits[i].by)'
      <4>1. CASE i \in 1..Len(commits)
        <5>1. commits'[i] = commits[i] /\ IsListed(commits[i], commits[i].by) /\ commits[i].by # t
          BY <1>1, <2>1, <2>4, <3>1, <4>1, NothingYet DEF CommitsAreListed
        <5> QED BY <2>m, <2>o, <3>1, <5>1 DEF IsListed
      <4>2. CASE i = Len(commits) + 1
        <5>1. ListStands(t)
          BY <1>1 DEF ListsStand
        <5>2. job'[t].pc \notin Early /\ job'[t].listed = job[t].listed
          BY <2>2 DEF Turns, Early, Looked, Listed
        <5> QED BY <2>1, <2>4, <2>n, <2>m, <4>2, <5>1, <5>2 DEF IsListed, ListStands, Looked, Listed
      <4> QED BY <2>4, <2>l, <4>1, <4>2
    <3> QED BY <3>1 DEF CommitsAreListed
  <2>8. CommitsAreOwnedUp'
    <3>1. \A i \in 1..Len(commits') :
            commits'[i].by \in Taps \ {t} => i \in 1..Len(commits) /\ commits'[i] = commits[i]
      BY <2>4, <2>n, <2>l
    <3>2. job'[t].answer \notin {"refused", "failed"}
      BY <1>1, <2>1, <2>2 DEF ProvisioningInvariant, CommitsAreOwnedUp
    <3>3. Owns(t)'
      BY <2>2 DEF Owns, Turns
    <3> QED BY <1>1, <2>2, <3>1, <3>2, <3>3, OwnedStands DEF ProvisioningInvariant, Turns
  <2>9. Unnoticed(t)
    BY <1>1, <2>1, <2>2 DEF Unnoticed, Turns
  <2> QED BY <1>1, <2>5, <2>6, <2>7, <2>8, <2>9, UnnoticedKeeps DEF ProvisioningInvariant
<1> QED BY <1>2, <1>3 DEF CommitStaged

\* Who committed remembers it, or ends in an error that denies nothing.
LEMMA RememberKeeps ==
  ASSUME ProvisioningAssumption, ProvisioningInvariant, NEW t \in Taps, Remember(t),
         UNCHANGED prvars
  PROVE  ProvisioningInvariant'
<1>1. t \in Jobs /\ t \notin Provisions /\ ProvisioningTypes /\ ListsStand /\ CommitsAreListed
  BY DEF ProvisioningAssumption, ProvisioningInvariant
<1>2. /\ UNCHANGED <<repo, commits, projects, commands, meddled, archived, remote, requests>>
      /\ job[t].pc = "saved"
  BY DEF Remember, OnlyJob, prvars
<1>3. /\ job' \in [Jobs -> Row] /\ \A y \in Jobs \ {t} : job'[y] = job[y]
      /\ job'[t].listed = job[t].listed /\ job'[t].unstaged = job[t].unstaged
      /\ \/ job'[t].pc = "enrolling" /\ job'[t].saved /\ job'[t].answer = job[t].answer
         \/ job'[t].pc = "refused" /\ job'[t].answer = "failed"
  <2>1. job \in [Jobs -> Row] /\ job[t] \in Row
    BY <1>1 DEF ProvisioningTypes
  <2>2. CASE job' = [job EXCEPT ![t].pc = "enrolling", ![t].saved = TRUE]
    BY <1>1, <2>1, <2>2 DEF Row, Steps
  <2>3. CASE job' = [job EXCEPT ![t].pc = "refused", ![t].answer = "failed"]
    BY <1>1, <2>1, <2>3 DEF Row, Steps, Answers
  <2> QED BY <2>2, <2>3 DEF Remember
<1>4. ProvisioningTypes'
  BY <1>1, <1>2, <1>3 DEF ProvisioningTypes
<1>t. \A u \in Taps : u # t => job'[u] = job[u]
  BY <1>3 DEF ProvisioningAssumption
<1>5. ListsStand'
  <2>1. \A u \in Taps : job'[u].pc \in Looked => job'[u] = job[u]
    BY <1>3, <1>t DEF Looked, Listed
  <2> QED BY <1>1, <1>2, <2>1, ListsRest
<1>6. CommitsAreListed'
  <2>1. \A u \in Taps : job[u].pc \notin Early => job'[u].pc \notin Early /\ job'[u].listed = job[u].listed
    BY <1>3, <1>t DEF Early, Looked, Listed
  <2> QED BY <1>1, <1>2, <2>1, HistoryStands
<1>7. CommitsAreOwnedUp'
  <2>1. Owns(t)'
    BY <1>3 DEF Owns
  <2>2. job[t].answer \notin {"refused", "failed"}
    BY <1>1, <1>2 DEF ProvisioningInvariant, CommitsAreOwnedUp
  <2> QED BY <1>1, <1>2, <1>3, <2>1, <2>2, OwnedStands DEF ProvisioningInvariant
<1>8. ProjectIsOne'
  BY <1>2 DEF ProjectIsOne, ProvisioningInvariant
<1>9. AnswersAreStored'
  BY <1>2, <1>3, <1>t DEF AnswersAreStored, ProvisioningInvariant
<1>10. ProvisionsOwn'
  BY <1>1, <1>2, <1>3 DEF ProvisionsOwn, ProvisioningInvariant, ProvisioningAssumption
<1> QED BY <1>4, <1>5, <1>6, <1>7, <1>8, <1>9, <1>10 DEF ProvisioningInvariant

\* A provision commits in its own name.
LEMMA FolderKeeps ==
  ASSUME ProvisioningAssumption, ProvisioningInvariant, NEW p \in Provisions, CommitFolder(p)
  PROVE  ProvisioningInvariant'
<1>1. p \in Jobs /\ p \notin Taps /\ ProvisioningTypes /\ ListsStand /\ CommitsAreListed
  BY DEF ProvisioningAssumption, ProvisioningInvariant
<1>2. CASE Refused(p) /\ UNCHANGED <<repo, commits, meddled>>
  BY <1>1, <1>2, PlainRefusal, PlainKeeps DEF CommitFolder, FolderStays, prvars, Over
<1> DEFINE new == [by |-> p, branch |-> repo.branch, files |-> Unsaved]
<1>3. CASE /\ commits' = Append(commits, new)
           /\ repo' = [repo EXCEPT !.worktree = {}, !.index = {}]
           /\ Meddles(p, {}, {"committed"})
           /\ Goes(p, "asking")
  <2>1. UNCHANGED <<projects, commands, remote, requests>> /\ job[p].pc = "adding"
    BY DEF CommitFolder, prvars
  <2>2. Turns(p, "asking") /\ job'[p].answer = job[p].answer
    <3>1. "asking" \in Steps
      BY DEF Steps
    <3> QED BY <1>1, <1>3, <3>1, JobMoves
  <2>3. repo' \in Repository /\ repo'.branch = repo.branch /\ repo'.index = {}
    BY <1>1, <1>3 DEF ProvisioningTypes, Repository
  <2>4. /\ commits' \in Seq(Commit)
        /\ \A i \in 1..Len(commits') :
             commits'[i].by \in Taps => i \in 1..Len(commits) /\ commits'[i] = commits[i]
    <3>1. commits \in Seq(Commit) /\ new \in Commit /\ new.by \notin Taps
      BY <1>1 DEF ProvisioningTypes, Repository, Commit, Unsaved
    <3> HIDE DEF new
    <3> QED BY <1>3, <3>1
  <2> HIDE DEF new
  <2>m. /\ meddled' \in [Taps -> [staged : SUBSET Files, did : SUBSET {"switched", "committed"}]]
        /\ \A u \in Taps : meddled[u].staged \subseteq meddled'[u].staged
                             /\ meddled[u].did \subseteq meddled'[u].did
    BY <1>1, <1>3, MeddlesFacts
  <2>t. \A u \in Taps : job'[u] = job[u]
    BY <1>1, <2>2 DEF Turns, ProvisioningAssumption
  <2>5. ProvisioningTypes'
    BY <1>1, <2>1, <2>2, <2>3, <2>4, <2>m DEF ProvisioningTypes, Turns
  <2>6. ListsStand'
    <3>1. \A u \in Taps \ {p} : ListStands(u)'
      BY <1>1, <1>3, <2>3, <2>t, OthersLeaveLists
    <3> QED BY <1>1, <3>1 DEF ListsStand
  <2>7. CommitsAreListed'
    BY <1>1, <2>4, <2>m, <2>t, HistoryStands
  <2>8. CommitsAreOwnedUp'
    <3>1. job'[p].answer \notin {"refused", "failed"}
      BY <1>1, <2>1, <2>2 DEF ProvisioningInvariant, CommitsAreOwnedUp
    <3> QED BY <1>1, <2>2, <2>4, <3>1, OwnedStands DEF ProvisioningInvariant, Turns
  <2>9. Unnoticed(p)
    BY <1>1, <2>1, <2>2 DEF Unnoticed, Owning, Turns
  <2> QED BY <1>1, <2>5, <2>6, <2>7, <2>8, <2>9, UnnoticedKeeps DEF ProvisioningInvariant
<1> QED BY <1>2, <1>3 DEF CommitFolder

\* A job's turn to its end moves no list and disowns no commit.
LEMMA QuietTurn ==
  ASSUME ProvisioningAssumption, ProvisioningInvariant, NEW x \in Jobs,
         job[x].pc \in {"inserting", "enrolled", "already"},
         NEW pc \in {"enrolled", "answered"}, Turns(x, pc),
         \/ job'[x].answer = job[x].answer
         \/ job'[x].answer \in {"enrolled", "already"},
         UNCHANGED <<repo, commits, meddled>>
  PROVE  ListsStand' /\ CommitsAreListed' /\ CommitsAreOwnedUp'
<1>1. /\ \A y \in Jobs \ {x} : job'[y] = job[y]
      /\ job'[x].pc = pc /\ job'[x].listed = job[x].listed /\ job'[x].saved = job[x].saved
      /\ ListsStand /\ CommitsAreListed /\ CommitsAreOwnedUp /\ Taps \subseteq Jobs
  BY DEF Turns, ProvisioningInvariant, ProvisioningAssumption
<1>2. ListsStand'
  <2>1. \A u \in Taps : job'[u].pc \in Looked => job'[u] = job[u]
    BY <1>1 DEF Looked, Listed
  <2> QED BY <1>1, <2>1, ListsRest
<1>3. CommitsAreListed'
  <2>1. \A u \in Taps : job[u].pc \notin Early => job'[u].pc \notin Early /\ job'[u].listed = job[u].listed
    BY <1>1 DEF Early, Looked, Listed
  <2> QED BY <1>1, <2>1, HistoryStands
<1>4. CommitsAreOwnedUp'
  <2>1. job[x].answer \notin {"refused", "failed"} /\ job'[x].answer \notin {"refused", "failed"}
    BY <1>1 DEF CommitsAreOwnedUp
  <2>2. Owns(x)' \/ \A i \in 1..Len(commits) : x \in Taps => commits[i].by # x
    BY <1>1, <2>1 DEF CommitsAreOwnedUp, Owns
  <2> QED BY <1>1, <2>1, <2>2, OwnedStands
<1> QED BY <1>2, <1>3, <1>4

\* Who finds no project stores the only one.
LEMMA InsertKeeps ==
  ASSUME ProvisioningAssumption, ProvisioningInvariant, NEW x \in Taps \cup Provisions, Insert(x),
         UNCHANGED prvars
  PROVE  ProvisioningInvariant'
<1>1. x \in Jobs /\ ProvisioningTypes
  BY DEF ProvisioningAssumption, ProvisioningInvariant
<1>2. UNCHANGED <<repo, commits, commands, meddled, remote, requests>> /\ job[x].pc = "inserting"
  BY DEF Insert, prvars
<1>3. CASE projects # {}
  <2>1. CASE Refused(x)
    <3>1. job[x].pc \notin Over /\ UNCHANGED projects /\ FolderStays
      BY <1>2, <1>3 DEF Insert, Over, FolderStays
    <3>2. Plain(x)
      BY <1>1, <1>2, <2>1, <3>1, PlainRefusal
    <3> QED BY <1>1, <3>2, PlainKeeps
  <2>2. CASE x \in Taps /\ Goes(x, "already")
    <3>1. Rests
      BY <1>2, <1>3 DEF Insert, Rests, FolderStays
    <3>2. "already" \in PlainSteps \ ({"refused", "answered"} \cup Early) /\ x \notin Provisions
      BY <2>2 DEF Steps, PlainSteps, Early, Looked, Listed, ProvisioningAssumption
    <3>3. job[x].pc \notin Over
      BY <1>2 DEF Over
    <3>4. Plain(x)
      BY <1>1, <1>2, <2>2, <3>1, <3>2, <3>3, PlainGoing
    <3> QED BY <1>1, <3>4, PlainKeeps
  <2> QED BY <1>3, <2>1, <2>2 DEF Insert
<1>4. CASE projects = {}
  <2> DEFINE new == [by |-> x, head |-> job[x].head, clone |-> job[x].clone]
  <2>1. projects' = {new} /\ Goes(x, "enrolled")
    BY <1>4 DEF Insert
  <2>2. Turns(x, "enrolled") /\ job'[x].answer = job[x].answer
    <3>1. "enrolled" \in Steps
      BY DEF Steps
    <3> QED BY <1>1, <2>1, <3>1, JobMoves
  <2>3. new \in [by : Jobs, head : Nat, clone : Nat] /\ new.by = x
    BY <1>1 DEF ProvisioningTypes, Row
  <2> HIDE DEF new
  <2>4. ProvisioningTypes'
    BY <1>1, <1>2, <2>1, <2>2, <2>3 DEF ProvisioningTypes, Turns
  <2>5. ListsStand' /\ CommitsAreListed' /\ CommitsAreOwnedUp'
    BY <1>1, <1>2, <2>2, QuietTurn DEF ProvisioningInvariant
  <2>7. ProjectIsOne'
    BY <2>1 DEF ProjectIsOne
  <2>8. AnswersAreStored'
    BY <1>1, <1>2, <2>2 DEF ProvisioningInvariant, AnswersAreStored, ProvisioningAssumption, Turns
  <2>9. ProvisionsOwn'
    <3> SUFFICES ASSUME NEW p \in Provisions
                 PROVE  /\ job'[p].pc \in Owning => remote' = p
                        /\ job'[p].pc \in {"enrolled", "done"} => \E project \in projects' : project.by = p
                        /\ job'[p].pc = "done" => p \in requests'
                        /\ job'[p].pc # "already"
      BY DEF ProvisionsOwn, Owning
    <3>1. /\ job[p].pc \in Owning => remote = p
          /\ job[p].pc \notin {"enrolled", "done", "already"}
          /\ p \in Jobs
      BY <1>4 DEF ProvisioningInvariant, ProvisionsOwn, Owning, ProvisioningAssumption
    <3>2. CASE p = x
      BY <1>2, <2>1, <2>2, <2>3, <3>1, <3>2 DEF Owning, Turns
    <3>3. CASE p # x
      BY <1>2, <2>2, <3>1, <3>3 DEF Turns
    <3> QED BY <3>2, <3>3
  <2> QED BY <2>4, <2>5, <2>7, <2>8, <2>9 DEF ProvisioningInvariant
<1> QED BY <1>3, <1>4

\* The first answer under a key is the one that all who asked with it are given.
LEMMA RecordKeeps ==
  ASSUME ProvisioningAssumption, ProvisioningInvariant, NEW t \in Taps, Record(t),
         UNCHANGED prvars
  PROVE  ProvisioningInvariant'
<1> DEFINE answer == Stored(t, job[t].pc)
<1>1. t \in Jobs /\ t \notin Provisions /\ ProvisioningTypes
  BY DEF ProvisioningAssumption, ProvisioningInvariant
<1>2. /\ UNCHANGED <<repo, commits, projects, meddled, remote, requests>>
      /\ job[t].pc \in {"enrolled", "already"}
      /\ commands' = [commands EXCEPT ![Key[t]] = answer]
      /\ job' = [job EXCEPT ![t].pc = "answered", ![t].answer = answer]
  BY DEF Record, prvars
<1>3. /\ answer \in {"enrolled", "already"}
      /\ commands[Key[t]] # Nobody => answer = commands[Key[t]]
  BY <1>1, <1>2 DEF Stored, ProvisioningTypes
<1>4. Turns(t, "answered") /\ job'[t].answer = answer
  BY <1>1, <1>2, <1>3, JobMoves DEF Answers
<1> HIDE DEF answer
<1>5. /\ commands' \in [{Key[u] : u \in Taps} -> {Nobody, "enrolled", "already"}]
      /\ commands'[Key[t]] = answer
      /\ \A u \in Taps : Key[u] # Key[t] => commands'[Key[u]] = commands[Key[u]]
  BY <1>1, <1>2, <1>3 DEF ProvisioningTypes
<1>6. ProvisioningTypes'
  BY <1>1, <1>2, <1>4, <1>5 DEF ProvisioningTypes, Turns
<1>7. ListsStand' /\ CommitsAreListed' /\ CommitsAreOwnedUp'
  BY <1>1, <1>2, <1>3, <1>4, QuietTurn DEF ProvisioningInvariant
<1>9. ProjectIsOne'
  BY <1>2 DEF ProvisioningInvariant, ProjectIsOne
<1>10. AnswersAreStored'
  <2> SUFFICES ASSUME NEW u \in Taps, job'[u].pc = "answered"
               PROVE  job'[u].answer = commands'[Key[u]] /\ commands'[Key[u]] # Nobody
    BY DEF AnswersAreStored
  <2>1. CASE u = t
    BY <1>3, <1>4, <1>5, <2>1 DEF Nobody
  <2>2. CASE u # t
    <3>1. job[u].answer = commands[Key[u]] /\ commands[Key[u]] # Nobody /\ job'[u] = job[u]
      BY <1>4, <2>2 DEF ProvisioningInvariant, AnswersAreStored, ProvisioningAssumption, Turns
    <3> QED BY <1>3, <1>5, <3>1
  <2> QED BY <2>1, <2>2
<1>11. ProvisionsOwn'
  BY <1>1, <1>2, <1>4 DEF ProvisioningInvariant, ProvisionsOwn, ProvisioningAssumption, Turns
<1> QED BY <1>6, <1>7, <1>9, <1>10, <1>11 DEF ProvisioningInvariant

LEMMA NobodyMoves ==
  ASSUME ProvisioningInvariant, UNCHANGED vars
  PROVE  ProvisioningInvariant'
<1>1. UNCHANGED <<repo, commits, projects, job, commands, meddled, remote, requests>>
  BY DEF vars, evars, prvars
<1>2. ListsStand' /\ CommitsAreListed' /\ CommitsAreOwnedUp'
  BY <1>1 DEF ProvisioningInvariant, ListsStand, ListStands, CommitsAreListed, IsListed,
     CommitsAreOwnedUp, Owns
<1> QED BY <1>1, <1>2 DEF ProvisioningInvariant, ProvisioningTypes, ProjectIsOne, AnswersAreStored,
           ProvisionsOwn

LEMMA ProvisioningStep ==
  ASSUME ProvisioningAssumption, ProvisioningInvariant, [Next]_vars
  PROVE  ProvisioningInvariant'
<1>1. CASE UNCHANGED vars
  BY <1>1, NobodyMoves
<1>2. CASE Next
  <2>1. ProvisioningTypes /\ Taps \cup Provisions \subseteq Jobs
    BY DEF ProvisioningInvariant, ProvisioningAssumption
  <2> QED BY <1>2, <2>1, OtherSteps, OwnerKeeps, RestartKeeps, ListingKeeps, StagingKeeps,
             CommittingKeeps, RememberKeeps, RecordKeeps, FolderKeeps, InsertKeeps, PlainKeeps
<1> QED BY <1>1, <1>2

LEMMA ProvisioningStarts ==
  ASSUME ProvisioningAssumption, Init
  PROVE  ProvisioningInvariant
<1>1. PICK there \in BOOLEAN : EnrolmentInit(there)
  BY DEF Init
<1>2. /\ repo = [there |-> there, branch |-> "main", worktree |-> {}, index |-> {}]
      /\ commits = IF there THEN <<[by |-> Owner, branch |-> "main", files |-> {}]>> ELSE <<>>
      /\ projects = {} /\ meddled = [t \in Taps |-> Alone] /\ remote = Nobody /\ requests = {}
      /\ job = [x \in Jobs |-> NewJob]
      /\ commands = [k \in {Key[t] : t \in Taps} |-> Nobody]
  BY <1>1 DEF Init, EnrolmentInit
<1>3. NewJob \in Row /\ NewJob.pc = "new" /\ NewJob.answer = Nobody
  BY DEF NewJob, Row, Steps, Answers, Nobody
<1>4. commits \in Seq(Commit) /\ \A i \in 1..Len(commits) : commits[i].by \notin Taps
  <2>1. CASE there
    <3>1. [by |-> Owner, branch |-> "main", files |-> {}] \in Commit /\ Owner \notin Taps
      BY DEF Commit, Branches, ProvisioningAssumption
    <3> QED BY <1>2, <2>1, <3>1
  <2>2. CASE ~there
    BY <1>2, <2>2
  <2> QED BY <2>1, <2>2
<1>5. repo \in Repository /\ repo.index = {}
  BY <1>2 DEF Repository, Branches
<1>6. ProvisioningTypes
  BY <1>2, <1>3, <1>4, <1>5 DEF ProvisioningTypes, Alone
<1>7. ListsStand /\ CommitsAreListed /\ CommitsAreOwnedUp
  BY <1>2, <1>3, <1>4, <1>5 DEF ListsStand, ListStands, CommitsAreListed, CommitsAreOwnedUp, Looked,
     Listed, Nobody, ProvisioningAssumption
<1>8. ProjectIsOne /\ AnswersAreStored /\ ProvisionsOwn
  BY <1>2, <1>3 DEF ProjectIsOne, AnswersAreStored, ProvisionsOwn, ProvisioningAssumption
<1> QED BY <1>6, <1>7, <1>8 DEF ProvisioningInvariant

-------------------------------------------------------------------------------
(* The theorems *)

LEMMA ProductsAreSound ==
  ASSUME ProvisioningAssumption, ProvisioningInvariant
  PROVE  HistoryIsTheOwners /\ EnrolledOnce /\ DoneIsItsOwn
<1>1. HistoryIsTheOwners
  <2> SUFFICES ASSUME NEW i \in 1..Len(commits), commits[i].by \in Taps
               PROVE  /\ commits[i].files \subseteq job[commits[i].by].listed
                                                      \cup meddled[commits[i].by].staged
                      /\ Secret \in commits[i].files => Secret \in meddled[commits[i].by].staged
                      /\ \/ job[commits[i].by].listed \subseteq commits[i].files
                         \/ "committed" \in meddled[commits[i].by].did
                      /\ commits[i].branch = "main" \/ "switched" \in meddled[commits[i].by].did
                      /\ job[commits[i].by].answer # "refused"
    BY DEF HistoryIsTheOwners
  <2>1. commits[i].by \in Jobs /\ Owns(commits[i].by) /\ IsListed(commits[i], commits[i].by)
    BY DEF ProvisioningAssumption, ProvisioningInvariant, CommitsAreOwnedUp, CommitsAreListed
  <2>2. job[commits[i].by].answer # "refused"
    BY <2>1 DEF ProvisioningInvariant, CommitsAreOwnedUp, Owns
  <2> QED BY <2>1, <2>2 DEF IsListed
<1>2. EnrolledOnce
  <2>1. Cardinality(projects) <= 1
    <3>1. CASE projects = {}
      BY <3>1, FS_EmptySet
    <3>2. CASE \E p : projects = {p}
      <4>1. PICK p : projects = {p}
        BY <3>2
      <4>2. Cardinality({p}) = 1
        BY FS_Singleton
      <4> QED BY <4>1, <4>2
    <3> QED BY <3>1, <3>2 DEF ProvisioningInvariant, ProjectIsOne
  <2> QED BY <2>1 DEF EnrolledOnce, ProvisioningInvariant, AnswersAreStored
<1>3. DoneIsItsOwn
  BY DEF DoneIsItsOwn, ProvisioningInvariant, ProvisionsOwn
<1> QED BY <1>1, <1>2, <1>3

\* Whatever the owner does in the repository meanwhile, however often the tap comes and the host
\* restarts, and whoever has been given the same name: jobs, commits, projects and stored answers
\* stay related as the parts of the invariant say.
THEOREM ProvisioningInvariantHolds ==
  ASSUME ProvisioningAssumption PROVE Spec => []ProvisioningInvariant
<1> USE ProvisioningAssumption
<1>1. Init => ProvisioningInvariant
  BY ProvisioningStarts
<1>2. ProvisioningInvariant /\ [Next]_vars => ProvisioningInvariant'
  BY ProvisioningStep
<1> QED BY <1>1, <1>2, PTL DEF Spec

\* What Arena commits for the owner differs from what the tap listed, free of secrets, on main,
\* only by what others staged, committed or switched since it looked; no tap that committed says
\* that nothing was changed; the repository becomes one project, one key has one answer, and a
\* provision that is done has its own repository, project and request.
THEOREM OwnersRepositoryIsSafe ==
  ASSUME ProvisioningAssumption PROVE Spec => [](HistoryIsTheOwners /\ EnrolledOnce /\ DoneIsItsOwn)
<1>1. ProvisioningInvariant => HistoryIsTheOwners /\ EnrolledOnce /\ DoneIsItsOwn
  BY ProvisioningAssumption, ProductsAreSound
<1> QED BY <1>1, ProvisioningAssumption, ProvisioningInvariantHolds, PTL
===============================================================================
